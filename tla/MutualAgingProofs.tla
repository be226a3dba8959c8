------------------------- MODULE MutualAgingProofs -------------------------
(***************************************************************************)
(* Proofs about the two boards of mutual_aging, for every size of the      *)
(* queues and every kind and number of disturbances.                       *)
(***************************************************************************)
EXTENDS MutualAging, SequenceCounts, TLAPS

\* The type of each variable, without the bounds that follow from how the
\* buffers and the data packets are accounted for.
Shapes ==
  /\ pc \in [Boards -> {"off", "opened", "test", "wait", "ack", "decide",
                         "transfer", "failed"}]
  /\ timeUp \in [Boards -> BOOLEAN]
  /\ counter \in [Boards -> Nat] /\ counter[Sender] <= MaxData
  /\ egress \in [Boards -> Seq(Frames)] /\ iqueue \in [Boards -> Seq(Frames)]
  /\ \A b \in Boards :
       Len(egress[b]) <= EqueueEntries /\ Len(iqueue[b]) <= NotifEntries
  /\ stack \in [Boards -> Nat]
  /\ hands \in 0 .. MaxHands /\ acked \in BOOLEAN
  /\ late \in [Boards -> 0 .. MaxLate] /\ missed \in Nat

Short == {f \in Frames : f.length = 64}
Long  == {f \in Frames : f.length = 512}

\* Why the lengths fit: the receiver sends short frames only, an
\* acknowledgement is under way only after `acked`, the sender goes on only
\* after one arrived, and only then are there long frames.
TalkInv ==
  /\ AllIn(egress[Receiver], Short) /\ AllIn(iqueue[Sender], Short)
  /\ acked => pc[Receiver] \in {"decide", "transfer", "failed"}
  /\ ~ acked =>
       /\ AllIn(egress[Receiver], Short \ {Ack})
       /\ AllIn(iqueue[Sender], Short \ {Ack})
       /\ AllIn(egress[Sender], Short) /\ AllIn(iqueue[Receiver], Short)
       /\ pc[Sender] # "transfer"
       /\ pc[Sender] = "decide" => timeUp[Sender]

\* The buffers that the accounts know of.
Known(b) == stack[b] + Len(egress[b]) + Len(iqueue[b]) + late[b]

BufferInv ==
  \A b \in Boards :
    /\ pc[b] \in {"off", "opened"} => Known(b) = 0
    /\ Known(b) = NumBuffers \/ (~ Alive(b) /\ Known(b) = 0)

AgingInv == Shapes /\ TalkInv /\ BufferInv /\ DataAccounted

-----------------------------------------------------------------------------
LEMMA Constants ==
  /\ EqueueEntries \in Nat \ {0} /\ NotifEntries \in Nat \ {0}
  /\ NumBuffers \in Nat \ {0}
  /\ MaxHands \in Nat /\ MaxLate \in Nat /\ MaxData \in Nat
  /\ Sender \in Boards /\ Receiver \in Boards /\ Sender # Receiver
  /\ Boards = {Sender, Receiver}
  /\ Peer(Sender) = Receiver /\ Peer(Receiver) = Sender
BY AgingRingsAssumption, AgingBoundsAssumption
   DEF NumBuffers, Boards, Sender, Receiver, Peer

LEMMA Numbers ==
  ASSUME Shapes, NEW b \in Boards
  PROVE  /\ stack[b] \in Nat /\ late[b] \in Nat
         /\ Len(egress[b]) \in Nat /\ Len(iqueue[b]) \in Nat
         /\ Known(b) \in Nat
<1>1. stack[b] \in Nat /\ late[b] \in Nat
  BY Constants DEF Shapes
<1>2. Len(egress[b]) \in Nat /\ Len(iqueue[b]) \in Nat
  BY DEF Shapes
<1> QED
  BY <1>1, <1>2 DEF Known, Shapes

LEMMA FramesSent == Hand \in Frames /\ Ack \in Frames /\ Data \in Frames
BY DEF Frames

LEMMA FrameKinds ==
  /\ Hand \in Short /\ Ack \in Short /\ Data \in Long /\ Hand # Ack
  /\ Short \subseteq Frames /\ Long \subseteq Frames
  /\ \A f \in Frames : f \in Short <=> f \notin Long
  /\ \A f \in Frames : f.length \in {64, 512}
  /\ \A f \in Frames :
       LET n == [f EXCEPT !.content = "noise"] IN
         n \in Frames /\ n # Ack /\ (n \in Long <=> f \in Long)
BY DEF Hand, Ack, Data, Frames, Short, Long

\* DataIn counts the long frames.
LEMMA DataInCount ==
  ASSUME NEW s \in Seq(Frames)
  PROVE  DataIn(s) = Count(s, Long) /\ DataIn(s) \in Nat
<1>1. {k \in DOMAIN s : s[k].length = 512} = Hits(s, Long)
  BY DEF Hits, Long
<1> QED
  BY <1>1, HitsFinite DEF DataIn, Count

LEMMA DataInEmpty == DataIn(<<>>) = 0
<1>1. <<>> \in Seq(Frames)
  OBVIOUS
<1> QED
  BY <1>1, DataInCount, CountEmpty

LEMMA DataInOne ==
  ASSUME NEW f \in Frames
  PROVE  DataIn(<<f>>) = One(f, Long)
<1>1. <<f>> = Append(<<>>, f) /\ <<f>> \in Seq(Frames) /\ <<>> \in Seq(Frames)
  OBVIOUS
<1>2. Count(Append(<<>>, f), Long) = Count(<<>>, Long) + One(f, Long)
  BY <1>1, CountAppend
<1>3. Count(<<>>, Long) = 0 /\ One(f, Long) \in Nat
  BY CountEmpty DEF One
<1>4. DataIn(<<f>>) = Count(<<f>>, Long)
  BY <1>1, DataInCount
<1> QED
  BY <1>1, <1>2, <1>3, <1>4

LEMMA DataInAppend ==
  ASSUME NEW s \in Seq(Frames), NEW f \in Frames
  PROVE  DataIn(Append(s, f)) = DataIn(s) + One(f, Long)
<1>1. Append(s, f) \in Seq(Frames)
  OBVIOUS
<1>2. Count(Append(s, f), Long) = Count(s, Long) + One(f, Long)
  BY CountAppend
<1>3. DataIn(Append(s, f)) = Count(Append(s, f), Long)
  BY <1>1, DataInCount
<1>4. DataIn(s) = Count(s, Long)
  BY DataInCount
<1> QED
  BY <1>2, <1>3, <1>4

LEMMA DataInTail ==
  ASSUME NEW s \in Seq(Frames), s # <<>>
  PROVE  DataIn(s) = DataIn(Tail(s)) + One(Head(s), Long)
<1>1. Tail(s) \in Seq(Frames)
  OBVIOUS
<1> QED
  BY <1>1, DataInCount, CountTail

-----------------------------------------------------------------------------
LEMMA AgingInit == Init => AgingInv
<1> SUFFICES ASSUME Init PROVE AgingInv
  OBVIOUS
<1> USE Constants
<1>0. <<>> \in Seq(Frames) /\ Len(<<>>) = 0
  OBVIOUS
<1>1. Shapes /\ BufferInv
  <2>1. Shapes
    <3>1. /\ egress \in [Boards -> Seq(Frames)] /\ iqueue \in [Boards -> Seq(Frames)]
          /\ \A b \in Boards : Len(egress[b]) = 0 /\ Len(iqueue[b]) = 0
      BY <1>0 DEF Init
    <3>2. 0 <= EqueueEntries /\ 0 <= NotifEntries
      OBVIOUS
    <3>3. \A b \in Boards :
            Len(egress[b]) <= EqueueEntries /\ Len(iqueue[b]) <= NotifEntries
      BY <3>1, <3>2
    <3>4. late \in [Boards -> 0 .. MaxLate] /\ stack \in [Boards -> Nat]
      BY DEF Init
    <3>6. counter \in [Boards -> Nat] /\ counter[Sender] <= MaxData
      BY DEF Init
    <3>7. hands \in 0 .. MaxHands
      BY DEF Init
    <3>8. acked \in BOOLEAN /\ missed \in Nat
      BY DEF Init
    <3>5. pc \in [Boards -> {"off"}] /\ timeUp \in [Boards -> BOOLEAN]
      BY DEF Init
    <3> QED
      BY <3>1, <3>3, <3>4, <3>5, <3>6, <3>7, <3>8 DEF Shapes
  <2>2. ASSUME NEW b \in Boards
        PROVE  stack[b] = 0 /\ Len(egress[b]) = 0 /\ Len(iqueue[b]) = 0
               /\ late[b] = 0 /\ pc[b] = "off"
    BY <1>0, <2>2 DEF Init
  <2> QED
    BY <2>1, <2>2 DEF BufferInv, Known, Alive
<1>2. TalkInv
  BY DEF Init, TalkInv, AllIn
<1>3. DataAccounted
  BY DataInEmpty DEF Init, DataAccounted
<1> QED
  BY <1>1, <1>2, <1>3 DEF AgingInv

-----------------------------------------------------------------------------
(* What the steps do to the queues. *)

\* Steps that leave the queues and the accounts alone.
Quiet ==
  UNCHANGED <<egress, iqueue, counter, missed, late, acked>>

LEMMA QuietKeeps ==
  ASSUME AgingInv, Quiet, Shapes', BufferInv',
         pc'[Receiver] = pc[Receiver]
           \/ ~ acked
           \/ pc'[Receiver] \in {"decide", "transfer", "failed"},
         ~ acked => /\ pc'[Sender] # "transfer"
                    /\ pc'[Sender] = "decide" => timeUp'[Sender]
  PROVE  AgingInv'
<1>1. TalkInv'
  BY DEF AgingInv, TalkInv, Quiet
<1>2. DataAccounted'
  BY DEF AgingInv, DataAccounted, Quiet
<1> QED
  BY <1>1, <1>2 DEF AgingInv

LEMMA StartKeeps ==
  ASSUME AgingInv, NEW b \in Boards, Start(b)
  PROVE  AgingInv'
<1> USE Constants DEF At, Goto, nic, hist
<1>1. Quiet /\ UNCHANGED <<timeUp, hands>>
  BY DEF Start, mpsock_link_open, mpsock_context_init, Quiet
<1>2. /\ pc[b] \in {"off", "opened"}
      /\ \E l \in {"opened", "failed", "test"} : pc' = [pc EXCEPT ![b] = l]
  BY DEF Start, mpsock_link_open, mpsock_context_init
<1>3. stack' = stack \/ (/\ stack' = [stack EXCEPT ![b] = NumBuffers]
                         /\ pc' = [pc EXCEPT ![b] = "test"])
  BY DEF Start, mpsock_link_open, mpsock_context_init
<1>5. Shapes'
  BY <1>1, <1>2, <1>3 DEF AgingInv, Shapes, Quiet
<1>6. ASSUME NEW c \in Boards, c # b
      PROVE  pc'[c] = pc[c] /\ stack'[c] = stack[c]
  BY <1>2, <1>3, <1>6 DEF AgingInv, Shapes
<1>7. \/ pc'[b] \in {"opened", "failed"} /\ stack'[b] = stack[b]
      \/ pc'[b] = "test" /\ stack'[b] = NumBuffers
  BY DEF Start, mpsock_link_open, mpsock_context_init, AgingInv, Shapes
<1>8. ASSUME NEW c \in Boards
      PROVE  Known(c)' = Known(c) - stack[c] + stack'[c]
  <2>1. Known(c)' = stack'[c] + Len(egress[c]) + Len(iqueue[c]) + late[c]
    BY <1>1 DEF Known, Quiet
  <2>2. Known(c) = stack[c] + Len(egress[c]) + Len(iqueue[c]) + late[c]
    BY DEF Known
  <2>3. stack'[c] \in Nat
    BY <1>5 DEF Shapes
  <2>4. /\ stack[c] \in Nat /\ late[c] \in Nat
        /\ Len(egress[c]) \in Nat /\ Len(iqueue[c]) \in Nat
    BY Numbers DEF AgingInv
  <2>5. PICK s \in Nat, t \in Nat, e \in Nat, q \in Nat, l \in Nat :
          /\ s = stack[c] /\ t = stack'[c] /\ e = Len(egress[c])
          /\ q = Len(iqueue[c]) /\ l = late[c]
    BY <2>3, <2>4
  <2>6. Known(c)' = t + e + q + l /\ Known(c) = s + e + q + l
    BY <2>1, <2>2, <2>5
  <2>7. t + e + q + l = (s + e + q + l) - s + t
    OBVIOUS
  <2> QED
    BY <2>5, <2>6, <2>7
<1>9. Known(b) = 0 /\ stack[b] = 0
  <2>1. Known(b) = 0
    BY <1>2 DEF AgingInv, BufferInv
  <2>2. /\ stack[b] \in Nat /\ late[b] \in Nat
        /\ Len(egress[b]) \in Nat /\ Len(iqueue[b]) \in Nat
    BY Numbers DEF AgingInv
  <2> QED
    BY <2>1, <2>2 DEF Known
<1>10. BufferInv'
  <2> SUFFICES ASSUME NEW c \in Boards
               PROVE  /\ pc'[c] \in {"off", "opened"} => Known(c)' = 0
                      /\ Known(c)' = NumBuffers \/ (~ Alive(c)' /\ Known(c)' = 0)
    BY DEF BufferInv
  <2>1. CASE c = b
    BY <1>7, <1>8, <1>9, <2>1 DEF Alive
  <2>2. CASE c # b
    <3>1. stack[c] \in Nat /\ Known(c) \in Nat
      BY Numbers DEF AgingInv
    <3>2. Known(c)' = Known(c) /\ pc'[c] = pc[c]
      BY <1>6, <1>8, <2>2, <3>1
    <3> QED
      BY <3>2 DEF AgingInv, BufferInv, Alive
  <2> QED
    BY <2>1, <2>2
<1> QED
  BY <1>1, <1>2, <1>5, <1>10, QuietKeeps DEF AgingInv, Shapes, TalkInv

LEMMA ClockKeeps ==
  ASSUME AgingInv, NEW b \in Boards, TimeUp(b) \/ GiveUp(b) \/ Decide(b)
  PROVE  AgingInv'
<1> USE Constants DEF At, Goto, nic, hist
<1>1. Quiet /\ UNCHANGED <<stack, hands>>
  BY DEF TimeUp, GiveUp, Decide, Quiet
<1>2. \/ pc' = pc /\ timeUp' = [timeUp EXCEPT ![b] = TRUE]
      \/ /\ timeUp' = timeUp
         /\ \/ /\ pc[b] = "test" /\ timeUp[b]
               /\ pc' = [pc EXCEPT ![b] = "decide"]
            \/ /\ pc[b] = "decide" /\ timeUp[b]
               /\ pc' = [pc EXCEPT ![b] = "failed"]
            \/ /\ pc[b] = "decide" /\ ~ timeUp[b]
               /\ pc' = [pc EXCEPT ![b] = "transfer"]
  BY DEF TimeUp, GiveUp, Decide
<1>3. Shapes'
  BY <1>1, <1>2 DEF AgingInv, Shapes, Quiet
<1>4. BufferInv'
  BY <1>1, <1>2 DEF AgingInv, Shapes, BufferInv, Quiet, Known, Alive
<1> QED
  BY <1>1, <1>2, <1>3, <1>4, QuietKeeps DEF AgingInv, Shapes, TalkInv

LEMMA ListenKeeps ==
  ASSUME AgingInv, Listen
  PROVE  AgingInv'
<1> USE Constants DEF At, Goto, nic, hist
<1>1. Quiet /\ UNCHANGED <<timeUp, stack, hands>>
      /\ pc[Receiver] = "test" /\ pc' = [pc EXCEPT ![Receiver] = "wait"]
  BY DEF Listen, Quiet
<1>2. Shapes'
  BY <1>1 DEF AgingInv, Shapes, Quiet
<1>3. BufferInv'
  BY <1>1 DEF AgingInv, Shapes, BufferInv, Quiet, Known, Alive
<1> QED
  BY <1>1, <1>2, <1>3, QuietKeeps DEF AgingInv, Shapes, TalkInv

-----------------------------------------------------------------------------
(* The steps that move frames. *)

\* A step that moves buffers but loses none.
LEMMA BufferKeeps ==
  ASSUME BufferInv, \A c \in Boards : Known(c)' = Known(c),
         \A c \in Boards : \/ pc'[c] = pc[c]
                           \/ Alive(c) /\ pc'[c] \notin {"off", "opened"}
  PROVE  BufferInv'
BY DEF BufferInv, Alive

\* A buffer that goes from one place to another stays known.
LEMMA BufferMoves ==
  ASSUME NEW c \in Boards,
         stack[c] \in Nat, late[c] \in Nat,
         Len(egress[c]) \in Nat, Len(iqueue[c]) \in Nat,
         stack'[c] \in Nat, late'[c] \in Nat,
         Len(egress'[c]) \in Nat, Len(iqueue'[c]) \in Nat,
         \/ /\ late'[c] = late[c] /\ Len(iqueue'[c]) = Len(iqueue[c])
            /\ \/ stack'[c] = stack[c] /\ Len(egress'[c]) = Len(egress[c])
               \/ stack'[c] = stack[c] - 1 /\ Len(egress'[c]) = Len(egress[c]) + 1
               \/ stack'[c] = stack[c] + 1 /\ Len(egress'[c]) = Len(egress[c]) - 1
         \/ /\ late'[c] = late[c] /\ Len(egress'[c]) = Len(egress[c])
            /\ \/ stack'[c] = stack[c] - 1 /\ Len(iqueue'[c]) = Len(iqueue[c]) + 1
               \/ stack'[c] = stack[c] + 1 /\ Len(iqueue'[c]) = Len(iqueue[c]) - 1
         \/ /\ stack'[c] = stack[c] /\ Len(egress'[c]) = Len(egress[c])
            /\ late'[c] = late[c] + 1 /\ Len(iqueue'[c]) = Len(iqueue[c]) - 1
  PROVE  Known(c)' = Known(c)
<1> DEFINE s == stack[c]  e == Len(egress[c])  i == Len(iqueue[c])  l == late[c]
           t == stack'[c] f == Len(egress'[c]) j == Len(iqueue'[c]) m == late'[c]
<1>1. /\ s \in Nat /\ e \in Nat /\ i \in Nat /\ l \in Nat
      /\ t \in Nat /\ f \in Nat /\ j \in Nat /\ m \in Nat
  OBVIOUS
<1>2. \/ /\ m = l /\ j = i
         /\ \/ t = s /\ f = e
            \/ t = s - 1 /\ f = e + 1
            \/ t = s + 1 /\ f = e - 1
      \/ /\ m = l /\ f = e
         /\ \/ t = s - 1 /\ j = i + 1
            \/ t = s + 1 /\ j = i - 1
      \/ /\ t = s /\ f = e
         /\ m = l + 1 /\ j = i - 1
  OBVIOUS
<1>3. t + f + j + m = s + e + i + l
  <2> HIDE DEF s, e, i, l, t, f, j, m
  <2> QED
    BY <1>1, <1>2
<1> QED
  BY <1>3 DEF Known

LEMMA SendEffect ==
  ASSUME Shapes, NEW b \in Boards, NEW f \in Frames, Send(b, f), late' = late
  PROVE  /\ egress' \in [Boards -> Seq(Frames)] /\ stack' \in [Boards -> Nat]
         /\ iqueue' = iqueue /\ egress'[b] = Append(egress[b], f)
         /\ \A c \in Boards : Len(egress'[c]) <= EqueueEntries
         /\ \A c \in Boards \ {b} : egress'[c] = egress[c]
         /\ \A c \in Boards : Known(c)' = Known(c)
<1>1. /\ stack[b] > 0 /\ Len(egress[b]) < EqueueEntries
      /\ stack' = [stack EXCEPT ![b] = @ - 1]
      /\ egress' = [egress EXCEPT ![b] = Append(@, f)]
      /\ iqueue' = iqueue
  BY DEF Send, CanSend
<1>2. /\ Append(egress[b], f) \in Seq(Frames)
      /\ Len(Append(egress[b], f)) = Len(egress[b]) + 1
  BY DEF Shapes
<1>3. \A c \in Boards :
        /\ egress'[c] = IF c = b THEN Append(egress[b], f) ELSE egress[c]
        /\ stack'[c] = IF c = b THEN stack[b] - 1 ELSE stack[c]
  BY <1>1 DEF Shapes
<1>4. egress' \in [Boards -> Seq(Frames)] /\ stack' \in [Boards -> Nat]
  BY <1>1, <1>2 DEF Shapes
<1>5. \A c \in Boards : Len(egress'[c]) <= EqueueEntries
  <2> TAKE c \in Boards
  <2>1. Len(egress[c]) \in Nat /\ Len(egress[c]) <= EqueueEntries
    BY Numbers DEF Shapes
  <2>2. \/ Len(egress'[c]) = Len(egress[c]) + 1 /\ Len(egress[c]) < EqueueEntries
        \/ Len(egress'[c]) = Len(egress[c])
    BY <1>1, <1>2, <1>3
  <2> QED
    BY <2>1, <2>2, Constants
<1>6. ASSUME NEW c \in Boards PROVE Known(c)' = Known(c)
  <2>1. /\ stack[c] \in Nat /\ late[c] \in Nat
        /\ Len(egress[c]) \in Nat /\ Len(iqueue[c]) \in Nat
    BY Numbers
  <2>2. /\ stack'[c] \in Nat /\ Len(egress'[c]) \in Nat
        /\ late'[c] = late[c] /\ Len(iqueue'[c]) = Len(iqueue[c])
    BY <1>1, <1>4
  <2>3. \/ stack'[c] = stack[c] - 1 /\ Len(egress'[c]) = Len(egress[c]) + 1
        \/ stack'[c] = stack[c] /\ Len(egress'[c]) = Len(egress[c])
    BY <1>2, <1>3
  <2> QED
    BY <2>1, <2>2, <2>3, BufferMoves
<1> QED
  BY <1>1, <1>3, <1>4, <1>5, <1>6

LEMMA TailFacts ==
  ASSUME NEW s \in Seq(Frames), s # <<>>
  PROVE  /\ Tail(s) \in Seq(Frames) /\ Head(s) \in Frames
         /\ Len(s) \in Nat /\ Len(Tail(s)) = Len(s) - 1 /\ Len(s) > 0
OBVIOUS

LEMMA RecvEffect ==
  ASSUME Shapes, NEW b \in Boards, Recv(b), late' = late
  PROVE  /\ iqueue' \in [Boards -> Seq(Frames)] /\ stack' \in [Boards -> Nat]
         /\ egress' = egress
         /\ iqueue[b] # <<>> /\ iqueue'[b] = Tail(iqueue[b])
         /\ \A c \in Boards : Len(iqueue'[c]) <= NotifEntries
         /\ \A c \in Boards \ {b} : iqueue'[c] = iqueue[c]
         /\ \A c \in Boards : Known(c)' = Known(c)
<1>1. /\ iqueue[b] # <<>> /\ egress' = egress
      /\ stack' = [stack EXCEPT ![b] = @ + 1]
      /\ iqueue' = [iqueue EXCEPT ![b] = Tail(@)]
  BY DEF Recv, drop
<1>2. /\ Tail(iqueue[b]) \in Seq(Frames)
      /\ Len(Tail(iqueue[b])) = Len(iqueue[b]) - 1
  BY <1>1, TailFacts DEF Shapes
<1>3. \A c \in Boards :
        /\ iqueue'[c] = IF c = b THEN Tail(iqueue[b]) ELSE iqueue[c]
        /\ stack'[c] = IF c = b THEN stack[b] + 1 ELSE stack[c]
  BY <1>1 DEF Shapes
<1>4. iqueue' \in [Boards -> Seq(Frames)] /\ stack' \in [Boards -> Nat]
  BY <1>1, <1>2 DEF Shapes
<1>5. \A c \in Boards : Len(iqueue'[c]) <= NotifEntries
  <2> TAKE c \in Boards
  <2>1. Len(iqueue[c]) \in Nat /\ Len(iqueue[c]) <= NotifEntries
    BY Numbers DEF Shapes
  <2>2. Len(iqueue'[c]) = Len(iqueue[c]) - 1 \/ Len(iqueue'[c]) = Len(iqueue[c])
    BY <1>2, <1>3
  <2> QED
    BY <2>1, <2>2, Constants
<1>6. ASSUME NEW c \in Boards PROVE Known(c)' = Known(c)
  <2>1. /\ stack[c] \in Nat /\ late[c] \in Nat
        /\ Len(egress[c]) \in Nat /\ Len(iqueue[c]) \in Nat
    BY Numbers
  <2>2. /\ stack'[c] \in Nat /\ Len(iqueue'[c]) \in Nat
        /\ late'[c] = late[c] /\ Len(egress'[c]) = Len(egress[c])
    BY <1>1, <1>4
  <2>3. \/ stack'[c] = stack[c] + 1 /\ Len(iqueue'[c]) = Len(iqueue[c]) - 1
        \/ stack'[c] = stack[c] /\ Len(iqueue'[c]) = Len(iqueue[c])
    BY <1>2, <1>3
  <2> QED
    BY <2>1, <2>2, <2>3, BufferMoves
<1> QED
  BY <1>1, <1>3, <1>4, <1>5, <1>6

LEMMA RecvFailsEffect ==
  ASSUME Shapes, NEW b \in Boards, RecvFails(b)
  PROVE  \/ UNCHANGED <<egress, iqueue, stack, late, missed>>
         \/ /\ egress' = egress /\ stack' = stack
            /\ iqueue' \in [Boards -> Seq(Frames)]
            /\ late' \in [Boards -> 0 .. MaxLate]
            /\ iqueue[b] # <<>> /\ iqueue'[b] = Tail(iqueue[b])
            /\ missed' = missed + DataIn(<<Head(iqueue[b])>>)
            /\ \A c \in Boards : Len(iqueue'[c]) <= NotifEntries
            /\ \A c \in Boards \ {b} : iqueue'[c] = iqueue[c]
            /\ \A c \in Boards : Known(c)' = Known(c)
<1> SUFFICES ASSUME iqueue[b] # <<>>, late[b] < MaxLate,
                    iqueue' = [iqueue EXCEPT ![b] = Tail(@)],
                    late' = [late EXCEPT ![b] = @ + 1],
                    missed' = missed + DataIn(<<Head(iqueue[b])>>),
                    egress' = egress, stack' = stack
             PROVE  /\ iqueue' \in [Boards -> Seq(Frames)]
                    /\ late' \in [Boards -> 0 .. MaxLate]
                    /\ iqueue'[b] = Tail(iqueue[b])
                    /\ \A c \in Boards : Len(iqueue'[c]) <= NotifEntries
                    /\ \A c \in Boards \ {b} : iqueue'[c] = iqueue[c]
                    /\ \A c \in Boards : Known(c)' = Known(c)
  BY Zenon DEF RecvFails, nic
<1>2. /\ Tail(iqueue[b]) \in Seq(Frames)
      /\ Len(Tail(iqueue[b])) = Len(iqueue[b]) - 1
  BY TailFacts DEF Shapes
<1>3. \A c \in Boards :
        /\ iqueue'[c] = IF c = b THEN Tail(iqueue[b]) ELSE iqueue[c]
        /\ late'[c] = IF c = b THEN late[b] + 1 ELSE late[c]
  BY DEF Shapes
<1>4. iqueue' \in [Boards -> Seq(Frames)] /\ late' \in [Boards -> 0 .. MaxLate]
  <2>0. iqueue \in [Boards -> Seq(Frames)]
    BY DEF Shapes
  <2>1. iqueue' \in [Boards -> Seq(Frames)]
    BY <1>2, <2>0
  <2>4. late \in [Boards -> 0 .. MaxLate]
    BY DEF Shapes
  <2>5. late[b] \in 0 .. MaxLate /\ MaxLate \in Nat
    BY <2>4, Constants
  <2>2. late[b] + 1 \in 0 .. MaxLate
    BY <2>5
  <2>3. late' \in [Boards -> 0 .. MaxLate]
    BY <2>2, <2>4
  <2> QED
    BY <2>1, <2>3
<1>5. \A c \in Boards : Len(iqueue'[c]) <= NotifEntries
  <2> TAKE c \in Boards
  <2>1. Len(iqueue[c]) \in Nat /\ Len(iqueue[c]) <= NotifEntries
    BY Numbers DEF Shapes
  <2>2. Len(iqueue'[c]) = Len(iqueue[c]) - 1 \/ Len(iqueue'[c]) = Len(iqueue[c])
    BY <1>2, <1>3
  <2> QED
    BY <2>1, <2>2, Constants
<1>6. ASSUME NEW c \in Boards PROVE Known(c)' = Known(c)
  <2>1. /\ stack[c] \in Nat /\ late[c] \in Nat
        /\ Len(egress[c]) \in Nat /\ Len(iqueue[c]) \in Nat
    BY Numbers
  <2>2. /\ late'[c] \in Nat /\ Len(iqueue'[c]) \in Nat
        /\ stack'[c] = stack[c] /\ Len(egress'[c]) = Len(egress[c])
    BY <1>4, Constants
  <2>3. \/ late'[c] = late[c] + 1 /\ Len(iqueue'[c]) = Len(iqueue[c]) - 1
        \/ late'[c] = late[c] /\ Len(iqueue'[c]) = Len(iqueue[c])
    BY <1>2, <1>3
  <2> QED
    BY <2>1, <2>2, <2>3, BufferMoves
<1> QED
  BY <1>3, <1>4, <1>5, <1>6

\* A frame that leaves the cable goes to the ring of the peer, or is gone.
LEMMA CableEffect ==
  ASSUME Shapes, NEW b \in Boards, egress[b] # <<>>, NEW f \in Frames,
         Deliver(b, f) \/ (Lose(b) /\ f = Head(egress[b]))
  PROVE  /\ egress' \in [Boards -> Seq(Frames)] /\ stack' \in [Boards -> Nat]
         /\ iqueue' \in [Boards -> Seq(Frames)]
         /\ egress'[b] = Tail(egress[b]) /\ egress'[Peer(b)] = egress[Peer(b)]
         /\ iqueue'[b] = iqueue[b]
         /\ \/ iqueue'[Peer(b)] = Append(iqueue[Peer(b)], f) /\ missed' = missed
            \/ /\ iqueue'[Peer(b)] = iqueue[Peer(b)]
               /\ missed' = missed + DataIn(<<f>>)
         /\ \A c \in Boards : /\ Len(egress'[c]) <= EqueueEntries
                              /\ Len(iqueue'[c]) <= NotifEntries
         /\ \A c \in Boards : Known(c)' = Known(c)
         /\ UNCHANGED <<pc, timeUp, counter, hands, acked, late>>
<1> DEFINE p == Peer(b)
<1>1. p \in Boards /\ p # b /\ \A c \in Boards : c = b \/ c = p
  BY Constants DEF Boards, Peer
<1> HIDE DEF p
<1>2. /\ egress' = [egress EXCEPT ![b] = Tail(@)]
      /\ UNCHANGED <<pc, timeUp, counter, hands, acked, late>>
  BY DEF Deliver, Lose
<1>3. \/ /\ stack[p] > 0 /\ Len(iqueue[p]) < NotifEntries
         /\ iqueue' = [iqueue EXCEPT ![p] = Append(@, f)]
         /\ stack'  = [stack EXCEPT ![b] = @ + 1, ![p] = @ - 1]
         /\ missed' = missed
      \/ /\ stack'  = [stack EXCEPT ![b] = @ + 1]
         /\ missed' = missed + DataIn(<<f>>)
         /\ iqueue' = iqueue
  BY DEF Deliver, Lose, p
<1>4. /\ Tail(egress[b]) \in Seq(Frames) /\ Len(egress[b]) > 0
      /\ Len(Tail(egress[b])) = Len(egress[b]) - 1
  BY TailFacts DEF Shapes
<1>5. /\ Append(iqueue[p], f) \in Seq(Frames)
      /\ Len(Append(iqueue[p], f)) = Len(iqueue[p]) + 1
  BY <1>1 DEF Shapes
<1>6. /\ egress' \in [Boards -> Seq(Frames)]
      /\ egress'[b] = Tail(egress[b]) /\ egress'[p] = egress[p]
  BY <1>1, <1>2, <1>4 DEF Shapes
<1>7. /\ iqueue' \in [Boards -> Seq(Frames)] /\ stack' \in [Boards -> Nat]
      /\ iqueue'[b] = iqueue[b] /\ stack'[b] = stack[b] + 1
      /\ \/ /\ stack[p] > 0 /\ Len(iqueue[p]) < NotifEntries
            /\ iqueue'[p] = Append(iqueue[p], f) /\ stack'[p] = stack[p] - 1
            /\ missed' = missed
         \/ /\ iqueue'[p] = iqueue[p] /\ stack'[p] = stack[p]
            /\ missed' = missed + DataIn(<<f>>)
  <2>0. /\ stack \in [Boards -> Nat] /\ iqueue \in [Boards -> Seq(Frames)]
        /\ stack[b] \in Nat /\ stack[p] \in Nat
    BY <1>1 DEF Shapes
  <2>1. CASE /\ stack[p] > 0 /\ Len(iqueue[p]) < NotifEntries
             /\ iqueue' = [iqueue EXCEPT ![p] = Append(@, f)]
             /\ stack'  = [stack EXCEPT ![b] = @ + 1, ![p] = @ - 1]
             /\ missed' = missed
    <3>1. iqueue' \in [Boards -> Seq(Frames)] /\ iqueue'[b] = iqueue[b]
          /\ iqueue'[p] = Append(iqueue[p], f)
      BY <1>1, <1>5, <2>0, <2>1
    <3>2. stack' = [[stack EXCEPT ![b] = stack[b] + 1] EXCEPT ![p] = stack[p] - 1]
      BY <1>1, <2>0, <2>1
    <3>3. stack[b] + 1 \in Nat /\ stack[p] - 1 \in Nat
      BY <2>0, <2>1
    <3>4. stack' \in [Boards -> Nat]
          /\ stack'[b] = stack[b] + 1 /\ stack'[p] = stack[p] - 1
      BY <1>1, <2>0, <3>2, <3>3
    <3> QED
      BY <2>1, <3>1, <3>4
  <2>2. CASE /\ stack'  = [stack EXCEPT ![b] = @ + 1]
             /\ missed' = missed + DataIn(<<f>>)
             /\ iqueue' = iqueue
    <3>1. stack' \in [Boards -> Nat]
          /\ stack'[b] = stack[b] + 1 /\ stack'[p] = stack[p]
      BY <1>1, <2>0, <2>2
    <3> QED
      BY <2>0, <2>2, <3>1
  <2> QED
    BY <1>3, <2>1, <2>2
<1>8. \A c \in Boards :
        /\ stack[c] \in Nat /\ late[c] \in Nat
        /\ Len(egress[c]) \in Nat /\ Len(iqueue[c]) \in Nat
        /\ stack'[c] \in Nat /\ late'[c] \in Nat
        /\ Len(egress'[c]) \in Nat /\ Len(iqueue'[c]) \in Nat
        /\ late'[c] = late[c]
        /\ Len(egress[c]) <= EqueueEntries /\ Len(iqueue[c]) <= NotifEntries
  <2> TAKE c \in Boards
  <2>1. /\ stack[c] \in Nat /\ late[c] \in Nat
        /\ Len(egress[c]) \in Nat /\ Len(iqueue[c]) \in Nat
    BY Numbers
  <2>2. /\ stack'[c] \in Nat
        /\ Len(egress'[c]) \in Nat /\ Len(iqueue'[c]) \in Nat
    BY <1>6, <1>7
  <2>3. Len(egress[c]) <= EqueueEntries /\ Len(iqueue[c]) <= NotifEntries
    BY DEF Shapes
  <2> QED
    BY <1>2, <2>1, <2>2, <2>3
<1>9. /\ Len(egress'[b]) = Len(egress[b]) - 1 /\ Len(iqueue'[b]) = Len(iqueue[b])
      /\ Len(egress'[p]) = Len(egress[p])
      /\ \/ /\ Len(iqueue'[p]) = Len(iqueue[p]) + 1 /\ stack'[p] = stack[p] - 1
            /\ Len(iqueue[p]) < NotifEntries
         \/ Len(iqueue'[p]) = Len(iqueue[p]) /\ stack'[p] = stack[p]
  BY <1>4, <1>5, <1>6, <1>7
<1>10. Known(b)' = Known(b) /\ Known(p)' = Known(p)
  BY <1>1, <1>7, <1>8, <1>9, BufferMoves
<1>11. /\ Len(egress'[b]) <= EqueueEntries /\ Len(iqueue'[b]) <= NotifEntries
       /\ Len(egress'[p]) <= EqueueEntries /\ Len(iqueue'[p]) <= NotifEntries
  <2>1. /\ Len(egress[b]) \in Nat /\ Len(iqueue[b]) \in Nat
        /\ Len(egress[p]) \in Nat /\ Len(iqueue[p]) \in Nat
        /\ Len(egress[b]) <= EqueueEntries /\ Len(iqueue[b]) <= NotifEntries
        /\ Len(egress[p]) <= EqueueEntries /\ Len(iqueue[p]) <= NotifEntries
    BY <1>1, <1>8
  <2> QED
    BY <1>9, <2>1, Constants
<1> QED
  BY <1>1, <1>2, <1>6, <1>7, <1>10, <1>11 DEF p

\* Which frames a step leaves in the queues decides whether TalkInv holds.
LEMMA SendHandKeeps ==
  ASSUME AgingInv, SendHand
  PROVE  AgingInv'
<1> USE Constants DEF AgingInv
<1>1. /\ pc[Sender] = "test" /\ pc' = [pc EXCEPT ![Sender] = "wait"]
      /\ Send(Sender, Hand) /\ hands < MaxHands /\ hands' = hands + 1
      /\ UNCHANGED <<timeUp, counter, acked, late, missed>>
  BY DEF SendHand, At, Goto
<1>2. /\ egress' \in [Boards -> Seq(Frames)] /\ stack' \in [Boards -> Nat]
      /\ iqueue' = iqueue /\ egress'[Sender] = Append(egress[Sender], Hand)
      /\ \A c \in Boards : Len(egress'[c]) <= EqueueEntries
      /\ egress'[Receiver] = egress[Receiver]
      /\ \A c \in Boards : Known(c)' = Known(c)
  BY <1>1, FramesSent, SendEffect
<1>3. egress[Sender] \in Seq(Frames) /\ iqueue[Receiver] \in Seq(Frames)
  BY DEF Shapes
<1>4. pc'[Sender] = "wait" /\ pc'[Receiver] = pc[Receiver]
  BY <1>1 DEF Shapes
<1>5. Shapes'
  <2>1. hands' \in 0 .. MaxHands
    <3>1. hands \in 0 .. MaxHands
      BY DEF Shapes
    <3> QED
      BY <1>1, <3>1
  <2>2. pc' \in [Boards -> {"off", "opened", "test", "wait", "ack", "decide",
                            "transfer", "failed"}]
    BY <1>1 DEF Shapes
  <2> QED
    BY <1>1, <1>2, <2>1, <2>2 DEF Shapes
<1>6. TalkInv'
  <2>1. AllIn(egress[Sender], Short) => AllIn(egress'[Sender], Short)
    BY <1>2, <1>3, FramesSent, FrameKinds, AllInAppend
  <2> QED
    BY <1>1, <1>2, <1>4, <2>1 DEF TalkInv
<1>7. BufferInv'
  BY <1>1, <1>2, <1>4, BufferKeeps DEF Alive
<1>8. DataAccounted'
  <2>1. DataIn(egress'[Sender]) = DataIn(egress[Sender])
    <3>1. /\ DataIn(egress[Sender]) \in Nat
          /\ DataIn(egress'[Sender]) = DataIn(egress[Sender]) + One(Hand, Long)
      BY <1>2, <1>3, FramesSent, FrameKinds, DataInAppend, DataInCount
    <3>2. One(Hand, Long) = 0
      BY FrameKinds DEF One
    <3> QED
      BY <3>1, <3>2
  <2> QED
    BY <1>1, <1>2, <2>1 DEF DataAccounted
<1> QED
  BY <1>5, <1>6, <1>7, <1>8

LEMMA TransmitKeeps ==
  ASSUME AgingInv, Transmit
  PROVE  AgingInv'
<1> USE Constants DEF AgingInv
<1>1. /\ pc[Sender] = "transfer" /\ counter[Sender] < MaxData
      /\ Send(Sender, Data)
      /\ counter' = [counter EXCEPT ![Sender] = @ + 1]
      /\ UNCHANGED <<pc, timeUp, hands, acked, late, missed>>
  BY DEF Transmit, At, hist
<1>2. /\ egress' \in [Boards -> Seq(Frames)] /\ stack' \in [Boards -> Nat]
      /\ iqueue' = iqueue /\ egress'[Sender] = Append(egress[Sender], Data)
      /\ \A c \in Boards : Len(egress'[c]) <= EqueueEntries
      /\ egress'[Receiver] = egress[Receiver]
      /\ \A c \in Boards : Known(c)' = Known(c)
  BY <1>1, FramesSent, SendEffect
<1>3. egress[Sender] \in Seq(Frames) /\ iqueue[Receiver] \in Seq(Frames)
  BY DEF Shapes
<1>4. /\ counter[Sender] \in Nat /\ counter[Receiver] \in Nat
      /\ counter'[Sender] = counter[Sender] + 1
      /\ counter'[Receiver] = counter[Receiver]
      /\ counter' \in [Boards -> Nat]
  BY <1>1 DEF Shapes
<1>5. Shapes'
  <2>1. counter'[Sender] <= MaxData
    BY <1>1, <1>4
  <2> QED
    BY <1>1, <1>2, <1>4, <2>1 DEF Shapes
<1>6. TalkInv'
  BY <1>1, <1>2 DEF TalkInv, Shapes
<1>7. BufferInv'
  BY <1>1, <1>2, BufferKeeps
<1>8. DataAccounted'
  <2>1. DataIn(egress'[Sender]) = DataIn(egress[Sender]) + 1
    BY <1>2, <1>3, FramesSent, FrameKinds, DataInAppend DEF One
  <2>2. /\ DataIn(egress[Sender]) \in Nat /\ DataIn(iqueue[Receiver]) \in Nat
        /\ missed \in Nat
    BY <1>3, DataInCount DEF Shapes
  <2>3. counter[Sender] = counter[Receiver] + missed + DataIn(egress[Sender])
                            + DataIn(iqueue[Receiver])
    BY DEF DataAccounted
  <2>4. counter'[Sender] = counter'[Receiver] + missed + DataIn(egress'[Sender])
                            + DataIn(iqueue[Receiver])
    BY <1>4, <2>1, <2>2, <2>3
  <2> QED
    BY <1>1, <1>2, <2>4 DEF DataAccounted
<1> QED
  BY <1>5, <1>6, <1>7, <1>8

LEMMA SendAckKeeps ==
  ASSUME AgingInv, SendAck
  PROVE  AgingInv'
<1> USE Constants DEF AgingInv
<1>1. /\ pc[Receiver] = "ack" /\ pc' = [pc EXCEPT ![Receiver] = "decide"]
      /\ Send(Receiver, Ack) /\ acked' = TRUE
      /\ UNCHANGED <<timeUp, counter, hands, late, missed>>
  BY DEF SendAck, At, Goto
<1>2. /\ egress' \in [Boards -> Seq(Frames)] /\ stack' \in [Boards -> Nat]
      /\ iqueue' = iqueue /\ egress'[Receiver] = Append(egress[Receiver], Ack)
      /\ \A c \in Boards : Len(egress'[c]) <= EqueueEntries
      /\ egress'[Sender] = egress[Sender]
      /\ \A c \in Boards : Known(c)' = Known(c)
  BY <1>1, FramesSent, SendEffect
<1>3. egress[Receiver] \in Seq(Frames)
  BY DEF Shapes
<1>4. pc'[Receiver] = "decide" /\ pc'[Sender] = pc[Sender]
  BY <1>1 DEF Shapes
<1>5. Shapes'
  BY <1>1, <1>2 DEF Shapes
<1>6. TalkInv'
  <2>1. AllIn(egress'[Receiver], Short)
    BY <1>2, <1>3, FramesSent, FrameKinds, AllInAppend DEF TalkInv
  <2> QED
    BY <1>1, <1>2, <1>4, <2>1 DEF TalkInv
<1>7. BufferInv'
  BY <1>1, <1>2, <1>4, BufferKeeps DEF Alive
<1>8. DataAccounted'
  BY <1>1, <1>2 DEF DataAccounted
<1> QED
  BY <1>5, <1>6, <1>7, <1>8

\* What the length and the content of a frame decide.
LEMMA FrameAnswers ==
  ASSUME NEW f \in Frames
  PROVE  /\ AfterAck(f) \in {"test", "decide", "failed"}
         /\ f \in Short \ {Ack} => AfterAck(f) # "decide"
         /\ AfterHand(f) \in {"test", "ack", "failed"}
         /\ Counts(f) <=> f \in Long
BY DEF Frames, Hand, Ack, Data, Short, Long, AfterAck, AfterHand, Counts

LEMMA GetAckKeeps ==
  ASSUME AgingInv, GetAck
  PROVE  AgingInv'
<1> USE Constants DEF AgingInv
<1> DEFINE s == iqueue[Sender]
           l == AfterAck(Head(s))
<1>1. /\ pc[Sender] = "wait" /\ pc' = [pc EXCEPT ![Sender] = l]
      /\ Recv(Sender)
      /\ UNCHANGED <<timeUp, counter, hands, acked, late, missed>>
  BY DEF GetAck, At, Goto, hist
<1>2. /\ iqueue' \in [Boards -> Seq(Frames)] /\ stack' \in [Boards -> Nat]
      /\ egress' = egress /\ s # <<>> /\ iqueue'[Sender] = Tail(s)
      /\ \A c \in Boards : Len(iqueue'[c]) <= NotifEntries
      /\ iqueue'[Receiver] = iqueue[Receiver]
      /\ \A c \in Boards : Known(c)' = Known(c)
  BY <1>1, RecvEffect
<1>3. s \in Seq(Frames) /\ Head(s) \in Frames
  BY <1>2, TailFacts DEF Shapes
<1>4. l \in {"test", "decide", "failed"}
  BY <1>3, FrameAnswers
<1>5. pc'[Sender] = l /\ pc'[Receiver] = pc[Receiver]
  BY <1>1 DEF Shapes
<1> HIDE DEF s, l
<1>6. Shapes'
  BY <1>1, <1>2, <1>4 DEF Shapes
<1>7. TalkInv'
  <2>1. AllIn(s, Short) /\ AllIn(iqueue'[Sender], Short)
    BY <1>2, <1>3, AllInTail DEF TalkInv, s
  <2>2. ~ acked => /\ AllIn(iqueue'[Sender], Short \ {Ack})
                   /\ Head(s) \in Short \ {Ack}
    BY <1>2, <1>3, AllInTail DEF TalkInv, s
  <2>3. ~ acked => l # "decide"
    BY <1>3, <2>2, FrameAnswers DEF l
  <2> QED
    BY <1>1, <1>2, <1>4, <1>5, <2>1, <2>2, <2>3 DEF TalkInv
<1>8. BufferInv'
  BY <1>1, <1>2, <1>4, <1>5, BufferKeeps DEF Alive
<1>9. DataAccounted'
  BY <1>1, <1>2 DEF DataAccounted
<1> QED
  BY <1>6, <1>7, <1>8, <1>9

\* What was in the ring of the receiver is counted, or missed.
LEMMA RingAccounts ==
  ASSUME Shapes, DataAccounted, iqueue[Receiver] # <<>>,
         iqueue'[Receiver] = Tail(iqueue[Receiver]),
         egress'[Sender] = egress[Sender],
         counter'[Sender] = counter[Sender],
         LET d == One(Head(iqueue[Receiver]), Long) IN
           \/ missed' = missed + d /\ counter'[Receiver] = counter[Receiver]
           \/ missed' = missed /\ counter'[Receiver] = counter[Receiver] + d
  PROVE  DataAccounted' /\ missed' \in Nat
<1> DEFINE d == One(Head(iqueue[Receiver]), Long)
           e == DataIn(egress[Sender])
           q == DataIn(iqueue[Receiver])
           r == DataIn(Tail(iqueue[Receiver]))
           n == counter[Receiver]
<1>1. iqueue[Receiver] \in Seq(Frames) /\ egress[Sender] \in Seq(Frames)
      /\ Tail(iqueue[Receiver]) \in Seq(Frames)
  BY Constants, TailFacts DEF Shapes
<1>2. /\ d \in Nat /\ e \in Nat /\ q \in Nat /\ r \in Nat /\ n \in Nat
      /\ missed \in Nat
  BY <1>1, Constants, DataInCount DEF Shapes, One
<1>3. q = r + d
  BY <1>1, DataInTail
<1>4. counter[Sender] = n + missed + e + q
  BY DEF DataAccounted
<1>5. \/ missed' = missed + d /\ counter'[Receiver] = n
      \/ missed' = missed /\ counter'[Receiver] = n + d
  OBVIOUS
<1>6. missed' \in Nat /\ counter[Sender] = counter'[Receiver] + missed' + e + r
  <2> HIDE DEF d, e, q, r, n
  <2> QED
    BY <1>2, <1>3, <1>4, <1>5
<1> QED
  BY <1>6 DEF DataAccounted

LEMMA GetHandKeeps ==
  ASSUME AgingInv, GetHand
  PROVE  AgingInv'
<1> USE Constants DEF AgingInv
<1> DEFINE s == iqueue[Receiver]
           l == AfterHand(Head(s))
<1>1. /\ pc[Receiver] = "wait" /\ pc' = [pc EXCEPT ![Receiver] = l]
      /\ Recv(Receiver)
      /\ missed' = missed + DataIn(<<Head(s)>>)
      /\ UNCHANGED <<timeUp, counter, hands, acked, late>>
  BY DEF GetHand, At, Goto
<1>2. /\ iqueue' \in [Boards -> Seq(Frames)] /\ stack' \in [Boards -> Nat]
      /\ egress' = egress /\ s # <<>> /\ iqueue'[Receiver] = Tail(s)
      /\ \A c \in Boards : Len(iqueue'[c]) <= NotifEntries
      /\ iqueue'[Sender] = iqueue[Sender]
      /\ \A c \in Boards : Known(c)' = Known(c)
  BY <1>1, RecvEffect
<1>3. s \in Seq(Frames) /\ Head(s) \in Frames
  BY <1>2, TailFacts DEF Shapes
<1>4. l \in {"test", "ack", "failed"}
  BY <1>3, FrameAnswers
<1>5. pc'[Receiver] = l /\ pc'[Sender] = pc[Sender]
  BY <1>1 DEF Shapes
<1>6. DataAccounted' /\ missed' \in Nat
  <2>1. DataIn(<<Head(s)>>) = One(Head(s), Long)
    BY <1>3, DataInOne
  <2> QED
    BY <1>1, <1>2, <2>1, RingAccounts
<1> HIDE DEF s, l
<1>7. Shapes'
  BY <1>1, <1>2, <1>4, <1>6 DEF Shapes
<1>8. TalkInv'
  <2>1. ~ acked
    BY <1>1 DEF TalkInv
  <2>2. AllIn(iqueue'[Receiver], Short)
    BY <1>2, <1>3, <2>1, AllInTail DEF TalkInv, s
  <2> QED
    BY <1>1, <1>2, <1>5, <2>1, <2>2 DEF TalkInv
<1>9. BufferInv'
  BY <1>1, <1>2, <1>4, <1>5, BufferKeeps DEF Alive
<1> QED
  BY <1>6, <1>7, <1>8, <1>9

LEMMA ReceiveKeeps ==
  ASSUME AgingInv, Receive
  PROVE  AgingInv'
<1> USE Constants DEF AgingInv
<1> DEFINE s == iqueue[Receiver]
<1>1. /\ pc[Receiver] = "transfer" /\ Recv(Receiver)
      /\ counter' = IF Counts(Head(s))
                      THEN [counter EXCEPT ![Receiver] = @ + 1] ELSE counter
      /\ UNCHANGED <<pc, timeUp, hands, acked, late, missed>>
  BY DEF Receive, At, hist
<1>2. /\ iqueue' \in [Boards -> Seq(Frames)] /\ stack' \in [Boards -> Nat]
      /\ egress' = egress /\ s # <<>> /\ iqueue'[Receiver] = Tail(s)
      /\ \A c \in Boards : Len(iqueue'[c]) <= NotifEntries
      /\ iqueue'[Sender] = iqueue[Sender]
      /\ \A c \in Boards : Known(c)' = Known(c)
  BY <1>1, RecvEffect
<1>3. s \in Seq(Frames) /\ Head(s) \in Frames
  BY <1>2, TailFacts DEF Shapes
<1>4. /\ counter' \in [Boards -> Nat] /\ counter'[Sender] = counter[Sender]
      /\ counter'[Receiver] = counter[Receiver] + One(Head(s), Long)
  <2>1. counter \in [Boards -> Nat] /\ counter[Receiver] \in Nat
    BY DEF Shapes
  <2>2. CASE Head(s) \in Long
    <3>1. counter' = [counter EXCEPT ![Receiver] = @ + 1]
      BY <1>1, <1>3, <2>2, FrameAnswers
    <3>2. One(Head(s), Long) = 1
      BY <2>2 DEF One
    <3> QED
      BY <2>1, <3>1, <3>2
  <2>3. CASE Head(s) \notin Long
    <3>1. counter' = counter
      BY <1>1, <1>3, <2>3, FrameAnswers
    <3>2. One(Head(s), Long) = 0
      BY <2>3 DEF One
    <3> QED
      BY <2>1, <3>1, <3>2
  <2> QED
    BY <2>2, <2>3
<1>5. DataAccounted' /\ missed' \in Nat
  BY <1>1, <1>2, <1>4, RingAccounts
<1> HIDE DEF s
<1>6. Shapes'
  BY <1>1, <1>2, <1>4 DEF Shapes
<1>7. TalkInv'
  <2>1. AllIn(s, Short) => AllIn(iqueue'[Receiver], Short)
    BY <1>2, <1>3, AllInTail
  <2> QED
    BY <1>1, <1>2, <2>1 DEF TalkInv, s
<1>8. BufferInv'
  BY <1>1, <1>2, BufferKeeps
<1> QED
  BY <1>5, <1>6, <1>7, <1>8

\* Nothing came in time, or what came was forgotten.
LEMMA SilenceKeeps ==
  ASSUME AgingInv, NoAck \/ NoHand \/ ReceiveFails
  PROVE  AgingInv'
<1> USE Constants DEF AgingInv
<1> DEFINE Fails(b, l) ==
             /\ RecvFails(b) /\ pc' = [pc EXCEPT ![b] = l]
             /\ UNCHANGED <<timeUp, counter, hands, acked>>
             /\ b = Sender => pc[b] = "wait"
             /\ b = Receiver => \/ pc[b] = "wait" /\ l = "test"
                                \/ pc[b] = "transfer" /\ l = "failed"
<1>0. \E b \in Boards, l \in {"test", "failed"} : Fails(b, l)
  <2>1. NoAck => Fails(Sender, "test")
    BY DEF NoAck, At, Goto, AfterSilence
  <2>2. NoHand => Fails(Receiver, "test")
    BY DEF NoHand, At, Goto
  <2>3. ReceiveFails => Fails(Receiver, "failed")
    BY DEF ReceiveFails, At, Goto, Silence
  <2> HIDE DEF Fails
  <2> QED
    BY <2>1, <2>2, <2>3
<1>1. PICK b \in Boards, l \in {"test", "failed"} : Fails(b, l)
  BY <1>0
<1>2. /\ pc'[b] = l /\ \A c \in Boards \ {b} : pc'[c] = pc[c]
      /\ pc' \in [Boards -> {"off", "opened", "test", "wait", "ack", "decide",
                             "transfer", "failed"}]
  BY <1>1 DEF Shapes
<1>3. /\ \A c \in Boards : \/ pc'[c] = pc[c]
                           \/ Alive(c) /\ pc'[c] \notin {"off", "opened"}
      /\ acked => pc'[Receiver] \in {"decide", "transfer", "failed"}
      /\ ~ acked => pc'[Sender] # "transfer"
                      /\ (pc'[Sender] = "decide" => timeUp[Sender])
  BY <1>1, <1>2 DEF TalkInv, Alive, Boards
<1>4. CASE UNCHANGED <<egress, iqueue, stack, late, missed>>
  <2>1. Shapes' /\ TalkInv' /\ DataAccounted'
    BY <1>1, <1>2, <1>3, <1>4 DEF Shapes, TalkInv, DataAccounted
  <2>2. \A c \in Boards : Known(c)' = Known(c)
    BY <1>4 DEF Known
  <2> QED
    BY <1>3, <2>1, <2>2, BufferKeeps
<1>5. CASE /\ egress' = egress /\ stack' = stack
           /\ iqueue' \in [Boards -> Seq(Frames)]
           /\ late' \in [Boards -> 0 .. MaxLate]
           /\ iqueue[b] # <<>> /\ iqueue'[b] = Tail(iqueue[b])
           /\ missed' = missed + DataIn(<<Head(iqueue[b])>>)
           /\ \A c \in Boards : Len(iqueue'[c]) <= NotifEntries
           /\ \A c \in Boards \ {b} : iqueue'[c] = iqueue[c]
           /\ \A c \in Boards : Known(c)' = Known(c)
  <2>1. /\ iqueue[b] \in Seq(Frames) /\ Head(iqueue[b]) \in Frames
        /\ missed' = missed + One(Head(iqueue[b]), Long)
    BY <1>5, TailFacts, DataInOne DEF Shapes
  <2>2. DataAccounted' /\ missed' \in Nat
    <3>1. CASE b = Receiver
      BY <1>1, <1>5, <2>1, <3>1, RingAccounts
    <3>2. CASE b = Sender
      <4>1. Head(iqueue[b]) \in Short
        BY <1>5, <2>1, <3>2, AllInTail DEF TalkInv
      <4>2. missed' = missed /\ missed \in Nat
        <5>1. One(Head(iqueue[b]), Long) = 0
          BY <2>1, <4>1, FrameKinds DEF One
        <5> QED
          BY <2>1, <5>1 DEF Shapes
      <4> QED
        BY <1>1, <1>5, <3>2, <4>2 DEF DataAccounted
    <3> QED
      BY <3>1, <3>2
  <2>3. Shapes'
    BY <1>1, <1>2, <1>5, <2>2 DEF Shapes
  <2>4. ASSUME NEW c \in Boards, NEW K, AllIn(iqueue[c], K)
        PROVE  AllIn(iqueue'[c], K)
    BY <1>5, <2>1, <2>4, AllInTail
  <2>5. TalkInv'
    BY <1>1, <1>3, <1>5, <2>4 DEF TalkInv
  <2> QED
    BY <1>3, <1>5, <2>2, <2>3, <2>5, BufferKeeps
<1> QED
  BY <1>1, <1>4, <1>5, RecvFailsEffect

-----------------------------------------------------------------------------
(* The cable. *)

LEMMA DamageFacts ==
  ASSUME NEW f \in Frames
  PROVE  LET n == [f EXCEPT !.content = "noise"] IN
           /\ n \in Frames /\ One(n, Long) = One(f, Long)
           /\ f \in Short => n \in Short \ {Ack}
BY DEF Frames, Hand, Ack, Data, Short, Long, One

LEMMA CableKeeps ==
  ASSUME AgingInv, NEW b \in Boards, Arrive(b) \/ ArriveDamaged(b) \/ Lose(b)
  PROVE  AgingInv'
<1> USE Constants DEF AgingInv
<1> DEFINE h == Head(egress[b])
           p == Peer(b)
<1>1. egress[b] # <<>> /\ egress[b] \in Seq(Frames) /\ h \in Frames
  <2>1. egress[b] # <<>> /\ egress[b] \in Seq(Frames)
    BY DEF Arrive, ArriveDamaged, Lose, Shapes
  <2> QED
    BY <2>1, TailFacts
<1>2. PICK f \in Frames :
        /\ Deliver(b, f) \/ (Lose(b) /\ f = h)
        /\ One(f, Long) = One(h, Long)
        /\ h \in Short => f \in Short
        /\ h \in Short \ {Ack} => f \in Short \ {Ack}
  <2>1. CASE Arrive(b) \/ Lose(b)
    BY <1>1, <2>1 DEF Arrive
  <2>2. CASE ArriveDamaged(b)
    <3>1. Deliver(b, [h EXCEPT !.content = "noise"])
      BY <2>2 DEF ArriveDamaged
    <3> QED
      BY <1>1, <3>1, DamageFacts
  <2> QED
    BY <2>1, <2>2
<1>3. /\ egress' \in [Boards -> Seq(Frames)] /\ stack' \in [Boards -> Nat]
      /\ iqueue' \in [Boards -> Seq(Frames)]
      /\ egress'[b] = Tail(egress[b]) /\ egress'[p] = egress[p]
      /\ iqueue'[b] = iqueue[b]
      /\ \/ iqueue'[p] = Append(iqueue[p], f) /\ missed' = missed
         \/ iqueue'[p] = iqueue[p] /\ missed' = missed + DataIn(<<f>>)
      /\ \A c \in Boards : /\ Len(egress'[c]) <= EqueueEntries
                           /\ Len(iqueue'[c]) <= NotifEntries
      /\ \A c \in Boards : Known(c)' = Known(c)
      /\ UNCHANGED <<pc, timeUp, counter, hands, acked, late>>
  BY <1>1, <1>2, CableEffect
<1>4. p \in Boards /\ iqueue[p] \in Seq(Frames) /\ Tail(egress[b]) \in Seq(Frames)
      /\ DataIn(<<f>>) = One(f, Long)
  BY <1>1, TailFacts, DataInOne DEF Shapes
<1>5. BufferInv'
  BY <1>3, BufferKeeps
<1>6. \A K : AllIn(egress[b], K) => h \in K /\ AllIn(egress'[b], K)
  BY <1>1, <1>3, AllInTail
<1>7. \A K : AllIn(iqueue[p], K) /\ f \in K => AllIn(iqueue'[p], K)
  <2>1. \A K : AllIn(iqueue[p], K) /\ f \in K => AllIn(Append(iqueue[p], f), K)
    <3> TAKE K
    <3>1. f \in K => f \in K \cap Frames
      OBVIOUS
    <3> QED
      BY <1>4, <3>1, AllInAppend
  <2> QED
    BY <1>3, <2>1
<1>8. TalkInv'
  <2>1. CASE b = Sender
    BY <1>2, <1>3, <1>6, <1>7, <2>1 DEF TalkInv
  <2>2. CASE b = Receiver
    BY <1>2, <1>3, <1>6, <1>7, <2>2 DEF TalkInv
  <2> QED
    BY <2>1, <2>2
<1>9. DataAccounted' /\ missed' \in Nat
  <2>1. CASE b = Sender
    <3> DEFINE o == One(h, Long)
               e == DataIn(egress[Sender])
               q == DataIn(iqueue[Receiver])
               d == DataIn(egress[Sender])'
               r == DataIn(iqueue[Receiver])'
    <3>1. p = Receiver
      BY <2>1
    <3>2. e = d + o
      BY <1>1, <1>3, <2>1, DataInTail
    <3>3. \/ r = q + o /\ missed' = missed
          \/ r = q /\ missed' = missed + o
      <4>1. DataIn(Append(iqueue[Receiver], f)) = q + One(f, Long)
        BY <1>4, <3>1, DataInAppend
      <4>2. \/ iqueue'[Receiver] = Append(iqueue[Receiver], f) /\ missed' = missed
            \/ iqueue'[Receiver] = iqueue[Receiver] /\ missed' = missed + One(f, Long)
        BY <1>3, <1>4, <3>1
      <4> QED
        BY <1>2, <4>1, <4>2
    <3>4. /\ e \in Nat /\ q \in Nat /\ d \in Nat /\ r \in Nat /\ o \in Nat
          /\ missed \in Nat
      BY <1>1, <1>3, <1>4, <2>1, <3>1, DataInCount DEF Shapes, One
    <3>5. counter[Sender] = counter[Receiver] + missed + e + q
          /\ counter[Receiver] \in Nat
      BY DEF DataAccounted, Shapes
    <3>6. missed' \in Nat /\ counter[Sender] = counter[Receiver] + missed' + d + r
      <4> HIDE DEF o, e, q, d, r
      <4> QED
        BY <3>2, <3>3, <3>4, <3>5
    <3> QED
      BY <1>3, <3>6 DEF DataAccounted
  <2>2. CASE b = Receiver
    <3>1. p = Sender
      BY <2>2
    <3>2. One(f, Long) = 0
      <4>1. h \in Short
        BY <1>6, <2>2 DEF TalkInv
      <4> QED
        BY <1>2, <4>1, FrameKinds DEF One
    <3>3. missed' = missed /\ missed \in Nat
      BY <1>3, <1>4, <3>2 DEF Shapes
    <3>4. egress'[Sender] = egress[Sender] /\ iqueue'[Receiver] = iqueue[Receiver]
      BY <1>3, <2>2, <3>1
    <3> QED
      BY <1>3, <3>3, <3>4 DEF DataAccounted
  <2> QED
    BY <2>1, <2>2
<1>10. Shapes'
  BY <1>3, <1>9 DEF Shapes
<1> QED
  BY <1>5, <1>8, <1>9, <1>10

-----------------------------------------------------------------------------
LEMMA AgingNext == AgingInv /\ [Next]_vars => AgingInv'
<1> SUFFICES ASSUME AgingInv, [Next]_vars PROVE AgingInv'
  OBVIOUS
<1>1. ASSUME NEW b \in Boards, Main(b) PROVE AgingInv'
  BY <1>1, StartKeeps, ClockKeeps, ListenKeeps, SendHandKeeps, SendAckKeeps,
     TransmitKeeps, GetAckKeeps, GetHandKeeps, ReceiveKeeps, SilenceKeeps
     DEF Main, Handshake
<1>2. ASSUME NEW b \in Boards,
             TimeUp(b) \/ Arrive(b) \/ ArriveDamaged(b) \/ Lose(b)
      PROVE  AgingInv'
  BY <1>2, ClockKeeps, CableKeeps
<1>3. CASE UNCHANGED vars
  BY <1>3 DEF vars, nic, hist, AgingInv, Shapes, TalkInv, BufferInv, Known,
              Alive, DataAccounted
<1> QED
  BY <1>1, <1>2, <1>3 DEF Next, Terminating

\* The inductive invariant of the two boards.
THEOREM AgingInvariant == Spec => []AgingInv
BY AgingInit, AgingNext, PTL DEF Spec

\* No frame longer than the 64 bytes of `shakehand` lies in the ring of a board
\* that is shaking hands.
THEOREM FitsShakehandTheorem == Spec => []FitsShakehand
<1>1. AgingInv => FitsShakehand
  <2> SUFFICES ASSUME AgingInv, NEW b \in Boards, Shaking(b)
               PROVE  AllIn(iqueue[b], Short)
    BY DEF FitsShakehand, AllIn, Short
  <2> QED
    BY Constants DEF AgingInv, TalkInv, Shaking
<1> QED
  BY <1>1, AgingInvariant, PTL

\* The sender transmits data to a receiver that has answered, and only to one.
THEOREM TransmitsToListenerTheorem == Spec => []TransmitsToListener
<1>1. AgingInv => TransmitsToListener
  BY DEF AgingInv, TalkInv, TransmitsToListener, At
<1> QED
  BY <1>1, AgingInvariant, PTL

\* Every data packet sent is counted, under way, or known to be missed.
THEOREM DataAccountedTheorem == Spec => []DataAccounted
<1>1. AgingInv => DataAccounted
  BY DEF AgingInv
<1> QED
  BY <1>1, AgingInvariant, PTL

\* No buffer of a board is lost, but for those a late receive forgets.
THEOREM AgingBuffersTheorem == Spec => []AgingBuffersConserved
<1>1. AgingInv => AgingBuffersConserved
  BY DEF AgingInv, BufferInv, Known, AgingBuffersConserved
<1> QED
  BY <1>1, AgingInvariant, PTL

\* Every variable keeps its type; that the counters of the receiver and the
\* stacks have the bounds they have follows from the two accounts.
THEOREM AgingTypeCorrect == Spec => []TypeOK
<1>1. AgingInv => TypeOK
  <2> SUFFICES ASSUME AgingInv PROVE TypeOK
    OBVIOUS
  <2>1. Shapes
    BY DEF AgingInv
  <2>2. /\ counter[Sender] \in 0 .. MaxData /\ counter[Receiver] \in 0 .. MaxData
        /\ missed \in 0 .. MaxData
    <3> DEFINE e == DataIn(egress[Sender])
               q == DataIn(iqueue[Receiver])
    <3>1. e \in Nat /\ q \in Nat
      BY <2>1, Constants, DataInCount DEF Shapes
    <3>2. /\ counter[Sender] \in Nat /\ counter[Receiver] \in Nat
          /\ counter[Sender] <= MaxData /\ missed \in Nat
      BY <2>1, Constants DEF Shapes
    <3>3. counter[Sender] = counter[Receiver] + missed + e + q
      BY DEF AgingInv, DataAccounted
    <3> HIDE DEF e, q
    <3> QED
      BY <3>1, <3>2, <3>3, Constants
  <2>3. ASSUME NEW b \in Boards PROVE stack[b] \in 0 .. NumBuffers
    <3> DEFINE e == Len(egress[b])
               q == Len(iqueue[b])
    <3>1. /\ stack[b] \in Nat /\ late[b] \in Nat /\ e \in Nat /\ q \in Nat
      BY <2>1, Numbers
    <3>2. Known(b) = NumBuffers \/ Known(b) = 0
      BY DEF AgingInv, BufferInv
    <3>3. Known(b) = stack[b] + e + q + late[b]
      BY DEF Known
    <3> HIDE DEF e, q
    <3> QED
      BY <3>1, <3>2, <3>3, Constants
  <2>4. counter \in [Boards -> 0 .. MaxData] /\ stack \in [Boards -> 0 .. NumBuffers]
    BY <2>1, <2>2, <2>3, Constants DEF Shapes
  <2> QED
    BY <2>1, <2>2, <2>4 DEF Shapes, TypeOK
<1> QED
  BY <1>1, AgingInvariant, PTL
=============================================================================
