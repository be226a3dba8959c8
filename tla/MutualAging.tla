---------------------------- MODULE MutualAging ----------------------------
(***************************************************************************)
(* clib-src/mutual_aging: two boards joined by a cable.  The sender        *)
(* (--mode 1) offers handshake packets until it gets an acknowledgement,   *)
(* the receiver (--mode 0) answers the first one; both give up after       *)
(* sixty seconds.  Then the sender transmits data for ever and the         *)
(* receiver counts it, until it hears nothing for a second.  The network   *)
(* chip under them (mpsock.c) is one egress queue, one ingress ring and    *)
(* one stack of buffers on each board.                                     *)
(***************************************************************************)
EXTENDS Naturals, Sequences, FiniteSets

CONSTANTS
  EqueueEntries,  \* EQUEUE_ENTRIES
  NotifEntries,   \* NOTIF_RING_ENTRIES
  Disturbances,   \* "start" fails, frames "lost" or "damaged", a receive is
                  \* "late"
  MaxHands,       \* bound on the rounds of the sender's handshake
  MaxLate,        \* bound on the late receives of one board
  MaxData         \* bound on the data packets

ASSUME AgingRingsAssumption ==
  EqueueEntries \in Nat \ {0} /\ NotifEntries \in Nat \ {0}
ASSUME AgingBoundsAssumption ==
  MaxHands \in Nat /\ MaxLate \in Nat /\ MaxData \in Nat

Sender   == "sender"
Receiver == "receiver"
Boards   == {Sender, Receiver}
Peer(b)  == IF b = Sender THEN Receiver ELSE Sender

VARIABLES
  pc,        \* where main is on each board: "off" before it, "opened" when its
             \* link is open, "failed" after -1 or a failed assertion
  timeUp,    \* have the sixty seconds passed?
  counter,
  egress,    \* the frames sent and not yet arrived, each holding a buffer
  iqueue,    \* the frames received and not yet read, each holding a buffer
  stack,     \* free buffers
  \* History, read by the properties only:
  hands,     \* handshake packets sent
  acked,     \* has the receiver sent its acknowledgement?
  late,      \* buffers whose frame a receive took and did not drop
  missed     \* what became of the data packets that were not counted

nic  == <<egress, iqueue, stack>>
hist == <<hands, acked, late, missed>>
\* (Definitions named with a suffix are mutants, as in PacketGenerator.)
vars == <<pc, timeUp, counter, nic, hist>>

NumBuffers == EqueueEntries + NotifEntries

Hand == [length |-> 64, content |-> "hand"]
Ack  == [length |-> 64, content |-> "ack"]
Data == [length |-> 512, content |-> "data"]
Frames == {Hand, Ack, Data}
          \cup [length : {64, 512}, content : {"noise"}]

Init ==
  /\ pc = [b \in Boards |-> "off"]
  /\ timeUp = [b \in Boards |-> FALSE]
  /\ counter = [b \in Boards |-> 0]
  /\ egress = [b \in Boards |-> <<>>]
  /\ iqueue = [b \in Boards |-> <<>>]
  /\ stack  = [b \in Boards |-> 0]
  /\ hands = 0 /\ acked = FALSE /\ missed = 0
  /\ late = [b \in Boards |-> 0]

At(b, l) == pc[b] = l
Goto(b, l) == pc' = [pc EXCEPT ![b] = l]
Alive(b) == pc[b] \notin {"off", "opened", "failed"}

-----------------------------------------------------------------------------
(* Bringing up the chip.  Where a call fails main returns -1 or an assertion *)
(* does not hold; what was taken until then goes back when the process ends. *)

mpsock_link_open(b) ==
  /\ At(b, "off")
  /\ \/ Goto(b, "opened")
     \/ "start" \in Disturbances /\ Goto(b, "failed")
  /\ UNCHANGED <<timeUp, counter, nic, hist>>

\* The ring, its bucket and the egress queue, a stack of buffers, and at last the
\* rule that lets frames in.
mpsock_context_init(b) ==
  /\ At(b, "opened")
  /\ \/ /\ Goto(b, "test")
        /\ stack' = [stack EXCEPT ![b] = NumBuffers]
     \/ /\ "start" \in Disturbances /\ Goto(b, "failed")
        /\ UNCHANGED stack
  /\ UNCHANGED <<timeUp, counter, egress, iqueue, hist>>

Start(b) == mpsock_link_open(b) \/ mpsock_context_init(b)

-----------------------------------------------------------------------------
(* mpsock_send_data waits for a buffer and for room in the egress queue; it *)
(* never fails for the lengths that main uses.                              *)
CanSend_Overrun(b) == stack[b] > 0
CanSend(b) == stack[b] > 0 /\ Len(egress[b]) < EqueueEntries

Send(b, f) ==
  /\ CanSend(b)
  /\ stack'  = [stack EXCEPT ![b] = @ - 1]
  /\ egress' = [egress EXCEPT ![b] = Append(@, f)]
  /\ UNCHANGED iqueue

drop_Forgotten(b) == UNCHANGED stack
drop(b) == stack' = [stack EXCEPT ![b] = @ + 1]

\* mpsock_recv_data returns the frame: its length decides, then its content.
Recv(b) ==
  /\ iqueue[b] # <<>>
  /\ iqueue' = [iqueue EXCEPT ![b] = Tail(@)]
  /\ drop(b)
  /\ UNCHANGED egress

DataIn(s) == Cardinality({k \in DOMAIN s : s[k].length = 512})

\* mpsock_recv_data returns -1: nothing came for a second, or a frame came
\* as the second was over; then it is taken from the ring and forgotten.
RecvFails(b) ==
  \/ /\ iqueue[b] = <<>>
     /\ UNCHANGED <<nic, late, missed>>
  \/ /\ "late" \in Disturbances /\ late[b] < MaxLate
     /\ iqueue[b] # <<>>
     /\ iqueue' = [iqueue EXCEPT ![b] = Tail(@)]
     /\ late' = [late EXCEPT ![b] = @ + 1]
     /\ missed' = missed + DataIn(<<Head(iqueue[b])>>)
     /\ UNCHANGED <<egress, stack>>

\* The sixty seconds, looked at before each round and after the last.
TimeUp(b) ==
  /\ Alive(b) /\ ~ timeUp[b]
  /\ timeUp' = [timeUp EXCEPT ![b] = TRUE]
  /\ UNCHANGED <<pc, counter, nic, hist>>

GiveUp(b) ==
  /\ At(b, "test") /\ timeUp[b]
  /\ Goto(b, "decide")
  /\ UNCHANGED <<timeUp, counter, nic, hist>>

\* After the loop: too late is too late, even with the handshake done.
Decide(b) ==
  /\ At(b, "decide")
  /\ Goto(b, IF timeUp[b] THEN "failed" ELSE "transfer")
  /\ UNCHANGED <<timeUp, counter, nic, hist>>

-----------------------------------------------------------------------------
(* The sender. *)

SendHand ==
  /\ At(Sender, "test") /\ ~ timeUp[Sender] /\ hands < MaxHands
  /\ Send(Sender, Hand)
  /\ hands' = hands + 1
  /\ Goto(Sender, "wait")
  /\ UNCHANGED <<timeUp, counter, acked, late, missed>>

\* What the sender does with the frame it gets for an answer.
AfterAck(f) ==
  CASE f.length # 64 -> "test"
    [] f.length = 64 /\ f.content = "ack" -> "decide"
    [] OTHER -> "failed"

GetAck ==
  /\ At(Sender, "wait")
  /\ Recv(Sender)
  /\ Goto(Sender, AfterAck(Head(iqueue[Sender])))
  /\ UNCHANGED <<timeUp, counter, hist>>

AfterSilence_Wait == "wait"
AfterSilence_GoOn == "decide"
AfterSilence == "test"

NoAck ==
  /\ At(Sender, "wait")
  /\ RecvFails(Sender)
  /\ Goto(Sender, AfterSilence)
  /\ UNCHANGED <<timeUp, counter, hands, acked>>

Transmit ==
  /\ At(Sender, "transfer") /\ counter[Sender] < MaxData
  /\ Send(Sender, Data)
  /\ counter' = [counter EXCEPT ![Sender] = @ + 1]
  /\ UNCHANGED <<pc, timeUp, hist>>

-----------------------------------------------------------------------------
(* The receiver. *)

Listen ==
  /\ At(Receiver, "test") /\ ~ timeUp[Receiver]
  /\ Goto(Receiver, "wait")
  /\ UNCHANGED <<timeUp, counter, nic, hist>>

AfterHand(f) ==
  CASE f.length # 64 -> "test"
    [] f.length = 64 /\ f.content = "hand" -> "ack"
    [] OTHER -> "failed"

GetHand ==
  /\ At(Receiver, "wait")
  /\ Recv(Receiver)
  /\ Goto(Receiver, AfterHand(Head(iqueue[Receiver])))
  /\ missed' = missed + DataIn(<<Head(iqueue[Receiver])>>)
  /\ UNCHANGED <<timeUp, counter, hands, acked, late>>

NoHand ==
  /\ At(Receiver, "wait")
  /\ RecvFails(Receiver)
  /\ Goto(Receiver, "test")
  /\ UNCHANGED <<timeUp, counter, hands, acked>>

\* Sent once: no later handshake packet is answered.
SendAck ==
  /\ At(Receiver, "ack")
  /\ Send(Receiver, Ack)
  /\ acked' = TRUE
  /\ Goto(Receiver, "decide")
  /\ UNCHANGED <<timeUp, counter, hands, late, missed>>

Counts_All(f) == TRUE
Counts(f) == f.length = 512

\* Frames of another length, late handshake packets for one, are passed over.
Receive ==
  /\ At(Receiver, "transfer")
  /\ Recv(Receiver)
  /\ counter' = IF Counts(Head(iqueue[Receiver]))
                  THEN [counter EXCEPT ![Receiver] = @ + 1] ELSE counter
  /\ UNCHANGED <<pc, timeUp, hist>>

Silence_Ignored == "transfer"
Silence == "failed"

ReceiveFails ==
  /\ At(Receiver, "transfer")
  /\ RecvFails(Receiver)
  /\ Goto(Receiver, Silence)
  /\ UNCHANGED <<timeUp, counter, hands, acked>>

-----------------------------------------------------------------------------
(* The chips and the cable. *)

\* The egress DMA of b sends a frame and returns its buffer (hwb = 1); the
\* ingress DMA of its peer needs a buffer and room in the ring.
Deliver(b, f) ==
  LET p == Peer(b) IN
  /\ egress' = [egress EXCEPT ![b] = Tail(@)]
  /\ IF Alive(p) /\ stack[p] > 0 /\ Len(iqueue[p]) < NotifEntries
       THEN /\ iqueue' = [iqueue EXCEPT ![p] = Append(@, f)]
            /\ stack'  = [stack EXCEPT ![b] = @ + 1, ![p] = @ - 1]
            /\ UNCHANGED missed
       ELSE /\ stack'  = [stack EXCEPT ![b] = @ + 1]
            /\ missed' = missed + DataIn(<<f>>)
            /\ UNCHANGED iqueue
  /\ UNCHANGED <<pc, timeUp, counter, hands, acked, late>>

Arrive(b) == egress[b] # <<>> /\ Deliver(b, Head(egress[b]))

ArriveDamaged(b) ==
  /\ egress[b] # <<>> /\ "damaged" \in Disturbances
  /\ Deliver(b, [Head(egress[b]) EXCEPT !.content = "noise"])

Lose(b) ==
  /\ egress[b] # <<>> /\ "lost" \in Disturbances
  /\ egress' = [egress EXCEPT ![b] = Tail(@)]
  /\ stack'  = [stack EXCEPT ![b] = @ + 1]
  /\ missed' = missed + DataIn(<<Head(egress[b])>>)
  /\ UNCHANGED <<pc, timeUp, counter, iqueue, hands, acked, late>>

-----------------------------------------------------------------------------
Handshake(b) ==
  IF b = Sender THEN SendHand \/ GetAck \/ NoAck
                ELSE Listen \/ GetHand \/ NoHand \/ SendAck

Main(b) ==
  \/ Start(b) \/ GiveUp(b) \/ Decide(b) \/ Handshake(b)
  \/ IF b = Sender THEN Transmit ELSE Receive \/ ReceiveFails

\* Both have ended, or the receiver has and the bound stops the sender.
Terminating ==
  /\ At(Receiver, "failed")
  /\ At(Sender, "failed") \/ (At(Sender, "transfer") /\ counter[Sender] = MaxData)
  /\ UNCHANGED vars

Next ==
  \/ \E b \in Boards :
       Main(b) \/ TimeUp(b) \/ Arrive(b) \/ ArriveDamaged(b) \/ Lose(b)
  \/ Terminating

\* The programs and the chips run, and the clock goes on.
Fairness ==
  \A b \in Boards :
    WF_vars(Main(b)) /\ WF_vars(TimeUp(b)) /\ WF_vars(Arrive(b))

Spec == Init /\ [][Next]_vars /\ Fairness

-----------------------------------------------------------------------------
(* Properties. *)

TypeOK ==
  /\ pc \in [Boards -> {"off", "opened", "test", "wait", "ack", "decide",
                         "transfer", "failed"}]
  /\ timeUp \in [Boards -> BOOLEAN]
  /\ counter \in [Boards -> 0 .. MaxData]
  /\ egress \in [Boards -> Seq(Frames)] /\ iqueue \in [Boards -> Seq(Frames)]
  /\ \A b \in Boards :
       Len(egress[b]) <= EqueueEntries /\ Len(iqueue[b]) <= NotifEntries
  /\ stack \in [Boards -> 0 .. NumBuffers]
  /\ hands \in 0 .. MaxHands /\ acked \in BOOLEAN
  /\ late \in [Boards -> 0 .. MaxLate] /\ missed \in 0 .. MaxData

Shaking(b) == pc[b] \in {"test", "wait"}

\* During the handshake main reads into `shakehand`, which has 64 bytes, and
\* mpsock_recv_data copies whatever length arrived: no longer frame may lie
\* in the ring while a board is shaking hands.
FitsShakehand ==
  \A b \in Boards : Shaking(b) =>
    \A k \in DOMAIN iqueue[b] : iqueue[b][k].length = 64

\* The sender transmits only to a receiver that has answered, and that has
\* left its own handshake for good.
TransmitsToListener ==
  At(Sender, "transfer") =>
    acked /\ pc[Receiver] \in {"decide", "transfer", "failed"}

\* Every data packet the sender counted is counted by the receiver, under way,
\* or accounted for as missed; no handshake packet is taken for data.
DataAccounted ==
  counter[Sender] = counter[Receiver] + missed
                    + DataIn(egress[Sender]) + DataIn(iqueue[Receiver])

\* Once there are buffers, each is on the stack, in a queue, or was lost to a
\* late receive.
AgingBuffersConserved ==
  \A b \in Boards :
    LET known == stack[b] + Len(egress[b]) + Len(iqueue[b]) + late[b] IN
    known = NumBuffers \/ (~ Alive(b) /\ known = 0)

\* Neither board shakes hands for ever, whatever is lost, and no send waits
\* for ever for a buffer.
HandshakeEnds ==
  \A b \in Boards : pc[b] \in {"test", "wait", "ack", "decide"} ~>
                    pc[b] \in {"transfer", "failed"}

\* A receiver whose sender is gone, because the only acknowledgement was lost
\* for instance, does not wait for ever.
ReceiverFollows ==
  At(Sender, "failed") /\ Alive(Receiver) ~> At(Receiver, "failed")
=============================================================================
