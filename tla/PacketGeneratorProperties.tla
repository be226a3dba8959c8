--------------------- MODULE PacketGeneratorProperties ---------------------
(***************************************************************************)
(* What is claimed of the data path in PacketGenerator.                    *)
(***************************************************************************)
EXTENDS PacketGenerator

Frames ==
  [src : Workers, dest : 0 .. 255, payload : Payload \cup {Blank, Noise},
   length : {"pktlen", "other"}]

\* The values of the variables that belong to the workers, and the shape of the
\* two rings: positions stay inside the ring, which keeps its size.
WorkerTypeOK ==
  /\ pc \in [Workers -> {"fill", "test", "send", "put", "recv", "judge",
                         "done"}]
  /\ i \in [Workers -> 0 .. Once]
  /\ pool \in [Workers -> PoolType(Once + 1)]
  /\ queue \in [Workers -> QueueType(Once + 1)]
  /\ data \in [Workers -> [Buffers -> Payload \cup {Blank}]]
  /\ packet \in [Workers -> Buffers]
  /\ count \in [Workers -> [Counters -> Nat]]
  /\ batch \in [Workers -> 0 .. MaxBatches]
  /\ finish_counter \in Nat
  /\ exit_noti_flag \in BOOLEAN
  /\ process \in {"running", "exited", "died"}

\* The values of the variables of the network chip and of its surroundings.
NicTypeOK ==
  /\ timeUp \in [Workers -> BOOLEAN]
  /\ idesc \in [Workers -> Frames \cup {NoFrame}]
  /\ stack \in Nat
  /\ egress \in Seq(Frames) /\ wire \in Seq(Frames)
  /\ iqueue \in [Workers -> Seq(Frames)]
  /\ fault \in [Workers -> [FaultKinds -> Nat]]
  /\ base \in [Workers -> [Counters -> Nat]]

TypeOK == WorkerTypeOK /\ NicTypeOK

-----------------------------------------------------------------------------
(* The rings. *)

\* The error paths of get_buf, push_session_buf and pop_session_buf are never
\* taken: neither a buffer nor a hardware buffer can leak through the `break`s
\* of packet_generator.c:278, 336, 346, 378 and 420.
RingsNeverFail ==
  Running => \A w \in Workers :
    /\ pc[w] \in {"fill", "send"} /\ i[w] < Once => ~ is_empty_pool(pool[w])
    /\ At(w, "put") => ~ is_full_manager_queue(queue[w])
    /\ At(w, "judge") \/ (At(w, "recv") /\ i[w] < Once)
         => ~ is_empty_manager_queue(queue[w])

\* Where each packet of worker w is, in the order of a trip through the rings.
Whereabouts(w) ==
  QueueList(queue[w]) \o (IF At(w, "put") THEN <<packet[w]>> ELSE <<>>)
                      \o FreeList(pool[w])

\* Every packet is in exactly one place, none is duplicated or lost, however
\* often free_buf is called without looking whether the pool is full.  The
\* packet of the last buffer is in no place: the first free_buf overwrites the
\* only pointer to it (pool_manager.c:41, 91).
PacketsConserved ==
  Running => \A w \in Workers :
    LET here == Whereabouts(w) IN
      /\ Len(here) = Once
      /\ {here[k] : k \in DOMAIN here} = 0 .. Once - 1

\* free_num and length, which are unsigned, always say how many pointers the
\* rings hold: free_num counts the slot that is lost, and neither wraps.
RingCountsRight ==
  Running => \A w \in Workers :
    /\ pool[w].free_num = FreeCount(pool[w]) + 1
    /\ queue[w].length = QueueCount(queue[w])

\* How the Once packets are split between the two rings at each place of the
\* program: why the error paths cannot be taken, and the inductive invariant
\* behind RingsNeverFail.
PacketsSplit(w) ==
  LET free == FreeCount(pool[w])
      out  == QueueCount(queue[w])
  IN /\ pc[w] \in {"fill", "test", "done"} => free = Once /\ out = 0
     /\ pc[w] = "send" => free = Once - i[w] /\ out = i[w]
     /\ pc[w] = "put"  => i[w] < Once /\ free = Once - i[w] - 1 /\ out = i[w]
     /\ pc[w] = "recv" => free = i[w] /\ out = Once - i[w]
     /\ pc[w] = "judge" => i[w] < Once /\ free = i[w] /\ out = Once - i[w]

RingInv ==
  /\ WorkerTypeOK
  /\ Running => \A w \in Workers :
       /\ PoolOK(pool[w], Once + 1)
       /\ QueueOK(queue[w], Once + 1)
       /\ PacketsSplit(w)

-----------------------------------------------------------------------------
(* The network chip. *)

\* Every hardware buffer is on the stack, in the egress queue, in an ingress
\* queue, or in the hands of one worker.
HardwareBuffersConserved ==
  Running =>
    stack + Len(egress)
      + Cardinality({x \in Workers \X (1 .. NotifEntries) :
                       x[2] <= Len(iqueue[x[1]])})
      + Cardinality({w \in Workers : pc[w] \in {"put", "judge"}})
    = NumBufs

InIqueue(w) == iqueue[w] \o (IF At(w, "judge") THEN <<idesc[w]>> ELSE <<>>)

\* A worker reads back only frames it sent, also when adding the rank to the
\* last octet of the address wraps around.
OnlyOwnFrames ==
  \A w \in Workers : \A k \in DOMAIN InIqueue(w) : InIqueue(w)[k].src = w

\* Nobody came late: no worker gave up on a frame that was under way.
NobodyLate == \A w \in Workers : fault[w]["late"] = 0

\* With ingress rings as large as a batch, the buffer stack that
\* init_mpipe_equeue sizes never runs dry and no ingress ring overflows,
\* unless a worker gave up on a frame under way and so got a backlog.
SizesSuffice ==
  Once <= NotifEntries /\ NobodyLate
    => /\ process # "died"
       /\ \A w \in Workers : fault[w]["overflow"] = 0

-----------------------------------------------------------------------------
(* The verdicts. *)

Counted(w, counter) == count[w][counter] - base[w][counter]

\* Frames of worker w that it has not read yet.
Backlog(w) == UnderWay(w) + Len(iqueue[w])

\* Between two batches the misses a worker has counted are the frames that
\* were lost and those it has yet to read.  So no loss goes unnoticed, and the
\* backlog a late frame leaves is worked off by later losses alone: until then
\* every later frame is judged against the packet of another one.
MissesAccounted ==
  Running => \A w \in Workers :
    pc[w] \in {"test", "done"} =>
      Counted(w, "error_recv")
        = fault[w]["lost"] + fault[w]["overflow"] + Backlog(w)

Errors(c) == <<c["error_len"], c["error_data"], c["error_recv"]>>
Disturbed(w) == \E k \in FaultKinds : fault[w][k] > 0

\* No false alarm: a worker counts an error only after something happened to
\* one of its frames.
NoFalseAlarm ==
  [][\A w \in Workers : Errors(count'[w]) # Errors(count[w]) => Disturbed(w)']_vars

\* A frame whose length changed is counted once it is judged, and so is one
\* whose content changed, if that check is on.
Waiting(w, P(_)) == Cardinality({k \in DOMAIN InIqueue(w) : P(InIqueue(w)[k])})
IsResized(f) == f.length = "other"
IsDamaged(f) == f.payload = Noise /\ f.length = "pktlen"

DamageNoticed ==
  Running => \A w \in Workers :
    /\ "LENGTH" \in CheckLevel =>
         Counted(w, "error_len") = fault[w]["resized"] - Waiting(w, IsResized)
    /\ "DATA" \in CheckLevel =>
         Counted(w, "error_data") >= fault[w]["damaged"] - Waiting(w, IsDamaged)

\* Every packet of every batch gets exactly one verdict of each check.
EveryPacketJudged ==
  Running => \A w \in Workers :
    pc[w] \in {"test", "done"} =>
      LET Verdicts(right, wrong) ==
            Counted(w, right) + Counted(w, wrong) + Counted(w, "error_recv")
      IN /\ "LENGTH" \in CheckLevel =>
              Verdicts("correct_len", "error_len") = Once * batch[w]
         /\ "DATA" \in CheckLevel =>
              Verdicts("correct_data", "error_data") = Once * batch[w]

-----------------------------------------------------------------------------
(* Progress. *)

\* Once its interval is over, a worker comes to the end of its batch, whatever
\* the network loses and however the workers share the egress queue, and reports
\* in finish_counter, or the process has ended.
WorkersFinish ==
  \A w \in Workers : timeUp[w] ~> At(w, "done") \/ ~ Running

-----------------------------------------------------------------------------
(* The rings implement the order of packets that LoopbackOrder promises. *)

Phase(w) ==
  IF ~ Running THEN "stopped"
  ELSE CASE At(w, "fill")              -> "fill"
         [] pc[w] \in {"test", "done"} -> "idle"
         [] pc[w] \in {"send", "put"}  -> "send"
         [] OTHER                      -> "recv"

Order == INSTANCE LoopbackOrder WITH
  phase <- [w \in Workers |-> Phase(w)],
  free  <- [w \in Workers |-> FreeList(pool[w])],
  out   <- [w \in Workers |->
              QueueList(queue[w])
                \o (IF At(w, "put") THEN <<packet[w]>> ELSE <<>>)]

\* The workers do with their rings what LoopbackOrder allows, and no more.
PacketOrder == Order!Spec
=============================================================================
