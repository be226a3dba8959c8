-------------------------- MODULE PacketGenerator --------------------------
(***************************************************************************)
(* clib-src/mpipe_mutual/packet_generator.c, the data path: every worker   *)
(* thread fills its packet buffers, then sends them in batches through the *)
(* loopback of the network chip (mPIPE) and reads each one back, checks it *)
(* against the packet at the head of its queue, and counts the verdict.    *)
(* All workers share one egress queue and one stack of hardware buffers    *)
(* (mpipe.c); each has an ingress queue of its own.  One SIGINT may arrive *)
(* at any time.                                                            *)
(***************************************************************************)
EXTENDS PoolManager, ManagerQueue, Naturals, Sequences, FiniteSets

CONSTANTS
  Workers,       \* the ranks of the workers: 0 .. num_workers-1
  Once,          \* config->once_packet_nums
  NotifEntries,  \* config->notif_ring_entries, per worker
  EqueueEntries, \* config->equeue_entries
  CheckLevel,    \* config->check_level as a set: {}, "LENGTH", "DATA" or both
  ErrorNum,      \* config->errornum
  Octet,         \* last octet of config->dstmac, and of config->dmac
  Payload,       \* the contents rand() may give a packet
  Blank, Noise,  \* content of an unfilled buffer, of a damaged frame
  Garbage,       \* what the counters may hold in the memory malloc returns
  Disturbances,  \* what the outside world may do: "lost", "damaged",
                 \* "resized", "late", "sigint"
  MaxBatches     \* bound on the batches a worker sends

Counters == {"drop_total", "error_len", "error_data", "error_recv",
             "correct_len", "correct_data"}

ASSUME OnceAssumption == Once \in Nat
\* No more workers than the chip has cpus (mpipe.c:76), which are fewer than 256.
ASSUME WorkersAssumption == Workers \subseteq 0 .. 255 /\ IsFiniteSet(Workers)
ASSUME SizesAssumption ==
  NotifEntries \in Nat /\ EqueueEntries \in Nat \ {0} /\ ErrorNum \in Nat
ASSUME BoundAssumption == MaxBatches \in Nat
ASSUME GarbageAssumption == Garbage \subseteq [Counters -> Nat]
ASSUME OctetAssumption == Octet \in 0 .. 255
\* No packet has the content of a damaged frame: damage is a change.
ASSUME NoiseAssumption == Noise \notin Payload \cup {Blank}

VARIABLES
  pc,             \* where each worker is in generator_packet
  i,              \* the loop counter of the loop it is in
  pool, queue,    \* generator->pool and generator->queue
  data,           \* content of each packet buffer, by buffer
  packet,         \* the local `packet`: the buffer get_buf returned
  idesc,          \* the local `idesc`: the frame try_get returned
  count,          \* generator's counters
  timeUp,         \* has the worker's test interval elapsed?
  batch,          \* how many batches the worker has started
  finish_counter, exit_noti_flag,
  process,        \* "running", "exited" (exit) or "died" (tmc_task_die)
  stack,          \* how many hardware buffers are on the buffer stack
  egress,         \* the frames in the egress queue, each holding a buffer
  wire,           \* the frames under way from the egress to the ingress side
  iqueue,         \* the frames in each ingress queue, each holding a buffer
  \* History, read by the properties only:
  base,           \* the counters as malloc left them
  fault           \* what happened to each worker's frames

worker == <<pc, i, pool, queue, data, packet, idesc, count, batch>>
nic    == <<stack, egress, wire, iqueue>>
flags  == <<timeUp, finish_counter, exit_noti_flag, process>>
others == <<flags, nic, base, fault>>
vars   == <<worker, others>>

Buffers == 0 .. Once          \* once_packet_nums + 1 of them
NoFrame == [src |-> "none"]
FaultKinds == {"lost", "overflow", "damaged", "resized", "late"}
\* init_mpipe_equeue.  (Definitions named with a suffix, here and below, are
\* mutants: slips the properties must notice, no part of the model.)
NumBufs_Egress == EqueueEntries
NumBufs == EqueueEntries + Cardinality(Workers) * NotifEntries

-----------------------------------------------------------------------------
(* init_generator_set, and what its callees leave behind. *)
Init ==
  /\ pc     = [w \in Workers |-> "fill"]
  /\ i      = [w \in Workers |-> 0]
  /\ pool   = [w \in Workers |-> init_pool(Once + 1)]
  /\ queue  = [w \in Workers |-> init_manager_queue(Once + 1)]
  /\ data   = [w \in Workers |-> [b \in Buffers |-> Blank]]
  /\ packet = [w \in Workers |-> 0]
  /\ idesc  = [w \in Workers |-> NoFrame]
  /\ count \in [Workers -> Garbage]
  /\ batch  = [w \in Workers |-> 0]
  /\ timeUp = [w \in Workers |-> FALSE]
  /\ finish_counter = 0 /\ exit_noti_flag = FALSE /\ process = "running"
  /\ stack  = NumBufs
  /\ egress = <<>> /\ wire = <<>>
  /\ iqueue = [w \in Workers |-> <<>>]
  /\ base   = count
  /\ fault  = [w \in Workers |-> [k \in FaultKinds |-> 0]]

Running == process = "running"

Bump(c, counter) == [c EXCEPT ![counter] = @ + 1]

At(w, l) == pc[w] = l
Goto(w, l) == pc' = [pc EXCEPT ![w] = l]
Loop(w, n) == i' = [i EXCEPT ![w] = n]

-----------------------------------------------------------------------------
(* make_all_packet: take a buffer, fill it and put it back, Once times. *)

MakePacket(w) ==
  /\ At(w, "fill") /\ i[w] < Once
  /\ IF is_empty_pool(pool[w])
       THEN /\ count' = [count EXCEPT ![w] = Bump(@, "drop_total")]
            /\ Goto(w, "test")
            /\ UNCHANGED <<i, pool, data>>
       ELSE /\ LET b == get_buf_data(pool[w]) IN
                 /\ \E p \in Payload : data' = [data EXCEPT ![w][b] = p]
                 /\ pool' = [pool EXCEPT ![w] = free_buf(get_buf(@), b)]
            /\ Loop(w, i[w] + 1)
            /\ UNCHANGED <<pc, count>>
  /\ UNCHANGED <<queue, packet, idesc, batch, others>>

MakeDone(w) ==
  /\ At(w, "fill") /\ i[w] >= Once
  /\ Goto(w, "test")
  /\ UNCHANGED <<i, pool, queue, data, packet, idesc, count, batch, others>>

-----------------------------------------------------------------------------
(* The outer loop of generator_packet: the time is looked at between two   *)
(* batches only, and once SIGINT has set exit_noti_flag no batch starts.   *)

StartBatch(w) ==
  /\ At(w, "test") /\ ~ timeUp[w] /\ ~ exit_noti_flag
  /\ batch[w] < MaxBatches
  /\ Goto(w, "send") /\ Loop(w, 0)
  /\ batch' = [batch EXCEPT ![w] = @ + 1]
  /\ UNCHANGED <<pool, queue, data, packet, idesc, count, others>>

\* finish_counter is incremented under finish_lock.
Finish(w) ==
  /\ At(w, "test") /\ timeUp[w]
  /\ Goto(w, "done")
  /\ finish_counter' = finish_counter + 1
  /\ UNCHANGED <<i, pool, queue, data, packet, idesc, count, batch, timeUp,
                 exit_noti_flag, process, nic, base, fault>>

-----------------------------------------------------------------------------
(* The send loop: get_buf, then mpipe_send_packet takes a hardware buffer  *)
(* from the stack, copies the packet into it and waits for room in the     *)
(* egress queue, then push_session_buf.                                    *)

\* get_buf, then gxio_mpipe_pop_buffer: when that returns NULL, tmc_task_die
\* ends the process.
SendTake(w) ==
  /\ At(w, "send") /\ i[w] < Once
  /\ IF is_empty_pool(pool[w])
       THEN /\ count' = [count EXCEPT ![w] = Bump(@, "drop_total")]
            /\ Goto(w, "recv") /\ Loop(w, 0)
            /\ UNCHANGED <<packet, pool, stack, process>>
       ELSE /\ packet' = [packet EXCEPT ![w] = get_buf_data(pool[w])]
            /\ pool' = [pool EXCEPT ![w] = get_buf(@)]
            /\ IF stack = 0
                 THEN process' = "died" /\ UNCHANGED <<pc, stack>>
                 ELSE stack' = stack - 1 /\ Goto(w, "put") /\ UNCHANGED process
            /\ UNCHANGED <<count, i>>
  /\ UNCHANGED <<queue, data, idesc, batch, timeUp, finish_counter,
                 exit_noti_flag, egress, wire, iqueue, base, fault>>

\* make_all_packet: h_dest[5] += rank.
LastOctet_NoRank(w) == Octet
LastOctet(w) == (Octet + w) % 256

\* The packet as a frame.  `src` is no part of it; the properties read it.
FrameOf(w) ==
  [src |-> w, dest |-> LastOctet(w), payload |-> data[w][packet[w]],
   length |-> "pktlen"]

\* gxio_mpipe_equeue_put, then push_session_buf: when the session queue is
\* full the loop ends, and nothing refers to the packet sent any more.
SendPut(w) ==
  /\ At(w, "put") /\ Len(egress) < EqueueEntries
  /\ egress' = Append(egress, FrameOf(w))
  /\ IF is_full_manager_queue(queue[w])
       THEN Goto(w, "recv") /\ Loop(w, 0) /\ UNCHANGED queue
       ELSE /\ queue' = [queue EXCEPT ![w] = push_session_buf(@, packet[w])]
            /\ Goto(w, "send") /\ Loop(w, i[w] + 1)
  /\ UNCHANGED <<pool, data, packet, idesc, count, batch, flags, stack, wire,
                 iqueue, base, fault>>

SendDone(w) ==
  /\ At(w, "send") /\ i[w] >= Once
  /\ Goto(w, "recv") /\ Loop(w, 0)
  /\ UNCHANGED <<pool, queue, data, packet, idesc, count, batch, others>>

-----------------------------------------------------------------------------
(* The receive loop. *)

\* gxio_mpipe_iqueue_try_get returns 0: the descriptor leaves the ring, its
\* hardware buffer stays with the worker until gxio_mpipe_iqueue_drop.
RecvGet(w) ==
  /\ At(w, "recv") /\ i[w] < Once
  /\ iqueue[w] # <<>>
  /\ idesc'  = [idesc EXCEPT ![w] = Head(iqueue[w])]
  /\ iqueue' = [iqueue EXCEPT ![w] = Tail(@)]
  /\ Goto(w, "judge")
  /\ UNCHANGED <<i, pool, queue, data, packet, count, batch, flags, stack,
                 egress, wire, base, fault>>

\* The test of pass_or_exit.
ErrorLimit(c) ==
  \E counter \in {"error_len", "error_data", "error_recv"} :
    c[counter] >= ErrorNum

LengthWrong(w) == "LENGTH" \in CheckLevel /\ idesc[w].length # "pktlen"

DataWrong_Self(w) ==
  "DATA" \in CheckLevel /\ idesc[w].payload # idesc[w].payload

\* compare_packet, over the length of the packet at the head of the queue.
DataWrong(w) ==
  /\ "DATA" \in CheckLevel
  /\ idesc[w].payload # data[w][pop_session_buf_data(queue[w])]

AfterLength_WrongOnly(w) ==
  IF LengthWrong(w) THEN Bump(count[w], "error_len") ELSE count[w]

AfterLength(w) ==
  IF "LENGTH" \notin CheckLevel THEN count[w]
  ELSE Bump(count[w], IF LengthWrong(w) THEN "error_len" ELSE "correct_len")

AfterData(w) ==
  IF "DATA" \notin CheckLevel THEN AfterLength(w)
  ELSE Bump(AfterLength(w),
            IF DataWrong(w) THEN "error_data" ELSE "correct_data")

ExitOnLength(w) == LengthWrong(w) /\ ErrorLimit(AfterLength(w))
ExitOnData(w) == DataWrong(w) /\ ErrorLimit(AfterData(w))

iqueue_drop_Forgotten == UNCHANGED stack
iqueue_drop == stack' = stack + 1

\* The checks pass or are counted; the packet and the hardware buffer go back.
JudgeGoOn(w) ==
  /\ count' = [count EXCEPT ![w] = AfterData(w)]
  /\ pool'  = [pool EXCEPT ![w] = free_buf(@, pop_session_buf_data(queue[w]))]
  /\ iqueue_drop
  /\ idesc' = [idesc EXCEPT ![w] = NoFrame]
  /\ Goto(w, "recv") /\ Loop(w, i[w] + 1)
  /\ UNCHANGED process

\* pass_or_exit calls exit(0), after a wrong length before looking at the data.
JudgeExit(w) ==
  /\ count' = [count EXCEPT ![w] = IF ExitOnLength(w) THEN AfterLength(w)
                                                     ELSE AfterData(w)]
  /\ process' = "exited"
  /\ UNCHANGED <<pc, i, pool, stack, idesc>>

\* With no packet to compare with, the loop ends, and the hardware buffer is
\* never dropped.
Judge(w) ==
  /\ At(w, "judge")
  /\ IF is_empty_manager_queue(queue[w])
       THEN /\ Goto(w, "test")
            /\ idesc' = [idesc EXCEPT ![w] = NoFrame]
            /\ UNCHANGED <<queue, count, pool, i, stack, process>>
       ELSE /\ queue' = [queue EXCEPT ![w] = pop_session_buf(@)]
            /\ IF ExitOnLength(w) \/ ExitOnData(w) THEN JudgeExit(w)
                                                   ELSE JudgeGoOn(w)
  /\ UNCHANGED <<data, packet, batch, timeUp, finish_counter, exit_noti_flag,
                 egress, wire, iqueue, base, fault>>

Sent(s, w) == {k \in DOMAIN s : s[k].src = w}
UnderWay(w) == Cardinality(Sent(egress, w)) + Cardinality(Sent(wire, w))

\* The last try_get failed and the timeout has passed.  It may pass while a
\* frame of this worker is under way: then that frame will come late.
Expired(w) ==
  /\ iqueue[w] = <<>>
  /\ UnderWay(w) > 0 => "late" \in Disturbances
  /\ fault' = IF UnderWay(w) > 0
                THEN [fault EXCEPT ![w] = Bump(@, "late")] ELSE fault

CountMiss_Not(c) == c
CountMiss(c) == Bump(c, "error_recv")

RecvTimeout(w) ==
  /\ At(w, "recv") /\ i[w] < Once /\ Expired(w)
  /\ IF is_empty_manager_queue(queue[w])
       THEN Goto(w, "test") /\ UNCHANGED <<queue, pool, count, process, i>>
       ELSE /\ queue' = [queue EXCEPT ![w] = pop_session_buf(@)]
            /\ pool'  = [pool EXCEPT ![w] =
                           free_buf(@, pop_session_buf_data(queue[w]))]
            /\ LET c == CountMiss(count[w]) IN
                 /\ count' = [count EXCEPT ![w] = c]
                 /\ process' = IF ErrorLimit(c) THEN "exited" ELSE process
            /\ Loop(w, i[w] + 1)
            /\ UNCHANGED pc
  /\ UNCHANGED <<data, packet, idesc, batch, timeUp, finish_counter,
                 exit_noti_flag, nic, base>>

RecvDone_Early(w) ==
  /\ At(w, "recv")
  /\ Goto(w, "test")
  /\ UNCHANGED <<i, pool, queue, data, packet, idesc, count, batch, others>>

RecvDone_Stuck(w) ==
  /\ At(w, "recv") /\ i[w] > Once
  /\ Goto(w, "test")
  /\ UNCHANGED <<i, pool, queue, data, packet, idesc, count, batch, others>>

RecvDone(w) ==
  /\ At(w, "recv") /\ i[w] >= Once
  /\ Goto(w, "test")
  /\ UNCHANGED <<i, pool, queue, data, packet, idesc, count, batch, others>>

Worker(w) ==
  /\ Running
  /\ \/ MakePacket(w) \/ MakeDone(w)
     \/ StartBatch(w) \/ Finish(w)
     \/ SendTake(w) \/ SendPut(w) \/ SendDone(w)
     \/ RecvGet(w) \/ Judge(w) \/ RecvTimeout(w) \/ RecvDone(w)

-----------------------------------------------------------------------------
(* The clock, the network chip and the user. *)

TimeUp(w) ==
  /\ Running /\ pc[w] # "fill" /\ ~ timeUp[w]
  /\ timeUp' = [timeUp EXCEPT ![w] = TRUE]
  /\ UNCHANGED <<worker, finish_counter, exit_noti_flag, process, nic, base,
                 fault>>

\* The egress DMA sends the oldest frame; hwb = 1 returns its buffer.
Transmit ==
  /\ Running /\ egress # <<>>
  /\ egress' = Tail(egress)
  /\ wire'   = Append(wire, Head(egress))
  /\ stack'  = stack + 1
  /\ UNCHANGED <<worker, flags, iqueue, base, fault>>

\* init_mpipe_rules: the ring of worker w takes the frames for dmac + w.
RingsFor(f) == {w \in Workers : (Octet + w) % 256 = f.dest}

\* The ingress DMA takes a buffer and posts the frame to the ring of its
\* rule, or drops the frame when it finds no buffer or no room.
ArriveAs(f, kind) ==
  /\ wire' = Tail(wire)
  /\ \E w \in RingsFor(f) :
       IF Len(iqueue[w]) < NotifEntries /\ stack > 0
         THEN /\ iqueue' = [iqueue EXCEPT ![w] = Append(@, f)]
              /\ stack'  = stack - 1
              /\ fault'  = IF kind = "intact" THEN fault
                             ELSE [fault EXCEPT ![f.src] = Bump(@, kind)]
         ELSE /\ UNCHANGED <<iqueue, stack>>
              /\ fault' = [fault EXCEPT ![f.src] = Bump(@, "overflow")]
  /\ UNCHANGED <<worker, flags, egress, base>>

Arrive == Running /\ wire # <<>> /\ ArriveAs(Head(wire), "intact")

ArriveDamaged ==
  /\ Running /\ wire # <<>> /\ "damaged" \in Disturbances
  /\ ArriveAs([Head(wire) EXCEPT !.payload = Noise], "damaged")

\* A frame of another length: what lies beyond its end in the hardware
\* buffer may or may not be what was sent.
ArriveResized ==
  /\ Running /\ wire # <<>> /\ "resized" \in Disturbances
  /\ \E p \in {Head(wire).payload, Noise} :
       ArriveAs([Head(wire) EXCEPT !.payload = p, !.length = "other"],
                "resized")

Lose ==
  /\ Running /\ wire # <<>> /\ "lost" \in Disturbances
  /\ wire'  = Tail(wire)
  /\ fault' = [fault EXCEPT ![Head(wire).src] = Bump(@, "lost")]
  /\ UNCHANGED <<worker, flags, stack, egress, iqueue, base>>

\* print_counter_info sets the flag, sleeps one second and exits.
Sigint ==
  /\ Running /\ "sigint" \in Disturbances /\ ~ exit_noti_flag
  /\ exit_noti_flag' = TRUE
  /\ UNCHANGED <<worker, timeUp, finish_counter, process, nic, base, fault>>

SigintExit ==
  /\ Running /\ exit_noti_flag
  /\ process' = "exited"
  /\ UNCHANGED <<worker, timeUp, finish_counter, exit_noti_flag, nic, base,
                 fault>>

Network == Transmit \/ Arrive \/ ArriveDamaged \/ ArriveResized \/ Lose

\* The process is gone, or every worker has finished and all is quiet.
Stopped ==
  \/ ~ Running
  \/ (\A w \in Workers : At(w, "done")) /\ egress = <<>> /\ wire = <<>>

Terminating == Stopped /\ UNCHANGED vars

Next ==
  \/ \E w \in Workers : Worker(w) \/ TimeUp(w)
  \/ Network
  \/ Sigint \/ SigintExit
  \/ Terminating

\* Each worker has a cpu of its own, the chip moves its frames, the clock
\* runs, and the handler's sleep(1) ends.
Fairness ==
  /\ \A w \in Workers : WF_vars(Worker(w)) /\ WF_vars(TimeUp(w))
  /\ WF_vars(Transmit) /\ WF_vars(Arrive)
  /\ WF_vars(SigintExit)

Spec == Init /\ [][Next]_vars /\ Fairness
=============================================================================
