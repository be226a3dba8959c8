--------------------------- MODULE MutualProcess ---------------------------
(***************************************************************************)
(* The life of a mpipe_mutual process: main (mpipe_mutual.c) creates the   *)
(* workers and the counter thread, a barrier starts them together, the     *)
(* workers count their errors, the counter thread sums the counters every  *)
(* second and, once all workers have finished, prints the verdict and      *)
(* ends the process.  SIGINT may come at any time, on any thread; its      *)
(* handler prints a verdict of its own and ends the process.  What the     *)
(* workers do between two increments is module PacketGenerator's.          *)
(***************************************************************************)
EXTENDS Naturals, Sequences, FiniteSets

CONSTANTS
  NumWorkers,  \* config->num_workers
  ErrorNum,    \* config->errornum
  Garbage,     \* what a worker's error counters may add up to in the memory
               \* malloc returns
  MayFail,     \* what may fail: creating a "worker" or the "counter" thread,
               \* binding a thread to its "cpu"
  MaxErrors,   \* bound on the errors a worker counts
  MaxSignals   \* bound on the SIGINTs

ASSUME NumWorkersAssumption == NumWorkers \in Nat
ASSUME ErrorNumAssumption == ErrorNum \in Nat
ASSUME ProcessGarbageAssumption == Garbage \subseteq Nat
ASSUME ProcessBoundsAssumption == MaxErrors \in Nat /\ MaxSignals \in Nat

Workers == 0 .. NumWorkers - 1
Counter == NumWorkers
Main    == NumWorkers + 1
Threads == 0 .. Main
None    == NumWorkers + 2

VARIABLES
  pc,              \* where each thread is in its own code
  created,         \* the workers pthread_create has made
  arrived,         \* the threads that have come to mpipe->barrier
  error,           \* the sum of the three error counters of each worker
  local,           \* finish_counter as a worker in ++finish_counter read it
  finish_lock,     \* who holds it
  finish_counter,
  exit_noti_flag,
  handler,         \* where print_counter_info is on each thread, "none" if not
  sum,             \* the locals of the thread's counting function
  signals,         \* how many SIGINTs came
  process,         \* "running", "exited" or "crashed"
  status,          \* its exit status
  \* History, read by the properties only:
  base,            \* the error counters as malloc left them
  verdicts         \* the lines "SUCCESSED" and "FAILED" printed

shared == <<error, base>>
finish == <<local, finish_lock, finish_counter>>
signal == <<exit_noti_flag, handler, signals>>
ending == <<process, status, verdicts>>
\* (Definitions named with a suffix are mutants, as in PacketGenerator.)
vars == <<pc, created, arrived, shared, finish, signal, sum, ending>>

NoSum == [next |-> 0, error |-> 0, before |-> 0]

Init ==
  /\ pc = [t \in Threads |-> IF t = Main THEN "config" ELSE "none"]
  /\ created = 0 /\ arrived = {}
  /\ error \in [Workers -> Garbage] /\ base = error
  /\ local = [w \in Workers |-> 0] /\ finish_lock = None
  /\ finish_counter = 0 /\ exit_noti_flag = FALSE
  /\ handler = [t \in Threads |-> "none"] /\ signals = 0
  /\ sum = [t \in Threads |-> NoSum]
  /\ process = "running" /\ status = 0 /\ verdicts = <<>>

Running == process = "running"

\* A thread executes its own code unless the handler has interrupted it.
At(t, l) == Running /\ handler[t] = "none" /\ pc[t] = l
Goto(t, l) == pc' = [pc EXCEPT ![t] = l]

Exit(s) == process' = "exited" /\ status' = s

-----------------------------------------------------------------------------
(* main and init_generator_set. *)

\* Until here generator_set is NULL; from here it points to garbage.
Allocate ==
  /\ At(Main, "config")
  /\ Goto(Main, "allocated")
  /\ UNCHANGED <<created, arrived, shared, finish, signal, sum, ending>>

SetNumbers ==
  /\ At(Main, "allocated")
  /\ Goto(Main, "create")
  /\ UNCHANGED <<created, arrived, shared, finish, signal, sum, ending>>

MoreWorkers_Off == created <= NumWorkers
MoreWorkers == created < NumWorkers

\* When a worker cannot be created, the process ends with status 0.
CreateWorker ==
  /\ At(Main, "create") /\ MoreWorkers
  /\ \/ /\ Goto(created, "start")
        /\ created' = created + 1
        /\ UNCHANGED <<process, status>>
     \/ /\ "worker" \in MayFail
        /\ Exit(0)
        /\ UNCHANGED <<pc, created>>
  /\ UNCHANGED <<arrived, shared, finish, signal, sum, verdicts>>

\* The result of pthread_create is not looked at.
CreateCounter ==
  /\ At(Main, "create") /\ ~ MoreWorkers
  /\ \/ pc' = [pc EXCEPT ![Main] = "sleep", ![Counter] = "start"]
     \/ "counter" \in MayFail /\ Goto(Main, "sleep")
  /\ UNCHANGED <<created, arrived, shared, finish, signal, sum, ending>>

-----------------------------------------------------------------------------
(* packet_generator_loop. *)

\* VERIFY of tmc_cpus_set_my_cpu, which tmc_task_die follows, then the barrier.
Arrive(t) ==
  /\ At(t, "start")
  /\ \/ /\ arrived' = arrived \cup {t}
        /\ Goto(t, "barrier")
        /\ UNCHANGED process
     \/ /\ "cpu" \in MayFail
        /\ process' = "crashed"
        /\ UNCHANGED <<pc, arrived>>
  /\ UNCHANGED <<created, shared, finish, signal, sum, status, verdicts>>

BarrierOpen_Workers == Cardinality(arrived) >= NumWorkers
BarrierOpen == Cardinality(arrived) >= NumWorkers + 1

Leave(t) ==
  /\ At(t, "barrier") /\ BarrierOpen
  /\ Goto(t, IF t = Counter THEN "sleep" ELSE "test")
  /\ UNCHANGED <<created, arrived, shared, finish, signal, sum, ending>>

\* The time is not up, and exit_noti_flag is not set.
StartBatch(w) ==
  /\ At(w, "test") /\ ~ exit_noti_flag
  /\ Goto(w, "batch")
  /\ UNCHANGED <<created, arrived, shared, finish, signal, sum, ending>>

\* pass_or_exit compares each of the three counters with the limit.  When the
\* sum has reached it, one of them may have; three that are below it add up to
\* no more than three times one less.
MayReachLimit(e) == e >= ErrorNum
MayStayBelow(e) == e + 3 <= 3 * ErrorNum

\* A counter is incremented; then pass_or_exit may end the process.
JudgeWrong(w) ==
  /\ At(w, "batch") /\ error[w] < base[w] + MaxErrors
  /\ error' = [error EXCEPT ![w] = @ + 1]
  /\ \/ MayReachLimit(error'[w]) /\ Goto(w, "errors")
     \/ MayStayBelow(error'[w]) /\ UNCHANGED pc
  /\ UNCHANGED <<created, arrived, base, finish, signal, sum, ending>>

pass_or_exit(w) ==
  /\ At(w, "errors")
  /\ Exit(0)
  /\ UNCHANGED <<pc, created, arrived, shared, finish, signal, sum, verdicts>>

EndBatch(w) ==
  /\ At(w, "batch")
  /\ Goto(w, "test")
  /\ UNCHANGED <<created, arrived, shared, finish, signal, sum, ending>>

\* The time is up between two batches: lock, ++finish_counter, unlock.
Lock_Not(w) == TRUE
Lock(w) == finish_lock = None

LockFinish(w) ==
  /\ At(w, "test") /\ Lock(w)
  /\ finish_lock' = w
  /\ local' = [local EXCEPT ![w] = finish_counter]
  /\ Goto(w, "locked")
  /\ UNCHANGED <<created, arrived, shared, finish_counter, signal, sum, ending>>

UnlockFinish(w) ==
  /\ At(w, "locked")
  /\ finish_counter' = local[w] + 1
  /\ finish_lock' = None
  /\ Goto(w, "done")
  /\ UNCHANGED <<created, arrived, shared, local, signal, sum, ending>>

Worker(w) ==
  \/ Arrive(w) \/ Leave(w)
  \/ StartBatch(w) \/ JudgeWrong(w) \/ pass_or_exit(w)
  \/ EndBatch(w) \/ LockFinish(w) \/ UnlockFinish(w)

-----------------------------------------------------------------------------
(* Adding up the counters, one worker after the other. *)

\* Sums(e)[k]: what the counters e of the first k workers add up to.
Sums(e) ==
  LET sums[k \in 0 .. NumWorkers] ==
        IF k = 0 THEN 0 ELSE sums[k - 1] + e[k - 1]
  IN  sums

AllErrors == Sums(error)[NumWorkers]

Added_Last(t) ==
  LET w == sum[t].next IN
    [sum EXCEPT ![t].next = w + 1, ![t].error = error[w]]

Added(t) ==
  LET w == sum[t].next IN
    [sum EXCEPT ![t].next = w + 1, ![t].error = @ + error[w]]

\* The line printed: the sums, and SUCCESSED when there was no error.
\* `before` and `kind` are history.
VerdictOf(t, kind) ==
  [kind |-> kind, succeeded |-> sum[t].error = 0, error |-> sum[t].error,
   before |-> sum[t].before]

-----------------------------------------------------------------------------
(* counter_loop. *)

\* sleep(1) ends; the sums of the last second are forgotten.
Wake ==
  /\ At(Counter, "sleep")
  /\ sum' = [sum EXCEPT ![Counter] = [NoSum EXCEPT !.before = AllErrors]]
  /\ Goto(Counter, "sum")
  /\ UNCHANGED <<created, arrived, shared, finish, signal, ending>>

AddUp ==
  /\ At(Counter, "sum") \/ At(Counter, "total")
  /\ sum[Counter].next < NumWorkers
  /\ sum' = Added(Counter)
  /\ UNCHANGED <<pc, created, arrived, shared, finish, signal, ending>>

AllFinished_One == finish_counter >= 1
AllFinished == finish_counter = NumWorkers

\* finish_counter is read without finish_lock.  When all have finished the
\* counters are added once more, to the sums just made.
Report ==
  /\ At(Counter, "sum") /\ sum[Counter].next = NumWorkers
  /\ IF AllFinished
       THEN /\ Goto(Counter, "total")
            /\ sum' = [sum EXCEPT ![Counter].next = 0,
                                  ![Counter].before = AllErrors]
       ELSE Goto(Counter, "sleep") /\ UNCHANGED sum
  /\ UNCHANGED <<created, arrived, shared, finish, signal, ending>>

Conclude ==
  /\ At(Counter, "total") /\ sum[Counter].next = NumWorkers
  /\ verdicts' = Append(verdicts, VerdictOf(Counter, "final"))
  /\ Goto(Counter, IF sum[Counter].error = 0 THEN "good" ELSE "bad")
  /\ UNCHANGED <<created, arrived, shared, finish, signal, sum, process, status>>

\* exit(-1) after SUCCESSED, exit(0) after FAILED.
CounterExit ==
  /\ At(Counter, "good") \/ At(Counter, "bad")
  /\ Exit(IF pc[Counter] = "good" THEN 255 ELSE 0)
  /\ UNCHANGED <<pc, created, arrived, shared, finish, signal, sum, verdicts>>

CounterThread ==
  \/ Arrive(Counter) \/ Leave(Counter)
  \/ Wake \/ AddUp \/ Report \/ Conclude \/ CounterExit

-----------------------------------------------------------------------------
(* print_counter_info, on a thread that exists. *)

Alive(t) ==
  CASE t = Main -> TRUE
    [] t = Counter -> pc[t] # "none"
    [] OTHER -> pc[t] \notin {"none", "done"}

\* Before there is a generator set to look at the handler reads through NULL;
\* a little later it finds garbage for `numbers`, maybe 0.
Sigint(t) ==
  /\ Running /\ signals < MaxSignals
  /\ Alive(t) /\ handler[t] = "none"
  /\ signals' = signals + 1
  /\ CASE pc[Main] = "config" -> process' = "crashed" /\ UNCHANGED <<handler, sum>>
       [] pc[Main] = "allocated" ->
            \/ process' = "crashed" /\ UNCHANGED <<handler, sum>>
            \/ /\ handler' = [handler EXCEPT ![t] = "sum"]
               /\ sum' = [sum EXCEPT ![t] = [NoSum EXCEPT !.next = NumWorkers]]
               /\ UNCHANGED process
       [] OTHER ->
            /\ handler' = [handler EXCEPT ![t] = "sum"]
            /\ sum' = [sum EXCEPT ![t] = [NoSum EXCEPT !.before = AllErrors]]
            /\ UNCHANGED process
  /\ UNCHANGED <<pc, created, arrived, shared, finish, exit_noti_flag, status,
                 verdicts>>

InHandler(t, l) == Running /\ handler[t] = l

HandlerAddUp(t) ==
  /\ InHandler(t, "sum") /\ sum[t].next < NumWorkers
  /\ sum' = Added(t)
  /\ UNCHANGED <<pc, created, arrived, shared, finish, signal, ending>>

\* printf, then exit_noti_flag = 1, then sleep(1).
HandlerPrint(t) ==
  /\ InHandler(t, "sum") /\ sum[t].next = NumWorkers
  /\ verdicts' = Append(verdicts, VerdictOf(t, "signal"))
  /\ exit_noti_flag' = TRUE
  /\ handler' = [handler EXCEPT ![t] = "sleep"]
  /\ UNCHANGED <<pc, created, arrived, shared, finish, signals, sum, process,
                 status>>

HandlerExit(t) ==
  /\ InHandler(t, "sleep")
  /\ Exit(0)
  /\ UNCHANGED <<pc, created, arrived, shared, finish, signal, sum, verdicts>>

Handler(t) == HandlerAddUp(t) \/ HandlerPrint(t) \/ HandlerExit(t)

-----------------------------------------------------------------------------
\* Without the counter thread the workers wait at the barrier for ever.
Hung ==
  /\ pc[Main] = "sleep" /\ pc[Counter] = "none"
  /\ \A w \in Workers : pc[w] = "barrier"

Terminating == (~ Running \/ Hung) /\ UNCHANGED vars

Next ==
  \/ Allocate \/ SetNumbers \/ CreateWorker \/ CreateCounter
  \/ \E w \in Workers : Worker(w)
  \/ CounterThread
  \/ \E t \in Threads : Sigint(t) \/ Handler(t)
  \/ Terminating

\* Every thread has a cpu of its own, and the time comes to an end: a worker
\* between two batches does not start batches for ever.
Fairness ==
  /\ WF_vars(Allocate) /\ WF_vars(SetNumbers)
  /\ WF_vars(CreateWorker) /\ WF_vars(CreateCounter)
  /\ \A w \in Workers :
       /\ WF_vars(Arrive(w) \/ Leave(w) \/ pass_or_exit(w) \/ UnlockFinish(w))
       /\ WF_vars(EndBatch(w)) /\ SF_vars(LockFinish(w))
  /\ WF_vars(CounterThread)
  /\ \A t \in Threads : WF_vars(Handler(t))

Spec == Init /\ [][Next]_vars /\ Fairness

-----------------------------------------------------------------------------
(* Properties. *)

TypeOK ==
  /\ pc \in [Threads ->
       {"none", "config", "allocated", "create", "sleep", "start", "barrier",
        "test", "batch", "errors", "locked", "done", "sum", "total", "good",
        "bad"}]
  /\ created \in 0 .. NumWorkers /\ arrived \subseteq Workers \cup {Counter}
  /\ error \in [Workers -> Nat] /\ base \in [Workers -> Nat]
  /\ local \in [Workers -> 0 .. NumWorkers]
  /\ finish_lock \in Workers \cup {None} /\ finish_counter \in 0 .. NumWorkers
  /\ exit_noti_flag \in BOOLEAN /\ signals \in 0 .. MaxSignals
  /\ handler \in [Threads -> {"none", "sum", "sleep"}]
  /\ sum \in [Threads -> [next : 0 .. NumWorkers, error : Nat, before : Nat]]
  /\ process \in {"running", "exited", "crashed"} /\ status \in {0, 255}
  /\ verdicts \in Seq([kind : {"final", "signal"}, succeeded : BOOLEAN,
                       error : Nat, before : Nat])

Finished(w) == pc[w] = "done"
AllDone == \A w \in Workers : Finished(w)

\* The barrier is for num_workers + 1: no worker sends before every worker
\* and the counter thread have arrived, so the counter thread's first second
\* is the workers' first second.
NoneStartsAlone ==
  (\E w \in Workers : pc[w] \notin {"none", "start", "barrier"})
    => arrived = Workers \cup {Counter}

\* finish_counter, which the counter thread reads without the lock, never
\* misses nor anticipates a worker that has stopped.
FinishCounted ==
  finish_counter = Cardinality({w \in Workers : Finished(w)})

\* The verdict of counter_loop comes after the last packet of every worker,
\* and is SUCCESSED exactly when no worker's counter holds an error, although
\* the counters are read one by one and added to sums that were not reset.
\* What it prints lies between the true total and twice that.
FinalVerdictRight ==
  \A k \in DOMAIN verdicts :
    verdicts[k].kind = "final" =>
      /\ AllDone
      /\ verdicts[k].succeeded <=> AllErrors = 0
      /\ AllErrors <= verdicts[k].error /\ verdicts[k].error <= 2 * AllErrors

\* The verdict of the SIGINT handler, which adds up counters that move: it
\* never overlooks an error counted before it started, and never invents one.
SignalVerdictRight ==
  \A k \in DOMAIN verdicts :
    verdicts[k].kind = "signal" =>
      /\ verdicts[k].before <= verdicts[k].error
      /\ verdicts[k].error <= AllErrors

\* Once the counter thread exists the process ends, whatever the signals and
\* the order in which the workers finish.
TestEnds == pc[Counter] # "none" ~> ~ Running

\* What the scripts take an exit status for (xgbe1_loop.sh:3): 0 is a test
\* that passed.  (Violated.)
ZeroMeansSuccess == process = "exited" /\ status = 0 => AllErrors = 0

\* A worker that has passed the barrier is between two packets of a batch, and
\* no handler holds it there.
Sending(w) == pc[w] = "batch" /\ handler[w] = "none"

\* README:65: the process exits after all sending threads have stopped, so that
\* an exit finds no worker in the middle of a batch.  (Violated.)
ExitsAfterAllStopped == process = "exited" => \A w \in Workers : ~ Sending(w)
=============================================================================
