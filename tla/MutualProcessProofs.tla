------------------------ MODULE MutualProcessProofs ------------------------
(***************************************************************************)
(* Proofs about the barrier and the finish counter of mpipe_mutual, for    *)
(* every number of workers, of signals and of errors.                      *)
(***************************************************************************)
EXTENDS MutualProcess, FiniteSetTheorems, WellFoundedInduction, TLAPS

\* The places of a thread in its own code.
Places ==
  {"none", "config", "allocated", "create", "sleep", "start", "barrier",
   "test", "batch", "errors", "locked", "done", "sum", "total", "good", "bad"}

\* Who has left the barrier has left it open.
BarrierInv ==
  /\ pc \in [Threads -> Places]
  /\ arrived \subseteq Workers \cup {Counter}
  /\ created \in 0 .. NumWorkers
  /\ NoneStartsAlone

\* A worker between ++finish_counter's read and its write holds the lock, and
\* has read what is still there.
FinishInv ==
  /\ pc \in [Threads -> Places]
  /\ created \in 0 .. NumWorkers
  /\ local \in [Workers -> Nat] /\ finish_counter \in Nat
  /\ \A w \in Workers :
       /\ pc[w] = "locked" <=> finish_lock = w
       /\ pc[w] = "locked" => local[w] = finish_counter
       /\ w >= created => pc[w] = "none"
  /\ FinishCounted

-----------------------------------------------------------------------------
LEMMA ThreadFacts ==
  /\ Workers \subseteq Threads /\ Counter \in Threads /\ Main \in Threads
  /\ Counter \notin Workers /\ Main \notin Workers /\ None \notin Workers
  /\ Main # Counter
BY NumWorkersAssumption DEF Workers, Threads, Counter, Main, None

LEMMA WorkersFinite ==
  IsFiniteSet(Workers) /\ Cardinality(Workers) = NumWorkers
<1>1. IsFiniteSet(0 .. NumWorkers - 1)
  BY NumWorkersAssumption, FS_Interval
<1>2. Cardinality(0 .. NumWorkers - 1) = NumWorkers
  BY NumWorkersAssumption, FS_Interval
<1> QED
  BY <1>1, <1>2 DEF Workers

\* So many threads have arrived that it must have been all of them.
LEMMA AllArrived ==
  ASSUME arrived \subseteq Workers \cup {Counter}, BarrierOpen
  PROVE  arrived = Workers \cup {Counter}
<1> DEFINE all == Workers \cup {Counter}
<1>1. IsFiniteSet(all) /\ Cardinality(all) = NumWorkers + 1
  BY WorkersFinite, ThreadFacts, FS_AddElement
<1>2. /\ IsFiniteSet(arrived) /\ Cardinality(arrived) <= Cardinality(all)
      /\ Cardinality(arrived) = Cardinality(all) => arrived = all
  BY <1>1, FS_Subset
<1>3. Cardinality(arrived) \in Nat /\ Cardinality(arrived) >= NumWorkers + 1
  BY <1>2, FS_CardinalityType DEF BarrierOpen
<1> QED
  BY <1>1, <1>2, <1>3, NumWorkersAssumption

-----------------------------------------------------------------------------
(* The start. *)

LEMMA BarrierInit == Init => BarrierInv
BY ThreadFacts, NumWorkersAssumption
   DEF Init, BarrierInv, NoneStartsAlone, Places

LEMMA BarrierNext == BarrierInv /\ [Next]_vars => BarrierInv'
<1> SUFFICES ASSUME BarrierInv, [Next]_vars PROVE BarrierInv'
  OBVIOUS
<1> USE ThreadFacts, NumWorkersAssumption
    DEF BarrierInv, Places, At, Goto, NoneStartsAlone
<1>1. CASE Allocate \/ SetNumbers
  BY <1>1 DEF Allocate, SetNumbers
<1>2. CASE CreateWorker
  BY <1>2 DEF CreateWorker, MoreWorkers, Workers
<1>3. CASE CreateCounter
  BY <1>3 DEF CreateCounter
<1>4. ASSUME NEW t \in Workers \cup {Counter}, Arrive(t) PROVE BarrierInv'
  BY <1>4 DEF Arrive
<1>5. ASSUME NEW t \in Workers \cup {Counter}, Leave(t) PROVE BarrierInv'
  <2>1. arrived = Workers \cup {Counter}
    BY <1>5, AllArrived DEF Leave
  <2> QED
    BY <1>5, <2>1 DEF Leave
<1>6. ASSUME NEW w \in Workers,
             StartBatch(w) \/ JudgeWrong(w) \/ pass_or_exit(w) \/ EndBatch(w)
               \/ LockFinish(w) \/ UnlockFinish(w)
      PROVE  BarrierInv'
  BY <1>6 DEF StartBatch, JudgeWrong, pass_or_exit, EndBatch, LockFinish,
              UnlockFinish
<1>7. CASE Wake \/ AddUp \/ Report \/ Conclude \/ CounterExit
  BY <1>7 DEF Wake, AddUp, Report, Conclude, CounterExit
<1>8. ASSUME NEW t \in Threads, Sigint(t) \/ Handler(t) PROVE BarrierInv'
  BY <1>8 DEF Sigint, Handler, HandlerAddUp, HandlerPrint, HandlerExit
<1>9. CASE Terminating \/ UNCHANGED vars
  BY <1>9 DEF Terminating, vars
<1> QED
  BY <1>1, <1>2, <1>3, <1>4, <1>5, <1>6, <1>7, <1>8, <1>9
     DEF Next, Worker, CounterThread

\* No worker sends before every worker and the counter thread have come to the
\* barrier, however many workers there are and whichever cannot be created.
THEOREM NoneStartsAloneTheorem == Spec => []NoneStartsAlone
<1>1. BarrierInv => NoneStartsAlone
  BY DEF BarrierInv
<1> QED
  BY <1>1, BarrierInit, BarrierNext, PTL DEF Spec

-----------------------------------------------------------------------------
(* The end. *)

Done == {w \in Workers : Finished(w)}

LEMMA DoneFinite == IsFiniteSet(Done)
BY WorkersFinite, FS_Subset DEF Done

LEMMA FinishInit == Init => FinishInv
<1> SUFFICES ASSUME Init PROVE FinishInv
  OBVIOUS
<1>1. Done = {}
  BY ThreadFacts DEF Init, Done, Finished
<1>2. FinishCounted
  BY <1>1, FS_EmptySet DEF Init, FinishCounted, Done
<1> QED
  BY <1>2, ThreadFacts, NumWorkersAssumption
     DEF Init, FinishInv, Places, Workers, Threads, Main, None

\* A step that neither writes nor ends a worker keeps the count.
LEMMA SameCount ==
  ASSUME FinishCounted, finish_counter' = finish_counter,
         \A w \in Workers : pc[w] = "done" <=> pc'[w] = "done"
  PROVE  FinishCounted'
<1>1. {w \in Workers : Finished(w)'} = {w \in Workers : Finished(w)}
  BY DEF Finished
<1> QED
  BY <1>1 DEF FinishCounted

LEMMA FinishNext == FinishInv /\ [Next]_vars => FinishInv'
<1> SUFFICES ASSUME FinishInv, [Next]_vars PROVE FinishInv'
  OBVIOUS
<1> USE ThreadFacts, NumWorkersAssumption DEF FinishInv, Places, At, Goto, finish
<1>1. CASE Allocate \/ SetNumbers \/ CreateCounter
  BY <1>1, SameCount DEF Allocate, SetNumbers, CreateCounter
<1>2. CASE CreateWorker
  BY <1>2, SameCount DEF CreateWorker, MoreWorkers, Workers
<1>3. ASSUME NEW t \in Workers \cup {Counter}, Arrive(t) \/ Leave(t)
      PROVE  FinishInv'
  BY <1>3, SameCount DEF Arrive, Leave
<1>4. ASSUME NEW w \in Workers,
             StartBatch(w) \/ JudgeWrong(w) \/ pass_or_exit(w) \/ EndBatch(w)
      PROVE  FinishInv'
  BY <1>4, SameCount DEF StartBatch, JudgeWrong, pass_or_exit, EndBatch
<1>5. ASSUME NEW w \in Workers, LockFinish(w) PROVE FinishInv'
  BY <1>5, SameCount DEF LockFinish, Lock
<1>6. ASSUME NEW w \in Workers, UnlockFinish(w) PROVE FinishInv'
  <2>1. /\ pc' = [pc EXCEPT ![w] = "done"] /\ finish_lock' = None
        /\ pc[w] = "locked" /\ finish_counter' = finish_counter + 1
        /\ UNCHANGED <<created, local>>
    BY <1>6 DEF UnlockFinish
  <2>2. Done' = Done \cup {w} /\ w \notin Done
    BY <2>1 DEF Done, Finished
  <2>3. Cardinality(Done') = Cardinality(Done) + 1
    BY <2>2, DoneFinite, FS_AddElement
  <2>4. FinishCounted'
    BY <2>1, <2>3 DEF FinishCounted, Done
  <2>5. \A v \in Workers : pc'[v] = "locked" <=> finish_lock' = v
    BY <2>1
  <2> QED
    BY <2>1, <2>4, <2>5
<1>7. CASE Wake \/ AddUp \/ Report \/ Conclude \/ CounterExit
  BY <1>7, SameCount DEF Wake, AddUp, Report, Conclude, CounterExit
<1>8. ASSUME NEW t \in Threads, Sigint(t) \/ Handler(t) PROVE FinishInv'
  BY <1>8, SameCount
     DEF Sigint, Handler, HandlerAddUp, HandlerPrint, HandlerExit
<1>9. CASE Terminating \/ UNCHANGED vars
  BY <1>9, SameCount DEF Terminating, vars
<1> QED
  BY <1>1, <1>2, <1>3, <1>4, <1>5, <1>6, <1>7, <1>8, <1>9
     DEF Next, Worker, CounterThread

\* finish_counter counts the workers that have finished: the lock lets no
\* increment get lost, for any number of workers and wherever signals strike.
THEOREM FinishCountedTheorem == Spec => []FinishCounted
<1>1. FinishInv => FinishCounted
  BY DEF FinishInv
<1> QED
  BY <1>1, FinishInit, FinishNext, PTL DEF Spec

-----------------------------------------------------------------------------
(* The verdict. *)

\* The counter thread goes on to its verdict only after it has seen the count
\* of all workers, and a worker that has finished never starts again.
VerdictInv ==
  /\ FinishInv
  /\ pc[Counter] \in {"total", "good", "bad"} => AllDone
  /\ status \in {0, 255} /\ (status = 255 => AllDone)

\* So many have finished that it must have been all of them.
LEMMA AllFinishedDone ==
  ASSUME FinishInv, AllFinished
  PROVE  AllDone
<1>1. Cardinality(Done) = NumWorkers
  BY DEF FinishInv, FinishCounted, AllFinished, Done
<1>2. Done \in SUBSET Workers
  BY DEF Done
<1>3. Done = Workers
  BY <1>1, <1>2, WorkersFinite, FS_Subset
<1> QED
  BY <1>3 DEF Done, AllDone

\* The counter thread is not a worker, and stays on its side of the barrier.
LEMMA VerdictNext == VerdictInv /\ [Next]_vars => VerdictInv'
<1> SUFFICES ASSUME VerdictInv, [Next]_vars PROVE VerdictInv'
  OBVIOUS
<1>0. FinishInv' /\ pc \in [Threads -> Places]
  BY FinishNext DEF VerdictInv, FinishInv
<1> USE ThreadFacts DEF VerdictInv, AllDone, Finished, At, Goto, Places
<1>1. CASE Allocate \/ SetNumbers \/ CreateCounter
  BY <1>0, <1>1 DEF Allocate, SetNumbers, CreateCounter, ending
<1>2. CASE CreateWorker
  BY <1>0, <1>2, NumWorkersAssumption DEF CreateWorker, MoreWorkers, Exit,
     Workers, Counter, FinishInv
<1>3. ASSUME NEW t \in Workers \cup {Counter}, Arrive(t) \/ Leave(t)
      PROVE  VerdictInv'
  BY <1>0, <1>3 DEF Arrive, Leave, ending
<1>4. ASSUME NEW w \in Workers,
             StartBatch(w) \/ JudgeWrong(w) \/ EndBatch(w)
               \/ LockFinish(w) \/ UnlockFinish(w)
      PROVE  VerdictInv'
  BY <1>0, <1>4 DEF StartBatch, JudgeWrong, EndBatch, LockFinish,
     UnlockFinish, ending
<1>5. ASSUME NEW w \in Workers, pass_or_exit(w)
      PROVE  VerdictInv'
  BY <1>0, <1>5 DEF pass_or_exit, Exit
<1>6. CASE Wake \/ AddUp \/ Conclude
  BY <1>0, <1>6 DEF Wake, AddUp, Conclude, ending
<1>7. CASE Report
  BY <1>0, <1>7, AllFinishedDone DEF Report, ending
<1>8. CASE CounterExit
  BY <1>0, <1>8 DEF CounterExit, Exit
<1>9. ASSUME NEW t \in Threads, Sigint(t) \/ Handler(t) PROVE VerdictInv'
  BY <1>0, <1>9 DEF Sigint, Handler, HandlerAddUp, HandlerPrint, HandlerExit,
     Exit, ending
<1>10. CASE Terminating \/ UNCHANGED vars
  BY <1>0, <1>10 DEF Terminating, vars, ending
<1> QED
  BY <1>1, <1>2, <1>3, <1>4, <1>5, <1>6, <1>7, <1>8, <1>9, <1>10
     DEF Next, Worker, CounterThread

\* The counter thread comes to its verdict, and the process to exit status 255,
\* only after every worker has stopped sending: the part of FinalVerdictRight
\* that does not depend on sums.
THEOREM VerdictAfterAllDone ==
  Spec => [](/\ pc[Counter] \in {"total", "good", "bad"} => AllDone
             /\ status = 255 => AllDone)
<1>1. Init => VerdictInv
  BY FinishInit, ThreadFacts DEF Init, VerdictInv
<1>2. VerdictInv => /\ pc[Counter] \in {"total", "good", "bad"} => AllDone
                    /\ status = 255 => AllDone
  BY DEF VerdictInv
<1> QED
  BY <1>1, <1>2, VerdictNext, PTL DEF Spec

-----------------------------------------------------------------------------
(* What the sums are.  Sums is defined by recursion over the workers; each *)
(* fact about it is proved for the least number of workers that would      *)
(* refute it.                                                              *)

LEMMA LeastNatural ==
  ASSUME NEW T \in SUBSET Nat, T # {}
  PROVE  \E x \in T : \A y \in T : x <= y
<1> DEFINE less == OpToRel(<, Nat)
<1>1. \E x \in T : \A y \in T : ~ (<<y, x>> \in less)
  <2> HIDE DEF less
  <2>1. IsWellFoundedOn(less, Nat)
    BY NatLessThanWellFounded DEF less
  <2> QED
    BY <2>1, WFMin, Zenon
<1>2. \A x, y \in Nat : <<y, x>> \in less <=> y < x
  BY DEF OpToRel
<1>3. PICK x \in T : \A y \in T : ~ (<<y, x>> \in less)
  BY <1>1
<1>4. \A y \in T : ~ (y < x)
  BY <1>2, <1>3
<1> QED
  BY <1>4

\* There is a function that adds up the first m counters as Sums does.
IsSums(f, e, m) ==
  f = [k \in 0 .. m |-> IF k = 0 THEN 0 ELSE f[k - 1] + e[k - 1]]

LEMMA SumsExist ==
  ASSUME NEW e
  PROVE  \A m \in Nat : \E f : IsSums(f, e, m)
<1> DEFINE T == {m \in Nat : ~ \E f : IsSums(f, e, m)}
<1> SUFFICES ASSUME T # {} PROVE FALSE
  OBVIOUS
<1>1. PICK m \in T : \A y \in T : m <= y
  <2> HIDE DEF T
  <2>1. T \in SUBSET Nat
    BY DEF T
  <2> QED
    BY <2>1, LeastNatural
<1>2. m \in Nat /\ ~ \E f : IsSums(f, e, m)
  OBVIOUS
<1>3. CASE m = 0
  <2>1. IsSums([k \in 0 .. 0 |-> 0], e, 0)
    BY DEF IsSums
  <2> QED
    BY <1>2, <1>3, <2>1
<1>4. CASE m # 0
  <2>1. m - 1 \in Nat /\ m - 1 \notin T
    BY <1>1, <1>2, <1>4
  <2>2. PICK f : IsSums(f, e, m - 1)
    BY <2>1
  <2> DEFINE g == [k \in 0 .. m |-> IF k = m THEN f[m - 1] + e[m - 1] ELSE f[k]]
  <2>3. \A k \in 0 .. m - 1 :
          f[k] = IF k = 0 THEN 0 ELSE f[k - 1] + e[k - 1]
    BY <2>2 DEF IsSums
  <2>4. \A k \in 0 .. m : g[k] = IF k = 0 THEN 0 ELSE g[k - 1] + e[k - 1]
    BY <1>2, <1>4, <2>3
  <2>5. IsSums(g, e, m)
    BY <2>4 DEF IsSums
  <2> QED
    BY <1>2, <2>5
<1> QED
  BY <1>3, <1>4

LEMMA SumsStep ==
  ASSUME NEW e
  PROVE  /\ Sums(e)[0] = 0
         /\ \A k \in 1 .. NumWorkers : Sums(e)[k] = Sums(e)[k - 1] + e[k - 1]
<1>1. PICK f : IsSums(f, e, NumWorkers)
  BY SumsExist, NumWorkersAssumption
<1>2. IsSums(Sums(e), e, NumWorkers)
  BY <1>1 DEF IsSums, Sums
<1> QED
  BY <1>2, NumWorkersAssumption DEF IsSums

\* Induction over the naturals up to m, for a set of them instead of a property.
LEMMA UpTo ==
  ASSUME NEW m \in Nat, NEW S, 0 \in S, \A k \in 1 .. m : k - 1 \in S => k \in S
  PROVE  0 .. m \subseteq S
<1> DEFINE T == (0 .. m) \ S
<1> SUFFICES ASSUME T # {} PROVE FALSE
  OBVIOUS
<1>1. PICK k \in T : \A y \in T : k <= y
  <2> HIDE DEF T
  <2>1. T \in SUBSET Nat
    BY DEF T
  <2> QED
    BY <2>1, LeastNatural
<1>2. k \in 1 .. m /\ k - 1 \notin T
  BY <1>1
<1> QED
  BY <1>2

LEMMA SumsNat ==
  ASSUME NEW e \in [Workers -> Nat], NEW k \in 0 .. NumWorkers
  PROVE  Sums(e)[k] \in Nat
<1> DEFINE S == {j \in Nat : Sums(e)[j] \in Nat}
<1>1. 0 \in S
  BY SumsStep
<1>2. ASSUME NEW j \in 1 .. NumWorkers, j - 1 \in S PROVE j \in S
  <2>1. e[j - 1] \in Nat
    BY NumWorkersAssumption DEF Workers
  <2> QED
    BY <1>2, <2>1, SumsStep
<1>3. 0 .. NumWorkers \subseteq S
  <2> HIDE DEF S
  <2> QED
    BY <1>1, <1>2, UpTo, NumWorkersAssumption
<1> QED
  BY <1>3

\* One more error of the worker w is one more in every sum that includes it.
LEMMA SumsOneMore ==
  ASSUME NEW e \in [Workers -> Nat], NEW w \in Workers,
         NEW k \in 0 .. NumWorkers
  PROVE  Sums([e EXCEPT ![w] = @ + 1])[k]
           = Sums(e)[k] + (IF w < k THEN 1 ELSE 0)
<1> DEFINE new == [e EXCEPT ![w] = @ + 1]
<1> DEFINE S == {j \in Nat : Sums(new)[j]
                               = Sums(e)[j] + (IF w < j THEN 1 ELSE 0)}
<1>1. /\ new \in [Workers -> Nat] /\ w \in Nat
      /\ \A v \in Workers : new[v] = e[v] + (IF v = w THEN 1 ELSE 0)
  BY DEF Workers
<1> HIDE DEF new
<1>2. 0 \in S
  BY <1>1, SumsStep
<1>3. ASSUME NEW j \in 1 .. NumWorkers, j - 1 \in S PROVE j \in S
  <2>1. j - 1 \in Workers /\ j - 1 \in 0 .. NumWorkers
    BY NumWorkersAssumption DEF Workers
  <2>2. PICK a \in Nat : a = Sums(e)[j - 1]
    BY <2>1, SumsNat
  <2>3. PICK b \in Nat : b = e[j - 1]
    BY <2>1
  <2>4. Sums(new)[j - 1] = a + (IF w < j - 1 THEN 1 ELSE 0)
    BY <1>3, <2>2
  <2>5. new[j - 1] = b + (IF j - 1 = w THEN 1 ELSE 0)
    BY <1>1, <2>1, <2>3
  <2>6. Sums(new)[j] = a + (IF w < j - 1 THEN 1 ELSE 0)
                         + (b + (IF j - 1 = w THEN 1 ELSE 0))
    BY <2>4, <2>5, SumsStep
  <2>7. Sums(e)[j] = a + b
    BY <2>2, <2>3, SumsStep
  <2>8. Sums(new)[j] = (a + b) + (IF w < j THEN 1 ELSE 0)
    BY <2>6, <1>1, <2>2, <2>3
  <2> QED
    BY <2>7, <2>8
<1>4. 0 .. NumWorkers \subseteq S
  <2> HIDE DEF S
  <2> QED
    BY <1>2, <1>3, UpTo, NumWorkersAssumption
<1> QED
  BY <1>4 DEF new

-----------------------------------------------------------------------------
(* Types. *)

Verdict == [kind : {"final", "signal"}, succeeded : BOOLEAN, error : Nat,
            before : Nat]
Sum == [next : 0 .. NumWorkers, error : Nat, before : Nat]

LEMMA AllErrorsNat ==
  ASSUME error \in [Workers -> Nat]
  PROVE  AllErrors \in Nat
BY SumsNat, NumWorkersAssumption DEF AllErrors

LEMMA VerdictType ==
  ASSUME sum \in [Threads -> Sum], NEW t \in Threads,
         NEW kind \in {"final", "signal"}, verdicts \in Seq(Verdict)
  PROVE  Append(verdicts, VerdictOf(t, kind)) \in Seq(Verdict)
<1>1. sum[t] \in Sum
  OBVIOUS
<1>2. VerdictOf(t, kind) \in Verdict
  BY <1>1 DEF VerdictOf, Verdict, Sum
<1> QED
  BY <1>2

LEMMA AddedType ==
  ASSUME sum \in [Threads -> Sum], error \in [Workers -> Nat], NEW t \in Threads,
         sum[t].next < NumWorkers
  PROVE  /\ Added(t) \in [Threads -> Sum]
         /\ sum[t].next \in Workers
         /\ Added(t)[t] = [next |-> sum[t].next + 1,
                           error |-> sum[t].error + error[sum[t].next],
                           before |-> sum[t].before]
         /\ \A s \in Threads : s # t => Added(t)[s] = sum[s]
<1> DEFINE s == sum[t]
           new == [next |-> s.next + 1, error |-> s.error + error[s.next],
                   before |-> s.before]
<1>1. s \in Sum
  OBVIOUS
<1>2. s.next \in Workers /\ s.next + 1 \in 0 .. NumWorkers
  BY <1>1, NumWorkersAssumption DEF Sum, Workers
<1>3. s.error + error[s.next] \in Nat
  BY <1>1, <1>2 DEF Sum
<1>4. new \in Sum
  BY <1>1, <1>2, <1>3 DEF Sum
<1>5. /\ Added(t) \in [Threads -> Sum] /\ Added(t)[t] = new
      /\ \A r \in Threads : r # t => Added(t)[r] = sum[r]
  BY <1>1, <1>2, <1>3 DEF Added, Sum
<1> QED
  BY <1>2, <1>5

LEMMA BeginType ==
  ASSUME error \in [Workers -> Nat]
  PROVE  /\ [NoSum EXCEPT !.before = AllErrors]
              = [next |-> 0, error |-> 0, before |-> AllErrors]
         /\ [NoSum EXCEPT !.before = AllErrors] \in Sum
         /\ [NoSum EXCEPT !.next = NumWorkers]
              = [next |-> NumWorkers, error |-> 0, before |-> 0]
         /\ [NoSum EXCEPT !.next = NumWorkers] \in Sum
<1>1. AllErrors \in Nat
  BY AllErrorsNat
<1>2. /\ 0 \in 0 .. NumWorkers /\ NumWorkers \in 0 .. NumWorkers
  BY NumWorkersAssumption
<1> QED
  BY <1>1, <1>2 DEF NoSum, Sum

\* What a step does to the variables of the sums and the verdicts.
SumsTyped ==
  /\ error \in [Workers -> Nat] /\ base \in [Workers -> Nat]
  /\ sum \in [Threads -> Sum] /\ verdicts \in Seq(Verdict)

LEMMA SumsTypedNext == SumsTyped /\ [Next]_vars => SumsTyped'
<1> SUFFICES ASSUME SumsTyped, [Next]_vars PROVE SumsTyped'
  OBVIOUS
<1> USE DEF SumsTyped
<1>1. CASE UNCHANGED <<shared, sum, verdicts>>
  BY <1>1 DEF shared
<1>2. ASSUME NEW w \in Workers, JudgeWrong(w) PROVE SumsTyped'
  BY <1>2 DEF JudgeWrong, ending
<1>3. CASE Wake
  <2>1. sum' \in [Threads -> Sum]
    BY <1>3, BeginType DEF Wake
  <2> QED
    BY <1>3, <2>1 DEF Wake, shared, ending
<1>4. ASSUME NEW t \in Threads, sum[t].next < NumWorkers, sum' = Added(t),
             UNCHANGED <<shared, ending>>
      PROVE  SumsTyped'
  BY <1>4, AddedType DEF shared, ending
<1>5. CASE Report
  <2>1. CASE UNCHANGED sum
    BY <1>5, <2>1 DEF Report, shared, ending
  <2>2. CASE sum' = [sum EXCEPT ![Counter].next = 0,
                                ![Counter].before = AllErrors]
    <3>1. AllErrors \in Nat /\ 0 \in 0 .. NumWorkers
      BY AllErrorsNat, NumWorkersAssumption
    <3>2. sum' \in [Threads -> Sum]
      BY <2>2, <3>1 DEF Sum
    <3> QED
      BY <1>5, <3>2 DEF Report, shared, ending
  <2> QED
    BY <1>5, <2>1, <2>2 DEF Report
<1>6. CASE Conclude
  BY <1>6, VerdictType, ThreadFacts DEF Conclude, shared
<1>7. ASSUME NEW t \in Threads, Sigint(t) PROVE SumsTyped'
  <2>1. sum' \in [Threads -> Sum]
    BY <1>7, BeginType DEF Sigint
  <2> QED
    BY <1>7, <2>1 DEF Sigint, shared
<1>8. ASSUME NEW t \in Threads, HandlerPrint(t) PROVE SumsTyped'
  BY <1>8, VerdictType DEF HandlerPrint, shared
<1>9. ASSUME NEW w \in Workers,
             StartBatch(w) \/ pass_or_exit(w) \/ EndBatch(w) \/ LockFinish(w)
               \/ UnlockFinish(w)
      PROVE  UNCHANGED <<shared, sum, verdicts>>
  BY <1>9 DEF StartBatch, pass_or_exit, EndBatch, LockFinish, UnlockFinish,
     ending
<1>10. ASSUME NEW t \in Threads, Arrive(t) \/ Leave(t) \/ HandlerExit(t)
       PROVE  UNCHANGED <<shared, sum, verdicts>>
  BY <1>10 DEF Arrive, Leave, HandlerExit, ending
<1>11. CASE Allocate \/ SetNumbers \/ CreateWorker \/ CreateCounter \/ CounterExit
            \/ Terminating \/ UNCHANGED vars
  <2>1. UNCHANGED <<shared, sum, verdicts>>
    BY <1>11 DEF Allocate, SetNumbers, CreateWorker, CreateCounter, CounterExit,
       Terminating, vars, ending
  <2> QED
    BY <1>1, <2>1
<1>12. CASE AddUp
  BY <1>4, <1>12, ThreadFacts DEF AddUp
<1>13. ASSUME NEW t \in Threads, HandlerAddUp(t) PROVE SumsTyped'
  BY <1>4, <1>13 DEF HandlerAddUp
<1>14. ASSUME NEW w \in Workers, Worker(w) PROVE SumsTyped'
  BY <1>1, <1>2, <1>9, <1>10, <1>14, ThreadFacts DEF Worker
<1>15. CASE CounterThread
  BY <1>1, <1>3, <1>5, <1>6, <1>10, <1>11, <1>12, <1>15, ThreadFacts
     DEF CounterThread
<1>16. ASSUME NEW t \in Threads, Handler(t) PROVE SumsTyped'
  BY <1>1, <1>8, <1>10, <1>13, <1>16 DEF Handler
<1> QED
  BY <1>7, <1>11, <1>14, <1>15, <1>16 DEF Next

\* No more workers finish than there are.
LEMMA FinishBounded ==
  ASSUME FinishInv
  PROVE  finish_counter \in 0 .. NumWorkers
<1>1. Cardinality(Done) <= Cardinality(Workers) /\ Done \subseteq Workers
  BY WorkersFinite, FS_Subset DEF Done
<1>2. finish_counter = Cardinality(Done)
  BY DEF FinishInv, FinishCounted, Done
<1> QED
  BY <1>1, <1>2, WorkersFinite, NumWorkersAssumption DEF FinishInv

\* The types that neither FinishInv nor SumsTyped states.
RestTyped ==
  /\ arrived \subseteq Workers \cup {Counter}
  /\ local \in [Workers -> 0 .. NumWorkers]
  /\ finish_lock \in Workers \cup {None}
  /\ exit_noti_flag \in BOOLEAN /\ signals \in 0 .. MaxSignals
  /\ handler \in [Threads -> {"none", "sum", "sleep"}]
  /\ process \in {"running", "exited", "crashed"} /\ status \in {0, 255}

LEMMA RestTypedNext == FinishInv /\ RestTyped /\ [Next]_vars => RestTyped'
<1> SUFFICES ASSUME FinishInv, RestTyped, [Next]_vars PROVE RestTyped'
  OBVIOUS
<1> USE DEF RestTyped
<1>1. CASE UNCHANGED <<arrived, finish, signal, process, status>>
  BY <1>1 DEF finish, signal
<1>2. CASE Allocate \/ SetNumbers \/ CreateCounter \/ Wake \/ AddUp \/ Report
           \/ Conclude \/ Terminating \/ UNCHANGED vars
  <2>1. UNCHANGED <<arrived, finish, signal, process, status>>
    BY <1>2 DEF Allocate, SetNumbers, CreateCounter, Wake, AddUp, Report,
       Conclude, Terminating, vars, ending
  <2> QED
    BY <1>1, <2>1
<1>3. CASE CreateWorker \/ CounterExit
  BY <1>3 DEF CreateWorker, CounterExit, Exit, finish, signal
<1>4. ASSUME NEW t \in Workers \cup {Counter}, Arrive(t) \/ Leave(t)
      PROVE  RestTyped'
  BY <1>4 DEF Arrive, Leave, finish, signal, ending
<1>5. ASSUME NEW w \in Workers,
             StartBatch(w) \/ JudgeWrong(w) \/ EndBatch(w) \/ pass_or_exit(w)
      PROVE  RestTyped'
  BY <1>5 DEF StartBatch, JudgeWrong, EndBatch, pass_or_exit, Exit, finish,
     signal, ending
<1>6. ASSUME NEW w \in Workers, LockFinish(w) \/ UnlockFinish(w)
      PROVE  RestTyped'
  BY <1>6, FinishBounded DEF LockFinish, UnlockFinish, signal, ending
<1>7. ASSUME NEW t \in Threads, Sigint(t) PROVE RestTyped'
  BY <1>7, ProcessBoundsAssumption DEF Sigint, finish
<1>8. ASSUME NEW t \in Threads, Handler(t) PROVE RestTyped'
  <2>1. CASE HandlerAddUp(t)
    BY <1>1, <2>1 DEF HandlerAddUp, ending
  <2>2. CASE HandlerPrint(t)
    BY <2>2 DEF HandlerPrint, finish
  <2>3. CASE HandlerExit(t)
    BY <2>3 DEF HandlerExit, Exit, finish, signal
  <2> QED
    BY <1>8, <2>1, <2>2, <2>3 DEF Handler
<1> QED
  BY <1>2, <1>3, <1>4, <1>5, <1>6, <1>7, <1>8 DEF Next, Worker, CounterThread

TypeInv == FinishInv /\ SumsTyped /\ RestTyped

LEMMA TypeInvOK == TypeInv => TypeOK
BY FinishBounded
   DEF TypeInv, TypeOK, FinishInv, SumsTyped, RestTyped, Places, Sum, Verdict

LEMMA TypeInvInit == Init => TypeInv
<1> SUFFICES ASSUME Init PROVE TypeInv
  OBVIOUS
<1>1. [w \in Workers |-> 0] \in [Workers -> 0 .. NumWorkers]
  BY NumWorkersAssumption
<1>2. NoSum \in Sum
  BY NumWorkersAssumption DEF NoSum, Sum
<1>3. SumsTyped
  <2>1. error \in [Workers -> Nat] /\ base = error /\ verdicts = <<>>
    BY ProcessGarbageAssumption DEF Init
  <2>2. sum \in [Threads -> Sum]
    BY <1>2 DEF Init
  <2> QED
    BY <2>1, <2>2 DEF SumsTyped
<1>4. RestTyped
  <2>1. handler \in [Threads -> {"none", "sum", "sleep"}]
    BY DEF Init
  <2>2. /\ arrived = {} /\ finish_lock = None /\ exit_noti_flag = FALSE
        /\ signals \in 0 .. MaxSignals /\ process = "running" /\ status = 0
        /\ local = [w \in Workers |-> 0]
    BY ProcessBoundsAssumption DEF Init
  <2> QED
    BY <1>1, <2>1, <2>2 DEF RestTyped
<1> QED
  BY <1>3, <1>4, FinishInit DEF TypeInv

LEMMA TypeInvNext == TypeInv /\ [Next]_vars => TypeInv'
BY FinishNext, SumsTypedNext, RestTypedNext DEF TypeInv

\* Every variable stays in its type: in particular no counting loop reads a
\* counter of a worker that does not exist, for any number of workers.
THEOREM TypeCorrect == Spec => []TypeOK
BY TypeInvInit, TypeInvNext, TypeInvOK, PTL DEF Spec

-----------------------------------------------------------------------------
(* The sums that the verdicts print. *)

\* s comes from adding up the counters e while workers still count: it has no
\* more than there is, and with what is not yet read no less than there was
\* when it was begun.
AddingUp(s, e) ==
  /\ s.error <= Sums(e)[s.next]
  /\ s.before + Sums(e)[s.next] <= s.error + Sums(e)[NumWorkers]

\* s comes from adding the counters e, which stand still, to such a sum.
AddingTwice(s, e) ==
  /\ Sums(e)[s.next] <= s.error
  /\ s.error <= Sums(e)[NumWorkers] + Sums(e)[s.next]

SumsInv ==
  /\ \A t \in Threads : handler[t] = "sum" => AddingUp(sum[t], error)
  /\ handler[Counter] = "none" /\ pc[Counter] = "sum"
       => AddingUp(sum[Counter], error)
  /\ handler[Counter] = "none" /\ pc[Counter] = "total"
       => AddingTwice(sum[Counter], error)
  /\ FinalVerdictRight /\ SignalVerdictRight

\* The sums that the facts below are about are natural numbers.
LEMMA SumOfNat ==
  ASSUME NEW e \in [Workers -> Nat], NEW s \in Sum
  PROVE  /\ s.next \in 0 .. NumWorkers /\ s.error \in Nat /\ s.before \in Nat
         /\ Sums(e)[s.next] \in Nat /\ Sums(e)[NumWorkers] \in Nat
BY SumsNat, NumWorkersAssumption DEF Sum

LEMMA AddingUpMore ==
  ASSUME NEW e \in [Workers -> Nat], NEW s \in Sum, NEW w \in Workers,
         AddingUp(s, e)
  PROVE  AddingUp(s, [e EXCEPT ![w] = @ + 1])
<1> DEFINE new == [e EXCEPT ![w] = @ + 1]
<1>1. /\ Sums(new)[s.next] = Sums(e)[s.next] + (IF w < s.next THEN 1 ELSE 0)
      /\ Sums(new)[NumWorkers] = Sums(e)[NumWorkers] + 1
  <2>1. s.next \in 0 .. NumWorkers /\ NumWorkers \in 0 .. NumWorkers
    BY NumWorkersAssumption DEF Sum
  <2>2. w < NumWorkers
    BY NumWorkersAssumption DEF Workers
  <2> QED
    BY <2>1, <2>2, SumsOneMore
<1> HIDE DEF new
<1>2. PICK p \in Nat, a \in Nat, r \in Nat, b \in Nat :
        /\ p = Sums(e)[s.next] /\ a = Sums(e)[NumWorkers]
        /\ r = s.error /\ b = s.before
  BY SumOfNat
<1>3. r <= p /\ b + p <= r + a
  BY <1>2 DEF AddingUp
<1>4. PICK d \in {0, 1} : Sums(new)[s.next] = p + d
  BY <1>1, <1>2
<1>5. Sums(new)[NumWorkers] = a + 1
  BY <1>1, <1>2
<1>6. r <= p + d /\ b + (p + d) <= r + (a + 1)
  BY <1>3
<1>7. AddingUp(s, new)
  BY <1>2, <1>4, <1>5, <1>6 DEF AddingUp
<1> QED
  BY <1>7 DEF new

\* The next counter is read.
LEMMA AddingNext ==
  ASSUME NEW e \in [Workers -> Nat], NEW s \in Sum, s.next < NumWorkers,
         NEW new, new = [next |-> s.next + 1, error |-> s.error + e[s.next],
                         before |-> s.before]
  PROVE  /\ AddingUp(s, e) => AddingUp(new, e)
         /\ AddingTwice(s, e) => AddingTwice(new, e)
<1>1. PICK n \in Nat, p \in Nat, a \in Nat, r \in Nat, b \in Nat :
        /\ n = s.next /\ p = Sums(e)[s.next] /\ a = Sums(e)[NumWorkers]
        /\ r = s.error /\ b = s.before
  <2>1. s.next \in Nat
    BY SumOfNat, NumWorkersAssumption
  <2> QED
    BY <2>1, SumOfNat
<1>2. PICK c \in Nat : c = e[n]
  BY <1>1, NumWorkersAssumption DEF Workers
<1>3. Sums(e)[n + 1] = p + c
  BY <1>1, <1>2, SumsStep, NumWorkersAssumption
<1>4. new.next = n + 1 /\ new.error = r + c /\ new.before = b
  BY <1>1, <1>2
<1>5. ASSUME AddingUp(s, e) PROVE AddingUp(new, e)
  <2>1. r <= p /\ b + p <= r + a
    BY <1>1, <1>5 DEF AddingUp
  <2>2. r + c <= p + c /\ b + (p + c) <= (r + c) + a
    BY <2>1
  <2> QED
    BY <1>1, <1>3, <1>4, <2>2 DEF AddingUp
<1>6. ASSUME AddingTwice(s, e) PROVE AddingTwice(new, e)
  <2>1. p <= r /\ r <= a + p
    BY <1>1, <1>6 DEF AddingTwice
  <2>2. p + c <= r + c /\ r + c <= a + (p + c)
    BY <2>1
  <2> QED
    BY <1>1, <1>3, <1>4, <2>2 DEF AddingTwice
<1> QED
  BY <1>5, <1>6

\* The first counter is still to be read, or there are none.
LEMMA AddingBegin ==
  ASSUME NEW e \in [Workers -> Nat]
  PROVE  /\ AddingUp([next |-> 0, error |-> 0, before |-> Sums(e)[NumWorkers]], e)
         /\ AddingUp([next |-> NumWorkers, error |-> 0, before |-> 0], e)
<1>1. PICK a \in Nat : a = Sums(e)[NumWorkers]
  BY SumsNat, NumWorkersAssumption
<1>2. Sums(e)[0] = 0
  BY SumsStep
<1> QED
  BY <1>1, <1>2 DEF AddingUp

\* All counters have been read.
LEMMA AddingEnd ==
  ASSUME NEW e \in [Workers -> Nat], NEW s \in Sum, s.next = NumWorkers
  PROVE  /\ AddingUp(s, e) =>
              s.before <= s.error /\ s.error <= Sums(e)[NumWorkers]
         /\ AddingTwice(s, e) =>
              /\ Sums(e)[NumWorkers] <= s.error
              /\ s.error <= 2 * Sums(e)[NumWorkers]
         /\ AddingUp(s, e) =>
              \A b : AddingTwice([next |-> 0, error |-> s.error, before |-> b], e)
<1>1. PICK a \in Nat, r \in Nat, b \in Nat :
        a = Sums(e)[NumWorkers] /\ r = s.error /\ b = s.before
  BY SumOfNat
<1>2. Sums(e)[0] = 0
  BY SumsStep
<1>3. AddingUp(s, e) => r <= a /\ b + a <= r + a
  BY <1>1 DEF AddingUp
<1>4. AddingTwice(s, e) => a <= r /\ r <= a + a
  BY <1>1 DEF AddingTwice
<1>5. AddingUp(s, e) =>
        \A c : AddingTwice([next |-> 0, error |-> s.error, before |-> c], e)
  BY <1>1, <1>2, <1>3 DEF AddingTwice
<1> QED
  BY <1>1, <1>3, <1>4, <1>5

\* A worker that has finished stays so.
LEMMA DoneStays ==
  ASSUME FinishInv, [Next]_vars, AllDone
  PROVE  AllDone' /\ \A w \in Workers : ~ JudgeWrong(w)
<1> SUFFICES ASSUME NEW w \in Workers PROVE pc'[w] = "done" /\ ~ JudgeWrong(w)
  BY DEF AllDone, Finished
<1> USE ThreadFacts, NumWorkersAssumption
    DEF FinishInv, AllDone, Finished, At, Goto, Places
<1>1. CASE Allocate \/ SetNumbers \/ CreateCounter
  BY <1>1 DEF Allocate, SetNumbers, CreateCounter, JudgeWrong
<1>2. CASE CreateWorker
  BY <1>2 DEF CreateWorker, MoreWorkers, Workers, JudgeWrong
<1>3. ASSUME NEW t \in Workers \cup {Counter}, Arrive(t) \/ Leave(t)
      PROVE  pc'[w] = "done" /\ ~ JudgeWrong(w)
  BY <1>3 DEF Arrive, Leave, JudgeWrong
<1>4. ASSUME NEW v \in Workers,
             StartBatch(v) \/ JudgeWrong(v) \/ pass_or_exit(v) \/ EndBatch(v)
               \/ LockFinish(v) \/ UnlockFinish(v)
      PROVE  FALSE
  BY <1>4 DEF StartBatch, JudgeWrong, pass_or_exit, EndBatch, LockFinish,
     UnlockFinish
<1>5. CASE Wake \/ AddUp \/ Report \/ Conclude \/ CounterExit
  BY <1>5 DEF Wake, AddUp, Report, Conclude, CounterExit, JudgeWrong
<1>6. ASSUME NEW t \in Threads, Sigint(t) \/ Handler(t)
      PROVE  pc'[w] = "done" /\ ~ JudgeWrong(w)
  BY <1>6 DEF Sigint, Handler, HandlerAddUp, HandlerPrint, HandlerExit,
     JudgeWrong
<1>7. CASE Terminating \/ UNCHANGED vars
  BY <1>7 DEF Terminating, vars, JudgeWrong
<1> QED
  BY <1>1, <1>2, <1>3, <1>4, <1>5, <1>6, <1>7 DEF Next, Worker, CounterThread

\* A step that counts no error and prints nothing keeps the verdicts right.
LEMMA VerdictsKept ==
  ASSUME FinalVerdictRight, SignalVerdictRight, UNCHANGED <<verdicts, error>>,
         AllDone => AllDone'
  PROVE  FinalVerdictRight' /\ SignalVerdictRight'
<1>1. AllErrors' = AllErrors
  BY DEF AllErrors
<1> QED
  BY <1>1 DEF FinalVerdictRight, SignalVerdictRight

\* So it does keep the sums, if no other thread begins to add up.
LEMMA SumsKept ==
  ASSUME SumsInv, UNCHANGED <<verdicts, error>>, AllDone => AllDone',
         \A t \in Threads :
           handler'[t] = "sum" => handler[t] = "sum" /\ sum'[t] = sum[t],
         handler'[Counter] = "none" /\ pc'[Counter] \in {"sum", "total"} =>
           /\ handler[Counter] = "none" /\ pc[Counter] = pc'[Counter]
           /\ sum'[Counter] = sum[Counter]
  PROVE  SumsInv'
<1>1. FinalVerdictRight' /\ SignalVerdictRight'
  BY VerdictsKept DEF SumsInv
<1>2. \A t \in Threads : handler'[t] = "sum" => AddingUp(sum'[t], error')
  BY DEF SumsInv
<1>3. /\ handler'[Counter] = "none" /\ pc'[Counter] = "sum"
           => AddingUp(sum'[Counter], error')
      /\ handler'[Counter] = "none" /\ pc'[Counter] = "total"
           => AddingTwice(sum'[Counter], error')
  BY DEF SumsInv
<1> QED
  BY <1>1, <1>2, <1>3 DEF SumsInv

\* A line is printed after those that were right.
LEMMA VerdictAppended ==
  ASSUME SumsTyped, FinalVerdictRight, SignalVerdictRight, error' = error,
         AllDone => AllDone',
         NEW t \in Threads, NEW kind \in {"final", "signal"},
         verdicts' = Append(verdicts, VerdictOf(t, kind)),
         kind = "final" => /\ AllDone /\ AllErrors <= sum[t].error
                           /\ sum[t].error <= 2 * AllErrors,
         kind = "signal" => /\ sum[t].before <= sum[t].error
                            /\ sum[t].error <= AllErrors
  PROVE  FinalVerdictRight' /\ SignalVerdictRight'
<1> DEFINE v == VerdictOf(t, kind)
<1>1. AllErrors' = AllErrors /\ AllErrors \in Nat /\ sum[t] \in Sum
  BY AllErrorsNat DEF AllErrors, SumsTyped
<1>2. /\ v.kind = kind /\ v.error = sum[t].error /\ v.before = sum[t].before
      /\ v.succeeded <=> sum[t].error = 0
  BY DEF VerdictOf
<1>3. sum[t].error \in Nat
  BY <1>1 DEF Sum
<1> HIDE DEF v
<1>4. verdicts \in Seq(Verdict) /\ verdicts' = Append(verdicts, v)
  BY DEF SumsTyped, v
<1>5. \A k \in DOMAIN verdicts' :
        \/ k \in DOMAIN verdicts /\ verdicts'[k] = verdicts[k]
        \/ verdicts'[k] = v
  BY <1>4
<1>6. v.kind = "final" =>
        /\ AllDone' /\ (v.succeeded <=> AllErrors' = 0)
        /\ AllErrors' <= v.error /\ v.error <= 2 * AllErrors'
  BY <1>1, <1>2, <1>3
<1>7. v.kind = "signal" => v.before <= v.error /\ v.error <= AllErrors'
  BY <1>1, <1>2
<1>8. FinalVerdictRight'
  BY <1>1, <1>5, <1>6 DEF FinalVerdictRight
<1>9. SignalVerdictRight'
  BY <1>1, <1>5, <1>7 DEF SignalVerdictRight
<1> QED
  BY <1>8, <1>9

VerdictsInv == TypeInv /\ VerdictInv /\ SumsInv

LEMMA SumsNext == VerdictsInv /\ [Next]_vars => SumsInv'
<1> SUFFICES ASSUME VerdictsInv, [Next]_vars PROVE SumsInv'
  OBVIOUS
<1>0. /\ SumsTyped /\ SumsTyped' /\ VerdictInv /\ SumsInv /\ FinishInv
      /\ AllDone => AllDone' /\ \A w \in Workers : ~ JudgeWrong(w)
      /\ pc \in [Threads -> Places]
      /\ error \in [Workers -> Nat] /\ sum \in [Threads -> Sum]
      /\ handler \in [Threads -> {"none", "sum", "sleep"}]
  BY SumsTypedNext, DoneStays DEF VerdictsInv, TypeInv, VerdictInv, FinishInv,
     SumsTyped, RestTyped
<1>1. ASSUME NEW w \in Workers, JudgeWrong(w) PROVE SumsInv'
  <2>1. /\ error' = [error EXCEPT ![w] = @ + 1]
        /\ UNCHANGED <<handler, sum, verdicts>> /\ pc'[Counter] = pc[Counter]
    BY <1>0, <1>1, ThreadFacts DEF JudgeWrong, Goto, signal, ending
  <2>2. ~ AllDone
    BY <1>0, <1>1
  <2>3. FinalVerdictRight'
    BY <1>0, <2>1, <2>2 DEF SumsInv, FinalVerdictRight
  <2>4. SignalVerdictRight'
    <3>1. AllErrors \in Nat /\ AllErrors' = AllErrors + 1
      <4>1. NumWorkers \in 0 .. NumWorkers /\ w < NumWorkers
        BY NumWorkersAssumption DEF Workers
      <4> QED
        BY <1>0, <2>1, <4>1, AllErrorsNat, SumsOneMore DEF AllErrors
    <3>2. \A k \in DOMAIN verdicts : verdicts[k].error \in Nat
      <4>1. verdicts \in Seq(Verdict)
        BY <1>0 DEF SumsTyped
      <4>2. \A k \in DOMAIN verdicts : verdicts[k] \in Verdict
        BY <4>1
      <4> QED
        BY <4>2 DEF Verdict
    <3>3. \A k \in DOMAIN verdicts :
            verdicts[k].error <= AllErrors => verdicts[k].error <= AllErrors'
      BY <3>1, <3>2
    <3> QED
      BY <1>0, <2>1, <3>3 DEF SumsInv, SignalVerdictRight
  <2>5. pc[Counter] # "total"
    BY <1>0, <2>2 DEF VerdictInv
  <2>6. \A t \in Threads : AddingUp(sum[t], error) => AddingUp(sum[t], error')
    BY <1>0, <2>1, AddingUpMore
  <2> QED
    BY <1>0, <2>1, <2>3, <2>4, <2>5, <2>6, ThreadFacts DEF SumsInv
<1>2. CASE Wake
  <2>1. /\ UNCHANGED <<error, handler, verdicts>> /\ pc'[Counter] = "sum"
        /\ sum' = [sum EXCEPT ![Counter] = [NoSum EXCEPT !.before = AllErrors]]
        /\ handler[Counter] = "none"
    BY <1>0, <1>2, ThreadFacts DEF Wake, At, Goto, shared, signal, ending
  <2>2. AddingUp(sum'[Counter], error)
    <3>1. sum'[Counter] = [next |-> 0, error |-> 0, before |-> AllErrors]
      BY <1>0, <2>1, ThreadFacts, BeginType
    <3> QED
      BY <1>0, <3>1, AddingBegin DEF AllErrors
  <2>3. FinalVerdictRight' /\ SignalVerdictRight'
    BY <1>0, <2>1, VerdictsKept DEF SumsInv
  <2> QED
    BY <1>0, <2>1, <2>2, <2>3 DEF SumsInv
<1>3. ASSUME NEW t \in Threads, (AddUp /\ t = Counter) \/ HandlerAddUp(t)
      PROVE  SumsInv'
  <2>1. /\ UNCHANGED <<pc, error, handler, verdicts>>
        /\ sum[t].next < NumWorkers /\ sum' = Added(t)
    BY <1>3 DEF AddUp, HandlerAddUp, shared, signal, ending
  <2>2. /\ AddingUp(sum[t], error) => AddingUp(sum'[t], error)
        /\ AddingTwice(sum[t], error) => AddingTwice(sum'[t], error)
    BY <1>0, <2>1, AddedType, AddingNext
  <2>3. \A s \in Threads : s # t => sum'[s] = sum[s]
    BY <1>0, <2>1, AddedType
  <2>4. FinalVerdictRight' /\ SignalVerdictRight'
    BY <1>0, <2>1, VerdictsKept DEF SumsInv
  <2> QED
    BY <1>0, <2>1, <2>2, <2>3, <2>4, ThreadFacts DEF SumsInv
<1>4. CASE Report
  <2>1. /\ UNCHANGED <<error, handler, verdicts>> /\ handler[Counter] = "none"
        /\ sum[Counter].next = NumWorkers /\ sum[Counter] \in Sum
        /\ AddingUp(sum[Counter], error)
        /\ AllFinished => /\ pc'[Counter] = "total"
                          /\ sum' = [sum EXCEPT ![Counter].next = 0,
                                                ![Counter].before = AllErrors]
        /\ ~ AllFinished => pc'[Counter] = "sleep" /\ UNCHANGED sum
    BY <1>0, <1>4, ThreadFacts
       DEF Report, At, Goto, shared, signal, ending, SumsInv
  <2>2. CASE AllFinished
    <3>1. sum'[Counter] = [next |-> 0, error |-> sum[Counter].error,
                           before |-> AllErrors]
      BY <1>0, <2>1, <2>2, ThreadFacts DEF Sum
    <3>2. AddingTwice(sum'[Counter], error)
      BY <1>0, <2>1, <3>1, AddingEnd
    <3>3. \A s \in Threads : s # Counter => sum'[s] = sum[s]
      BY <1>0, <2>1, <2>2
    <3>4. FinalVerdictRight' /\ SignalVerdictRight'
      BY <1>0, <2>1, VerdictsKept DEF SumsInv
    <3> QED
      BY <1>0, <2>1, <2>2, <3>2, <3>3, <3>4 DEF SumsInv
  <2>3. CASE ~ AllFinished
    BY <1>0, <2>1, <2>3, SumsKept
  <2> QED
    BY <2>2, <2>3
<1>5. CASE Conclude
  <2>1. /\ UNCHANGED <<error, handler, sum>> /\ pc'[Counter] \in {"good", "bad"}
        /\ sum[Counter].next = NumWorkers /\ sum[Counter] \in Sum /\ AllDone
        /\ AddingTwice(sum[Counter], error)
        /\ verdicts' = Append(verdicts, VerdictOf(Counter, "final"))
    BY <1>0, <1>5, ThreadFacts
       DEF Conclude, At, Goto, shared, signal, SumsInv, VerdictInv
  <2>2. AllErrors <= sum[Counter].error /\ sum[Counter].error <= 2 * AllErrors
    BY <1>0, <2>1, AddingEnd DEF AllErrors
  <2>3. FinalVerdictRight' /\ SignalVerdictRight'
    <3>1. FinalVerdictRight /\ SignalVerdictRight
      BY <1>0 DEF SumsInv
    <3> QED
      BY <1>0, <2>1, <2>2, <3>1, VerdictAppended, ThreadFacts
  <2> QED
    BY <1>0, <2>1, <2>3 DEF SumsInv
<1>6. ASSUME NEW t \in Threads, Sigint(t) PROVE SumsInv'
  <2>1. /\ UNCHANGED <<pc, error, verdicts>> /\ handler[t] = "none"
        /\ \/ UNCHANGED <<handler, sum>>
           \/ /\ handler' = [handler EXCEPT ![t] = "sum"]
              /\ \/ sum' = [sum EXCEPT ![t] = [NoSum EXCEPT !.before = AllErrors]]
                 \/ sum' = [sum EXCEPT ![t] = [NoSum EXCEPT !.next = NumWorkers]]
    BY <1>6 DEF Sigint, shared
  <2>2. CASE UNCHANGED <<handler, sum>>
    BY <1>0, <2>1, <2>2, SumsKept
  <2>3. CASE ~ UNCHANGED <<handler, sum>>
    <3>1. handler' = [handler EXCEPT ![t] = "sum"]
      BY <2>1, <2>3
    <3>2. AddingUp(sum'[t], error) /\ \A s \in Threads : s # t => sum'[s] = sum[s]
      <4>1. \/ sum'[t] = [next |-> 0, error |-> 0, before |-> AllErrors]
            \/ sum'[t] = [next |-> NumWorkers, error |-> 0, before |-> 0]
        BY <1>0, <2>1, <2>3, BeginType
      <4> QED
        BY <1>0, <2>1, <2>3, <4>1, AddingBegin DEF AllErrors
    <3>3. FinalVerdictRight' /\ SignalVerdictRight'
      BY <1>0, <2>1, VerdictsKept DEF SumsInv
    <3>4. handler'[t] = "sum" /\ \A s \in Threads : s # t => handler'[s] = handler[s]
      BY <1>0, <3>1
    <3> QED
      BY <1>0, <2>1, <3>1, <3>2, <3>3, <3>4, ThreadFacts DEF SumsInv
  <2> QED
    BY <2>2, <2>3
<1>7. ASSUME NEW t \in Threads, HandlerPrint(t) PROVE SumsInv'
  <2>1. /\ UNCHANGED <<pc, error, sum>> /\ handler[t] = "sum"
        /\ sum[t].next = NumWorkers /\ sum[t] \in Sum
        /\ AddingUp(sum[t], error)
        /\ verdicts' = Append(verdicts, VerdictOf(t, "signal"))
        /\ handler' = [handler EXCEPT ![t] = "sleep"]
    BY <1>0, <1>7 DEF HandlerPrint, InHandler, shared, SumsInv
  <2>2. sum[t].before <= sum[t].error /\ sum[t].error <= AllErrors
    BY <1>0, <2>1, AddingEnd DEF AllErrors
  <2>3. FinalVerdictRight' /\ SignalVerdictRight'
    <3>1. FinalVerdictRight /\ SignalVerdictRight
      BY <1>0 DEF SumsInv
    <3> QED
      BY <1>0, <2>1, <2>2, <3>1, VerdictAppended
  <2> QED
    BY <1>0, <2>1, <2>3 DEF SumsInv
<1>8. ASSUME UNCHANGED <<error, handler, sum, verdicts>>,
             pc'[Counter] \in {"sum", "total"} => pc'[Counter] = pc[Counter]
      PROVE  SumsInv'
  BY <1>0, <1>8, SumsKept
<1>9. ASSUME NEW w \in Workers,
             StartBatch(w) \/ pass_or_exit(w) \/ EndBatch(w) \/ LockFinish(w)
               \/ UnlockFinish(w)
      PROVE  SumsInv'
  BY <1>0, <1>8, <1>9, ThreadFacts DEF StartBatch, pass_or_exit, EndBatch,
     LockFinish, UnlockFinish, Goto, shared, signal, ending
<1>10. ASSUME NEW t \in Workers \cup {Counter}, Arrive(t) \/ Leave(t)
       PROVE  SumsInv'
  BY <1>0, <1>8, <1>10, ThreadFacts DEF Arrive, Leave, Goto, shared, signal,
     ending
<1>11. CASE Allocate \/ SetNumbers \/ CreateCounter \/ CounterExit
            \/ Terminating \/ UNCHANGED vars
  BY <1>0, <1>8, <1>11, ThreadFacts DEF Allocate, SetNumbers, CreateCounter,
     CounterExit, Terminating, vars, Goto, shared, signal, ending
<1>12. CASE CreateWorker
  <2>1. pc'[Counter] = pc[Counter]
    BY <1>0, <1>12, NumWorkersAssumption
       DEF CreateWorker, MoreWorkers, Goto, Counter, Threads, Main, FinishInv
  <2> QED
    BY <1>8, <1>12, <2>1 DEF CreateWorker, shared, signal
<1>13. ASSUME NEW t \in Threads, HandlerExit(t) PROVE SumsInv'
  BY <1>8, <1>13 DEF HandlerExit, shared, signal
<1>14. ASSUME NEW t \in Threads, Handler(t) PROVE SumsInv'
  BY <1>3, <1>7, <1>13, <1>14 DEF Handler
<1>15. CASE CounterThread
  BY <1>2, <1>3, <1>4, <1>5, <1>10, <1>11, <1>15, ThreadFacts DEF CounterThread
<1>16. ASSUME NEW w \in Workers, Worker(w) PROVE SumsInv'
  BY <1>1, <1>9, <1>10, <1>16 DEF Worker
<1> QED
  BY <1>6, <1>11, <1>12, <1>14, <1>15, <1>16 DEF Next

LEMMA VerdictsInit == Init => VerdictsInv
<1> SUFFICES ASSUME Init PROVE VerdictsInv
  OBVIOUS
<1>1. VerdictInv
  BY FinishInit, ThreadFacts DEF Init, VerdictInv
<1>2. /\ \A t \in Threads : handler[t] = "none"
      /\ pc[Counter] = "none" /\ verdicts = <<>>
  BY ThreadFacts DEF Init
<1>3. SumsInv
  BY <1>2, ThreadFacts DEF SumsInv, FinalVerdictRight, SignalVerdictRight
<1> QED
  BY <1>1, <1>3, TypeInvInit DEF VerdictsInv

LEMMA VerdictsNext == VerdictsInv /\ [Next]_vars => VerdictsInv'
BY SumsNext, TypeInvNext, VerdictNext DEF VerdictsInv

\* The verdict of the counter thread is printed when every worker has stopped,
\* and tells success exactly when no counter holds an error; however many
\* workers there are, whatever malloc left in the counters, and wherever a
\* signal strikes.
THEOREM FinalVerdictTheorem == Spec => []FinalVerdictRight
<1>1. VerdictsInv => FinalVerdictRight
  BY DEF VerdictsInv, SumsInv
<1> QED
  BY <1>1, VerdictsInit, VerdictsNext, PTL DEF Spec

\* The verdict of the SIGINT handler overlooks no error counted before the
\* handler began and invents none, although the workers it counts go on.
THEOREM SignalVerdictTheorem == Spec => []SignalVerdictRight
<1>1. VerdictsInv => SignalVerdictRight
  BY DEF VerdictsInv, SumsInv
<1> QED
  BY <1>1, VerdictsInit, VerdictsNext, PTL DEF Spec
=============================================================================
