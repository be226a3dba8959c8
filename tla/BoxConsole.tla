----------------------------- MODULE BoxConsole -----------------------------
(***************************************************************************)
(* box_script: board-test.tile starts the test scripts at once, each with  *)
(* one line of a console file; the scripts rewrite their lines with sed -i *)
(* under a lock file, and the launcher counts the lines, then looks for    *)
(* errors and switches the led.  The power may fail: the lock file is all  *)
(* that survives of a run (each run has a console file of its own).        *)
(***************************************************************************)
EXTENDS Naturals, FiniteSets

CONSTANTS
  Testers,     \* scripts that run a test Total times (usb_disk.sh and others)
  Monitors,    \* scripts that watch a program (mpipe_xgbe1.sh, mpipe_xgbe2.sh)
  MemCpu,      \* mem_cpu.sh, a monitor
  Total,       \* post_test_times of the configuration
  MaxCuts      \* bound on the power cuts

ASSUME ConsoleScriptsAssumption ==
  /\ MemCpu \subseteq Monitors /\ Testers \cap Monitors = {}
  /\ IsFiniteSet(Testers) /\ IsFiniteSet(Monitors)
ASSUME ConsoleBoundsAssumption ==
  Total \in Nat /\ MaxCuts \in Nat

Scripts == Testers \cup Monitors

VARIABLES
  launcher,   \* where board-test.tile is
  last_line,
  error_count,
  led,        \* what gpio_led shows: "testing", "error", or "none" when killed
  pc,         \* where each script is
  times,
  todo,       \* the line a script writes next, or wrote last
  lock,       \* does the lock file exist?
  file,       \* $console_save, Absent while sed -i replaces it
  copy,       \* what each script's sed has read
  cuts,
  \* History, read by the properties only:
  left,       \* was the lock file there when the power came on?
  collided,   \* since then, has a script tested for the lock file while
              \* another that had found none had not created it yet?
  results     \* the lines each script has had to write

launch  == <<launcher, last_line, error_count>>
script  == <<pc, times, todo, results>>
console == <<file, copy>>
power   == <<cuts, left, collided>>
\* (Definitions named with a suffix are mutants, as in PacketGenerator.)
vars == <<launch, led, script, lock, console, power>>

\* A line tells the result of a round; "warn" goes on and "miss" has no
\* "error" in it.
Lines == [result : {"none", "good", "warn", "error", "miss"}, round : 0 .. Total]
First  == [result |-> "none", round |-> 0]
NoLine == [result |-> "no line", round |-> 0]
Empty  == [lines |-> [s \in Scripts |-> NoLine], version |-> 0]
Absent == [lines |-> [s \in Scripts |-> NoLine], version |-> 3]

Shown == {s \in Scripts : file.lines[s] # NoLine}

Init ==
  /\ launcher = "launch" /\ last_line = 0 /\ error_count = 0 /\ led = "testing"
  /\ pc = [s \in Scripts |-> "off"] /\ times = [s \in Scripts |-> 0]
  /\ todo = [s \in Scripts |-> First] /\ results = [s \in Scripts |-> {First}]
  /\ lock = FALSE /\ file = Empty /\ copy = [s \in Scripts |-> Empty]
  /\ cuts = 0 /\ left = FALSE /\ collided = FALSE

At(s, l) == pc[s] = l
Goto(s, l) == pc' = [pc EXCEPT ![s] = l]

-----------------------------------------------------------------------------
(* The lock: `while [ -f lock ]; do sleep; done; touch lock`, `rm lock`. *)

Enter_NoWait(s) == TRUE
Enter(s) == ~ lock

TestLock(s) ==
  /\ At(s, "wait") /\ Enter(s)
  /\ Goto(s, "touch")
  /\ collided' = (collided \/ \E t \in Scripts \ {s} : At(t, "touch"))
  /\ UNCHANGED <<launch, led, times, todo, results, lock, console, cuts, left>>

Touch(s) ==
  /\ At(s, "touch")
  /\ lock' = TRUE
  /\ Goto(s, IF todo[s] = First THEN "append" ELSE "open")
  /\ UNCHANGED <<launch, led, times, todo, results, console, power>>

Removed_Not == lock
Removed == FALSE

\* mem_cpu.sh also kills the led.
Unlock(s) ==
  /\ At(s, "unlock")
  /\ lock' = Removed
  /\ CASE todo[s] = First -> Goto(s, "sleep") /\ UNCHANGED times
       [] todo[s].result = "miss" \/ (s \in Monitors /\ todo[s].result = "error")
            -> Goto(s, "ended") /\ UNCHANGED times
       [] OTHER -> Goto(s, "test") /\ times' = [times EXCEPT ![s] = @ + 1]
  /\ led' = IF s \in MemCpu /\ todo[s].result = "error" /\ led = "testing"
              THEN "none" ELSE led
  /\ UNCHANGED <<launch, todo, results, console, power>>

-----------------------------------------------------------------------------
(* Writing the line. *)

Append(s) ==
  /\ At(s, "append")
  /\ file' = [file EXCEPT !.lines[s] = First]
  /\ Goto(s, "unlock")
  /\ UNCHANGED <<launch, led, times, todo, results, lock, copy, power>>

\* sed -ie reads the file and writes another one, gives the first a new name
\* and the second the name of the first.  Without the file it fails.
Replaced_All(s) ==
  [t \in Scripts |-> IF file.lines[t] = NoLine THEN NoLine ELSE todo[s]]
Replaced(s) ==
  [file.lines EXCEPT ![s] = IF @ = NoLine THEN NoLine ELSE todo[s]]

SedRead(s) ==
  /\ At(s, "open")
  /\ IF file = Absent
       THEN Goto(s, "unlock") /\ UNCHANGED copy
       ELSE /\ copy' = [copy EXCEPT ![s] = [file EXCEPT !.lines = Replaced(s)]]
            /\ Goto(s, "backup")
  /\ UNCHANGED <<launch, led, times, todo, results, lock, file, power>>

SedBackup(s) ==
  /\ At(s, "backup")
  /\ file' = Absent
  /\ IF file = Absent
       THEN Goto(s, "unlock") /\ copy' = [copy EXCEPT ![s] = Empty]
       ELSE Goto(s, "rename") /\ UNCHANGED copy
  /\ UNCHANGED <<launch, led, times, todo, results, lock, power>>

SedRename(s) ==
  /\ At(s, "rename")
  /\ file' = copy[s]
  /\ copy' = [copy EXCEPT ![s] = Empty]
  /\ Goto(s, "unlock")
  /\ UNCHANGED <<launch, led, times, todo, results, lock, power>>

-----------------------------------------------------------------------------
(* The scripts between two lines. *)

\* sleep 20 is longer than all scripts need for their first lines.
Announced(s) == At(s, "sleep") \/ todo[s] # First \/ pc[s] \in {"test", "ended"}

Result(s, r) ==
  /\ todo' = [todo EXCEPT ![s] = [result |-> r, round |-> times[s] + 1]]
  /\ results' = [results EXCEPT ![s] = @ \cup {todo'[s]}]
  /\ Goto(s, "wait")

\* mem_cpu.sh without the second memory node ends with a line of its own.
Sleep(s) ==
  /\ At(s, "sleep") /\ \A t \in Scripts : Announced(t)
  /\ \/ Goto(s, "test") /\ UNCHANGED <<todo, results>>
     \/ s \in MemCpu /\ Total > 0 /\ Result(s, "miss")
  /\ UNCHANGED <<launch, led, times, lock, console, power>>

Failed(s) == todo[s].result = "error"

MoreRounds_Off(s) == times[s] <= Total
MoreRounds(s) == times[s] # Total

\* After a failure a tester counts its rounds without testing.
Test(s) ==
  /\ At(s, "test") /\ MoreRounds(s)
  /\ IF s \in Testers /\ Failed(s)
       THEN /\ times' = [times EXCEPT ![s] = @ + 1]
            /\ UNCHANGED <<pc, todo, results>>
       ELSE /\ \/ Result(s, "good") \/ Result(s, "error")
               \/ s \in Monitors /\ Result(s, "warn")
            /\ UNCHANGED times
  /\ UNCHANGED <<launch, led, lock, console, power>>

End(s) ==
  /\ At(s, "test") /\ ~ MoreRounds(s)
  /\ Goto(s, "ended")
  /\ UNCHANGED <<launch, led, times, todo, results, lock, console, power>>

Script(s) ==
  \/ TestLock(s) \/ Touch(s) \/ Unlock(s)
  \/ Append(s) \/ SedRead(s) \/ SedBackup(s) \/ SedRename(s)
  \/ Sleep(s) \/ Test(s) \/ End(s)

-----------------------------------------------------------------------------
(* board-test.tile. *)

Launch(s) ==
  /\ launcher = "launch" /\ At(s, "off")
  /\ Goto(s, "wait")
  /\ UNCHANGED <<launch, led, times, todo, results, lock, console, power>>

Launched ==
  /\ launcher = "launch" /\ \A s \in Scripts : ~ At(s, "off")
  /\ launcher' = "count"
  /\ UNCHANGED <<last_line, error_count, led, script, lock, console, power>>

NumLines == IF file = Absent THEN 0 ELSE Cardinality(Shown) + file.version

AllThere_Fewer == last_line' = Cardinality(Scripts) + 1
AllThere == last_line' = Cardinality(Scripts)

CountLines ==
  /\ launcher = "count"
  /\ last_line' = IF NumLines > last_line THEN NumLines ELSE last_line
  /\ launcher' = IF AllThere THEN "version" ELSE "count"
  /\ UNCHANGED <<error_count, led, script, lock, console, power>>

\* Two lines are appended without the lock, to a new file if there is none.
PrintVersion ==
  /\ launcher \in {"version", "version2"}
  /\ file' = IF file = Absent THEN [Empty EXCEPT !.version = 1]
                              ELSE [file EXCEPT !.version = @ + 1]
  /\ launcher' = IF launcher = "version" THEN "version2" ELSE "watch"
  /\ UNCHANGED <<last_line, error_count, led, script, lock, copy, power>>

\* grep error
HasError_Warnings == \E s \in Shown : file.lines[s].result = "warn"
HasError == \E s \in Shown : file.lines[s].result \in {"warn", "error"}

Watch ==
  /\ launcher = "watch" /\ HasError /\ error_count = 0
  /\ led' = "error"
  /\ error_count' = error_count + 1
  /\ UNCHANGED <<launcher, last_line, script, lock, console, power>>

Launcher == Launched \/ CountLines \/ PrintVersion \/ Watch
              \/ \E s \in Scripts : Launch(s)

-----------------------------------------------------------------------------
\* The power fails and comes back; nobody removes the lock file.
PowerCut ==
  /\ cuts < MaxCuts
  /\ cuts' = cuts + 1
  /\ left' = lock /\ collided' = FALSE
  /\ launcher' = "launch" /\ last_line' = 0 /\ error_count' = 0
  /\ led' = "testing"
  /\ pc' = [s \in Scripts |-> "off"] /\ times' = [s \in Scripts |-> 0]
  /\ todo' = [s \in Scripts |-> First]
  /\ results' = [s \in Scripts |-> {First}]
  /\ file' = Empty /\ copy' = [s \in Scripts |-> Empty]
  /\ UNCHANGED lock

\* The launcher watches for ever.
Idle == launcher \in {"count", "watch"} /\ UNCHANGED vars

Next == Launcher \/ (\E s \in Scripts : Script(s)) \/ PowerCut \/ Idle

Fairness == WF_vars(Launcher) /\ \A s \in Scripts : WF_vars(Script(s))

Spec == Init /\ [][Next]_vars /\ Fairness

-----------------------------------------------------------------------------
(* Properties. *)

Files == [lines : [Scripts -> Lines \cup {NoLine}], version : 0 .. 3]

TypeOK ==
  /\ launcher \in {"launch", "count", "version", "version2", "watch"}
  /\ last_line \in 0 .. Cardinality(Scripts) + 2 /\ error_count \in 0 .. 1
  /\ led \in {"testing", "error", "none"}
  /\ pc \in [Scripts -> {"off", "wait", "touch", "append", "open", "backup",
                         "rename", "unlock", "sleep", "test", "ended"}]
  /\ times \in [Scripts -> 0 .. Total]
  /\ todo \in [Scripts -> Lines] /\ results \in [Scripts -> SUBSET Lines]
  /\ lock \in BOOLEAN /\ file \in Files /\ copy \in [Scripts -> Files]
  /\ cuts \in 0 .. MaxCuts /\ left \in BOOLEAN /\ collided \in BOOLEAN

\* Whatever copies of the file overtake each other, a line shows a result of
\* the script it names.
LinesShowOwnResults ==
  \A s \in Scripts : file.lines[s] \in results[s] \cup {NoLine}

\* When the scripts do not collide, the line of a failed test, which is
\* written once, is never undone by another script's copy of the file: it is
\* in the file, or in the one about to take its name.
FailureStaysShown ==
  ~ collided => \A s \in Scripts :
    Failed(s) /\ pc[s] \in {"test", "ended"} =>
      \/ file.lines[s] = todo[s]
      \/ \E t \in Scripts : At(t, "rename") /\ copy[t].lines[s] = todo[s]

\* ... and the launcher finds it and switches the led.
FailureReachesLed ==
  \A s \in Scripts :
    Failed(s) /\ pc[s] \in {"test", "ended"} ~>
      led = "error" \/ collided \/ At(s, "off")

\* Unless the lock file was left over from a power cut, the launcher counts
\* all lines and gets on, collisions or not.
LauncherGetsOn == launcher = "count" /\ ~ left ~> launcher # "count"

\* And unless it was, every script gets the lock each time and ends.
ScriptsEnd ==
  \A s \in Scripts :
    ~ At(s, "off") /\ ~ left ~> pc[s] \in {"ended", "off"}

\* "Wait for the access of the log." (usb_disk.sh:35): one script at a time.
\* (Violated.)
LogExclusive ==
  \A s, t \in Scripts :
    {pc[s], pc[t]} \subseteq {"append", "open", "backup", "rename"} => s = t
=============================================================================
