-------------------------- MODULE BoxConsoleProofs --------------------------
(***************************************************************************)
(* Proofs about the console of box_script, for every set of scripts, every *)
(* number of rounds and any number of power cuts: whose result a line      *)
(* shows, and that a failure stays in the file.                            *)
(***************************************************************************)
EXTENDS BoxConsole, FiniteSetTheorems, TLAPS

Inside == {"touch", "append", "open", "backup", "rename", "unlock"}
Sed == {"open", "backup", "rename"}

\* Some script is past the sleep that follows the first lines.
Late == \E s \in Scripts : todo[s] # First \/ pc[s] \in {"test", "ended"}

\* How many lines of its own the launcher has written.
Printed == CASE launcher = "watch" -> 2 [] launcher = "version2" -> 1 [] OTHER -> 0

\* What the scripts know of themselves: a script at work on a line has a
\* round to go, and the first lines come before all others.
ScriptInv ==
  /\ \A s \in Scripts :
       /\ todo[s] = First => times[s] = 0 /\ pc[s] \notin Sed
       /\ pc[s] \in {"off", "append", "sleep"} => todo[s] = First
       /\ todo[s] # First /\ pc[s] \notin {"test", "ended"} => times[s] < Total
  /\ Late => \A s \in Scripts : Announced(s)
  /\ file = Absent => Late

\* A console file that is there, or a copy of it.
FileInv ==
  /\ file # Absent => file.version <= Printed
  /\ \A s \in Scripts : copy[s].version <= Printed

\* Nobody writes a line for another script.
OwnInv ==
  /\ \A s \in Scripts : todo[s] \in results[s]
  /\ LinesShowOwnResults
  /\ \A s, t \in Scripts : copy[s].lines[t] \in results[t] \cup {NoLine}

\* The lines hold script s's, as it wrote it last.
HasLine(s) ==
  /\ pc[s] \notin {"off", "append"}
  /\ pc[s] \in {"wait", "touch"} => todo[s] # First
Kept(lines, s) ==
  HasLine(s) =>
    /\ lines[s] # NoLine
    /\ pc[s] \in {"unlock", "sleep", "test", "ended"} => lines[s] = todo[s]

\* As long as the scripts do not collide, one at a time is at the file, and
\* the file, or the copy that takes its place, holds all lines.
OrderInv ==
  ~ collided =>
    /\ \A s, t \in Scripts : pc[s] \in Inside /\ pc[t] \in Inside => s = t
    /\ \A s \in Scripts : pc[s] \in Inside \ {"touch"} => lock
    /\ (\A t \in Scripts : ~ At(t, "rename")) =>
         file # Absent /\ \A s \in Scripts : Kept(file.lines, s)
    /\ \A t \in Scripts : pc[t] \in {"backup", "rename"} =>
         /\ copy[t].lines[t] = todo[t]
         /\ \A s \in Scripts : Kept(copy[t].lines, s)

BoxInv == TypeOK /\ ScriptInv /\ FileInv /\ OwnInv /\ OrderInv

-----------------------------------------------------------------------------
(* Facts about lines and files. *)

LEMMA LineFacts ==
  /\ First \in Lines /\ NoLine \notin Lines /\ First.result = "none"
  /\ \A r \in {"good", "warn", "error", "miss"}, n \in 0 .. Total :
       [result |-> r, round |-> n] \in Lines \ {First}
  /\ \A l \in Lines : l.result # "none" => l # First
BY ConsoleBoundsAssumption DEF First, NoLine, Lines

LEMMA FileFacts ==
  /\ Empty \in Files /\ Absent \in Files /\ Empty # Absent
  /\ Empty.version = 0 /\ Absent.version = 3
  /\ \A s \in Scripts : Empty.lines[s] = NoLine /\ Absent.lines[s] = NoLine
BY DEF Files, Empty, Absent

LEMMA ScriptsFinite ==
  IsFiniteSet(Scripts) /\ Cardinality(Scripts) \in Nat
BY ConsoleScriptsAssumption, FS_Union, FS_CardinalityType DEF Scripts

LEMMA ReplacedFacts ==
  ASSUME TypeOK, NEW s \in Scripts
  PROVE  /\ Replaced(s) \in [Scripts -> Lines \cup {NoLine}]
         /\ \A t \in Scripts : t # s => Replaced(s)[t] = file.lines[t]
         /\ Replaced(s)[s] = IF file.lines[s] = NoLine THEN NoLine ELSE todo[s]
         /\ [file EXCEPT !.lines = Replaced(s)] \in Files
         /\ [file EXCEPT !.lines = Replaced(s)].lines = Replaced(s)
         /\ [file EXCEPT !.lines = Replaced(s)].version = file.version
<1>1. file.lines \in [Scripts -> Lines \cup {NoLine}] /\ todo[s] \in Lines
  BY DEF TypeOK, Files
<1>2. /\ Replaced(s) \in [Scripts -> Lines \cup {NoLine}]
      /\ \A t \in Scripts : t # s => Replaced(s)[t] = file.lines[t]
      /\ Replaced(s)[s] = IF file.lines[s] = NoLine THEN NoLine ELSE todo[s]
  BY <1>1 DEF Replaced
<1> HIDE DEF Replaced
<1> QED
  BY <1>2 DEF TypeOK, Files

LEMMA AppendFacts ==
  ASSUME TypeOK, NEW s \in Scripts, NEW f, f = [file EXCEPT !.lines[s] = First]
  PROVE  /\ f \in Files /\ f.version = file.version /\ f # Absent
         /\ f.lines[s] = First
         /\ \A t \in Scripts : t # s => f.lines[t] = file.lines[t]
<1>1. file \in Files
  BY DEF TypeOK
<1>2. f \in Files /\ f.version = file.version /\ f.lines[s] = First
  BY <1>1, LineFacts DEF Files
<1>3. \A t \in Scripts : t # s => f.lines[t] = file.lines[t]
  BY <1>1 DEF Files
<1>4. f # Absent
  BY <1>2, LineFacts, FileFacts
<1> QED
  BY <1>2, <1>3, <1>4

-----------------------------------------------------------------------------
(* Types. *)

\* The scripts as they are when the power comes on.
LEMMA StartFacts ==
  /\ [s \in Scripts |-> {First}] \in [Scripts -> SUBSET Lines]
  /\ [s \in Scripts |-> First] \in [Scripts -> Lines]
  /\ [s \in Scripts |-> Empty] \in [Scripts -> Files]
  /\ [s \in Scripts |-> 0] \in [Scripts -> 0 .. Total]
<1>1. {First} \in SUBSET Lines
  BY LineFacts
<1>2. 0 \in 0 .. Total
  BY ConsoleBoundsAssumption
<1> HIDE DEF Scripts, First, Empty, Lines, Files
<1> QED
  BY <1>1, <1>2, LineFacts, FileFacts

LEMMA TypeInit == Init => TypeOK
<1>1. 0 \in 0 .. Cardinality(Scripts) + 2 /\ 0 \in 0 .. MaxCuts
  BY ScriptsFinite, ConsoleBoundsAssumption
<1>2. ASSUME Init PROVE pc \in [Scripts -> {"off"}]
  BY <1>2 DEF Init
<1>3. ASSUME Init
      PROVE  /\ times \in [Scripts -> 0 .. Total] /\ todo \in [Scripts -> Lines]
             /\ results \in [Scripts -> SUBSET Lines]
             /\ file \in Files /\ copy \in [Scripts -> Files]
  BY <1>3, StartFacts, FileFacts DEF Init
<1>4. ASSUME Init
      PROVE  /\ last_line \in 0 .. Cardinality(Scripts) + 2 /\ error_count \in 0 .. 1
             /\ cuts \in 0 .. MaxCuts
  BY <1>1, <1>4 DEF Init
<1> QED
  BY <1>2, <1>3, <1>4 DEF Init, TypeOK

\* Without a console file nobody has counted a line; with one, there is at
\* most one for each script.
LEMMA CountFacts ==
  ASSUME TypeOK, FileInv, launcher = "count"
  PROVE  NumLines \in 0 .. Cardinality(Scripts)
<1>1. Shown \subseteq Scripts
  BY DEF Shown
<1>2. Cardinality(Shown) \in 0 .. Cardinality(Scripts)
  BY <1>1, ScriptsFinite, FS_Subset, FS_CardinalityType
<1>3. file # Absent => file.version = 0
  BY DEF TypeOK, Files, FileInv, Printed
<1> QED
  BY <1>2, <1>3, ScriptsFinite DEF NumLines

LEMMA TypeKeeps ==
  ASSUME TypeOK, ScriptInv, FileInv, [Next]_vars
  PROVE  TypeOK'
<1> USE LineFacts, FileFacts, ScriptsFinite, ConsoleBoundsAssumption
<1> USE DEF launch, script, console, power, At, Goto
<1>1. ASSUME NEW s \in Scripts, TestLock(s) PROVE TypeOK'
  BY <1>1 DEF TypeOK, TestLock
<1>2. ASSUME NEW s \in Scripts, Touch(s) PROVE TypeOK'
  BY <1>2 DEF TypeOK, Touch
<1>3. ASSUME NEW s \in Scripts, Unlock(s) PROVE TypeOK'
  <2>1. times' \in [Scripts -> 0 .. Total]
    BY <1>3 DEF TypeOK, Unlock, ScriptInv
  <2>2. pc' \in [Scripts -> {"off", "wait", "touch", "append", "open", "backup",
                             "rename", "unlock", "sleep", "test", "ended"}]
    BY <1>3 DEF TypeOK, Unlock
  <2>3. led' \in {"testing", "error", "none"} /\ lock' \in BOOLEAN
    BY <1>3 DEF TypeOK, Unlock, Removed
  <2> QED
    BY <1>3, <2>1, <2>2, <2>3 DEF TypeOK, Unlock
<1>4. ASSUME NEW s \in Scripts, Append(s) PROVE TypeOK'
  <2>1. file' \in Files
    BY <1>4, AppendFacts DEF Append
  <2> QED
    BY <1>4, <2>1 DEF TypeOK, Append
<1>5. ASSUME NEW s \in Scripts, SedRead(s) PROVE TypeOK'
  <2> DEFINE new == [file EXCEPT !.lines = Replaced(s)]
  <2>0. new \in Files
    BY ReplacedFacts
  <2>1. copy' = copy \/ copy' = [copy EXCEPT ![s] = new]
    BY <1>5 DEF SedRead
  <2> HIDE DEF new
  <2>2. copy' \in [Scripts -> Files]
    BY <2>0, <2>1 DEF TypeOK
  <2> QED
    BY <1>5, <2>2 DEF TypeOK, SedRead
<1>6. ASSUME NEW s \in Scripts, SedBackup(s) PROVE TypeOK'
  BY <1>6 DEF TypeOK, SedBackup
<1>7. ASSUME NEW s \in Scripts, SedRename(s) PROVE TypeOK'
  BY <1>7 DEF TypeOK, SedRename
<1>8. ASSUME NEW s \in Scripts, NEW r \in {"good", "warn", "error", "miss"},
             Result(s, r), times[s] < Total
      PROVE  todo' \in [Scripts -> Lines] /\ results' \in [Scripts -> SUBSET Lines]
  <2>1. [result |-> r, round |-> times[s] + 1] \in Lines
    BY <1>8 DEF TypeOK
  <2> QED
    BY <1>8, <2>1 DEF TypeOK, Result
<1>9. ASSUME NEW s \in Scripts, Sleep(s) PROVE TypeOK'
  <2>1. CASE s \in MemCpu /\ Total > 0 /\ Result(s, "miss")
    <3>1. times[s] = 0
      BY <1>9 DEF Sleep, ScriptInv
    <3>2. todo' \in [Scripts -> Lines] /\ results' \in [Scripts -> SUBSET Lines]
      BY <1>8, <2>1, <3>1
    <3> QED
      BY <1>9, <2>1, <3>2 DEF TypeOK, Sleep, Result
  <2>2. CASE Goto(s, "test") /\ UNCHANGED <<todo, results>>
    BY <1>9, <2>2 DEF TypeOK, Sleep
  <2> QED
    BY <1>9, <2>1, <2>2 DEF Sleep
<1>10. ASSUME NEW s \in Scripts, Test(s) PROVE TypeOK'
  <2>1. times[s] < Total
    BY <1>10 DEF Test, MoreRounds, TypeOK
  <2>2. CASE s \in Testers /\ Failed(s)
    BY <1>10, <2>1, <2>2 DEF TypeOK, Test
  <2>3. CASE ~ (s \in Testers /\ Failed(s))
    <3>1. PICK r \in {"good", "warn", "error"} : Result(s, r)
      BY <1>10, <2>3 DEF Test
    <3>2. todo' \in [Scripts -> Lines] /\ results' \in [Scripts -> SUBSET Lines]
      BY <1>8, <2>1, <3>1
    <3> QED
      BY <1>10, <2>3, <3>1, <3>2 DEF TypeOK, Test, Result
  <2> QED
    BY <2>2, <2>3
<1>11. ASSUME NEW s \in Scripts, End(s) PROVE TypeOK'
  BY <1>11 DEF TypeOK, End
<1>12. CASE Launcher
  <2>1. ASSUME NEW s \in Scripts, Launch(s) PROVE TypeOK'
    BY <2>1 DEF TypeOK, Launch
  <2>2. CASE Launched
    BY <2>2 DEF TypeOK, Launched
  <2>3. CASE CountLines
    <3>1. last_line' \in 0 .. Cardinality(Scripts) + 2
      BY <2>3, CountFacts DEF TypeOK, CountLines
    <3> QED
      BY <2>3, <3>1 DEF TypeOK, CountLines
  <2>4. CASE PrintVersion
    <3>1. file # Absent => file.version + 1 \in 0 .. 3
      BY <2>4 DEF TypeOK, Files, FileInv, Printed, PrintVersion
    <3>2. file' \in Files
      BY <2>4, <3>1 DEF TypeOK, Files, PrintVersion
    <3> QED
      BY <2>4, <3>2 DEF TypeOK, PrintVersion
  <2>5. CASE Watch
    BY <2>5 DEF TypeOK, Watch
  <2> QED
    BY <1>12, <2>1, <2>2, <2>3, <2>4, <2>5 DEF Launcher
<1>13. CASE PowerCut
  <2>1. cuts' \in 0 .. MaxCuts /\ 0 \in 0 .. Cardinality(Scripts) + 2
    BY <1>13 DEF TypeOK, PowerCut
  <2>2. pc' \in [Scripts -> {"off"}]
    BY <1>13 DEF PowerCut
  <2>3. /\ times' \in [Scripts -> 0 .. Total] /\ todo' \in [Scripts -> Lines]
        /\ results' \in [Scripts -> SUBSET Lines]
        /\ file' \in Files /\ copy' \in [Scripts -> Files]
    BY <1>13, StartFacts DEF PowerCut
  <2>4. last_line' \in 0 .. Cardinality(Scripts) + 2 /\ error_count' \in 0 .. 1
    BY <1>13, <2>1 DEF PowerCut
  <2> QED
    BY <1>13, <2>1, <2>2, <2>3, <2>4 DEF TypeOK, PowerCut
<1>14. CASE UNCHANGED vars
  BY <1>14 DEF TypeOK, vars
<1> QED
  BY <1>1, <1>2, <1>3, <1>4, <1>5, <1>6, <1>7, <1>9, <1>10, <1>11, <1>12,
     <1>13, <1>14 DEF Next, Script, Idle

-----------------------------------------------------------------------------
(* The scripts, the files and whose lines they hold. *)

LEMMA ScriptInit == Init => ScriptInv /\ FileInv /\ OwnInv /\ OrderInv
<1> USE LineFacts, FileFacts DEF Init
<1>1. Init => ScriptInv
  BY DEF ScriptInv, Late, Announced, At, Sed
<1>2. Init => FileInv
  BY DEF FileInv, Printed
<1>3. Init => OwnInv
  BY DEF OwnInv, LinesShowOwnResults
<1>4. Init => OrderInv
  BY DEF OrderInv, Kept, HasLine, Inside, At
<1> QED
  BY <1>1, <1>2, <1>3, <1>4

LEMMA ResultFacts ==
  ASSUME TypeOK, NEW s \in Scripts, NEW r \in {"good", "warn", "error", "miss"},
         Result(s, r)
  PROVE  /\ todo'[s] # First /\ todo'[s] \in results'[s]
         /\ pc' = [pc EXCEPT ![s] = "wait"]
         /\ \A t \in Scripts : t # s => todo'[t] = todo[t]
         /\ \A t \in Scripts : results[t] \subseteq results'[t]
         /\ \A t \in Scripts : t # s => results'[t] = results[t]
<1>1. todo'[s] = [result |-> r, round |-> times[s] + 1]
  BY DEF TypeOK, Result
<1> QED
  BY <1>1 DEF TypeOK, Result, First, Goto

\* A test that is made has a result and a round to go.
LEMMA TestFacts ==
  ASSUME TypeOK, NEW s \in Scripts, Test(s), ~ (s \in Testers /\ Failed(s))
  PROVE  \E r \in {"good", "warn", "error", "miss"} : Result(s, r)
BY DEF Test

LEMMA PrintFacts ==
  ASSUME TypeOK, FileInv, PrintVersion
  PROVE  file' # Absent
<1>1. CASE file = Absent
  <2>1. file' = [Empty EXCEPT !.version = 1]
    BY <1>1 DEF PrintVersion
  <2>2. file'.version = 1
    BY <2>1 DEF Empty
  <2> QED
    BY <2>2, FileFacts
<1>2. CASE file # Absent
  <2>1. file'.version = file.version + 1
    BY <1>2 DEF PrintVersion, TypeOK, Files
  <2>2. file.version \in {0, 1}
    BY <1>2 DEF PrintVersion, FileInv, Printed, TypeOK, Files
  <2> QED
    BY <2>1, <2>2, FileFacts
<1> QED
  BY <1>1, <1>2

LEMMA ScriptKeeps ==
  ASSUME TypeOK, ScriptInv, FileInv, [Next]_vars
  PROVE  ScriptInv'
<1> USE LineFacts, FileFacts
<1> USE DEF launch, script, console, power, At, Goto, ScriptInv, Late, Announced,
            Sed
<1>1. ASSUME NEW s \in Scripts, TestLock(s) PROVE ScriptInv'
  BY <1>1 DEF TypeOK, TestLock
<1>2. ASSUME NEW s \in Scripts, Touch(s) PROVE ScriptInv'
  BY <1>2 DEF TypeOK, Touch
<1>3. ASSUME NEW s \in Scripts, Unlock(s) PROVE ScriptInv'
  BY <1>3 DEF TypeOK, Unlock
<1>4. ASSUME NEW s \in Scripts, Append(s) PROVE ScriptInv'
  <2>1. file' # Absent
    BY <1>4, AppendFacts DEF Append
  <2> QED
    BY <1>4, <2>1 DEF TypeOK, Append
<1>5. ASSUME NEW s \in Scripts, SedRead(s) PROVE ScriptInv'
  BY <1>5 DEF TypeOK, SedRead
<1>6. ASSUME NEW s \in Scripts, SedBackup(s) PROVE ScriptInv'
  BY <1>6 DEF TypeOK, SedBackup
<1>7. ASSUME NEW s \in Scripts, SedRename(s) PROVE ScriptInv'
  BY <1>7 DEF TypeOK, SedRename
<1>9. ASSUME NEW s \in Scripts, Sleep(s) PROVE ScriptInv'
  <2>1. CASE s \in MemCpu /\ Total > 0 /\ Result(s, "miss")
    <3>1. times[s] < Total
      BY <1>9, <2>1 DEF Sleep
    <3> QED
      BY <1>9, <2>1, <3>1, ResultFacts DEF TypeOK, Sleep
  <2>2. CASE Goto(s, "test") /\ UNCHANGED <<todo, results>>
    BY <1>9, <2>2 DEF TypeOK, Sleep
  <2> QED
    BY <1>9, <2>1, <2>2 DEF Sleep
<1>10. ASSUME NEW s \in Scripts, Test(s) PROVE ScriptInv'
  <2>1. CASE s \in Testers /\ Failed(s)
    <3>1. todo[s] # First
      BY <2>1 DEF Failed
    <3> QED
      BY <1>10, <2>1, <3>1 DEF TypeOK, Test
  <2>2. CASE ~ (s \in Testers /\ Failed(s))
    <3>1. times[s] < Total
      BY <1>10, ConsoleBoundsAssumption DEF Test, MoreRounds, TypeOK
    <3>2. PICK r \in {"good", "warn", "error", "miss"} : Result(s, r)
      BY <1>10, <2>2, TestFacts
    <3>3. times' = times /\ file' = file
      BY <1>10, <2>2 DEF Test
    <3> QED
      BY <1>10, <3>1, <3>2, <3>3, ResultFacts DEF TypeOK, Test
  <2> QED
    BY <2>1, <2>2
<1>11. ASSUME NEW s \in Scripts, End(s) PROVE ScriptInv'
  BY <1>11 DEF TypeOK, End
<1>12. CASE Launcher
  <2>1. ASSUME NEW s \in Scripts, Launch(s) PROVE ScriptInv'
    BY <2>1 DEF TypeOK, Launch
  <2>2. CASE Launched \/ CountLines \/ Watch
    BY <2>2 DEF Launched, CountLines, Watch
  <2>3. CASE PrintVersion
    <3>1. file' # Absent
      BY <2>3, PrintFacts
    <3> QED
      BY <2>3, <3>1 DEF PrintVersion
  <2> QED
    BY <1>12, <2>1, <2>2, <2>3 DEF Launcher
<1>13. CASE PowerCut
  BY <1>13 DEF PowerCut
<1>14. CASE UNCHANGED vars
  BY <1>14 DEF vars
<1> QED
  BY <1>1, <1>2, <1>3, <1>4, <1>5, <1>6, <1>7, <1>9, <1>10, <1>11, <1>12,
     <1>13, <1>14 DEF Next, Script, Idle

LEMMA FileKeeps ==
  ASSUME TypeOK, ScriptInv, FileInv, [Next]_vars
  PROVE  FileInv'
<1> USE FileFacts
<1> USE DEF launch, script, console, power, At, Goto, FileInv
<1>1. ASSUME UNCHANGED <<launcher, file, copy>> PROVE FileInv'
  BY <1>1 DEF Printed
<1>2. ASSUME NEW s \in Scripts, Script(s) PROVE FileInv'
  <2>1. CASE TestLock(s) \/ Touch(s) \/ Unlock(s) \/ Sleep(s) \/ Test(s) \/ End(s)
    BY <1>1, <2>1 DEF TestLock, Touch, Unlock, Sleep, Test, End
  <2> SUFFICES ASSUME Append(s) \/ SedRead(s) \/ SedBackup(s) \/ SedRename(s)
               PROVE  FileInv'
    BY <1>2, <2>1 DEF Script
  <2>2. Printed' = Printed /\ Printed \in Nat
    BY DEF Printed, Append, SedRead, SedBackup, SedRename
  <2>3. CASE Append(s)
    <3>1. file'.version = file.version /\ copy' = copy
      BY <2>3, AppendFacts DEF Append
    <3>2. file # Absent
      BY <2>3, LineFacts DEF Append, ScriptInv, Announced
    <3> QED
      BY <2>2, <3>1, <3>2 DEF FileInv
  <2>4. CASE SedRead(s)
    BY <2>2, <2>4, ReplacedFacts DEF SedRead, TypeOK
  <2>5. CASE SedBackup(s)
    BY <2>2, <2>5 DEF SedBackup, TypeOK
  <2>6. CASE SedRename(s)
    BY <2>2, <2>6 DEF SedRename, TypeOK
  <2> QED
    BY <2>3, <2>4, <2>5, <2>6
<1>3. CASE Launcher
  <2>1. CASE Launched \/ CountLines \/ Watch \/ \E s \in Scripts : Launch(s)
    BY <2>1 DEF Launched, CountLines, Watch, Launch, Printed
  <2>2. CASE PrintVersion
    <3>1. Printed' = Printed + 1 /\ Printed \in Nat
      BY <2>2 DEF PrintVersion, Printed
    <3>2. file'.version = (IF file = Absent THEN 1 ELSE file.version + 1)
      BY <2>2 DEF PrintVersion, TypeOK, Files, Empty
    <3>3. \A s \in Scripts : copy[s].version \in Nat
      BY DEF TypeOK, Files
    <3>4. file.version \in Nat /\ copy' = copy
      BY <2>2 DEF TypeOK, Files, PrintVersion
    <3> QED
      BY <3>1, <3>2, <3>3, <3>4
  <2> QED
    BY <1>3, <2>1, <2>2 DEF Launcher
<1>4. CASE PowerCut
  BY <1>4 DEF PowerCut, Printed
<1> QED
  BY <1>1, <1>2, <1>3, <1>4 DEF Next, Idle, vars

\* A step that leaves the files alone and forgets no result.
LEMMA OwnSame ==
  ASSUME OwnInv, UNCHANGED <<file, copy>>,
         \A s \in Scripts : results[s] \subseteq results'[s] /\ todo'[s] \in results'[s]
  PROVE  OwnInv'
BY DEF OwnInv, LinesShowOwnResults

LEMMA OwnKeeps ==
  ASSUME TypeOK, ScriptInv, OwnInv, [Next]_vars
  PROVE  OwnInv'
<1> USE DEF launch, script, console, power
<1>1. ASSUME NEW s \in Scripts, Script(s) PROVE OwnInv'
  <2>1. CASE TestLock(s) \/ Touch(s) \/ Unlock(s) \/ End(s)
    BY <2>1, OwnSame DEF TestLock, Touch, Unlock, End, OwnInv
  <2>2. ASSUME NEW r \in {"good", "warn", "error", "miss"}, Result(s, r),
               UNCHANGED <<file, copy>>
        PROVE  OwnInv'
    BY <2>2, OwnSame, ResultFacts DEF OwnInv
  <2>3. CASE Sleep(s)
    BY <2>2, <2>3, OwnSame DEF Sleep, OwnInv
  <2>4. CASE Test(s)
    BY <2>2, <2>4, OwnSame, TestFacts DEF Test, OwnInv
  <2>5. CASE Append(s)
    <3>1. UNCHANGED <<results, todo, copy>>
      BY <2>5 DEF Append
    <3>2. file'.lines[s] = todo[s]
      BY <2>5, AppendFacts DEF Append, ScriptInv, At
    <3>3. \A t \in Scripts : t # s => file'.lines[t] = file.lines[t]
      BY <2>5, AppendFacts DEF Append
    <3> QED
      BY <3>1, <3>2, <3>3 DEF OwnInv, LinesShowOwnResults
  <2>6. CASE SedRead(s)
    <3>1. \A t \in Scripts : Replaced(s)[t] \in results[t] \cup {NoLine}
      BY ReplacedFacts DEF OwnInv, LinesShowOwnResults
    <3>2. UNCHANGED <<results, todo, file>>
      BY <2>6 DEF SedRead
    <3>3. \/ copy' = copy
          \/ copy' = [copy EXCEPT ![s] = [file EXCEPT !.lines = Replaced(s)]]
      BY <2>6 DEF SedRead
    <3>4. \A u \in Scripts : \/ copy'[u] = copy[u]
                             \/ copy'[u].lines = Replaced(s)
      BY <3>3, ReplacedFacts DEF TypeOK
    <3> QED
      BY <3>1, <3>2, <3>4 DEF OwnInv, LinesShowOwnResults
  <2>7. CASE SedBackup(s)
    BY <2>7, FileFacts DEF SedBackup, OwnInv, LinesShowOwnResults, TypeOK
  <2>8. CASE SedRename(s)
    BY <2>8, FileFacts DEF SedRename, OwnInv, LinesShowOwnResults, TypeOK
  <2> QED
    BY <1>1, <2>1, <2>3, <2>4, <2>5, <2>6, <2>7, <2>8 DEF Script
<1>2. CASE Launcher
  <2>1. CASE Launched \/ CountLines \/ Watch \/ \E s \in Scripts : Launch(s)
    BY <2>1, OwnSame DEF Launched, CountLines, Watch, Launch, OwnInv
  <2>2. CASE PrintVersion
    <3>1. file'.lines = file.lines \/ \A s \in Scripts : file'.lines[s] = NoLine
      BY <2>2 DEF PrintVersion, TypeOK, Files, Empty
    <3>2. UNCHANGED <<results, todo, copy>>
      BY <2>2 DEF PrintVersion
    <3> QED
      BY <3>1, <3>2 DEF OwnInv, LinesShowOwnResults
  <2> QED
    BY <1>2, <2>1, <2>2 DEF Launcher
<1>3. CASE PowerCut
  BY <1>3, FileFacts DEF PowerCut, OwnInv, LinesShowOwnResults
<1>4. CASE UNCHANGED vars
  BY <1>4, OwnSame DEF vars, OwnInv
<1> QED
  BY <1>1, <1>2, <1>3, <1>4 DEF Next, Idle

-----------------------------------------------------------------------------
(* One script at a time. *)

\* A step that leaves the files, and what the scripts have to write, alone,
\* and lets no script in.
LEMMA OrderSame ==
  ASSUME TypeOK, OrderInv, NEW s \in Scripts, UNCHANGED <<file, copy, collided>>,
         lock => lock',
         \A t \in Scripts : t # s => pc'[t] = pc[t] /\ todo'[t] = todo[t],
         pc'[s] \in Inside => pc[s] \in Inside /\ pc'[s] # "rename",
         pc[s] # "rename", pc'[s] # "backup",
         pc'[s] \in Inside \ {"touch"} => lock',
         Kept(file.lines, s) => Kept(file.lines, s)',
         \A t \in Scripts : t # s /\ Kept(copy[t].lines, s)
                              => Kept(copy[t].lines, s)'
  PROVE  OrderInv'
<1> SUFFICES ASSUME ~ collided' PROVE OrderInv'
  BY DEF OrderInv
<1>1. \A t, u \in Scripts : pc'[t] \in Inside /\ pc'[u] \in Inside => t = u
  BY DEF OrderInv
<1>2. \A t \in Scripts : pc'[t] \in Inside \ {"touch"} => lock'
  BY DEF OrderInv
<1>3. ASSUME NEW t \in Scripts, t # s PROVE Kept(file.lines, t) => Kept(file.lines, t)'
  BY <1>3 DEF Kept, HasLine
<1>4. ASSUME NEW t \in Scripts, NEW u \in Scripts, u # s, Kept(copy[t].lines, u)
      PROVE  Kept(copy[t].lines, u)'
  BY <1>4 DEF Kept, HasLine
<1>5. (\A t \in Scripts : pc'[t] # "rename") =>
        file' # Absent /\ \A t \in Scripts : Kept(file.lines, t)'
  BY <1>3 DEF OrderInv, At
<1>6. ASSUME NEW t \in Scripts, pc'[t] \in {"backup", "rename"}
      PROVE  copy'[t].lines[t] = todo'[t] /\ \A u \in Scripts : Kept(copy[t].lines, u)'
  <2>1. t # s /\ pc[t] \in {"backup", "rename"}
    BY <1>6 DEF Inside
  <2> QED
    BY <1>4, <2>1 DEF OrderInv
<1> QED
  BY <1>1, <1>2, <1>5, <1>6 DEF OrderInv, At

\* Who is at the file without a collision is there alone, and nobody has it.
LEMMA AloneFacts ==
  ASSUME OrderInv, ~ collided, NEW s \in Scripts, pc[s] \in Inside
  PROVE  /\ \A t \in Scripts : t # s => pc[t] \notin Inside
         /\ pc[s] # "rename" => file # Absent
         /\ pc[s] # "rename" => \A t \in Scripts : Kept(file.lines, t)
<1>1. \A t \in Scripts : t # s => pc[t] \notin Inside
  BY DEF OrderInv
<1>2. pc[s] # "rename" => \A t \in Scripts : ~ At(t, "rename")
  BY <1>1 DEF At, Inside
<1> QED
  BY <1>1, <1>2 DEF OrderInv

\* When a script alone at the file takes a step and stays alone, the lines are
\* all there.
LEMMA AloneKeeps ==
  ASSUME TypeOK, NEW s \in Scripts,
         \A t \in Scripts : t # s => pc'[t] \notin Inside,
         pc'[s] \in Inside \ {"touch"} => lock',
         pc'[s] # "rename" => file' # Absent,
         pc'[s] # "rename" => \A t \in Scripts : Kept(file.lines, t)',
         pc'[s] \in {"backup", "rename"} =>
           copy'[s].lines[s] = todo'[s]
             /\ \A t \in Scripts : Kept(copy[s].lines, t)'
  PROVE  OrderInv'
<1>1. \A t, u \in Scripts : pc'[t] \in Inside /\ pc'[u] \in Inside => t = u
  OBVIOUS
<1>2. \A t \in Scripts : pc'[t] \in Inside \ {"touch"} => lock'
  OBVIOUS
<1>3. \A t \in Scripts : pc'[t] \in {"backup", "rename"} => t = s
  BY DEF Inside
<1> QED
  BY <1>1, <1>2, <1>3 DEF OrderInv, At

LEMMA TestLockOrder ==
  ASSUME TypeOK, OrderInv, NEW s \in Scripts, TestLock(s)
  PROVE  OrderInv'
<1> SUFFICES ASSUME ~ collided' PROVE OrderInv'
  BY DEF OrderInv
<1>1. ~ collided /\ \A t \in Scripts \ {s} : pc[t] # "touch"
  BY DEF TestLock, At
<1>2. pc' = [pc EXCEPT ![s] = "touch"] /\ pc[s] = "wait"
      /\ UNCHANGED <<file, copy, todo, lock>>
  BY DEF TestLock, At, Goto, console
<1>3. \A t \in Scripts : t # s => pc[t] \notin Inside /\ pc'[t] = pc[t]
  BY <1>1, <1>2 DEF OrderInv, TestLock, Enter, TypeOK
<1>4. \A t \in Scripts : ~ At(t, "rename")
  BY <1>2, <1>3 DEF At, Inside
<1>5. file # Absent /\ \A t \in Scripts : Kept(file.lines, t)
  BY <1>1, <1>4 DEF OrderInv
<1>6. pc'[s] = "touch"
  BY <1>2 DEF TypeOK
<1>7. \A t \in Scripts : Kept(file.lines, t)'
  BY <1>2, <1>3, <1>5, <1>6 DEF Kept, HasLine
<1> QED
  BY <1>2, <1>3, <1>5, <1>6, <1>7, AloneKeeps

LEMMA UnlockOrder ==
  ASSUME TypeOK, OrderInv, NEW s \in Scripts, Unlock(s)
  PROVE  OrderInv'
<1> SUFFICES ASSUME ~ collided' PROVE OrderInv'
  BY DEF OrderInv
<1>1. ~ collided /\ pc[s] = "unlock" /\ UNCHANGED <<file, copy, todo>>
  BY DEF Unlock, At, power, console
<1>2. PICK p \in {"sleep", "test", "ended"} : pc' = [pc EXCEPT ![s] = p]
  BY DEF Unlock, Goto
<1>3. \A t \in Scripts : pc'[t] = IF t = s THEN p ELSE pc[t]
  BY <1>2 DEF TypeOK
<1>4. \A t \in Scripts : pc'[t] \notin Inside
  BY <1>1, <1>3, AloneFacts DEF Inside
<1>5. file # Absent /\ \A t \in Scripts : Kept(file.lines, t)
  BY <1>1, AloneFacts DEF Inside
<1>6. \A t \in Scripts : Kept(file.lines, t)'
  BY <1>1, <1>3, <1>5 DEF Kept, HasLine
<1>7. pc'[s] \notin Inside /\ pc'[s] \notin {"backup", "rename"}
  BY <1>4 DEF Inside
<1> QED
  BY <1>1, <1>4, <1>5, <1>6, <1>7, AloneKeeps

LEMMA AppendOrder ==
  ASSUME TypeOK, ScriptInv, OrderInv, NEW s \in Scripts, Append(s)
  PROVE  OrderInv'
<1> SUFFICES ASSUME ~ collided' PROVE OrderInv'
  BY DEF OrderInv
<1>1. ~ collided /\ pc[s] = "append" /\ UNCHANGED <<todo, lock>>
  BY DEF Append, At, power
<1>2. \A t \in Scripts : pc'[t] = IF t = s THEN "unlock" ELSE pc[t]
  BY DEF Append, Goto, TypeOK
<1>3. /\ \A t \in Scripts : t # s => pc[t] \notin Inside
      /\ \A t \in Scripts : Kept(file.lines, t)
  BY <1>1, AloneFacts DEF Inside
<1>4. /\ file' # Absent /\ file'.lines[s] = todo[s]
      /\ \A t \in Scripts : t # s => file'.lines[t] = file.lines[t]
  BY <1>1, AppendFacts DEF Append, ScriptInv
<1>5. \A t \in Scripts : Kept(file.lines, t)'
  BY <1>1, <1>2, <1>3, <1>4, LineFacts DEF Kept, HasLine, TypeOK
<1>6. lock'
  BY <1>1 DEF OrderInv, Inside
<1> QED
  BY <1>2, <1>3, <1>4, <1>5, <1>6, AloneKeeps

LEMMA SedReadOrder ==
  ASSUME TypeOK, ScriptInv, OrderInv, NEW s \in Scripts, SedRead(s)
  PROVE  OrderInv'
<1> SUFFICES ASSUME ~ collided' PROVE OrderInv'
  BY DEF OrderInv
<1>1. ~ collided /\ pc[s] = "open" /\ UNCHANGED <<todo, lock, file>>
  BY DEF SedRead, At, power
<1>2. /\ \A t \in Scripts : t # s => pc[t] \notin Inside
      /\ file # Absent /\ \A t \in Scripts : Kept(file.lines, t)
  BY <1>1, AloneFacts DEF Inside
<1>3. \A t \in Scripts : pc'[t] = IF t = s THEN "backup" ELSE pc[t]
  BY <1>2 DEF SedRead, Goto, TypeOK
<1>4. copy'[s].lines = Replaced(s)
  <2> DEFINE new == [file EXCEPT !.lines = Replaced(s)]
  <2>1. copy' = [copy EXCEPT ![s] = new]
    BY <1>2 DEF SedRead
  <2>2. new.lines = Replaced(s)
    BY ReplacedFacts
  <2> HIDE DEF new
  <2> QED
    BY <2>1, <2>2 DEF TypeOK
<1>5. HasLine(s) /\ todo[s] # First
  BY <1>1 DEF ScriptInv, HasLine, Sed
<1>11. /\ \A t \in Scripts : t # s => Replaced(s)[t] = file.lines[t]
       /\ Replaced(s)[s] = IF file.lines[s] = NoLine THEN NoLine ELSE todo[s]
  BY ReplacedFacts
<1>12. file.lines[s] # NoLine /\ todo[s] # NoLine
  BY <1>2, <1>5, LineFacts DEF Kept, TypeOK
<1>6. copy'[s].lines[s] = todo[s]
  BY <1>4, <1>11, <1>12
<1>7. \A t \in Scripts : t # s => copy'[s].lines[t] = file.lines[t]
  BY <1>4, <1>11
<1>8. \A t \in Scripts : Kept(file.lines, t)'
  BY <1>1, <1>2, <1>3 DEF Kept, HasLine
<1>9. \A t \in Scripts : Kept(copy[s].lines, t)'
  BY <1>1, <1>2, <1>3, <1>6, <1>7, <1>12 DEF Kept, HasLine
<1>10. lock'
  BY <1>1 DEF OrderInv, Inside
<1> QED
  BY <1>1, <1>2, <1>3, <1>6, <1>8, <1>9, <1>10, AloneKeeps

LEMMA SedBackupOrder ==
  ASSUME TypeOK, OrderInv, NEW s \in Scripts, SedBackup(s)
  PROVE  OrderInv'
<1> SUFFICES ASSUME ~ collided' PROVE OrderInv'
  BY DEF OrderInv
<1>1. ~ collided /\ pc[s] = "backup" /\ UNCHANGED <<todo, lock>>
  BY DEF SedBackup, At, power
<1>2. \A t \in Scripts : t # s => pc[t] \notin Inside
  BY <1>1, AloneFacts DEF Inside
<1>3. file # Absent
  BY <1>1, AloneFacts DEF Inside
<1>4. /\ \A t \in Scripts : pc'[t] = IF t = s THEN "rename" ELSE pc[t]
      /\ copy' = copy
  BY <1>3 DEF SedBackup, Goto, TypeOK
<1>5. copy[s].lines[s] = todo[s] /\ \A t \in Scripts : Kept(copy[s].lines, t)
  BY <1>1 DEF OrderInv
<1>6. \A t \in Scripts : Kept(copy[s].lines, t)'
  BY <1>1, <1>4, <1>5 DEF Kept, HasLine
<1>7. lock'
  BY <1>1 DEF OrderInv, Inside
<1> QED
  BY <1>1, <1>2, <1>4, <1>5, <1>6, <1>7, AloneKeeps

LEMMA SedRenameOrder ==
  ASSUME TypeOK, OrderInv, NEW s \in Scripts, SedRename(s)
  PROVE  OrderInv'
<1> SUFFICES ASSUME ~ collided' PROVE OrderInv'
  BY DEF OrderInv
<1>1. ~ collided /\ pc[s] = "rename" /\ UNCHANGED <<todo, lock>>
      /\ file' = copy[s]
  BY DEF SedRename, At, power
<1>2. \A t \in Scripts : t # s => pc[t] \notin Inside
  BY <1>1, AloneFacts DEF Inside
<1>3. \A t \in Scripts : pc'[t] = IF t = s THEN "unlock" ELSE pc[t]
  BY DEF SedRename, Goto, TypeOK
<1>4. copy[s].lines[s] = todo[s] /\ \A t \in Scripts : Kept(copy[s].lines, t)
  BY <1>1 DEF OrderInv
<1>5. file' # Absent
  BY <1>1, <1>4, LineFacts, FileFacts DEF TypeOK
<1>6. \A t \in Scripts : Kept(file.lines, t)'
  BY <1>1, <1>3, <1>4, LineFacts DEF Kept, HasLine, TypeOK
<1>7. lock'
  BY <1>1 DEF OrderInv, Inside
<1> QED
  BY <1>2, <1>3, <1>5, <1>6, <1>7, AloneKeeps

LEMMA PrintOrder ==
  ASSUME TypeOK, FileInv, OrderInv, PrintVersion
  PROVE  OrderInv'
<1> SUFFICES ASSUME ~ collided' PROVE OrderInv'
  BY DEF OrderInv
<1>1. ~ collided /\ UNCHANGED <<pc, todo, lock, copy>>
  BY DEF PrintVersion, power, script
<1>2. file # Absent => file'.lines = file.lines
  BY DEF PrintVersion, TypeOK, Files
<1>3. (\A t \in Scripts : ~ At(t, "rename")) =>
        \A t \in Scripts : Kept(file.lines, t)'
  BY <1>1, <1>2 DEF OrderInv, Kept, HasLine
<1>4. file' # Absent
  BY PrintFacts
<1>5. \A t, s \in Scripts : Kept(copy[t].lines, s) => Kept(copy[t].lines, s)'
  BY <1>1 DEF Kept, HasLine
<1> QED
  BY <1>1, <1>3, <1>4, <1>5 DEF OrderInv, At

LEMMA OrderKeeps ==
  ASSUME TypeOK, ScriptInv, FileInv, OrderInv, [Next]_vars
  PROVE  OrderInv'
<1> USE DEF launch, script, console, power, At, Goto
<1>1. ASSUME NEW s \in Scripts, Script(s) PROVE OrderInv'
  <2>1. CASE TestLock(s) \/ Unlock(s) \/ Append(s) \/ SedRead(s)
             \/ SedBackup(s) \/ SedRename(s)
    BY <2>1, TestLockOrder, UnlockOrder, AppendOrder, SedReadOrder,
       SedBackupOrder, SedRenameOrder
  <2>2. CASE Touch(s)
    <3>1. PICK p \in {"append", "open"} : /\ pc' = [pc EXCEPT ![s] = p]
                                          /\ todo[s] = First => p = "append"
      BY <2>2 DEF Touch
    <3>2. \A t \in Scripts : pc'[t] = IF t = s THEN p ELSE pc[t]
      BY <3>1 DEF TypeOK
    <3>4. Kept(file.lines, s) => Kept(file.lines, s)'
      BY <2>2, <3>1, <3>2 DEF Touch, Kept, HasLine
    <3>5. \A t \in Scripts : Kept(copy[t].lines, s) => Kept(copy[t].lines, s)'
      BY <2>2, <3>1, <3>2 DEF Touch, Kept, HasLine
    <3> QED
      BY <2>2, <3>2, <3>4, <3>5, OrderSame DEF Touch, Inside
  <2>3. ASSUME NEW r \in {"good", "warn", "error", "miss"}, Result(s, r),
               pc[s] \in {"sleep", "test"}, UNCHANGED <<file, copy, lock, collided>>
        PROVE  OrderInv'
    <3>1. \A t \in Scripts : pc'[t] = IF t = s THEN "wait" ELSE pc[t]
      BY <2>3, ResultFacts DEF TypeOK
    <3>2. todo'[s] # First /\ \A t \in Scripts : t # s => todo'[t] = todo[t]
      BY <2>3, ResultFacts
    <3>3. Kept(file.lines, s) => Kept(file.lines, s)'
      BY <2>3, <3>1 DEF Kept, HasLine
    <3>4. \A t \in Scripts : Kept(copy[t].lines, s) => Kept(copy[t].lines, s)'
      BY <2>3, <3>1 DEF Kept, HasLine
    <3> QED
      BY <2>3, <3>1, <3>2, <3>3, <3>4, OrderSame DEF Inside
  <2>4. ASSUME NEW p \in {"sleep", "test", "ended"}, pc[s] \in {"sleep", "test"},
               pc' = [pc EXCEPT ![s] = p],
               UNCHANGED <<file, copy, lock, collided, todo>>
        PROVE  OrderInv'
    <3>1. \A t \in Scripts : pc'[t] = IF t = s THEN p ELSE pc[t]
      BY <2>4 DEF TypeOK
    <3>3. Kept(file.lines, s) => Kept(file.lines, s)'
      BY <2>4, <3>1 DEF Kept, HasLine
    <3>4. \A t \in Scripts : Kept(copy[t].lines, s) => Kept(copy[t].lines, s)'
      BY <2>4, <3>1 DEF Kept, HasLine
    <3> QED
      BY <2>4, <3>1, <3>3, <3>4, OrderSame DEF Inside
  <2>5. CASE Sleep(s)
    BY <2>3, <2>4, <2>5 DEF Sleep
  <2>6. CASE Test(s)
    <3>1. CASE s \in Testers /\ Failed(s)
      <4>1. pc' = [pc EXCEPT ![s] = "test"]
        BY <2>6, <3>1 DEF Test, TypeOK
      <4> QED
        BY <2>4, <2>6, <3>1, <4>1 DEF Test
    <3>2. CASE ~ (s \in Testers /\ Failed(s))
      BY <2>3, <2>6, <3>2, TestFacts DEF Test
    <3> QED
      BY <3>1, <3>2
  <2>7. CASE End(s)
    BY <2>4, <2>7 DEF End
  <2> QED
    BY <1>1, <2>1, <2>2, <2>5, <2>6, <2>7 DEF Script
<1>2. CASE Launcher
  <2>1. ASSUME NEW s \in Scripts, Launch(s) PROVE OrderInv'
    <3>1. pc[s] = "off" /\ todo[s] = First
      BY <2>1 DEF Launch, ScriptInv
    <3>2. \A t \in Scripts : pc'[t] = IF t = s THEN "wait" ELSE pc[t]
      BY <2>1 DEF Launch, TypeOK
    <3>3. Kept(file.lines, s)' /\ \A t \in Scripts : Kept(copy[t].lines, s)'
      BY <2>1, <3>1, <3>2 DEF Launch, Kept, HasLine
    <3> QED
      BY <2>1, <3>1, <3>2, <3>3, OrderSame DEF Launch, Inside
  <2>2. CASE Launched \/ CountLines \/ Watch
    BY <2>2 DEF Launched, CountLines, Watch, OrderInv, Kept, HasLine
  <2>3. CASE PrintVersion
    BY <2>3, PrintOrder
  <2> QED
    BY <1>2, <2>1, <2>2, <2>3 DEF Launcher
<1>3. CASE PowerCut
  <2>1. file' = Empty /\ \A s \in Scripts : pc'[s] = "off"
    BY <1>3 DEF PowerCut
  <2> QED
    BY <2>1, FileFacts DEF OrderInv, Inside, Kept, HasLine
<1>4. CASE UNCHANGED vars
  BY <1>4 DEF vars, OrderInv, Kept, HasLine
<1> QED
  BY <1>1, <1>2, <1>3, <1>4 DEF Next, Idle

-----------------------------------------------------------------------------
(* The theorems. *)

\* The inductive invariant: types, what the scripts know of themselves, how
\* many lines the launcher has written, whose lines the files hold, and that
\* one script at a time is at the file as long as they do not collide.
THEOREM BoxInvariant == Spec => []BoxInv
<1>1. Init => BoxInv
  BY TypeInit, ScriptInit DEF BoxInv
<1>2. BoxInv /\ [Next]_vars => BoxInv'
  BY TypeKeeps, ScriptKeeps, FileKeeps, OwnKeeps, OrderKeeps DEF BoxInv
<1> QED
  BY <1>1, <1>2, PTL DEF Spec

\* Every variable keeps its type; among others the launcher never counts more
\* lines than there are scripts and lines of its own.
THEOREM BoxTypeCorrect == Spec => []TypeOK
<1>1. BoxInv => TypeOK
  BY DEF BoxInv
<1> QED
  BY <1>1, BoxInvariant, PTL

\* However the scripts collide, and wherever the power fails, a line shows a
\* result of its own script.
THEOREM OwnResultsTheorem == Spec => []LinesShowOwnResults
<1>1. BoxInv => LinesShowOwnResults
  BY DEF BoxInv, OwnInv
<1> QED
  BY <1>1, BoxInvariant, PTL

\* The line of a failed test is never undone as long as no two scripts find
\* the lock file missing at once.
THEOREM FailureShownTheorem == Spec => []FailureStaysShown
<1>1. BoxInv => FailureStaysShown
  <2> SUFFICES ASSUME BoxInv, ~ collided, NEW s \in Scripts,
                      pc[s] \in {"test", "ended"}
               PROVE  \/ file.lines[s] = todo[s]
                      \/ \E t \in Scripts : At(t, "rename")
                                            /\ copy[t].lines[s] = todo[s]
    BY DEF FailureStaysShown
  <2>1. \A lines : Kept(lines, s) => lines[s] = todo[s]
    BY DEF Kept, HasLine
  <2> QED
    BY <2>1 DEF BoxInv, OrderInv, At
<1> QED
  BY <1>1, BoxInvariant, PTL
=============================================================================
