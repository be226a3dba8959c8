--------------------------- MODULE PostTestProofs ---------------------------
(***************************************************************************)
(* Proofs about the launcher of the basic tests and the three programs it  *)
(* runs, for every list of tests, every number of rounds, passes and       *)
(* bytes, every set of faults and every content of malloc's memory.        *)
(***************************************************************************)
EXTENDS PostTest, Integers, FiniteSetTheorems, TLAPS

-----------------------------------------------------------------------------
(* The inductive invariant. *)

\* The lines of the configuration before line x that call for t.
Before(x, t) == {k \in 1 .. x - 1 : k \in Lines(t)}

\* Every run has been counted once; errors are the failures.
CountInv ==
  /\ \A t \in Names :
       succ[t] + fail[t]
         = (run_time - 1) * Cardinality(Lines(t)) + Cardinality(Before(next, t))
  /\ errors = 0 <=> \A t \in Names : fail[t] = 0

\* Where the launcher is, while which program runs.
ShellInv ==
  /\ shell = "loop" => pc = "none" /\ (run_time <= TotalTimes \/ next = 1)
  /\ shell = "wait" => pc # "none" /\ run_time <= TotalTimes /\ More
  /\ shell = "done" => /\ pc = "none" /\ next = 1 /\ run_time = TotalTimes + 1
                       /\ led = IF errors # 0 THEN "error" ELSE "passed"
  /\ pc \in {"uart_init", "uart_send", "uart_recv", "uart_check"}
       => Current = "uart_tile"
  /\ pc \in {"rom_init", "rom_write", "rom_read", "rom_check"}
       => Current = "i2c"
  /\ pc \in {"gpio_init", "gpio_up", "gpio_down", "gpio_check"}
       => Current = "gpio_loop"

\* A count of 64 stands only after a complete receive, or malloc left it; blocks
\* and receives are no more than passes.
UartInv ==
  /\ pc = "uart_init" => pass = 0
  /\ pc \in {"uart_send", "uart_recv", "uart_check"} =>
       /\ recv_count = 64 => received > 0 \/ uart_found = 64
       /\ pass > 0 => received > 0 \/ uart_found = 64
  /\ pc = "uart_send" => line <= pass /\ received <= pass
  /\ pc = "uart_recv" => pass < Passes /\ line <= pass + 1 /\ received <= pass
  /\ pc = "uart_check" =>
       pass < Passes /\ line <= pass + 1 /\ received <= pass + 1

\* Other data that a complete read delivered is there to be compared.  The count
\* that malloc left stands if it is the right one, and the pattern comes by a
\* complete read only.
RomInv ==
  /\ pc = "rom_init" => pass = 0
  /\ pc \in {"rom_write", "rom_read"} => ~ wrong /\ reads <= pass
  /\ pc = "rom_read" => pass < Passes
  /\ pc = "rom_check" =>
       /\ pass < Passes /\ reads <= pass + 1
       /\ wrong => read_count = ReadBytes /\ read_buffer # "pattern"
  /\ pc \in {"rom_write", "rom_read", "rom_check"} =>
       /\ rom_found = ReadBytes => read_count = ReadBytes
       /\ read_buffer = "pattern" => reads > 0
       /\ rom_found = ReadBytes /\ pass > 0 => reads > 0

\* A pin that did not follow is in the count of errors.
GpioInv ==
  /\ pc = "gpio_init" => pass = 0
  /\ pc = "gpio_up"    => gpio_errors = 0 /\ ~ stuck
  /\ pc = "gpio_down"  => pass < Passes /\ gpio_errors \in 0 .. 1
  /\ pc \in {"gpio_down", "gpio_check"} => (stuck => gpio_errors > 0)

Inv ==
  /\ ScriptTypeOK /\ CountInv
  /\ ProgramTypeOK /\ ShellInv /\ UartInv /\ RomInv /\ GpioInv /\ FaultsSeen

-----------------------------------------------------------------------------
(* Counting. *)

LEMMA Product ==
  ASSUME NEW a \in Nat, NEW b \in Nat, NEW l \in Nat, a < b,
         NEW c \in Nat, c <= l
  PROVE  a * l + c <= b * l
  OBVIOUS

LEMMA OneRound ==
  ASSUME NEW a \in Nat, NEW l \in Nat
  PROVE  (a + 1) * l = a * l + l /\ a * l \in Nat /\ 0 * l = 0
  OBVIOUS

LEMMA LinesFinite ==
  ASSUME NEW t
  PROVE  /\ Len(Tests) \in Nat /\ DOMAIN Tests = 1 .. Len(Tests)
         /\ IsFiniteSet(Lines(t)) /\ Cardinality(Lines(t)) \in Nat
<1>1. Len(Tests) \in Nat /\ DOMAIN Tests = 1 .. Len(Tests)
  BY TestsAssumption
<1>2. IsFiniteSet(DOMAIN Tests)
  BY <1>1, FS_Interval
<1>3. IsFiniteSet(Lines(t))
  BY <1>2, FS_Subset DEF Lines
<1> QED
  BY <1>1, <1>3, FS_CardinalityType

LEMMA BeforeFinite ==
  ASSUME NEW x \in 1 .. Len(Tests) + 1, NEW t
  PROVE  /\ IsFiniteSet(Before(x, t)) /\ Cardinality(Before(x, t)) \in Nat
         /\ Cardinality(Before(x, t)) <= Cardinality(Lines(t))
<1>1. Before(x, t) \in SUBSET Lines(t)
  BY DEF Before
<1>2. IsFiniteSet(Lines(t))
  BY LinesFinite
<1>3. /\ IsFiniteSet(Before(x, t))
      /\ Cardinality(Before(x, t)) <= Cardinality(Lines(t))
  BY <1>1, <1>2, FS_Subset
<1> QED
  BY <1>3, FS_CardinalityType

LEMMA BeforeNext ==
  ASSUME NEW x \in 1 .. Len(Tests), NEW t
  PROVE  Cardinality(Before(x + 1, t))
           = IF Tests[x] = t THEN Cardinality(Before(x, t)) + 1
                             ELSE Cardinality(Before(x, t))
<1>1. Len(Tests) \in Nat /\ DOMAIN Tests = 1 .. Len(Tests)
  BY LinesFinite
<1>2. IsFiniteSet(Before(x, t)) /\ x \notin Before(x, t)
  <2>1. x \in 1 .. Len(Tests) + 1
    BY <1>1
  <2>2. x \notin Before(x, t)
    BY <1>1 DEF Before
  <2> QED
    BY <2>1, <2>2, BeforeFinite
<1>3. 1 .. (x + 1) - 1 = (1 .. x - 1) \cup {x}
  BY <1>1
<1>4. x \in Lines(t) <=> Tests[x] = t
  BY <1>1 DEF Lines
<1>5. Tests[x] = t => Before(x + 1, t) = Before(x, t) \cup {x}
  BY <1>3, <1>4 DEF Before
<1>6. Tests[x] # t => Before(x + 1, t) = Before(x, t)
  BY <1>3, <1>4 DEF Before
<1>7. Cardinality(Before(x, t) \cup {x}) = Cardinality(Before(x, t)) + 1
  BY <1>2, FS_AddElement
<1> QED
  BY <1>5, <1>6, <1>7

\* Before the first line there is none, behind the last all are done.
LEMMA BeforeEnds ==
  ASSUME NEW t
  PROVE  /\ Cardinality(Before(1, t)) = 0
         /\ Before(Len(Tests) + 1, t) = Lines(t)
<1>1. Len(Tests) \in Nat /\ DOMAIN Tests = 1 .. Len(Tests)
  BY LinesFinite
<1>2. Before(1, t) = {}
  BY DEF Before
<1>3. Before(Len(Tests) + 1, t) = Lines(t)
  BY <1>1 DEF Before, Lines
<1> QED
  BY <1>2, <1>3, FS_EmptySet

-----------------------------------------------------------------------------
(* The launcher. *)

LEMMA InvInit == Init => Inv
<1> SUFFICES ASSUME Init PROVE Inv
  OBVIOUS
<1>1. Len(Tests) \in Nat /\ TotalTimes \in Nat /\ Passes \in Nat \ {0}
  BY LinesFinite, TimesAssumption
<1>2. ScriptTypeOK
  BY <1>1 DEF Init, ScriptTypeOK
<1>3. CountInv
  <2>1. ASSUME NEW t \in Names
        PROVE  succ[t] + fail[t]
                 = (run_time - 1) * Cardinality(Lines(t))
                     + Cardinality(Before(next, t))
    <3>1. Cardinality(Lines(t)) \in Nat /\ Cardinality(Before(1, t)) = 0
      BY LinesFinite, BeforeEnds
    <3>2. PICK l \in Nat : l = Cardinality(Lines(t))
      BY <3>1
    <3>3. 0 * l = 0
      BY OneRound
    <3>4. next = 1 /\ run_time = 1 /\ succ[t] = 0 /\ fail[t] = 0 /\ run_time - 1 = 0
      BY DEF Init
    <3> QED
      BY <3>1, <3>2, <3>3, <3>4
  <2>2. errors = 0 <=> \A t \in Names : fail[t] = 0
    BY DEF Init
  <2> QED
    BY <2>1, <2>2 DEF CountInv
<1>4. ProgramTypeOK
  BY <1>1 DEF Init, ProgramTypeOK, Places
<1>5. ShellInv /\ UartInv /\ RomInv /\ GpioInv /\ FaultsSeen
  BY <1>1 DEF Init, ShellInv, UartInv, RomInv, GpioInv, FaultsSeen,
              UartAnswered, RomDataRight, PinFollowed, Succeeded
<1> QED
  BY <1>2, <1>3, <1>4, <1>5 DEF Inv

\* While nothing is counted the counts stay right.
LEMMA CountStays ==
  ASSUME Inv, UNCHANGED <<next, run_time, times>>
  PROVE  CountInv'
BY DEF Inv, CountInv, times, Before

\* Little is claimed of a program that has not begun.
LEMMA NotBegun ==
  ASSUME pc' \in {"uart_init", "rom_init", "gpio_init"} => pass' = 0,
         pc' \notin {"uart_send", "uart_recv", "uart_check", "rom_write",
                     "rom_read", "rom_check", "gpio_up", "gpio_down",
                     "gpio_check"}
  PROVE  UartInv' /\ RomInv' /\ GpioInv'
BY DEF UartInv, RomInv, GpioInv

LEMMA RunTestKeeps == Inv /\ RunTest => Inv'
<1> SUFFICES ASSUME Inv, RunTest PROVE Inv'
  OBVIOUS
<1>1. /\ ScriptTypeOK /\ ProgramTypeOK /\ ShellInv /\ TotalTimes \in Nat
      /\ Passes \in Nat
  BY TimesAssumption DEF Inv
<1>2. /\ UNCHANGED <<next, run_time, times, led, devices>>
      /\ shell' = "wait" /\ pass' = 0 /\ run_time <= TotalTimes /\ More
      /\ \/ Current = "uart_tile" /\ pc' = "uart_init" /\ status' = status
         \/ Current = "i2c" /\ pc' = "rom_init" /\ status' = status
         \/ Current = "gpio_loop" /\ pc' = "gpio_init" /\ status' = status
         \/ /\ Current \notin {"uart_tile", "i2c", "gpio_loop"}
            /\ pc' = "exited" /\ status' \in {0, 1}
  BY DEF RunTest
<1>3. UNCHANGED <<Current, More>>
  BY <1>2 DEF Current, More
<1>4. ScriptTypeOK'
  BY <1>1, <1>2 DEF ScriptTypeOK, times
<1>5. CountInv'
  BY <1>2, CountStays
<1>6. ProgramTypeOK'
  BY <1>1, <1>2 DEF ProgramTypeOK, Places, devices, uart, i2c, gpio
<1>7. ShellInv'
  BY <1>1, <1>2, <1>3 DEF ShellInv
<1>8. UartInv' /\ RomInv' /\ GpioInv'
  BY <1>2, NotBegun
<1>9. FaultsSeen'
  BY <1>2, <1>3 DEF FaultsSeen, UartAnswered, RomDataRight, PinFollowed, Succeeded
<1> QED
  BY <1>4, <1>5, <1>6, <1>7, <1>8, <1>9 DEF Inv

LEMMA CountKeeps == Inv /\ Count => Inv'
<1> SUFFICES ASSUME Inv, Count PROVE Inv'
  OBVIOUS
<1>1. /\ ScriptTypeOK /\ ProgramTypeOK /\ ShellInv /\ CountInv
      /\ Len(Tests) \in Nat /\ TotalTimes \in Nat
  BY LinesFinite, TimesAssumption DEF Inv
<1>2. /\ UNCHANGED <<run_time, led, pass, status, devices>>
      /\ shell = "wait" /\ shell' = "loop" /\ next' = next + 1 /\ pc' = "none"
      /\ \/ /\ status = 0 /\ succ' = [succ EXCEPT ![Current] = @ + 1]
            /\ fail' = fail /\ errors' = errors
         \/ /\ status # 0 /\ fail' = [fail EXCEPT ![Current] = @ + 1]
            /\ succ' = succ /\ errors' = errors + 1
  BY DEF Count, Errors
<1>3. next \in 1 .. Len(Tests) /\ run_time <= TotalTimes /\ Current \in Names
  <2>1. next \in 1 .. Len(Tests) /\ run_time <= TotalTimes
    BY <1>1, <1>2 DEF ShellInv, More, ScriptTypeOK
  <2> QED
    BY <2>1, LinesFinite DEF Current, Names
<1>4. /\ succ \in [Names -> Nat] /\ fail \in [Names -> Nat] /\ errors \in Nat
  BY <1>1 DEF ScriptTypeOK
<1>5. /\ succ' \in [Names -> Nat] /\ fail' \in [Names -> Nat] /\ errors' \in Nat
      /\ \A t \in Names :
           succ'[t] + fail'[t]
             = succ[t] + fail[t] + (IF t = Current THEN 1 ELSE 0)
      /\ errors' = 0 <=> (errors = 0 /\ status = 0)
      /\ status = 0 => fail' = fail
      /\ status # 0 => fail'[Current] # 0
  <2>1. PICK c \in Names : c = Current
    BY <1>3
  <2>2. CASE status = 0
    <3>1. succ' = [succ EXCEPT ![c] = @ + 1] /\ fail' = fail /\ errors' = errors
      BY <1>2, <2>1, <2>2
    <3>2. succ' \in [Names -> Nat] /\ fail' \in [Names -> Nat]
      BY <1>4, <3>1
    <3>3. \A t \in Names : succ'[t] = IF t = c THEN succ[t] + 1 ELSE succ[t]
      BY <1>4, <3>1
    <3>4. \A t \in Names : succ[t] \in Nat /\ fail[t] \in Nat /\ fail'[t] = fail[t]
      BY <1>4, <3>1
    <3>5. \A t \in Names :
            succ'[t] + fail'[t] = succ[t] + fail[t] + (IF t = c THEN 1 ELSE 0)
      BY <3>3, <3>4
    <3> QED
      BY <1>4, <2>1, <2>2, <3>1, <3>2, <3>5
  <2>3. CASE status # 0
    <3>1. /\ fail' = [fail EXCEPT ![c] = @ + 1] /\ succ' = succ
          /\ errors' = errors + 1
      BY <1>2, <2>1, <2>3
    <3>2. succ' \in [Names -> Nat] /\ fail' \in [Names -> Nat]
      BY <1>4, <3>1
    <3>3. \A t \in Names : fail'[t] = IF t = c THEN fail[t] + 1 ELSE fail[t]
      BY <1>4, <3>1
    <3>4. \A t \in Names : succ[t] \in Nat /\ fail[t] \in Nat /\ succ'[t] = succ[t]
      BY <1>4, <3>1
    <3>5. \A t \in Names :
            succ'[t] + fail'[t] = succ[t] + fail[t] + (IF t = c THEN 1 ELSE 0)
      BY <3>3, <3>4
    <3>6. errors' \in Nat /\ errors' # 0 /\ fail'[c] # 0
      BY <1>4, <3>1, <3>3, <3>4
    <3> QED
      BY <2>1, <2>3, <3>2, <3>5, <3>6
  <2> QED
    BY <2>2, <2>3
<1>6. ScriptTypeOK'
  BY <1>1, <1>2, <1>3, <1>5 DEF ScriptTypeOK
<1>7. CountInv'
  <2>1. ASSUME NEW t \in Names
        PROVE  succ'[t] + fail'[t]
                 = (run_time - 1) * Cardinality(Lines(t))
                     + Cardinality(Before(next + 1, t))
    <3>1. Cardinality(Before(next + 1, t))
            = Cardinality(Before(next, t)) + (IF t = Current THEN 1 ELSE 0)
      <4>1. next \in 1 .. Len(Tests) + 1 /\ Cardinality(Before(next, t)) \in Nat
        BY <1>1, <1>3, BeforeFinite
      <4>2. Cardinality(Before(next + 1, t))
              = IF Current = t THEN Cardinality(Before(next, t)) + 1
                               ELSE Cardinality(Before(next, t))
        BY <1>3, BeforeNext DEF Current
      <4> QED
        BY <4>1, <4>2
    <3>2. succ[t] + fail[t] = (run_time - 1) * Cardinality(Lines(t))
                                + Cardinality(Before(next, t))
      BY <1>1 DEF CountInv
    <3>3. next \in 1 .. Len(Tests) + 1 /\ Cardinality(Before(next, t)) \in Nat
      BY <1>1, <1>3, BeforeFinite
    <3>4. PICK l \in Nat, a \in Nat : l = Cardinality(Lines(t)) /\ a = run_time - 1
      BY <1>1, LinesFinite DEF ScriptTypeOK
    <3>5. a * l \in Nat
      BY OneRound
    <3>6. PICK m \in Nat : m = a * l
      BY <3>5
    <3>7. /\ succ'[t] + fail'[t]
               = succ[t] + fail[t] + (IF t = Current THEN 1 ELSE 0)
          /\ succ[t] \in Nat /\ fail[t] \in Nat
      BY <1>4, <1>5
    <3>8. PICK s \in Nat, f \in Nat, c \in Nat :
            s = succ[t] /\ f = fail[t] /\ c = Cardinality(Before(next, t))
      BY <3>3, <3>7
    <3>9. s + f = m + c
      BY <3>2, <3>4, <3>6, <3>8
    <3>10. CASE t = Current
      BY <3>1, <3>4, <3>6, <3>7, <3>8, <3>9, <3>10
    <3>11. CASE t # Current
      BY <3>1, <3>4, <3>6, <3>7, <3>8, <3>9, <3>11
    <3> QED
      BY <3>10, <3>11
  <2>2. errors' = 0 <=> \A t \in Names : fail'[t] = 0
    BY <1>1, <1>3, <1>5 DEF CountInv
  <2> QED
    BY <1>2, <2>1, <2>2 DEF CountInv, Before
<1>8. ProgramTypeOK'
  BY <1>1, <1>2 DEF ProgramTypeOK, Places, devices, uart, i2c, gpio
<1>9. ShellInv'
  BY <1>2, <1>3 DEF ShellInv
<1>10. UartInv' /\ RomInv' /\ GpioInv'
  BY <1>2, NotBegun
<1>11. FaultsSeen'
  BY <1>2 DEF FaultsSeen, UartAnswered, RomDataRight, PinFollowed, Succeeded
<1> QED
  BY <1>6, <1>7, <1>8, <1>9, <1>10, <1>11 DEF Inv

LEMMA AgainKeeps == Inv /\ Again => Inv'
<1> SUFFICES ASSUME Inv, Again PROVE Inv'
  OBVIOUS
<1>1. /\ ScriptTypeOK /\ ProgramTypeOK /\ ShellInv /\ CountInv
      /\ Len(Tests) \in Nat /\ TotalTimes \in Nat
  BY LinesFinite, TimesAssumption DEF Inv
<1>2. /\ UNCHANGED <<shell, times, led, program, devices>>
      /\ shell = "loop" /\ next' = 1 /\ run_time' = run_time + 1
      /\ run_time <= TotalTimes /\ ~ More
  BY DEF Again, NextTime
<1>3. next = Len(Tests) + 1 /\ run_time \in 1 .. TotalTimes /\ pc = "none"
  BY <1>1, <1>2 DEF More, ScriptTypeOK, ShellInv
<1>4. ScriptTypeOK'
  BY <1>1, <1>2, <1>3 DEF ScriptTypeOK, times
<1>5. CountInv'
  <2>1. ASSUME NEW t \in Names
        PROVE  succ[t] + fail[t]
                 = ((run_time + 1) - 1) * Cardinality(Lines(t))
                     + Cardinality(Before(1, t))
    <3>1. succ[t] + fail[t] = (run_time - 1) * Cardinality(Lines(t))
                                + Cardinality(Before(next, t))
      BY <1>1 DEF CountInv
    <3>2. /\ Before(next, t) = Lines(t) /\ Cardinality(Before(1, t)) = 0
          /\ Cardinality(Lines(t)) \in Nat
      BY <1>3, BeforeEnds, LinesFinite
    <3>3. PICK l \in Nat, a \in Nat : l = Cardinality(Lines(t)) /\ a = run_time - 1
      BY <1>3, <3>2
    <3>4. (a + 1) * l = a * l + l /\ a * l \in Nat
      BY OneRound
    <3>5. (run_time + 1) - 1 = a + 1
      BY <1>3, <3>3
    <3> QED
      BY <3>1, <3>2, <3>3, <3>4, <3>5
  <2> QED
    BY <1>1, <1>2, <2>1 DEF CountInv, Before, times
<1>6. ProgramTypeOK'
  BY <1>1, <1>2 DEF ProgramTypeOK, program, devices, uart, i2c, gpio
<1>7. ShellInv'
  BY <1>2, <1>3 DEF ShellInv, program
<1>8. UartInv' /\ RomInv' /\ GpioInv'
  BY <1>2, <1>3, NotBegun DEF program
<1>9. FaultsSeen'
  BY <1>2 DEF FaultsSeen, UartAnswered, RomDataRight, PinFollowed, Succeeded
<1> QED
  BY <1>4, <1>5, <1>6, <1>7, <1>8, <1>9 DEF Inv

LEMMA LightKeeps == Inv /\ Light => Inv'
<1> SUFFICES ASSUME Inv, Light PROVE Inv'
  OBVIOUS
<1>1. /\ ScriptTypeOK /\ ProgramTypeOK /\ ShellInv /\ TotalTimes \in Nat
  BY TimesAssumption DEF Inv
<1>2. /\ UNCHANGED <<next, run_time, times, program, devices>>
      /\ shell = "loop" /\ shell' = "done" /\ run_time > TotalTimes
      /\ led' = IF errors # 0 THEN "error" ELSE "passed"
  BY DEF Light
<1>3. pc = "none" /\ next = 1 /\ run_time = TotalTimes + 1
  BY <1>1, <1>2 DEF ShellInv, ScriptTypeOK
<1>4. ScriptTypeOK'
  BY <1>1, <1>2 DEF ScriptTypeOK, times
<1>5. CountInv'
  BY <1>2, CountStays
<1>6. ProgramTypeOK'
  BY <1>1, <1>2 DEF ProgramTypeOK, program, devices, uart, i2c, gpio
<1>7. ShellInv'
  BY <1>2, <1>3 DEF ShellInv, program, times
<1>8. UartInv' /\ RomInv' /\ GpioInv'
  BY <1>2, <1>3, NotBegun DEF program
<1>9. FaultsSeen'
  BY <1>2 DEF FaultsSeen, UartAnswered, RomDataRight, PinFollowed, Succeeded
<1> QED
  BY <1>4, <1>5, <1>6, <1>7, <1>8, <1>9 DEF Inv

-----------------------------------------------------------------------------
(* The programs. *)

\* What a step of a program must keep, when the launcher waits for it.
LEMMA ProgramKeeps ==
  ASSUME Inv, UNCHANGED script, pc # "none", pc' # "none",
         ProgramTypeOK', UartInv', RomInv', GpioInv', FaultsSeen',
         pc' = "exited" \/ UNCHANGED <<pc>>
           \/ (pc \in {"uart_init", "uart_send", "uart_recv", "uart_check"}
                 /\ pc' \in {"uart_send", "uart_recv", "uart_check"})
           \/ (pc \in {"rom_init", "rom_write", "rom_read", "rom_check"}
                 /\ pc' \in {"rom_write", "rom_read", "rom_check"})
           \/ (pc \in {"gpio_init", "gpio_up", "gpio_down", "gpio_check"}
                 /\ pc' \in {"gpio_up", "gpio_down", "gpio_check"})
  PROVE  Inv'
<1>1. ScriptTypeOK /\ ShellInv
  BY DEF Inv
<1>2. UNCHANGED <<shell, next, run_time, succ, fail, errors, led>>
  BY DEF script, times
<1>3. UNCHANGED <<Current, More>>
  BY <1>2 DEF Current, More
<1>4. ScriptTypeOK'
  BY <1>1, <1>2 DEF ScriptTypeOK
<1>5. CountInv'
  BY <1>2, CountStays DEF times
<1>6. ShellInv'
  BY <1>1, <1>2, <1>3 DEF ShellInv, ScriptTypeOK
<1> QED
  BY <1>4, <1>5, <1>6 DEF Inv

LEMMA UartKeeps == Inv /\ UartStep => Inv'
<1> SUFFICES ASSUME Inv, UartStep PROVE Inv'
  OBVIOUS
<1>1. /\ ProgramTypeOK /\ UartInv /\ ShellInv
      /\ Passes \in Nat \ {0}
  BY TimesAssumption DEF Inv
<1>2. /\ Uart!Next /\ UNCHANGED <<script, i2c, gpio>>
      /\ pc \in {"uart_init", "uart_send", "uart_recv", "uart_check"}
  BY DEF UartStep, Uart!Next, Uart!Start, Uart!Send, Uart!Recv, Uart!Check,
         Uart!Done
<1>3. Current = "uart_tile" /\ Current' = Current
  BY <1>1, <1>2 DEF ShellInv, script, Current
<1>4. /\ pass \in 0 .. Passes /\ recv_count \in Garbage \cup {0, 64}
      /\ line \in 0 .. Passes /\ received \in 0 .. Passes
      /\ uart_found \in Garbage \cup {0} /\ status \in {0, 1, 255}
  BY <1>1 DEF ProgramTypeOK
<1> USE DEF Uart!Exit, Uart!device
<1>5. /\ pass' \in 0 .. Passes /\ recv_count' \in Garbage \cup {0, 64}
      /\ line' \in 0 .. Passes /\ received' \in 0 .. Passes
      /\ uart_found' \in Garbage \cup {0} /\ status' \in {0, 1, 255}
      /\ UartInv'
      /\ pc' \in {"uart_send", "uart_recv", "uart_check", "exited"}
      /\ pc' = "exited" /\ status' = 0 => received' > 0 \/ uart_found' = 64
  <2>1. CASE Uart!Start
    BY <1>1, <1>4, <2>1 DEF Uart!Start, UartInv
  <2>2. CASE Uart!Send
    BY <1>1, <1>4, <2>2 DEF Uart!Send, UartInv
  <2>3. CASE Uart!Recv
    BY <1>1, <1>4, <2>3 DEF Uart!Recv, UartInv, Uart!BLOCK_SIZE
  <2>4. CASE Uart!Check
    BY <1>1, <1>4, <2>4 DEF Uart!Check, UartInv, Uart!Complete, Uart!BLOCK_SIZE
  <2>5. CASE Uart!Done
    BY <1>1, <1>4, <2>5 DEF Uart!Done, UartInv
  <2> QED
    BY <1>2, <2>1, <2>2, <2>3, <2>4, <2>5 DEF Uart!Next
<1>6. ProgramTypeOK'
  BY <1>1, <1>2, <1>5 DEF ProgramTypeOK, Places, i2c, gpio
<1>7. RomInv' /\ GpioInv'
  BY <1>5 DEF RomInv, GpioInv
<1>8. FaultsSeen'
  BY <1>3, <1>5 DEF FaultsSeen, UartAnswered, RomDataRight, PinFollowed, Succeeded
<1> QED
  BY <1>2, <1>5, <1>6, <1>7, <1>8, ProgramKeeps

LEMMA RomKeeps == Inv /\ RomStep => Inv'
<1> SUFFICES ASSUME Inv, RomStep PROVE Inv'
  OBVIOUS
<1>1. /\ ProgramTypeOK /\ RomInv /\ ShellInv
      /\ Passes \in Nat \ {0}
  BY TimesAssumption DEF Inv
<1>2. /\ Rom!Next /\ UNCHANGED <<script, uart, gpio>>
      /\ pc \in {"rom_init", "rom_write", "rom_read", "rom_check"}
  BY DEF RomStep, Rom!Next, Rom!Start, Rom!Write, Rom!Read, Rom!Check, Rom!Done
<1>3. Current = "i2c" /\ Current' = Current
  BY <1>1, <1>2 DEF ShellInv, script, Current
<1>4. /\ pass \in 0 .. Passes /\ read_count \in Garbage \cup {0, ReadBytes}
      /\ read_buffer \in {"zero", "pattern", "other"}
      /\ rom \in {"pattern", "other"} /\ reads \in 0 .. Passes
      /\ rom_found \in Garbage \cup {0} /\ status \in {0, 1, 255}
  BY <1>1 DEF ProgramTypeOK
<1> USE DEF Rom!Exit, Rom!device
<1>5. /\ pass' \in 0 .. Passes /\ read_count' \in Garbage \cup {0, ReadBytes}
      /\ read_buffer' \in {"zero", "pattern", "other"}
      /\ rom' \in {"pattern", "other"} /\ reads' \in 0 .. Passes
      /\ rom_found' \in Garbage \cup {0} /\ status' \in {0, 1, 255}
      /\ RomInv'
      /\ pc' \in {"rom_write", "rom_read", "rom_check", "exited"}
      /\ pc' = "exited" /\ status' = 0 =>
           ~ wrong' /\ (rom_found' = ReadBytes => reads' > 0)
  <2>1. CASE Rom!Start
    BY <1>1, <1>4, <2>1 DEF Rom!Start, RomInv
  <2>2. CASE Rom!Write
    BY <1>1, <1>4, <2>2 DEF Rom!Write, RomInv
  <2>3. CASE Rom!Read
    <3>1. /\ pass' = pass /\ status' = status /\ rom' = rom
          /\ pc = "rom_read" /\ pc' = "rom_check"
          /\ reads' = reads + 1 \/ reads' = reads
          /\ read_count' = read_count \/ read_count' = ReadBytes
          /\ \/ read_buffer' = rom \/ read_buffer' = "other"
             \/ read_buffer' = read_buffer
          /\ wrong' => wrong \/ ( /\ read_buffer' # "pattern"
                                  /\ read_count' = ReadBytes )
      <4>1. /\ pass' = pass /\ status' = status /\ rom' = rom
            /\ pc = "rom_read" /\ pc' = "rom_check"
        BY <2>3 DEF Rom!Read
      <4>2. CASE /\ read_buffer' \in {rom, "other"} /\ read_count' = ReadBytes
                 /\ reads' = reads + 1
                 /\ wrong' = (wrong \/ read_buffer' # "pattern")
        <5>1. wrong' => wrong \/ read_buffer' # "pattern"
          BY <4>2, Zenon
        <5>2. read_buffer' = rom \/ read_buffer' = "other"
          BY <4>2
        <5> QED
          BY <4>1, <4>2, <5>1, <5>2, Zenon
      <4>3. CASE /\ read_buffer' \in {read_buffer, "other"}
                 /\ UNCHANGED <<read_count, reads, wrong>>
        <5>1. /\ read_count' = read_count /\ reads' = reads /\ wrong' = wrong
              /\ read_buffer' = read_buffer \/ read_buffer' = "other"
          BY <4>3
        <5> QED
          BY <4>1, <5>1, Zenon
      <4> QED
        BY <2>3, <4>2, <4>3 DEF Rom!Read
    <3>2. ~ wrong /\ reads <= pass /\ pass < Passes
      BY <1>1, <3>1 DEF RomInv
    <3>3. wrong' => read_count' = ReadBytes /\ read_buffer' # "pattern"
      BY <3>1, <3>2, Zenon
    <3>4. pass' < Passes /\ reads' <= pass' + 1 /\ reads' \in 0 .. Passes
      BY <1>1, <1>4, <3>1, <3>2
    <3>5. /\ rom_found' = rom_found
          /\ \/ reads' = reads + 1
             \/ reads' = reads /\ read_buffer' \in {read_buffer, "other"}
      <4>1. CASE reads' = reads + 1 /\ UNCHANGED rom_found
        BY <4>1
      <4>2. CASE /\ read_buffer' \in {read_buffer, "other"}
                 /\ UNCHANGED <<reads, rom_found>>
        BY <4>2
      <4> QED
        BY <2>3, <4>1, <4>2 DEF Rom!Read
    <3>6. /\ rom_found = ReadBytes => read_count = ReadBytes
          /\ read_buffer = "pattern" => reads > 0
          /\ rom_found = ReadBytes /\ pass > 0 => reads > 0
      BY <1>1, <3>1 DEF RomInv
    <3>7. /\ rom_found' = ReadBytes => read_count' = ReadBytes
          /\ reads > 0 => reads' > 0
          /\ reads' = reads + 1 => reads' > 0
      BY <1>4, <3>1, <3>5, <3>6
    <3>8. /\ read_buffer' = "pattern" => reads' > 0
          /\ rom_found' = ReadBytes /\ pass' > 0 => reads' > 0
      <4>1. read_buffer' = "pattern" => reads' > 0
        BY <3>5, <3>6, <3>7
      <4>2. pass' = pass
        BY <3>1
      <4> QED
        BY <3>5, <3>6, <3>7, <4>1, <4>2, Zenon
    <3>9. RomInv'
      BY <3>1, <3>3, <3>4, <3>7, <3>8, Zenon DEF RomInv
    <3>10. rom_found' \in Garbage \cup {0}
      BY <1>4, <3>5
    <3> QED
      BY <1>4, <3>1, <3>4, <3>9, <3>10
  <2>4. CASE Rom!Check
    BY <1>1, <1>4, <2>4 DEF Rom!Check, RomInv, Rom!Same
  <2>5. CASE Rom!Done
    BY <1>1, <1>4, <2>5 DEF Rom!Done, RomInv
  <2> QED
    BY <1>2, <2>1, <2>2, <2>3, <2>4, <2>5 DEF Rom!Next
<1>6. ProgramTypeOK'
  BY <1>1, <1>2, <1>5 DEF ProgramTypeOK, Places, uart, gpio
<1>7. UartInv' /\ GpioInv'
  BY <1>5 DEF UartInv, GpioInv
<1>8. FaultsSeen'
  BY <1>3, <1>5 DEF FaultsSeen, UartAnswered, RomDataRight, PinFollowed, Succeeded
<1> QED
  BY <1>2, <1>5, <1>6, <1>7, <1>8, ProgramKeeps

\* The mask that gpio_loop looks through shows the output pin and no other.
LEMMA LooksAtOut ==
  ASSUME NEW pins
  PROVE  Gpio!Looked(pins) <=> 52 \in pins
<1>1. Gpio!Shl({0}, 52 - 32) = {20}
  BY DEF Gpio!Shl, Gpio!Half
<1>2. Gpio!Word({}, {20}) = {52}
  BY DEF Gpio!Word
<1>3. Gpio!move_left(Gpio!Out) = {52}
  BY <1>1, <1>2 DEF Gpio!move_left, Gpio!Out
<1> QED
  BY <1>3 DEF Gpio!Looked

LEMMA GpioKeeps == Inv /\ GpioStep => Inv'
<1> SUFFICES ASSUME Inv, GpioStep PROVE Inv'
  OBVIOUS
<1>1. ProgramTypeOK /\ GpioInv /\ ShellInv /\ Passes \in Nat \ {0}
  BY TimesAssumption DEF Inv
<1>2. /\ Gpio!Next /\ UNCHANGED <<script, uart, i2c>>
      /\ pc \in {"gpio_init", "gpio_up", "gpio_down", "gpio_check"}
  BY DEF GpioStep, Gpio!Next, Gpio!Start, Gpio!Up, Gpio!Down, Gpio!Check,
         Gpio!Done
<1>3. Current = "gpio_loop" /\ Current' = Current
  BY <1>1, <1>2 DEF ShellInv, script, Current
<1>4. /\ pass \in 0 .. Passes /\ gpio_errors \in 0 .. 2
      /\ status \in {0, 1, 255}
  BY <1>1 DEF ProgramTypeOK
<1> USE DEF Gpio!Exit, Gpio!device
<1>5. ASSUME NEW high \in BOOLEAN, Gpio!Drive(high)
      PROVE  /\ gpio_errors' = gpio_errors \/ gpio_errors' = gpio_errors + 1
             /\ stuck' => stuck \/ gpio_errors' = gpio_errors + 1
  BY <1>4, <1>5, LooksAtOut DEF Gpio!Drive, Gpio!Out
<1>6. /\ pass' \in 0 .. Passes /\ gpio_errors' \in 0 .. 2
      /\ status' \in {0, 1, 255}
      /\ GpioInv'
      /\ pc' \in {"gpio_up", "gpio_down", "gpio_check", "exited"}
      /\ pc' = "exited" /\ status' = 0 => ~ stuck'
  <2>1. CASE Gpio!Start
    BY <1>1, <1>4, <2>1 DEF Gpio!Start, GpioInv
  <2>2. CASE Gpio!Up
    <3>1. /\ pass' = pass /\ status' = status /\ pass # Passes
          /\ pc = "gpio_up" /\ pc' = "gpio_down"
      BY <2>2 DEF Gpio!Up
    <3>2. /\ gpio_errors' = gpio_errors \/ gpio_errors' = gpio_errors + 1
          /\ stuck' => stuck \/ gpio_errors' = gpio_errors + 1
      BY <1>5, <2>2, Zenon DEF Gpio!Up
    <3>3. gpio_errors = 0 /\ ~ stuck
      BY <1>1, <3>1 DEF GpioInv
    <3>4. gpio_errors' \in 0 .. 1 /\ pass' < Passes
      BY <1>1, <1>4, <3>1, <3>2, <3>3
    <3>5. gpio_errors' = gpio_errors + 1 => gpio_errors' > 0
      BY <3>3
    <3>6. GpioInv'
      BY <3>1, <3>2, <3>3, <3>4, <3>5, Zenon DEF GpioInv
    <3> QED
      BY <1>4, <3>1, <3>4, <3>6
  <2>3. CASE Gpio!Down
    <3>1. /\ pass' = pass + 1 /\ status' = status
          /\ pc = "gpio_down" /\ pc' = "gpio_check"
      BY <2>3 DEF Gpio!Down, Gpio!NextPass
    <3>2. /\ gpio_errors' = gpio_errors \/ gpio_errors' = gpio_errors + 1
          /\ stuck' => stuck \/ gpio_errors' = gpio_errors + 1
      BY <1>5, <2>3, Zenon DEF Gpio!Down
    <3>3. gpio_errors \in 0 .. 1 /\ pass < Passes
      BY <1>1, <3>1 DEF GpioInv
    <3>4. stuck => gpio_errors > 0
      BY <1>1, <3>1 DEF GpioInv
    <3>5. gpio_errors' \in 0 .. 2 /\ pass' \in 0 .. Passes
      BY <1>1, <1>4, <3>1, <3>2, <3>3
    <3>6. /\ gpio_errors' = gpio_errors + 1 => gpio_errors' > 0
          /\ gpio_errors > 0 => gpio_errors' > 0
      BY <3>2, <3>3
    <3>7. stuck' => gpio_errors' > 0
      BY <3>2, <3>4, <3>6, Zenon
    <3>8. GpioInv'
      BY <3>1, <3>7, Zenon DEF GpioInv
    <3> QED
      BY <1>4, <3>1, <3>5, <3>8
  <2>4. CASE Gpio!Check
    BY <1>1, <1>4, <2>4 DEF Gpio!Check, GpioInv
  <2>5. CASE Gpio!Done
    BY <1>1, <1>4, <2>5 DEF Gpio!Done, GpioInv
  <2> QED
    BY <1>2, <2>1, <2>2, <2>3, <2>4, <2>5 DEF Gpio!Next
<1>7. ProgramTypeOK'
  BY <1>1, <1>2, <1>6 DEF ProgramTypeOK, Places, uart, i2c
<1>8. UartInv' /\ RomInv'
  BY <1>6 DEF UartInv, RomInv
<1>9. FaultsSeen'
  BY <1>3, <1>6 DEF FaultsSeen, UartAnswered, RomDataRight, PinFollowed, Succeeded
<1> QED
  BY <1>2, <1>6, <1>7, <1>8, <1>9, ProgramKeeps

-----------------------------------------------------------------------------
(* The theorems. *)

LEMMA InvNext == Inv /\ [Next]_vars => Inv'
<1> SUFFICES ASSUME Inv, [Next]_vars PROVE Inv'
  OBVIOUS
<1>1. CASE UNCHANGED vars
  BY <1>1 DEF vars, script, times, program, devices, uart, i2c, gpio, Inv,
     ScriptTypeOK, CountInv, Before, ProgramTypeOK, ShellInv, UartInv, RomInv,
     GpioInv, FaultsSeen, UartAnswered, RomDataRight, PinFollowed, Succeeded,
     Current, More
<1> QED
  BY <1>1, RunTestKeeps, CountKeeps, AgainKeeps, LightKeeps, UartKeeps, RomKeeps,
     GpioKeeps DEF Next, Terminating

LEMMA FlagNext == FlagTypeOK /\ [Next]_vars => FlagTypeOK'
<1> SUFFICES ASSUME FlagTypeOK, [Next]_vars PROVE FlagTypeOK'
  OBVIOUS
<1>1. UNCHANGED <<uart_open, rom_open, wrong, stuck>> => FlagTypeOK'
  BY DEF FlagTypeOK
<1>2. CASE UartStep
  <2>1. UNCHANGED <<rom_open, wrong, stuck>> /\ uart_open' \in BOOLEAN
    BY <1>2 DEF UartStep, i2c, gpio, FlagTypeOK, Uart!Next, Uart!Start,
       Uart!Send, Uart!Recv, Uart!Check, Uart!Done, Uart!device
  <2> QED
    BY <2>1 DEF FlagTypeOK
<1>3. CASE RomStep
  <2>1. UNCHANGED <<uart_open, stuck>> /\ rom_open' \in BOOLEAN /\ wrong' \in BOOLEAN
    BY <1>3 DEF RomStep, uart, gpio, FlagTypeOK, Rom!Next, Rom!Start,
       Rom!Write, Rom!Read, Rom!Check, Rom!Done, Rom!device
  <2> QED
    BY <2>1 DEF FlagTypeOK
<1>4. CASE GpioStep
  <2>1. UNCHANGED <<uart_open, rom_open, wrong>> /\ stuck' \in BOOLEAN
    BY <1>4 DEF GpioStep, uart, i2c, FlagTypeOK, Gpio!Next, Gpio!Start, Gpio!Up,
       Gpio!Down, Gpio!Drive, Gpio!Check, Gpio!Done, Gpio!device
  <2> QED
    BY <2>1 DEF FlagTypeOK
<1>5. CASE ~ (UartStep \/ RomStep \/ GpioStep)
  BY <1>1, <1>5 DEF Next, RunTest, Count, Again, Light, Terminating, vars,
     devices, uart, i2c, gpio
<1> QED
  BY <1>2, <1>3, <1>4, <1>5

THEOREM PostTestInvariant == Spec => []Inv
  BY InvInit, InvNext, PTL DEF Spec

LEMMA BoundHolds ==
  ASSUME Inv, NEW t \in Names
  PROVE  succ[t] + fail[t] <= TotalTimes * Cardinality(Lines(t))
<1>1. /\ next \in 1 .. Len(Tests) + 1 /\ run_time \in 1 .. TotalTimes + 1
      /\ TotalTimes \in Nat /\ Len(Tests) \in Nat
  BY TimesAssumption, LinesFinite DEF Inv, ScriptTypeOK
<1>2. succ[t] + fail[t] = (run_time - 1) * Cardinality(Lines(t))
                            + Cardinality(Before(next, t))
  BY DEF Inv, CountInv
<1>3. /\ Cardinality(Lines(t)) \in Nat /\ Cardinality(Before(next, t)) \in Nat
      /\ Cardinality(Before(next, t)) <= Cardinality(Lines(t))
  BY <1>1, LinesFinite, BeforeFinite
<1>4. PICK l \in Nat, c \in Nat, a \in Nat, b \in Nat :
        /\ l = Cardinality(Lines(t)) /\ c = Cardinality(Before(next, t))
        /\ a = run_time - 1 /\ b = TotalTimes /\ c <= l
  BY <1>1, <1>3
<1>5. CASE run_time <= TotalTimes
  <2>1. a < b
    BY <1>1, <1>4, <1>5
  <2>2. a * l + c <= b * l
    BY <1>4, <2>1, Product
  <2> QED
    BY <1>2, <1>4, <2>2
<1>6. CASE ~ (run_time <= TotalTimes)
  <2>1. run_time = TotalTimes + 1 /\ next = 1
    BY <1>1, <1>6 DEF Inv, ShellInv, ScriptTypeOK
  <2>2. a = b /\ c = 0
    BY <1>1, <1>4, <2>1, BeforeEnds
  <2>3. a * l \in Nat
    BY OneRound
  <2>4. a * l + c <= b * l
    BY <2>2, <2>3
  <2> QED
    BY <1>2, <1>4, <2>4
<1> QED
  BY <1>5, <1>6

\* The variables hold what they should; no test is run more often than the
\* rounds and its lines in the configuration call for.
THEOREM TypeCorrect == Spec => []TypeOK
<1>1. Init => FlagTypeOK
  BY DEF Init, FlagTypeOK
<1>2. Inv /\ FlagTypeOK => TypeOK
  BY BoundHolds DEF Inv, TypeOK
<1> QED
  BY <1>1, <1>2, FlagNext, PostTestInvariant, PTL DEF Spec

\* When the launcher sets the led, it tells whether any run of any test failed,
\* and every run has been counted once, as a success or as a failure.
THEOREM VerdictToldTheorem == Spec => []VerdictTold
<1>1. Inv => VerdictTold
  <2> SUFFICES ASSUME Inv, shell = "done"
               PROVE  /\ led = "passed" <=> \A t \in Names : fail[t] = 0
                      /\ \A t \in Names : succ[t] + fail[t]
                                = TotalTimes * Cardinality(Lines(t))
    BY DEF VerdictTold
  <2>1. /\ next = 1 /\ run_time = TotalTimes + 1
        /\ led = IF errors # 0 THEN "error" ELSE "passed"
        /\ TotalTimes \in Nat
    BY TimesAssumption DEF Inv, ShellInv
  <2>2. led = "passed" <=> \A t \in Names : fail[t] = 0
    BY <2>1 DEF Inv, CountInv
  <2>3. ASSUME NEW t \in Names
        PROVE  succ[t] + fail[t] = TotalTimes * Cardinality(Lines(t))
    <3>1. succ[t] + fail[t] = (run_time - 1) * Cardinality(Lines(t))
                                + Cardinality(Before(next, t))
      BY DEF Inv, CountInv
    <3>2. Cardinality(Before(next, t)) = 0 /\ run_time - 1 = TotalTimes
      BY <2>1, BeforeEnds
    <3>3. PICK l \in Nat, a \in Nat : l = Cardinality(Lines(t)) /\ a = TotalTimes
      BY <2>1, LinesFinite
    <3>4. a * l \in Nat
      BY OneRound
    <3>5. a * l + 0 = a * l
      BY <3>4
    <3> QED
      BY <3>1, <3>2, <3>3, <3>5
  <2> QED
    BY <2>2, <2>3
<1> QED
  BY <1>1, PostTestInvariant, PTL

\* Whatever the fresh memory of the counts holds, a program that reports success
\* has seen its device work: uart_tile at least one complete block, unless that
\* memory held the 64 it waits for (then a dead line passes); rom_write no other
\* data in a complete read, and at least one such read if that memory held the
\* count it waits for; gpio_loop an output pin that always followed.
THEOREM FaultsSeenTheorem == Spec => []FaultsSeen
<1>1. Inv => FaultsSeen
  BY DEF Inv
<1> QED
  BY <1>1, PostTestInvariant, PTL
=============================================================================
