------------------------------ MODULE PostTest ------------------------------
(***************************************************************************)
(* basic_script/do_post_test.sh: runs the tests of the configuration one   *)
(* after the other, counts successes and failures of each, and at the end  *)
(* sets the led.  The programs of this repository are modules of their     *)
(* own; any other test succeeds or fails.                                  *)
(***************************************************************************)
EXTENDS Integers, Sequences, FiniteSets

CONSTANTS
  Tests,       \* the tests of the configuration, in their order
  TotalTimes,  \* post_test_times
  Passes, ReadBytes, Faults, Garbage  \* of the programs

ASSUME TestsAssumption == Tests \in Seq(STRING)
ASSUME TimesAssumption == TotalTimes \in Nat /\ Passes \in Nat \ {0}
ASSUME CountsAssumption == ReadBytes \in Nat /\ Garbage \subseteq Int

VARIABLES
  shell,           \* "loop", "wait" for a test, "done"
  next,            \* the test to run next
  run_time,
  succ, fail,      \* the columns of $test_times
  errors, led,
  pc, pass, status,  \* of the program that runs; its device:
  uart_open, recv_count, line, received, uart_found,
  rom_open, read_count, read_buffer, rom, reads, wrong, rom_found,
  gpio_errors, stuck

Uart == INSTANCE UartTile
Rom  == INSTANCE RomWrite
Gpio == INSTANCE GpioLoop

uart == <<uart_open, recv_count, line, received, uart_found>>
i2c  == <<rom_open, read_count, read_buffer, rom, reads, wrong, rom_found>>
gpio == <<gpio_errors, stuck>>
devices == <<uart, i2c, gpio>>

times   == <<succ, fail, errors>>
script  == <<shell, next, run_time, times, led>>
program == <<pc, pass, status>>
vars == <<script, program, devices>>

Names == {Tests[k] : k \in DOMAIN Tests}
\* The lines of the configuration that call for a test.
Lines(t) == {k \in DOMAIN Tests : Tests[k] = t}

Init ==
  /\ shell = "loop" /\ next = 1 /\ run_time = 1
  /\ succ = [t \in Names |-> 0] /\ fail = [t \in Names |-> 0]
  /\ errors = 0 /\ led = "testing"
  /\ pc = "none" /\ pass = 0 /\ status = 0
  /\ uart_open = FALSE /\ recv_count = 0 /\ line = 0 /\ received = 0
  /\ uart_found = 0
  /\ rom_open = FALSE /\ read_count = 0 /\ read_buffer = "zero"
  /\ rom = "other" /\ reads = 0 /\ wrong = FALSE
  /\ rom_found = 0
  /\ gpio_errors = 0 /\ stuck = FALSE

Current == Tests[next]
More == next <= Len(Tests)

\* The scripts uart_tile.sh, i2c.sh and gpio_loop.sh run one program each.  The
\* loop that pads the name of the test ends: it has at most 21 characters.
RunTest ==
  /\ shell = "loop" /\ run_time <= TotalTimes /\ More
  /\ shell' = "wait" /\ pass' = 0
  /\ CASE Current = "uart_tile" -> pc' = "uart_init" /\ UNCHANGED status
       [] Current = "i2c"       -> pc' = "rom_init" /\ UNCHANGED status
       [] Current = "gpio_loop" -> pc' = "gpio_init" /\ UNCHANGED status
       [] OTHER                 -> pc' = "exited" /\ status' \in {0, 1}
  /\ UNCHANGED <<next, run_time, times, led, devices>>

UartStep == Uart!Next /\ UNCHANGED <<script, i2c, gpio>>
RomStep  == Rom!Next  /\ UNCHANGED <<script, uart, gpio>>
GpioStep == Gpio!Next /\ UNCHANGED <<script, uart, i2c>>

\* (Definitions named with a suffix are mutants, as in PacketGenerator.)
Errors_Last == IF status = 0 THEN 0 ELSE errors + 1
Errors == IF status = 0 THEN errors ELSE errors + 1

Count ==
  /\ shell = "wait" /\ pc = "exited"
  /\ IF status = 0
       THEN succ' = [succ EXCEPT ![Current] = @ + 1] /\ UNCHANGED fail
       ELSE fail' = [fail EXCEPT ![Current] = @ + 1] /\ UNCHANGED succ
  /\ errors' = Errors
  /\ shell' = "loop" /\ next' = next + 1 /\ pc' = "none"
  /\ UNCHANGED <<run_time, led, pass, status, devices>>

NextTime_Stays == run_time
NextTime == run_time + 1

Again ==
  /\ shell = "loop" /\ run_time <= TotalTimes /\ ~ More
  /\ next' = 1 /\ run_time' = NextTime
  /\ UNCHANGED <<shell, times, led, program, devices>>

Light ==
  /\ shell = "loop" /\ run_time > TotalTimes
  /\ led' = IF errors # 0 THEN "error" ELSE "passed"
  /\ shell' = "done"
  /\ UNCHANGED <<next, run_time, times, program, devices>>

Terminating == shell = "done" /\ UNCHANGED vars

Next ==
  \/ RunTest \/ Count \/ Again \/ Light
  \/ UartStep \/ RomStep \/ GpioStep
  \/ Terminating

\* Calls to the devices return; the scripts run.
Spec == Init /\ [][Next]_vars /\ WF_vars(Next)

-----------------------------------------------------------------------------
(* Properties. *)

Places ==
  {"none", "exited", "uart_init", "uart_send", "uart_recv", "uart_check",
   "rom_init", "rom_write", "rom_read", "rom_check",
   "gpio_init", "gpio_up", "gpio_down", "gpio_check"}

ScriptTypeOK ==
  /\ shell \in {"loop", "wait", "done"} /\ next \in 1 .. Len(Tests) + 1
  /\ run_time \in 1 .. TotalTimes + 1
  /\ succ \in [Names -> Nat] /\ fail \in [Names -> Nat]
  /\ errors \in Nat /\ led \in {"testing", "error", "passed"}

ProgramTypeOK ==
  /\ pc \in Places /\ pass \in 0 .. Passes /\ status \in {0, 1, 255}
  /\ recv_count \in Garbage \cup {0, 64} /\ uart_found \in Garbage \cup {0}
  /\ line \in 0 .. Passes /\ received \in 0 .. Passes
  /\ read_count \in Garbage \cup {0, ReadBytes} /\ rom_found \in Garbage \cup {0}
  /\ read_buffer \in {"zero", "pattern", "other"}
  /\ rom \in {"pattern", "other"} /\ reads \in 0 .. Passes
  /\ gpio_errors \in 0 .. 2

FlagTypeOK ==
  /\ uart_open \in BOOLEAN /\ rom_open \in BOOLEAN
  /\ wrong \in BOOLEAN /\ stuck \in BOOLEAN

\* No test runs more often than the rounds and its lines call for.
TypeOK ==
  /\ ScriptTypeOK /\ ProgramTypeOK /\ FlagTypeOK
  /\ \A t \in Names : succ[t] + fail[t] <= TotalTimes * Cardinality(Lines(t))

\* At the end the led says whether any of the runs failed, and every run of
\* every test has been counted once, whatever failed in between.
VerdictTold ==
  shell = "done" =>
    /\ led = "passed" <=> \A t \in Names : fail[t] = 0
    /\ \A t \in Names : succ[t] + fail[t] = TotalTimes * Cardinality(Lines(t))

Succeeded(t) == shell = "wait" /\ pc = "exited" /\ Current = t /\ status = 0

\* What a program that succeeds has really seen, although its counts, its
\* buffer and its list of errors outlive the passes, and the counts hold at
\* first what malloc left.  uart_tile has seen at least one block, unless it
\* found the 64 that it waits for.  rom_write has seen no other data in a
\* complete read; and if it found the count it waits for, it compared from the
\* start, so that there was such a read.  gpio_loop has seen an output pin that
\* always followed.
UartAnswered == Succeeded("uart_tile") => received > 0 \/ uart_found = 64
RomDataRight == Succeeded("i2c") => ~ wrong /\ (rom_found = ReadBytes => reads > 0)
PinFollowed  == Succeeded("gpio_loop") => ~ stuck
FaultsSeen == UartAnswered /\ RomDataRight /\ PinFollowed

\* Whatever the devices do, the tests end and the led is set.
PostTestEnds == <>(led # "testing")

\* rom_write.c:131: "Read the data from ... and check it success".
\* (Violated.)
RomSuccessMeansRead == Succeeded("i2c") => reads = Passes
=============================================================================
