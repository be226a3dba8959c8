------------------------------ MODULE RomWrite ------------------------------
(***************************************************************************)
(* clib-src/rom_write: writes a pattern to an I2C memory, reads it back    *)
(* and compares, pass after pass.  The counts and the read buffer belong   *)
(* to main and survive a call that fails; write_count is only printed.     *)
(***************************************************************************)
EXTENDS Integers

CONSTANTS
  Passes,     \* --passes
  ReadBytes,  \* --bytes
  Faults,     \* what may go wrong with the device
  Garbage     \* what malloc leaves in *read_count

VARIABLES
  pc, pass, status,  \* of the program that runs, see PostTest
  rom_open,          \* did fv_i2c_init succeed?
  read_count,
  read_buffer,       \* "zero", "pattern" or "other"
  rom,               \* what the memory holds
  reads,             \* history: reads that were complete
  wrong,             \* history: did one of them deliver other data?
  rom_found          \* history: what *read_count held at first

device ==
  <<rom_open, read_count, read_buffer, rom, reads, wrong, rom_found>>

Exit(s) == pc' = "exited" /\ status' = s

\* The pattern is a new one for each run.  When fv_i2c_init fails main goes on,
\* with a descriptor that was never set or has another address: whatever it is
\* that the calls then reach, they may succeed or fail.
Start ==
  /\ pc = "rom_init"
  /\ rom_open' \in {TRUE} \cup (IF "missing" \in Faults THEN {FALSE} ELSE {})
  /\ read_count' \in Garbage /\ rom_found' = read_count'
  /\ read_buffer' = "zero" /\ rom' = "other" /\ reads' = 0 /\ wrong' = FALSE
  /\ pc' = "rom_write"
  /\ UNCHANGED <<pass, status>>

MayGoWrong(fault) == ~ rom_open \/ fault \in Faults

Write ==
  /\ pc = "rom_write" /\ pass < Passes
  /\ \/ rom' = "pattern"
     \/ /\ MayGoWrong("write")
        /\ rom' \in {rom, "other"}
  /\ pc' = "rom_read"
  /\ UNCHANGED <<pass, status, rom_open, read_count, read_buffer, reads, wrong,
                 rom_found>>

Read ==
  /\ pc = "rom_read"
  /\ \/ /\ read_buffer' \in {rom} \cup
                            (IF MayGoWrong("damaged") THEN {"other"} ELSE {})
        /\ read_count' = ReadBytes
        /\ reads' = reads + 1
        /\ wrong' = (wrong \/ read_buffer' # "pattern")
     \/ /\ MayGoWrong("short")
        /\ read_buffer' \in {read_buffer, "other"}
        /\ UNCHANGED <<read_count, reads, wrong>>
  /\ pc' = "rom_check"
  /\ UNCHANGED <<pass, status, rom_open, rom, rom_found>>

Same == read_buffer = "pattern"

\* A read that failed is printed and passed over.
Check ==
  /\ pc = "rom_check"
  /\ IF read_count = ReadBytes /\ ~ Same
       THEN Exit(255) /\ UNCHANGED pass
       ELSE pass' = pass + 1 /\ pc' = "rom_write" /\ UNCHANGED status
  /\ UNCHANGED device

Done ==
  /\ pc = "rom_write" /\ pass = Passes
  /\ Exit(0)
  /\ UNCHANGED <<pass, device>>

Next == Start \/ Write \/ Read \/ Check \/ Done
=============================================================================
