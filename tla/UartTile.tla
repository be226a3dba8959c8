------------------------------ MODULE UartTile ------------------------------
(***************************************************************************)
(* clib-src/uart_tile: sends a block over a looped serial line and reads   *)
(* it back, pass after pass.  recv_count belongs to main and is set only   *)
(* by a receive that succeeds.                                             *)
(***************************************************************************)
EXTENDS Integers

CONSTANTS
  Passes,   \* --passes
  Faults,   \* what may go wrong with the device
  Garbage   \* what malloc leaves in *recv_count

VARIABLES
  pc, pass, status,  \* of the program that runs, see PostTest
  uart_open,         \* did fv_uart_init open the device?
  recv_count,
  line,              \* blocks sent and not yet read
  received,          \* history: receives that were complete
  uart_found         \* history: what *recv_count held at first

device == <<uart_open, recv_count, line, received, uart_found>>

BLOCK_SIZE == 64

Exit(s) == pc' = "exited" /\ status' = s

\* main goes on without a device.
Start ==
  /\ pc = "uart_init"
  /\ uart_open' \in {TRUE} \cup (IF "missing" \in Faults THEN {FALSE} ELSE {})
  /\ recv_count' \in Garbage /\ uart_found' = recv_count'
  /\ line' = 0 /\ received' = 0
  /\ pc' = "uart_send"
  /\ UNCHANGED <<pass, status>>

Send ==
  /\ pc = "uart_send" /\ pass < Passes
  /\ \/ /\ uart_open
        /\ line' \in {line + 1} \cup (IF "lost" \in Faults THEN {line} ELSE {})
        /\ pc' = "uart_recv"
        /\ UNCHANGED status
     \/ ~ uart_open /\ Exit(255) /\ UNCHANGED line
     \/ uart_open /\ "write" \in Faults /\ Exit(255) /\ UNCHANGED line
  /\ UNCHANGED <<pass, uart_open, recv_count, received, uart_found>>

\* A block of 64; fewer; or ten seconds pass.  The last two
\* return -1 and leave recv_count alone, which main only prints.
Recv ==
  /\ pc = "uart_recv"
  /\ \/ /\ line > 0
        /\ recv_count' = BLOCK_SIZE /\ line' = line - 1
        /\ received' = received + 1
     \/ /\ line > 0 /\ "short" \in Faults
        /\ line' = line - 1
        /\ UNCHANGED <<recv_count, received>>
     \/ /\ line = 0 \/ "late" \in Faults
        /\ UNCHANGED <<recv_count, line, received>>
  /\ pc' = "uart_check"
  /\ UNCHANGED <<pass, status, uart_open, uart_found>>

\* (Definitions named with a suffix are mutants, as in PacketGenerator.)
Complete_AtLeast == recv_count >= BLOCK_SIZE
Complete == recv_count = BLOCK_SIZE

\* The bytes cannot differ, whatever came: recv_buf has just been filled with
\* the right ones.
Check ==
  /\ pc = "uart_check"
  /\ IF Complete
       THEN pass' = pass + 1 /\ pc' = "uart_send" /\ UNCHANGED status
       ELSE Exit(255) /\ UNCHANGED pass
  /\ UNCHANGED device

Done ==
  /\ pc = "uart_send" /\ pass = Passes
  /\ Exit(0)
  /\ UNCHANGED <<pass, device>>

Next == Start \/ Send \/ Recv \/ Check \/ Done
=============================================================================
