------------------------------ MODULE GpioLoop ------------------------------
(***************************************************************************)
(* clib-src/gpio_loop: drives an output pin up and down and reads the pins *)
(* back, pass after pass.                                                  *)
(***************************************************************************)
EXTENDS Naturals

CONSTANTS
  Passes,  \* --passes
  Faults   \* "missing", the output pin "stuck", the wire to the input "cut"

VARIABLES
  pc, pass, status,  \* of the program that runs, see PostTest
  gpio_errors,
  stuck              \* history: did the output pin once not follow?

device == <<gpio_errors, stuck>>

Out == 52  \* asserted_output_pins
In  == 53  \* asserted_input_pins

Exit(s) == pc' = "exited" /\ status' = s

\* A word of 64 bits is the set of its ones, in two halves of 32.
Half == 0 .. 31
Shl(half, n) == {b + n : b \in half} \cap Half
Shr(half, n) == {b \in Half : b + n \in half}
Word(low, high) == low \cup {b + 32 : b \in high}

\* For count 0 the code shifts by 32, which C leaves undefined: no pin is 0.
move_left(count) ==
  IF count < 32
    THEN Word(Shl({0}, count), Shr({0}, 32 - count))
    ELSE Word({}, Shl({0}, count - 32))

\* gxio_gpio_init, attach and set_dir.
Start ==
  /\ pc = "gpio_init"
  /\ gpio_errors' = 0 /\ stuck' = FALSE
  /\ \/ pc' = "gpio_up" /\ UNCHANGED status
     \/ "missing" \in Faults /\ Exit(255)
  /\ UNCHANGED pass

\* The pins that gxio_gpio_get may find high.  With the wire cut the input
\* does not follow; a stuck output does not, and the input may or may not.
Levels(high) ==
  LET follows == IF high THEN {Out, In} ELSE {} IN
  {follows}
    \cup (IF "cut" \in Faults THEN {IF high THEN {Out} ELSE {In}} ELSE {})
    \cup (IF "stuck" \in Faults
            THEN {pins \in SUBSET {Out, In} : (Out \in pins) # high} ELSE {})

Looked(pins) == move_left(Out) \cap pins # {}

Drive(high) ==
  \E pins \in Levels(high) :
    /\ gpio_errors' = IF Looked(pins) = high THEN gpio_errors ELSE gpio_errors + 1
    /\ stuck' = (stuck \/ (Out \in pins) # high)

Up ==
  /\ pc = "gpio_up" /\ pass # Passes
  /\ Drive(TRUE)
  /\ pc' = "gpio_down"
  /\ UNCHANGED <<pass, status>>

\* (Definitions named with a suffix are mutants, as in PacketGenerator.)
NextPass_Same == pass
NextPass == pass + 1

Down ==
  /\ pc = "gpio_down"
  /\ Drive(FALSE)
  /\ pass' = NextPass
  /\ pc' = "gpio_check"
  /\ UNCHANGED status

Check ==
  /\ pc = "gpio_check"
  /\ IF gpio_errors = 0 THEN pc' = "gpio_up" /\ UNCHANGED status ELSE Exit(255)
  /\ UNCHANGED <<pass, device>>

Done ==
  /\ pc = "gpio_up" /\ pass = Passes
  /\ Exit(0)
  /\ UNCHANGED <<pass, device>>

Next == Start \/ Up \/ Down \/ Check \/ Done
=============================================================================
