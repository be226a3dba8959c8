--------------------------- MODULE LoopbackOrder ---------------------------
(***************************************************************************)
(* What a worker of packet_generator.c promises about its packets, with no *)
(* ring, no network and no counter in sight: the packets are Once distinct *)
(* buffers, each either free or out; a batch takes all of them out in the  *)
(* order in which they are free, and brings all of them back in the order  *)
(* in which they went out.                                                 *)
(***************************************************************************)
EXTENDS Naturals, Sequences

CONSTANTS Workers, Once

VARIABLES phase, free, out

vars == <<phase, free, out>>

Init ==
  /\ phase = [w \in Workers |-> "fill"]
  /\ free  = [w \in Workers |-> [k \in 1 .. Once |-> k - 1]]
  /\ out   = [w \in Workers |-> <<>>]

Enter(w, from, to) == phase[w] = from /\ phase' = [phase EXCEPT ![w] = to]

\* A packet is filled while it is nowhere else.
Fill(w) ==
  /\ phase[w] = "fill" /\ free[w] # <<>>
  /\ free' = [free EXCEPT ![w] = Append(Tail(@), Head(@))]
  /\ UNCHANGED <<phase, out>>

Filled(w) == Enter(w, "fill", "idle") /\ UNCHANGED <<free, out>>

Begin(w) == Enter(w, "idle", "send") /\ UNCHANGED <<free, out>>

Send(w) ==
  /\ phase[w] = "send" /\ free[w] # <<>>
  /\ out'  = [out  EXCEPT ![w] = Append(@, Head(free[w]))]
  /\ free' = [free EXCEPT ![w] = Tail(@)]
  /\ UNCHANGED phase

AllSent(w) ==
  /\ free[w] = <<>>
  /\ Enter(w, "send", "recv")
  /\ UNCHANGED <<free, out>>

Return(w) ==
  /\ phase[w] = "recv" /\ out[w] # <<>>
  /\ free' = [free EXCEPT ![w] = Append(@, Head(out[w]))]
  /\ out'  = [out  EXCEPT ![w] = Tail(@)]
  /\ UNCHANGED phase

AllBack(w) ==
  /\ out[w] = <<>>
  /\ Enter(w, "recv", "idle")
  /\ UNCHANGED <<free, out>>

\* The process may end at any moment; nothing is promised after that.
Stop ==
  /\ phase' = [w \in Workers |-> "stopped"]
  /\ free' \in [Workers -> Seq(Nat)]
  /\ out'  \in [Workers -> Seq(Nat)]

Next ==
  \/ \E w \in Workers :
       \/ Fill(w) \/ Filled(w) \/ Begin(w)
       \/ Send(w) \/ AllSent(w)
       \/ Return(w) \/ AllBack(w)
  \/ Stop

Spec == Init /\ [][Next]_vars
=============================================================================
