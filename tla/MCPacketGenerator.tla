------------------------- MODULE MCPacketGenerator -------------------------
(* Instances of PacketGenerator for TLC. *)
EXTENDS PacketGeneratorProperties

CONSTANTS p1, p2

Zero == [c \in Counters |-> 0]

TwoPayloads == {p1, p2}
OnePayload == {p1}
ZeroedMemory == {Zero}
DirtyMemory == {Zero, [Zero EXCEPT !["error_recv"] = 1]}
=============================================================================
