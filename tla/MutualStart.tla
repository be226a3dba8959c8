---------------------------- MODULE MutualStart ----------------------------
(***************************************************************************)
(* mpipe_mutual from its first instruction to the packets it is going to   *)
(* send: the settings (MutualOptions), the network chip (MpipeInit), and   *)
(* init_generator_set, which creates the workers, each with a copy of the  *)
(* settings of its own, from which it fills its packets (PacketHeaders).   *)
(* What follows is in MutualProcess and PacketGenerator.                   *)
(***************************************************************************)
EXTENDS MpipeInit, PacketHeaders

CONSTANTS
  OldHeaders,  \* what malloc may leave in the header of a packet
  Payloads     \* what rand() may give a packet of even length, see
               \* PacketHeaders

ASSUME PacketAssumption ==
  /\ OldHeaders \subseteq [tos : Nat, id : Nat, frag_off : Nat, check : Nat]
  /\ Payloads \subseteq Nat

VARIABLES
  generator,  \* the config_t of each worker created
  made        \* the packets each has made

vars == <<optionVars, initVars, generator, made>>

Init ==
  /\ MutualOptionsInit /\ MpipeInitInit
  /\ generator = <<>> /\ made = <<>>

Starting == (MutualOptionsNext /\ UNCHANGED initVars) \/ MpipeInitNext

CreateWorker ==
  /\ At("ready") /\ n < config["num_workers"]
  /\ generator' = Append(generator, config)
  /\ made' = Append(made, <<>>)
  /\ n' = n + 1
  /\ UNCHANGED <<optionVars, stage, mpipe, chip>>

\* pop_payload fills what is left behind the headers, 12 bytes less if the
\* settings say TCP.
PayloadBytes(c) == c["pktlen"] - (IF c["protocol"] = 6 THEN 54 ELSE 42)

\* make_all_packet starts when all threads are there (MutualProcess); the rank
\* is added to the last octet of the address.
MayMake(w) ==
  /\ At("ready") /\ n >= config["num_workers"]
  /\ Len(made[w]) < config["once_packet_nums"]

\* An odd last byte is filled too.
PayloadOf(c) ==
  {[sum |-> s, last |-> b] : s \in Payloads,
                             b \in IF c["pktlen"] % 2 = 0 THEN {0} ELSE {0, 1}}

MakePacket(w) ==
  /\ MayMake(w) /\ PayloadBytes(generator[w]) >= 0
  /\ \E old \in OldHeaders, payload \in PayloadOf(generator[w]) :
       LET p == generator_udp_packet(generator[w], old, payload) IN
       made' = [made EXCEPT ![w] =
                  Append(@, [p EXCEPT !.h_dest = (@ + w - 1) % 256])]
  /\ generator' = [generator EXCEPT ![w] = AfterPacket(@)]
  /\ UNCHANGED <<optionVars, initVars>>

\* while(j--) with a negative j fills all there is behind the packet.
Overwrite(w) ==
  /\ MayMake(w) /\ PayloadBytes(generator[w]) < 0
  /\ End("crashed")
  /\ UNCHANGED <<argv, i, config_file, rest, config, text, complained, initVars,
                 generator, made>>

AllMade == At("ready") /\ \A w \in 1 .. config["num_workers"] :
             w \in DOMAIN made /\ Len(made[w]) >= config["once_packet_nums"]

Terminating == (pc = "ended" \/ AllMade) /\ UNCHANGED vars

Next ==
  \/ Starting /\ UNCHANGED <<generator, made>>
  \/ CreateWorker
  \/ \E w \in DOMAIN made : MakePacket(w) \/ Overwrite(w)
  \/ Terminating

Spec == Init /\ [][Next]_vars

-----------------------------------------------------------------------------
(* Properties. *)

TypeOK ==
  /\ pc \in {"scan", "file", "options", "generator", "ended"}
  /\ i \in 1 .. Len(argv) + 1
  /\ status \in {"none", "0", "-1", "died", "crashed"}
  /\ pc = "ended" <=> status # "none"
  /\ DOMAIN config = Plain \cup Ranges \cup Pointers \cup {"dmac"}
  /\ \A f \in Plain \cup {"dmac"} : config[f] \in Nat
  /\ \A f \in Ranges : config[f] \in [{"min", "cur", "max"} -> 0 .. Uint32 - 1]
  /\ complained \in BOOLEAN
  /\ chip.open \subseteq DOMAIN Instance
  /\ chip.iqueues \subseteq 0 .. Capacity["rings"] - 1
  /\ Len(chip.rules) <= mpipe.num_workers
  /\ Len(chip.assigned) <= mpipe.num_workers
  /\ Len(made) = Len(generator) /\ Len(made) <= Cpus

\* Every frame that a worker is going to send comes back to the ring that this
\* worker reads, which is initialised, whatever rings, groups and buckets the
\* chip handed out and however the last octets wrap around: what the data path
\* rests on (RingsFor of PacketGenerator).  Unless the program complained of
\* the file, and read no further, or the chip refused one of the calls that
\* nobody looks at, as it does when there is no power of two of buckets
\* (generator.conf:35).
FramesReachOwnRing ==
  ~ complained /\ ~ chip.refused =>
    \A w \in DOMAIN made : \A k \in DOMAIN made[w] :
      /\ RingsFor(made[w][k].h_dest) = {mpipe.ring + w - 1}
      /\ mpipe.ring + w - 1 \in chip.iqueues

\* The stack is big enough for the egress ring and all ingress rings to be full
\* at once, its buffers lie within the memory that was mapped, behind the stack
\* itself and aligned, and there are "up to 16 pages" (mpipe.c:30) of it.
BuffersInMemory ==
  \A k \in DOMAIN chip.memory :
    LET m == chip.memory[k] IN
      /\ m.number >= mpipe.equeue_entries
                       + Cardinality(chip.iqueues) * mpipe.notif_ring_entries
      /\ m.first >= buffer_stack_bytes(m.number) /\ m.first % 128 = 0
      /\ m.first + m.number * buffer_size <= m.bytes
      /\ m.pages <= 16

\* A worker's k-th packet, counted from 1, has the address k places behind the
\* first of the range, around and around: every address comes once before any
\* comes again.
Swept(c, r, k) == (c[r].min + (k % RangeSize(c[r]))) % Uint32

\* The packets sweep their ranges as the settings say, and a receiver finds
\* their ip headers right, unless the buffer was not clear.
HeadersRight ==
  \A w \in DOMAIN made : \A k \in DOMAIN made[w] :
    LET p == made[w][k] IN
      /\ p.saddr = Swept(config, "saddr", k) /\ p.daddr = Swept(config, "daddr", k)
      /\ p.source = Swept(config, "sport", k) % 65536
      /\ p.dest = Swept(config, "dport", k) % 65536
      /\ p.old.check = 0 => IpVerifies(p)

\* "Do UDP header Check Sum" (packet_generator.c:216): a receiver finds it
\* right.  (Violated.)
UdpChecksumRight ==
  \A w \in DOMAIN made : \A k \in DOMAIN made[w] : UdpVerifies(made[w][k])
=============================================================================
