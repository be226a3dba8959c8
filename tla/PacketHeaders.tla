--------------------------- MODULE PacketHeaders ---------------------------
(***************************************************************************)
(* clib-src/mpipe_mutual/packet_generator.c, generator_udp_packet and what *)
(* it calls, and checksum.c: the headers of a packet, as the words of 16   *)
(* bits its checksums are taken over.  The words are those of the frame;   *)
(* the code adds them up in the byte order of the tile, and since carries  *)
(* are added at the other end this gives the same sum with its two bytes   *)
(* swapped.  (packet_generator_loop always passes generator_udp_packet, so *)
(* generator_tcp_packet is never called, whatever PROTO says.)             *)
(***************************************************************************)
EXTENDS MutualOptions

\* GET_NEXT_SRCIP and its like: the address or port after r.cur.
GET_NEXT_Late(r) ==
  [r EXCEPT !.cur = IF @ > r.max THEN r.min ELSE (@ + 1) % Uint32]
GET_NEXT(r) ==
  [r EXCEPT !.cur = IF @ = r.max THEN r.min ELSE (@ + 1) % Uint32]

\* How many addresses a range has, also when it wraps around.
RangeSize(r) == 1 + ((r.max + Uint32 - r.min) % Uint32)

-----------------------------------------------------------------------------
\* The loop of ip_xsum that propagates carries.
Carry(x) ==
  LET carry[y \in Nat] ==
        IF y < 65536 THEN y ELSE carry[(y % 65536) + (y \div 65536)]
  IN carry[x]

WordSum(words) ==
  LET sum[k \in 0 .. Len(words)] == IF k = 0 THEN 0 ELSE sum[k - 1] + words[k]
  IN sum[Len(words)]

ip_xsum(words, xsum) == Carry(xsum + WordSum(words))

Complement(x) == 65535 - x

\* The two words of an address; a length has room in one word only.
High(address) == address \div 65536
Low(number)   == number % 65536

-----------------------------------------------------------------------------
(* A packet p of length pktlen: the fields that are written, what the buffer *)
(* held before of those that are not (`old`), and the payload as the sum of  *)
(* its words and the byte that is left when there is an odd one.             *)

\* pop_iplayer_udp: type of service, identification and offset are not set.
IpWords(p) ==
  <<17664 + p.old.tos, Low(p.length - 14), p.old.id, p.old.frag_off, 64 * 256 + 17,
    p.check, High(p.saddr), Low(p.saddr), High(p.daddr), Low(p.daddr)>>

\* From the addresses of the ip header to the end of the packet: what the
\* checksum of the udp header is taken over.
UdpWords(p) ==
  <<High(p.saddr), Low(p.saddr), High(p.daddr), Low(p.daddr),
    p.source, p.dest, Low(p.length - 34), p.udp_check, p.payload.sum>>

\* The check of the ip header is not set to 0 before its words are added; the
\* sum for the udp header begins behind it.
pop_iplayer_udp(p) ==
  [p EXCEPT !.check     = Complement(ip_xsum(IpWords(p), 0)),
            !.udp_check = Complement(ip_xsum(UdpWords(p), Low(23 + p.length - 34)))]

\* The packet that a worker with settings c makes in a buffer.
generator_udp_packet(c, old, payload) ==
  pop_iplayer_udp(
    [length |-> c["pktlen"], old |-> old, payload |-> payload,
     source |-> GET_NEXT(c["sport"]).cur % 65536,
     dest   |-> GET_NEXT(c["dport"]).cur % 65536,
     saddr  |-> GET_NEXT(c["saddr"]).cur, daddr |-> GET_NEXT(c["daddr"]).cur,
     check  |-> old.check, udp_check |-> 0,
     h_dest |-> c["dstmac"], h_source |-> c["srcmac"]])

\* ... and its settings then.
AfterPacket(c) ==
  [f \in DOMAIN c |-> IF f \in {"saddr", "daddr", "sport", "dport"}
                        THEN GET_NEXT(c[f]) ELSE c[f]]

-----------------------------------------------------------------------------
(* What a receiver finds. *)

\* RFC 1071: the words with their checksum add up to zero in one's complement.
Verifies(sum) == sum > 0 /\ sum % 65535 = 0

IpVerifies(p) == Verifies(WordSum(IpWords(p)))

\* The pseudo header has the protocol, 17, and the length once more.
UdpVerifies(p) ==
  Verifies(WordSum(UdpWords(p)) + 256 * p.payload.last + 17 + Low(p.length - 34))
=============================================================================
