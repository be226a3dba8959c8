--------------------------- MODULE MCMutualStart ---------------------------
EXTENDS MutualStart, SequencesExt

Line(field, value) == [field |-> field, value |-> value, newline |-> TRUE]
Unended(field, value) == [field |-> field, value |-> value, newline |-> FALSE]

IP(first, plus)   == [got |-> 5, first |-> first, plus |-> plus]
Port(first, plus) == [got |-> 2, first |-> first, plus |-> plus]
\* A value that ends after the address or port, an empty one, one that is no
\* number.
Only(got, first)  == [got |-> got, first |-> first, plus |-> 0]
Empty             == Only(-1, 0)
NoNumber          == Only(0, 0)

\* generator.conf, its lines in their order, with smaller numbers.
Shipped ==
  <<Line("none", 0), Line("num_workers", 2), Line("pktlen", 1400),
    Line("once_packet_nums", 2), Line("timeout", 2), Line("check_level", 1),
    Line("errornum", 3), Line("notif_ring_entries", 512),
    Line("equeue_entries", 2048), Line("per_worker_buckets", 8),
    Line("protocol", 17), Line("srcmac", 6), Line("dstmac", 255),
    Line("saddr", IP(103177, 1)), Line("daddr", Only(4, 255255)),
    Line("sport", Port(3000, 2)), Line("dport", Port(6360, 0)),
    Line("pkt_data", "null")>>

Links(send, recv) ==
  <<Line("send_link_name", send), Line("recv_link_name", recv)>>

MCFiles ==
  [f \in {"generator.conf", "links", "wrap", "empty", "unended", "long",
          "three", "nines"} |->
     CASE f = "generator.conf" -> Shipped
       [] f = "links"   -> Links("xgbe2", "xgbe1") \o Shipped
       [] f = "wrap"    -> Links("xgbe1", "xgbe1") \o Shipped \o
            <<Line("once_packet_nums", 3), Line("num_workers", 1),
              Line("saddr", IP(2 ^ 20 - 1, 1)), Line("daddr", IP(2 ^ 20 - 2, 5)),
              Line("sport", Port(65535, 1)), Line("dport", NoNumber)>>
       [] f = "empty"   -> Links("xgbe1", "xgbe2") \o Shipped \o
            <<Line("dport", Empty), Line("num_workers", 1)>>
       [] f = "unended" -> Links("xgbe1", "gbe1") \o Shipped \o
            <<Line("pktlen", 61), Unended("num_workers", 1)>>
       [] f = "long"    -> Shipped \o <<Line("pktlen", 1515)>>
       [] f = "three"   -> Links("gbe1", "xgbe1") \o Shipped \o
            <<Line("num_workers", 3), Line("protocol", 6),
              Line("per_worker_buckets", 6), Line("once_packet_nums", 1),
              Line("notif_ring_entries", 128), Line("equeue_entries", 512)>>
       [] f = "nines"   -> Links("xgbe1", "xgbe1") \o Shipped \o
            <<Line("num_workers", 3), Line("per_worker_buckets", 16),
              Line("once_packet_nums", 1), Line("dstmac", 254)>>]

Parts ==
  {<<"--sender", "xgbe1">>, <<"--recver", "xgbe1">>, <<"--recver", "a long name">>,
   <<"--config", "links">>, <<"--config", "wrap">>, <<"--config">>,
   <<"--sender", "--config">>, <<"--workers", "1">>, <<"--workers", "many">>,
   <<"--pktlen", "61">>, <<"--pktlen", "41">>, <<"--queue_length", "1">>}

Again == {<<"--sender", "xgbe2">>, <<"--sender", "gbe1">>, <<"--recver", "gbe1">>}

\* Up to two options, also twice the same and in either order, up to two links
\* behind a file that names links, and every other option or file once.
MCArgvs ==
  {FlattenSeq(parts) : parts \in SeqOf(Parts, 2)} \cup
  {<<"--config", "links">> \o FlattenSeq(parts) : parts \in SeqOf(Again, 2)} \cup
  {<<"--srcmac", "7">>, <<"--errornum", "7">>, <<"--timeout", "7">>,
   <<"--check_level", "7">>, <<"--second", "7">>, <<"--help">>,
   <<"--config", "links", "--version">>, <<"--len_check">>} \cup
  {<<"--config", f>> : f \in DOMAIN MCFiles \cup {"no such file"}} \cup
  {<<"--config", f, "--workers", "1">> : f \in DOMAIN MCFiles} \cup
  {<<"--config", "nines", "--workers", "7">>}

MCNumber == [w \in {"1", "7", "41", "61"} |->
  CASE w = "1" -> 1 [] w = "7" -> 7 [] w = "41" -> 41 [] OTHER -> 61]

MCInstance == [l \in {"xgbe1", "xgbe2", "gbe1"} |-> IF l = "gbe1" THEN 1 ELSE 0]
MCBlock == [l \in DOMAIN MCInstance \cup {"a long name", "--config"} |->
  IF l = "a long name" THEN 40 ELSE 24]

MCHeld == [k \in Resources |->
  CASE k = "rings" -> 1 [] k = "groups" -> 2 [] k = "buckets" -> 5 [] OTHER -> 0]
MCCapacity == [k \in Resources |->
  CASE k = "rings" -> 4 [] k = "groups" -> 6 [] k = "buckets" -> 50 [] OTHER -> 1]
MCSizes == [k \in {"iqueues", "edma"} |->
  IF k = "iqueues" THEN {128, 512} ELSE {512, 2048}]
MCPageSizes == {2 ^ 16, 2 ^ 20, 2 ^ 24, 2 ^ 28}

\* The settings as shipped, with both links.
LinksGiven == {<<"--sender", "xgbe2", "--recver", "xgbe1">>}

MCUint32 == 2 ^ 20
\* Dirty but for the checksum, of which HeadersRight says nothing otherwise.
MCOldHeaders ==
  {[tos |-> 16, id |-> 4660, frag_off |-> 16384, check |-> 0]}
=============================================================================
