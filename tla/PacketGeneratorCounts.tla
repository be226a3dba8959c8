----------------------- MODULE PacketGeneratorCounts -----------------------
(***************************************************************************)
(* Proofs about the frames of the data path: who gets which frame, what    *)
(* becomes of every frame and every hardware buffer, that the sizes        *)
(* init_mpipe_equeue computes are enough, that every packet gets one       *)
(* verdict, that no damage goes unnoticed and that nobody cries wolf, for  *)
(* every number of workers, packets and entries.                           *)
(***************************************************************************)
EXTENDS PacketGeneratorProofs

\* The frames as they are sent; those addressed as make_all_packet does it;
\* and those of worker w.
Clean == {f \in Frames : f.length = "pktlen" /\ f.payload # Noise}
Addressed == {f \in Frames : f.dest = LastOctet(f.src)}
Own(w) == {f \in Addressed : f.src = w}

\* Every frame is addressed to the worker that sent it, and the ring of its
\* rule is that worker's.
FrameInv ==
  /\ AllIn(egress, Addressed) /\ AllIn(wire, Addressed)
  /\ AllIn(egress, Clean) /\ AllIn(wire, Clean)
  /\ Len(egress) <= EqueueEntries
  /\ \A w \in Workers :
       /\ AllIn(iqueue[w], Own(w)) /\ Len(iqueue[w]) <= NotifEntries
       /\ pc[w] = "judge" => idesc[w] \in Own(w)

\* The frame f of worker w that comes out of the network is the oldest one
\* under way, intact, damaged or resized.
Becomes(w, f) ==
  \/ f = Head(wire) /\ fault' = fault
  \/ /\ f.payload = Noise /\ f.length = Head(wire).length
     /\ fault' = [fault EXCEPT ![w] = Bump(@, "damaged")]
  \/ /\ f.length = "other"
     /\ fault' = [fault EXCEPT ![w] = Bump(@, "resized")]

\* The oldest frame leaves the egress queue.
Sends ==
  /\ egress # <<>> /\ egress' = Tail(egress)
  /\ wire' = Append(wire, Head(egress)) /\ stack' = stack + 1
  /\ UNCHANGED <<worker, iqueue, fault, base>>

\* The oldest frame under way comes into the ring of its worker w ...
Lands(w) ==
  /\ wire # <<>> /\ Head(wire) \in Own(w) /\ wire' = Tail(wire)
  /\ Len(iqueue[w]) < NotifEntries /\ stack > 0 /\ stack' = stack - 1
  /\ \E f \in Own(w) :
       Becomes(w, f) /\ iqueue' = [iqueue EXCEPT ![w] = Append(@, f)]
  /\ \A v \in Workers : \A k \in {"lost", "overflow", "late"} :
       fault'[v][k] = fault[v][k]
  /\ UNCHANGED <<worker, egress, base>>

\* ... or is lost on the way or for want of room.
Drops(w) ==
  /\ wire # <<>> /\ Head(wire) \in Own(w) /\ wire' = Tail(wire)
  /\ \E k \in {"lost", "overflow"} :
       /\ k = "overflow" => ~ (Len(iqueue[w]) < NotifEntries /\ stack > 0)
       /\ fault' = [fault EXCEPT ![w] = Bump(@, k)]
  /\ UNCHANGED <<worker, stack, egress, iqueue, base>>

-----------------------------------------------------------------------------
(* Who gets which frame. *)

\* Adding the rank to the last octet is injective: it wraps at 256 and there
\* are no more than 256 workers.
LEMMA OneRing ==
  ASSUME NEW w \in Workers, NEW v \in Workers, LastOctet(w) = LastOctet(v)
  PROVE  w = v
<1>1. w \in 0 .. 255 /\ v \in 0 .. 255 /\ Octet \in 0 .. 255
  BY WorkersAssumption, OctetAssumption
<1> QED
  BY <1>1 DEF LastOctet

\* What arrives for an addressed frame goes into the ring of its sender.
LEMMA RingOfSender ==
  ASSUME NEW h \in Addressed, NEW f \in Frames, f.src = h.src, f.dest = h.dest
  PROVE  f \in Own(h.src) /\ RingsFor(f) = {h.src} /\ h.src \in Workers
<1>1. f \in Addressed /\ h.src \in Workers
  BY DEF Addressed, Frames
<1>2. \A w \in Workers : LastOctet(w) = f.dest <=> w = h.src
  BY <1>1, OneRing DEF Addressed
<1> QED
  BY <1>1, <1>2 DEF Own, RingsFor, LastOctet

LEMMA ArrivalSteps ==
  ASSUME TypeOK, FrameInv, wire # <<>>,
         NEW f \in Frames, f.src = Head(wire).src, f.dest = Head(wire).dest,
         NEW k \in {"intact", "damaged", "resized"}, ArriveAs(f, k),
         k = "intact" => f = Head(wire),
         k = "damaged" => f.payload = Noise /\ f.length = Head(wire).length,
         k = "resized" => f.length = "other"
  PROVE  \E w \in Workers : Lands(w) \/ Drops(w)
<1> DEFINE w == Head(wire).src
<1>1. Head(wire) \in Addressed
  BY AllInTail DEF TypeOK, NicTypeOK, FrameInv
<1>2. f \in Own(w) /\ RingsFor(f) = {w} /\ w \in Workers /\ f.src = w
  BY <1>1, RingOfSender
<1>3. Head(wire) \in Own(w)
  BY <1>1 DEF Own
<1>4. wire' = Tail(wire) /\ UNCHANGED <<worker, egress, base>>
  BY DEF ArriveAs
<1>5. fault \in [Workers -> [FaultKinds -> Nat]]
  BY DEF TypeOK, NicTypeOK
<1> HIDE DEF w
<1>6. CASE Len(iqueue[w]) < NotifEntries /\ stack > 0
  <2>1. /\ iqueue' = [iqueue EXCEPT ![w] = Append(@, f)]
        /\ stack' = stack - 1
        /\ \/ fault' = fault
           \/ /\ k \in {"damaged", "resized"}
              /\ fault' = [fault EXCEPT ![w] = Bump(@, k)]
    BY <1>2, <1>6 DEF ArriveAs
  <2>2. \A v \in Workers : \A g \in {"lost", "overflow", "late"} :
          fault'[v][g] = fault[v][g]
    <3>1. CASE fault' = fault
      BY <3>1
    <3>2. CASE /\ k \in {"damaged", "resized"}
               /\ fault' = [fault EXCEPT ![w] = Bump(@, k)]
      BY <1>5, <3>2 DEF Bump, FaultKinds
    <3> QED
      BY <2>1, <3>1, <3>2
  <2>3. Becomes(w, f)
    BY <1>2, <1>6 DEF ArriveAs, Becomes
  <2> QED
    BY <1>2, <1>3, <1>4, <1>6, <2>1, <2>2, <2>3 DEF Lands
<1>7. CASE ~ (Len(iqueue[w]) < NotifEntries /\ stack > 0)
  <2>1. /\ UNCHANGED <<iqueue, stack>>
        /\ fault' = [fault EXCEPT ![w] = Bump(@, "overflow")]
    BY <1>2, <1>7 DEF ArriveAs
  <2> QED
    BY <1>2, <1>3, <1>4, <1>7, <2>1 DEF Drops
<1> QED
  BY <1>6, <1>7

\* The steps of the network chip and of the network.
LEMMA NetworkSteps ==
  ASSUME TypeOK, FrameInv, Network
  PROVE  Sends \/ \E w \in Workers : Lands(w) \/ Drops(w)
<1>1. CASE Transmit
  BY <1>1 DEF Transmit, Sends
<1>2. CASE Lose
  <2>1. Head(wire) \in Addressed
    BY <1>2, AllInTail DEF TypeOK, NicTypeOK, FrameInv, Lose
  <2>2. Head(wire).src \in Workers /\ Head(wire) \in Own(Head(wire).src)
    BY <2>1 DEF Addressed, Own, Frames
  <2> QED
    BY <1>2, <2>2 DEF Lose, Drops
<1>3. ASSUME wire # <<>>
      PROVE  Head(wire) \in Frames
  BY <1>3 DEF TypeOK, NicTypeOK
<1>4. CASE Arrive
  BY <1>3, <1>4, ArrivalSteps DEF Arrive
<1>5. CASE ArriveDamaged
  <2> DEFINE f == [Head(wire) EXCEPT !.payload = Noise]
  <2>1. /\ f \in Frames /\ f.src = Head(wire).src /\ f.dest = Head(wire).dest
        /\ f.payload = Noise /\ f.length = Head(wire).length
    BY <1>3, <1>5 DEF ArriveDamaged, Frames
  <2> QED
    BY <1>5, <2>1, ArrivalSteps DEF ArriveDamaged
<1>6. CASE ArriveResized
  <2>1. PICK p \in {Head(wire).payload, Noise} :
          ArriveAs([Head(wire) EXCEPT !.payload = p, !.length = "other"],
                   "resized")
    BY <1>6 DEF ArriveResized
  <2> DEFINE f == [Head(wire) EXCEPT !.payload = p, !.length = "other"]
  <2>2. /\ f \in Frames /\ f.src = Head(wire).src /\ f.dest = Head(wire).dest
        /\ f.length = "other"
    BY <1>3, <1>6 DEF ArriveResized, Frames
  <2> QED
    BY <1>6, <2>1, <2>2, ArrivalSteps DEF ArriveResized
<1> QED
  BY <1>1, <1>2, <1>4, <1>5, <1>6 DEF Network

LEMMA FrameInit == Init => FrameInv
<1> SUFFICES ASSUME Init PROVE FrameInv
  OBVIOUS
<1>1. \A w \in Workers : iqueue[w] = <<>> /\ pc[w] = "fill"
  BY DEF Init
<1>2. Len(<<>>) = 0 /\ NotifEntries \in Nat /\ EqueueEntries \in Nat
  BY SizesAssumption
<1> QED
  BY <1>1, <1>2, AllInEmpty DEF Init, FrameInv

LEMMA FrameNext ==
  ASSUME RingInv, TypeOK, FrameInv, [Next]_vars
  PROVE  FrameInv'
<1>1. /\ pc \in [Workers -> {"fill", "test", "send", "put", "recv", "judge",
                             "done"}]
      /\ egress \in Seq(Frames) /\ wire \in Seq(Frames)
      /\ iqueue \in [Workers -> Seq(Frames)]
  BY DEF TypeOK, WorkerTypeOK, NicTypeOK
<1>2. \A w \in Workers : Own(w) \subseteq Addressed
  BY DEF Own
<1>3. Addressed \subseteq Frames
  BY DEF Addressed
<1>4. CASE ~ Running
  BY <1>4, NoSteps DEF vars, others, nic, worker, FrameInv
<1>5. CASE Stop
  BY <1>5 DEF Stop, FrameInv
<1>6. CASE UNCHANGED <<worker, nic, fault, base>>
  BY <1>6 DEF worker, nic, FrameInv
<1>7. ASSUME NEW w \in Workers, Moves(w), Only(w)
      PROVE  FrameInv'
  <2>1. CASE Turn(w) \/ Take(w) \/ Passed(w) \/ Missed(w)
    <3>1. UNCHANGED <<egress, wire, iqueue>> /\ pc'[w] # "judge"
      BY <2>1 DEF Turn, Take, Passed, Missed, Goes, nic
    <3> QED
      BY <1>7, <3>1 DEF Only, FrameInv
  <2>2. CASE Put(w)
    <3>1. FrameOf(w) \in Addressed
      BY FrameType DEF TypeOK, FrameOf, Addressed
    <3>2. AllIn(egress', Addressed)
      BY <1>1, <1>3, <2>2, <3>1, AllInAppend DEF Put, FrameInv
    <3>3. UNCHANGED <<wire, iqueue>> /\ pc'[w] # "judge"
      BY <2>2 DEF Put, Goes
    <3>5. AllIn(egress', Clean)
      <4>1. FrameOf(w) \in Clean
        <5>1. data[w][packet[w]] \in Payload \cup {Blank}
          BY DEF TypeOK, WorkerTypeOK
        <5> QED
          BY <5>1, FrameType, NoiseAssumption DEF TypeOK, FrameOf, Clean
      <4> QED
        BY <1>1, <2>2, <4>1, AllInAppend DEF Put, FrameInv, Clean
    <3>4. Len(egress') <= EqueueEntries
      <4>1. Len(egress') = Len(egress) + 1 /\ Len(egress) \in Nat
        BY <1>1, <2>2 DEF Put
      <4> QED
        BY <2>2, <4>1, SizesAssumption DEF Put
    <3> QED
      BY <1>7, <3>2, <3>3, <3>4, <3>5 DEF Only, FrameInv
  <2>3. CASE Get(w)
    <3>1. iqueue' = [iqueue EXCEPT ![w] = Tail(@)] /\ iqueue[w] # <<>>
          /\ iqueue[w] \in Seq(Frames)
      BY <1>1, <2>3 DEF Get
    <3>2. Head(iqueue[w]) \in Own(w) /\ AllIn(Tail(iqueue[w]), Own(w))
      BY <3>1, AllInTail DEF FrameInv
    <3>3. Len(Tail(iqueue[w])) <= NotifEntries
      <4>1. Len(Tail(iqueue[w])) = Len(iqueue[w]) - 1 /\ Len(iqueue[w]) \in Nat
        BY <3>1
      <4> QED
        BY <4>1, SizesAssumption DEF FrameInv
    <3>4. idesc'[w] \in Own(w)
      BY <2>3, <3>2 DEF Get
    <3>5. \A v \in Workers :
            AllIn(iqueue'[v], Own(v)) /\ Len(iqueue'[v]) <= NotifEntries
      BY <1>1, <3>1, <3>2, <3>3 DEF FrameInv
    <3> QED
      BY <1>7, <2>3, <3>4, <3>5 DEF Get, Only, FrameInv
  <2> QED
    BY <1>7, <2>1, <2>2, <2>3 DEF Moves
<1>8. CASE Sends
  <2>1. Head(egress) \in Addressed /\ AllIn(Tail(egress), Addressed)
    BY <1>1, <1>8, AllInTail DEF Sends, FrameInv
  <2>2. AllIn(Append(wire, Head(egress)), Addressed)
    BY <1>1, <1>3, <2>1, AllInAppend DEF FrameInv
  <2>3. AllIn(egress', Clean) /\ AllIn(wire', Clean)
    <3>1. Head(egress) \in Clean /\ AllIn(Tail(egress), Clean)
      BY <1>1, <1>8, AllInTail DEF Sends, FrameInv
    <3>2. AllIn(Append(wire, Head(egress)), Clean)
      BY <1>1, <3>1, AllInAppend DEF FrameInv, Clean
    <3> QED
      BY <1>8, <3>1, <3>2 DEF Sends
  <2>4. Len(egress') <= EqueueEntries
    <3>1. Len(egress') = Len(egress) - 1 /\ Len(egress) \in Nat
      BY <1>1, <1>8 DEF Sends
    <3> QED
      BY <3>1, SizesAssumption DEF FrameInv
  <2> QED
    BY <1>8, <2>1, <2>2, <2>3, <2>4 DEF Sends, worker, FrameInv
<1>9. ASSUME NEW w \in Workers, Lands(w) \/ Drops(w)
      PROVE  FrameInv'
  <2>1. /\ AllIn(wire', Addressed) /\ AllIn(wire', Clean)
        /\ UNCHANGED <<egress, pc, idesc>>
    BY <1>1, <1>9, AllInTail DEF Lands, Drops, worker, FrameInv
  <2>2. CASE Drops(w)
    BY <2>1, <2>2 DEF Drops, FrameInv
  <2>3. CASE Lands(w)
    <3>1. PICK f \in Own(w) : iqueue' = [iqueue EXCEPT ![w] = Append(@, f)]
      BY <2>3 DEF Lands
    <3>2. iqueue[w] \in Seq(Frames) /\ f \in Own(w) \cap Frames
      BY <1>1, <1>2, <1>3
    <3>3. AllIn(Append(iqueue[w], f), Own(w))
      BY <3>2, AllInAppend DEF FrameInv
    <3>4. Len(Append(iqueue[w], f)) = Len(iqueue[w]) + 1
          /\ Len(iqueue[w]) \in Nat
      BY <3>2
    <3>5. Len(Append(iqueue[w], f)) <= NotifEntries
      BY <2>3, <3>4, SizesAssumption DEF Lands
    <3> QED
      BY <1>1, <2>1, <3>1, <3>3, <3>5 DEF FrameInv
  <2> QED
    BY <1>9, <2>2, <2>3
<1> QED
  BY <1>4, <1>5, <1>6, <1>7, <1>8, <1>9, Steps, NetworkSteps

\* Every frame stays in the hands of its worker.
THEOREM FrameInvariant == Spec => []FrameInv
  BY FrameInit, FrameNext, RingInvariant, TypeCorrect, PTL DEF Spec

\* A worker reads back only frames it sent, whatever the address of the card
\* ends with: the rules of init_mpipe_rules never share a frame.
THEOREM OnlyOwnFramesTheorem == Spec => []OnlyOwnFrames
<1>1. TypeOK /\ FrameInv => OnlyOwnFrames
  <2> SUFFICES ASSUME TypeOK, FrameInv, NEW w \in Workers,
                      NEW k \in DOMAIN InIqueue(w)
               PROVE  InIqueue(w)[k].src = w
    BY DEF OnlyOwnFrames
  <2>1. iqueue[w] \in Seq(Frames)
    BY DEF TypeOK, NicTypeOK
  <2>2. \A j \in DOMAIN iqueue[w] : iqueue[w][j].src = w
    BY DEF FrameInv, AllIn, Own
  <2>3. CASE At(w, "judge")
    <3>1. idesc[w].src = w /\ idesc[w] \in Frames
      BY <2>3 DEF FrameInv, Own, Addressed, At
    <3>2. InIqueue(w) = Append(iqueue[w], idesc[w])
      BY <2>1, <2>3, <3>1 DEF InIqueue
    <3> QED
      BY <2>1, <2>2, <3>1, <3>2
  <2>4. CASE ~ At(w, "judge")
    <3>1. InIqueue(w) = iqueue[w]
      BY <2>1, <2>4 DEF InIqueue
    <3> QED
      BY <2>2, <3>1
  <2> QED
    BY <2>3, <2>4
<1> QED
  BY <1>1, FrameInvariant, TypeCorrect, PTL

-----------------------------------------------------------------------------
(* Where the hardware buffers are. *)

\* The entries of the ingress rings that hold a frame, and the workers that
\* have a buffer in their hands.
Posted ==
  {x \in Workers \X (1 .. NotifEntries) : x[2] <= Len(iqueue[x[1]])}
Holders == {w \in Workers : pc[w] \in {"put", "judge"}}

LEMMA PlacesFinite ==
  /\ IsFiniteSet(Workers) /\ IsFiniteSet(1 .. NotifEntries)
  /\ Cardinality(1 .. NotifEntries) = NotifEntries
  /\ IsFiniteSet(Workers \X (1 .. NotifEntries))
  /\ Cardinality(Workers \X (1 .. NotifEntries))
       = Cardinality(Workers) * NotifEntries
  /\ IsFiniteSet(Posted) /\ Cardinality(Posted) \in Nat
  /\ IsFiniteSet(Holders) /\ Cardinality(Holders) \in Nat
  /\ Cardinality(Workers) \in Nat /\ NumBufs \in Nat
<1>1. IsFiniteSet(Workers) /\ NotifEntries \in Nat /\ EqueueEntries \in Nat
  BY WorkersAssumption, SizesAssumption
<1>2. /\ IsFiniteSet(1 .. NotifEntries)
      /\ Cardinality(1 .. NotifEntries) = NotifEntries
  <2>1. /\ IsFiniteSet(1 .. NotifEntries)
        /\ Cardinality(1 .. NotifEntries)
             = IF 1 > NotifEntries THEN 0 ELSE NotifEntries - 1 + 1
    BY <1>1, FS_Interval
  <2> QED
    BY <1>1, <2>1
<1>3. /\ IsFiniteSet(Workers \X (1 .. NotifEntries))
      /\ Cardinality(Workers \X (1 .. NotifEntries))
           = Cardinality(Workers) * NotifEntries
  BY <1>1, <1>2, FS_Product
<1>4. IsFiniteSet(Posted)
  <2>1. Posted \in SUBSET (Workers \X (1 .. NotifEntries))
    BY DEF Posted
  <2> QED
    BY <1>3, <2>1, FS_Subset
<1>5. IsFiniteSet(Holders)
  <2>1. Holders \in SUBSET Workers
    BY DEF Holders
  <2> QED
    BY <1>1, <2>1, FS_Subset
<1>6. /\ Cardinality(Posted) \in Nat /\ Cardinality(Holders) \in Nat
      /\ Cardinality(Workers) \in Nat
  BY <1>1, <1>4, <1>5, FS_CardinalityType
<1> QED
  BY <1>1, <1>2, <1>3, <1>4, <1>5, <1>6 DEF NumBufs

\* One frame more or less in a ring is one entry more or less.
LEMMA PostedMore ==
  ASSUME TypeOK, NEW w \in Workers, NEW f \in Frames,
         Len(iqueue[w]) < NotifEntries,
         iqueue' = [iqueue EXCEPT ![w] = Append(@, f)]
  PROVE  Cardinality(Posted') = Cardinality(Posted) + 1
<1> DEFINE n == Len(iqueue[w])
<1>1. /\ iqueue \in [Workers -> Seq(Frames)] /\ n \in Nat
      /\ NotifEntries \in Nat /\ n < NotifEntries
  BY SizesAssumption DEF TypeOK, NicTypeOK
<1>2. \A v \in Workers :
        Len(iqueue'[v]) = IF v = w THEN n + 1 ELSE Len(iqueue[v])
  BY <1>1
<1>3. \A v \in Workers : Len(iqueue[v]) \in Nat
  BY <1>1
<1> HIDE DEF n
<1>4. Posted' = {x \in Workers \X (1 .. NotifEntries) :
                   x[2] <= IF x[1] = w THEN n + 1 ELSE Len(iqueue[x[1]])}
  BY <1>2 DEF Posted
<1>5. Posted = {x \in Workers \X (1 .. NotifEntries) :
                  x[2] <= IF x[1] = w THEN n ELSE Len(iqueue[x[1]])}
  BY DEF Posted, n
<1>6. Posted' = Posted \cup {<<w, n + 1>>} /\ <<w, n + 1>> \notin Posted
  <2>1. ASSUME NEW x \in Workers \X (1 .. NotifEntries)
        PROVE  /\ x \in Posted' <=> x \in Posted \/ x = <<w, n + 1>>
               /\ x = <<w, n + 1>> => x \notin Posted
    <3>1. x[1] \in Workers /\ x[2] \in 1 .. NotifEntries /\ x = <<x[1], x[2]>>
      BY <2>1
    <3> QED
      BY <1>1, <1>4, <1>5, <3>1
  <2>2. <<w, n + 1>> \in Workers \X (1 .. NotifEntries)
    BY <1>1
  <2>3. /\ Posted \subseteq Workers \X (1 .. NotifEntries)
        /\ Posted' \subseteq Workers \X (1 .. NotifEntries)
    BY <1>4, <1>5
  <2> QED
    BY <2>1, <2>2, <2>3
<1> QED
  BY <1>6, PlacesFinite, FS_AddElement

LEMMA PostedLess ==
  ASSUME TypeOK, FrameInv, NEW w \in Workers, iqueue[w] # <<>>,
         iqueue' = [iqueue EXCEPT ![w] = Tail(@)]
  PROVE  Cardinality(Posted') = Cardinality(Posted) - 1
<1> DEFINE n == Len(iqueue[w])
<1>1. /\ iqueue \in [Workers -> Seq(Frames)] /\ n \in Nat /\ n >= 1
      /\ NotifEntries \in Nat /\ n <= NotifEntries
      /\ Len(Tail(iqueue[w])) = n - 1
  BY SizesAssumption DEF TypeOK, NicTypeOK, FrameInv
<1>2. \A v \in Workers :
        Len(iqueue'[v]) = IF v = w THEN n - 1 ELSE Len(iqueue[v])
  BY <1>1
<1> HIDE DEF n
<1>4. Posted' = {x \in Workers \X (1 .. NotifEntries) :
                   x[2] <= IF x[1] = w THEN n - 1 ELSE Len(iqueue[x[1]])}
  BY <1>2 DEF Posted
<1>5. Posted = {x \in Workers \X (1 .. NotifEntries) :
                  x[2] <= IF x[1] = w THEN n ELSE Len(iqueue[x[1]])}
  BY DEF Posted, n
<1>6. Posted' = Posted \ {<<w, n>>} /\ <<w, n>> \in Posted
  <2>1. ASSUME NEW x \in Workers \X (1 .. NotifEntries)
        PROVE  /\ x \in Posted' <=> x \in Posted /\ x # <<w, n>>
               /\ x = <<w, n>> => x \in Posted
    <3>1. x[1] \in Workers /\ x[2] \in 1 .. NotifEntries /\ x = <<x[1], x[2]>>
      BY <2>1
    <3> QED
      BY <1>1, <1>4, <1>5, <3>1
  <2>2. <<w, n>> \in Workers \X (1 .. NotifEntries)
    BY <1>1
  <2>3. /\ Posted \subseteq Workers \X (1 .. NotifEntries)
        /\ Posted' \subseteq Workers \X (1 .. NotifEntries)
    BY <1>4, <1>5
  <2> QED
    BY <2>1, <2>2, <2>3
<1> QED
  BY <1>6, PlacesFinite, FS_RemoveElement

\* What a step of worker w does to the set of those who hold a buffer.
LEMMA HoldersChange ==
  ASSUME NEW w \in Workers, Only(w)
  PROVE  /\ (w \in Holders <=> w \in Holders') => Holders' = Holders
         /\ w \notin Holders /\ w \in Holders'
              => Cardinality(Holders') = Cardinality(Holders) + 1
         /\ w \in Holders /\ w \notin Holders'
              => Cardinality(Holders') = Cardinality(Holders) - 1
<1>1. \A v \in Workers \ {w} : v \in Holders <=> v \in Holders'
  BY DEF Only, Holders
<1>2. Holders \subseteq Workers /\ Holders' \subseteq Workers
  BY DEF Holders
<1>3. w \notin Holders /\ w \in Holders' => Holders' = Holders \cup {w}
  BY <1>1, <1>2
<1>4. w \in Holders /\ w \notin Holders' => Holders' = Holders \ {w}
  BY <1>1, <1>2
<1>5. (w \in Holders <=> w \in Holders') => Holders' = Holders
  BY <1>1, <1>2
<1>6. IsFiniteSet(Holders)
  BY PlacesFinite
<1>7. /\ Cardinality(Holders \cup {w})
           = IF w \in Holders THEN Cardinality(Holders)
                              ELSE Cardinality(Holders) + 1
      /\ Cardinality(Holders \ {w})
           = IF w \in Holders THEN Cardinality(Holders) - 1
                              ELSE Cardinality(Holders)
  BY <1>6, FS_AddElement, FS_RemoveElement
<1> QED
  BY <1>3, <1>4, <1>5, <1>7

LEMMA BuffersInit == Init => HardwareBuffersConserved
<1> SUFFICES ASSUME Init PROVE HardwareBuffersConserved
  OBVIOUS
<1>1. Posted = {} /\ Holders = {}
  <2>1. ASSUME NEW x \in Workers \X (1 .. NotifEntries)
        PROVE  ~ (x[2] <= Len(iqueue[x[1]]))
    <3>1. iqueue[x[1]] = <<>> /\ x[2] \in 1 .. NotifEntries
      BY <2>1 DEF Init
    <3>2. Len(iqueue[x[1]]) = 0
      BY <3>1
    <3> QED
      BY <3>1, <3>2, SizesAssumption
  <2> QED
    BY <2>1 DEF Init, Posted, Holders
<1>2. stack = NumBufs /\ Len(egress) = 0 /\ NumBufs \in Nat
  BY PlacesFinite DEF Init
<1>3. Cardinality(Posted) = 0 /\ Cardinality(Holders) = 0
  BY <1>1, FS_EmptySet
<1> QED
  BY <1>2, <1>3 DEF HardwareBuffersConserved, Posted, Holders

LEMMA BuffersNext ==
  ASSUME RingInv, TypeOK, FrameInv, HardwareBuffersConserved, [Next]_vars
  PROVE  HardwareBuffersConserved'
<1> DEFINE e == Len(egress)
           p == Cardinality(Posted)
           h == Cardinality(Holders)
<1> SUFFICES ASSUME Running' PROVE stack' + e' + p' + h' = NumBufs
  BY DEF HardwareBuffersConserved, Posted, Holders
<1>1. Running
  BY NoSteps DEF vars, others, flags, Running
<1>2. stack + e + p + h = NumBufs
  BY <1>1 DEF HardwareBuffersConserved, Posted, Holders
<1>3. /\ stack \in Nat /\ egress \in Seq(Frames) /\ wire \in Seq(Frames)
      /\ iqueue \in [Workers -> Seq(Frames)]
      /\ e \in Nat /\ p \in Nat /\ h \in Nat /\ NumBufs \in Nat
  BY PlacesFinite DEF TypeOK, NicTypeOK
<1>4. CASE UNCHANGED <<worker, nic, fault, base>>
  <2>1. stack' = stack /\ e' = e /\ p' = p /\ h' = h
    BY <1>4 DEF worker, nic, Posted, Holders
  <2> QED
    BY <1>2, <2>1
<1>5. ASSUME NEW w \in Workers, Moves(w), Only(w)
      PROVE  stack' + e' + p' + h' = NumBufs
  <2>1. CASE Turn(w) \/ Missed(w)
    <3>1. w \notin Holders /\ w \notin Holders'
      BY <2>1 DEF Turn, Missed, Goes, Holders
    <3>2. stack' = stack /\ e' = e /\ p' = p
      BY <2>1 DEF Turn, Missed, nic, Posted
    <3>3. h' = h
      BY <1>5, <3>1, HoldersChange
    <3> QED
      BY <1>2, <3>2, <3>3
  <2>2. CASE Take(w)
    <3>1. w \notin Holders /\ w \in Holders'
      BY <2>2 DEF Take, Goes, Holders
    <3>2. stack' = stack - 1 /\ e' = e /\ p' = p
      BY <2>2 DEF Take, Posted
    <3>3. h' = h + 1
      BY <1>5, <3>1, HoldersChange
    <3> HIDE DEF e, p, h
    <3> QED
      BY <1>2, <1>3, <3>2, <3>3
  <2>3. CASE Put(w)
    <3>1. w \in Holders /\ w \notin Holders'
      BY <2>3 DEF Put, Goes, Holders
    <3>2. stack' = stack /\ p' = p
      BY <2>3 DEF Put, Posted
    <3>3. e' = e + 1
      BY <1>3, <2>3 DEF Put
    <3>4. h' = h - 1
      BY <1>5, <3>1, HoldersChange
    <3> HIDE DEF e, p, h
    <3> QED
      BY <1>2, <1>3, <3>2, <3>3, <3>4
  <2>4. CASE Get(w)
    <3>1. w \notin Holders /\ w \in Holders'
      BY <2>4 DEF Get, Goes, Holders
    <3>2. stack' = stack /\ e' = e
      BY <2>4 DEF Get
    <3>3. p' = p - 1
      BY <2>4, PostedLess DEF Get
    <3>4. h' = h + 1
      BY <1>5, <3>1, HoldersChange
    <3> HIDE DEF e, p, h
    <3> QED
      BY <1>2, <1>3, <3>2, <3>3, <3>4
  <2>5. CASE Passed(w)
    <3>1. w \in Holders /\ w \notin Holders'
      BY <2>5 DEF Passed, Goes, Holders
    <3>2. stack' = stack + 1 /\ e' = e /\ p' = p
      BY <2>5 DEF Passed, Posted
    <3>3. h' = h - 1
      BY <1>5, <3>1, HoldersChange
    <3> HIDE DEF e, p, h
    <3> QED
      BY <1>2, <1>3, <3>2, <3>3
  <2> QED
    BY <1>5, <2>1, <2>2, <2>3, <2>4, <2>5 DEF Moves
<1>6. CASE Sends
  <2>1. stack' = stack + 1 /\ p' = p /\ h' = h
    BY <1>6 DEF Sends, worker, Posted, Holders
  <2>2. e' = e - 1
    BY <1>3, <1>6 DEF Sends
  <2> HIDE DEF e, p, h
  <2> QED
    BY <1>2, <1>3, <2>1, <2>2
<1>7. ASSUME NEW w \in Workers, Drops(w)
      PROVE  stack' + e' + p' + h' = NumBufs
  <2>1. stack' = stack /\ e' = e /\ p' = p /\ h' = h
    BY <1>7 DEF Drops, worker, Posted, Holders
  <2> QED
    BY <1>2, <2>1
<1>8. ASSUME NEW w \in Workers, Lands(w)
      PROVE  stack' + e' + p' + h' = NumBufs
  <2>1. stack' = stack - 1 /\ e' = e /\ h' = h
    BY <1>8 DEF Lands, worker, Holders
  <2>2. PICK f \in Own(w) : iqueue' = [iqueue EXCEPT ![w] = Append(@, f)]
    BY <1>8 DEF Lands
  <2>3. f \in Frames
    BY DEF Own, Addressed
  <2>4. p' = p + 1
    BY <1>8, <2>2, <2>3, PostedMore DEF Lands
  <2> HIDE DEF e, p, h
  <2> QED
    BY <1>2, <1>3, <2>1, <2>4
<1> QED
  BY <1>1, <1>4, <1>5, <1>6, <1>7, <1>8, Steps, NetworkSteps

\* No hardware buffer is lost or returned twice, as long as the process runs.
THEOREM HardwareBuffersTheorem == Spec => []HardwareBuffersConserved
  BY BuffersInit, BuffersNext, RingInvariant, TypeCorrect, FrameInvariant, PTL
     DEF Spec

-----------------------------------------------------------------------------
(* Every frame that is not read back becomes a counted miss. *)

Losses(w) == fault[w]["lost"] + fault[w]["overflow"]
Misses(w) == Counted(w, "error_recv")

\* The frames of its batch that worker w has sent and not yet given up or read.
Due(w) ==
  CASE pc[w] \in {"send", "put"} -> i[w]
    [] pc[w] = "recv"  -> Once - i[w]
    [] pc[w] = "judge" -> Once - i[w] - 1
    [] OTHER -> 0

MissInv ==
  Running => \A w \in Workers : Losses(w) + Backlog(w) = Misses(w) + Due(w)

\* Without late frames a miss is counted for a loss only.
BoundInv ==
  Running /\ NobodyLate => \A w \in Workers : Misses(w) <= Losses(w)

\* The frames under way, in the words of SequenceCounts.
LEMMA SentCounts ==
  ASSUME NEW s \in Seq(Frames), AllIn(s, Addressed), NEW w \in Workers
  PROVE  /\ Cardinality(Sent(s, w)) = Count(s, Own(w))
         /\ Count(s, Own(w)) \in Nat
<1>1. Sent(s, w) = Hits(s, Own(w))
  BY DEF Sent, Hits, Own, AllIn
<1> QED
  BY <1>1, HitsFinite DEF Count

LEMMA BacklogAfter ==
  ASSUME TypeOK', FrameInv', NEW w \in Workers
  PROVE  Backlog(w)' = Count(egress', Own(w)) + Count(wire', Own(w))
                         + Len(iqueue'[w])
<1>1. egress' \in Seq(Frames) /\ wire' \in Seq(Frames)
      /\ AllIn(egress', Addressed) /\ AllIn(wire', Addressed)
  BY DEF TypeOK, NicTypeOK, FrameInv
<1>2. /\ Cardinality(Sent(egress', w)) = Count(egress', Own(w))
      /\ Cardinality(Sent(wire', w)) = Count(wire', Own(w))
  BY <1>1, SentCounts
<1> QED
  BY <1>2 DEF Backlog, UnderWay

LEMMA UnderWayCounts ==
  ASSUME TypeOK, FrameInv, NEW w \in Workers
  PROVE  /\ UnderWay(w) = Count(egress, Own(w)) + Count(wire, Own(w))
         /\ Count(egress, Own(w)) \in Nat /\ Count(wire, Own(w)) \in Nat
         /\ Backlog(w) = UnderWay(w) + Len(iqueue[w])
         /\ UnderWay(w) \in Nat /\ Len(iqueue[w]) \in Nat
         /\ wire # <<>> /\ Head(wire) \in Own(w) => UnderWay(w) >= 1
<1>1. egress \in Seq(Frames) /\ wire \in Seq(Frames)
      /\ iqueue[w] \in Seq(Frames)
  BY DEF TypeOK, NicTypeOK
<1>2. /\ Cardinality(Sent(egress, w)) = Count(egress, Own(w))
      /\ Cardinality(Sent(wire, w)) = Count(wire, Own(w))
  BY <1>1, SentCounts DEF FrameInv
<1>3. Count(egress, Own(w)) \in Nat /\ Count(wire, Own(w)) \in Nat
  BY <1>1, HitsFinite
<1>4. Len(iqueue[w]) \in Nat
  BY <1>1
<1>5. UnderWay(w) = Count(egress, Own(w)) + Count(wire, Own(w))
  BY <1>2 DEF UnderWay
<1>6. ASSUME wire # <<>>, Head(wire) \in Own(w)
      PROVE  Count(wire, Own(w)) >= 1
  <2>1. Count(wire, Own(w)) = Count(Tail(wire), Own(w)) + 1
    BY <1>1, <1>6, CountTail DEF One
  <2>2. Count(Tail(wire), Own(w)) \in Nat
    <3>1. Tail(wire) \in Seq(Frames)
      BY <1>1, <1>6
    <3> QED
      BY <3>1, HitsFinite
  <2> QED
    BY <2>1, <2>2
<1> QED
  BY <1>3, <1>4, <1>5, <1>6 DEF Backlog

LEMMA LedgerTypes ==
  ASSUME RingInv, TypeOK, FrameInv, NEW w \in Workers
  PROVE  /\ Losses(w) \in Nat /\ Misses(w) \in Int /\ Backlog(w) \in Nat
         /\ Due(w) \in Int
<1>1. Losses(w) \in Nat /\ Misses(w) \in Int
  <2>1. /\ fault[w] \in [FaultKinds -> Nat]
        /\ count[w] \in [Counters -> Nat] /\ base[w] \in [Counters -> Nat]
    BY DEF TypeOK, WorkerTypeOK, NicTypeOK
  <2>2. /\ fault[w]["lost"] \in Nat /\ fault[w]["overflow"] \in Nat
        /\ count[w]["error_recv"] \in Nat /\ base[w]["error_recv"] \in Nat
    BY <2>1 DEF FaultKinds, Counters
  <2> QED
    BY <2>2 DEF Losses, Misses, Counted
<1>2. Backlog(w) \in Nat
  BY UnderWayCounts
<1>3. i[w] \in 0 .. Once /\ Once \in Nat
  BY OnceAssumption DEF TypeOK, WorkerTypeOK
<1> QED
  BY <1>1, <1>2, <1>3 DEF Due

\* The verdict on a frame that came back is no miss.
LEMMA VerdictNoMiss ==
  ASSUME TypeOK, NEW w \in Workers
  PROVE  AfterData(w)["error_recv"] = count[w]["error_recv"]
<1>1. count[w] \in [Counters -> Nat]
  BY DEF TypeOK, WorkerTypeOK
<1>2. ASSUME NEW c \in [Counters -> Nat],
             NEW k \in {"error_len", "correct_len", "error_data", "correct_data"}
      PROVE  /\ Bump(c, k) \in [Counters -> Nat]
             /\ Bump(c, k)["error_recv"] = c["error_recv"]
  BY DEF Bump, Counters
<1>3. /\ AfterLength(w) \in [Counters -> Nat]
      /\ AfterLength(w)["error_recv"] = count[w]["error_recv"]
  BY <1>1, <1>2 DEF AfterLength
<1> QED
  BY <1>2, <1>3 DEF AfterData

\* What a step does to the account of worker v.
Kept(v) ==
  /\ Losses(v)' = Losses(v) /\ Misses(v)' = Misses(v)
  /\ Backlog(v)' - Due(v)' = Backlog(v) - Due(v)

Lost(v) ==
  /\ Losses(v)' = Losses(v) + 1 /\ Misses(v)' = Misses(v)
  /\ Backlog(v)' = Backlog(v) - 1 /\ Due(v)' = Due(v)

GaveUp(v) ==
  /\ Losses(v)' = Losses(v) /\ Misses(v)' = Misses(v) + 1
  /\ Backlog(v)' = Backlog(v) /\ Due(v)' = Due(v) - 1
  /\ Due(v) >= 1 /\ (Backlog(v) = 0 \/ ~ NobodyLate')

\* A step of worker w, on the account of another.
LEMMA OthersKept ==
  ASSUME RingInv, TypeOK, FrameInv, NEW w \in Workers, Moves(w), Only(w),
         FrameInv', TypeOK', NEW v \in Workers \ {w}
  PROVE  Kept(v)
<1>1. /\ egress \in Seq(Frames) /\ iqueue \in [Workers -> Seq(Frames)]
      /\ fault \in [Workers -> [FaultKinds -> Nat]]
  BY DEF TypeOK, NicTypeOK
<1>2. base' = base /\ wire' = wire
  BY DEF Moves, Turn, Take, Put, Get, Passed, Missed, nic
<1>3. Misses(v)' = Misses(v) /\ Due(v)' = Due(v)
  BY <1>2 DEF Only, Misses, Counted, Due
<1>4. Losses(v)' = Losses(v)
  <2>1. fault'[v] = fault[v]
    BY <1>1 DEF Moves, Turn, Take, Put, Get, Passed, Missed, Expired
  <2> QED
    BY <2>1 DEF Losses
<1>5. iqueue'[v] = iqueue[v]
  BY <1>1 DEF Moves, Turn, Take, Put, Get, Passed, Missed, nic
<1>6. Count(egress', Own(v)) = Count(egress, Own(v))
  <2>1. CASE egress' = egress
    BY <2>1
  <2>2. CASE egress' = Append(egress, FrameOf(w))
    <3>1. FrameOf(w) \in Frames /\ FrameOf(w) \notin Own(v)
      BY FrameType DEF TypeOK, FrameOf, Own
    <3>2. One(FrameOf(w), Own(v)) = 0
      BY <3>1 DEF One
    <3>3. Count(Append(egress, FrameOf(w)), Own(v)) = Count(egress, Own(v)) + 0
      BY <1>1, <3>1, <3>2, CountAppend
    <3>4. Count(egress, Own(v)) \in Nat
      BY <1>1, HitsFinite
    <3> QED
      BY <2>2, <3>3, <3>4
  <2> QED
    BY <2>1, <2>2 DEF Moves, Turn, Take, Put, Get, Passed, Missed, nic
<1>7. /\ UnderWay(v) = Count(egress, Own(v)) + Count(wire, Own(v))
      /\ Backlog(v) = UnderWay(v) + Len(iqueue[v])
  BY UnderWayCounts
<1>8. Backlog(v)' = Count(egress', Own(v)) + Count(wire', Own(v))
                      + Len(iqueue'[v])
  BY BacklogAfter
<1> QED
  BY <1>2, <1>3, <1>4, <1>5, <1>6, <1>7, <1>8 DEF Kept

\* A step of worker w, on its own account.
LEMMA OwnAccount ==
  ASSUME RingInv, TypeOK, FrameInv, NEW w \in Workers, Moves(w),
         FrameInv', TypeOK'
  PROVE  Kept(w) \/ GaveUp(w)
<1> DEFINE E == Count(egress, Own(w))
           W == Count(wire, Own(w))
           Q == Len(iqueue[w])
<1>1. /\ egress \in Seq(Frames) /\ iqueue \in [Workers -> Seq(Frames)]
      /\ fault \in [Workers -> [FaultKinds -> Nat]]
      /\ count[w] \in [Counters -> Nat] /\ base[w] \in [Counters -> Nat]
      /\ i[w] \in 0 .. Once /\ Once \in Nat /\ i[w] \in Nat
  BY OnceAssumption DEF TypeOK, NicTypeOK, WorkerTypeOK
<1>2. /\ E \in Nat /\ W \in Nat /\ Q \in Nat
      /\ UnderWay(w) = E + W /\ Backlog(w) = UnderWay(w) + Q
  BY UnderWayCounts
<1>3. Backlog(w)' = Count(egress', Own(w)) + Count(wire', Own(w))
                      + Len(iqueue'[w])
  BY BacklogAfter
<1>4. base' = base
  BY DEF Moves, Turn, Take, Put, Get, Passed, Missed
<1>5. CASE Turn(w)
  <2>1. Backlog(w)' = Backlog(w)
    BY <1>5 DEF Turn, nic, Backlog, UnderWay, Sent
  <2>2. Losses(w)' = Losses(w) /\ Misses(w)' = Misses(w)
    BY <1>5 DEF Turn, Losses, Misses, Counted
  <2>3. Due(w)' = Due(w)
    BY <1>1, <1>5 DEF Turn, Goes, Due
  <2> QED
    BY <2>1, <2>2, <2>3 DEF Kept
<1>6. CASE Take(w)
  <2>1. Backlog(w)' = Backlog(w)
    BY <1>6 DEF Take, Backlog, UnderWay, Sent
  <2>2. Losses(w)' = Losses(w) /\ Misses(w)' = Misses(w)
    BY <1>6 DEF Take, Losses, Misses, Counted
  <2>3. Due(w)' = Due(w)
    BY <1>6 DEF Take, Goes, Due
  <2> QED
    BY <2>1, <2>2, <2>3 DEF Kept
<1>7. CASE Put(w)
  <2>1. FrameOf(w) \in Own(w) /\ FrameOf(w) \in Frames
    BY FrameType DEF TypeOK, FrameOf, Own, Addressed
  <2>2. Count(egress', Own(w)) = E + 1
    BY <1>1, <1>7, <2>1, CountAppend DEF Put, One
  <2>3. Count(wire', Own(w)) = W /\ Len(iqueue'[w]) = Q
    BY <1>7 DEF Put
  <2>4. Losses(w)' = Losses(w) /\ Misses(w)' = Misses(w)
    BY <1>7 DEF Put, Losses, Misses, Counted
  <2>5. Due(w) = i[w] /\ Due(w)' = i[w] + 1
    BY <1>7 DEF Put, Goes, Due
  <2> HIDE DEF E, W, Q
  <2>6. Backlog(w)' - Due(w)' = Backlog(w) - Due(w)
    BY <1>1, <1>2, <1>3, <2>2, <2>3, <2>5
  <2> QED
    BY <2>4, <2>6 DEF Kept
<1>8. CASE Get(w)
  <2>1. Len(iqueue'[w]) = Q - 1
    <3>1. iqueue'[w] = Tail(iqueue[w]) /\ iqueue[w] # <<>>
          /\ iqueue[w] \in Seq(Frames)
      BY <1>1, <1>8 DEF Get
    <3> QED
      BY <3>1
  <2>2. Count(egress', Own(w)) = E /\ Count(wire', Own(w)) = W
    BY <1>8 DEF Get
  <2>3. Losses(w)' = Losses(w) /\ Misses(w)' = Misses(w)
    BY <1>8 DEF Get, Losses, Misses, Counted
  <2>4. Due(w) = Once - i[w] /\ Due(w)' = Once - i[w] - 1
    BY <1>8 DEF Get, Goes, Due
  <2> HIDE DEF E, W, Q
  <2>5. Backlog(w)' - Due(w)' = Backlog(w) - Due(w)
    BY <1>1, <1>2, <1>3, <2>1, <2>2, <2>4
  <2> QED
    BY <2>3, <2>5 DEF Kept
<1>9. CASE Passed(w)
  <2>1. Backlog(w)' = Backlog(w)
    BY <1>9 DEF Passed, Backlog, UnderWay, Sent
  <2>2. Losses(w)' = Losses(w) /\ Misses(w)' = Misses(w)
    BY <1>9, VerdictNoMiss DEF Passed, Losses, Misses, Counted
  <2>3. Due(w) = Once - i[w] - 1 /\ Due(w)' = Once - (i[w] + 1)
    BY <1>9 DEF Passed, Goes, Due
  <2>4. Due(w)' = Due(w)
    BY <1>1, <2>3
  <2> QED
    BY <2>1, <2>2, <2>4 DEF Kept
<1>10. CASE Missed(w)
  <2>1. Backlog(w)' = Backlog(w)
    BY <1>10 DEF Missed, nic, Backlog, UnderWay, Sent
  <2>2. Losses(w)' = Losses(w)
    <3>1. /\ fault'[w]["lost"] = fault[w]["lost"]
          /\ fault'[w]["overflow"] = fault[w]["overflow"]
      BY <1>1, <1>10 DEF Missed, Expired, Bump, FaultKinds
    <3> QED
      BY <3>1 DEF Losses
  <2>3. Misses(w)' = Misses(w) + 1
    <3>1. count'[w]["error_recv"] = count[w]["error_recv"] + 1
      BY <1>1, <1>10 DEF Missed, CountMiss, Bump, Counters
    <3>2. count[w]["error_recv"] \in Nat /\ base[w]["error_recv"] \in Nat
      BY <1>1 DEF Counters
    <3> QED
      BY <1>4, <3>1, <3>2 DEF Misses, Counted
  <2>4. /\ Due(w) = Once - i[w] /\ Due(w)' = Once - (i[w] + 1)
        /\ i[w] < Once
    BY <1>10 DEF Missed, Goes, Due
  <2>5. Due(w)' = Due(w) - 1 /\ Due(w) >= 1
    BY <1>1, <2>4
  <2>6. ASSUME NobodyLate' PROVE Backlog(w) = 0
    <3>1. Q = 0
      BY <1>10 DEF Missed, Expired
    <3>2. ~ (UnderWay(w) > 0)
      <4>1. ASSUME UnderWay(w) > 0 PROVE FALSE
        <5>1. fault'[w]["late"] = fault[w]["late"] + 1
          BY <1>1, <1>10, <4>1 DEF Missed, Expired, Bump, FaultKinds
        <5>2. fault[w]["late"] \in Nat
          BY <1>1 DEF FaultKinds
        <5> QED
          BY <2>6, <5>1, <5>2 DEF NobodyLate
      <4> QED
        BY <4>1
    <3> HIDE DEF E, W, Q
    <3> QED
      BY <1>2, <3>1, <3>2
  <2> QED
    BY <2>1, <2>2, <2>3, <2>5, <2>6 DEF GaveUp
<1> QED
  BY <1>5, <1>6, <1>7, <1>8, <1>9, <1>10 DEF Moves

\* A step of the network, on every account.
LEMMA NetworkAccount ==
  ASSUME TypeOK, FrameInv, FrameInv', TypeOK', NEW v \in Workers,
         Sends \/ \E w \in Workers : Lands(w) \/ Drops(w)
  PROVE  Kept(v) \/ Lost(v)
<1> DEFINE E == Count(egress, Own(v))
           W == Count(wire, Own(v))
           Q == Len(iqueue[v])
<1>1. /\ egress \in Seq(Frames) /\ wire \in Seq(Frames)
      /\ iqueue \in [Workers -> Seq(Frames)]
      /\ fault \in [Workers -> [FaultKinds -> Nat]]
  BY DEF TypeOK, NicTypeOK
<1>2. /\ E \in Nat /\ W \in Nat /\ Q \in Nat
      /\ UnderWay(v) = E + W /\ Backlog(v) = UnderWay(v) + Q
  BY UnderWayCounts
<1>3. Backlog(v)' = Count(egress', Own(v)) + Count(wire', Own(v))
                      + Len(iqueue'[v])
  BY BacklogAfter
<1>4. Misses(v)' = Misses(v) /\ Due(v)' = Due(v)
  BY DEF Sends, Lands, Drops, worker, Misses, Counted, Due
<1>5. ASSUME NEW s \in Seq(Frames), s # <<>>
      PROVE  /\ Count(s, Own(v)) = Count(Tail(s), Own(v)) + One(Head(s), Own(v))
             /\ Count(Tail(s), Own(v)) \in Nat
             /\ One(Head(s), Own(v)) \in {0, 1}
             /\ Head(s) \in Frames
  <2>1. Tail(s) \in Seq(Frames) /\ Head(s) \in Frames
    BY <1>5
  <2> QED
    BY <1>5, <2>1, CountTail, HitsFinite DEF One
<1>6. CASE Sends
  <2>1. /\ E = Count(egress', Own(v)) + One(Head(egress), Own(v))
        /\ Count(egress', Own(v)) \in Nat
        /\ One(Head(egress), Own(v)) \in {0, 1} /\ Head(egress) \in Frames
    BY <1>1, <1>5, <1>6 DEF Sends
  <2>2. Count(wire', Own(v)) = W + One(Head(egress), Own(v))
    BY <1>1, <1>6, <2>1, CountAppend DEF Sends
  <2>3. Len(iqueue'[v]) = Q /\ Losses(v)' = Losses(v)
    BY <1>6 DEF Sends, Losses
  <2> HIDE DEF E, W, Q
  <2>4. Backlog(v)' = Backlog(v)
    BY <1>2, <1>3, <2>1, <2>2, <2>3
  <2> QED
    BY <1>4, <2>3, <2>4 DEF Kept
<1>7. ASSUME NEW w \in Workers, Lands(w) \/ Drops(w)
      PROVE  Kept(v) \/ Lost(v)
  <2>1. /\ W = Count(wire', Own(v)) + One(Head(wire), Own(v))
        /\ Count(wire', Own(v)) \in Nat
    BY <1>1, <1>5, <1>7 DEF Lands, Drops
  <2>2. One(Head(wire), Own(v)) = IF v = w THEN 1 ELSE 0
    BY <1>7 DEF Lands, Drops, Own, One
  <2>3. Count(egress', Own(v)) = E
    BY <1>7 DEF Lands, Drops
  <2>4. CASE Lands(w)
    <3>1. Losses(v)' = Losses(v)
      BY <2>4 DEF Lands, Losses
    <3>2. Len(iqueue'[v]) = IF v = w THEN Q + 1 ELSE Q
      BY <1>1, <2>4 DEF Lands
    <3> HIDE DEF E, W, Q
    <3>3. Backlog(v)' = Backlog(v)
      BY <1>2, <1>3, <2>1, <2>2, <2>3, <3>2
    <3> QED
      BY <1>4, <3>1, <3>3 DEF Kept
  <2>5. CASE Drops(w)
    <3>1. Losses(v)' = IF v = w THEN Losses(v) + 1 ELSE Losses(v)
      <4>1. PICK k \in {"lost", "overflow"} :
              fault' = [fault EXCEPT ![w] = Bump(@, k)]
        BY <2>5 DEF Drops
      <4>2. /\ fault[v] \in [FaultKinds -> Nat]
            /\ fault'[v] = IF v = w THEN Bump(fault[v], k) ELSE fault[v]
        BY <1>1, <4>1
      <4>3. fault[v]["lost"] \in Nat /\ fault[v]["overflow"] \in Nat
        BY <4>2 DEF FaultKinds
      <4>4. CASE k = "lost"
        BY <4>2, <4>3, <4>4 DEF Losses, Bump, FaultKinds
      <4>5. CASE k = "overflow"
        BY <4>2, <4>3, <4>5 DEF Losses, Bump, FaultKinds
      <4> QED
        BY <4>4, <4>5
    <3>2. Len(iqueue'[v]) = Q
      BY <2>5 DEF Drops
    <3> HIDE DEF E, W, Q
    <3>3. Backlog(v)' = IF v = w THEN Backlog(v) - 1 ELSE Backlog(v)
      BY <1>2, <1>3, <2>1, <2>2, <2>3, <3>2
    <3> QED
      BY <1>4, <3>1, <3>3 DEF Kept, Lost
  <2> QED
    BY <1>7, <2>4, <2>5
<1> QED
  BY <1>6, <1>7

\* Every step of the running process, on every account.
LEMMA Ledger ==
  ASSUME RingInv, TypeOK, FrameInv, Running, Running', [Next]_vars,
         FrameInv', TypeOK', NEW v \in Workers
  PROVE  Kept(v) \/ Lost(v) \/ GaveUp(v)
<1>1. ASSUME NEW w \in Workers, Moves(w), Only(w)
      PROVE  Kept(v) \/ GaveUp(v)
  <2>1. CASE v = w
    BY <1>1, <2>1, OwnAccount
  <2>2. CASE v # w
    BY <1>1, <2>2, OthersKept
  <2> QED
    BY <2>1, <2>2
<1>2. CASE Network
  BY <1>2, NetworkSteps, NetworkAccount
<1>3. CASE UNCHANGED <<worker, nic, fault, base>>
  BY <1>3 DEF worker, nic, Kept, Losses, Misses, Counted, Backlog, UnderWay,
              Sent, Due
<1> QED
  BY <1>1, <1>2, <1>3, Steps

LEMMA MissInit == Init => MissInv /\ BoundInv
<1> SUFFICES ASSUME Init, NEW w \in Workers
             PROVE  /\ Losses(w) + Backlog(w) = Misses(w) + Due(w)
                    /\ Misses(w) <= Losses(w)
  BY DEF MissInv, BoundInv
<1>1. Losses(w) = 0
  BY DEF Init, Losses, FaultKinds
<1>2. count[w] \in [Counters -> Nat] /\ base = count
  BY GarbageAssumption DEF Init
<1>3. Misses(w) = 0
  <2>1. count[w]["error_recv"] \in Nat
    BY <1>2 DEF Counters
  <2> QED
    BY <1>2, <2>1 DEF Misses, Counted
<1>4. Due(w) = 0
  BY DEF Init, Due
<1>5. Backlog(w) = 0
  <2>1. Cardinality(Sent(<<>>, w)) = 0
    <3>1. Sent(<<>>, w) = {}
      BY DEF Sent
    <3> QED
      BY <3>1, FS_EmptySet
  <2>2. egress = <<>> /\ wire = <<>> /\ Len(iqueue[w]) = 0
    BY DEF Init
  <2> QED
    BY <2>1, <2>2 DEF Backlog, UnderWay
<1> QED
  BY <1>1, <1>3, <1>4, <1>5

LEMMA MissNext ==
  ASSUME RingInv, TypeOK, FrameInv, MissInv, [Next]_vars,
         RingInv', FrameInv', TypeOK'
  PROVE  MissInv'
<1> SUFFICES ASSUME Running', NEW v \in Workers
             PROVE  Losses(v)' + Backlog(v)' = Misses(v)' + Due(v)'
  BY DEF MissInv
<1>1. Running
  BY NoSteps DEF vars, others, flags, Running
<1>2. Losses(v) + Backlog(v) = Misses(v) + Due(v)
  BY <1>1 DEF MissInv
<1>3. /\ Losses(v) \in Nat /\ Misses(v) \in Int /\ Backlog(v) \in Nat
      /\ Due(v) \in Int
  BY LedgerTypes
<1>4. Backlog(v)' \in Nat /\ Due(v)' \in Int
  <2>1. /\ egress' \in Seq(Frames) /\ wire' \in Seq(Frames)
        /\ iqueue'[v] \in Seq(Frames)
    BY DEF TypeOK, NicTypeOK
  <2>2. /\ Count(egress', Own(v)) \in Nat /\ Count(wire', Own(v)) \in Nat
        /\ Len(iqueue'[v]) \in Nat
    BY <2>1, HitsFinite
  <2>3. i'[v] \in 0 .. Once /\ Once \in Nat
    BY OnceAssumption DEF TypeOK, WorkerTypeOK
  <2>4. Backlog(v)' = Count(egress', Own(v)) + Count(wire', Own(v))
                        + Len(iqueue'[v])
    BY BacklogAfter
  <2> QED
    BY <2>2, <2>3, <2>4 DEF Due
<1>5. Kept(v) \/ Lost(v) \/ GaveUp(v)
  BY <1>1, Ledger
<1>6. CASE Kept(v)
  BY <1>2, <1>3, <1>4, <1>6 DEF Kept
<1>7. CASE Lost(v)
  BY <1>2, <1>3, <1>7 DEF Lost
<1>8. CASE GaveUp(v)
  BY <1>2, <1>3, <1>8 DEF GaveUp
<1> QED
  BY <1>5, <1>6, <1>7, <1>8

\* The account is balanced at every place of the program.
THEOREM MissInvariant == Spec => []MissInv
<1>1. /\ Init => MissInv
      /\ RingInv /\ TypeOK /\ FrameInv /\ MissInv /\ [Next]_vars
           /\ RingInv' /\ TypeOK' /\ FrameInv' => MissInv'
  BY MissInit, MissNext
<1> QED
  BY <1>1, RingInvariant, TypeCorrect, FrameInvariant, PTL DEF Spec

\* Between two batches the misses are the frames lost and those not read yet:
\* no loss goes unnoticed, and a backlog stays.
THEOREM MissesAccountedTheorem == Spec => []MissesAccounted
<1>1. RingInv /\ TypeOK /\ FrameInv /\ MissInv => MissesAccounted
  <2> SUFFICES ASSUME RingInv, TypeOK, FrameInv, MissInv, Running,
                      NEW w \in Workers, pc[w] \in {"test", "done"}
               PROVE  Misses(w) = Losses(w) + Backlog(w)
    BY DEF MissesAccounted, Misses, Losses
  <2>1. Due(w) = 0
    BY DEF Due
  <2>2. Losses(w) + Backlog(w) = Misses(w) + Due(w)
    BY DEF MissInv
  <2> QED
    BY <2>1, <2>2, LedgerTypes
<1> QED
  BY <1>1, RingInvariant, TypeCorrect, FrameInvariant, MissInvariant, PTL

-----------------------------------------------------------------------------
(* The sizes init_mpipe_equeue computes are enough. *)

\* Who has been late stays late.
LEMMA LateStays ==
  ASSUME RingInv, TypeOK, FrameInv, [Next]_vars, NobodyLate', TypeOK'
  PROVE  NobodyLate
<1> SUFFICES ASSUME NEW v \in Workers PROVE fault[v]["late"] = 0
  BY DEF NobodyLate
<1>1. fault \in [Workers -> [FaultKinds -> Nat]]
  BY DEF TypeOK, NicTypeOK
<1>2. fault'[v]["late"] = 0
  BY DEF NobodyLate
<1>3. fault[v]["late"] \in Nat
  BY <1>1 DEF FaultKinds
<1>4. CASE fault' = fault
  BY <1>2, <1>4
<1>5. CASE Stop
  <2>1. fault'[v]["late"] >= fault[v]["late"]
    BY <1>5 DEF Stop
  <2> QED
    BY <1>2, <1>3, <2>1
<1>6. ASSUME NEW w \in Workers, Missed(w), fault' # fault
      PROVE  fault[v]["late"] = 0
  <2>1. fault' = [fault EXCEPT ![w] = Bump(@, "late")]
    BY <1>6 DEF Missed, Expired
  <2>2. fault'[v]["late"] = fault[v]["late"]
          \/ fault'[v]["late"] = fault[v]["late"] + 1
    BY <1>1, <2>1 DEF Bump, FaultKinds
  <2> QED
    BY <1>2, <1>3, <2>2
<1>7. ASSUME NEW w \in Workers, Moves(w)
      PROVE  fault' = fault \/ Missed(w)
  BY <1>7 DEF Moves, Turn, Take, Put, Get, Passed
<1>8. ASSUME NEW w \in Workers, Lands(w) \/ Drops(w)
      PROVE  fault[v]["late"] = 0
  <2>1. fault'[v]["late"] = fault[v]["late"]
    BY <1>1, <1>8 DEF Lands, Drops, Bump, FaultKinds
  <2> QED
    BY <1>2, <2>1
<1>9. CASE Sends
  BY <1>4, <1>9 DEF Sends
<1>10. CASE ~ Running
  <2>1. fault' = fault
    BY <1>10, NoSteps DEF vars, others
  <2> QED
    BY <1>4, <2>1
<1>11. CASE Running
  BY <1>4, <1>5, <1>6, <1>7, <1>8, <1>9, <1>11, Steps, NetworkSteps
<1> QED
  BY <1>10, <1>11

LEMMA BoundNext ==
  ASSUME RingInv, TypeOK, FrameInv, MissInv, BoundInv, [Next]_vars,
         RingInv', FrameInv', TypeOK'
  PROVE  BoundInv'
<1> SUFFICES ASSUME Running', NobodyLate', NEW v \in Workers
             PROVE  Misses(v)' <= Losses(v)'
  BY DEF BoundInv
<1>1. Running /\ NobodyLate
  BY NoSteps, LateStays DEF vars, others, flags, Running
<1>2. /\ Losses(v) + Backlog(v) = Misses(v) + Due(v)
      /\ Misses(v) <= Losses(v)
  BY <1>1 DEF MissInv, BoundInv
<1>3. /\ Losses(v) \in Nat /\ Misses(v) \in Int /\ Backlog(v) \in Nat
      /\ Due(v) \in Int
  BY LedgerTypes
<1>4. Kept(v) \/ Lost(v) \/ GaveUp(v)
  BY <1>1, Ledger
<1> QED
  BY <1>2, <1>3, <1>4 DEF Kept, Lost, GaveUp

THEOREM BoundInvariant == Spec => []BoundInv
<1>1. /\ Init => BoundInv
      /\ RingInv /\ TypeOK /\ FrameInv /\ MissInv /\ BoundInv /\ [Next]_vars
           /\ RingInv' /\ TypeOK' /\ FrameInv' => BoundInv'
  BY MissInit, BoundNext
<1> QED
  BY <1>1, RingInvariant, TypeCorrect, FrameInvariant, MissInvariant, PTL
     DEF Spec

\* What a worker has in its ring and in its hands is part of one batch.
LEMMA RingWithinBatch ==
  ASSUME RingInv, TypeOK, FrameInv, MissInv, BoundInv, Running, NobodyLate,
         NEW w \in Workers
  PROVE  /\ Len(iqueue[w]) + UnderWay(w) + (IF w \in Holders THEN 1 ELSE 0)
              <= Once
         /\ pc[w] = "send" /\ i[w] < Once =>
              Len(iqueue[w]) < Once /\ w \notin Holders
         /\ Len(iqueue[w]) \in Nat /\ UnderWay(w) \in Nat /\ Once \in Nat
<1>1. /\ Backlog(w) = UnderWay(w) + Len(iqueue[w])
      /\ UnderWay(w) \in Nat /\ Len(iqueue[w]) \in Nat
  BY UnderWayCounts
<1>2. /\ Losses(w) \in Nat /\ Misses(w) \in Int /\ Due(w) \in Int
      /\ Losses(w) + Backlog(w) = Misses(w) + Due(w)
      /\ Misses(w) <= Losses(w)
  BY LedgerTypes DEF MissInv, BoundInv
<1>3. UnderWay(w) + Len(iqueue[w]) <= Due(w)
  BY <1>1, <1>2
<1>4. /\ Once \in Nat /\ i[w] \in 0 .. Once
      /\ pc[w] \in {"put", "judge"} => i[w] < Once
  BY RingFacts DEF PacketsSplit
<1>5. /\ Due(w) <= Once
      /\ w \in Holders => Due(w) <= Once - 1
      /\ pc[w] = "send" => Due(w) = i[w] /\ w \notin Holders
  BY <1>4 DEF Due, Holders
<1> QED
  BY <1>1, <1>2, <1>3, <1>4, <1>5

\* While one entry of a ring is free, so is a hardware buffer: with the frames
\* of the egress queue and of all the rings the stack is used up.
LEMMA StackNotEmpty ==
  ASSUME RingInv, TypeOK, FrameInv, MissInv, BoundInv, Running, NobodyLate,
         HardwareBuffersConserved, Once <= NotifEntries, NEW w \in Workers,
         Len(iqueue[w]) + (IF w \in Holders THEN 1 ELSE 0) < Once
  PROVE  Len(iqueue[w]) < NotifEntries /\ stack > 0
<1> DEFINE All == Workers \X (1 .. NotifEntries)
           Held == Holders \X {NotifEntries}
           spare == <<w, Len(iqueue[w]) + 1>>
           p == Cardinality(Posted)
           h == Cardinality(Holders)
           e == Len(egress)
           n == Cardinality(Workers) * NotifEntries
<1>1. /\ NotifEntries \in Nat /\ Once \in Nat /\ EqueueEntries \in Nat
      /\ e \in Nat /\ stack \in Nat
  BY OnceAssumption, SizesAssumption DEF TypeOK, NicTypeOK
<1>2. /\ IsFiniteSet(All) /\ Cardinality(All) = n
      /\ IsFiniteSet(Posted) /\ IsFiniteSet(Holders)
      /\ p \in Nat /\ h \in Nat /\ n \in Nat
  BY PlacesFinite, FS_CardinalityType
<1>3. ASSUME NEW v \in Workers
      PROVE  /\ Len(iqueue[v]) \in Nat
             /\ v \in Holders => Len(iqueue[v]) < NotifEntries
  BY <1>1, RingWithinBatch
<1>room. /\ Len(iqueue[w]) \in Nat /\ Len(iqueue[w]) < NotifEntries
         /\ w \in Holders => Len(iqueue[w]) + 1 < NotifEntries
  <2>1. CASE w \in Holders
    <3>1. Len(iqueue[w]) + 1 < Once
      BY <2>1
    <3> QED
      BY <1>1, <1>3, <3>1
  <2>2. CASE w \notin Holders
    <3>1. Len(iqueue[w]) + 0 < Once
      BY <2>2
    <3> QED
      BY <1>1, <1>3, <2>2, <3>1
  <2> QED
    BY <2>1, <2>2
<1>4. IsFiniteSet(Held) /\ Cardinality(Held) = h
  <2>1. IsFiniteSet({NotifEntries}) /\ Cardinality({NotifEntries}) = 1
    BY FS_Singleton
  <2>2. /\ IsFiniteSet(Held)
        /\ Cardinality(Held)
             = Cardinality(Holders) * Cardinality({NotifEntries})
    BY <1>2, <2>1, FS_Product
  <2>3. Cardinality(Held) = h * 1
    BY <2>1, <2>2
  <2> HIDE DEF h, Held
  <2> QED
    BY <1>2, <2>2, <2>3
<1>5. Posted \cap Held = {}
  BY <1>1, <1>3 DEF Posted
<1>6. Posted \cup Held \subseteq All
  <2>1. ASSUME NEW x \in Held PROVE x \in All
    <3>1. /\ x = <<x[1], x[2]>> /\ x[1] \in Holders /\ x[2] = NotifEntries
          /\ x[1] \in Workers
      BY <2>1 DEF Holders
    <3>2. NotifEntries \in 1 .. NotifEntries
      BY <1>1, <1>3, <3>1
    <3> QED
      BY <3>1, <3>2
  <2> QED
    BY <2>1 DEF Posted
<1>7. spare \in All /\ spare \notin Posted \cup Held
  <2>1. spare \in All
    BY <1>1, <1>room
  <2>2. spare \notin Posted
    BY <1>3 DEF Posted
  <2>3. spare \notin Held
    BY <1>1, <1>room
  <2> QED
    BY <2>1, <2>2, <2>3
<1>8. Cardinality(Posted \cup Held) = p + h
  <2>1. Cardinality(Posted \cup Held)
          = p + Cardinality(Held) - Cardinality(Posted \cap Held)
    BY <1>2, <1>4, FS_Union
  <2>2. Cardinality(Posted \cap Held) = 0
    BY <1>5, FS_EmptySet
  <2> HIDE DEF p, h
  <2> QED
    BY <1>2, <1>4, <2>1, <2>2
<1>9. p + h <= n /\ p + h # n
  <2> DEFINE U == Posted \cup Held
  <2>1. U \in SUBSET All /\ U # All
    BY <1>6, <1>7
  <2>2. IsFiniteSet(All) /\ Cardinality(All) = n /\ Cardinality(U) = p + h
    BY <1>2, <1>8
  <2> HIDE DEF U, All, p, h, n
  <2>3. Cardinality(U) <= Cardinality(All)
        /\ (Cardinality(All) = Cardinality(U) => All = U)
    BY <2>1, <2>2, FS_Subset
  <2> QED
    BY <2>1, <2>2, <2>3
<1>10. stack + e + p + h = EqueueEntries + n /\ e <= EqueueEntries
  BY DEF HardwareBuffersConserved, Posted, Holders, NumBufs, FrameInv
<1>13. p \in Nat /\ h \in Nat /\ n \in Nat
  BY <1>2
<1> HIDE DEF p, h, e, n
<1>14. stack > 0
  BY <1>1, <1>9, <1>10, <1>13
<1> QED
  BY <1>14, <1>room

LEMMA SizesInit == Init => SizesSuffice
BY DEF Init, SizesSuffice, FaultKinds

LEMMA SizesNext ==
  ASSUME RingInv, TypeOK, FrameInv, MissInv, BoundInv,
         HardwareBuffersConserved, SizesSuffice, [Next]_vars, TypeOK'
  PROVE  SizesSuffice'
<1> SUFFICES ASSUME Once <= NotifEntries, NobodyLate'
             PROVE  /\ process' # "died"
                    /\ \A v \in Workers : fault'[v]["overflow"] = 0
  BY DEF SizesSuffice
<1>1. NobodyLate
  BY LateStays
<1>2. process # "died" /\ \A v \in Workers : fault[v]["overflow"] = 0
  BY <1>1 DEF SizesSuffice
<1>3. fault \in [Workers -> [FaultKinds -> Nat]]
  BY DEF TypeOK, NicTypeOK
<1>4. CASE ~ Running
  BY <1>2, <1>4, NoSteps DEF vars, others, flags
<1>5. ASSUME Running, NEW w \in Workers,
             \/ wire # <<>> /\ Head(wire) \in Own(w)
             \/ pc[w] = "send" /\ i[w] < Once
      PROVE  Len(iqueue[w]) < NotifEntries /\ stack > 0
  <2>1. /\ Len(iqueue[w]) + UnderWay(w) + (IF w \in Holders THEN 1 ELSE 0)
             <= Once
        /\ pc[w] = "send" /\ i[w] < Once =>
             Len(iqueue[w]) < Once /\ w \notin Holders
        /\ Len(iqueue[w]) \in Nat /\ UnderWay(w) \in Nat /\ Once \in Nat
        /\ wire # <<>> /\ Head(wire) \in Own(w) => UnderWay(w) >= 1
    BY <1>1, <1>5, RingWithinBatch, UnderWayCounts
  <2>2. Len(iqueue[w]) + (IF w \in Holders THEN 1 ELSE 0) < Once
    <3> DEFINE held == IF w \in Holders THEN 1 ELSE 0
    <3>1. held \in {0, 1} /\ Len(iqueue[w]) + UnderWay(w) + held <= Once
          /\ (w \notin Holders => held = 0)
      BY <2>1
    <3> HIDE DEF held
    <3>2. Len(iqueue[w]) + held < Once
      BY <1>5, <2>1, <3>1
    <3> QED
      BY <3>2 DEF held
  <2> QED
    BY <1>1, <1>5, <2>2, StackNotEmpty
<1>6. CASE Running /\ ~ Running' /\ Stop
  <2>1. process' = "exited"
    <3>1. ASSUME NEW w \in Workers, pc[w] = "send", i[w] < Once, stack = 0
          PROVE  FALSE
      <4>1. stack > 0
        BY <1>5, <1>6, <3>1
      <4> QED
        BY <3>1, <4>1
    <3> QED
      BY <1>6, <3>1 DEF Stop
  <2> QED
    BY <1>2, <1>6, <2>1 DEF Stop
<1>7. ASSUME NEW w \in Workers, Moves(w)
      PROVE  \A v \in Workers : fault'[v]["overflow"] = 0
  BY <1>2, <1>3, <1>7 DEF Moves, Turn, Take, Put, Get, Passed, Missed, Expired,
                          Bump, FaultKinds
<1>8. ASSUME NEW w \in Workers, Running, Lands(w) \/ Drops(w)
      PROVE  \A v \in Workers : fault'[v]["overflow"] = 0
  <2>1. CASE Lands(w)
    BY <1>2, <2>1 DEF Lands
  <2>2. CASE Drops(w)
    <3>1. Len(iqueue[w]) < NotifEntries /\ stack > 0
      BY <1>5, <1>8, <2>2 DEF Drops
    <3>2. fault' = [fault EXCEPT ![w] = Bump(@, "lost")]
      BY <2>2, <3>1 DEF Drops
    <3> QED
      BY <1>2, <1>3, <3>2 DEF Bump, FaultKinds
  <2> QED
    BY <1>8, <2>1, <2>2
<1>9. CASE Running /\ Running'
  <2>1. process' # "died"
    BY <1>9 DEF Running
  <2>2. \A v \in Workers : fault'[v]["overflow"] = 0
    <3>1. CASE UNCHANGED <<worker, nic, fault, base>> \/ Sends
      BY <1>2, <3>1 DEF Sends
    <3> QED
      BY <1>7, <1>8, <1>9, <3>1, Steps, NetworkSteps
  <2> QED
    BY <2>1, <2>2
<1> QED
  BY <1>4, <1>6, <1>9, Steps

\* A batch that fits the ingress rings never finds the buffer stack empty and
\* overflows no ring, whatever the other workers do, unless somebody was late.
THEOREM SizesSufficeTheorem == Spec => []SizesSuffice
<1>1. /\ Init => SizesSuffice
      /\ RingInv /\ TypeOK /\ FrameInv /\ MissInv /\ BoundInv
           /\ HardwareBuffersConserved /\ SizesSuffice /\ [Next]_vars
           /\ TypeOK' => SizesSuffice'
  BY SizesInit, SizesNext
<1> QED
  BY <1>1, RingInvariant, TypeCorrect, FrameInvariant, MissInvariant,
     BoundInvariant, HardwareBuffersTheorem, PTL DEF Spec

-----------------------------------------------------------------------------
(* Every packet gets one verdict of each check. *)

\* The counters of the checks that are on: for a right and a wrong frame.
Checks ==
  {c \in {<<"correct_len", "error_len">>, <<"correct_data", "error_data">>} :
     IF c[1] = "correct_len" THEN "LENGTH" \in CheckLevel
                             ELSE "DATA" \in CheckLevel}

\* The packets of worker w that the check c has spoken about, or that were
\* missed.
Spoken(w, c) == Counted(w, c[1]) + Counted(w, c[2]) + Misses(w)

SpokenInv(w, c) ==
  /\ pc[w] = "fill" => batch[w] = 0 /\ Spoken(w, c) = 0
  /\ pc[w] \in {"test", "done"} => Spoken(w, c) = Once * batch[w]
  /\ pc[w] \in {"send", "put"} => Spoken(w, c) = Once * (batch[w] - 1)
  /\ pc[w] \in {"recv", "judge"} =>
       Spoken(w, c) = Once * (batch[w] - 1) + i[w]

JudgedInv == Running => \A w \in Workers : \A c \in Checks : SpokenInv(w, c)

\* A frame that is judged gets one verdict of the check.
LEMMA OneVerdict ==
  ASSUME TypeOK, NEW w \in Workers, NEW c \in Checks
  PROVE  AfterData(w)[c[1]] + AfterData(w)[c[2]]
           = count[w][c[1]] + count[w][c[2]] + 1
<1>1. count[w] \in [Counters -> Nat]
  BY DEF TypeOK, WorkerTypeOK
<1>2. ASSUME NEW n \in [Counters -> Nat], NEW k \in Counters
      PROVE  /\ Bump(n, k) \in [Counters -> Nat]
             /\ Bump(n, k)[k] = n[k] + 1
             /\ \A j \in Counters \ {k} : Bump(n, k)[j] = n[j]
  BY DEF Bump
<1>3. ASSUME NEW n \in [Counters -> Nat], NEW r \in Counters, NEW x \in Counters,
             r # x, NEW m, m = Bump(n, r) \/ m = Bump(n, x)
      PROVE  m[r] + m[x] = n[r] + n[x] + 1
  <2>1. n[r] \in Nat /\ n[x] \in Nat
    BY <1>3
  <2>2. CASE m = Bump(n, r)
    <3>1. m[r] = n[r] + 1 /\ m[x] = n[x]
      BY <1>3, <1>2, <2>2
    <3> QED
      BY <2>1, <3>1
  <2>3. CASE m = Bump(n, x)
    <3>1. m[x] = n[x] + 1 /\ m[r] = n[r]
      BY <1>3, <1>2, <2>3
    <3> QED
      BY <2>1, <3>1
  <2> QED
    BY <1>3, <2>2, <2>3
<1>4. CASE c = <<"correct_len", "error_len">>
  <2>1. "LENGTH" \in CheckLevel
    BY <1>4 DEF Checks
  <2>2. /\ AfterLength(w) \in [Counters -> Nat]
        /\ AfterLength(w)["correct_len"] + AfterLength(w)["error_len"]
             = count[w]["correct_len"] + count[w]["error_len"] + 1
    <3>1. {"correct_len", "error_len"} \subseteq Counters
      BY DEF Counters
    <3>2. \/ AfterLength(w) = Bump(count[w], "correct_len")
          \/ AfterLength(w) = Bump(count[w], "error_len")
      BY <2>1 DEF AfterLength
    <3> QED
      BY <1>3, <1>1, <1>2, <3>1, <3>2
  <2>3. /\ AfterData(w)["correct_len"] = AfterLength(w)["correct_len"]
        /\ AfterData(w)["error_len"] = AfterLength(w)["error_len"]
    <3>1. \A k \in {"error_data", "correct_data"} :
            /\ k \in Counters
            /\ {"correct_len", "error_len"} \subseteq Counters \ {k}
      BY DEF Counters
    <3> QED
      BY <1>2, <2>2, <3>1 DEF AfterData
  <2> QED
    BY <1>4, <2>2, <2>3
<1>5. CASE c = <<"correct_data", "error_data">>
  <2>1. "DATA" \in CheckLevel
    BY <1>5 DEF Checks
  <2>2. /\ AfterLength(w) \in [Counters -> Nat]
        /\ AfterLength(w)["correct_data"] = count[w]["correct_data"]
        /\ AfterLength(w)["error_data"] = count[w]["error_data"]
    <3>1. \A k \in {"error_len", "correct_len"} :
            /\ k \in Counters
            /\ {"correct_data", "error_data"} \subseteq Counters \ {k}
      BY DEF Counters
    <3> QED
      BY <1>1, <1>2, <3>1 DEF AfterLength
  <2> DEFINE n == AfterLength(w)
  <2>3. n["correct_data"] \in Nat /\ n["error_data"] \in Nat
        /\ {"correct_data", "error_data"} \subseteq Counters
    BY <2>2 DEF Counters
  <2>4. \/ AfterData(w) = Bump(n, "error_data")
        \/ AfterData(w) = Bump(n, "correct_data")
    BY <2>1 DEF AfterData
  <2> HIDE DEF n
  <2>5. n \in [Counters -> Nat]
    BY <2>2 DEF n
  <2>6. AfterData(w)["correct_data"] + AfterData(w)["error_data"]
          = n["correct_data"] + n["error_data"] + 1
    BY <1>3, <2>3, <2>4, <2>5
  <2> QED
    BY <1>5, <2>2, <2>6 DEF n
<1> QED
  BY <1>4, <1>5 DEF Checks

LEMMA SpokenTypes ==
  ASSUME TypeOK, NEW w \in Workers, NEW c \in Checks
  PROVE  /\ count[w] \in [Counters -> Nat] /\ base[w] \in [Counters -> Nat]
         /\ {c[1], c[2], "error_recv"} \subseteq Counters
         /\ c[1] # "error_recv" /\ c[2] # "error_recv"
         /\ \A k \in {c[1], c[2], "error_recv"} :
              count[w][k] \in Nat /\ base[w][k] \in Nat
         /\ batch[w] \in Nat /\ i[w] \in Nat /\ Once \in Nat
<1>1. count[w] \in [Counters -> Nat] /\ base[w] \in [Counters -> Nat]
  BY DEF TypeOK, WorkerTypeOK, NicTypeOK
<1>2. /\ {c[1], c[2], "error_recv"} \subseteq Counters
      /\ c[1] # "error_recv" /\ c[2] # "error_recv"
  BY DEF Checks, Counters
<1>3. batch[w] \in Nat /\ i[w] \in Nat /\ Once \in Nat
  BY OnceAssumption, BoundAssumption DEF TypeOK, WorkerTypeOK
<1> QED
  BY <1>1, <1>2, <1>3

\* A step of worker w, on what the check c has said.
LEMMA SpokenKeeps ==
  ASSUME RingInv, TypeOK, TypeOK', NEW w \in Workers, NEW c \in Checks,
         Moves(w), SpokenInv(w, c)
  PROVE  SpokenInv(w, c)'
<1> DEFINE S == Spoken(w, c)
           b == batch[w]
<1>1. /\ count[w] \in [Counters -> Nat] /\ base[w] \in [Counters -> Nat]
      /\ {c[1], c[2], "error_recv"} \subseteq Counters
      /\ c[1] # "error_recv" /\ c[2] # "error_recv"
      /\ \A k \in {c[1], c[2], "error_recv"} :
           count[w][k] \in Nat /\ base[w][k] \in Nat
      /\ b \in Nat /\ i[w] \in Nat /\ Once \in Nat
  BY SpokenTypes
<1>2. S \in Int
  BY <1>1 DEF Spoken, Counted, Misses
<1>3. base' = base
  BY DEF Moves, Turn, Take, Put, Get, Passed, Missed
<1>4. CASE Turn(w)
  <2>1. S' = S
    BY <1>4 DEF Turn, Spoken, Counted, Misses
  <2>2. CASE pc[w] = "fill" /\ pc'[w] = "test" /\ batch'[w] = b
    <3>1. S = 0 /\ b = 0
      BY <2>2 DEF SpokenInv
    <3>2. S' = Once * batch'[w]
      BY <1>1, <2>1, <2>2, <3>1
    <3> QED
      BY <2>2, <3>2 DEF SpokenInv
  <2>3. CASE pc[w] = "fill" /\ pc'[w] = "fill" /\ batch'[w] = b
    BY <2>1, <2>3 DEF SpokenInv
  <2>4. CASE pc[w] = "test" /\ pc'[w] = "done" /\ batch'[w] = b
    BY <2>1, <2>4 DEF SpokenInv
  <2>5. CASE pc[w] = "send" /\ Goes(w, "recv", 0) /\ batch'[w] = b
    <3>1. S = Once * (b - 1)
      BY <2>5 DEF SpokenInv
    <3>2. S' = Once * (batch'[w] - 1) + i'[w]
      BY <1>2, <2>1, <2>5, <3>1 DEF Goes
    <3> QED
      BY <2>5, <3>2 DEF SpokenInv, Goes
  <2>6. CASE pc[w] = "recv" /\ i[w] = Once /\ pc'[w] = "test"
               /\ batch'[w] = b
    <3>1. S = Once * (b - 1) + Once
      BY <2>6 DEF SpokenInv
    <3>2. Once * (b - 1) + Once = Once * b
      BY <1>1
    <3> QED
      BY <2>1, <2>6, <3>1, <3>2 DEF SpokenInv
  <2>7. CASE batch'[w] = b + 1 /\ pc[w] = "test" /\ Goes(w, "send", 0)
    <3>1. S = Once * b
      BY <2>7 DEF SpokenInv
    <3>2. batch'[w] - 1 = b
      BY <1>1, <2>7
    <3> QED
      BY <2>1, <2>7, <3>1, <3>2 DEF SpokenInv, Goes
  <2> QED
    BY <1>4, <2>2, <2>3, <2>4, <2>5, <2>6, <2>7 DEF Turn
<1>5. CASE Take(w) \/ Get(w)
  <2>1. S' = S /\ batch' = batch /\ i'[w] = i[w]
    BY <1>5 DEF Take, Get, Goes, Spoken, Counted, Misses
  <2>2. \/ pc[w] = "send" /\ pc'[w] = "put"
        \/ pc[w] = "recv" /\ pc'[w] = "judge"
    BY <1>5 DEF Take, Get, Goes
  <2> QED
    BY <2>1, <2>2 DEF SpokenInv
<1>6. CASE Put(w)
  <2>1. S' = S /\ batch' = batch
    BY <1>6 DEF Put, Spoken, Counted, Misses
  <2>2. pc[w] = "put" /\ pc'[w] = "send"
    BY <1>6 DEF Put, Goes
  <2> QED
    BY <2>1, <2>2 DEF SpokenInv
<1>7. CASE Passed(w) \/ Missed(w)
  <2>1. S' = S + 1
    <3> DEFINE r == count[w][c[1]]
               x == count[w][c[2]]
               m == count[w]["error_recv"]
    <3>1. \/ count'[w][c[1]] + count'[w][c[2]] = r + x + 1
             /\ count'[w]["error_recv"] = m
          \/ count'[w][c[1]] + count'[w][c[2]] = r + x
             /\ count'[w]["error_recv"] = m + 1
      <4>1. CASE Passed(w)
        BY <4>1, OneVerdict, VerdictNoMiss DEF Passed
      <4>2. CASE Missed(w)
        BY <1>1, <4>2 DEF Missed, CountMiss, Bump
      <4> QED
        BY <1>7, <4>1, <4>2
    <3>2. count'[w][c[1]] \in Nat /\ count'[w][c[2]] \in Nat
      <4>1. count'[w] \in [Counters -> Nat]
        BY DEF TypeOK, WorkerTypeOK
      <4> QED
        BY <1>1, <4>1
    <3> QED
      BY <1>1, <1>3, <3>1, <3>2 DEF Spoken, Counted, Misses
  <2>2. /\ batch' = batch /\ pc[w] \in {"recv", "judge"} /\ pc'[w] = "recv"
        /\ i'[w] = i[w] + 1
    BY <1>7 DEF Passed, Missed, Goes
  <2>3. S = Once * (b - 1) + i[w]
    BY <2>2 DEF SpokenInv
  <2>4. S' = Once * (b - 1) + (i[w] + 1)
    <3> DEFINE q == Once * (b - 1)
    <3>1. q \in Int
      BY <1>1
    <3> HIDE DEF q
    <3> QED
      BY <1>1, <2>1, <2>3, <3>1 DEF q
  <2> QED
    BY <2>2, <2>4 DEF SpokenInv
<1> QED
  BY <1>4, <1>5, <1>6, <1>7 DEF Moves

LEMMA JudgedInit == Init => JudgedInv
<1> SUFFICES ASSUME Init, NEW w \in Workers, NEW c \in Checks
             PROVE  SpokenInv(w, c)
  BY DEF JudgedInv
<1>1. count[w] \in [Counters -> Nat] /\ base = count
  BY GarbageAssumption DEF Init
<1>2. {c[1], c[2], "error_recv"} \subseteq Counters
  BY DEF Checks, Counters
<1>3. \A k \in {c[1], c[2], "error_recv"} : Counted(w, k) = 0
  <2> SUFFICES ASSUME NEW k \in {c[1], c[2], "error_recv"}
               PROVE  Counted(w, k) = 0
    OBVIOUS
  <2>1. count[w][k] \in Nat
    BY <1>1, <1>2
  <2> QED
    BY <1>1, <2>1 DEF Counted
<1>4. Spoken(w, c) = 0
  BY <1>3 DEF Spoken, Misses
<1> QED
  BY <1>4 DEF Init, SpokenInv

LEMMA JudgedNext ==
  ASSUME RingInv, TypeOK, FrameInv, JudgedInv, [Next]_vars, TypeOK'
  PROVE  JudgedInv'
<1> SUFFICES ASSUME Running', NEW v \in Workers, NEW c \in Checks
             PROVE  SpokenInv(v, c)'
  BY DEF JudgedInv, Checks
<1>1. Running
  BY NoSteps DEF vars, others, flags, Running
<1>2. SpokenInv(v, c)
  BY <1>1 DEF JudgedInv
<1>3. ASSUME NEW w \in Workers, Moves(w), Only(w)
      PROVE  SpokenInv(v, c)'
  <2>1. CASE v = w
    BY <1>2, <1>3, <2>1, SpokenKeeps
  <2>2. CASE v # w
    <3>1. base' = base
      BY <1>3 DEF Moves, Turn, Take, Put, Get, Passed, Missed
    <3>2. /\ pc'[v] = pc[v] /\ i'[v] = i[v] /\ batch'[v] = batch[v]
          /\ count'[v] = count[v]
      BY <1>3, <2>2 DEF Only
    <3> QED
      BY <1>2, <3>1, <3>2 DEF SpokenInv, Spoken, Counted, Misses
  <2> QED
    BY <2>1, <2>2
<1>4. ASSUME UNCHANGED <<worker, base>>
      PROVE  SpokenInv(v, c)'
  BY <1>2, <1>4 DEF worker, SpokenInv, Spoken, Counted, Misses
<1>5. Network => UNCHANGED <<worker, base>>
  BY NetworkSteps DEF Sends, Lands, Drops
<1> QED
  BY <1>1, <1>3, <1>4, <1>5, Steps

\* Every packet of every batch gets exactly one verdict of each check that is
\* on, or is counted as missed.
THEOREM EveryPacketJudgedTheorem == Spec => []EveryPacketJudged
<1>1. /\ Init => JudgedInv
      /\ RingInv /\ TypeOK /\ FrameInv /\ JudgedInv /\ [Next]_vars /\ TypeOK'
           => JudgedInv'
  BY JudgedInit, JudgedNext
<1>2. JudgedInv => EveryPacketJudged
  <2> SUFFICES ASSUME JudgedInv, Running, NEW w \in Workers,
                      pc[w] \in {"test", "done"}
               PROVE  /\ "LENGTH" \in CheckLevel =>
                           Counted(w, "correct_len") + Counted(w, "error_len")
                             + Counted(w, "error_recv") = Once * batch[w]
                      /\ "DATA" \in CheckLevel =>
                           Counted(w, "correct_data") + Counted(w, "error_data")
                             + Counted(w, "error_recv") = Once * batch[w]
    BY DEF EveryPacketJudged
  <2>1. \A c \in Checks : Spoken(w, c) = Once * batch[w]
    BY DEF JudgedInv, SpokenInv
  <2>2. /\ "LENGTH" \in CheckLevel => <<"correct_len", "error_len">> \in Checks
        /\ "DATA" \in CheckLevel => <<"correct_data", "error_data">> \in Checks
    BY DEF Checks
  <2> QED
    BY <2>1, <2>2 DEF Spoken, Misses
<1> QED
  BY <1>1, <1>2, RingInvariant, TypeCorrect, FrameInvariant, PTL DEF Spec

-----------------------------------------------------------------------------
(* No damage goes unnoticed. *)

Resized == {f \in Frames : IsResized(f)}
Damaged == {f \in Frames : IsDamaged(f)}

\* The frames of the kind K that worker w has received and not yet judged.
Unjudged(w, K) ==
  Count(iqueue[w], K) + (IF pc[w] = "judge" THEN One(idesc[w], K) ELSE 0)

DamageInv ==
  Running => \A w \in Workers :
    /\ "LENGTH" \in CheckLevel =>
         Counted(w, "error_len") + Unjudged(w, Resized) = fault[w]["resized"]
    /\ "DATA" \in CheckLevel =>
         Counted(w, "error_data") + Unjudged(w, Damaged) >= fault[w]["damaged"]

\* What the two checks make of the frame in the hands of worker w.
LEMMA Judgement ==
  ASSUME RingInv, TypeOK, FrameInv, Running, NEW w \in Workers,
         pc[w] = "judge", i[w] < Once
  PROVE  /\ "LENGTH" \in CheckLevel =>
              AfterData(w)["error_len"]
                = count[w]["error_len"] + One(idesc[w], Resized)
         /\ "DATA" \in CheckLevel =>
              AfterData(w)["error_data"]
                >= count[w]["error_data"] + One(idesc[w], Damaged)
<1> DEFINE n == AfterLength(w)
<1>1. count[w] \in [Counters -> Nat]
  BY DEF TypeOK, WorkerTypeOK
<1>2. ASSUME NEW m \in [Counters -> Nat], NEW k \in Counters
      PROVE  /\ Bump(m, k) \in [Counters -> Nat]
             /\ Bump(m, k)[k] = m[k] + 1
             /\ \A j \in Counters \ {k} : Bump(m, k)[j] = m[j]
  BY DEF Bump
<1>3. {"error_len", "error_data", "correct_len", "correct_data"} \subseteq Counters
  BY DEF Counters
<1>4. /\ n \in [Counters -> Nat]
      /\ n["error_data"] = count[w]["error_data"]
  BY <1>1, <1>2, <1>3 DEF AfterLength
<1>5. idesc[w] \in Frames
  BY DEF FrameInv, Own, Addressed
<1>6. ASSUME "LENGTH" \in CheckLevel
      PROVE  AfterData(w)["error_len"]
               = count[w]["error_len"] + One(idesc[w], Resized)
  <2>1. AfterData(w)["error_len"] = n["error_len"]
    BY <1>2, <1>3, <1>4 DEF AfterData
  <2>2. LengthWrong(w) <=> idesc[w] \in Resized
    BY <1>5, <1>6 DEF LengthWrong, Resized, IsResized, Frames
  <2>3. n["error_len"] = count[w]["error_len"] + One(idesc[w], Resized)
    <3>1. count[w]["error_len"] \in Nat
      BY <1>1, <1>3
    <3>2. CASE LengthWrong(w)
      BY <1>1, <1>2, <1>3, <1>6, <2>2, <3>2 DEF AfterLength, One
    <3>3. CASE ~ LengthWrong(w)
      <4>1. n = Bump(count[w], "correct_len")
        BY <1>6, <3>3 DEF AfterLength
      <4>2. n["error_len"] = count[w]["error_len"]
        BY <1>1, <1>2, <1>3, <4>1
      <4> QED
        BY <2>2, <3>1, <3>3, <4>2 DEF One
    <3> QED
      BY <3>2, <3>3
  <2> QED
    BY <2>1, <2>3
<1>7. ASSUME "DATA" \in CheckLevel
      PROVE  AfterData(w)["error_data"]
               >= count[w]["error_data"] + One(idesc[w], Damaged)
  <2>1. AfterData(w) = Bump(n, IF DataWrong(w) THEN "error_data"
                                               ELSE "correct_data")
    BY <1>7 DEF AfterData
  <2>2. n["error_data"] \in Nat
    BY <1>3, <1>4
  <2>3. CASE DataWrong(w)
    <3>1. AfterData(w)["error_data"] = n["error_data"] + 1
      BY <1>2, <1>3, <1>4, <2>1, <2>3
    <3>2. One(idesc[w], Damaged) \in {0, 1}
      BY DEF One
    <3> HIDE DEF n
    <3> QED
      BY <1>4, <2>2, <3>1, <3>2
  <2>4. CASE ~ DataWrong(w)
    <3>1. AfterData(w)["error_data"] = n["error_data"]
      <4>1. AfterData(w) = Bump(n, "correct_data")
        BY <2>1, <2>4
      <4> QED
        BY <1>2, <1>3, <1>4, <4>1
    <3>2. idesc[w] \notin Damaged
      <4>1. /\ QueueOK(queue[w], Once + 1) /\ ~ is_empty_manager_queue(queue[w])
            /\ Once + 1 \in Nat \ {0} /\ (Once + 1) - 1 = Once
        BY RingFacts DEF PacketsSplit
      <4>2. pop_session_buf_data(queue[w]) \in Buffers
        BY <4>1, PopSessionBuf DEF Buffers
      <4>3. data[w][pop_session_buf_data(queue[w])] \in Payload \cup {Blank}
        BY <4>2 DEF TypeOK, WorkerTypeOK
      <4> QED
        BY <1>7, <2>4, <4>3, NoiseAssumption
           DEF DataWrong, Damaged, IsDamaged
    <3>3. One(idesc[w], Damaged) = 0
      BY <3>2 DEF One
    <3> HIDE DEF n
    <3> QED
      BY <1>4, <2>2, <3>1, <3>3
  <2> QED
    BY <2>3, <2>4
<1> QED
  BY <1>6, <1>7

LEMMA DamageInit == Init => DamageInv
<1> SUFFICES ASSUME Init, NEW w \in Workers
             PROVE  /\ Counted(w, "error_len") + Unjudged(w, Resized)
                         = fault[w]["resized"]
                    /\ Counted(w, "error_data") + Unjudged(w, Damaged)
                         >= fault[w]["damaged"]
  BY DEF DamageInv
<1>1. \A k \in {"error_len", "error_data"} : Counted(w, k) = 0
  <2>1. count[w] \in [Counters -> Nat] /\ base = count
    BY GarbageAssumption DEF Init
  <2>2. count[w]["error_len"] \in Nat /\ count[w]["error_data"] \in Nat
    BY <2>1 DEF Counters
  <2> QED
    BY <2>1, <2>2 DEF Counted
<1>2. \A K : Unjudged(w, K) = 0
  <2>1. iqueue[w] = <<>> /\ pc[w] # "judge"
    BY DEF Init
  <2> QED
    BY <2>1, CountEmpty DEF Unjudged
<1>3. fault[w]["resized"] = 0 /\ fault[w]["damaged"] = 0
  BY DEF Init, FaultKinds
<1> QED
  BY <1>1, <1>2, <1>3

\* A step of worker w moves its unjudged frames, and a verdict replaces one.
LEMMA UnjudgedMoves ==
  ASSUME TypeOK, NEW w \in Workers, Moves(w), NEW K
  PROVE  IF Passed(w) THEN Unjudged(w, K)' + One(idesc[w], K) = Unjudged(w, K)
                      ELSE Unjudged(w, K)' = Unjudged(w, K)
<1>1. iqueue \in [Workers -> Seq(Frames)]
  BY DEF TypeOK, NicTypeOK
<1>2. Count(iqueue[w], K) \in Nat /\ \A x : One(x, K) \in {0, 1}
  BY <1>1, HitsFinite DEF One
<1>3. CASE Turn(w) \/ Take(w) \/ Put(w) \/ Missed(w)
  <2>1. iqueue' = iqueue /\ pc[w] # "judge" /\ pc'[w] # "judge"
    BY <1>3 DEF Turn, Take, Put, Missed, Goes, nic
  <2>2. ~ Passed(w)
    BY <2>1 DEF Passed
  <2> QED
    BY <2>1, <2>2 DEF Unjudged
<1>4. CASE Get(w)
  <2>1. /\ iqueue[w] # <<>> /\ iqueue[w] \in Seq(Frames)
        /\ iqueue'[w] = Tail(iqueue[w]) /\ idesc'[w] = Head(iqueue[w])
        /\ pc[w] = "recv" /\ pc'[w] = "judge" /\ ~ Passed(w)
    BY <1>1, <1>4 DEF Get, Goes, Passed
  <2>2. Count(iqueue[w], K) = Count(Tail(iqueue[w]), K) + One(Head(iqueue[w]), K)
    BY <2>1, CountTail
  <2>3. Unjudged(w, K) = Count(iqueue[w], K) + 0
    BY <2>1 DEF Unjudged
  <2>4. Unjudged(w, K)' = Count(Tail(iqueue[w]), K) + One(Head(iqueue[w]), K)
    BY <2>1 DEF Unjudged
  <2> QED
    BY <1>2, <2>1, <2>2, <2>3, <2>4
<1>5. CASE Passed(w)
  <2>1. iqueue' = iqueue /\ pc[w] = "judge" /\ pc'[w] = "recv"
    BY <1>5 DEF Passed, Goes
  <2>2. Unjudged(w, K) = Count(iqueue[w], K) + One(idesc[w], K)
    BY <2>1 DEF Unjudged
  <2>3. Unjudged(w, K)' = Count(iqueue[w], K) + 0
    BY <2>1 DEF Unjudged
  <2> QED
    BY <1>2, <1>5, <2>2, <2>3
<1> QED
  BY <1>3, <1>4, <1>5 DEF Moves

\* The frame that lands is resized or damaged when the network made it so.
LEMMA LandsAs ==
  ASSUME TypeOK, TypeOK', FrameInv, NEW w \in Workers, Lands(w),
         NEW v \in Workers
  PROVE  /\ Unjudged(v, Resized)' - fault'[v]["resized"]
              = Unjudged(v, Resized) - fault[v]["resized"]
         /\ Unjudged(v, Damaged)' - fault'[v]["damaged"]
              >= Unjudged(v, Damaged) - fault[v]["damaged"]
<1>1. /\ iqueue \in [Workers -> Seq(Frames)]
      /\ fault \in [Workers -> [FaultKinds -> Nat]]
      /\ pc' = pc /\ idesc' = idesc
  BY DEF TypeOK, NicTypeOK, Lands, worker
<1>2. PICK f \in Own(w) :
        Becomes(w, f) /\ iqueue' = [iqueue EXCEPT ![w] = Append(@, f)]
  BY DEF Lands
<1>3. f \in Frames /\ Head(wire) \in Clean
  BY AllInTail DEF Own, Addressed, Lands, FrameInv, TypeOK, NicTypeOK
<1>4. \A K : /\ Count(iqueue[v], K) \in Nat
             /\ Count(iqueue'[v], K)
                  = Count(iqueue[v], K) + (IF v = w THEN One(f, K) ELSE 0)
  <2> SUFFICES ASSUME NEW K
               PROVE  /\ Count(iqueue[v], K) \in Nat
                      /\ Count(iqueue'[v], K)
                           = Count(iqueue[v], K)
                               + (IF v = w THEN One(f, K) ELSE 0)
    OBVIOUS
  <2>1. Count(iqueue[v], K) \in Nat /\ iqueue[v] \in Seq(Frames)
    BY <1>1, HitsFinite
  <2>2. CASE v = w
    <3>1. iqueue'[v] = Append(iqueue[v], f)
      BY <1>1, <1>2, <2>2
    <3>2. Count(Append(iqueue[v], f), K) = Count(iqueue[v], K) + One(f, K)
      BY <1>3, <2>1, CountAppend
    <3> QED
      BY <2>1, <2>2, <3>1, <3>2
  <2>3. CASE v # w
    <3>1. iqueue'[v] = iqueue[v]
      BY <1>1, <1>2, <2>3
    <3> QED
      BY <2>1, <2>3, <3>1
  <2> QED
    BY <2>2, <2>3
<1>5. \A K : Unjudged(v, K) \in Nat
             /\ Unjudged(v, K)'
                  = Unjudged(v, K) + (IF v = w THEN One(f, K) ELSE 0)
  <2> SUFFICES ASSUME NEW K
               PROVE  /\ Unjudged(v, K) \in Nat
                      /\ Unjudged(v, K)' = Unjudged(v, K)
                           + (IF v = w THEN One(f, K) ELSE 0)
    OBVIOUS
  <2> DEFINE h == IF pc[v] = "judge" THEN One(idesc[v], K) ELSE 0
             a == IF v = w THEN One(f, K) ELSE 0
             c == Count(iqueue[v], K)
  <2>1. h \in Nat /\ a \in Nat /\ c \in Nat
    BY <1>4 DEF One
  <2>2. Unjudged(v, K) = c + h
    BY DEF Unjudged
  <2>3. Unjudged(v, K)' = (c + a) + h
    BY <1>1, <1>4 DEF Unjudged
  <2> HIDE DEF h, a, c
  <2>4. Unjudged(v, K) \in Nat /\ Unjudged(v, K)' = Unjudged(v, K) + a
    BY <2>1, <2>2, <2>3
  <2> QED
    BY <2>4 DEF a
<1>6. /\ fault[v]["resized"] \in Nat /\ fault[v]["damaged"] \in Nat
      /\ fault'[v]["resized"]
           = fault[v]["resized"] + (IF v = w THEN One(f, Resized) ELSE 0)
      /\ fault[v]["damaged"] + (IF v = w THEN One(f, Damaged) ELSE 0)
           >= fault'[v]["damaged"]
  <2>1. fault[v] \in [FaultKinds -> Nat] /\ fault[v]["resized"] \in Nat
        /\ fault[v]["damaged"] \in Nat
    BY <1>1 DEF FaultKinds
  <2>2. CASE f = Head(wire) /\ fault' = fault
    <3>1. f \notin Resized /\ f \notin Damaged
      BY <1>3, <2>2 DEF Clean, Resized, Damaged, IsResized, IsDamaged
    <3> QED
      BY <2>1, <2>2, <3>1 DEF One
  <2>3. CASE /\ f.payload = Noise /\ f.length = Head(wire).length
             /\ fault' = [fault EXCEPT ![w] = Bump(@, "damaged")]
    <3>1. f \notin Resized /\ f \in Damaged
      BY <1>3, <2>3 DEF Clean, Resized, Damaged, IsResized, IsDamaged
    <3>2. One(f, Resized) = 0 /\ One(f, Damaged) = 1
      BY <3>1 DEF One
    <3>3. /\ fault'[v]["resized"] = fault[v]["resized"]
          /\ fault'[v]["damaged"]
               = IF v = w THEN fault[v]["damaged"] + 1 ELSE fault[v]["damaged"]
      BY <1>1, <2>3 DEF Bump, FaultKinds
    <3> QED
      BY <2>1, <3>2, <3>3
  <2>4. CASE /\ f.length = "other"
             /\ fault' = [fault EXCEPT ![w] = Bump(@, "resized")]
    <3>1. f \in Resized /\ f \notin Damaged
      BY <1>3, <2>4 DEF Resized, Damaged, IsResized, IsDamaged
    <3>2. One(f, Resized) = 1 /\ One(f, Damaged) = 0
      BY <3>1 DEF One
    <3>3. /\ fault'[v]["damaged"] = fault[v]["damaged"]
          /\ fault'[v]["resized"]
               = IF v = w THEN fault[v]["resized"] + 1 ELSE fault[v]["resized"]
      BY <1>1, <2>4 DEF Bump, FaultKinds
    <3> QED
      BY <2>1, <3>2, <3>3
  <2> QED
    BY <1>2, <2>2, <2>3, <2>4 DEF Becomes
<1> DEFINE ar == IF v = w THEN One(f, Resized) ELSE 0
           ad == IF v = w THEN One(f, Damaged) ELSE 0
<1>7. /\ ar \in Nat /\ ad \in Nat
      /\ Unjudged(v, Resized) \in Nat /\ Unjudged(v, Damaged) \in Nat
      /\ Unjudged(v, Resized)' = Unjudged(v, Resized) + ar
      /\ Unjudged(v, Damaged)' = Unjudged(v, Damaged) + ad
  BY <1>5 DEF One
<1>8. /\ fault'[v]["resized"] = fault[v]["resized"] + ar
      /\ fault[v]["damaged"] + ad >= fault'[v]["damaged"]
      /\ fault'[v]["damaged"] \in Nat
  <2>1. fault'[v]["damaged"] \in Nat
    BY DEF TypeOK, NicTypeOK, FaultKinds
  <2> QED
    BY <1>6, <2>1
<1> HIDE DEF ar, ad
<1> QED
  BY <1>6, <1>7, <1>8

LEMMA DamageNext ==
  ASSUME RingInv, TypeOK, FrameInv, DamageInv, [Next]_vars, TypeOK'
  PROVE  DamageInv'
<1> SUFFICES ASSUME Running', NEW v \in Workers
             PROVE  /\ "LENGTH" \in CheckLevel =>
                         Counted(v, "error_len")' + Unjudged(v, Resized)'
                            = fault'[v]["resized"]
                    /\ "DATA" \in CheckLevel =>
                         Counted(v, "error_data")' + Unjudged(v, Damaged)'
                            >= fault'[v]["damaged"]
  BY DEF DamageInv
<1> DEFINE cl == Counted(v, "error_len")
           cd == Counted(v, "error_data")
           ul == Unjudged(v, Resized)
           ud == Unjudged(v, Damaged)
           fl == fault[v]["resized"]
           fd == fault[v]["damaged"]
<1>1. Running
  BY NoSteps DEF vars, others, flags, Running
<1>2. /\ "LENGTH" \in CheckLevel => cl + ul = fl
      /\ "DATA" \in CheckLevel => cd + ud >= fd
  BY <1>1 DEF DamageInv
<1>3. /\ count[v] \in [Counters -> Nat] /\ base[v] \in [Counters -> Nat]
      /\ fault \in [Workers -> [FaultKinds -> Nat]]
      /\ count'[v] \in [Counters -> Nat] /\ base'[v] \in [Counters -> Nat]
      /\ fault' \in [Workers -> [FaultKinds -> Nat]]
      /\ iqueue \in [Workers -> Seq(Frames)]
      /\ iqueue' \in [Workers -> Seq(Frames)]
  BY DEF TypeOK, WorkerTypeOK, NicTypeOK
<1>4. /\ cl \in Int /\ cd \in Int /\ fl \in Int /\ fd \in Int
      /\ cl' \in Int /\ cd' \in Int /\ fl' \in Int /\ fd' \in Int
  <2>1. \A k \in {"error_len", "error_data"} :
          /\ count[v][k] \in Nat /\ base[v][k] \in Nat
          /\ count'[v][k] \in Nat /\ base'[v][k] \in Nat
    BY <1>3 DEF Counters
  <2>2. cl \in Int /\ cd \in Int /\ cl' \in Int /\ cd' \in Int
    BY <2>1 DEF Counted
  <2>3. fl \in Nat /\ fd \in Nat /\ fl' \in Nat /\ fd' \in Nat
    BY <1>3 DEF FaultKinds
  <2> QED
    BY <2>2, <2>3
<1>5. ul \in Nat /\ ud \in Nat /\ ul' \in Nat /\ ud' \in Nat
  <2>1. \A K : /\ Count(iqueue[v], K) \in Nat /\ Count(iqueue'[v], K) \in Nat
               /\ \A x : One(x, K) \in Nat
    BY <1>3, HitsFinite DEF One
  <2> QED
    BY <2>1 DEF Unjudged
\* It is enough that each side of the account changes alike.
<1>6. ASSUME /\ "LENGTH" \in CheckLevel => cl' + ul' - fl' = cl + ul - fl
             /\ "DATA" \in CheckLevel => cd' + ud' - fd' >= cd + ud - fd
      PROVE  /\ "LENGTH" \in CheckLevel => cl' + ul' = fl'
             /\ "DATA" \in CheckLevel => cd' + ud' >= fd'
  <2> HIDE DEF cl, cd, ul, ud, fl, fd
  <2>1. ASSUME "LENGTH" \in CheckLevel PROVE cl' + ul' = fl'
    <3>1. PICK a \in Int, u \in Int, f \in Int : a = cl /\ u = ul /\ f = fl
      BY <1>4, <1>5
    <3>2. PICK b \in Int, x \in Int, g \in Int : b = cl' /\ x = ul' /\ g = fl'
      BY <1>4, <1>5
    <3>3. a + u = f /\ b + x - g = a + u - f
      BY <1>2, <1>6, <2>1, <3>1, <3>2
    <3>4. b + x = g
      BY <3>3
    <3> QED
      BY <3>2, <3>4
  <2>2. ASSUME "DATA" \in CheckLevel PROVE cd' + ud' >= fd'
    <3>1. PICK a \in Int, u \in Int, f \in Int : a = cd /\ u = ud /\ f = fd
      BY <1>4, <1>5
    <3>2. PICK b \in Int, x \in Int, g \in Int : b = cd' /\ x = ud' /\ g = fd'
      BY <1>4, <1>5
    <3>3. a + u >= f /\ b + x - g >= a + u - f
      BY <1>2, <1>6, <2>2, <3>1, <3>2
    <3>4. b + x >= g
      BY <3>3
    <3> QED
      BY <3>2, <3>4
  <2> QED
    BY <2>1, <2>2
<1>7. ASSUME cl' = cl, cd' = cd, ul' = ul, ud' = ud, fl' = fl, fd' = fd
      PROVE  /\ "LENGTH" \in CheckLevel => cl' + ul' = fl'
             /\ "DATA" \in CheckLevel => cd' + ud' >= fd'
  BY <1>2, <1>7
<1>8. ASSUME UNCHANGED <<worker, iqueue, base>>, fl' = fl, fd' = fd
      PROVE  /\ "LENGTH" \in CheckLevel => cl' + ul' = fl'
             /\ "DATA" \in CheckLevel => cd' + ud' >= fd'
  <2>1. cl' = cl /\ cd' = cd /\ ul' = ul /\ ud' = ud
    BY <1>8 DEF worker, Counted, Unjudged
  <2> QED
    BY <1>7, <1>8, <2>1
<1>9. ASSUME NEW w \in Workers, Moves(w)
      PROVE  fl' = fl /\ fd' = fd /\ base' = base
  <2>1. fault' = fault \/ fault' = [fault EXCEPT ![w] = Bump(@, "late")]
    BY <1>9 DEF Moves, Turn, Take, Put, Get, Passed, Missed, Expired
  <2>2. base' = base
    BY <1>9 DEF Moves, Turn, Take, Put, Get, Passed, Missed
  <2>3. CASE fault' = [fault EXCEPT ![w] = Bump(@, "late")]
    <3>1. fault[v] \in [FaultKinds -> Nat]
          /\ fault'[v] = IF v = w THEN Bump(fault[v], "late") ELSE fault[v]
      BY <1>3, <2>3
    <3>2. Bump(fault[v], "late")["resized"] = fault[v]["resized"]
          /\ Bump(fault[v], "late")["damaged"] = fault[v]["damaged"]
      BY <3>1 DEF Bump, FaultKinds
    <3> QED
      BY <2>2, <3>1, <3>2
  <2> QED
    BY <2>1, <2>2, <2>3
<1>10. ASSUME NEW w \in Workers, Moves(w), Only(w)
       PROVE  /\ "LENGTH" \in CheckLevel => cl' + ul' = fl'
              /\ "DATA" \in CheckLevel => cd' + ud' >= fd'
  <2>1. CASE v # w
    <3>1. /\ pc'[v] = pc[v] /\ count'[v] = count[v] /\ idesc'[v] = idesc[v]
          /\ iqueue'[v] = iqueue[v] /\ base' = base
      <4>1. iqueue'[v] = iqueue[v]
        BY <1>3, <1>10, <2>1 DEF Moves, Turn, Take, Put, Get, Passed, Missed, nic
      <4> QED
        BY <1>9, <1>10, <2>1, <4>1 DEF Only
    <3>2. cl' = cl /\ cd' = cd /\ ul' = ul /\ ud' = ud
      BY <3>1 DEF Counted, Unjudged
    <3> QED
      BY <1>7, <1>9, <1>10, <3>2
  <2>2. CASE v = w /\ Passed(w)
    <3> DEFINE or == One(idesc[v], Resized)
               od == One(idesc[v], Damaged)
    <3>1. ul' + or = ul /\ ud' + od = ud
      BY <1>10, <2>2, UnjudgedMoves
    <3>2. /\ "LENGTH" \in CheckLevel => cl' = cl + or
          /\ "DATA" \in CheckLevel => cd' >= cd + od
          /\ or \in Nat /\ od \in Nat
      <4>1. /\ "LENGTH" \in CheckLevel =>
                 count'[v]["error_len"] = count[v]["error_len"] + or
            /\ "DATA" \in CheckLevel =>
                 count'[v]["error_data"] >= count[v]["error_data"] + od
        BY <1>1, <2>2, Judgement DEF Passed
      <4>2. \A k \in {"error_len", "error_data"} :
              /\ count[v][k] \in Nat /\ base[v][k] \in Nat
              /\ count'[v][k] \in Nat
        BY <1>3 DEF Counters
      <4>3. or \in Nat /\ od \in Nat /\ base' = base
        BY <1>9, <1>10 DEF One
      <4> HIDE DEF or, od
      <4> QED
        BY <4>1, <4>2, <4>3 DEF Counted
    <3>3. fl' = fl /\ fd' = fd
      BY <1>9, <1>10
    <3> HIDE DEF cl, cd, ul, ud, fl, fd, or, od
    <3>4. PICK a \in Int, u \in Int, f \in Int, d \in Int, e \in Int, g \in Int :
            a = cl /\ u = ul /\ f = fl /\ d = cd /\ e = ud /\ g = fd
      BY <1>4, <1>5
    <3>5. PICK n \in Int, m \in Int, x \in Int, y \in Int :
            n = cl' /\ m = cd' /\ x = ul' /\ y = ud'
      BY <1>4, <1>5
    <3>6. PICK r \in Int, s \in Int : r = or /\ s = od
      BY <3>2
    <3>7. /\ "LENGTH" \in CheckLevel => n = a + r
          /\ "DATA" \in CheckLevel => m >= d + s
          /\ x + r = u /\ y + s = e
      BY <3>1, <3>2, <3>4, <3>5, <3>6
    <3>8. /\ "LENGTH" \in CheckLevel => n + x - f = a + u - f
          /\ "DATA" \in CheckLevel => m + y - g >= d + e - g
      BY <3>7
    <3>9. /\ "LENGTH" \in CheckLevel => cl' + ul' - fl' = cl + ul - fl
          /\ "DATA" \in CheckLevel => cd' + ud' - fd' >= cd + ud - fd
      BY <3>3, <3>4, <3>5, <3>8
    <3> QED
      BY <1>6, <3>9
  <2>3. CASE v = w /\ ~ Passed(w)
    <3>1. ul' = ul /\ ud' = ud
      BY <1>10, <2>3, UnjudgedMoves
    <3>2. cl' = cl /\ cd' = cd
      <4>1. base' = base
        BY <1>9, <1>10
      <4>2. /\ count'[v]["error_len"] = count[v]["error_len"]
            /\ count'[v]["error_data"] = count[v]["error_data"]
        BY <1>3, <1>10, <2>3 DEF Moves, Turn, Take, Put, Get, Missed, CountMiss,
                                Bump, Counters
      <4> QED
        BY <4>1, <4>2 DEF Counted
    <3> QED
      BY <1>7, <1>9, <1>10, <3>1, <3>2
  <2> QED
    BY <2>1, <2>2, <2>3
<1>11. ASSUME NEW w \in Workers, Lands(w)
       PROVE  /\ "LENGTH" \in CheckLevel => cl' + ul' = fl'
              /\ "DATA" \in CheckLevel => cd' + ud' >= fd'
  <2>1. ul' - fl' = ul - fl /\ ud' - fd' >= ud - fd
    BY <1>11, LandsAs
  <2>2. cl' = cl /\ cd' = cd
    BY <1>11 DEF Lands, worker, Counted
  <2> HIDE DEF cl, cd, ul, ud, fl, fd
  <2>3. PICK a \in Int, u \in Int, f \in Int, d \in Int, e \in Int, g \in Int :
          a = cl /\ u = ul /\ f = fl /\ d = cd /\ e = ud /\ g = fd
    BY <1>4, <1>5
  <2>4. PICK x \in Int, y \in Int, n \in Int, m \in Int :
          x = ul' /\ y = ud' /\ n = fl' /\ m = fd'
    BY <1>4, <1>5
  <2>5. x - n = u - f /\ y - m >= e - g
    BY <2>1, <2>3, <2>4
  <2>6. a + x - n = a + u - f /\ d + y - m >= d + e - g
    BY <2>5
  <2>7. /\ cl' + ul' - fl' = cl + ul - fl
        /\ cd' + ud' - fd' >= cd + ud - fd
    BY <2>2, <2>3, <2>4, <2>6
  <2> QED
    BY <1>6, <2>7
<1>12. ASSUME NEW w \in Workers, Drops(w)
       PROVE  fl' = fl /\ fd' = fd
  BY <1>3, <1>12 DEF Drops, Bump, FaultKinds
<1>13. ASSUME NEW w \in Workers, Drops(w)
       PROVE  /\ "LENGTH" \in CheckLevel => cl' + ul' = fl'
              /\ "DATA" \in CheckLevel => cd' + ud' >= fd'
  BY <1>8, <1>12, <1>13 DEF Drops
<1>14. CASE Sends \/ UNCHANGED <<worker, nic, fault, base>>
  BY <1>8, <1>14 DEF Sends, nic
<1> QED
  BY <1>1, <1>10, <1>11, <1>13, <1>14, Steps, NetworkSteps

\* With the check on, every frame whose length changed is counted once it has
\* been judged, and so is every frame whose content changed.
THEOREM DamageNoticedTheorem == Spec => []DamageNoticed
<1>1. /\ Init => DamageInv
      /\ RingInv /\ TypeOK /\ FrameInv /\ DamageInv /\ [Next]_vars /\ TypeOK'
           => DamageInv'
  BY DamageInit, DamageNext
<1>2. RingInv /\ TypeOK /\ FrameInv /\ DamageInv => DamageNoticed
  <2> SUFFICES ASSUME RingInv, TypeOK, FrameInv, DamageInv, Running,
                      NEW w \in Workers
               PROVE  /\ "LENGTH" \in CheckLevel =>
                           Counted(w, "error_len")
                             = fault[w]["resized"] - Waiting(w, IsResized)
                      /\ "DATA" \in CheckLevel =>
                           Counted(w, "error_data")
                             >= fault[w]["damaged"] - Waiting(w, IsDamaged)
    BY DEF DamageNoticed
  <2>1. iqueue[w] \in Seq(Frames)
    BY DEF TypeOK, NicTypeOK
  <2>2. InIqueue(w) \in Seq(Frames)
        /\ \A K : Count(InIqueue(w), K) = Unjudged(w, K) /\ Unjudged(w, K) \in Nat
    <3> SUFFICES ASSUME NEW K
                 PROVE  /\ InIqueue(w) \in Seq(Frames)
                        /\ Count(InIqueue(w), K) = Unjudged(w, K)
                        /\ Unjudged(w, K) \in Nat
      OBVIOUS
    <3>1. Count(iqueue[w], K) \in Nat
      BY <2>1, HitsFinite
    <3>2. CASE pc[w] = "judge"
      <4>1. idesc[w] \in Frames
        BY <3>2 DEF FrameInv, Own, Addressed
      <4>2. InIqueue(w) = Append(iqueue[w], idesc[w])
        BY <2>1, <3>2, <4>1 DEF InIqueue, At
      <4>3. Count(Append(iqueue[w], idesc[w]), K)
              = Count(iqueue[w], K) + One(idesc[w], K)
        BY <2>1, <4>1, CountAppend
      <4> QED
        BY <2>1, <3>1, <3>2, <4>1, <4>2, <4>3 DEF Unjudged, One
    <3>3. CASE pc[w] # "judge"
      <4>1. InIqueue(w) = iqueue[w]
        BY <2>1, <3>3 DEF InIqueue, At
      <4> QED
        BY <2>1, <3>1, <3>3, <4>1 DEF Unjudged
    <3> QED
      BY <3>2, <3>3
  <2>3. /\ Waiting(w, IsResized) = Unjudged(w, Resized)
        /\ Waiting(w, IsDamaged) = Unjudged(w, Damaged)
    <3>1. \A k \in DOMAIN InIqueue(w) : InIqueue(w)[k] \in Frames
      BY <2>2
    <3>2. /\ Waiting(w, IsResized) = Cardinality(Hits(InIqueue(w), Resized))
          /\ Waiting(w, IsDamaged) = Cardinality(Hits(InIqueue(w), Damaged))
      BY <3>1 DEF Waiting, Hits, Resized, Damaged
    <3> QED
      BY <2>2, <3>2 DEF Count
  <2>4. /\ fault[w]["resized"] \in Nat /\ fault[w]["damaged"] \in Nat
        /\ \A k \in {"error_len", "error_data"} : Counted(w, k) \in Int
    <3>1. /\ fault[w] \in [FaultKinds -> Nat]
          /\ count[w] \in [Counters -> Nat] /\ base[w] \in [Counters -> Nat]
      BY DEF TypeOK, WorkerTypeOK, NicTypeOK
    <3>2. \A k \in {"error_len", "error_data"} :
            count[w][k] \in Nat /\ base[w][k] \in Nat
      BY <3>1 DEF Counters
    <3> QED
      BY <3>1, <3>2 DEF FaultKinds, Counted
  <2>5. /\ "LENGTH" \in CheckLevel =>
             Counted(w, "error_len") + Unjudged(w, Resized)
               = fault[w]["resized"]
        /\ "DATA" \in CheckLevel =>
             Counted(w, "error_data") + Unjudged(w, Damaged)
               >= fault[w]["damaged"]
    BY DEF DamageInv
  <2> QED
    BY <2>2, <2>3, <2>4, <2>5
<1> QED
  BY <1>1, <1>2, RingInvariant, TypeCorrect, FrameInvariant, PTL DEF Spec

-----------------------------------------------------------------------------
(* No false alarm: as long as nothing happens to the frames of a worker,   *)
(* they come back in the order of its queue, each as it was sent.          *)

\* The packets worker w waits for, the frames it has received and not yet
\* judged, the frames its packets are sent as, and those it waits for.
Line(w) == QueueList(queue[w])
Coming(w) == (IF pc[w] = "judge" THEN <<idesc[w]>> ELSE <<>>) \o iqueue[w]
Wants(w) ==
  [b \in Buffers |->
     [src |-> w, dest |-> LastOctet(w), payload |-> data[w][b],
      length |-> "pktlen"]]
Awaited(w) == Through(Line(w), Wants(w))

\* What has come, then what is on the wire, then what is in the egress queue
\* is what worker w waits for, in its order.
Follows(w) ==
  \E a, b \in Seq(Frames) :
    /\ Part(a, wire, Own(w)) /\ Part(b, egress, Own(w))
    /\ Coming(w) \o (a \o b) = Awaited(w)

Matched ==
  Running => \A w \in Workers : ~ Disturbed(w) => Follows(w)

LEMMA MatchTypes ==
  ASSUME RingInv, TypeOK, FrameInv, NEW w \in Workers
  PROVE  /\ Line(w) \in Seq(Buffers)
         /\ Fits(Line(w), Wants(w), Buffers, Frames)
         /\ Coming(w) \in Seq(Frames) /\ iqueue[w] \in Seq(Frames)
         /\ pc[w] = "judge" => /\ idesc[w] \in Frames
                               /\ Coming(w) = <<idesc[w]>> \o iqueue[w]
         /\ pc[w] # "judge" => Coming(w) = iqueue[w]
         /\ egress \in Seq(Frames) /\ wire \in Seq(Frames)
<1>1. queue[w] \in QueueType(Once + 1)
  BY DEF RingInv, WorkerTypeOK
<1>2. Line(w) \in Seq(Buffers)
  BY <1>1, QueueIsList DEF Line
<1>3. Fits(Line(w), Wants(w), Buffers, Frames)
  <2>1. \A b \in Buffers : data[w][b] \in Payload \cup {Blank}
    BY DEF RingInv, WorkerTypeOK
  <2>2. LastOctet(w) \in 0 .. 255
    BY OctetAssumption, WorkersAssumption DEF LastOctet
  <2>3. \A b \in Buffers :
          [src |-> w, dest |-> LastOctet(w), payload |-> data[w][b],
           length |-> "pktlen"] \in Frames
    BY <2>1, <2>2 DEF Frames
  <2> QED
    BY <1>2, <2>3 DEF Wants, Fits
<1>4. iqueue[w] \in Seq(Frames) /\ egress \in Seq(Frames) /\ wire \in Seq(Frames)
  BY DEF TypeOK, NicTypeOK
<1>5. pc[w] = "judge" => idesc[w] \in Frames
  BY DEF FrameInv, Own, Addressed
<1>6. ASSUME pc[w] = "judge"
      PROVE  Coming(w) = <<idesc[w]>> \o iqueue[w] /\ Coming(w) \in Seq(Frames)
  <2>1. <<idesc[w]>> \in Seq(Frames)
    BY <1>5, <1>6
  <2> QED
    BY <1>4, <1>6, <2>1, ConcatProperties DEF Coming
<1>7. ASSUME pc[w] # "judge"
      PROVE  Coming(w) = iqueue[w]
  <2>1. <<>> \o iqueue[w] = iqueue[w]
    BY <1>4, ConcatEmptySeq
  <2> QED
    BY <1>7, <2>1 DEF Coming
<1> QED
  BY <1>2, <1>3, <1>4, <1>5, <1>6, <1>7

\* What a step of worker w does to its queue: nothing, unless it has sent a
\* packet or given a verdict; and a packet changes only when none is waited for.
LineStays(w) ==
  /\ pc[w] # "put" /\ (pc[w] \in {"recv", "judge"} => pc'[w] # "recv")
  /\ Line(w)' = Line(w) /\ (data'[w] = data[w] \/ Line(w) = <<>>)
LineGrows(w) ==
  /\ pc[w] = "put"
  /\ Line(w)' = Append(Line(w), packet[w]) /\ data'[w] = data[w]
LineServed(w) ==
  /\ pc[w] \in {"recv", "judge"} /\ pc'[w] = "recv"
  /\ Line(w) # <<>> /\ Line(w)' = Tail(Line(w)) /\ data'[w] = data[w]

LEMMA LineSteps ==
  ASSUME RingInv, Running, Running', NEW w \in Workers, Worker(w)
  PROVE  /\ LineStays(w) \/ LineGrows(w) \/ LineServed(w)
         /\ \A v \in Workers \ {w} : Line(v)' = Line(v) /\ data'[v] = data[v]
<1>1. /\ Once \in Nat /\ Once + 1 \in Nat \ {0} /\ i[w] \in 0 .. Once
      /\ QueueOK(queue[w], Once + 1) /\ PacketsSplit(w)
      /\ is_empty_manager_queue(queue[w]) <=> QueueCount(queue[w]) = 0
      /\ is_full_manager_queue(queue[w]) <=> QueueCount(queue[w]) = Once
  BY RingFacts
<1>2. /\ pc \in [Workers -> {"fill", "test", "send", "put", "recv", "judge",
                             "done"}]
      /\ queue \in [Workers -> QueueType(Once + 1)]
      /\ data \in [Workers -> [Buffers -> Payload \cup {Blank}]]
      /\ queue[w] \in QueueType(Once + 1) /\ packet[w] \in 0 .. (Once + 1) - 1
  BY <1>1 DEF RingInv, WorkerTypeOK, Buffers
<1>3. /\ pc[w] = "fill" => Line(w) = <<>>
      /\ pc[w] = "put" => QueueCount(queue[w]) < (Once + 1) - 1
      /\ pc[w] = "put" => ~ is_full_manager_queue(queue[w])
      /\ pc[w] = "judge" \/ (pc[w] = "recv" /\ i[w] < Once)
           => ~ is_empty_manager_queue(queue[w])
  BY <1>1, <1>2, QueueIsList DEF PacketsSplit, Line
<1> USE DEF At, Goto, others
<1>4. CASE MakePacket(w)
  <2>1. pc[w] = "fill" /\ queue' = queue
    BY <1>4 DEF MakePacket
  <2>2. \A v \in Workers \ {w} : data'[v] = data[v]
    BY <1>2, <1>4 DEF MakePacket
  <2> QED
    BY <1>3, <2>1, <2>2 DEF LineStays, Line
<1>5. CASE \/ MakeDone(w) \/ StartBatch(w) \/ Finish(w) \/ SendTake(w)
           \/ SendDone(w) \/ RecvGet(w) \/ RecvDone(w)
  <2>1. queue' = queue /\ data' = data
    BY <1>5 DEF MakeDone, StartBatch, Finish, SendTake, SendDone, RecvGet,
                RecvDone
  <2>2. pc[w] # "put" /\ (pc[w] \in {"recv", "judge"} => pc'[w] # "recv")
    BY <1>2, <1>5 DEF MakeDone, StartBatch, Finish, SendTake, SendDone, RecvGet,
                      RecvDone
  <2> QED
    BY <2>1, <2>2 DEF LineStays, Line
<1>6. CASE SendPut(w)
  <2>1. /\ pc[w] = "put" /\ data' = data
        /\ queue' = [queue EXCEPT ![w] = push_session_buf(queue[w], packet[w])]
    BY <1>3, <1>6 DEF SendPut
  <2>2. /\ queue'[w] = push_session_buf(queue[w], packet[w])
        /\ \A v \in Workers \ {w} : queue'[v] = queue[v]
    BY <1>2, <2>1
  <2>3. QueueList(push_session_buf(queue[w], packet[w]))
          = Append(QueueList(queue[w]), packet[w])
    BY <1>1, <1>2, <1>3, <2>1, PushList
  <2> QED
    BY <2>1, <2>2, <2>3 DEF LineGrows, Line
<1>7. CASE Judge(w) \/ RecvTimeout(w)
  <2>1. /\ pc[w] \in {"recv", "judge"} /\ ~ is_empty_manager_queue(queue[w])
        /\ data' = data
        /\ queue' = [queue EXCEPT ![w] = pop_session_buf(queue[w])]
        /\ pc'[w] = "recv"
    BY <1>2, <1>3, <1>7 DEF Judge, JudgeGoOn, JudgeExit, RecvTimeout, Running
  <2>2. /\ queue'[w] = pop_session_buf(queue[w])
        /\ \A v \in Workers \ {w} : queue'[v] = queue[v]
    BY <1>2, <2>1
  <2>3. /\ QueueList(queue[w]) # <<>>
        /\ QueueList(pop_session_buf(queue[w])) = Tail(QueueList(queue[w]))
    BY <1>1, <2>1, PopList
  <2> QED
    BY <2>1, <2>2, <2>3 DEF LineServed, Line
<1> QED
  BY <1>4, <1>5, <1>6, <1>7 DEF Worker

\* What happened to a frame is never forgotten.
LEMMA FaultsGrow ==
  ASSUME RingInv, TypeOK, FrameInv, [Next]_vars, Running, Running',
         NEW v \in Workers, ~ Disturbed(v)'
  PROVE  /\ ~ Disturbed(v)
         /\ \A k \in FaultKinds : fault[v][k] = 0 /\ fault'[v][k] = 0
<1>1. fault \in [Workers -> [FaultKinds -> Nat]]
  BY DEF TypeOK, NicTypeOK
<1>2. \/ fault' = fault
      \/ \E w \in Workers, j \in FaultKinds :
           fault' = [fault EXCEPT ![w] = Bump(@, j)]
  <2>1. CASE \E w \in Workers : Moves(w)
    BY <2>1 DEF Moves, Turn, Take, Put, Get, Passed, Missed, Expired, FaultKinds
  <2>2. CASE Sends \/ UNCHANGED <<worker, nic, fault, base>>
    BY <2>2 DEF Sends
  <2>3. CASE \E w \in Workers : Lands(w)
    BY <2>3 DEF Lands, Becomes, FaultKinds
  <2>4. CASE \E w \in Workers : Drops(w)
    BY <2>4 DEF Drops, FaultKinds
  <2> QED
    BY <2>1, <2>2, <2>3, <2>4, Steps, NetworkSteps
<1>3. ASSUME NEW k \in FaultKinds
      PROVE  fault[v][k] \in Nat /\ fault'[v][k] \in Nat
             /\ fault'[v][k] >= fault[v][k]
  <2>1. fault[v][k] \in Nat
    BY <1>1
  <2>2. CASE fault' = fault
    BY <2>1, <2>2
  <2>3. ASSUME NEW w \in Workers, NEW j \in FaultKinds,
               fault' = [fault EXCEPT ![w] = Bump(@, j)]
        PROVE  fault'[v][k] \in {fault[v][k], fault[v][k] + 1}
    BY <1>1, <2>3 DEF Bump
  <2> QED
    BY <1>2, <2>1, <2>2, <2>3
<1>4. \A k \in FaultKinds : ~ fault'[v][k] > 0
  BY DEF Disturbed
<1>5. \A k \in FaultKinds : fault[v][k] = 0 /\ fault'[v][k] = 0
  BY <1>3, <1>4
<1> QED
  BY <1>5 DEF Disturbed

\* A worker that gives up, with nothing of it under way, waits for nothing.
LEMMA NothingMissed ==
  ASSUME RingInv, TypeOK, FrameInv, NEW w \in Workers, Follows(w),
         pc[w] = "recv", iqueue[w] = <<>>, ~ UnderWay(w) > 0
  PROVE  Line(w) = <<>>
<1>1. PICK a \in Seq(Frames), b \in Seq(Frames) :
        /\ Part(a, wire, Own(w)) /\ Part(b, egress, Own(w))
        /\ Coming(w) \o (a \o b) = Awaited(w)
  BY DEF Follows
<1>2. /\ Fits(Line(w), Wants(w), Buffers, Frames)
      /\ Coming(w) = <<>>
      /\ egress \in Seq(Frames) /\ wire \in Seq(Frames)
  BY MatchTypes
<1>3. Hits(wire, Own(w)) = {} /\ Hits(egress, Own(w)) = {}
  <2>1. /\ UnderWay(w) = Count(egress, Own(w)) + Count(wire, Own(w))
        /\ Count(egress, Own(w)) \in Nat /\ Count(wire, Own(w)) \in Nat
    BY UnderWayCounts
  <2>2. Count(egress, Own(w)) = 0 /\ Count(wire, Own(w)) = 0
    BY <2>1
  <2>3. IsFiniteSet(Hits(wire, Own(w))) /\ IsFiniteSet(Hits(egress, Own(w)))
    BY <1>2, HitsFinite
  <2> QED
    BY <2>2, <2>3, FS_EmptySet DEF Count
<1>4. a = <<>> /\ b = <<>>
  BY <1>1, <1>2, <1>3, PartNone
<1>5. Awaited(w) = <<>>
  BY <1>1, <1>2, <1>4
<1> QED
  BY <1>2, <1>5, ThroughTail DEF Awaited

\* The next frame to be judged is the packet at the head of the queue.
LEMMA ComesFirst ==
  ASSUME RingInv, TypeOK, FrameInv, NEW w \in Workers, Follows(w),
         pc[w] = "judge", Line(w) # <<>>
  PROVE  idesc[w] = Wants(w)[Head(Line(w))]
<1>1. PICK a \in Seq(Frames), b \in Seq(Frames) :
        /\ Part(a, wire, Own(w)) /\ Part(b, egress, Own(w))
        /\ Coming(w) \o (a \o b) = Awaited(w)
  BY DEF Follows
<1>2. /\ Fits(Line(w), Wants(w), Buffers, Frames)
      /\ Coming(w) = <<idesc[w]>> \o iqueue[w] /\ idesc[w] \in Frames
      /\ Coming(w) \in Seq(Frames) /\ iqueue[w] \in Seq(Frames)
  BY MatchTypes
<1>3. /\ <<idesc[w]>> \in Seq(Frames) /\ <<idesc[w]>> # <<>>
      /\ Head(<<idesc[w]>>) = idesc[w]
  BY <1>2
<1>4. Coming(w) # <<>> /\ Head(Coming(w)) = idesc[w]
  BY <1>2, <1>3, JoinTail
<1>5. a \o b \in Seq(Frames)
  BY <1>1, ConcatProperties
<1>6. Head(Awaited(w)) = idesc[w]
  <2>1. PICK c, d : c = Coming(w) /\ d = a \o b
    OBVIOUS
  <2>2. c \in Seq(Frames) /\ d \in Seq(Frames) /\ c # <<>>
    BY <1>2, <1>4, <1>5, <2>1
  <2>3. Head(c \o d) = Head(c)
    BY <2>2, JoinTail
  <2> QED
    BY <1>1, <1>4, <2>1, <2>3
<1>7. Head(Awaited(w)) = Wants(w)[Head(Line(w))]
  BY <1>2, ThroughTail DEF Awaited
<1> QED
  BY <1>6, <1>7

\* The steps that leave alone what worker v waits for and what comes to it.
LEMMA StillMatched ==
  ASSUME RingInv, TypeOK, FrameInv, NEW v \in Workers, Follows(v),
         Line(v)' = Line(v), data'[v] = data[v] \/ Line(v) = <<>>,
         Coming(v)' = Coming(v),
         \A a, b \in Seq(Frames) :
           Part(a, wire, Own(v)) /\ Part(b, egress, Own(v)) =>
             \E c, d \in Seq(Frames) :
               /\ Part(c, wire', Own(v)) /\ Part(d, egress', Own(v))
               /\ c \o d = a \o b
  PROVE  Follows(v)'
<1>1. Awaited(v)' = Awaited(v)
  <2>1. CASE data'[v] = data[v]
    <3>1. Wants(v)' = Wants(v)
      BY <2>1 DEF Wants
    <3> QED
      BY <3>1 DEF Awaited
  <2>2. CASE Line(v) = <<>>
    BY <2>2, ThroughEmpty DEF Awaited
  <2> QED
    BY <2>1, <2>2
<1>2. PICK a \in Seq(Frames), b \in Seq(Frames) :
        /\ Part(a, wire, Own(v)) /\ Part(b, egress, Own(v))
        /\ Coming(v) \o (a \o b) = Awaited(v)
  BY DEF Follows
<1>3. PICK c \in Seq(Frames), d \in Seq(Frames) :
        /\ Part(c, wire', Own(v)) /\ Part(d, egress', Own(v))
        /\ c \o d = a \o b
  BY <1>2
<1>4. Coming(v)' \o (c \o d) = Awaited(v)'
  BY <1>1, <1>2, <1>3
<1> QED
  BY <1>3, <1>4 DEF Follows

\* A step of worker w, on the frames it waits for itself.
LEMMA OwnMatched ==
  ASSUME RingInv, TypeOK, FrameInv, RingInv', TypeOK', FrameInv',
         NEW w \in Workers, Follows(w), Moves(w),
         LineStays(w) \/ LineGrows(w) \/ LineServed(w),
         \A k \in FaultKinds : fault[w][k] = 0 /\ fault'[w][k] = 0
  PROVE  Follows(w)'
<1>1. PICK a \in Seq(Frames), b \in Seq(Frames) :
        /\ Part(a, wire, Own(w)) /\ Part(b, egress, Own(w))
        /\ Coming(w) \o (a \o b) = Awaited(w)
  BY DEF Follows
<1>2. /\ Fits(Line(w), Wants(w), Buffers, Frames)
      /\ Coming(w) \in Seq(Frames) /\ iqueue[w] \in Seq(Frames)
      /\ pc[w] = "judge" => /\ idesc[w] \in Frames
                            /\ Coming(w) = <<idesc[w]>> \o iqueue[w]
      /\ pc[w] # "judge" => Coming(w) = iqueue[w]
      /\ egress \in Seq(Frames) /\ wire \in Seq(Frames)
  BY MatchTypes
<1>3. /\ iqueue'[w] \in Seq(Frames)
      /\ pc'[w] = "judge" => idesc'[w] \in Frames
  BY DEF TypeOK, NicTypeOK, FrameInv, Own, Addressed
<1>4. /\ pc'[w] = "judge" => Coming(w)' = <<idesc'[w]>> \o iqueue'[w]
      /\ pc'[w] # "judge" => Coming(w)' = iqueue'[w]
  <2>1. <<>> \o iqueue'[w] = iqueue'[w]
    BY <1>3, ConcatEmptySeq
  <2> QED
    BY <2>1 DEF Coming
<1>5. a \o b \in Seq(Frames)
  BY <1>1, ConcatProperties
<1>6. CASE Turn(w) \/ Take(w)
  <2>1. /\ pc[w] # "judge" /\ pc'[w] # "judge" /\ iqueue' = iqueue
        /\ egress' = egress /\ wire' = wire
        /\ pc[w] # "put" /\ (pc[w] = "recv" => pc'[w] # "recv")
    BY <1>6 DEF Turn, Take, Goes, nic
  <2>2. LineStays(w) /\ Coming(w)' = Coming(w)
    BY <1>2, <1>4, <2>1 DEF LineGrows, LineServed
  <2> QED
    BY <2>1, <2>2, StillMatched DEF LineStays
<1>7. CASE Get(w)
  <2>1. /\ pc[w] = "recv" /\ pc'[w] = "judge" /\ iqueue[w] # <<>>
        /\ iqueue'[w] = Tail(iqueue[w]) /\ idesc'[w] = Head(iqueue[w])
        /\ egress' = egress /\ wire' = wire
    BY <1>7 DEF Get, Goes, TypeOK, NicTypeOK
  <2>2. Coming(w)' = Coming(w)
    <3>1. <<Head(iqueue[w])>> \o Tail(iqueue[w]) = iqueue[w]
      BY <1>2, <2>1
    <3> QED
      BY <1>2, <1>4, <2>1, <3>1
  <2>3. LineStays(w)
    BY <2>1 DEF LineGrows, LineServed
  <2> QED
    BY <2>1, <2>2, <2>3, StillMatched DEF LineStays
<1>8. CASE Put(w)
  <2>1. /\ pc[w] = "put" /\ pc'[w] = "send"
        /\ iqueue' = iqueue /\ wire' = wire /\ egress' = Append(egress, FrameOf(w))
    BY <1>8 DEF Put, Goes
  <2>2. LineGrows(w) /\ Coming(w)' = Coming(w)
    BY <1>2, <1>4, <2>1 DEF LineStays, LineServed
  <2>3. FrameOf(w) \in Frames /\ FrameOf(w) \in Own(w)
        /\ packet[w] \in Buffers /\ Wants(w)[packet[w]] = FrameOf(w)
    <3>1. FrameOf(w) \in Frames /\ packet[w] \in Buffers
      BY FrameType DEF TypeOK, WorkerTypeOK
    <3> QED
      BY <3>1 DEF FrameOf, Wants, Own, Addressed
  <2>4. PICK x \in Frames : x = FrameOf(w)
    BY <2>3
  <2>5. Part(Append(b, x), egress', Own(w)) /\ Append(b, x) \in Seq(Frames)
    <3>1. Append(b, x) \in Seq(Frames)
      BY <1>1, <2>4
    <3> QED
      BY <1>1, <1>2, <2>1, <2>3, <2>4, <3>1, PartAppend
  <2>6. Awaited(w)' = Append(Awaited(w), x)
    <3>1. Through(Append(Line(w), packet[w]), Wants(w))
            = Append(Through(Line(w), Wants(w)), Wants(w)[packet[w]])
      BY <1>2, <2>3, ThroughAppend
    <3>2. Wants(w)' = Wants(w)
      BY <2>2 DEF LineGrows, Wants
    <3> QED
      BY <2>2, <2>3, <2>4, <3>1, <3>2 DEF Awaited, LineGrows
  <2>7. Coming(w) \o (a \o Append(b, x)) = Append(Coming(w) \o (a \o b), x)
    <3>1. a \o Append(b, x) = Append(a \o b, x)
      BY <1>1, <2>4, JoinAppend
    <3>2. PICK c, d : c = Coming(w) /\ d = a \o b
      OBVIOUS
    <3>3. c \in Seq(Frames) /\ d \in Seq(Frames)
      BY <1>2, <1>5, <3>2
    <3>4. c \o Append(d, x) = Append(c \o d, x)
      BY <2>4, <3>3, JoinAppend
    <3> QED
      BY <3>1, <3>2, <3>4
  <2>8. Coming(w)' \o (a \o Append(b, x)) = Awaited(w)'
    BY <1>1, <2>2, <2>6, <2>7
  <2> QED
    BY <1>1, <2>1, <2>5, <2>8 DEF Follows
<1>9. CASE Passed(w)
  <2>1. /\ pc[w] = "judge" /\ pc'[w] = "recv" /\ iqueue' = iqueue
        /\ egress' = egress /\ wire' = wire
    BY <1>9 DEF Passed, Goes
  <2>2. LineServed(w)
    BY <2>1 DEF LineStays, LineGrows
  <2>3. Coming(w) # <<>> /\ Coming(w)' = Tail(Coming(w))
    <3>1. PICK f \in Frames, q \in Seq(Frames) : f = idesc[w] /\ q = iqueue[w]
      BY <1>2, <2>1
    <3>2. <<f>> \in Seq(Frames) /\ <<f>> # <<>> /\ Tail(<<f>>) = <<>>
      BY <3>1
    <3>3. <<f>> \o q # <<>> /\ Tail(<<f>> \o q) = Tail(<<f>>) \o q
      BY <3>1, <3>2, JoinTail
    <3>4. <<>> \o q = q
      BY <3>1, ConcatEmptySeq
    <3> QED
      BY <1>2, <1>4, <2>1, <3>1, <3>2, <3>3, <3>4
  <2>4. Awaited(w)' = Tail(Awaited(w))
    <3>1. Through(Tail(Line(w)), Wants(w)) = Tail(Through(Line(w), Wants(w)))
      BY <1>2, <2>2, ThroughTail DEF LineServed
    <3>2. Wants(w)' = Wants(w)
      BY <2>2 DEF LineServed, Wants
    <3> QED
      BY <2>2, <3>1, <3>2 DEF Awaited, LineServed
  <2>5. Tail(Coming(w) \o (a \o b)) = Tail(Coming(w)) \o (a \o b)
    <3>1. PICK c, d : c = Coming(w) /\ d = a \o b
      OBVIOUS
    <3>2. c \in Seq(Frames) /\ d \in Seq(Frames) /\ c # <<>>
      BY <1>2, <1>5, <2>3, <3>1
    <3>3. Tail(c \o d) = Tail(c) \o d
      BY <3>2, JoinTail
    <3> QED
      BY <3>1, <3>3
  <2>6. Coming(w)' \o (a \o b) = Awaited(w)'
    BY <1>1, <2>3, <2>4, <2>5
  <2> QED
    BY <1>1, <2>1, <2>6 DEF Follows
<1>10. CASE Missed(w)
  <2>1. /\ pc[w] = "recv" /\ pc'[w] = "recv" /\ iqueue[w] = <<>>
        /\ UnderWay(w) > 0 => fault' = [fault EXCEPT ![w] = Bump(@, "late")]
    BY <1>10 DEF Missed, Goes, Expired
  <2>2. ~ UnderWay(w) > 0
    <3> SUFFICES ASSUME fault' = [fault EXCEPT ![w] = Bump(@, "late")]
                 PROVE  FALSE
      BY <2>1
    <3>1. fault[w]["late"] = 0 /\ fault'[w]["late"] = fault[w]["late"] + 1
      BY DEF TypeOK, NicTypeOK, Bump, FaultKinds
    <3>2. fault'[w]["late"] = 0
      BY DEF FaultKinds
    <3> QED
      BY <3>1, <3>2
  <2>3. Line(w) = <<>>
    BY <2>1, <2>2, NothingMissed
  <2>4. LineServed(w)
    BY <2>1 DEF LineStays, LineGrows
  <2> QED
    BY <2>3, <2>4 DEF LineServed
<1> QED
  BY <1>6, <1>7, <1>8, <1>9, <1>10 DEF Moves

\* A step of worker w, on the frames another one waits for.
LEMMA OtherMatched ==
  ASSUME RingInv, TypeOK, FrameInv, NEW w \in Workers, Moves(w), Only(w),
         NEW v \in Workers \ {w}, Follows(v),
         Line(v)' = Line(v), data'[v] = data[v]
  PROVE  Follows(v)'
<1>1. egress \in Seq(Frames) /\ iqueue \in [Workers -> Seq(Frames)]
  BY DEF TypeOK, NicTypeOK
<1>2. iqueue'[v] = iqueue[v] /\ wire' = wire
  BY <1>1 DEF Moves, Turn, Take, Put, Get, Passed, Missed, nic
<1>3. Coming(v)' = Coming(v)
  BY <1>2 DEF Coming, Only
<1>4. egress' = egress \/ egress' = Append(egress, FrameOf(w))
  BY DEF Moves, Turn, Take, Put, Get, Passed, Missed, nic
<1>5. FrameOf(w) \in Frames /\ FrameOf(w) \notin Own(v)
  <2>1. FrameOf(w).src = w
    BY DEF FrameOf
  <2> QED
    BY <2>1, FrameType DEF TypeOK, Own
<1>6. ASSUME NEW b \in Seq(Frames), Part(b, egress, Own(v))
      PROVE  Part(b, egress', Own(v))
  <2>1. PICK x \in Frames : x = FrameOf(w)
    BY <1>5
  <2>2. x \notin Own(v)
    BY <1>5, <2>1
  <2>3. Part(b, Append(egress, x), Own(v))
    BY <1>1, <1>6, <2>1, <2>2, PartAppend
  <2> QED
    BY <1>4, <1>6, <2>1, <2>3
<1> QED
  BY <1>2, <1>3, <1>6, StillMatched

\* A step of the network chip or of the network.
LEMMA NetworkMatched ==
  ASSUME RingInv, TypeOK, FrameInv, NEW v \in Workers, Follows(v),
         Sends \/ \E w \in Workers : Lands(w) \/ Drops(w),
         \A k \in FaultKinds : fault[v][k] = 0 /\ fault'[v][k] = 0
  PROVE  Follows(v)'
<1>1. /\ egress \in Seq(Frames) /\ wire \in Seq(Frames)
      /\ iqueue \in [Workers -> Seq(Frames)] /\ iqueue[v] \in Seq(Frames)
      /\ fault \in [Workers -> [FaultKinds -> Nat]]
  BY DEF TypeOK, NicTypeOK
<1>2. Line(v)' = Line(v) /\ data' = data /\ pc' = pc /\ idesc' = idesc
  BY DEF Sends, Lands, Drops, worker, Line
<1>3. CASE Sends
  <2>1. /\ egress # <<>> /\ egress' = Tail(egress)
        /\ wire' = Append(wire, Head(egress)) /\ iqueue' = iqueue
    BY <1>3 DEF Sends
  <2>2. Coming(v)' = Coming(v)
    BY <1>2, <2>1 DEF Coming
  <2>3. PICK h \in Frames : h = Head(egress)
    BY <1>1, <2>1
  <2>4. ASSUME NEW a \in Seq(Frames), NEW b \in Seq(Frames),
               Part(a, wire, Own(v)), Part(b, egress, Own(v))
        PROVE  \E c, d \in Seq(Frames) :
                 /\ Part(c, wire', Own(v)) /\ Part(d, egress', Own(v))
                 /\ c \o d = a \o b
    <3>1. CASE h \in Own(v)
      <4>1. b # <<>> /\ Head(b) = h /\ Part(Tail(b), Tail(egress), Own(v))
        BY <1>1, <2>1, <2>3, <2>4, <3>1, PartTail
      <4>2. Part(Append(a, h), Append(wire, h), Own(v))
        BY <1>1, <2>3, <2>4, <3>1, PartAppend
      <4>3. Append(a, h) \o Tail(b) = a \o b
        BY <4>1, JoinMoved
      <4>4. Append(a, h) \in Seq(Frames) /\ Tail(b) \in Seq(Frames)
        BY <2>3, <4>1
      <4> QED
        BY <2>1, <2>3, <4>1, <4>2, <4>3, <4>4
    <3>2. CASE h \notin Own(v)
      <4>1. Part(b, Tail(egress), Own(v))
        BY <1>1, <2>1, <2>3, <2>4, <3>2, PartTail
      <4>2. Part(a, Append(wire, h), Own(v))
        BY <1>1, <2>3, <2>4, <3>2, PartAppend
      <4> QED
        BY <2>1, <2>3, <4>1, <4>2
    <3> QED
      BY <3>1, <3>2
  <2> QED
    BY <1>2, <2>2, <2>4, StillMatched
\* The head of the wire is a frame of w, which is lost or goes to w alone.
<1>4. ASSUME NEW w \in Workers, Lands(w) \/ Drops(w)
      PROVE  /\ wire # <<>> /\ wire' = Tail(wire) /\ egress' = egress
             /\ Head(wire) \in Own(w)
  BY <1>4 DEF Lands, Drops
<1>5. ASSUME NEW w \in Workers, Lands(w) \/ Drops(w), w # v
      PROVE  Follows(v)'
  <2>1. iqueue'[v] = iqueue[v]
    BY <1>1, <1>5 DEF Lands, Drops
  <2>2. Coming(v)' = Coming(v)
    BY <1>2, <2>1 DEF Coming
  <2>3. Head(wire) \notin Own(v)
    BY <1>4, <1>5 DEF Own
  <2>4. ASSUME NEW a \in Seq(Frames), Part(a, wire, Own(v))
        PROVE  Part(a, wire', Own(v))
    <3>1. wire # <<>> /\ wire' = Tail(wire)
      BY <1>4, <1>5
    <3>2. Part(a, Tail(wire), Own(v))
      BY <1>1, <2>3, <2>4, <3>1, PartTail
    <3> QED
      BY <3>1, <3>2
  <2> QED
    BY <1>2, <1>4, <1>5, <2>2, <2>4, StillMatched
<1>6. ~ Drops(v)
  <2> SUFFICES ASSUME Drops(v) PROVE FALSE
    OBVIOUS
  <2>1. PICK k \in {"lost", "overflow"} : fault' = [fault EXCEPT ![v] = Bump(@, k)]
    BY DEF Drops
  <2>2. k \in FaultKinds
    BY <2>1 DEF FaultKinds
  <2>3. fault[v][k] = 0 /\ fault'[v][k] = fault[v][k] + 1
    BY <1>1, <2>1, <2>2 DEF Bump
  <2> QED
    BY <2>2, <2>3
<1>7. CASE Lands(v)
  <2>1. PICK f \in Own(v) :
          Becomes(v, f) /\ iqueue' = [iqueue EXCEPT ![v] = Append(@, f)]
    BY <1>7 DEF Lands
  <2>2. f = Head(wire)
    <3>1. ASSUME NEW k \in FaultKinds
          PROVE  fault' # [fault EXCEPT ![v] = Bump(@, k)]
      <4> SUFFICES ASSUME fault' = [fault EXCEPT ![v] = Bump(@, k)]
                   PROVE  FALSE
        OBVIOUS
      <4>1. fault[v][k] = 0 /\ fault'[v][k] = fault[v][k] + 1
        BY <1>1, <3>1 DEF Bump
      <4> QED
        BY <3>1, <4>1
    <3>2. "damaged" \in FaultKinds /\ "resized" \in FaultKinds
      BY DEF FaultKinds
    <3> QED
      BY <2>1, <3>1, <3>2 DEF Becomes
  <2>3. PICK a \in Seq(Frames), b \in Seq(Frames) :
          /\ Part(a, wire, Own(v)) /\ Part(b, egress, Own(v))
          /\ Coming(v) \o (a \o b) = Awaited(v)
    BY DEF Follows
  <2>4. /\ a # <<>> /\ Head(a) = f /\ Part(Tail(a), wire', Own(v))
        /\ Tail(a) \in Seq(Frames) /\ f \in Frames
    <3>1. a # <<>> /\ Head(a) = Head(wire) /\ Part(Tail(a), Tail(wire), Own(v))
      BY <1>1, <1>4, <1>7, <2>3, PartTail
    <3>2. f \in Frames
      BY <2>1 DEF Own, Addressed
    <3>3. Tail(a) \in Seq(Frames)
      BY <2>3, <3>1
    <3> QED
      BY <1>4, <1>7, <2>2, <3>1, <3>2, <3>3
  <2>5. iqueue'[v] = Append(iqueue[v], f)
    BY <1>1, <2>1
  <2>6. Coming(v) \in Seq(Frames) /\ Coming(v)' = Append(Coming(v), f)
    <3>1. Coming(v) \in Seq(Frames)
      BY MatchTypes
    <3>2. CASE pc[v] = "judge"
      <4>0. idesc[v] \in Frames
        BY <3>2 DEF FrameInv, Own, Addressed
      <4>1. <<idesc[v]>> \in Seq(Frames)
        BY <4>0
      <4>2. <<idesc[v]>> \o Append(iqueue[v], f)
              = Append(<<idesc[v]>> \o iqueue[v], f)
        BY <1>1, <2>4, <4>1, JoinAppend
      <4> QED
        BY <1>2, <2>5, <3>1, <3>2, <4>2 DEF Coming
    <3>3. CASE pc[v] # "judge"
      <4>1. /\ <<>> \o iqueue[v] = iqueue[v]
            /\ <<>> \o Append(iqueue[v], f) = Append(iqueue[v], f)
        BY <1>1, <2>4, ConcatEmptySeq, AppendProperties
      <4> QED
        BY <1>2, <2>5, <3>1, <3>3, <4>1 DEF Coming
    <3> QED
      BY <3>2, <3>3
  <2>7. Append(Coming(v), f) \o (Tail(a) \o b) = Coming(v) \o (a \o b)
    <3>1. PICK c \in Seq(Frames) : c = Coming(v)
      BY <2>6
    <3>2. a \o b \in Seq(Frames) /\ a \o b # <<>> /\ Head(a \o b) = f
          /\ Tail(a \o b) = Tail(a) \o b
      BY <2>3, <2>4, JoinTail, ConcatProperties
    <3>3. PICK d \in Seq(Frames) : d = a \o b
      BY <3>2
    <3>4. Append(c, Head(d)) \o Tail(d) = c \o d
      BY <3>1, <3>2, <3>3, JoinMoved
    <3> QED
      BY <3>1, <3>2, <3>3, <3>4
  <2>8. Awaited(v)' = Awaited(v)
    BY <1>2 DEF Awaited, Wants
  <2>9. Coming(v)' \o (Tail(a) \o b) = Awaited(v)'
    BY <2>3, <2>6, <2>7, <2>8
  <2> QED
    BY <1>4, <1>7, <2>3, <2>4, <2>9 DEF Follows
<1> QED
  BY <1>3, <1>5, <1>6, <1>7

LEMMA MatchedInit == Init => Matched
<1> SUFFICES ASSUME Init, NEW w \in Workers PROVE Follows(w)
  BY DEF Matched
<1>1. egress = <<>> /\ wire = <<>> /\ iqueue[w] = <<>> /\ pc[w] = "fill"
  BY DEF Init
<1>2. Line(w) = <<>>
  <2>1. Once + 1 \in Nat \ {0}
    BY OnceAssumption
  <2>2. /\ init_manager_queue(Once + 1) \in QueueType(Once + 1)
        /\ QueueCount(init_manager_queue(Once + 1)) = 0
    BY <2>1, InitQueue DEF QueueOK
  <2>3. queue[w] = init_manager_queue(Once + 1)
    BY DEF Init
  <2> QED
    BY <2>2, <2>3, QueueIsList DEF Line
<1>3. Awaited(w) = <<>>
  BY <1>2, ThroughEmpty DEF Awaited
<1>4. <<>> \in Seq(Frames) /\ <<>> \o <<>> = <<>> /\ Hits(<<>>, Own(w)) = {}
  BY DEF Hits
<1>5. Part(<<>>, <<>>, Own(w))
  BY <1>4, PartNone
<1>6. Coming(w) = <<>>
  BY <1>1, <1>4 DEF Coming
<1>7. Coming(w) \o (<<>> \o <<>>) = Awaited(w)
  BY <1>3, <1>4, <1>6
<1> QED
  BY <1>1, <1>4, <1>5, <1>7 DEF Follows

LEMMA MatchedNext ==
  ASSUME RingInv, TypeOK, FrameInv, Matched, [Next]_vars,
         RingInv', TypeOK', FrameInv'
  PROVE  Matched'
<1> SUFFICES ASSUME Running', NEW v \in Workers, ~ Disturbed(v)'
             PROVE  Follows(v)'
  BY DEF Matched
<1>1. Running
  BY NoSteps DEF vars, others, flags, Running
<1>2. ~ Disturbed(v) /\ \A k \in FaultKinds : fault[v][k] = 0 /\ fault'[v][k] = 0
  BY <1>1, FaultsGrow
<1>3. Follows(v)
  BY <1>1, <1>2 DEF Matched
<1>4. ASSUME NEW w \in Workers, Worker(w)
      PROVE  Follows(v)'
  <2>1. /\ Moves(w) /\ Only(w)
        /\ LineStays(w) \/ LineGrows(w) \/ LineServed(w)
        /\ \A x \in Workers \ {w} : Line(x)' = Line(x) /\ data'[x] = data[x]
    BY <1>1, <1>4, WorkerSteps, LineSteps
  <2>2. CASE w = v
    BY <1>2, <1>3, <2>1, <2>2, OwnMatched
  <2>3. CASE w # v
    <3>1. v \in Workers \ {w}
      BY <2>3
    <3> QED
      BY <1>3, <1>4, <2>1, <3>1, OtherMatched
  <2> QED
    BY <2>2, <2>3
<1>5. CASE Network
  BY <1>2, <1>3, <1>5, NetworkSteps, NetworkMatched
<1>6. CASE UNCHANGED <<worker, nic, fault, base>>
  BY <1>3, <1>6 DEF worker, nic, Follows, Coming, Awaited, Line, Wants
<1>7. CASE (\E w \in Workers : TimeUp(w)) \/ Sigint \/ SigintExit
             \/ Terminating \/ UNCHANGED vars
  BY <1>6, <1>7 DEF TimeUp, Sigint, SigintExit, Terminating, vars, others
<1> QED
  BY <1>4, <1>5, <1>7 DEF Next

\* The columns of errors change in the verdicts only.
LEMMA ErrorsCounted ==
  ASSUME RingInv, TypeOK, [Next]_vars, NEW v \in Workers,
         Errors(count'[v]) # Errors(count[v])
  PROVE  Running /\ (Judge(v) \/ RecvTimeout(v))
<1>1. count \in [Workers -> [Counters -> Nat]]
  BY DEF TypeOK, WorkerTypeOK
<1>2. Running /\ count' # count
  BY NoSteps DEF vars, worker
<1>3. PICK w \in Workers : Worker(w)
  BY <1>2 DEF Next, TimeUp, Network, Transmit, Arrive, ArriveDamaged,
     ArriveResized, ArriveAs, Lose, Sigint, SigintExit, Terminating, vars, worker
<1>4. CASE MakePacket(w) \/ SendTake(w)
  <2>1. count' = count \/ count' = [count EXCEPT ![w] = Bump(@, "drop_total")]
    BY <1>4 DEF MakePacket, SendTake
  <2>2. CASE count' = [count EXCEPT ![w] = Bump(@, "drop_total")]
    <3>1. \A k \in {"error_len", "error_data", "error_recv"} :
            count'[v][k] = count[v][k]
      BY <1>1, <2>2 DEF Bump, Counters
    <3> QED
      BY <3>1 DEF Errors
  <2> QED
    BY <1>2, <2>1, <2>2
<1>5. CASE Judge(w) \/ RecvTimeout(w)
  <2>1. \A x \in Workers \ {w} : count'[x] = count[x]
    BY <1>1, <1>5 DEF Judge, JudgeGoOn, JudgeExit, RecvTimeout
  <2>2. v = w
    BY <2>1
  <2> QED
    BY <1>2, <1>5, <2>2
<1>6. CASE \/ MakeDone(w) \/ StartBatch(w) \/ Finish(w) \/ SendPut(w)
           \/ SendDone(w) \/ RecvGet(w) \/ RecvDone(w)
  BY <1>2, <1>6 DEF MakeDone, StartBatch, Finish, SendPut, SendDone, RecvGet,
                    RecvDone
<1> QED
  BY <1>3, <1>4, <1>5, <1>6 DEF Worker

\* A worker to whose frames nothing happened finds its own packet intact.
LEMMA GoodVerdict ==
  ASSUME RingInv, TypeOK, FrameInv, Matched, Running, NEW v \in Workers,
         ~ Disturbed(v), pc[v] = "judge"
  PROVE  /\ ~ is_empty_manager_queue(queue[v])
         /\ Errors(AfterLength(v)) = Errors(count[v])
         /\ Errors(AfterData(v)) = Errors(count[v])
<1>1. /\ Once + 1 \in Nat \ {0} /\ QueueOK(queue[v], Once + 1)
      /\ ~ is_empty_manager_queue(queue[v])
  BY RingFacts DEF PacketsSplit
<1>2. /\ Line(v) # <<>> /\ Line(v) \in Seq(Buffers)
      /\ Head(Line(v)) = pop_session_buf_data(queue[v])
  BY <1>1, PopList, MatchTypes DEF Line
<1>3. idesc[v] = Wants(v)[Head(Line(v))]
  BY <1>2, ComesFirst DEF Matched
<1>4. Head(Line(v)) \in Buffers
  BY <1>2
<1>5. /\ idesc[v].length = "pktlen"
      /\ idesc[v].payload = data[v][pop_session_buf_data(queue[v])]
  BY <1>2, <1>3, <1>4 DEF Wants
<1>6. ~ LengthWrong(v) /\ ~ DataWrong(v)
  BY <1>5 DEF LengthWrong, DataWrong
<1>7. count[v] \in [Counters -> Nat]
  BY DEF TypeOK, WorkerTypeOK
<1>8. ASSUME NEW c \in [Counters -> Nat], NEW k \in {"correct_len", "correct_data"}
      PROVE  Bump(c, k) \in [Counters -> Nat] /\ Errors(Bump(c, k)) = Errors(c)
  BY DEF Bump, Counters, Errors
<1>9. /\ AfterLength(v) \in [Counters -> Nat]
      /\ Errors(AfterLength(v)) = Errors(count[v])
  BY <1>6, <1>7, <1>8 DEF AfterLength
<1>10. Errors(AfterData(v)) = Errors(count[v])
  BY <1>6, <1>8, <1>9 DEF AfterData
<1> QED
  BY <1>1, <1>9, <1>10

LEMMA NoAlarm ==
  ASSUME RingInv, TypeOK, FrameInv, Matched, [Next]_vars, TypeOK',
         NEW v \in Workers, Errors(count'[v]) # Errors(count[v])
  PROVE  Disturbed(v)'
<1> SUFFICES ASSUME ~ Disturbed(v)' PROVE FALSE
  OBVIOUS
<1>1. Running /\ (Judge(v) \/ RecvTimeout(v))
  BY ErrorsCounted
<1>2. /\ fault \in [Workers -> [FaultKinds -> Nat]]
      /\ count \in [Workers -> [Counters -> Nat]]
  BY DEF TypeOK, WorkerTypeOK, NicTypeOK
<1>3. CASE Judge(v)
  <2>1. pc[v] = "judge" /\ fault' = fault
    BY <1>3 DEF Judge, At
  <2>2. ~ Disturbed(v)
    BY <2>1 DEF Disturbed
  <2>3. /\ ~ is_empty_manager_queue(queue[v])
        /\ Errors(AfterLength(v)) = Errors(count[v])
        /\ Errors(AfterData(v)) = Errors(count[v])
    BY <1>1, <2>1, <2>2, GoodVerdict
  <2>4. count'[v] \in {AfterLength(v), AfterData(v)}
    BY <1>2, <1>3, <2>3 DEF Judge, JudgeGoOn, JudgeExit
  <2> QED
    BY <2>3, <2>4
<1>4. CASE RecvTimeout(v)
  <2>1. pc[v] = "recv" /\ i[v] < Once /\ iqueue[v] = <<>>
    BY <1>4 DEF RecvTimeout, Expired, At
  <2>2. CASE UnderWay(v) > 0
    <3>1. fault' = [fault EXCEPT ![v] = Bump(@, "late")]
      BY <1>4, <2>2 DEF RecvTimeout, Expired
    <3>2. "late" \in FaultKinds /\ fault[v]["late"] \in Nat
      BY <1>2 DEF FaultKinds
    <3>3. fault'[v]["late"] = fault[v]["late"] + 1
      BY <1>2, <3>1, <3>2 DEF Bump
    <3>4. fault'[v]["late"] > 0
      BY <3>2, <3>3
    <3> QED
      BY <3>2, <3>4 DEF Disturbed
  <2>3. CASE ~ UnderWay(v) > 0
    <3>1. fault' = fault
      BY <1>4, <2>3 DEF RecvTimeout, Expired
    <3>2. ~ Disturbed(v)
      BY <3>1 DEF Disturbed
    <3>3. Line(v) = <<>>
      BY <1>1, <2>1, <2>3, <3>2, NothingMissed DEF Matched
    <3>4. /\ Once + 1 \in Nat \ {0} /\ QueueOK(queue[v], Once + 1)
          /\ ~ is_empty_manager_queue(queue[v])
      BY <1>1, <2>1, RingFacts DEF PacketsSplit
    <3>5. Line(v) # <<>>
      BY <3>4, PopList DEF Line
    <3> QED
      BY <3>3, <3>5
  <2> QED
    BY <2>2, <2>3
<1> QED
  BY <1>1, <1>3, <1>4

\* A worker counts an error only after something happened to one of its
\* frames: the frames come back in the order of the queue, so each is judged
\* against the packet it was sent as, and a worker with nothing under way has
\* nothing to wait for.
THEOREM NoFalseAlarmTheorem == Spec => NoFalseAlarm
<1>1. /\ Init => Matched
      /\ /\ RingInv /\ TypeOK /\ FrameInv /\ Matched /\ [Next]_vars
         /\ RingInv' /\ TypeOK' /\ FrameInv'
         => Matched'
  BY MatchedInit, MatchedNext
<1>2. RingInv /\ TypeOK /\ FrameInv /\ Matched /\ [Next]_vars /\ TypeOK'
        => [\A w \in Workers :
              Errors(count'[w]) # Errors(count[w]) => Disturbed(w)']_vars
  BY NoAlarm
<1> QED
  BY <1>1, <1>2, RingInvariant, TypeCorrect, FrameInvariant, PTL
     DEF Spec, NoFalseAlarm
=============================================================================
