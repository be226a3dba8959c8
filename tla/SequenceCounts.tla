--------------------------- MODULE SequenceCounts ---------------------------
(***************************************************************************)
(* How many elements of a queue are of a kind, and what becomes of that    *)
(* number when the queue grows at its end or loses its head; the part of a *)
(* queue that is of a kind, and what becomes of its order; and queues one  *)
(* behind the other, when an element moves from one to the next.  The      *)
(* proofs about the frames in the queues of the chips rest on it.          *)
(***************************************************************************)
EXTENDS Naturals, Sequences, FiniteSets, FiniteSetTheorems, SequenceTheorems,
        TLAPS

\* The places in s where an element of K stands.
Hits(s, K) == {k \in DOMAIN s : s[k] \in K}

Count(s, K) == Cardinality(Hits(s, K))

One(x, K) == IF x \in K THEN 1 ELSE 0

\* Every element of the queue s is of the kind K.
AllIn(s, K) == \A k \in DOMAIN s : s[k] \in K

LEMMA AllInEmpty == \A K : AllIn(<<>>, K)
BY DEF AllIn

LEMMA AllInTail ==
  ASSUME NEW T, NEW s \in Seq(T), s # <<>>, NEW K, AllIn(s, K)
  PROVE  Head(s) \in K /\ AllIn(Tail(s), K)
BY DEF AllIn

LEMMA AllInAppend ==
  ASSUME NEW T, NEW s \in Seq(T), NEW K, AllIn(s, K), NEW f \in K \cap T
  PROVE  AllIn(Append(s, f), K)
BY DEF AllIn

LEMMA HitsFinite ==
  ASSUME NEW T, NEW s \in Seq(T), NEW K
  PROVE  IsFiniteSet(Hits(s, K)) /\ Count(s, K) \in Nat /\ Count(s, K) <= Len(s)
<1> DEFINE n == Len(s)
<1>0. n \in Nat /\ DOMAIN s = 1 .. n
  OBVIOUS
<1>1. IsFiniteSet(1 .. n) /\ Cardinality(1 .. n) = n
  <2> HIDE DEF n
  <2>1. /\ IsFiniteSet(1 .. n)
        /\ Cardinality(1 .. n) = IF 1 > n THEN 0 ELSE n - 1 + 1
    BY <1>0, FS_Interval
  <2> QED
    BY <1>0, <2>1
<1>2. Hits(s, K) \subseteq 1 .. n
  BY DEF Hits
<1>3. IsFiniteSet(Hits(s, K)) /\ Cardinality(Hits(s, K)) <= Len(s)
  BY <1>1, <1>2, FS_Subset
<1> QED
  BY <1>3, FS_CardinalityType DEF Count

LEMMA CountEmpty == \A K : Count(<<>>, K) = 0
<1> SUFFICES ASSUME NEW K PROVE Count(<<>>, K) = 0
  OBVIOUS
<1>1. Hits(<<>>, K) = {}
  BY DEF Hits
<1> QED
  BY <1>1, FS_EmptySet DEF Count

LEMMA CountAppend ==
  ASSUME NEW T, NEW s \in Seq(T), NEW x \in T, NEW K
  PROVE  Count(Append(s, x), K) = Count(s, K) + One(x, K)
<1>1. IsFiniteSet(Hits(s, K)) /\ Count(s, K) \in Nat
  BY HitsFinite
<1>2. CASE x \in K
  <2>1. Hits(Append(s, x), K) = Hits(s, K) \cup {Len(s) + 1}
    BY <1>2 DEF Hits
  <2>2. Len(s) + 1 \notin Hits(s, K)
    BY DEF Hits
  <2> QED
    BY <1>1, <1>2, <2>1, <2>2, FS_AddElement DEF Count, One
<1>3. CASE x \notin K
  <2>1. Hits(Append(s, x), K) = Hits(s, K)
    BY <1>3 DEF Hits
  <2> QED
    BY <1>1, <1>3, <2>1 DEF Count, One
<1> QED
  BY <1>2, <1>3

LEMMA CountTail ==
  ASSUME NEW T, NEW s \in Seq(T), s # <<>>, NEW K
  PROVE  Count(s, K) = Count(Tail(s), K) + One(Head(s), K)
<1> DEFINE rest == Hits(s, K) \ {1}
           shift == [k \in Hits(Tail(s), K) |-> k + 1]
<1>1. /\ Tail(s) \in Seq(T) /\ Len(s) \in Nat /\ Len(s) >= 1
      /\ Len(Tail(s)) = Len(s) - 1 /\ Head(s) = s[1]
      /\ \A k \in 1 .. Len(s) - 1 : Tail(s)[k] = s[k + 1]
  OBVIOUS
<1>2. IsFiniteSet(Hits(s, K)) /\ IsFiniteSet(Hits(Tail(s), K))
      /\ Count(s, K) \in Nat /\ Count(Tail(s), K) \in Nat
  BY <1>1, HitsFinite
<1>3. Hits(Tail(s), K) = {k \in 1 .. Len(s) - 1 : s[k + 1] \in K}
  BY <1>1 DEF Hits
<1>4. rest = {k \in 2 .. Len(s) : s[k] \in K}
  BY <1>1 DEF Hits
<1>5. ExistsBijection(Hits(Tail(s), K), rest)
  <2>1. shift \in [Hits(Tail(s), K) -> rest]
    BY <1>1, <1>3, <1>4
  <2>2. \A a, b \in Hits(Tail(s), K) : shift[a] = shift[b] => a = b
    BY <1>1, <1>3
  <2>3. \A t \in rest : \E k \in Hits(Tail(s), K) : shift[k] = t
    <3> SUFFICES ASSUME NEW t \in rest
                 PROVE  \E k \in Hits(Tail(s), K) : shift[k] = t
      OBVIOUS
    <3>1. t \in 2 .. Len(s) /\ s[t] \in K
      BY <1>4
    <3>2. t - 1 \in 1 .. Len(s) - 1 /\ (t - 1) + 1 = t
      BY <1>1, <3>1
    <3>3. t - 1 \in Hits(Tail(s), K)
      BY <1>3, <3>1, <3>2
    <3> QED
      BY <3>2, <3>3
  <2> QED
    BY <2>1, <2>2, <2>3 DEF ExistsBijection, Bijection, Injection, Surjection,
                            IsInjective
<1>6. Cardinality(rest) = Count(Tail(s), K)
  BY <1>2, <1>5, FS_Bijection DEF Count
<1>7. 1 \in Hits(s, K) <=> Head(s) \in K
  BY <1>1 DEF Hits
<1>8. Cardinality(rest) = IF 1 \in Hits(s, K) THEN Count(s, K) - 1
                                              ELSE Count(s, K)
  BY <1>2, FS_RemoveElement DEF Count
<1> QED
  BY <1>2, <1>6, <1>7, <1>8 DEF One

-----------------------------------------------------------------------------
(* The elements of a kind in a queue that mixes kinds.                     *)

\* t is what of s is in K, in the order of s.
Part(t, s, K) ==
  \E pos \in [1 .. Len(t) -> Hits(s, K)] :
    /\ \A m, n \in 1 .. Len(t) : m < n => pos[m] < pos[n]
    /\ \A k \in Hits(s, K) : \E n \in 1 .. Len(t) : pos[n] = k
    /\ \A n \in 1 .. Len(t) : t[n] = s[pos[n]]

\* Nothing of the kind is the empty part.
LEMMA PartNone ==
  ASSUME NEW T, NEW s \in Seq(T), NEW t \in Seq(T), NEW K, Hits(s, K) = {}
  PROVE  Part(t, s, K) <=> t = <<>>
<1>1. ASSUME t = <<>> PROVE Part(t, s, K)
  <2>1. 1 .. Len(t) = {}
    BY <1>1
  <2> DEFINE pos == [n \in 1 .. Len(t) |-> 0]
  <2>2. pos \in [1 .. Len(t) -> Hits(s, K)]
    BY <2>1
  <2> QED
    BY <2>1, <2>2 DEF Part
<1>2. ASSUME Part(t, s, K) PROVE t = <<>>
  <2>1. ~ 1 \in 1 .. Len(t)
    BY <1>2 DEF Part
  <2> QED
    BY <2>1
<1> QED
  BY <1>1, <1>2

\* To show it, name the places.  (D keeps the provers from unfolding Len.)
LEMMA IsPart ==
  ASSUME NEW t, NEW s, NEW K, NEW D, D = 1 .. Len(t),
         NEW pos \in [D -> Hits(s, K)],
         \A m, n \in D : m < n => pos[m] < pos[n],
         \A k \in Hits(s, K) : \E n \in D : pos[n] = k,
         \A n \in D : t[n] = s[pos[n]]
  PROVE  Part(t, s, K)
BY Zenon DEF Part

\* The part grows with the queue when the new element is of the kind.
LEMMA PartAppend ==
  ASSUME NEW T, NEW s \in Seq(T), NEW t \in Seq(T), NEW K, NEW x \in T,
         Part(t, s, K)
  PROVE  /\ x \in K => Part(Append(t, x), Append(s, x), K)
         /\ x \notin K => Part(t, Append(s, x), K)
<1>1. PICK pos \in [1 .. Len(t) -> Hits(s, K)] :
        /\ \A m, n \in 1 .. Len(t) : m < n => pos[m] < pos[n]
        /\ \A k \in Hits(s, K) : \E n \in 1 .. Len(t) : pos[n] = k
        /\ \A n \in 1 .. Len(t) : t[n] = s[pos[n]]
  BY DEF Part
<1>2. /\ Len(s) \in Nat /\ Len(t) \in Nat
      /\ Len(Append(s, x)) = Len(s) + 1 /\ Len(Append(t, x)) = Len(t) + 1
      /\ \A k \in 1 .. Len(s) : Append(s, x)[k] = s[k]
      /\ \A k \in 1 .. Len(t) : Append(t, x)[k] = t[k]
      /\ Append(s, x)[Len(s) + 1] = x /\ Append(t, x)[Len(t) + 1] = x
  OBVIOUS
<1>3. /\ Hits(s, K) \subseteq 1 .. Len(s)
      /\ Hits(Append(s, x), K)
           = Hits(s, K) \cup (IF x \in K THEN {Len(s) + 1} ELSE {})
  BY <1>2 DEF Hits
<1>4. CASE x \notin K
  <2>1. Hits(Append(s, x), K) = Hits(s, K)
    BY <1>3, <1>4
  <2>2. \A n \in 1 .. Len(t) : t[n] = Append(s, x)[pos[n]]
    BY <1>1, <1>2, <1>3
  <2> QED
    BY <1>1, <1>4, <2>1, <2>2 DEF Part
<1>5. CASE x \in K
  <2> DEFINE new == [n \in 1 .. Len(t) + 1 |->
                       IF n = Len(t) + 1 THEN Len(s) + 1 ELSE pos[n]]
  <2>1. Hits(Append(s, x), K) = Hits(s, K) \cup {Len(s) + 1}
    BY <1>3, <1>5
  <2>2. new \in [1 .. Len(t) + 1 -> Hits(Append(s, x), K)]
    BY <1>1, <1>2, <2>1
  <2>3. \A m, n \in 1 .. Len(t) + 1 : m < n => new[m] < new[n]
    <3> SUFFICES ASSUME NEW m \in 1 .. Len(t) + 1, NEW n \in 1 .. Len(t) + 1, m < n
                 PROVE  new[m] < new[n]
      OBVIOUS
    <3>1. m \in 1 .. Len(t) /\ new[m] = pos[m] /\ pos[m] \in 1 .. Len(s)
      BY <1>1, <1>2, <1>3
    <3>2. CASE n = Len(t) + 1
      BY <1>2, <3>1, <3>2
    <3>3. CASE n # Len(t) + 1
      <4>1. n \in 1 .. Len(t) /\ new[n] = pos[n]
        BY <1>2, <3>3
      <4> QED
        BY <1>1, <3>1, <4>1
    <3> QED
      BY <3>2, <3>3
  <2>4. \A k \in Hits(Append(s, x), K) : \E n \in 1 .. Len(t) + 1 : new[n] = k
    <3> SUFFICES ASSUME NEW k \in Hits(Append(s, x), K)
                 PROVE  \E n \in 1 .. Len(t) + 1 : new[n] = k
      OBVIOUS
    <3>1. CASE k = Len(s) + 1
      <4>1. Len(t) + 1 \in 1 .. Len(t) + 1 /\ new[Len(t) + 1] = k
        BY <1>2, <3>1
      <4> QED
        BY <4>1
    <3>2. CASE k \in Hits(s, K)
      <4>1. PICK n \in 1 .. Len(t) : pos[n] = k
        BY <1>1, <3>2
      <4>2. n \in 1 .. Len(t) + 1 /\ n # Len(t) + 1
        BY <1>2
      <4>3. new[n] = k
        BY <4>1, <4>2
      <4> QED
        BY <4>2, <4>3
    <3> QED
      BY <2>1, <3>1, <3>2
  <2>5. \A n \in 1 .. Len(t) + 1 : Append(t, x)[n] = Append(s, x)[new[n]]
    <3> SUFFICES ASSUME NEW n \in 1 .. Len(t) + 1
                 PROVE  Append(t, x)[n] = Append(s, x)[new[n]]
      OBVIOUS
    <3>1. CASE n = Len(t) + 1
      BY <1>2, <3>1
    <3>2. CASE n # Len(t) + 1
      <4>1. n \in 1 .. Len(t) /\ new[n] = pos[n] /\ pos[n] \in 1 .. Len(s)
        BY <1>1, <1>2, <1>3, <3>2
      <4> QED
        BY <1>1, <1>2, <4>1
    <3> QED
      BY <3>1, <3>2
  <2> HIDE DEF new
  <2>6. Part(Append(t, x), Append(s, x), K)
    <3>1. 1 .. Len(t) + 1 = 1 .. Len(Append(t, x))
      BY <1>2
    <3> QED
      BY <2>2, <2>3, <2>4, <2>5, <3>1, IsPart
  <2> QED
    BY <1>5, <2>6
<1> QED
  BY <1>4, <1>5

\* The queue loses its head: the part does too, if that was of the kind.
LEMMA PartTail ==
  ASSUME NEW T, NEW s \in Seq(T), NEW t \in Seq(T), NEW K, s # <<>>,
         Part(t, s, K)
  PROVE  /\ Head(s) \in K =>
              t # <<>> /\ Head(t) = Head(s) /\ Part(Tail(t), Tail(s), K)
         /\ Head(s) \notin K => Part(t, Tail(s), K)
<1>1. PICK pos \in [1 .. Len(t) -> Hits(s, K)] :
        /\ \A m, n \in 1 .. Len(t) : m < n => pos[m] < pos[n]
        /\ \A k \in Hits(s, K) : \E n \in 1 .. Len(t) : pos[n] = k
        /\ \A n \in 1 .. Len(t) : t[n] = s[pos[n]]
  BY DEF Part
<1>2. /\ Len(s) \in Nat /\ Len(s) >= 1 /\ Len(t) \in Nat
      /\ Len(Tail(s)) = Len(s) - 1 /\ Head(s) = s[1]
      /\ \A k \in 1 .. Len(s) - 1 : Tail(s)[k] = s[k + 1]
  OBVIOUS
<1>3. /\ Hits(s, K) \subseteq 1 .. Len(s)
      /\ 1 \in Hits(s, K) <=> Head(s) \in K
      /\ \A k : k \in Hits(Tail(s), K)
                  <=> k \in 1 .. Len(s) - 1 /\ k + 1 \in Hits(s, K)
  BY <1>2 DEF Hits
<1>4. CASE Head(s) \notin K
  <2> DEFINE new == [n \in 1 .. Len(t) |-> pos[n] - 1]
  <2>1. \A n \in 1 .. Len(t) :
          /\ pos[n] \in 2 .. Len(s) /\ pos[n] \in Hits(s, K)
          /\ new[n] = pos[n] - 1 /\ new[n] \in 1 .. Len(s) - 1
          /\ new[n] + 1 = pos[n]
    BY <1>1, <1>2, <1>3, <1>4
  <2>2. new \in [1 .. Len(t) -> Hits(Tail(s), K)]
    BY <1>3, <2>1
  <2> HIDE DEF new
  <2>3. \A m, n \in 1 .. Len(t) : m < n => new[m] < new[n]
    BY <1>1, <2>1
  <2>4. \A k \in Hits(Tail(s), K) : \E n \in 1 .. Len(t) : new[n] = k
    <3> SUFFICES ASSUME NEW k \in Hits(Tail(s), K)
                 PROVE  \E n \in 1 .. Len(t) : new[n] = k
      OBVIOUS
    <3>1. PICK n \in 1 .. Len(t) : pos[n] = k + 1
      BY <1>1, <1>3
    <3>2. k \in 1 .. Len(s) - 1
      BY <1>3
    <3> QED
      BY <2>1, <3>1, <3>2
  <2>5. \A n \in 1 .. Len(t) : t[n] = Tail(s)[new[n]]
    BY <1>1, <1>2, <2>1
  <2> QED
    BY <1>4, <2>2, <2>3, <2>4, <2>5 DEF Part
<1>5. CASE Head(s) \in K
  <2>1. PICK a \in 1 .. Len(t) : pos[a] = 1
    BY <1>1, <1>3, <1>5
  <2>2. 1 \in 1 .. Len(t) /\ pos[1] = 1
    <3>1. 1 \in 1 .. Len(t) /\ pos[1] \in 1 .. Len(s)
      BY <1>1, <1>2, <1>3, <2>1
    <3>2. ~ 1 < a
      BY <1>1, <1>2, <2>1, <3>1
    <3> QED
      BY <2>1, <3>1, <3>2
  <2>3. t # <<>> /\ Head(t) = Head(s)
    BY <1>1, <1>2, <2>2
  <2>4. /\ Len(Tail(t)) = Len(t) - 1
        /\ \A n \in 1 .. Len(t) - 1 : Tail(t)[n] = t[n + 1]
    BY <2>3
  <2> DEFINE new == [n \in 1 .. Len(t) - 1 |-> pos[n + 1] - 1]
  <2>5. ASSUME NEW n \in 1 .. Len(t) - 1
        PROVE  /\ n + 1 \in 1 .. Len(t)
               /\ pos[n + 1] \in 2 .. Len(s) /\ pos[n + 1] \in Hits(s, K)
               /\ new[n] = pos[n + 1] - 1 /\ new[n] \in 1 .. Len(s) - 1
               /\ new[n] + 1 = pos[n + 1]
    <3>1. n + 1 \in 1 .. Len(t) /\ 1 < n + 1
      BY <1>2
    <3>2. pos[n + 1] \in 1 .. Len(s) /\ pos[n + 1] \in Hits(s, K)
      BY <1>1, <1>3, <3>1
    <3>3. 1 < pos[n + 1]
      BY <1>1, <2>2, <3>1
    <3> QED
      BY <1>2, <3>1, <3>2, <3>3
  <2>6. new \in [1 .. Len(t) - 1 -> Hits(Tail(s), K)]
    BY <1>3, <2>5
  <2> HIDE DEF new
  <2>7. \A m, n \in 1 .. Len(t) - 1 : m < n => new[m] < new[n]
    <3> SUFFICES ASSUME NEW m \in 1 .. Len(t) - 1, NEW n \in 1 .. Len(t) - 1, m < n
                 PROVE  new[m] < new[n]
      OBVIOUS
    <3>1. m + 1 < n + 1 /\ m + 1 \in 1 .. Len(t) /\ n + 1 \in 1 .. Len(t)
      BY <2>5
    <3>2. pos[m + 1] < pos[n + 1]
      BY <1>1, <3>1
    <3> QED
      BY <2>5, <3>2
  <2>8. \A k \in Hits(Tail(s), K) : \E n \in 1 .. Len(t) - 1 : new[n] = k
    <3> SUFFICES ASSUME NEW k \in Hits(Tail(s), K)
                 PROVE  \E n \in 1 .. Len(t) - 1 : new[n] = k
      OBVIOUS
    <3>1. PICK n \in 1 .. Len(t) : pos[n] = k + 1
      BY <1>1, <1>3
    <3>2. k \in 1 .. Len(s) - 1
      BY <1>3
    <3>3. n # 1
      BY <2>2, <3>1, <3>2
    <3>4. n - 1 \in 1 .. Len(t) - 1 /\ (n - 1) + 1 = n
      BY <1>2, <3>3
    <3>5. new[n - 1] = k
      BY <2>5, <3>1, <3>2, <3>4
    <3> QED
      BY <3>4, <3>5
  <2>9. \A n \in 1 .. Len(t) - 1 : Tail(t)[n] = Tail(s)[new[n]]
    BY <1>1, <1>2, <2>4, <2>5
  <2>10. Part(Tail(t), Tail(s), K)
    <3>1. 1 .. Len(t) - 1 = 1 .. Len(Tail(t))
      BY <2>4
    <3> QED
      BY <2>6, <2>7, <2>8, <2>9, <3>1, IsPart
  <2> QED
    BY <1>5, <2>3, <2>10
<1> QED
  BY <1>4, <1>5

-----------------------------------------------------------------------------
(* Queues in a row, and a queue seen through a function.                   *)

LEMMA JoinAppend ==
  ASSUME NEW T, NEW a \in Seq(T), NEW b \in Seq(T), NEW x \in T
  PROVE  a \o Append(b, x) = Append(a \o b, x)
<1>1. Append(b, x) = b \o <<x>> /\ Append(a \o b, x) = (a \o b) \o <<x>>
      /\ a \o b \in Seq(T) /\ <<x>> \in Seq(T)
  BY AppendIsConcat, ConcatProperties
<1> QED
  BY <1>1, ConcatAssociative

LEMMA JoinTail ==
  ASSUME NEW T, NEW a \in Seq(T), NEW b \in Seq(T), a # <<>>
  PROVE  /\ a \o b # <<>> /\ Head(a \o b) = Head(a)
         /\ Tail(a \o b) = Tail(a) \o b
<1>1. /\ Len(a) \in Nat /\ Len(b) \in Nat /\ Len(a) >= 1
      /\ a \o b \in Seq(T) /\ Len(a \o b) = Len(a) + Len(b)
      /\ \A k \in 1 .. Len(a) + Len(b) :
           (a \o b)[k] = IF k <= Len(a) THEN a[k] ELSE b[k - Len(a)]
  BY ConcatProperties
<1>2. a \o b # <<>> /\ Head(a \o b) = a[1] /\ Head(a) = a[1]
  BY <1>1
<1>3. /\ Tail(a) \in Seq(T) /\ Len(Tail(a)) = Len(a) - 1
      /\ \A k \in 1 .. Len(a) - 1 : Tail(a)[k] = a[k + 1]
      /\ Tail(a \o b) \in Seq(T) /\ Len(Tail(a \o b)) = Len(a) + Len(b) - 1
      /\ \A k \in 1 .. Len(a) + Len(b) - 1 : Tail(a \o b)[k] = (a \o b)[k + 1]
  BY <1>1, <1>2, HeadTailProperties
<1>4. /\ Tail(a) \o b \in Seq(T) /\ Len(Tail(a) \o b) = Len(a) - 1 + Len(b)
      /\ \A k \in 1 .. Len(a) - 1 + Len(b) :
           (Tail(a) \o b)[k]
             = IF k <= Len(a) - 1 THEN Tail(a)[k] ELSE b[k - (Len(a) - 1)]
  BY <1>1, <1>3, ConcatProperties
<1> DEFINE n == Len(a)
           m == Len(b)
<1> HIDE DEF n, m
<1>5. ASSUME NEW k \in 1 .. n + m - 1
      PROVE  Tail(a \o b)[k] = (Tail(a) \o b)[k]
  <2>1. /\ n \in Nat /\ m \in Nat /\ n >= 1 /\ k \in 1 .. n - 1 + m
        /\ k + 1 \in 1 .. n + m /\ (k + 1 <= n <=> k <= n - 1)
        /\ (k + 1) - n = k - (n - 1)
        /\ (k <= n - 1 => k \in 1 .. n - 1)
    BY <1>1 DEF n, m
  <2>2. Tail(a \o b)[k]
          = IF k + 1 <= n THEN a[k + 1] ELSE b[(k + 1) - n]
    BY <1>1, <1>3, <2>1 DEF n, m
  <2>3. (Tail(a) \o b)[k] = IF k <= n - 1 THEN a[k + 1] ELSE b[k - (n - 1)]
    BY <1>3, <1>4, <2>1 DEF n, m
  <2>4. CASE k <= n - 1
    <3>1. Tail(a \o b)[k] = a[k + 1]
      BY <2>1, <2>2, <2>4
    <3>2. (Tail(a) \o b)[k] = a[k + 1]
      BY <2>3, <2>4
    <3> QED
      BY <3>1, <3>2
  <2>5. CASE ~ k <= n - 1
    <3>1. Tail(a \o b)[k] = b[(k + 1) - n]
      BY <2>1, <2>2, <2>5
    <3>2. (Tail(a) \o b)[k] = b[k - (n - 1)]
      BY <2>3, <2>5
    <3> QED
      BY <2>1, <3>1, <3>2
  <2> QED
    BY <2>4, <2>5
<1>6. Tail(a \o b) = Tail(a) \o b
  <2>1. Len(Tail(a \o b)) = Len(Tail(a) \o b)
        /\ Len(Tail(a \o b)) = n + m - 1
    BY <1>1, <1>3, <1>4 DEF n, m
  <2>2. \A k \in 1 .. Len(Tail(a \o b)) : Tail(a \o b)[k] = (Tail(a) \o b)[k]
    BY <1>5, <2>1
  <2> QED
    BY <1>3, <1>4, <2>1, <2>2, SeqEqual
<1> QED
  BY <1>2, <1>6

\* A head that moves to the end of the queue before it changes nothing.
LEMMA JoinMoved ==
  ASSUME NEW T, NEW a \in Seq(T), NEW b \in Seq(T), b # <<>>
  PROVE  Append(a, Head(b)) \o Tail(b) = a \o b
<1>1. /\ Head(b) \in T /\ Tail(b) \in Seq(T) /\ <<Head(b)>> \in Seq(T)
      /\ Append(a, Head(b)) = a \o <<Head(b)>>
  BY HeadTailProperties, AppendIsConcat
<1>2. <<Head(b)>> \o Tail(b) = b
  OBVIOUS
<1> QED
  BY <1>1, <1>2, ConcatAssociative

\* The queue s seen through the function f.
Fits(s, f, S, T) == s \in Seq(S) /\ f \in [S -> T]
Through(s, f) == [k \in DOMAIN s |-> f[s[k]]]

LEMMA ThroughEmpty == \A f : Through(<<>>, f) = <<>>
BY DEF Through

LEMMA ThroughType ==
  ASSUME NEW S, NEW T, NEW s, NEW f, Fits(s, f, S, T),
         NEW n \in Nat, n = Len(s), NEW r, r = Through(s, f)
  PROVE  /\ r \in Seq(T) /\ Len(r) = n
         /\ \A k \in 1 .. n : r[k] = f[s[k]]
<1>0. s \in Seq(S) /\ f \in [S -> T]
  BY DEF Fits
<1>1. DOMAIN s = 1 .. n /\ \A k \in 1 .. n : s[k] \in S
  BY <1>0
<1>2. r = [k \in 1 .. n |-> f[s[k]]]
  BY <1>1 DEF Through
<1>3. r \in [1 .. n -> T]
  BY <1>0, <1>1, <1>2
<1> QED
  BY <1>2, <1>3

LEMMA ThroughAppend ==
  ASSUME NEW S, NEW T, NEW s, NEW f, Fits(s, f, S, T), NEW x \in S
  PROVE  Through(Append(s, x), f) = Append(Through(s, f), f[x])
<1>00. s \in Seq(S) /\ f \in [S -> T]
  BY DEF Fits
<1>0. PICK n \in Nat : n = Len(s)
  BY <1>00
<1> DEFINE l == Through(Append(s, x), f)
           r == Append(Through(s, f), f[x])
<1>1. /\ n \in Nat /\ f[x] \in T
      /\ Append(s, x) \in Seq(S) /\ Len(Append(s, x)) = n + 1
      /\ \A k \in 1 .. n : Append(s, x)[k] = s[k]
      /\ Append(s, x)[n + 1] = x
  BY <1>00, <1>0, AppendProperties
<1>2. /\ Through(s, f) \in Seq(T) /\ Len(Through(s, f)) = n
      /\ \A k \in 1 .. n : Through(s, f)[k] = f[s[k]]
      /\ l \in Seq(T) /\ Len(l) = n + 1
      /\ \A k \in 1 .. n + 1 : l[k] = f[Append(s, x)[k]]
  <2>1. PICK t, m : t = Append(s, x) /\ m = n + 1
    OBVIOUS
  <2>2. PICK p, q : p = Through(s, f) /\ q = Through(t, f)
    OBVIOUS
  <2>3. Fits(t, f, S, T) /\ m \in Nat /\ m = Len(t)
    BY <1>00, <1>1, <2>1 DEF Fits
  <2>4. q \in Seq(T) /\ Len(q) = m /\ \A k \in 1 .. m : q[k] = f[t[k]]
    BY <2>2, <2>3, ThroughType
  <2>5. p \in Seq(T) /\ Len(p) = n /\ \A k \in 1 .. n : p[k] = f[s[k]]
    BY <1>0, <2>2, ThroughType
  <2> QED
    BY <2>1, <2>2, <2>4, <2>5
<1>3. /\ r \in Seq(T) /\ Len(r) = n + 1
      /\ \A k \in 1 .. n : r[k] = Through(s, f)[k]
      /\ r[n + 1] = f[x]
  BY <1>1, <1>2, AppendProperties
<1> HIDE DEF l, r
<1>4. \A k \in 1 .. n + 1 : l[k] = r[k]
  BY <1>1, <1>2, <1>3
<1>5. l = r
  BY <1>2, <1>3, <1>4, SeqEqual
<1> QED
  BY <1>5 DEF l, r

LEMMA ThroughTail ==
  ASSUME NEW S, NEW T, NEW s, NEW f, Fits(s, f, S, T), s # <<>>
  PROVE  /\ Through(s, f) # <<>> /\ Head(Through(s, f)) = f[Head(s)]
         /\ Through(Tail(s), f) = Tail(Through(s, f))
<1>00. s \in Seq(S) /\ f \in [S -> T]
  BY DEF Fits
<1>0. PICK n \in Nat : n = Len(s)
  BY <1>00
<1> DEFINE l == Through(Tail(s), f)
           r == Tail(Through(s, f))
<1>1. /\ n \in Nat /\ n >= 1 /\ Tail(s) \in Seq(S) /\ Len(Tail(s)) = n - 1
      /\ \A k \in 1 .. n - 1 : Tail(s)[k] = s[k + 1]
      /\ Head(s) = s[1]
  BY <1>00, <1>0, HeadTailProperties
<1>2. /\ Through(s, f) \in Seq(T) /\ Len(Through(s, f)) = n
      /\ \A k \in 1 .. n : Through(s, f)[k] = f[s[k]]
      /\ l \in Seq(T) /\ Len(l) = n - 1
      /\ \A k \in 1 .. n - 1 : l[k] = f[Tail(s)[k]]
  <2>1. PICK t, m : t = Tail(s) /\ m = n - 1
    OBVIOUS
  <2>2. PICK p, q : p = Through(s, f) /\ q = Through(t, f)
    OBVIOUS
  <2>3. Fits(t, f, S, T) /\ m \in Nat /\ m = Len(t)
    BY <1>00, <1>1, <2>1 DEF Fits
  <2>4. q \in Seq(T) /\ Len(q) = m /\ \A k \in 1 .. m : q[k] = f[t[k]]
    BY <2>2, <2>3, ThroughType
  <2>5. p \in Seq(T) /\ Len(p) = n /\ \A k \in 1 .. n : p[k] = f[s[k]]
    BY <1>0, <2>2, ThroughType
  <2> QED
    BY <2>1, <2>2, <2>4, <2>5
<1>3. Through(s, f) # <<>> /\ Head(Through(s, f)) = f[Head(s)]
  BY <1>1, <1>2
<1>4. /\ r \in Seq(T) /\ Len(r) = n - 1
      /\ \A k \in 1 .. n - 1 : r[k] = Through(s, f)[k + 1]
  BY <1>2, <1>3, HeadTailProperties
<1> HIDE DEF l, r
<1>5. \A k \in 1 .. n - 1 : l[k] = r[k]
  <2> SUFFICES ASSUME NEW k \in 1 .. n - 1 PROVE l[k] = r[k]
    OBVIOUS
  <2>1. k + 1 \in 1 .. n
    BY <1>1
  <2>2. l[k] = f[s[k + 1]]
    BY <1>1, <1>2
  <2>3. r[k] = Through(s, f)[k + 1]
    BY <1>4
  <2>4. Through(s, f)[k + 1] = f[s[k + 1]]
    BY <1>2, <2>1
  <2> QED
    BY <2>2, <2>3, <2>4
<1>6. l = r
  BY <1>2, <1>4, <1>5, SeqEqual
<1> QED
  BY <1>3, <1>6 DEF l, r
=============================================================================
