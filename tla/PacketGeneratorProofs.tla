----------------------- MODULE PacketGeneratorProofs -----------------------
(***************************************************************************)
(* Proofs about the rings and the data path, for every number of workers,  *)
(* packets per batch, ring size, check level, error limit and kind of      *)
(* disturbance: what the operations on the rings do to what the rings      *)
(* hold; that their error paths are never taken; types; what a step of a   *)
(* worker is to its frames; and the order of the packets.                  *)
(***************************************************************************)
EXTENDS PacketGeneratorProperties, SequenceCounts, Integers

-----------------------------------------------------------------------------
(* Positions in a ring. *)

\* is_full_* and the lists compute modulo the ring's size; the operations wrap
\* by comparing.  Both agree on positions inside the ring.
LEMMA WrapIsMod ==
  ASSUME NEW n \in Nat \ {0}, NEW k \in 0 .. n - 1
  PROVE  (k + 1) % n = IF k + 1 >= n THEN 0 ELSE k + 1
  BY Z3

\* A wrapped position is inside the ring.
LEMMA WrapInRing ==
  ASSUME NEW n \in Nat \ {0}, NEW a \in 0 .. n - 1
  PROVE  /\ PoolWrap(a + 1, n) \in 0 .. n - 1 /\ QueueWrap(a + 1, n) \in 0 .. n - 1
         /\ PoolWrap(a + 1, n) = IF a + 1 >= n THEN 0 ELSE a + 1
         /\ QueueWrap(a + 1, n) = IF a + 1 >= n THEN 0 ELSE a + 1
BY DEF PoolWrap, QueueWrap

\* How far `ahead` is in front of `behind` in a ring of n slots, and what a
\* step of the one in front does to it when it does not catch up.
Gap(n, ahead, behind) ==
  IF ahead >= behind THEN ahead - behind ELSE ahead + n - behind

LEMMA GapGrows ==
  ASSUME NEW n \in Nat \ {0}, NEW a \in 0 .. n - 1, NEW b \in 0 .. n - 1,
         Gap(n, a, b) < n - 1
  PROVE  Gap(n, IF a + 1 >= n THEN 0 ELSE a + 1, b) = Gap(n, a, b) + 1
  BY DEF Gap

-----------------------------------------------------------------------------
(* The pool. *)

LEMMA PoolFields ==
  ASSUME NEW n \in Nat \ {0}, NEW p \in PoolType(n)
  PROVE  /\ p.push_pos \in 0 .. n - 1 /\ p.pop_pos \in 0 .. n - 1
         /\ p.node \in [0 .. n - 1 -> 0 .. n - 1]
         /\ p.total = n /\ p.free_num \in Nat
  BY DEF PoolType

\* init_pool leaves a pool from which numbers-1 buffers can be taken.
LEMMA InitPool ==
  ASSUME NEW n \in Nat \ {0}
  PROVE  /\ PoolOK(init_pool(n), n)
         /\ FreeCount(init_pool(n)) = n - 1
<1>1. init_pool(n) \in PoolType(n)
  BY DEF init_pool, PoolType
<1>2. FreeCount(init_pool(n)) = n - 1 /\ init_pool(n).free_num = n
  BY DEF init_pool, FreeCount
<1> QED
  BY <1>1, <1>2 DEF PoolOK

\* A pool says it is empty exactly when nothing can be taken from it.
LEMMA PoolEmpty ==
  ASSUME NEW n \in Nat \ {0}, NEW p \in PoolType(n)
  PROVE  /\ FreeCount(p) \in 0 .. n - 1
         /\ is_empty_pool(p) <=> FreeCount(p) = 0
  BY PoolFields DEF FreeCount, is_empty_pool

\* get_buf takes one buffer from a pool that is not empty.
LEMMA GetBuf ==
  ASSUME NEW n \in Nat \ {0}, NEW p, PoolOK(p, n), ~ is_empty_pool(p)
  PROVE  /\ PoolOK(get_buf(p), n)
         /\ FreeCount(get_buf(p)) = FreeCount(p) - 1
         /\ get_buf_data(p) \in 0 .. n - 1
<1> DEFINE q == get_buf(p)
<1>1. p \in PoolType(n) /\ p.free_num = FreeCount(p) + 1
  BY DEF PoolOK
<1>2. /\ p.push_pos \in 0 .. n - 1 /\ p.pop_pos \in 0 .. n - 1
      /\ p.node \in [0 .. n - 1 -> 0 .. n - 1]
      /\ p.total = n /\ p.free_num \in Nat
  BY <1>1, PoolFields
<1>3. /\ q.push_pos = p.push_pos /\ q.total = n
      /\ q.pop_pos = PoolWrap(p.pop_pos + 1, n)
      /\ q.free_num = p.free_num - 1
  BY <1>1, <1>2 DEF get_buf, PoolType
<1>4. FreeCount(q) = FreeCount(p) - 1
  BY <1>2, <1>3 DEF FreeCount, PoolWrap, is_empty_pool
<1>5. PoolWrap(p.pop_pos + 1, n) \in 0 .. n - 1 /\ p.free_num - 1 \in Nat
  <2>1. FreeCount(p) \in Nat
    BY <1>1, PoolEmpty
  <2>2. p.free_num - 1 \in Nat
    BY <1>1, <2>1
  <2>3. PoolWrap(p.pop_pos + 1, n) \in 0 .. n - 1
    BY <1>2, WrapInRing
  <2> QED
    BY <2>2, <2>3
<1>6. q \in PoolType(n)
  BY <1>1, <1>2, <1>5 DEF get_buf, PoolType
<1>7. get_buf_data(p) \in 0 .. n - 1
  BY <1>2 DEF get_buf_data
<1> QED
  BY <1>1, <1>2, <1>3, <1>4, <1>6, <1>7, PoolEmpty DEF PoolOK

\* free_buf adds one buffer to a pool that is not full.
LEMMA FreeBuf ==
  ASSUME NEW n \in Nat \ {0}, NEW p, PoolOK(p, n), FreeCount(p) < n - 1,
         NEW d \in 0 .. n - 1
  PROVE  /\ PoolOK(free_buf(p, d), n)
         /\ FreeCount(free_buf(p, d)) = FreeCount(p) + 1
<1> DEFINE q == free_buf(p, d)
<1>1. p \in PoolType(n) /\ p.free_num = FreeCount(p) + 1
  BY DEF PoolOK
<1>2. /\ p.push_pos \in 0 .. n - 1 /\ p.pop_pos \in 0 .. n - 1
      /\ p.node \in [0 .. n - 1 -> 0 .. n - 1]
      /\ p.total = n /\ p.free_num \in Nat
  BY <1>1, PoolFields
<1>3. /\ q.push_pos = PoolWrap(p.push_pos + 1, n) /\ q.total = n
      /\ q.pop_pos = p.pop_pos
      /\ q.free_num = p.free_num + 1
  BY <1>1, <1>2 DEF free_buf, PoolType
<1>4. FreeCount(q) = FreeCount(p) + 1
  <2>1. FreeCount(p) = Gap(n, p.push_pos, p.pop_pos)
    BY <1>2 DEF FreeCount, Gap
  <2>2. FreeCount(q) = Gap(n, q.push_pos, p.pop_pos)
    BY <1>3 DEF FreeCount, Gap
  <2>3. Gap(n, p.push_pos, p.pop_pos) < n - 1
    BY <2>1
  <2>4. Gap(n, PoolWrap(p.push_pos + 1, n), p.pop_pos)
          = Gap(n, p.push_pos, p.pop_pos) + 1
    BY <1>2, <2>3, GapGrows DEF PoolWrap
  <2> QED
    BY <1>3, <2>1, <2>2, <2>4
<1>5. PoolWrap(p.push_pos + 1, n) \in 0 .. n - 1 /\ p.free_num + 1 \in Nat
  <2>1. PoolWrap(p.push_pos + 1, n) \in 0 .. n - 1
    BY <1>2, WrapInRing
  <2>2. p.free_num \in Nat
    BY <1>2
  <2> QED
    BY <2>1, <2>2
<1>6. q \in PoolType(n)
  BY <1>1, <1>2, <1>5 DEF free_buf, PoolType
<1> QED
  BY <1>1, <1>2, <1>3, <1>4, <1>6, PoolEmpty DEF PoolOK

-----------------------------------------------------------------------------
(* The queue. *)

LEMMA QueueFields ==
  ASSUME NEW n \in Nat \ {0}, NEW q \in QueueType(n)
  PROVE  /\ q.push_pos \in 0 .. n - 1 /\ q.pop_pos \in 0 .. n - 1
         /\ q.node \in [0 .. n - 1 -> 0 .. n - 1]
         /\ q.total = n /\ q.length \in Nat
  BY DEF QueueType

\* init_manager_queue leaves an empty queue.
LEMMA InitQueue ==
  ASSUME NEW n \in Nat \ {0}
  PROVE  /\ QueueOK(init_manager_queue(n), n)
         /\ QueueCount(init_manager_queue(n)) = 0
<1>1. init_manager_queue(n) \in QueueType(n)
  BY DEF init_manager_queue, QueueType
<1>2. /\ QueueCount(init_manager_queue(n)) = 0
      /\ init_manager_queue(n).length = 0
  BY DEF init_manager_queue, QueueCount
<1> QED
  BY <1>1, <1>2 DEF QueueOK

\* A queue says it is empty when it holds nothing, full when it holds all but
\* one of its slots.
LEMMA QueueEmptyFull ==
  ASSUME NEW n \in Nat \ {0}, NEW q \in QueueType(n)
  PROVE  /\ QueueCount(q) \in 0 .. n - 1
         /\ is_empty_manager_queue(q) <=> QueueCount(q) = 0
         /\ is_full_manager_queue(q) <=> QueueCount(q) = n - 1
<1>1. /\ q.push_pos \in 0 .. n - 1 /\ q.pop_pos \in 0 .. n - 1 /\ q.total = n
  BY QueueFields
<1>2. is_full_manager_queue(q)
        <=> q.pop_pos = (IF q.push_pos + 1 >= n THEN 0 ELSE q.push_pos + 1)
  BY <1>1, WrapIsMod DEF is_full_manager_queue
<1> QED
  BY <1>1, <1>2 DEF QueueCount, is_empty_manager_queue

\* push_session_buf adds one packet to a queue that is not full.
LEMMA PushSessionBuf ==
  ASSUME NEW n \in Nat \ {0}, NEW q, QueueOK(q, n), QueueCount(q) < n - 1,
         NEW d \in 0 .. n - 1
  PROVE  /\ QueueOK(push_session_buf(q, d), n)
         /\ QueueCount(push_session_buf(q, d)) = QueueCount(q) + 1
<1> DEFINE r == push_session_buf(q, d)
<1>1. q \in QueueType(n) /\ q.length = QueueCount(q)
  BY DEF QueueOK
<1>2. /\ q.push_pos \in 0 .. n - 1 /\ q.pop_pos \in 0 .. n - 1
      /\ q.node \in [0 .. n - 1 -> 0 .. n - 1]
      /\ q.total = n /\ q.length \in Nat
  BY <1>1, QueueFields
<1>3. /\ r.push_pos = QueueWrap(q.push_pos + 1, n) /\ r.total = n
      /\ r.pop_pos = q.pop_pos
      /\ r.length = q.length + 1
  BY <1>1, <1>2 DEF push_session_buf, QueueType
<1>4. QueueCount(r) = QueueCount(q) + 1
  <2>1. QueueCount(q) = Gap(n, q.push_pos, q.pop_pos)
    BY <1>2 DEF QueueCount, Gap
  <2>2. QueueCount(r) = Gap(n, r.push_pos, q.pop_pos)
    BY <1>3 DEF QueueCount, Gap
  <2>3. Gap(n, q.push_pos, q.pop_pos) < n - 1
    BY <2>1
  <2>4. Gap(n, QueueWrap(q.push_pos + 1, n), q.pop_pos)
          = Gap(n, q.push_pos, q.pop_pos) + 1
    BY <1>2, <2>3, GapGrows DEF QueueWrap
  <2> QED
    BY <1>3, <2>1, <2>2, <2>4
<1>5. QueueWrap(q.push_pos + 1, n) \in 0 .. n - 1 /\ q.length + 1 \in Nat
  <2>1. QueueWrap(q.push_pos + 1, n) \in 0 .. n - 1
    BY <1>2, WrapInRing
  <2>2. q.length \in Nat
    BY <1>2
  <2> QED
    BY <2>1, <2>2
<1>6. r \in QueueType(n)
  BY <1>1, <1>2, <1>5 DEF push_session_buf, QueueType
<1> QED
  BY <1>1, <1>3, <1>4, <1>6 DEF QueueOK

\* pop_session_buf takes one packet from a queue that is not empty.
LEMMA PopSessionBuf ==
  ASSUME NEW n \in Nat \ {0}, NEW q, QueueOK(q, n),
         ~ is_empty_manager_queue(q)
  PROVE  /\ QueueOK(pop_session_buf(q), n)
         /\ QueueCount(pop_session_buf(q)) = QueueCount(q) - 1
         /\ pop_session_buf_data(q) \in 0 .. n - 1
<1> DEFINE r == pop_session_buf(q)
<1>1. q \in QueueType(n) /\ q.length = QueueCount(q)
  BY DEF QueueOK
<1>2. /\ q.push_pos \in 0 .. n - 1 /\ q.pop_pos \in 0 .. n - 1
      /\ q.node \in [0 .. n - 1 -> 0 .. n - 1]
      /\ q.total = n /\ q.length \in Nat
  BY <1>1, QueueFields
<1>3. /\ r.push_pos = q.push_pos /\ r.total = n
      /\ r.pop_pos = QueueWrap(q.pop_pos + 1, n)
      /\ r.length = q.length - 1
  BY <1>1, <1>2 DEF pop_session_buf, QueueType
<1>4. QueueCount(r) = QueueCount(q) - 1
  BY <1>2, <1>3 DEF QueueCount, QueueWrap, is_empty_manager_queue
<1>5. QueueWrap(q.pop_pos + 1, n) \in 0 .. n - 1 /\ q.length - 1 \in Nat
  <2>1. QueueCount(q) \in Nat /\ QueueCount(q) # 0
    BY <1>1, QueueEmptyFull
  <2>2. q.length - 1 \in Nat
    BY <1>1, <2>1
  <2>3. QueueWrap(q.pop_pos + 1, n) \in 0 .. n - 1
    BY <1>2, WrapInRing
  <2> QED
    BY <2>2, <2>3
<1>6. r \in QueueType(n)
  BY <1>1, <1>2, <1>5 DEF pop_session_buf, QueueType
<1>7. pop_session_buf_data(q) \in 0 .. n - 1
  BY <1>2 DEF pop_session_buf_data
<1> QED
  BY <1>1, <1>3, <1>4, <1>6, <1>7 DEF QueueOK

-----------------------------------------------------------------------------
(* What the rings hold, in order. *)

\* The slot k places behind pos.
LEMMA SlotIndex ==
  ASSUME NEW n \in Nat \ {0}, NEW a \in Nat, a < n + n
  PROVE  /\ a % n = IF a >= n THEN a - n ELSE a
         /\ a % n \in 0 .. n - 1
<1>1. a % n = IF a >= n THEN a - n ELSE a
  BY Z3
<1> QED
  BY <1>1

\* The slot k places behind the next one.
LEMMA NextSlot ==
  ASSUME NEW n \in Nat \ {0}, NEW pos \in 0 .. n - 1, NEW k \in 1 .. n,
         NEW next, next = IF pos + 1 >= n THEN 0 ELSE pos + 1
  PROVE  (next + k - 1) % n = (pos + (k + 1) - 1) % n
<1>1. pos + (k + 1) - 1 = pos + k /\ pos + k \in Nat /\ pos + k < n + n
  OBVIOUS
<1>2. CASE pos + 1 >= n
  <2>1. /\ next + k - 1 = k - 1 /\ k - 1 \in Nat /\ k - 1 < n
        /\ pos + k >= n /\ pos + k - n = k - 1
    BY <1>2
  <2>2. PICK a \in Nat, b \in Nat : a = k - 1 /\ b = pos + k
    BY <1>1, <2>1
  <2>3. a < n /\ b >= n /\ b < n + n /\ b - n = a
    BY <1>1, <2>1, <2>2
  <2>4. a % n = a
    BY <2>3, SlotIndex
  <2>5. b % n = a
    BY <2>3, SlotIndex
  <2> QED
    BY <1>1, <2>1, <2>2, <2>4, <2>5
<1>3. CASE ~ (pos + 1 >= n)
  <2>1. next + k - 1 = pos + k
    BY <1>3
  <2> QED
    BY <1>1, <2>1
<1> QED
  BY <1>2, <1>3

\* The slot behind the last of the `size` slots, and no other, is at the end.
LEMMA EndSlot ==
  ASSUME NEW n \in Nat \ {0}, NEW pos \in 0 .. n - 1, NEW size \in Nat,
         size < n - 1, NEW k \in 1 .. size + 1,
         NEW end, end = IF pos + size >= n THEN pos + size - n ELSE pos + size
  PROVE  /\ (pos + k - 1) % n = end <=> k = size + 1
         /\ (pos + k - 1) % n \in 0 .. n - 1
<1>1. pos + k - 1 \in Nat /\ pos + k - 1 < n + n
  OBVIOUS
<1>2. PICK a \in Nat : a = pos + k - 1
  BY <1>1
<1>3. a % n = (IF a >= n THEN a - n ELSE a) /\ a % n \in 0 .. n - 1
  BY <1>1, <1>2, SlotIndex
<1>4. (IF a >= n THEN a - n ELSE a) = end <=> k = size + 1
  BY <1>2
<1> QED
  BY <1>2, <1>3, <1>4

\* Two lists that agree in every place.
LEMMA SameList ==
  ASSUME NEW S, NEW s \in Seq(S), NEW t \in Seq(S), NEW size,
         Len(s) = size, Len(t) = size, \A k \in 1 .. size : s[k] = t[k]
  PROVE  s = t
  OBVIOUS

\* The `size` slots of a ring of n slots that begin at pos.
Slots(n, node, pos, size) == [k \in 1 .. size |-> node[(pos + k - 1) % n]]
Nodes(n) == [0 .. n - 1 -> 0 .. n - 1]

LEMMA SlotsType ==
  ASSUME NEW n \in Nat \ {0}, NEW node \in Nodes(n), NEW pos \in 0 .. n - 1,
         NEW size \in 0 .. n - 1
  PROVE  /\ Slots(n, node, pos, size) \in Seq(0 .. n - 1)
         /\ Len(Slots(n, node, pos, size)) = size
<1>1. ASSUME NEW k \in 1 .. size
      PROVE  node[(pos + k - 1) % n] \in 0 .. n - 1
  <2>1. pos + k - 1 \in Nat /\ pos + k - 1 < n + n
    OBVIOUS
  <2>2. (pos + k - 1) % n \in 0 .. n - 1
    BY <2>1, SlotIndex
  <2> QED
    BY <2>2 DEF Nodes
<1>2. Slots(n, node, pos, size) \in [1 .. size -> 0 .. n - 1]
  BY <1>1 DEF Slots
<1>3. size \in Nat
  OBVIOUS
<1> HIDE DEF Slots
<1> QED
  BY <1>2, <1>3

\* Without its first slot `less` slots are left, from `next` on.
Taken(n, node, pos, size, next, less) ==
  /\ node \in Nodes(n) /\ pos \in 0 .. n - 1 /\ size \in 1 .. n - 1
  /\ next = (IF pos + 1 >= n THEN 0 ELSE pos + 1) /\ less = size - 1

LEMMA SlotsTail ==
  ASSUME NEW n \in Nat \ {0}, NEW node, NEW pos, NEW size, NEW next, NEW less,
         Taken(n, node, pos, size, next, less)
  PROVE  /\ Slots(n, node, pos, size) # <<>>
         /\ Head(Slots(n, node, pos, size)) = node[pos]
         /\ Slots(n, node, next, less) = Tail(Slots(n, node, pos, size))
<1> DEFINE s == Slots(n, node, pos, size)
           t == Slots(n, node, next, less)
<1>0. /\ node \in Nodes(n) /\ pos \in 0 .. n - 1 /\ size \in 1 .. n - 1
      /\ next = (IF pos + 1 >= n THEN 0 ELSE pos + 1) /\ less = size - 1
  BY DEF Taken
<1>9. /\ next \in 0 .. n - 1 /\ less \in 0 .. n - 1 /\ size \in 0 .. n - 1
  BY <1>0
<1>1. s \in Seq(0 .. n - 1) /\ Len(s) = size
  BY <1>0, <1>9, SlotsType
<1>2. t \in Seq(0 .. n - 1) /\ Len(t) = less
  BY <1>0, <1>9, SlotsType
<1>3. s[1] = node[pos]
  <2>1. pos \in Nat /\ pos < n + n /\ ~ (pos >= n) /\ pos + 1 - 1 = pos
    BY <1>0
  <2>2. pos % n = pos
    BY <2>1, SlotIndex
  <2>3. 1 \in 1 .. size
    BY <1>0
  <2>4. s[1] = node[(pos + 1 - 1) % n]
    BY <2>3 DEF Slots
  <2> QED
    BY <2>1, <2>2, <2>4
<1>4. ASSUME NEW k \in 1 .. less PROVE t[k] = s[k + 1]
  <2>1. k \in 1 .. n /\ k + 1 \in 1 .. size
    BY <1>0
  <2>2. (next + k - 1) % n = (pos + (k + 1) - 1) % n
    BY <1>0, <2>1, NextSlot
  <2>3. t[k] = node[(next + k - 1) % n]
    BY DEF Slots
  <2>4. s[k + 1] = node[(pos + (k + 1) - 1) % n]
    BY <2>1 DEF Slots
  <2> HIDE DEF s, t
  <2> QED
    BY <2>2, <2>3, <2>4
<1> HIDE DEF s, t
<1>5. /\ s # <<>> /\ Head(s) = s[1] /\ Tail(s) \in Seq(0 .. n - 1)
      /\ Len(Tail(s)) = less /\ less \in Nat
      /\ \A k \in 1 .. less : Tail(s)[k] = s[k + 1]
  BY <1>0, <1>1
<1>6. t = Tail(s)
  <2>1. \A k \in 1 .. less : t[k] = Tail(s)[k]
    BY <1>4, <1>5
  <2> QED
    BY <1>2, <1>5, <2>1, SameList
<1> QED
  BY <1>3, <1>5, <1>6 DEF s, t

\* A ring with `size` of its n slots in use has room behind them, at `end`;
\* with d in that slot `more` are in use.
Stored(n, node, new, pos, size, end, more, d) ==
  /\ node \in Nodes(n) /\ new \in Nodes(n) /\ d \in 0 .. n - 1
  /\ pos \in 0 .. n - 1 /\ size \in Nat /\ size < n - 1 /\ more = size + 1
  /\ end \in 0 .. n - 1
  /\ end = IF pos + size >= n THEN pos + size - n ELSE pos + size
  /\ new = [node EXCEPT ![end] = d]

LEMMA SlotsAppend ==
  ASSUME NEW n \in Nat \ {0}, NEW node, NEW new, NEW pos, NEW size, NEW end,
         NEW more, NEW d, Stored(n, node, new, pos, size, end, more, d)
  PROVE  Slots(n, new, pos, more) = Append(Slots(n, node, pos, size), d)
<1> DEFINE s == Slots(n, node, pos, size)
           t == Slots(n, new, pos, more)
<1>0. /\ pos \in 0 .. n - 1 /\ size \in Nat /\ size < n - 1 /\ more = size + 1
      /\ end \in 0 .. n - 1
      /\ end = IF pos + size >= n THEN pos + size - n ELSE pos + size
      /\ node \in Nodes(n) /\ new \in Nodes(n) /\ d \in 0 .. n - 1
  BY DEF Stored
<1>1. more \in 0 .. n - 1 /\ size \in 0 .. n - 1 /\ more \in Nat
  BY <1>0
<1>2. \A x \in 0 .. n - 1 : new[x] = IF x = end THEN d ELSE node[x]
  BY DEF Stored, Nodes
<1>3. s \in Seq(0 .. n - 1) /\ Len(s) = size
  BY <1>0, <1>1, SlotsType
<1>4. t \in Seq(0 .. n - 1) /\ Len(t) = more
  <2>1. pos \in 0 .. n - 1 /\ new \in Nodes(n) /\ more \in 0 .. n - 1
    BY <1>0, <1>1
  <2> QED
    BY <2>1, SlotsType
<1>5. ASSUME NEW k \in 1 .. more
      PROVE  t[k] = IF k = more THEN d ELSE s[k]
  <2>0. k \in 1 .. size + 1
    BY <1>0
  <2>1. /\ (pos + k - 1) % n = end <=> k = more
        /\ (pos + k - 1) % n \in 0 .. n - 1
    BY <1>0, <2>0, EndSlot
  <2>2. t[k] = new[(pos + k - 1) % n]
    BY DEF Slots
  <2>3. k # more => s[k] = node[(pos + k - 1) % n]
    <3>1. k # more => k \in 1 .. size
      BY <1>0
    <3> QED
      BY <3>1 DEF Slots
  <2> HIDE DEF s, t
  <2> QED
    BY <1>2, <2>1, <2>2, <2>3
<1> HIDE DEF s, t
<1>6. /\ Append(s, d) \in Seq(0 .. n - 1) /\ Len(Append(s, d)) = more
      /\ \A k \in 1 .. more :
           Append(s, d)[k] = IF k = more THEN d ELSE s[k]
  BY <1>0, <1>3
<1>7. t = Append(s, d)
  <2>1. \A k \in 1 .. more : t[k] = Append(s, d)[k]
    BY <1>5, <1>6
  <2> QED
    BY <1>4, <1>6, <2>1, SameList
<1> QED
  BY <1>7 DEF s, t

\* Where a pool pushes, seen from where it pops.
LEMMA FreeListSlots ==
  ASSUME NEW n \in Nat \ {0}, NEW p \in PoolType(n)
  PROVE  /\ p.node \in Nodes(n) /\ p.push_pos \in 0 .. n - 1
         /\ p.pop_pos \in 0 .. n - 1 /\ FreeCount(p) \in 0 .. n - 1
         /\ p.push_pos = IF p.pop_pos + FreeCount(p) >= n
                            THEN p.pop_pos + FreeCount(p) - n
                            ELSE p.pop_pos + FreeCount(p)
         /\ FreeList(p) = Slots(n, p.node, p.pop_pos, FreeCount(p))
         /\ FreeList(p) \in Seq(0 .. n - 1)
         /\ Len(FreeList(p)) = FreeCount(p)
<1>1. p.node \in Nodes(n) /\ p.total = n
  BY PoolFields DEF Nodes
<1>2. PICK a \in 0 .. n - 1, b \in 0 .. n - 1 : a = p.push_pos /\ b = p.pop_pos
  BY PoolFields
<1>3. FreeCount(p) = IF a >= b THEN a - b ELSE a + n - b
  BY <1>1, <1>2 DEF FreeCount
<1>4. PICK c \in 0 .. n - 1 : c = FreeCount(p)
  BY <1>3
<1>5. a = IF b + c >= n THEN b + c - n ELSE b + c
  BY <1>3, <1>4
<1>6. FreeList(p) = Slots(n, p.node, b, c)
  BY <1>1, <1>2, <1>4 DEF FreeList, Slots
<1>7. Slots(n, p.node, b, c) \in Seq(0 .. n - 1) /\ Len(Slots(n, p.node, b, c)) = c
  BY <1>1, SlotsType
<1> QED
  BY <1>1, <1>2, <1>4, <1>5, <1>6, <1>7

\* A new pool gives its buffers in the order of their addresses.
LEMMA InitPoolList ==
  ASSUME NEW n \in Nat \ {0}
  PROVE  FreeList(init_pool(n)) = [k \in 1 .. n - 1 |-> k - 1]
<1> DEFINE p == init_pool(n)
<1>1. /\ p.pop_pos = 0 /\ p.total = n /\ p.node = [k \in 0 .. n - 1 |-> k]
      /\ FreeCount(p) = n - 1
  BY InitPool DEF init_pool
<1> HIDE DEF p
<1>2. ASSUME NEW k \in 1 .. n - 1
      PROVE  p.node[(p.pop_pos + k - 1) % p.total] = k - 1
  <2>1. PICK a \in 0 .. n - 1 : a = k - 1
    OBVIOUS
  <2>2. a % n = a
    <3>1. a \in Nat /\ a < n + n /\ ~ (a >= n)
      OBVIOUS
    <3> QED
      BY <3>1, SlotIndex
  <2>3. p.pop_pos + k - 1 = a
    BY <1>1, <2>1
  <2> QED
    BY <1>1, <2>1, <2>2, <2>3
<1>3. FreeList(p) = [k \in 1 .. n - 1 |-> k - 1]
  BY <1>1, <1>2 DEF FreeList
<1> QED
  BY <1>3 DEF p

\* get_buf takes the first buffer of the list.
LEMMA GetBufList ==
  ASSUME NEW n \in Nat \ {0}, NEW p, PoolOK(p, n), ~ is_empty_pool(p)
  PROVE  /\ FreeList(p) # <<>>
         /\ get_buf_data(p) = Head(FreeList(p))
         /\ FreeList(get_buf(p)) = Tail(FreeList(p))
<1> DEFINE q == get_buf(p)
<1>1. p \in PoolType(n) /\ q \in PoolType(n) /\ FreeCount(q) = FreeCount(p) - 1
  BY GetBuf DEF PoolOK
<1>2. p.total = n
  BY <1>1, PoolFields
<1>3. PICK b \in 0 .. n - 1, c \in 0 .. n - 1 : b = p.pop_pos /\ c = FreeCount(p)
  BY <1>1, FreeListSlots
<1>4. c # 0
  BY <1>1, <1>3, PoolEmpty
<1>5. q.node = p.node /\ q.pop_pos = PoolWrap(b + 1, n)
  BY <1>1, <1>2, <1>3 DEF get_buf, PoolType
<1>6. PICK d : d = PoolWrap(b + 1, n) /\ d = IF b + 1 >= n THEN 0 ELSE b + 1
  BY WrapInRing
<1>7. /\ FreeList(p) = Slots(n, p.node, b, c) /\ p.node \in Nodes(n)
  BY <1>1, <1>3, FreeListSlots
<1> HIDE DEF q
<1>8. PICK old, e : old = p.node /\ e = c - 1
  OBVIOUS
<1>9. Taken(n, old, b, c, d, e)
  <2>1. c \in 1 .. n - 1
    BY <1>4
  <2> QED
    BY <1>6, <1>7, <1>8, <2>1 DEF Taken
<1>10. /\ Slots(n, old, b, c) # <<>> /\ Head(Slots(n, old, b, c)) = old[b]
       /\ Slots(n, old, d, e) = Tail(Slots(n, old, b, c))
  BY <1>9, SlotsTail
<1>11. FreeList(q) = Slots(n, old, d, e)
  BY <1>1, <1>3, <1>5, <1>6, <1>8, FreeListSlots
<1>12. /\ FreeList(p) # <<>> /\ Head(FreeList(p)) = p.node[b]
       /\ FreeList(q) = Tail(FreeList(p))
  BY <1>7, <1>8, <1>10, <1>11
<1> QED
  BY <1>3, <1>12 DEF q, get_buf_data

\* free_buf adds a buffer to the end of the list.
LEMMA FreeBufList ==
  ASSUME NEW n \in Nat \ {0}, NEW p, PoolOK(p, n), FreeCount(p) < n - 1,
         NEW d \in 0 .. n - 1
  PROVE  FreeList(free_buf(p, d)) = Append(FreeList(p), d)
<1> DEFINE q == free_buf(p, d)
<1>1. p \in PoolType(n) /\ q \in PoolType(n) /\ FreeCount(q) = FreeCount(p) + 1
  BY FreeBuf DEF PoolOK
<1>2. PICK a \in 0 .. n - 1, b \in 0 .. n - 1, c \in 0 .. n - 1 :
        a = p.push_pos /\ b = p.pop_pos /\ c = FreeCount(p)
  BY <1>1, FreeListSlots
<1>3. c \in Nat /\ c < n - 1
  BY <1>2
<1>4. a = IF b + c >= n THEN b + c - n ELSE b + c
  BY <1>1, <1>2, FreeListSlots
<1>5. q.node = [p.node EXCEPT ![a] = d] /\ q.pop_pos = b
  BY <1>1, <1>2 DEF free_buf, PoolType
<1> HIDE DEF q
<1>6. PICK old \in Nodes(n), new \in Nodes(n) : old = p.node /\ new = q.node
  BY <1>1, FreeListSlots
<1>7. PICK m : m = c + 1
  OBVIOUS
<1>8. Slots(n, new, b, m) = Append(Slots(n, old, b, c), d)
  <2>1. new = [old EXCEPT ![a] = d]
    BY <1>5, <1>6
  <2>2. Stored(n, old, new, b, c, a, m, d)
    BY <1>2, <1>3, <1>4, <1>6, <1>7, <2>1 DEF Stored
  <2> QED
    BY <2>2, SlotsAppend
<1>9. /\ FreeList(p) = Slots(n, old, b, c)
      /\ FreeList(q) = Slots(n, new, b, m)
  BY <1>1, <1>2, <1>5, <1>6, <1>7, FreeListSlots
<1>10. FreeList(q) = Append(FreeList(p), d)
  BY <1>8, <1>9
<1> QED
  BY <1>10 DEF q

\* Where a queue pushes, seen from where it pops.
LEMMA QueueListSlots ==
  ASSUME NEW n \in Nat \ {0}, NEW q \in QueueType(n)
  PROVE  /\ q.node \in Nodes(n) /\ q.push_pos \in 0 .. n - 1
         /\ q.pop_pos \in 0 .. n - 1 /\ QueueCount(q) \in 0 .. n - 1
         /\ q.push_pos = IF q.pop_pos + QueueCount(q) >= n
                            THEN q.pop_pos + QueueCount(q) - n
                            ELSE q.pop_pos + QueueCount(q)
         /\ QueueList(q) = Slots(n, q.node, q.pop_pos, QueueCount(q))
         /\ QueueList(q) \in Seq(0 .. n - 1)
         /\ Len(QueueList(q)) = QueueCount(q)
<1>1. q.node \in Nodes(n) /\ q.total = n
  BY QueueFields DEF Nodes
<1>2. PICK a \in 0 .. n - 1, b \in 0 .. n - 1 : a = q.push_pos /\ b = q.pop_pos
  BY QueueFields
<1>3. QueueCount(q) = IF a >= b THEN a - b ELSE a + n - b
  BY <1>1, <1>2 DEF QueueCount
<1>4. PICK c \in 0 .. n - 1 : c = QueueCount(q)
  BY <1>3
<1>5. a = IF b + c >= n THEN b + c - n ELSE b + c
  BY <1>3, <1>4
<1>6. QueueList(q) = Slots(n, q.node, b, c)
  BY <1>1, <1>2, <1>4 DEF QueueList, Slots
<1>7. Slots(n, q.node, b, c) \in Seq(0 .. n - 1) /\ Len(Slots(n, q.node, b, c)) = c
  BY <1>1, SlotsType
<1> QED
  BY <1>1, <1>2, <1>4, <1>5, <1>6, <1>7

\* pop_session_buf takes the first packet of the list.
LEMMA PopList ==
  ASSUME NEW n \in Nat \ {0}, NEW q, QueueOK(q, n), ~ is_empty_manager_queue(q)
  PROVE  /\ QueueList(q) # <<>>
         /\ pop_session_buf_data(q) = Head(QueueList(q))
         /\ QueueList(pop_session_buf(q)) = Tail(QueueList(q))
<1> DEFINE r == pop_session_buf(q)
<1>1. q \in QueueType(n) /\ r \in QueueType(n) /\ QueueCount(r) = QueueCount(q) - 1
  BY PopSessionBuf DEF QueueOK
<1>2. q.total = n
  BY <1>1, QueueFields
<1>3. PICK b \in 0 .. n - 1, c \in 0 .. n - 1 : b = q.pop_pos /\ c = QueueCount(q)
  BY <1>1, QueueListSlots
<1>4. c # 0
  BY <1>1, <1>3, QueueEmptyFull
<1>5. r.node = q.node /\ r.pop_pos = QueueWrap(b + 1, n)
  BY <1>1, <1>2, <1>3 DEF pop_session_buf, QueueType
<1>6. PICK d : d = QueueWrap(b + 1, n) /\ d = IF b + 1 >= n THEN 0 ELSE b + 1
  BY WrapInRing
<1>7. /\ QueueList(q) = Slots(n, q.node, b, c) /\ q.node \in Nodes(n)
  BY <1>1, <1>3, QueueListSlots
<1> HIDE DEF r
<1>8. PICK old, e : old = q.node /\ e = c - 1
  OBVIOUS
<1>9. Taken(n, old, b, c, d, e)
  <2>1. c \in 1 .. n - 1
    BY <1>4
  <2> QED
    BY <1>6, <1>7, <1>8, <2>1 DEF Taken
<1>10. /\ Slots(n, old, b, c) # <<>> /\ Head(Slots(n, old, b, c)) = old[b]
       /\ Slots(n, old, d, e) = Tail(Slots(n, old, b, c))
  BY <1>9, SlotsTail
<1>11. QueueList(r) = Slots(n, old, d, e)
  BY <1>1, <1>3, <1>5, <1>6, <1>8, QueueListSlots
<1>12. /\ QueueList(q) # <<>> /\ Head(QueueList(q)) = q.node[b]
       /\ QueueList(r) = Tail(QueueList(q))
  BY <1>7, <1>8, <1>10, <1>11
<1> QED
  BY <1>3, <1>12 DEF r, pop_session_buf_data

\* push_session_buf adds a packet to the end of the list.
LEMMA PushList ==
  ASSUME NEW n \in Nat \ {0}, NEW q, QueueOK(q, n), QueueCount(q) < n - 1,
         NEW d \in 0 .. n - 1
  PROVE  QueueList(push_session_buf(q, d)) = Append(QueueList(q), d)
<1> DEFINE r == push_session_buf(q, d)
<1>1. q \in QueueType(n) /\ r \in QueueType(n) /\ QueueCount(r) = QueueCount(q) + 1
  BY PushSessionBuf DEF QueueOK
<1>2. PICK a \in 0 .. n - 1, b \in 0 .. n - 1, c \in 0 .. n - 1 :
        a = q.push_pos /\ b = q.pop_pos /\ c = QueueCount(q)
  BY <1>1, QueueListSlots
<1>3. c \in Nat /\ c < n - 1
  BY <1>2
<1>4. a = IF b + c >= n THEN b + c - n ELSE b + c
  BY <1>1, <1>2, QueueListSlots
<1>5. r.node = [q.node EXCEPT ![a] = d] /\ r.pop_pos = b
  BY <1>1, <1>2 DEF push_session_buf, QueueType
<1> HIDE DEF r
<1>6. PICK old \in Nodes(n), new \in Nodes(n) : old = q.node /\ new = r.node
  BY <1>1, QueueListSlots
<1>7. PICK m : m = c + 1
  OBVIOUS
<1>8. Slots(n, new, b, m) = Append(Slots(n, old, b, c), d)
  <2>1. new = [old EXCEPT ![a] = d]
    BY <1>5, <1>6
  <2>2. Stored(n, old, new, b, c, a, m, d)
    BY <1>2, <1>3, <1>4, <1>6, <1>7, <2>1 DEF Stored
  <2> QED
    BY <2>2, SlotsAppend
<1>9. /\ QueueList(q) = Slots(n, old, b, c)
      /\ QueueList(r) = Slots(n, new, b, m)
  BY <1>1, <1>2, <1>5, <1>6, <1>7, QueueListSlots
<1>10. QueueList(r) = Append(QueueList(q), d)
  BY <1>8, <1>9
<1> QED
  BY <1>10 DEF r

-----------------------------------------------------------------------------
(* The error paths of the rings are never taken. *)

\* The invariant holds when init_generator_set is done.
LEMMA RingInit == Init => RingInv
<1> SUFFICES ASSUME Init PROVE RingInv
  OBVIOUS
<1> USE OnceAssumption
<1>1. Once + 1 \in Nat \ {0}
  OBVIOUS
<1>2. /\ PoolOK(init_pool(Once + 1), Once + 1)
      /\ FreeCount(init_pool(Once + 1)) = Once
  BY <1>1, InitPool
<1>3. /\ QueueOK(init_manager_queue(Once + 1), Once + 1)
      /\ QueueCount(init_manager_queue(Once + 1)) = 0
  BY <1>1, InitQueue
<1>4. WorkerTypeOK
  <2>1. /\ pool \in [Workers -> PoolType(Once + 1)]
        /\ queue \in [Workers -> QueueType(Once + 1)]
    BY <1>2, <1>3 DEF Init, PoolOK, QueueOK
  <2>2. /\ data \in [Workers -> [Buffers -> Payload \cup {Blank}]]
        /\ packet \in [Workers -> Buffers]
        /\ i \in [Workers -> 0 .. Once]
    BY DEF Init, Buffers
  <2>3. count \in [Workers -> [Counters -> Nat]]
    BY GarbageAssumption DEF Init
  <2>4. batch \in [Workers -> 0 .. MaxBatches]
    BY BoundAssumption DEF Init
  <2> QED
    BY <2>1, <2>2, <2>3, <2>4 DEF Init, WorkerTypeOK
<1>5. ASSUME NEW w \in Workers
      PROVE  /\ PoolOK(pool[w], Once + 1)
             /\ QueueOK(queue[w], Once + 1)
             /\ PacketsSplit(w)
  BY <1>2, <1>3 DEF Init, PacketsSplit
<1> QED
  BY <1>4, <1>5 DEF RingInv

\* A worker's step leaves the rings and the place of the others alone, so it
\* is enough to look at the worker that takes the step.
LEMMA OneWorker ==
  ASSUME RingInv, Running, NEW w \in Workers,
         WorkerTypeOK',
         \A v \in Workers \ {w} :
           pc'[v] = pc[v] /\ i'[v] = i[v]
             /\ pool'[v] = pool[v] /\ queue'[v] = queue[v],
         Running' => /\ PoolOK(pool'[w], Once + 1)
                     /\ QueueOK(queue'[w], Once + 1)
                     /\ PacketsSplit(w)'
  PROVE  RingInv'
<1> SUFFICES ASSUME Running', NEW v \in Workers
             PROVE  /\ PoolOK(pool'[v], Once + 1)
                    /\ QueueOK(queue'[v], Once + 1)
                    /\ PacketsSplit(v)'
  BY DEF RingInv
<1>1. CASE v = w
  BY <1>1
<1>2. CASE v # w
  BY <1>2 DEF RingInv, PacketsSplit
<1> QED
  BY <1>1, <1>2

\* What the invariant says of the rings of a worker of the running process.
LEMMA RingFacts ==
  ASSUME RingInv, Running, NEW w \in Workers
  PROVE  /\ Once \in Nat /\ Once + 1 \in Nat \ {0}
         /\ i[w] \in 0 .. Once
         /\ PoolOK(pool[w], Once + 1) /\ QueueOK(queue[w], Once + 1)
         /\ PacketsSplit(w)
         /\ is_empty_pool(pool[w]) <=> FreeCount(pool[w]) = 0
         /\ is_empty_manager_queue(queue[w]) <=> QueueCount(queue[w]) = 0
         /\ is_full_manager_queue(queue[w]) <=> QueueCount(queue[w]) = Once
<1>1. Once \in Nat /\ Once + 1 \in Nat \ {0} /\ (Once + 1) - 1 = Once
  BY OnceAssumption
<1>2. PoolOK(pool[w], Once + 1) /\ QueueOK(queue[w], Once + 1)
      /\ PacketsSplit(w)
  BY DEF RingInv
<1>3. pool[w] \in PoolType(Once + 1) /\ queue[w] \in QueueType(Once + 1)
  BY <1>2 DEF PoolOK, QueueOK
<1>4. i[w] \in 0 .. Once
  BY DEF RingInv, WorkerTypeOK
<1> QED
  BY <1>1, <1>2, <1>3, <1>4, PoolEmpty, QueueEmptyFull

\* The steps of make_all_packet and those that only move the program counter.
LEMMA FillKeeps ==
  ASSUME RingInv, Running, NEW w \in Workers,
         \/ MakePacket(w) \/ MakeDone(w) \/ StartBatch(w) \/ Finish(w)
         \/ SendDone(w) \/ RecvDone(w)
  PROVE  RingInv'
<1> DEFINE n == Once + 1
<1>1. /\ Once \in Nat /\ n \in Nat \ {0} /\ i[w] \in 0 .. Once
      /\ PoolOK(pool[w], n) /\ QueueOK(queue[w], n) /\ PacketsSplit(w)
      /\ is_empty_pool(pool[w]) <=> FreeCount(pool[w]) = 0
  BY RingFacts
<1> USE DEF At, Goto, Loop, others, flags
<1>2. WorkerTypeOK
  BY DEF RingInv
<1>3. CASE MakePacket(w)
  <2> DEFINE p == get_buf(pool[w])
             b == get_buf_data(pool[w])
  <2>1. ~ is_empty_pool(pool[w])
    BY <1>1, <1>3 DEF MakePacket, PacketsSplit
  <2>2. PoolOK(p, n) /\ FreeCount(p) = Once - 1 /\ b \in 0 .. Once
    BY <1>1, <1>3, <2>1, GetBuf DEF MakePacket, PacketsSplit
  <2>3. PoolOK(free_buf(p, b), n) /\ FreeCount(free_buf(p, b)) = Once
    BY <1>1, <2>2, FreeBuf
  <2>4. /\ pool' = [pool EXCEPT ![w] = free_buf(p, b)]
        /\ \E x \in Payload : data' = [data EXCEPT ![w][b] = x]
        /\ i' = [i EXCEPT ![w] = i[w] + 1]
        /\ i[w] < Once
        /\ UNCHANGED <<pc, queue, packet, count, batch, finish_counter,
                       exit_noti_flag, process>>
    BY <1>3, <2>1 DEF MakePacket
  <2>5. WorkerTypeOK'
    <3>1. pool' \in [Workers -> PoolType(n)]
      BY <1>2, <2>3, <2>4 DEF WorkerTypeOK, PoolOK
    <3>2. data' \in [Workers -> [Buffers -> Payload \cup {Blank}]]
      BY <1>2, <2>2, <2>4 DEF WorkerTypeOK, Buffers
    <3>3. i' \in [Workers -> 0 .. Once]
      BY <1>1, <1>2, <2>4 DEF WorkerTypeOK
    <3>4. UNCHANGED <<pc, queue, packet, count, batch, finish_counter,
                      exit_noti_flag, process>>
      BY <2>4
    <3> QED
      BY <1>2, <3>1, <3>2, <3>3, <3>4 DEF WorkerTypeOK
  <2> QED
    BY <1>1, <1>3, <2>3, <2>4, <2>5, OneWorker
       DEF PacketsSplit, MakePacket, WorkerTypeOK
<1>4. CASE MakeDone(w)
  <2>1. WorkerTypeOK'
    BY <1>1, <1>2, <1>4, BoundAssumption DEF WorkerTypeOK, MakeDone
  <2>2. PacketsSplit(w)'
    BY <1>1, <1>2, <1>4 DEF WorkerTypeOK, PacketsSplit, MakeDone
  <2>3. /\ pool' = pool /\ queue' = queue
        /\ \A v \in Workers \ {w} : pc'[v] = pc[v] /\ i'[v] = i[v]
    BY <1>2, <1>4 DEF WorkerTypeOK, MakeDone
  <2> QED
    BY <1>1, <2>1, <2>2, <2>3, OneWorker
<1>5. CASE StartBatch(w)
  <2>1. WorkerTypeOK'
    BY <1>1, <1>2, <1>5, BoundAssumption DEF WorkerTypeOK, StartBatch
  <2>2. PacketsSplit(w)'
    BY <1>1, <1>2, <1>5 DEF WorkerTypeOK, PacketsSplit, StartBatch
  <2>3. /\ pool' = pool /\ queue' = queue
        /\ \A v \in Workers \ {w} : pc'[v] = pc[v] /\ i'[v] = i[v]
    BY <1>2, <1>5 DEF WorkerTypeOK, StartBatch
  <2> QED
    BY <1>1, <2>1, <2>2, <2>3, OneWorker
<1>6. CASE Finish(w)
  <2>1. WorkerTypeOK'
    BY <1>1, <1>2, <1>6, BoundAssumption DEF WorkerTypeOK, Finish
  <2>2. PacketsSplit(w)'
    BY <1>1, <1>2, <1>6 DEF WorkerTypeOK, PacketsSplit, Finish
  <2>3. /\ pool' = pool /\ queue' = queue
        /\ \A v \in Workers \ {w} : pc'[v] = pc[v] /\ i'[v] = i[v]
    BY <1>2, <1>6 DEF WorkerTypeOK, Finish
  <2> QED
    BY <1>1, <2>1, <2>2, <2>3, OneWorker
<1>7. CASE SendDone(w)
  <2>1. WorkerTypeOK'
    BY <1>1, <1>2, <1>7, BoundAssumption DEF WorkerTypeOK, SendDone
  <2>2. PacketsSplit(w)'
    <3>1. FreeCount(pool[w]) = 0 /\ QueueCount(queue[w]) = Once
      BY <1>1, <1>7 DEF PacketsSplit, SendDone
    <3>2. /\ pc'[w] = "recv" /\ i'[w] = 0
          /\ pool'[w] = pool[w] /\ queue'[w] = queue[w]
      BY <1>2, <1>7 DEF WorkerTypeOK, SendDone
    <3> QED
      BY <1>1, <3>1, <3>2 DEF PacketsSplit
  <2>3. /\ pool' = pool /\ queue' = queue
        /\ \A v \in Workers \ {w} : pc'[v] = pc[v] /\ i'[v] = i[v]
    BY <1>2, <1>7 DEF WorkerTypeOK, SendDone
  <2> QED
    BY <1>1, <2>1, <2>2, <2>3, OneWorker
<1>8. CASE RecvDone(w)
  <2>1. WorkerTypeOK'
    BY <1>1, <1>2, <1>8, BoundAssumption DEF WorkerTypeOK, RecvDone
  <2>2. PacketsSplit(w)'
    <3>1. FreeCount(pool[w]) = Once /\ QueueCount(queue[w]) = 0
      BY <1>1, <1>8 DEF PacketsSplit, RecvDone
    <3>2. /\ pc'[w] = "test"
          /\ pool'[w] = pool[w] /\ queue'[w] = queue[w]
      BY <1>2, <1>8 DEF WorkerTypeOK, RecvDone
    <3> QED
      BY <1>1, <3>1, <3>2 DEF PacketsSplit
  <2>3. /\ pool' = pool /\ queue' = queue
        /\ \A v \in Workers \ {w} : pc'[v] = pc[v] /\ i'[v] = i[v]
    BY <1>2, <1>8 DEF WorkerTypeOK, RecvDone
  <2> QED
    BY <1>1, <2>1, <2>2, <2>3, OneWorker
<1> QED
  BY <1>3, <1>4, <1>5, <1>6, <1>7, <1>8

\* The steps of the send loop.
LEMMA SendKeeps ==
  ASSUME RingInv, Running, NEW w \in Workers, SendTake(w) \/ SendPut(w)
  PROVE  RingInv'
<1> DEFINE n == Once + 1
<1>1. /\ Once \in Nat /\ n \in Nat \ {0} /\ i[w] \in 0 .. Once
      /\ PoolOK(pool[w], n) /\ QueueOK(queue[w], n) /\ PacketsSplit(w)
      /\ is_empty_pool(pool[w]) <=> FreeCount(pool[w]) = 0
      /\ is_full_manager_queue(queue[w]) <=> QueueCount(queue[w]) = Once
  BY RingFacts
<1>2. WorkerTypeOK
  BY DEF RingInv
<1> USE DEF At, Goto, Loop, others, flags
<1>3. CASE SendTake(w)
  <2> DEFINE p == get_buf(pool[w])
  <2>1. i[w] < Once /\ pc[w] = "send" /\ ~ is_empty_pool(pool[w])
    BY <1>1, <1>3 DEF SendTake, PacketsSplit
  <2>2. /\ PoolOK(p, n) /\ FreeCount(p) = FreeCount(pool[w]) - 1
        /\ get_buf_data(pool[w]) \in 0 .. Once
    BY <1>1, <2>1, GetBuf
  <2>3. /\ pool' = [pool EXCEPT ![w] = p]
        /\ packet' = [packet EXCEPT ![w] = get_buf_data(pool[w])]
        /\ UNCHANGED <<i, queue, data, count, batch, finish_counter,
                       exit_noti_flag>>
    BY <1>3, <2>1 DEF SendTake
  <2>4. \/ process' = "died" /\ pc' = pc
        \/ process' = process /\ pc' = [pc EXCEPT ![w] = "put"]
    BY <1>3, <2>1 DEF SendTake
  <2>5. WorkerTypeOK'
    <3>1. pool' \in [Workers -> PoolType(n)]
      BY <1>2, <2>2, <2>3 DEF WorkerTypeOK, PoolOK
    <3>2. packet' \in [Workers -> Buffers]
      BY <1>2, <2>2, <2>3 DEF WorkerTypeOK, Buffers
    <3> QED
      BY <1>2, <2>3, <2>4, <3>1, <3>2 DEF WorkerTypeOK
  <2>6. Running' => PacketsSplit(w)'
    <3> SUFFICES ASSUME Running' PROVE PacketsSplit(w)'
      OBVIOUS
    <3>1. pc'[w] = "put" /\ pool'[w] = p /\ queue'[w] = queue[w] /\ i'[w] = i[w]
      BY <1>2, <2>3, <2>4 DEF WorkerTypeOK, Running
    <3>2. /\ FreeCount(pool[w]) = Once - i[w]
          /\ QueueCount(queue[w]) = i[w]
      BY <1>1, <2>1 DEF PacketsSplit
    <3> QED
      BY <1>1, <2>1, <2>2, <3>1, <3>2 DEF PacketsSplit
  <2>7. /\ pool'[w] = p /\ queue'[w] = queue[w]
        /\ \A v \in Workers \ {w} :
             pc'[v] = pc[v] /\ i'[v] = i[v]
               /\ pool'[v] = pool[v] /\ queue'[v] = queue[v]
    BY <1>2, <2>3, <2>4 DEF WorkerTypeOK
  <2> QED
    BY <1>1, <2>2, <2>5, <2>6, <2>7, OneWorker
<1>4. CASE SendPut(w)
  <2> DEFINE q == push_session_buf(queue[w], packet[w])
  <2>1. /\ pc[w] = "put" /\ i[w] < Once
        /\ FreeCount(pool[w]) = Once - i[w] - 1 /\ QueueCount(queue[w]) = i[w]
    BY <1>1, <1>4 DEF SendPut, PacketsSplit
  <2>2. ~ is_full_manager_queue(queue[w])
    BY <1>1, <2>1
  <2>3. QueueOK(q, n) /\ QueueCount(q) = i[w] + 1
    <3>1. packet[w] \in 0 .. Once
      BY <1>2 DEF WorkerTypeOK, Buffers
    <3> QED
      BY <1>1, <2>1, <3>1, PushSessionBuf
  <2>4. /\ queue' = [queue EXCEPT ![w] = q]
        /\ pc' = [pc EXCEPT ![w] = "send"]
        /\ i'  = [i EXCEPT ![w] = i[w] + 1]
        /\ UNCHANGED <<pool, data, packet, count, batch, finish_counter,
                       exit_noti_flag, process>>
    BY <1>4, <2>2 DEF SendPut
  <2>5. WorkerTypeOK'
    <3>1. queue' \in [Workers -> QueueType(n)]
      BY <1>2, <2>3, <2>4 DEF WorkerTypeOK, QueueOK
    <3>2. i' \in [Workers -> 0 .. Once]
      BY <1>1, <1>2, <2>1, <2>4 DEF WorkerTypeOK
    <3> QED
      BY <1>2, <2>4, <3>1, <3>2 DEF WorkerTypeOK
  <2>6. /\ pc'[w] = "send" /\ i'[w] = i[w] + 1
        /\ pool'[w] = pool[w] /\ queue'[w] = q
        /\ \A v \in Workers \ {w} :
             pc'[v] = pc[v] /\ i'[v] = i[v]
               /\ pool'[v] = pool[v] /\ queue'[v] = queue[v]
    BY <1>2, <2>4 DEF WorkerTypeOK
  <2>7. PacketsSplit(w)'
    BY <1>1, <2>1, <2>3, <2>6 DEF PacketsSplit
  <2> QED
    BY <1>1, <2>3, <2>5, <2>6, <2>7, OneWorker
<1> QED
  BY <1>3, <1>4

\* The steps of the receive loop.
LEMMA RecvKeeps ==
  ASSUME RingInv, Running, NEW w \in Workers,
         RecvGet(w) \/ Judge(w) \/ RecvTimeout(w)
  PROVE  RingInv'
<1> DEFINE n == Once + 1
           q == pop_session_buf(queue[w])
           d == pop_session_buf_data(queue[w])
           p == free_buf(pool[w], d)
<1>1. /\ Once \in Nat /\ n \in Nat \ {0} /\ i[w] \in 0 .. Once
      /\ PoolOK(pool[w], n) /\ QueueOK(queue[w], n) /\ PacketsSplit(w)
      /\ is_empty_manager_queue(queue[w]) <=> QueueCount(queue[w]) = 0
  BY RingFacts
<1>2. WorkerTypeOK
  BY DEF RingInv
<1> USE DEF At, Goto, Loop, others, flags
<1>3. /\ pc[w] \in {"recv", "judge"} /\ i[w] < Once
      /\ FreeCount(pool[w]) = i[w] /\ QueueCount(queue[w]) = Once - i[w]
  BY <1>1 DEF PacketsSplit, RecvGet, Judge, RecvTimeout
<1>4. /\ QueueOK(q, n) /\ QueueCount(q) = Once - i[w] - 1
      /\ d \in 0 .. Once
  BY <1>1, <1>3, PopSessionBuf
<1>5. PoolOK(p, n) /\ FreeCount(p) = i[w] + 1
  BY <1>1, <1>3, <1>4, FreeBuf
<1>6. ~ is_empty_manager_queue(queue[w])
  BY <1>1, <1>3
<1>7. CASE RecvGet(w)
  <2>1. /\ pc' = [pc EXCEPT ![w] = "judge"]
        /\ UNCHANGED <<i, pool, queue, data, packet, count, batch,
                       finish_counter, exit_noti_flag, process>>
    BY <1>7 DEF RecvGet
  <2>2. WorkerTypeOK'
    BY <1>2, <2>1 DEF WorkerTypeOK
  <2>3. pc'[w] = "judge" /\ \A v \in Workers \ {w} : pc'[v] = pc[v]
    BY <1>2, <2>1 DEF WorkerTypeOK
  <2>4. PacketsSplit(w)'
    BY <1>1, <1>3, <2>1, <2>3 DEF PacketsSplit
  <2> QED
    BY <1>1, <2>1, <2>2, <2>3, <2>4, OneWorker
<1>8. CASE /\ queue' = [queue EXCEPT ![w] = q]
           /\ pool' = [pool EXCEPT ![w] = p]
           /\ i' = [i EXCEPT ![w] = i[w] + 1]
           /\ pc' = [pc EXCEPT ![w] = "recv"]
           /\ count' \in [Workers -> [Counters -> Nat]]
           /\ process' \in {"running", "exited", "died"}
           /\ UNCHANGED <<data, packet, batch, finish_counter, exit_noti_flag>>
  <2>1. WorkerTypeOK'
    <3>1. queue' \in [Workers -> QueueType(n)]
      BY <1>2, <1>4, <1>8 DEF WorkerTypeOK, QueueOK
    <3>2. pool' \in [Workers -> PoolType(n)]
      BY <1>2, <1>5, <1>8 DEF WorkerTypeOK, PoolOK
    <3>3. i' \in [Workers -> 0 .. Once]
      BY <1>1, <1>2, <1>3, <1>8 DEF WorkerTypeOK
    <3> QED
      BY <1>2, <1>8, <3>1, <3>2, <3>3 DEF WorkerTypeOK
  <2>2. /\ pc'[w] = "recv" /\ i'[w] = i[w] + 1
        /\ pool'[w] = p /\ queue'[w] = q
        /\ \A v \in Workers \ {w} :
             pc'[v] = pc[v] /\ i'[v] = i[v]
               /\ pool'[v] = pool[v] /\ queue'[v] = queue[v]
    BY <1>2, <1>8 DEF WorkerTypeOK
  <2>3. PacketsSplit(w)'
    BY <1>1, <1>3, <1>4, <1>5, <2>2 DEF PacketsSplit
  <2> QED
    BY <1>4, <1>5, <2>1, <2>2, <2>3, OneWorker
<1>9. CASE /\ process' = "exited"
           /\ queue' = [queue EXCEPT ![w] = q]
           /\ count' \in [Workers -> [Counters -> Nat]]
           /\ UNCHANGED <<pc, i, pool, data, packet, batch, finish_counter,
                          exit_noti_flag>>
  <2>1. queue' \in [Workers -> QueueType(n)]
    BY <1>2, <1>4, <1>9 DEF WorkerTypeOK, QueueOK
  <2>2. WorkerTypeOK'
    BY <1>2, <1>9, <2>1 DEF WorkerTypeOK
  <2> QED
    BY <1>9, <2>2 DEF RingInv, Running
<1>10. \A c \in [Counters -> Nat], k \in Counters : Bump(c, k) \in [Counters -> Nat]
  BY DEF Bump
<1>11. CASE RecvTimeout(w)
  <2>1. count' \in [Workers -> [Counters -> Nat]]
    <3>1. CountMiss(count[w]) \in [Counters -> Nat]
      BY <1>2, <1>10 DEF WorkerTypeOK, CountMiss, Counters
    <3>2. count' = [count EXCEPT ![w] = CountMiss(count[w])]
      BY <1>6, <1>11 DEF RecvTimeout
    <3> QED
      BY <1>2, <3>1, <3>2 DEF WorkerTypeOK
  <2>2. pc' = [pc EXCEPT ![w] = "recv"]
    BY <1>2, <1>6, <1>11 DEF RecvTimeout, WorkerTypeOK
  <2>3. process' \in {"running", "exited", "died"}
    BY <1>2, <1>6, <1>11 DEF RecvTimeout, WorkerTypeOK
  <2>4. /\ queue' = [queue EXCEPT ![w] = q]
        /\ pool' = [pool EXCEPT ![w] = p]
        /\ i' = [i EXCEPT ![w] = i[w] + 1]
        /\ UNCHANGED <<data, packet, batch, finish_counter, exit_noti_flag>>
    BY <1>6, <1>11 DEF RecvTimeout
  <2> QED
    BY <1>8, <2>1, <2>2, <2>3, <2>4
<1>12. CASE Judge(w)
  <2>1. AfterLength(w) \in [Counters -> Nat]
    BY <1>2, <1>10 DEF AfterLength, WorkerTypeOK, Counters
  <2>2. AfterData(w) \in [Counters -> Nat]
    BY <2>1, <1>10 DEF AfterData, Counters
  <2>3. count' \in [Workers -> [Counters -> Nat]]
    BY <1>2, <1>6, <1>12, <2>1, <2>2
       DEF Judge, JudgeExit, JudgeGoOn, WorkerTypeOK
  <2>4. JudgeExit(w) \/ JudgeGoOn(w)
    BY <1>6, <1>12 DEF Judge
  <2>5. CASE JudgeExit(w)
    BY <1>6, <1>9, <1>12, <2>3, <2>5 DEF Judge, JudgeExit
  <2>6. CASE JudgeGoOn(w)
    BY <1>2, <1>6, <1>8, <1>12, <2>3, <2>6
       DEF Judge, JudgeGoOn, WorkerTypeOK
  <2> QED
    BY <2>4, <2>5, <2>6
<1> QED
  BY <1>7, <1>11, <1>12

\* Every step of the system, and every stuttering step.
LEMMA RingNext == RingInv /\ [Next]_vars => RingInv'
<1> SUFFICES ASSUME RingInv, [Next]_vars PROVE RingInv'
  OBVIOUS
<1>1. CASE \E w \in Workers : Worker(w)
  BY <1>1, FillKeeps, SendKeeps, RecvKeeps DEF Worker
<1>2. CASE \/ \E w \in Workers : TimeUp(w)
           \/ Network \/ Terminating \/ UNCHANGED vars
  <2>1. UNCHANGED <<worker, finish_counter, exit_noti_flag, process>>
    BY <1>2 DEF TimeUp, Network, Transmit, Arrive, ArriveDamaged, ArriveResized,
                ArriveAs, Lose, Terminating, vars, others, flags
  <2> QED
    BY <2>1 DEF worker, RingInv, WorkerTypeOK, PacketsSplit, Running
<1>3. CASE Sigint \/ SigintExit
  <2>1. UNCHANGED <<worker, finish_counter>>
    BY <1>3 DEF Sigint, SigintExit
  <2>2. /\ exit_noti_flag' \in BOOLEAN
        /\ process' = process \/ process' = "exited"
    BY <1>3 DEF Sigint, SigintExit, RingInv, WorkerTypeOK
  <2> QED
    BY <2>1, <2>2 DEF worker, RingInv, WorkerTypeOK, PacketsSplit, Running
<1> QED
  BY <1>1, <1>2, <1>3 DEF Next

\* The inductive invariant of the rings.
THEOREM RingInvariant == Spec => []RingInv
  BY RingInit, RingNext, PTL DEF Spec

\* No error path of get_buf, push_session_buf and pop_session_buf is ever
\* taken by a worker, so that nothing leaks through the breaks behind them.
THEOREM RingsNeverFailTheorem == Spec => []RingsNeverFail
<1>1. RingInv => RingsNeverFail
  <2> SUFFICES ASSUME RingInv, Running, NEW w \in Workers
      PROVE /\ pc[w] \in {"fill", "send"} /\ i[w] < Once
                 => ~ is_empty_pool(pool[w])
            /\ At(w, "put") => ~ is_full_manager_queue(queue[w])
            /\ At(w, "judge") \/ (At(w, "recv") /\ i[w] < Once)
                 => ~ is_empty_manager_queue(queue[w])
    BY DEF RingsNeverFail
  <2> QED
    BY RingFacts DEF PacketsSplit, At
<1> QED
  BY <1>1, RingInvariant, PTL

\* The unsigned counts of the rings always tell how much the rings hold.
THEOREM RingCountsRightTheorem == Spec => []RingCountsRight
<1>1. RingInv => RingCountsRight
  BY DEF RingInv, RingCountsRight, PoolOK, QueueOK
<1> QED
  BY <1>1, RingInvariant, PTL

-----------------------------------------------------------------------------
(* Type correctness. *)

LEMMA BumpFault ==
  ASSUME NEW f \in [Workers -> [FaultKinds -> Nat]], NEW w \in Workers,
         NEW k \in FaultKinds
  PROVE  [f EXCEPT ![w] = Bump(@, k)] \in [Workers -> [FaultKinds -> Nat]]
<1>1. Bump(f[w], k) \in [FaultKinds -> Nat]
  BY DEF Bump
<1> QED
  BY <1>1

LEMMA NicInit == Init => NicTypeOK
<1> SUFFICES ASSUME Init PROVE NicTypeOK
  OBVIOUS
<1>1. NumBufs \in Nat
  BY SizesAssumption, WorkersAssumption, FS_CardinalityType DEF NumBufs
<1>2. base \in [Workers -> [Counters -> Nat]]
  BY GarbageAssumption DEF Init
<1> QED
  BY <1>1, <1>2 DEF Init, NicTypeOK

\* A frame of a worker is a frame: its last octet wraps at 256.
LEMMA FrameType ==
  ASSUME WorkerTypeOK, NEW w \in Workers
  PROVE  FrameOf(w) \in Frames
<1>1. LastOctet(w) \in 0 .. 255
  BY OctetAssumption, WorkersAssumption DEF LastOctet
<1>2. data[w][packet[w]] \in Payload \cup {Blank}
  BY DEF WorkerTypeOK
<1> QED
  BY <1>1, <1>2 DEF FrameOf, Frames

\* What arrives may differ in content and in length from what was sent.
LEMMA ArriveKeeps ==
  ASSUME NicTypeOK, NEW f \in Frames, wire # <<>>,
         NEW k \in FaultKinds \cup {"intact"}, ArriveAs(f, k)
  PROVE  NicTypeOK'
<1>1. wire' \in Seq(Frames)
  BY DEF NicTypeOK, ArriveAs
<1>2. PICK w \in RingsFor(f) :
        IF Len(iqueue[w]) < NotifEntries /\ stack > 0
         THEN /\ iqueue' = [iqueue EXCEPT ![w] = Append(@, f)]
              /\ stack'  = stack - 1
              /\ fault'  = IF k = "intact" THEN fault
                             ELSE [fault EXCEPT ![f.src] = Bump(@, k)]
         ELSE /\ UNCHANGED <<iqueue, stack>>
              /\ fault' = [fault EXCEPT ![f.src] = Bump(@, "overflow")]
  BY DEF ArriveAs
<1>3. w \in Workers /\ f.src \in Workers
  BY DEF RingsFor, Frames
<1>4. \A g \in FaultKinds :
        [fault EXCEPT ![f.src] = Bump(@, g)] \in
          [Workers -> [FaultKinds -> Nat]]
  BY <1>3, BumpFault DEF NicTypeOK
<1>5. /\ stack' \in Nat /\ iqueue' \in [Workers -> Seq(Frames)]
      /\ fault' \in [Workers -> [FaultKinds -> Nat]]
  <2>1. CASE Len(iqueue[w]) < NotifEntries /\ stack > 0
    <3>1. /\ iqueue' = [iqueue EXCEPT ![w] = Append(@, f)]
          /\ stack' = stack - 1
          /\ fault' = IF k = "intact" THEN fault
                       ELSE [fault EXCEPT ![f.src] = Bump(@, k)]
      BY <1>2, <2>1
    <3>2. Append(iqueue[w], f) \in Seq(Frames)
      BY <1>3 DEF NicTypeOK
    <3>3. iqueue' \in [Workers -> Seq(Frames)]
      BY <1>3, <3>1, <3>2 DEF NicTypeOK
    <3>4. fault' \in [Workers -> [FaultKinds -> Nat]]
      BY <1>4, <3>1 DEF NicTypeOK
    <3>5. stack' \in Nat
      BY <2>1, <3>1 DEF NicTypeOK
    <3> QED
      BY <3>3, <3>4, <3>5
  <2>2. CASE ~ (Len(iqueue[w]) < NotifEntries /\ stack > 0)
    <3>1. /\ UNCHANGED <<iqueue, stack>>
          /\ fault' = [fault EXCEPT ![f.src] = Bump(@, "overflow")]
      BY <1>2, <2>2
    <3>2. "overflow" \in FaultKinds
      BY DEF FaultKinds
    <3> QED
      BY <1>4, <3>1, <3>2 DEF NicTypeOK
  <2> QED
    BY <2>1, <2>2
<1>6. UNCHANGED <<timeUp, idesc, egress, base>>
  BY DEF ArriveAs, worker, flags
<1> QED
  BY <1>1, <1>5, <1>6 DEF NicTypeOK

LEMMA NicNext == WorkerTypeOK /\ NicTypeOK /\ [Next]_vars => NicTypeOK'
<1> SUFFICES ASSUME WorkerTypeOK, NicTypeOK, [Next]_vars PROVE NicTypeOK'
  OBVIOUS
<1> USE DEF others, flags, nic
<1>1. ASSUME NEW w \in Workers,
             MakePacket(w) \/ MakeDone(w) \/ StartBatch(w) \/ Finish(w)
               \/ SendDone(w) \/ RecvDone(w)
      PROVE  NicTypeOK'
  BY <1>1 DEF NicTypeOK, MakePacket, MakeDone, StartBatch, Finish, SendDone,
              RecvDone
<1>2. ASSUME NEW w \in Workers, SendTake(w)
      PROVE  NicTypeOK'
  BY <1>2 DEF NicTypeOK, SendTake
<1>3. ASSUME NEW w \in Workers, SendPut(w)
      PROVE  NicTypeOK'
  BY <1>3, FrameType DEF NicTypeOK, SendPut
<1>4. ASSUME NEW w \in Workers, RecvGet(w)
      PROVE  NicTypeOK'
  <2>1. Head(iqueue[w]) \in Frames /\ Tail(iqueue[w]) \in Seq(Frames)
    BY <1>4 DEF NicTypeOK, RecvGet
  <2> QED
    BY <1>4, <2>1 DEF NicTypeOK, RecvGet
<1>5. ASSUME NEW w \in Workers, Judge(w)
      PROVE  NicTypeOK'
  <2>1. /\ stack' = stack \/ stack' = stack + 1
        /\ idesc' = idesc \/ idesc' = [idesc EXCEPT ![w] = NoFrame]
    <3>1. CASE is_empty_manager_queue(queue[w])
      BY <1>5, <3>1 DEF Judge
    <3>2. CASE ~ is_empty_manager_queue(queue[w])
      <4>1. JudgeExit(w) \/ JudgeGoOn(w)
        BY <1>5, <3>2 DEF Judge
      <4> QED
        BY <4>1 DEF JudgeExit, JudgeGoOn, iqueue_drop
    <3> QED
      BY <3>1, <3>2
  <2>2. stack' \in Nat
    BY <2>1 DEF NicTypeOK
  <2>3. idesc' \in [Workers -> Frames \cup {NoFrame}]
    <3>1. idesc \in [Workers -> Frames \cup {NoFrame}]
      BY DEF NicTypeOK
    <3>2. [idesc EXCEPT ![w] = NoFrame]
            \in [Workers -> Frames \cup {NoFrame}]
      BY <3>1, Zenon
    <3> QED
      BY <2>1, <3>1, <3>2
  <2> QED
    BY <1>5, <2>2, <2>3 DEF NicTypeOK, Judge
<1>6. ASSUME NEW w \in Workers, RecvTimeout(w)
      PROVE  NicTypeOK'
  <2>1. fault' \in [Workers -> [FaultKinds -> Nat]]
    BY <1>6, BumpFault DEF NicTypeOK, RecvTimeout, Expired, FaultKinds
  <2> QED
    BY <1>6, <2>1 DEF NicTypeOK, RecvTimeout
<1>7. ASSUME NEW w \in Workers, TimeUp(w)
      PROVE  NicTypeOK'
  BY <1>7 DEF NicTypeOK, TimeUp, worker
<1>8. CASE Transmit
  <2>1. Head(egress) \in Frames /\ Tail(egress) \in Seq(Frames)
    BY <1>8 DEF NicTypeOK, Transmit
  <2> QED
    BY <1>8, <2>1 DEF NicTypeOK, Transmit, worker
<1>9. ASSUME wire # <<>>
      PROVE  /\ Head(wire) \in Frames
             /\ [Head(wire) EXCEPT !.payload = Noise] \in Frames
             /\ \A p \in {Head(wire).payload, Noise} :
                  [Head(wire) EXCEPT !.payload = p, !.length = "other"]
                    \in Frames
  <2>1. Head(wire) \in Frames
    BY <1>9 DEF NicTypeOK
  <2> QED
    BY <2>1 DEF Frames
<1>10. CASE Arrive \/ ArriveDamaged \/ ArriveResized
  <2>1. {"damaged", "resized"} \subseteq FaultKinds
    BY DEF FaultKinds
  <2> QED
    BY <1>9, <1>10, <2>1, ArriveKeeps DEF Arrive, ArriveDamaged, ArriveResized
<1>11. CASE Lose
  <2>1. Head(wire).src \in Workers /\ Tail(wire) \in Seq(Frames)
    BY <1>9, <1>11 DEF NicTypeOK, Lose, Frames
  <2>2. fault' \in [Workers -> [FaultKinds -> Nat]]
    BY <1>11, <2>1, BumpFault DEF NicTypeOK, Lose, FaultKinds
  <2> QED
    BY <1>11, <2>1, <2>2 DEF NicTypeOK, Lose, worker
<1>12. CASE Sigint \/ SigintExit \/ Terminating \/ UNCHANGED vars
  BY <1>12 DEF NicTypeOK, Sigint, SigintExit, Terminating, vars, worker
<1> QED
  BY <1>1, <1>2, <1>3, <1>4, <1>5, <1>6, <1>7, <1>8, <1>10, <1>11, <1>12
     DEF Next, Worker, Network

\* Every variable keeps its type.
THEOREM TypeCorrect == Spec => []TypeOK
<1>1. RingInv => WorkerTypeOK
  BY DEF RingInv
<1>2. Init /\ RingInv => TypeOK
  BY <1>1, NicInit DEF TypeOK
<1>3. RingInv /\ RingInv' /\ TypeOK /\ [Next]_vars => TypeOK'
  BY NicNext DEF TypeOK, RingInv
<1> QED
  BY <1>2, <1>3, RingInvariant, PTL DEF Spec

-----------------------------------------------------------------------------
(* What a step of the data path does, once it is known that the error      *)
(* paths of the rings are never taken: what the proofs about the frames,   *)
(* the hardware buffers and the counters start from.                       *)

\* Worker w goes to the place l of its program, with n in its loop counter.
Goes(w, l, n) == pc'[w] = l /\ i'[w] = n

\* The others stay where they are.
Only(w) ==
  \A v \in Workers \ {w} :
    /\ pc'[v] = pc[v] /\ i'[v] = i[v] /\ batch'[v] = batch[v]
    /\ idesc'[v] = idesc[v] /\ count'[v] = count[v]

\* From one loop to another.
Turn(w) ==
  /\ UNCHANGED <<nic, fault, idesc, count, base>>
  /\ \/ /\ batch'[w] = batch[w]
        /\ \/ pc[w] = "fill" /\ pc'[w] \in {"fill", "test"}
           \/ pc[w] = "test" /\ pc'[w] = "done"
           \/ pc[w] = "send" /\ i[w] = Once /\ Goes(w, "recv", 0)
           \/ pc[w] = "recv" /\ i[w] = Once /\ pc'[w] = "test"
     \/ batch'[w] = batch[w] + 1 /\ pc[w] = "test" /\ Goes(w, "send", 0)

Take(w) ==
  /\ pc[w] = "send" /\ i[w] < Once /\ Goes(w, "put", i[w])
  /\ stack > 0 /\ stack' = stack - 1
  /\ UNCHANGED <<egress, wire, iqueue, fault, idesc, count, base, batch>>

Put(w) ==
  /\ pc[w] = "put" /\ i[w] < Once /\ Goes(w, "send", i[w] + 1)
  /\ Len(egress) < EqueueEntries /\ egress' = Append(egress, FrameOf(w))
  /\ UNCHANGED <<stack, wire, iqueue, fault, idesc, count, base, batch>>

Get(w) ==
  /\ pc[w] = "recv" /\ i[w] < Once /\ Goes(w, "judge", i[w])
  /\ iqueue[w] # <<>> /\ iqueue' = [iqueue EXCEPT ![w] = Tail(@)]
  /\ idesc'[w] = Head(iqueue[w])
  /\ UNCHANGED <<stack, egress, wire, fault, count, base, batch>>

Passed(w) ==
  /\ pc[w] = "judge" /\ i[w] < Once /\ Goes(w, "recv", i[w] + 1)
  /\ stack' = stack + 1 /\ count'[w] = AfterData(w)
  /\ UNCHANGED <<egress, wire, iqueue, fault, base, batch>>

Missed(w) ==
  /\ pc[w] = "recv" /\ i[w] < Once /\ Goes(w, "recv", i[w] + 1)
  /\ count'[w] = CountMiss(count[w]) /\ Expired(w)
  /\ UNCHANGED <<nic, idesc, base, batch>>

Moves(w) ==
  Turn(w) \/ Take(w) \/ Put(w) \/ Get(w) \/ Passed(w) \/ Missed(w)

\* The process ends.
Stop ==
  /\ UNCHANGED <<pc, egress, wire, iqueue, idesc, base>>
  /\ \/ process' = "exited"
     \/ \E w \in Workers : pc[w] = "send" /\ i[w] < Once /\ stack = 0
  /\ \A w \in Workers : /\ fault'[w]["overflow"] = fault[w]["overflow"]
                        /\ fault'[w]["late"] >= fault[w]["late"]

-----------------------------------------------------------------------------
\* Worker w takes a packet that is there, and finds room for one it sent.
LEMMA WorkerSteps ==
  ASSUME RingInv, TypeOK, Running, Running', NEW w \in Workers, Worker(w)
  PROVE  Moves(w) /\ Only(w)
<1>1. /\ Once \in Nat /\ i[w] \in 0 .. Once
      /\ ~ is_empty_pool(pool[w]) \/ ~ (pc[w] \in {"fill", "send"} /\ i[w] < Once)
      /\ pc[w] = "put" => ~ is_full_manager_queue(queue[w]) /\ i[w] < Once
      /\ pc[w] \in {"recv", "judge"} /\ i[w] < Once
           => ~ is_empty_manager_queue(queue[w])
      /\ pc[w] = "judge" => i[w] < Once
  BY RingFacts DEF PacketsSplit
<1>2. /\ pc \in [Workers -> {"fill", "test", "send", "put", "recv", "judge",
                             "done"}]
      /\ i \in [Workers -> 0 .. Once] /\ batch \in [Workers -> 0 .. MaxBatches]
      /\ count \in [Workers -> [Counters -> Nat]]
      /\ idesc \in [Workers -> Frames \cup {NoFrame}]
  BY DEF TypeOK, WorkerTypeOK, NicTypeOK
<1> USE DEF At, Goto, Loop, Goes, Moves, Only
<1>3. CASE MakePacket(w) \/ MakeDone(w) \/ Finish(w)
  BY <1>1, <1>2, <1>3 DEF MakePacket, MakeDone, Finish, others, flags, Turn
<1>4. CASE StartBatch(w)
  BY <1>1, <1>2, <1>4 DEF StartBatch, others, Turn
<1>5. CASE SendDone(w) \/ RecvDone(w)
  <2>1. i[w] = Once
    BY <1>1, <1>5 DEF SendDone, RecvDone
  <2>2. CASE SendDone(w)
    BY <1>2, <2>1, <2>2 DEF SendDone, others, Turn
  <2>3. CASE RecvDone(w)
    BY <1>2, <2>1, <2>3 DEF RecvDone, others, Turn
  <2> QED
    BY <1>5, <2>2, <2>3
<1>6. CASE SendTake(w)
  BY <1>1, <1>2, <1>6 DEF SendTake, Take, TypeOK, NicTypeOK, Running
<1>7. CASE SendPut(w)
  BY <1>1, <1>2, <1>7 DEF SendPut, Put
<1>8. CASE RecvGet(w)
  BY <1>1, <1>2, <1>8 DEF RecvGet, Get
<1>9. CASE Judge(w)
  BY <1>1, <1>2, <1>9 DEF Judge, JudgeGoOn, JudgeExit, iqueue_drop, Passed,
                          Running
<1>10. CASE RecvTimeout(w)
  BY <1>1, <1>2, <1>10 DEF RecvTimeout, Missed, nic
<1> QED
  BY <1>3, <1>4, <1>5, <1>6, <1>7, <1>8, <1>9, <1>10 DEF Worker

\* A step after which the process is gone touches no frame.
LEMMA LastSteps ==
  ASSUME RingInv, TypeOK, Running, ~ Running', [Next]_vars
  PROVE  Stop
<1>1. /\ ~ UNCHANGED process
      /\ process' \in {"exited", "died"}
  BY DEF Running, RingInv, TypeOK, WorkerTypeOK, Next, Worker, MakePacket,
     MakeDone, StartBatch, Finish, SendTake, SendPut, SendDone, RecvGet, Judge,
     JudgeGoOn, JudgeExit, RecvTimeout, RecvDone, TimeUp, Network, Transmit,
     Arrive, ArriveDamaged, ArriveResized, ArriveAs, Lose, Sigint, SigintExit,
     Terminating, vars, others, flags
<1>0. ASSUME fault' = fault
      PROVE  \A w \in Workers : /\ fault'[w]["overflow"] = fault[w]["overflow"]
                                /\ fault'[w]["late"] >= fault[w]["late"]
  BY <1>0 DEF TypeOK, NicTypeOK, FaultKinds
<1>2. CASE SigintExit
  BY <1>0, <1>2 DEF SigintExit, Stop, worker, nic
<1>3. ASSUME NEW w \in Workers, SendTake(w)
      PROVE  Stop
  BY <1>0, <1>1, <1>3 DEF SendTake, Stop, At
<1>4. ASSUME NEW w \in Workers, Judge(w)
      PROVE  Stop
  <2>1. fault' = fault /\ UNCHANGED <<egress, wire, iqueue, base>>
    BY <1>4 DEF Judge
  <2>2. JudgeExit(w)
    BY <1>1, <1>4 DEF Judge, JudgeGoOn
  <2> QED
    BY <1>0, <2>1, <2>2 DEF JudgeExit, Stop
<1>5. ASSUME NEW w \in Workers, RecvTimeout(w)
      PROVE  Stop
  BY <1>1, <1>5 DEF RecvTimeout, Expired, Bump, Stop, nic, TypeOK, NicTypeOK, FaultKinds
<1>6. \/ SigintExit
      \/ \E w \in Workers : SendTake(w) \/ Judge(w) \/ RecvTimeout(w)
  BY <1>1 DEF Next, Worker, MakePacket,
     MakeDone, StartBatch, Finish, SendPut, SendDone, RecvGet,
     RecvDone, TimeUp, Network, Transmit,
     Arrive, ArriveDamaged, ArriveResized, ArriveAs, Lose, Sigint,
     Terminating, vars, others, flags
<1> QED
  BY <1>2, <1>3, <1>4, <1>5, <1>6

\* Every step of the running process, seen from the frames.
LEMMA Steps ==
  ASSUME RingInv, TypeOK, Running, [Next]_vars
  PROVE  \/ ~ Running' /\ Stop
         \/ /\ Running'
            /\ \/ \E w \in Workers : Moves(w) /\ Only(w)
               \/ Network
               \/ UNCHANGED <<worker, nic, fault, base>>
<1> SUFFICES ASSUME Running'
             PROVE  \/ \E w \in Workers : Moves(w) /\ Only(w)
                    \/ Network
                    \/ UNCHANGED <<worker, nic, fault, base>>
  BY LastSteps
<1>1. CASE \E w \in Workers : Worker(w)
  BY <1>1, WorkerSteps
<1>2. CASE (\E w \in Workers : TimeUp(w)) \/ Sigint \/ SigintExit
             \/ Terminating \/ UNCHANGED vars
  BY <1>2 DEF TimeUp, Sigint, SigintExit, Terminating, vars, others
<1> QED
  BY <1>1, <1>2 DEF Next

\* A process that is gone does nothing.
LEMMA NoSteps ==
  ASSUME ~ Running, [Next]_vars
  PROVE  UNCHANGED vars
BY DEF Next, Worker, TimeUp, Network, Transmit, Arrive, ArriveDamaged,
   ArriveResized, Lose, Sigint, SigintExit, Terminating

-----------------------------------------------------------------------------
(* The order of the packets: what a step does to the two lists of a worker, *)
(* and so that no packet is lost or duplicated, and that the rings do what *)
(* LoopbackOrder promises.                                                 *)

Free(w) == FreeList(pool[w])
Out(w) ==
  QueueList(queue[w]) \o (IF At(w, "put") THEN <<packet[w]>> ELSE <<>>)

\* The packets stay where they are.
Stays(w) ==
  /\ Free(w)' = Free(w) /\ Out(w)' = Out(w)
  /\ \/ pc[w] = "fill" /\ pc'[w] = "test"
     \/ pc[w] = "test" /\ pc'[w] \in {"send", "done"}
     \/ pc[w] = "put"  /\ pc'[w] = "send"
     \/ pc[w] = "send" /\ pc'[w] = "recv" /\ Free(w) = <<>>
     \/ pc[w] = "recv" /\ pc'[w] = "judge"
     \/ pc[w] = "recv" /\ pc'[w] = "test" /\ Out(w) = <<>>

\* The first free packet is filled and put behind the others.
Rotates(w) ==
  /\ pc[w] = "fill" /\ pc'[w] = "fill"
  /\ Out(w) = <<>> /\ Out(w)' = Out(w)
  /\ Free(w) # <<>> /\ Free(w)' = Append(Tail(Free(w)), Head(Free(w)))

\* The first free packet goes out.
GoesOut(w) ==
  /\ pc[w] = "send" /\ pc'[w] = "put"
  /\ Free(w) # <<>> /\ Free(w)' = Tail(Free(w))
  /\ Out(w)' = Append(Out(w), Head(Free(w)))

\* The packet that has been out longest comes back.
ComesBack(w) ==
  /\ pc[w] \in {"recv", "judge"} /\ pc'[w] = "recv"
  /\ Out(w) # <<>> /\ Out(w)' = Tail(Out(w))
  /\ Free(w)' = Append(Free(w), Head(Out(w)))

OtherLists(w) ==
  \A v \in Workers \ {w} :
    /\ pc'[v] = pc[v] /\ Free(v)' = Free(v) /\ Out(v)' = Out(v)

\* Both lists are lists of packets; an empty count is an empty list.
LEMMA FreeIsList ==
  ASSUME NEW p \in PoolType(Once + 1)
  PROVE  /\ FreeList(p) \in Seq(Buffers) /\ Len(FreeList(p)) = FreeCount(p)
         /\ FreeCount(p) = 0 => FreeList(p) = <<>>
<1>1. Once + 1 \in Nat \ {0} /\ Buffers = 0 .. (Once + 1) - 1
  BY OnceAssumption DEF Buffers
<1>2. FreeList(p) \in Seq(Buffers) /\ Len(FreeList(p)) = FreeCount(p)
  BY <1>1, FreeListSlots
<1> QED
  BY <1>2

LEMMA QueueIsList ==
  ASSUME NEW q \in QueueType(Once + 1)
  PROVE  /\ QueueList(q) \in Seq(Buffers) /\ Len(QueueList(q)) = QueueCount(q)
         /\ QueueCount(q) = 0 => QueueList(q) = <<>>
<1>1. Once + 1 \in Nat \ {0} /\ Buffers = 0 .. (Once + 1) - 1
  BY OnceAssumption DEF Buffers
<1>2. QueueList(q) \in Seq(Buffers) /\ Len(QueueList(q)) = QueueCount(q)
  BY <1>1, QueueListSlots
<1> QED
  BY <1>2

LEMMA JoinOne ==
  ASSUME NEW S, NEW s \in Seq(S), NEW d \in S
  PROVE  s \o <<d>> = Append(s, d) /\ s \o <<>> = s
  OBVIOUS

\* The steps of the filling loop and those that only move the worker.
LEMMA StayLists ==
  ASSUME RingInv, Running, NEW w \in Workers,
         \/ MakePacket(w) \/ MakeDone(w) \/ StartBatch(w) \/ Finish(w)
         \/ SendDone(w) \/ RecvGet(w) \/ RecvDone(w)
  PROVE  (Stays(w) \/ Rotates(w)) /\ OtherLists(w)
<1>1. /\ Once \in Nat /\ Once + 1 \in Nat \ {0} /\ i[w] \in 0 .. Once
      /\ PoolOK(pool[w], Once + 1) /\ QueueOK(queue[w], Once + 1)
      /\ PacketsSplit(w)
      /\ is_empty_pool(pool[w]) <=> FreeCount(pool[w]) = 0
  BY RingFacts
<1>2. /\ pc \in [Workers -> {"fill", "test", "send", "put", "recv", "judge",
                             "done"}]
      /\ pool \in [Workers -> PoolType(Once + 1)]
      /\ queue \in [Workers -> QueueType(Once + 1)]
      /\ pool[w] \in PoolType(Once + 1) /\ queue[w] \in QueueType(Once + 1)
  BY DEF RingInv, WorkerTypeOK
<1>3. /\ FreeCount(pool[w]) = 0 => FreeList(pool[w]) = <<>>
      /\ QueueCount(queue[w]) = 0 => QueueList(queue[w]) = <<>>
  BY <1>2, FreeIsList, QueueIsList
<1>4. /\ pc[w] = "fill" => FreeCount(pool[w]) = Once /\ QueueCount(queue[w]) = 0
      /\ pc[w] = "send" => FreeCount(pool[w]) = Once - i[w]
      /\ pc[w] = "recv" => QueueCount(queue[w]) = Once - i[w]
  BY <1>1 DEF PacketsSplit
<1>7. <<>> \o <<>> = <<>>
  <2>1. <<>> \in Seq(Buffers)
    OBVIOUS
  <2> QED
    BY <2>1, JoinOne
<1> USE DEF At, Goto, others
<1>5. CASE MakePacket(w)
  <2> DEFINE p == get_buf(pool[w])
             b == get_buf_data(pool[w])
  <2>1. pc[w] = "fill" /\ ~ is_empty_pool(pool[w])
    BY <1>1, <1>4, <1>5 DEF MakePacket
  <2>2. /\ pool' = [pool EXCEPT ![w] = free_buf(p, b)]
        /\ UNCHANGED <<pc, queue, packet>>
    BY <1>5, <2>1 DEF MakePacket
  <2>3. /\ PoolOK(p, Once + 1) /\ FreeCount(p) = Once - 1 /\ b \in 0 .. Once
        /\ FreeList(pool[w]) # <<>> /\ b = Head(FreeList(pool[w]))
        /\ FreeList(p) = Tail(FreeList(pool[w]))
    BY <1>1, <1>4, <2>1, GetBuf, GetBufList
  <2>4. FreeList(free_buf(p, b)) = Append(FreeList(p), b)
    <3>1. FreeCount(p) < (Once + 1) - 1 /\ b \in 0 .. (Once + 1) - 1
      BY <1>1, <2>3
    <3> QED
      BY <1>1, <2>3, <3>1, FreeBufList
  <2>5. /\ pool'[w] = free_buf(p, b)
        /\ \A v \in Workers \ {w} : pool'[v] = pool[v]
    BY <1>2, <2>2
  <2> HIDE DEF p, b
  <2>6. Rotates(w)
    <3>1. Out(w) = <<>> /\ Out(w)' = <<>>
      BY <1>3, <1>4, <1>7, <2>1, <2>2 DEF Out
    <3> QED
      BY <2>1, <2>2, <2>3, <2>4, <2>5, <3>1 DEF Rotates, Free
  <2>7. OtherLists(w)
    BY <2>2, <2>5 DEF OtherLists, Free, Out
  <2> QED
    BY <2>6, <2>7
<1>6. CASE ~ MakePacket(w)
  <2>1. UNCHANGED <<pool, queue, packet>> /\ pc[w] # "put" /\ pc'[w] # "put"
    BY <1>2, <1>6 DEF MakeDone, StartBatch, Finish, SendDone, RecvGet, RecvDone
  <2>2. \A v \in Workers \ {w} : pc'[v] = pc[v]
    BY <1>2, <1>6 DEF MakeDone, StartBatch, Finish, SendDone, RecvGet, RecvDone
  <2>3. \/ pc[w] = "fill" /\ pc'[w] = "test"
        \/ pc[w] = "test" /\ pc'[w] \in {"send", "done"}
        \/ pc[w] = "send" /\ pc'[w] = "recv" /\ i[w] >= Once
        \/ pc[w] = "recv" /\ pc'[w] = "judge"
        \/ pc[w] = "recv" /\ pc'[w] = "test" /\ i[w] >= Once
    BY <1>2, <1>6 DEF MakeDone, StartBatch, Finish, SendDone, RecvGet, RecvDone
  <2>4. /\ pc[w] = "send" /\ i[w] >= Once => FreeList(pool[w]) = <<>>
        /\ pc[w] = "recv" /\ i[w] >= Once => QueueList(queue[w]) = <<>>
    BY <1>1, <1>3, <1>4
  <2>5. Free(w)' = Free(w) /\ Out(w)' = Out(w) /\ Free(w) = FreeList(pool[w])
        /\ (QueueList(queue[w]) = <<>> => Out(w) = <<>>)
    BY <1>7, <2>1 DEF Free, Out
  <2>6. Stays(w)
    BY <2>3, <2>4, <2>5 DEF Stays
  <2>7. OtherLists(w)
    BY <2>1, <2>2 DEF OtherLists, Free, Out
  <2> QED
    BY <2>6, <2>7
<1> QED
  BY <1>5, <1>6

\* The steps of the send loop.
LEMMA SendLists ==
  ASSUME RingInv, Running, Running', NEW w \in Workers,
         SendTake(w) \/ SendPut(w)
  PROVE  (Stays(w) \/ GoesOut(w)) /\ OtherLists(w)
<1>1. /\ Once \in Nat /\ Once + 1 \in Nat \ {0} /\ i[w] \in 0 .. Once
      /\ PoolOK(pool[w], Once + 1) /\ QueueOK(queue[w], Once + 1)
      /\ PacketsSplit(w)
      /\ is_empty_pool(pool[w]) <=> FreeCount(pool[w]) = 0
      /\ is_full_manager_queue(queue[w]) <=> QueueCount(queue[w]) = Once
  BY RingFacts
<1>2. /\ pc \in [Workers -> {"fill", "test", "send", "put", "recv", "judge",
                             "done"}]
      /\ pool \in [Workers -> PoolType(Once + 1)]
      /\ queue \in [Workers -> QueueType(Once + 1)]
      /\ packet \in [Workers -> Buffers]
      /\ pool[w] \in PoolType(Once + 1) /\ queue[w] \in QueueType(Once + 1)
      /\ packet[w] \in Buffers /\ packet[w] \in 0 .. (Once + 1) - 1
  BY <1>1 DEF RingInv, WorkerTypeOK, Buffers
<1>3. FreeList(pool[w]) \in Seq(Buffers) /\ QueueList(queue[w]) \in Seq(Buffers)
  BY <1>2, FreeIsList, QueueIsList
<1> USE DEF At, Goto, others
<1>4. CASE SendTake(w)
  <2>1. pc[w] = "send" /\ ~ is_empty_pool(pool[w])
    BY <1>1, <1>4 DEF SendTake, PacketsSplit
  <2>2. /\ pool' = [pool EXCEPT ![w] = get_buf(pool[w])]
        /\ packet' = [packet EXCEPT ![w] = get_buf_data(pool[w])]
        /\ pc' = [pc EXCEPT ![w] = "put"]
        /\ UNCHANGED queue
    BY <1>4, <2>1 DEF SendTake, Running
  <2>3. /\ pool'[w] = get_buf(pool[w]) /\ packet'[w] = get_buf_data(pool[w])
        /\ pc'[w] = "put" /\ queue'[w] = queue[w]
        /\ \A v \in Workers \ {w} : /\ pool'[v] = pool[v] /\ pc'[v] = pc[v]
                                    /\ packet'[v] = packet[v]
                                    /\ queue'[v] = queue[v]
    BY <1>2, <2>2
  <2>4. /\ FreeList(pool[w]) # <<>>
        /\ get_buf_data(pool[w]) = Head(FreeList(pool[w]))
        /\ FreeList(get_buf(pool[w])) = Tail(FreeList(pool[w]))
    BY <1>1, <2>1, GetBufList
  <2>5. Out(w)' = Append(Out(w), Head(Free(w)))
    <3>1. PICK s, d : s = QueueList(queue[w]) /\ d = Head(FreeList(pool[w]))
      OBVIOUS
    <3>2. s \in Seq(Buffers) /\ d \in Buffers
      BY <1>3, <2>4, <3>1
    <3>3. Out(w) = s \o <<>> /\ Out(w)' = s \o <<d>> /\ Head(Free(w)) = d
      BY <2>1, <2>3, <2>4, <3>1 DEF Out, Free
    <3> QED
      BY <3>2, <3>3, JoinOne
  <2>6. GoesOut(w)
    BY <2>1, <2>3, <2>4, <2>5 DEF GoesOut, Free
  <2>7. OtherLists(w)
    BY <2>3 DEF OtherLists, Free, Out
  <2> QED
    BY <2>6, <2>7
<1>5. CASE SendPut(w)
  <2>1. /\ pc[w] = "put" /\ QueueCount(queue[w]) = i[w] /\ i[w] < Once
        /\ ~ is_full_manager_queue(queue[w])
    BY <1>1, <1>5 DEF SendPut, PacketsSplit
  <2>2. /\ queue' = [queue EXCEPT ![w] = push_session_buf(queue[w], packet[w])]
        /\ pc' = [pc EXCEPT ![w] = "send"]
        /\ UNCHANGED <<pool, packet>>
    BY <1>5, <2>1 DEF SendPut
  <2>3. /\ queue'[w] = push_session_buf(queue[w], packet[w])
        /\ pc'[w] = "send" /\ pool'[w] = pool[w]
        /\ \A v \in Workers \ {w} : /\ pool'[v] = pool[v] /\ pc'[v] = pc[v]
                                    /\ packet'[v] = packet[v]
                                    /\ queue'[v] = queue[v]
    BY <1>2, <2>2
  <2>4. QueueList(push_session_buf(queue[w], packet[w]))
          = Append(QueueList(queue[w]), packet[w])
    <3>1. QueueCount(queue[w]) < (Once + 1) - 1
      BY <1>1, <2>1
    <3> QED
      BY <1>1, <1>2, <3>1, PushList
  <2>5. Out(w)' = Out(w)
    <3>1. PICK s, d : s = QueueList(queue[w]) /\ d = packet[w]
      OBVIOUS
    <3>2. s \in Seq(Buffers) /\ d \in Buffers
      BY <1>2, <1>3, <3>1
    <3>3. Append(s, d) \in Seq(Buffers)
      BY <3>2
    <3>4. Out(w) = s \o <<d>> /\ Out(w)' = Append(s, d) \o <<>>
      BY <2>1, <2>3, <2>4, <3>1 DEF Out
    <3> QED
      BY <3>2, <3>3, <3>4, JoinOne
  <2>6. Stays(w)
    BY <2>1, <2>3, <2>5 DEF Stays, Free
  <2>7. OtherLists(w)
    BY <2>3 DEF OtherLists, Free, Out
  <2> QED
    BY <2>6, <2>7
<1> QED
  BY <1>4, <1>5

\* The steps of the receive loop that give a verdict.
LEMMA BackLists ==
  ASSUME RingInv, Running, Running', NEW w \in Workers,
         Judge(w) \/ RecvTimeout(w)
  PROVE  ComesBack(w) /\ OtherLists(w)
<1>1. /\ Once \in Nat /\ Once + 1 \in Nat \ {0} /\ i[w] \in 0 .. Once
      /\ PoolOK(pool[w], Once + 1) /\ QueueOK(queue[w], Once + 1)
      /\ PacketsSplit(w)
      /\ is_empty_manager_queue(queue[w]) <=> QueueCount(queue[w]) = 0
  BY RingFacts
<1>2. /\ pc \in [Workers -> {"fill", "test", "send", "put", "recv", "judge",
                             "done"}]
      /\ pool \in [Workers -> PoolType(Once + 1)]
      /\ queue \in [Workers -> QueueType(Once + 1)]
      /\ pool[w] \in PoolType(Once + 1) /\ queue[w] \in QueueType(Once + 1)
  BY <1>1 DEF RingInv, WorkerTypeOK
<1>3. QueueList(queue[w]) \in Seq(Buffers)
  BY <1>2, QueueIsList
<1> DEFINE d == pop_session_buf_data(queue[w])
<1> USE DEF At, Goto, others
<1>4. /\ pc[w] \in {"recv", "judge"} /\ i[w] < Once
      /\ QueueCount(queue[w]) = Once - i[w] /\ FreeCount(pool[w]) = i[w]
      /\ ~ is_empty_manager_queue(queue[w])
  BY <1>1 DEF Judge, RecvTimeout, PacketsSplit
<1>5. /\ queue' = [queue EXCEPT ![w] = pop_session_buf(queue[w])]
      /\ pool' = [pool EXCEPT ![w] = free_buf(pool[w], d)]
      /\ pc' = [pc EXCEPT ![w] = "recv"]
      /\ UNCHANGED packet
  <2>1. CASE Judge(w)
    BY <1>4, <2>1 DEF Judge, JudgeGoOn, JudgeExit, Running
  <2>2. CASE RecvTimeout(w)
    BY <1>2, <1>4, <2>2 DEF RecvTimeout
  <2> QED
    BY <2>1, <2>2
<1>6. /\ queue'[w] = pop_session_buf(queue[w])
      /\ pool'[w] = free_buf(pool[w], d) /\ pc'[w] = "recv"
      /\ \A v \in Workers \ {w} : /\ pool'[v] = pool[v] /\ pc'[v] = pc[v]
                                  /\ packet'[v] = packet[v]
                                  /\ queue'[v] = queue[v]
  BY <1>2, <1>5
<1>7. /\ QueueList(queue[w]) # <<>> /\ d = Head(QueueList(queue[w]))
      /\ QueueList(pop_session_buf(queue[w])) = Tail(QueueList(queue[w]))
  BY <1>1, <1>4, PopList
<1> HIDE DEF d
<1>8. FreeList(free_buf(pool[w], d)) = Append(FreeList(pool[w]), d)
  <2>1. d \in 0 .. (Once + 1) - 1
    BY <1>1, <1>3, <1>7 DEF Buffers
  <2>2. FreeCount(pool[w]) < (Once + 1) - 1
    BY <1>1, <1>4
  <2> QED
    BY <1>1, <2>1, <2>2, FreeBufList
<1>9. Out(w) = QueueList(queue[w]) /\ Out(w)' = Tail(QueueList(queue[w]))
  <2>1. PICK s : s = QueueList(queue[w])
    OBVIOUS
  <2>2. s \in Seq(Buffers) /\ Tail(s) \in Seq(Buffers)
    BY <1>3, <1>7, <2>1
  <2>3. Out(w) = s \o <<>> /\ Out(w)' = Tail(s) \o <<>>
    BY <1>4, <1>6, <1>7, <2>1 DEF Out
  <2>4. s \o <<>> = s /\ Tail(s) \o <<>> = Tail(s)
    BY <2>2
  <2> QED
    BY <2>1, <2>3, <2>4
<1>10. ComesBack(w)
  BY <1>4, <1>6, <1>7, <1>8, <1>9 DEF ComesBack, Free
<1>11. OtherLists(w)
  BY <1>6 DEF OtherLists, Free, Out
<1> QED
  BY <1>10, <1>11

\* Every step of the running process, seen from the lists.
LEMMA ListSteps ==
  ASSUME RingInv, Running, Running', [Next]_vars
  PROVE  \/ \E w \in Workers :
              /\ Stays(w) \/ Rotates(w) \/ GoesOut(w) \/ ComesBack(w)
              /\ OtherLists(w)
         \/ UNCHANGED worker
<1>1. CASE \E w \in Workers : Worker(w)
  BY <1>1, StayLists, SendLists, BackLists DEF Worker
<1>2. CASE ~ \E w \in Workers : Worker(w)
  BY <1>2 DEF Next, TimeUp, Network, Transmit, Arrive, ArriveDamaged,
     ArriveResized, ArriveAs, Lose, Sigint, SigintExit, Terminating, vars
<1> QED
  BY <1>1, <1>2

-----------------------------------------------------------------------------
(* No packet is lost or duplicated. *)

\* What lists joined in these ways hold.
Packets(s) == {s[k] : k \in DOMAIN s}

LEMMA MovedOn ==
  ASSUME NEW S, NEW s \in Seq(S), NEW t \in Seq(S), t # <<>>
  PROVE  Append(s, Head(t)) \o Tail(t) = s \o t
<1> DEFINE x == Append(s, Head(t)) \o Tail(t)
           y == s \o t
<1>1. /\ x \in Seq(S) /\ y \in Seq(S)
      /\ Len(x) = Len(s) + Len(t) /\ Len(y) = Len(s) + Len(t)
  OBVIOUS
<1>2. \A k \in 1 .. Len(s) + Len(t) : x[k] = y[k]
  OBVIOUS
<1> HIDE DEF x, y
<1>3. x = y
  BY <1>1, <1>2, SameList
<1> QED
  BY <1>3 DEF x, y

LEMMA HeldByRotation ==
  ASSUME NEW S, NEW s \in Seq(S), s # <<>>
  PROVE  Packets(Append(Tail(s), Head(s))) = Packets(s)
<1> DEFINE x == Append(Tail(s), Head(s))
<1>1. /\ x \in Seq(S) /\ Len(x) = Len(s) /\ Len(s) \in Nat \ {0}
      /\ DOMAIN x = 1 .. Len(s) /\ DOMAIN s = 1 .. Len(s)
      /\ x[Len(s)] = s[1]
      /\ \A k \in 1 .. Len(s) - 1 : x[k] = s[k + 1]
  OBVIOUS
<1> HIDE DEF x
<1>2. ASSUME NEW k \in 1 .. Len(s) PROVE \E m \in 1 .. Len(s) : x[k] = s[m]
  <2>1. CASE k = Len(s)
    <3>1. 1 \in 1 .. Len(s)
      BY <1>1
    <3> QED
      BY <1>1, <2>1, <3>1
  <2>2. CASE k # Len(s)
    <3>0. Len(s) \in Nat \ {0}
      BY <1>1
    <3>1. k \in 1 .. Len(s) - 1 /\ k + 1 \in 1 .. Len(s)
      BY <2>2, <3>0
    <3> QED
      BY <1>1, <3>1
  <2> QED
    BY <2>1, <2>2
<1>3. ASSUME NEW k \in 1 .. Len(s) PROVE \E m \in 1 .. Len(s) : s[k] = x[m]
  <2>1. CASE k = 1
    <3>1. Len(s) \in 1 .. Len(s)
      BY <1>1
    <3> QED
      BY <1>1, <2>1, <3>1
  <2>2. CASE k # 1
    <3>1. PICK m : m = k - 1
      OBVIOUS
    <3>2. m \in 1 .. Len(s) - 1 /\ m \in 1 .. Len(s) /\ k = m + 1
      BY <1>1, <2>2, <3>1
    <3> QED
      BY <1>1, <3>2
  <2> QED
    BY <2>1, <2>2
<1>4. Packets(x) = Packets(s)
  <2>1. /\ Packets(x) = {x[k] : k \in 1 .. Len(s)}
        /\ Packets(s) = {s[k] : k \in 1 .. Len(s)}
    BY <1>1 DEF Packets
  <2> QED
    BY <1>2, <1>3, <2>1
<1> QED
  BY <1>4 DEF x

LEMMA TurnedOver ==
  ASSUME NEW S, NEW s \in Seq(S), NEW t \in Seq(S), s # <<>>
  PROVE  Tail(s) \o Append(t, Head(s)) = Append(Tail(s \o t), Head(s \o t))
<1> DEFINE x == Tail(s) \o Append(t, Head(s))
           z == s \o t
           y == Append(Tail(z), Head(z))
<1>1. /\ Tail(s) \in Seq(S) /\ Len(Tail(s)) = Len(s) - 1
      /\ Append(t, Head(s)) \in Seq(S) /\ Len(Append(t, Head(s))) = Len(t) + 1
      /\ Len(s) \in Nat \ {0} /\ Len(t) \in Nat
      /\ z \in Seq(S) /\ Len(z) = Len(s) + Len(t)
  OBVIOUS
<1>2. x \in Seq(S) /\ Len(x) = Len(s) + Len(t)
  BY <1>1
<1>3. z # <<>> /\ Head(z) = s[1] /\ Head(s) = s[1]
  BY <1>1
<1>4. y \in Seq(S) /\ Len(y) = Len(s) + Len(t)
  <2> HIDE DEF z
  <2> QED
    BY <1>1, <1>3
<1>5. ASSUME NEW k \in 1 .. Len(s) + Len(t) PROVE x[k] = y[k]
  <2>1. y[k] = IF k = Len(s) + Len(t) THEN s[1] ELSE z[k + 1]
    <3> HIDE DEF z
    <3> QED
      BY <1>1, <1>3
  <2>2. k < Len(s) + Len(t)
          => z[k + 1] = IF k + 1 <= Len(s) THEN s[k + 1] ELSE t[k + 1 - Len(s)]
    BY <1>1
  <2>3. x[k] = IF k <= Len(s) - 1 THEN Tail(s)[k]
               ELSE Append(t, Head(s))[k - (Len(s) - 1)]
    BY <1>1
  <2>4. k <= Len(s) - 1 => Tail(s)[k] = s[k + 1]
    BY <1>1
  <2>5. ASSUME NEW m \in 1 .. Len(t) + 1
        PROVE  Append(t, Head(s))[m] = IF m = Len(t) + 1 THEN s[1] ELSE t[m]
    BY <1>1, <1>3
  <2>6. CASE k <= Len(s) - 1
    BY <1>1, <2>1, <2>2, <2>3, <2>4, <2>6
  <2>7. CASE ~ (k <= Len(s) - 1)
    <3>1. PICK m : m = k - (Len(s) - 1)
      OBVIOUS
    <3>2. /\ m \in 1 .. Len(t) + 1 /\ (k = Len(s) + Len(t) <=> m = Len(t) + 1)
          /\ k + 1 - Len(s) = m /\ ~ (k + 1 <= Len(s))
      BY <1>1, <2>7, <3>1
    <3>3. x[k] = IF m = Len(t) + 1 THEN s[1] ELSE t[m]
      BY <2>3, <2>5, <2>7, <3>1, <3>2
    <3> HIDE DEF x, y, z
    <3> QED
      BY <1>1, <2>1, <2>2, <3>2, <3>3
  <2> QED
    BY <2>6, <2>7
<1> HIDE DEF x, y
<1>6. x = y
  BY <1>2, <1>4, <1>5, SameList
<1> QED
  BY <1>6 DEF x, y, z

\* The packets of a worker that are somewhere.
Conserved == Running => \A w \in Workers : Packets(Out(w) \o Free(w)) = 0 .. Once - 1

LEMMA ListTypes ==
  ASSUME RingInv, NEW w \in Workers
  PROVE  Free(w) \in Seq(Buffers) /\ Out(w) \in Seq(Buffers)
<1>1. /\ pool[w] \in PoolType(Once + 1) /\ queue[w] \in QueueType(Once + 1)
      /\ packet[w] \in Buffers
  BY DEF RingInv, WorkerTypeOK
<1>2. FreeList(pool[w]) \in Seq(Buffers) /\ QueueList(queue[w]) \in Seq(Buffers)
  BY <1>1, FreeIsList, QueueIsList
<1>3. (IF At(w, "put") THEN <<packet[w]>> ELSE <<>>) \in Seq(Buffers)
  BY <1>1
<1> QED
  BY <1>2, <1>3 DEF Free, Out

\* What a new worker holds.
LEMMA ListsInit ==
  ASSUME Init, NEW w \in Workers
  PROVE  Free(w) = [k \in 1 .. Once |-> k - 1] /\ Out(w) = <<>>
<1>1. Once + 1 \in Nat \ {0} /\ (Once + 1) - 1 = Once
  BY OnceAssumption
<1>2. /\ pool[w] = init_pool(Once + 1)
      /\ queue[w] = init_manager_queue(Once + 1) /\ pc[w] = "fill"
  BY DEF Init
<1>3. Free(w) = [k \in 1 .. Once |-> k - 1]
  BY <1>1, <1>2, InitPoolList DEF Free
<1>4. QueueList(queue[w]) = <<>>
  <2>1. queue[w] \in QueueType(Once + 1) /\ QueueCount(queue[w]) = 0
    BY <1>1, <1>2, InitQueue DEF QueueOK
  <2> QED
    BY <2>1, QueueIsList
<1>5. Out(w) = <<>>
  <2>1. <<>> \in Seq(Buffers)
    OBVIOUS
  <2>2. Out(w) = <<>> \o <<>>
    BY <1>2, <1>4 DEF Out, At
  <2> QED
    BY <2>1, <2>2, JoinOne
<1> QED
  BY <1>3, <1>5

LEMMA ConservedInit == Init => Conserved
<1> SUFFICES ASSUME Init, NEW w \in Workers
             PROVE  Packets(Out(w) \o Free(w)) = 0 .. Once - 1
  BY DEF Conserved
<1>1. Free(w) = [k \in 1 .. Once |-> k - 1] /\ Out(w) = <<>>
  BY ListsInit
<1>2. PICK s : s = [k \in 1 .. Once |-> k - 1]
  OBVIOUS
<1>3. s \in Seq(Nat) /\ DOMAIN s = 1 .. Once /\ \A k \in 1 .. Once : s[k] = k - 1
  BY <1>2, OnceAssumption
<1>4. <<>> \o s = s
  BY <1>3
<1>5. ASSUME NEW x \in 0 .. Once - 1 PROVE \E k \in 1 .. Once : x = s[k]
  <2>1. PICK m : m = x + 1
    OBVIOUS
  <2>2. m \in 1 .. Once /\ x = m - 1
    BY <2>1, OnceAssumption
  <2> QED
    BY <1>3, <2>2
<1>6. \A k \in 1 .. Once : s[k] \in 0 .. Once - 1
  BY <1>3, OnceAssumption
<1>7. Packets(s) = 0 .. Once - 1
  BY <1>3, <1>5, <1>6 DEF Packets
<1> QED
  BY <1>1, <1>2, <1>4, <1>7

LEMMA ConservedNext ==
  RingInv /\ RingInv' /\ Conserved /\ [Next]_vars => Conserved'
<1> SUFFICES ASSUME RingInv, RingInv', Conserved, [Next]_vars, Running',
                    NEW v \in Workers
             PROVE  Packets(Out(v)' \o Free(v)') = 0 .. Once - 1
  BY DEF Conserved
<1>1. Running
  BY NoSteps DEF Running, vars, others, flags
<1>2. Free(v) \in Seq(Buffers) /\ Out(v) \in Seq(Buffers)
      /\ Packets(Out(v) \o Free(v)) = 0 .. Once - 1
  BY <1>1, ListTypes DEF Conserved
<1>3. CASE UNCHANGED worker
  BY <1>2, <1>3 DEF worker, Free, Out, At
<1>4. ASSUME NEW w \in Workers, OtherLists(w),
             Stays(w) \/ Rotates(w) \/ GoesOut(w) \/ ComesBack(w)
      PROVE  Packets(Out(v)' \o Free(v)') = 0 .. Once - 1
  <2>1. CASE v # w
    BY <1>2, <1>4, <2>1 DEF OtherLists
  <2>2. PICK s, t, x, y : s = Out(v) /\ t = Free(v) /\ x = Out(v)' /\ y = Free(v)'
    OBVIOUS
  <2>3. s \in Seq(Buffers) /\ t \in Seq(Buffers) /\ Packets(s \o t) = 0 .. Once - 1
    BY <1>2, <2>2
  <2>4. CASE v = w
    <3>1. CASE Stays(w)
      BY <1>2, <2>4, <3>1 DEF Stays
    <3>2. CASE Rotates(w)
      <4>1. s = <<>> /\ x = <<>> /\ t # <<>> /\ y = Append(Tail(t), Head(t))
        BY <2>2, <2>4, <3>2 DEF Rotates
      <4>2. y \in Seq(Buffers) /\ s \o t = t /\ x \o y = y
        BY <2>3, <4>1
      <4> QED
        BY <2>2, <2>3, <4>1, <4>2, HeldByRotation
    <3>3. CASE GoesOut(w)
      <4>1. t # <<>> /\ y = Tail(t) /\ x = Append(s, Head(t))
        BY <2>2, <2>4, <3>3 DEF GoesOut
      <4>2. x \o y = s \o t
        BY <2>3, <4>1, MovedOn
      <4> QED
        BY <2>2, <2>3, <4>2
    <3>4. CASE ComesBack(w)
      <4>1. s # <<>> /\ x = Tail(s) /\ y = Append(t, Head(s))
        BY <2>2, <2>4, <3>4 DEF ComesBack
      <4>2. PICK z : z = s \o t
        OBVIOUS
      <4>3. z \in Seq(Buffers) /\ z # <<>>
        BY <2>3, <4>1, <4>2
      <4>4. x \o y = Append(Tail(z), Head(z))
        BY <2>3, <4>1, <4>2, TurnedOver
      <4> QED
        BY <2>2, <2>3, <4>2, <4>3, <4>4, HeldByRotation
    <3> QED
      BY <1>4, <3>1, <3>2, <3>3, <3>4
  <2> QED
    BY <2>1, <2>4
<1> QED
  BY <1>1, <1>3, <1>4, ListSteps

\* Every packet of a worker but the last is in exactly one place: queued as
\* sent, in the worker's hands, or free; and no place holds anything else.
THEOREM PacketsConservedTheorem == Spec => []PacketsConserved
<1>1. Init => Conserved
  BY ConservedInit
<1>2. RingInv /\ RingInv' /\ Conserved /\ [Next]_vars => Conserved'
  BY ConservedNext
<1>3. RingInv /\ Conserved => PacketsConserved
  <2> SUFFICES ASSUME RingInv, Conserved, Running, NEW w \in Workers
               PROVE  /\ Len(Whereabouts(w)) = Once
                      /\ {Whereabouts(w)[k] : k \in DOMAIN Whereabouts(w)}
                           = 0 .. Once - 1
    BY DEF PacketsConserved
  <2>1. Whereabouts(w) = Out(w) \o Free(w)
    BY DEF Whereabouts, Out, Free
  <2>2. Packets(Whereabouts(w)) = 0 .. Once - 1
    BY <2>1 DEF Conserved
  <2>3. /\ pool[w] \in PoolType(Once + 1) /\ queue[w] \in QueueType(Once + 1)
        /\ packet[w] \in Buffers
        /\ pc[w] \in {"fill", "test", "send", "put", "recv", "judge", "done"}
    BY DEF RingInv, WorkerTypeOK
  <2>4. PICK s, t, d : s = QueueList(queue[w]) /\ t = FreeList(pool[w]) /\ d = packet[w]
    OBVIOUS
  <2>5. /\ s \in Seq(Buffers) /\ t \in Seq(Buffers) /\ d \in Buffers
        /\ Len(s) = QueueCount(queue[w]) /\ Len(t) = FreeCount(pool[w])
    BY <2>3, <2>4, FreeIsList, QueueIsList
  <2>6. Len(s) + Len(t) = IF At(w, "put") THEN Once - 1 ELSE Once
    BY <2>3, <2>5, RingFacts DEF PacketsSplit, At
  <2>7. Len(Whereabouts(w)) = Once
    <3>1. CASE At(w, "put")
      <4>1. Whereabouts(w) = s \o <<d>> \o t
        BY <2>4, <3>1 DEF Whereabouts
      <4> QED
        BY <2>5, <2>6, <3>1, <4>1, OnceAssumption
    <3>2. CASE ~ At(w, "put")
      <4>1. Whereabouts(w) = s \o <<>> \o t
        BY <2>4, <3>2 DEF Whereabouts
      <4>2. s \o <<>> = s
        BY <2>5, JoinOne
      <4>3. Len(s \o t) = Len(s) + Len(t)
        BY <2>5
      <4> QED
        BY <2>6, <3>2, <4>1, <4>2, <4>3
    <3> QED
      BY <3>1, <3>2
  <2> QED
    BY <2>2, <2>7 DEF Packets
<1> QED
  BY <1>1, <1>2, <1>3, RingInvariant, PTL DEF Spec

-----------------------------------------------------------------------------
(* The rings implement LoopbackOrder. *)

\* What LoopbackOrder sees.
PhaseOf == [w \in Workers |-> Phase(w)]
FreeOf  == [w \in Workers |-> FreeList(pool[w])]
OutOf   == [w \in Workers |->
              QueueList(queue[w])
                \o (IF At(w, "put") THEN <<packet[w]>> ELSE <<>>)]

LEMMA SeenLists ==
  ASSUME NEW w \in Workers
  PROVE  /\ PhaseOf[w] = Phase(w) /\ PhaseOf'[w] = Phase(w)'
         /\ FreeOf[w] = Free(w) /\ FreeOf'[w] = Free(w)'
         /\ OutOf[w] = Out(w) /\ OutOf'[w] = Out(w)'
  BY DEF PhaseOf, FreeOf, OutOf, Free, Out

\* Two such functions that differ in one place, or in none.
LEMMA OneChanged ==
  ASSUME NEW f, NEW g, f = [w \in Workers |-> f[w]],
         g = [w \in Workers |-> g[w]], NEW v \in Workers,
         \A w \in Workers \ {v} : g[w] = f[w], NEW d, g[v] = d
  PROVE  g = [f EXCEPT ![v] = d]
  OBVIOUS

LEMMA NoneChanged ==
  ASSUME NEW f, NEW g, f = [w \in Workers |-> f[w]],
         g = [w \in Workers |-> g[w]], \A w \in Workers : g[w] = f[w]
  PROVE  g = f
  OBVIOUS

LEMMA SeenAreFunctions ==
  /\ PhaseOf = [w \in Workers |-> PhaseOf[w]]
  /\ PhaseOf' = [w \in Workers |-> PhaseOf'[w]]
  /\ FreeOf = [w \in Workers |-> FreeOf[w]]
  /\ FreeOf' = [w \in Workers |-> FreeOf'[w]]
  /\ OutOf = [w \in Workers |-> OutOf[w]]
  /\ OutOf' = [w \in Workers |-> OutOf'[w]]
BY DEF PhaseOf, FreeOf, OutOf

LEMMA OrderInit == Init => Order!Init
<1> SUFFICES ASSUME Init PROVE Order!Init
  OBVIOUS
<1>1. PhaseOf = [w \in Workers |-> "fill"]
  BY DEF Init, PhaseOf, Phase, At, Running
<1>2. FreeOf = [w \in Workers |-> [k \in 1 .. Once |-> k - 1]]
  <2>1. \A w \in Workers : FreeList(pool[w]) = [k \in 1 .. Once |-> k - 1]
    BY ListsInit DEF Free
  <2> QED
    BY <2>1 DEF FreeOf
<1>3. OutOf = [w \in Workers |-> <<>>]
  <2>1. \A w \in Workers :
          QueueList(queue[w])
            \o (IF At(w, "put") THEN <<packet[w]>> ELSE <<>>) = <<>>
    BY ListsInit DEF Out
  <2> QED
    BY <2>1 DEF OutOf
<1> QED
  BY <1>1, <1>2, <1>3 DEF Order!Init, PhaseOf, FreeOf, OutOf

\* The phase of a worker of the running process.
LEMMA Phases ==
  ASSUME Running, NEW w \in Workers
  PROVE  /\ pc[w] = "fill" => Phase(w) = "fill"
         /\ pc[w] \in {"test", "done"} => Phase(w) = "idle"
         /\ pc[w] \in {"send", "put"} => Phase(w) = "send"
         /\ pc[w] \in {"recv", "judge"} => Phase(w) = "recv"
BY DEF Phase, At

LEMMA PhasesNext ==
  ASSUME Running', NEW w \in Workers
  PROVE  /\ pc'[w] = "fill" => Phase(w)' = "fill"
         /\ pc'[w] \in {"test", "done"} => Phase(w)' = "idle"
         /\ pc'[w] \in {"send", "put"} => Phase(w)' = "send"
         /\ pc'[w] \in {"recv", "judge"} => Phase(w)' = "recv"
BY DEF Phase, At

\* A step of worker w is a step of the abstract worker w, or none.
OrderStep(w) ==
  \/ Order!Fill(w) \/ Order!Filled(w) \/ Order!Begin(w) \/ Order!Send(w)
  \/ Order!AllSent(w) \/ Order!Return(w) \/ Order!AllBack(w)

LEMMA OrderMoves ==
  ASSUME Running, Running', NEW w \in Workers, OtherLists(w),
         Stays(w) \/ Rotates(w) \/ GoesOut(w) \/ ComesBack(w)
  PROVE  OrderStep(w) \/ UNCHANGED <<PhaseOf, FreeOf, OutOf>>
<1>1. \A v \in Workers \ {w} :
        Phase(v)' = Phase(v) /\ Free(v)' = Free(v) /\ Out(v)' = Out(v)
  BY DEF OtherLists, Phase, At
<1>2. /\ PhaseOf' = [PhaseOf EXCEPT ![w] = Phase(w)']
      /\ FreeOf' = [FreeOf EXCEPT ![w] = Free(w)']
      /\ OutOf' = [OutOf EXCEPT ![w] = Out(w)']
  BY <1>1, SeenLists, SeenAreFunctions, OneChanged
<1>3. /\ Phase(w)' = Phase(w) => PhaseOf' = PhaseOf
      /\ Free(w)' = Free(w) => FreeOf' = FreeOf
      /\ Out(w)' = Out(w) => OutOf' = OutOf
  BY <1>1, SeenLists, SeenAreFunctions, NoneChanged
<1>4. PhaseOf[w] = Phase(w) /\ FreeOf[w] = Free(w) /\ OutOf[w] = Out(w)
  BY SeenLists
<1>5. CASE Rotates(w)
  <2>1. Phase(w) = "fill" /\ Phase(w)' = "fill"
    BY <1>5, Phases, PhasesNext DEF Rotates
  <2>2. /\ PhaseOf[w] = "fill" /\ FreeOf[w] # <<>>
        /\ FreeOf' = [FreeOf EXCEPT ![w] = Append(Tail(FreeOf[w]), Head(FreeOf[w]))]
        /\ UNCHANGED <<PhaseOf, OutOf>>
    BY <1>2, <1>3, <1>4, <1>5, <2>1 DEF Rotates
  <2> QED
    BY <2>2 DEF OrderStep, Order!Fill, PhaseOf, FreeOf, OutOf
<1>6. CASE GoesOut(w)
  <2>1. Phase(w) = "send" /\ Phase(w)' = "send"
    BY <1>6, Phases, PhasesNext DEF GoesOut
  <2>2. /\ PhaseOf[w] = "send" /\ FreeOf[w] # <<>>
        /\ OutOf' = [OutOf EXCEPT ![w] = Append(OutOf[w], Head(FreeOf[w]))]
        /\ FreeOf' = [FreeOf EXCEPT ![w] = Tail(FreeOf[w])]
        /\ UNCHANGED PhaseOf
    BY <1>2, <1>3, <1>4, <1>6, <2>1 DEF GoesOut
  <2> QED
    BY <2>2 DEF OrderStep, Order!Send, PhaseOf, FreeOf, OutOf
<1>7. CASE ComesBack(w)
  <2>1. Phase(w) = "recv" /\ Phase(w)' = "recv"
    BY <1>7, Phases, PhasesNext DEF ComesBack
  <2>2. /\ PhaseOf[w] = "recv" /\ OutOf[w] # <<>>
        /\ FreeOf' = [FreeOf EXCEPT ![w] = Append(FreeOf[w], Head(OutOf[w]))]
        /\ OutOf' = [OutOf EXCEPT ![w] = Tail(OutOf[w])]
        /\ UNCHANGED PhaseOf
    BY <1>2, <1>3, <1>4, <1>7, <2>1 DEF ComesBack
  <2> QED
    BY <2>2 DEF OrderStep, Order!Return, PhaseOf, FreeOf, OutOf
<1>8. CASE Stays(w)
  <2>1. UNCHANGED <<FreeOf, OutOf>>
    BY <1>3, <1>8 DEF Stays
  <2>2. \/ Phase(w)' = Phase(w)
        \/ Phase(w) = "fill" /\ Phase(w)' = "idle"
        \/ Phase(w) = "idle" /\ Phase(w)' = "send"
        \/ Phase(w) = "send" /\ Phase(w)' = "recv" /\ Free(w) = <<>>
        \/ Phase(w) = "recv" /\ Phase(w)' = "idle" /\ Out(w) = <<>>
    BY <1>8, Phases, PhasesNext DEF Stays
  <2>3. \/ UNCHANGED PhaseOf
        \/ PhaseOf[w] = "fill" /\ PhaseOf' = [PhaseOf EXCEPT ![w] = "idle"]
        \/ PhaseOf[w] = "idle" /\ PhaseOf' = [PhaseOf EXCEPT ![w] = "send"]
        \/ /\ PhaseOf[w] = "send" /\ PhaseOf' = [PhaseOf EXCEPT ![w] = "recv"]
           /\ FreeOf[w] = <<>>
        \/ /\ PhaseOf[w] = "recv" /\ PhaseOf' = [PhaseOf EXCEPT ![w] = "idle"]
           /\ OutOf[w] = <<>>
    BY <1>2, <1>3, <1>4, <2>2
  <2> QED
    BY <2>1, <2>3 DEF OrderStep, Order!Filled, Order!Begin, Order!AllSent,
       Order!AllBack, Order!Enter, PhaseOf, FreeOf, OutOf
<1> QED
  BY <1>5, <1>6, <1>7, <1>8

LEMMA OrderNext ==
  RingInv /\ RingInv' /\ [Next]_vars => [Order!Next]_(Order!vars)
<1> SUFFICES ASSUME RingInv, RingInv', [Next]_vars
             PROVE  [Order!Next]_(Order!vars)
  OBVIOUS
<1>1. UNCHANGED <<PhaseOf, FreeOf, OutOf>> => UNCHANGED (Order!vars)
  BY DEF Order!vars, PhaseOf, FreeOf, OutOf
<1>2. CASE ~ Running'
  <2>1. PhaseOf' = [w \in Workers |-> "stopped"]
    BY <1>2 DEF PhaseOf, Phase
  <2>2. FreeOf' \in [Workers -> Seq(Nat)]
    <3>1. \A w \in Workers : FreeList(pool'[w]) \in Seq(Buffers)
      BY FreeIsList DEF RingInv, WorkerTypeOK
    <3>2. Seq(Buffers) \subseteq Seq(Nat)
      BY OnceAssumption DEF Buffers
    <3> QED
      BY <3>1, <3>2 DEF FreeOf
  <2>3. OutOf' \in [Workers -> Seq(Nat)]
    <3>1. ASSUME NEW w \in Workers
          PROVE  QueueList(queue'[w])
                   \o (IF pc'[w] = "put" THEN <<packet'[w]>> ELSE <<>>) \in Seq(Nat)
      <4>1. QueueList(queue'[w]) \in Seq(Buffers) /\ packet'[w] \in Buffers
        BY QueueIsList DEF RingInv, WorkerTypeOK
      <4>2. QueueList(queue'[w]) \in Seq(Nat) /\ packet'[w] \in Nat
        BY <4>1, OnceAssumption DEF Buffers
      <4> QED
        BY <4>2
    <3> QED
      BY <3>1 DEF OutOf, At
  <2> QED
    BY <2>1, <2>2, <2>3 DEF Order!Next, Order!Stop, PhaseOf, FreeOf, OutOf
<1>3. CASE ~ Running
  BY <1>1, <1>3, NoSteps DEF vars, worker, others, flags, PhaseOf, FreeOf, OutOf,
                             Phase, At, Running
<1>4. CASE Running /\ Running'
  <2>1. CASE UNCHANGED worker
    BY <1>1, <1>4, <2>1 DEF worker, PhaseOf, FreeOf, OutOf, Phase, At
  <2>2. ASSUME NEW w \in Workers, OtherLists(w),
               Stays(w) \/ Rotates(w) \/ GoesOut(w) \/ ComesBack(w)
        PROVE  [Order!Next]_(Order!vars)
    <3>1. OrderStep(w) \/ UNCHANGED <<PhaseOf, FreeOf, OutOf>>
      BY <1>4, <2>2, OrderMoves
    <3>2. OrderStep(w) => Order!Next
      BY DEF OrderStep, Order!Next
    <3> QED
      BY <1>1, <3>1, <3>2
  <2> QED
    BY <1>4, <2>1, <2>2, ListSteps
<1> QED
  BY <1>2, <1>3, <1>4

\* Each worker does with its rings what LoopbackOrder allows: it fills every
\* packet while it is nowhere else, sends all in the order in which they are
\* free, and has all of them back, in the order sent, before it sends again.
THEOREM PacketOrderTheorem == Spec => PacketOrder
<1>1. Init => Order!Init
  BY OrderInit
<1>2. RingInv /\ RingInv' /\ [Next]_vars => [Order!Next]_(Order!vars)
  BY OrderNext
<1> QED
  BY <1>1, <1>2, RingInvariant, PTL DEF Spec, PacketOrder, Order!Spec
=============================================================================
