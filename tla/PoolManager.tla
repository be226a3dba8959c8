---------------------------- MODULE PoolManager ----------------------------
(***************************************************************************)
(* clib-src/mpipe_mutual/pool_manager.c: a ring of pointers to the packet  *)
(* buffers that are free.  A pool is a record with the fields of pool_t    *)
(* that the code reads or writes; a buffer is its index in pool->buffer.   *)
(* The mutex calls are commented out in the C code, so every operation is  *)
(* safe only because each worker owns its pool.                            *)
(***************************************************************************)
EXTENDS Naturals

\* A position that has just been incremented, wrapped to the ring's start.
\* (PoolWrap_Late and the other definitions named with a suffix are mutants:
\* slips the properties must notice, no part of the model.)
PoolWrap_Late(pos, total) == IF pos > total THEN 0 ELSE pos
PoolWrap(pos, total) == IF pos >= total THEN 0 ELSE pos

init_pool_Short(numbers) ==
  [push_pos |-> IF numbers > 1 THEN numbers - 2 ELSE 0, pop_pos |-> 0,
   node |-> [k \in 0 .. numbers - 1 |-> k], total |-> numbers,
   free_num |-> numbers]

\* The ring starts "full": numbers-1 buffers can be taken, and the pointer to
\* the last buffer is in the slot that the first free_buf overwrites.
init_pool(numbers) ==
  [push_pos |-> numbers - 1,
   pop_pos  |-> 0,
   node     |-> [k \in 0 .. numbers - 1 |-> k],
   total    |-> numbers,
   free_num |-> numbers]

is_empty_pool(p) == p.push_pos = p.pop_pos

\* *data of get_buf, and the pool it leaves; get_buf returns -1 in
\* NO_WAIT_MODE when is_empty_pool holds, which its callers test first.
get_buf_data(p) == p.node[p.pop_pos]

get_buf(p) ==
  [p EXCEPT !.pop_pos  = PoolWrap(@ + 1, p.total),
            !.free_num = @ - 1]

free_buf_Unstored(p, data) ==
  [p EXCEPT !.push_pos = PoolWrap(@ + 1, p.total), !.free_num = @ + 1]

\* free_buf does not look whether the pool is full.
free_buf(p, data) ==
  [p EXCEPT !.node[p.push_pos] = data,
            !.push_pos = PoolWrap(@ + 1, p.total),
            !.free_num = @ + 1]

-----------------------------------------------------------------------------
\* How many buffers get_buf can still take, and which, in the order it would.
FreeCount(p) == IF p.push_pos >= p.pop_pos
                  THEN p.push_pos - p.pop_pos
                  ELSE p.push_pos + p.total - p.pop_pos

\* A pool of n buffers as the operations leave it.  free_num counts the slot
\* that init_pool filled in vain, so it is one more than what can be taken.
PoolType(n) ==
  [push_pos : 0 .. n - 1, pop_pos : 0 .. n - 1, node : [0 .. n - 1 -> 0 .. n - 1],
   total : {n}, free_num : Nat]

PoolOK(p, n) == p \in PoolType(n) /\ p.free_num = FreeCount(p) + 1

FreeList(p) ==
  [k \in 1 .. FreeCount(p) |-> p.node[(p.pop_pos + k - 1) % p.total]]

=============================================================================
