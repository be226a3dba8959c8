---------------------------- MODULE ManagerQueue ----------------------------
(***************************************************************************)
(* clib-src/mpipe_mutual/manager_queue.c: the ring in which a worker keeps *)
(* the packets it has sent and not yet judged, oldest first.  A queue is a *)
(* record with the fields of manager_queue_t that matter.  As in the pool, *)
(* the locking is commented out: only the owner may call these.            *)
(***************************************************************************)
EXTENDS Naturals

QueueWrap(pos, total) == IF pos >= total THEN 0 ELSE pos

\* init_manager_queue clears `numbers` BYTES of node, not `numbers` pointers;
\* a slot is always written before it is read, so 0 stands for any content.
init_manager_queue(numbers) ==
  [push_pos |-> 0,
   pop_pos  |-> 0,
   node     |-> [k \in 0 .. numbers - 1 |-> 0],
   total    |-> numbers,
   length   |-> 0]

is_empty_manager_queue(q) == q.push_pos = q.pop_pos

is_full_manager_queue(q) == (q.push_pos + 1) % q.total = q.pop_pos

\* The queue after a push that found room (push_session_buf returns false,
\* changing nothing, when is_full_manager_queue holds).
push_session_buf(q, data) ==
  [q EXCEPT !.node[q.push_pos] = data,
            !.push_pos = QueueWrap(@ + 1, q.total),
            !.length   = @ + 1]

\* Mutant: the newest packet instead of the oldest.
pop_session_buf_data_Newest(q) ==
  q.node[IF q.push_pos = 0 THEN q.total - 1 ELSE q.push_pos - 1]

\* *data of pop_session_buf, and the queue it leaves (false when empty).
pop_session_buf_data(q) == q.node[q.pop_pos]

pop_session_buf(q) ==
  [q EXCEPT !.pop_pos = QueueWrap(@ + 1, q.total),
            !.length  = @ - 1]

-----------------------------------------------------------------------------
\* How many packets wait in the queue, and which, oldest first.
QueueCount(q) == IF q.push_pos >= q.pop_pos
                   THEN q.push_pos - q.pop_pos
                   ELSE q.push_pos + q.total - q.pop_pos

\* A queue with n slots, holding packets of 0 .. n-1, as the operations leave
\* it.
QueueType(n) ==
  [push_pos : 0 .. n - 1, pop_pos : 0 .. n - 1, node : [0 .. n - 1 -> 0 .. n - 1],
   total : {n}, length : Nat]

QueueOK(q, n) == q \in QueueType(n) /\ q.length = QueueCount(q)

QueueList(q) ==
  [k \in 1 .. QueueCount(q) |-> q.node[(q.pop_pos + k - 1) % q.total]]

=============================================================================
