---------------------------- MODULE ExpirationHeap ----------------------------
(****************************************************************************)
(* The binary heap of TaskExpirationQueue in spp_proto_async_client.{h,cc}, *)
(* as operators.  A queue is what vector<Task*> holds in memory, the size   *)
(* of the vector, and the m_queue_index of every task.  Positions count     *)
(* from 0, as in the code; expire gives m_abs_expire_time.                  *)
(*                                                                          *)
(* erase shrinks the vector and then reads the slot it erased, which is one *)
(* past the end when the last task leaves.  The memory still holds that     *)
(* task, so the memory keeps the slot until Shrunk cuts it off.             *)
(****************************************************************************)
EXTENDS Integers, Sequences

Empty(Tasks) == [tasks |-> <<>>, size |-> 0, index |-> [t \in Tasks |-> -1]]

At(q, i) == q.tasks[i + 1]
Parent(i) == (i - 1) \div 2
Members(q) == {q.tasks[i] : i \in 1..q.size}

Place(q, i, t) == [q EXCEPT !.tasks[i + 1] = t, !.index[t] = i]
Swap(q, i, j) == Place(Place(q, i, At(q, j)), j, At(q, i))
Shrunk(q) == [q EXCEPT !.tasks = SubSeq(@, 1, q.size)]

\* A turn of the loop in upword: the task changes places with its parent, or the loop
\* has ended.
UpwordTurn(q, expire, t) ==
  LET i == q.index[t]
  IN IF i > 0 /\ expire[At(q, Parent(i))] > expire[t]
     THEN Swap(q, i, Parent(i))
     ELSE q

\* Every turn of a loop brings the task nearer to an end of the queue: q.size turns are
\* enough for both loops.
Upword(q, expire, t) ==
  LET turn[n \in Nat] == IF n = 0 THEN q ELSE UpwordTurn(turn[n - 1], expire, t)
  IN turn[q.size]

\* Variant: the right child is not looked at
EarlierChildLeft(q, expire, i) == 2 * i + 1

EarlierChild(q, expire, i) ==
  LET l == 2 * i + 1
      r == 2 * i + 2
  IN IF r < q.size /\ expire[At(q, r)] < expire[At(q, l)] THEN r ELSE l

\* A turn of the loop in downward
DownwardTurn(q, expire, t) ==
  LET i == q.index[t]
      child == EarlierChild(q, expire, i)
  IN IF i < q.size \div 2 /\ expire[At(q, child)] < expire[t]
     THEN Swap(q, i, child)
     ELSE q

Downward(q, expire, t) ==
  LET turn[n \in Nat] == IF n = 0 THEN q ELSE DownwardTurn(turn[n - 1], expire, t)
  IN turn[q.size]

Updown(q, expire, t) ==
  LET i == q.index[t]
  IN IF i > 0 /\ expire[t] < expire[At(q, Parent(i))]
     THEN Upword(q, expire, t)
     ELSE Downward(q, expire, t)

Insert(q, expire, t) ==
  Upword([tasks |-> Append(q.tasks, t), size |-> q.size + 1,
          index |-> [q.index EXCEPT ![t] = q.size]], expire, t)

Erase(q, expire, t) ==
  LET i == q.index[t]
      moved == [Place(q, i, At(q, q.size - 1)) EXCEPT !.size = @ - 1]
  IN Shrunk(Updown(moved, expire, At(moved, i)))

\* pop_front
PopFront(q, expire) ==
  LET moved == [Place(q, 0, At(q, q.size - 1)) EXCEPT !.size = @ - 1]
  IN Shrunk(Downward(moved, expire, At(moved, 0)))

Front(q) == At(q, 0)

\* Task::reset, of a task that left the queue
reset(q, t) == [q EXCEPT !.index[t] = -1]

-------------------------------------------------------------------------------
\* Queues of tasks of T in m slots, whose tasks know their positions.
Shaped(T, m) ==
  {q \in [tasks : [1..m -> T], size : 0..m, index : [T -> Int]] :
     \A i \in 0..(q.size - 1) : q.index[q.tasks[i + 1]] = i}

\* No task is earlier than its parent, except perhaps at the positions in out.
OrderedBut(q, e, out) ==
  \A j \in (1..(q.size - 1)) \ out : e[At(q, Parent(j))] <= e[At(q, j)]

Ordered(q, e) == OrderedBut(q, e, {})

\* A queue in order, whose memory ends where the queue ends
Heap(q, T, e) == q \in Shaped(T, q.size) /\ Ordered(q, e)
================================================================================
