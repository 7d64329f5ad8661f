-------------------------- MODULE TaskExpirationQueue --------------------------
(***************************************************************************)
(* The queue of deadlines of SppProtoAsyncClient under any sequence of its *)
(* operations: ExpirationHeap as the code calls it.  Whoever takes a task  *)
(* out calls Task::reset next, so that is part of the step.                *)
(***************************************************************************)
EXTENDS ExpirationHeap

CONSTANTS QueuedTasks, Times

\* Times are compared.
ASSUME TimesAssumption == Times \subseteq Int

VARIABLES
  queue,     \* m_tasks and every m_queue_index
  deadline   \* every m_abs_expire_time

queueVars == <<queue, deadline>>

\* init_task: a deadline, then insert
insert(t, d) ==
  /\ t \notin Members(queue)
  /\ deadline' = [deadline EXCEPT ![t] = d]
  /\ queue' = Insert(queue, deadline', t)

\* handle_event: a new deadline, then expire_time_change
expire_time_change(t, d) ==
  /\ t \in Members(queue)
  /\ deadline' = [deadline EXCEPT ![t] = d]
  /\ queue' = Updown(queue, deadline', t)

\* terminate
erase(t) ==
  /\ t \in Members(queue)
  /\ queue' = reset(Erase(queue, deadline, t), t)
  /\ deadline' = [deadline EXCEPT ![t] = 0]

pop_front ==
  /\ queue.size > 0
  /\ queue' = reset(PopFront(queue, deadline), Front(queue))
  /\ deadline' = [deadline EXCEPT ![Front(queue)] = 0]

QueueInit == queue = Empty(QueuedTasks) /\ deadline = [t \in QueuedTasks |-> 0]

QueueNext ==
  \/ \E t \in QueuedTasks :
       erase(t) \/ \E d \in Times : insert(t, d) \/ expire_time_change(t, d)
  \/ pop_front

QueueSpec == QueueInit /\ [][QueueNext]_queueVars

--------------------------------------------------------------------------------
\* check_timeout and get_epoll_wait_time look at the front only: no task queued may
\* have an earlier deadline, after any insert, erase and change of deadlines.
NoneIsEarlier == \A t \in Members(queue) : deadline[Front(queue)] <= deadline[t]

\* erase and updown go by m_queue_index: it is the task's position for every task
\* queued and -1 for the others, so the one-past-the-end read of erase moves nothing.
IndexIsPosition ==
  /\ Len(queue.tasks) = queue.size
  /\ \A t \in QueuedTasks :
       IF t \in Members(queue)
       THEN queue.index[t] \in 0..(queue.size - 1) /\ At(queue, queue.index[t]) = t
       ELSE queue.index[t] = -1 /\ deadline[t] = 0

\* ExpirationQueue::front is a task with the earliest deadline, and every queued task
\* knows its position in the heap's array.
HeapIsSound == NoneIsEarlier /\ IndexIsPosition
================================================================================
