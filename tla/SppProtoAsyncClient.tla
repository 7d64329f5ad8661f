------------------------- MODULE SppProtoAsyncClient -------------------------
(****************************************************************************)
(* app/qzap/common/utility/spp_proto_async_client.cc: one thread, run(),    *)
(* drives all calls through an epoll set; Call and Stop come from any       *)
(* thread and reach it by a queue under m_mutex and a byte in a pipe.       *)
(* Everything but the task queue, the task pool and m_exit belongs to the   *)
(* thread, so a handler is one step.                                        *)
(*                                                                          *)
(* Time.  The code reads the clock as whole seconds, in milliseconds.  So   *)
(* only the turn of a second is visible to it, and deadlines are kept       *)
(* relative to the second that runs: a timeout shorter than a second has    *)
(* passed when the second turns, however soon that is.                      *)
(*                                                                          *)
(* The network is external: a connection is made or refused, a server sends *)
(* Parts[c] responses to call c and the callback ends the call (endup) at   *)
(* the last, the peer may close at any time.                                *)
(****************************************************************************)
EXTENDS ExpirationHeap, FiniteSets, FiniteSetsExt

CONSTANTS
  Calls, Addr, Parts,        \* calls in the order they come, the address and number of responses of each
  Tasks, Handlers, Fds,      \* objects and descriptors, numbered
  MaxConcurrent, TaskPoolLimit,
  Second, ConnTimeout, SendTimeout, RecvTimeout,
  MaxLate                    \* bound: how late the thread may look at its deadlines

\* Objects and descriptors are numbers, 0 is none of them; there is a handler for every
\* descriptor.
ASSUME ClientAssumption ==
  /\ Calls \subseteq Int /\ \A c \in Calls : Parts[c] \in Nat
  /\ Tasks \subseteq Nat \ {0} /\ Handlers \subseteq Nat \ {0} /\ Fds \subseteq Nat \ {0}
  /\ IsFiniteSet(Handlers) /\ IsFiniteSet(Fds) /\ Cardinality(Fds) <= Cardinality(Handlers)
  /\ MaxConcurrent \in Nat /\ TaskPoolLimit \in Nat
  /\ Second \in Nat /\ MaxLate \in Nat
  /\ ConnTimeout \in Nat /\ SendTimeout \in Nat /\ RecvTimeout \in Nat

VARIABLES
  m_task_queue, m_task_pool,
  live,          \* the Task objects that exist
  task,          \* their fields
  expire,        \* m_abs_expire_time
  heap,          \* m_expiration_queue
  m_fds,         \* m_addr_info: the idle connections to each address
  m_fd_info,     \* address and handler of each idle connection
  monitor,       \* the MonitorServerCloseHandlers: those to reuse, and each m_fd
  epoll,         \* the handler registered for each descriptor
  batch,         \* events returned by epoll_wait and not yet handled
  at,            \* where run() is
  pipe,          \* the pipe holds a byte
  m_exit,
  conn,          \* each descriptor's connection
  call           \* how far each call is, as its caller sees it

pool == <<m_fds, m_fd_info, monitor>>
vars == <<m_task_queue, m_task_pool, live, task, expire, heap, pool, epoll, batch, at, pipe, m_exit, conn, call>>

None == 0
NoHandler == [kind |-> "none", id |-> None]
TaskHandler(t) == [kind |-> "task", id |-> t]
MonitorHandler(h) == [kind |-> "monitor", id |-> h]

Addrs == {Addr[c] : c \in Calls}
Blank == [state |-> "INIT", fd |-> None, call |-> None]
NoConn == [state |-> "none", asked |-> <<>>, inbox |-> <<>>]
Open == {f \in Fds : conn[f].state # "none"}
Active == Members(heap)
AddrOf(t) == Addr[task[t].call]

Top(s) == s[Len(s)]
Pop(s) == SubSeq(s, 1, Len(s) - 1)
Without(s, x) ==
  LET i == Min({j \in DOMAIN s : s[j] = x})
  IN SubSeq(s, 1, i - 1) \o SubSeq(s, i + 1, Len(s))

--------------------------------------------------------------------------------
(* Callers *)

\* Call.  alloc_task and add_task are two critical sections; the task between them is
\* known to nobody else, so they are one step; so is the write to the pipe, for the
\* thread looks at the queue every second at least, byte or not.  A write that fails
\* finds the pipe full.  There may be no memory for a new task.  InitHostPort may fail,
\* and then the task is not given back.
Call(c) ==
  /\ call[c] = "idle" /\ at # "gone"
  /\ \A d \in Calls : d < c => call[d] # "idle"
  /\ \/ /\ m_task_pool = <<>>
        /\ call' = [call EXCEPT ![c] = "refused"]
        /\ UNCHANGED <<m_task_pool, live, task, m_task_queue, pipe>>
     \/ LET reuse == m_task_pool # <<>>
            t == IF reuse THEN Top(m_task_pool) ELSE Min(Tasks \ live)
        IN /\ reuse \/ Tasks \ live # {}
           /\ m_task_pool' = IF reuse THEN Pop(m_task_pool) ELSE m_task_pool
           /\ live' = live \cup {t}
           /\ \/ /\ task' = [task EXCEPT ![t].call = c]
                 /\ m_task_queue' = Append(m_task_queue, t)
                 /\ pipe' = TRUE
                 /\ call' = [call EXCEPT ![c] = "accepted"]
              \/ /\ call' = [call EXCEPT ![c] = "refused"]
                 /\ UNCHANGED <<task, m_task_queue, pipe>>
  /\ UNCHANGED <<expire, heap, pool, epoll, batch, at, m_exit, conn>>

Stop ==
  /\ ~m_exit
  /\ m_exit' = TRUE
  /\ pipe' = TRUE
  /\ UNCHANGED <<m_task_queue, m_task_pool, live, task, expire, heap, pool, epoll, batch, at, conn, call>>

--------------------------------------------------------------------------------
(* Connections kept for reuse, and the end of a task *)

\* close; a closed descriptor also leaves the epoll set.  net is conn with what has
\* been read from it taken off.
CloseFd(f, net) ==
  /\ conn' = [net EXCEPT ![f] = NoConn]
  /\ epoll' = [epoll EXCEPT ![f] = NoHandler]

\* return_fd and monitor_server_close: connection f to address a is kept, unless
\* there are enough.
return_fd(a, f, net) ==
  IF Len(m_fds[a]) < MaxConcurrent
  THEN LET reuse == monitor.free # <<>>
           h == IF reuse THEN Top(monitor.free) ELSE Min({x \in Handlers : monitor.fd[x] = None})
       IN /\ m_fds' = [m_fds EXCEPT ![a] = Append(@, f)]
          /\ m_fd_info' = [m_fd_info EXCEPT ![f] = <<a, h>>]
          /\ monitor' = [free |-> IF reuse THEN Pop(monitor.free) ELSE monitor.free,
                         fd |-> [monitor.fd EXCEPT ![h] = f]]
          /\ epoll' = [epoll EXCEPT ![f] = MonitorHandler(h)]
          /\ conn' = net
  ELSE CloseFd(f, net) /\ UNCHANGED pool

return_task(t) ==
  IF Len(m_task_pool) >= TaskPoolLimit
  THEN live' = live \ {t} /\ UNCHANGED m_task_pool
  ELSE m_task_pool' = Append(m_task_pool, t) /\ UNCHANGED live

\* Variant: a task that failed also gives its connection back
terminate_keeps_connection(t, normal, net) ==
  /\ heap' = reset(Erase(heap, expire, t), t)
  /\ return_fd(AddrOf(t), task[t].fd, net)
  /\ expire' = [expire EXCEPT ![t] = 0]
  /\ task' = [task EXCEPT ![t] = Blank]
  /\ return_task(t)

\* terminate of a task with a connection
terminate(t, normal, net) ==
  /\ heap' = reset(Erase(heap, expire, t), t)
  /\ IF normal THEN return_fd(AddrOf(t), task[t].fd, net)
               ELSE CloseFd(task[t].fd, net) /\ UNCHANGED pool
  /\ expire' = [expire EXCEPT ![t] = 0]
  /\ task' = [task EXCEPT ![t] = Blank]
  /\ return_task(t)

\* The callback that ends a call
Process(t) ==
  call' = [call EXCEPT ![task[t].call] = IF @ = "accepted" THEN "called back" ELSE "again"]

\* ERR_RETURN, and a task that expired
Fail(t) ==
  /\ Process(t)
  /\ terminate(t, FALSE, conn)

--------------------------------------------------------------------------------
(* Task::handle_event, by the state of the task *)

Enter(t, state, timeout) ==
  /\ task' = [task EXCEPT ![t].state = state]
  /\ expire' = [expire EXCEPT ![t] = timeout]
  /\ heap' = Updown(heap, expire', t)

Connected(t) ==
  /\ task[t].state = "CONNECT"
  /\ \/ /\ conn[task[t].fd].state = "up"
        /\ Enter(t, "SEND", SendTimeout)
        /\ UNCHANGED <<pool, epoll, m_task_pool, live, conn, call>>
     \/ /\ conn[task[t].fd].state = "closed"
        /\ Fail(t)

Responses(c) == [i \in 1..Parts[c] |-> [call |-> c, last |-> i = Parts[c]]]

\* send takes part of the request, or nothing (EAGAIN); or all; or fails.
Send(t) ==
  /\ task[t].state = "SEND"
  /\ \/ UNCHANGED <<task, expire, heap, pool, epoll, m_task_pool, live, conn, call>>
     \/ /\ Enter(t, "RECV", RecvTimeout)
        /\ conn' = [conn EXCEPT ![task[t].fd].asked =
                      IF conn[task[t].fd].state = "up" THEN @ \o Responses(task[t].call) ELSE @]
        /\ UNCHANGED <<pool, epoll, m_task_pool, live, call>>
     \/ /\ conn[task[t].fd].state = "closed"
        /\ Fail(t)

\* recv finds the connection closed; or a response that is bad; or a part of it; or all
\* of it.  (An event means that there is something, and nobody else reads it.)  The deadline is not renewed when more responses are to come.
Receive(t) ==
  LET f == task[t].fd
      rest == [conn EXCEPT ![f].inbox = Tail(@)]
  IN /\ task[t].state = "RECV"
     /\ \/ /\ conn[f].inbox = <<>>
           /\ Fail(t)
        \/ /\ conn[f].inbox # <<>>
           /\ Fail(t)
        \/ /\ conn[f].inbox # <<>>
           /\ UNCHANGED <<task, expire, heap, pool, epoll, m_task_pool, live, conn, call>>
        \/ /\ conn[f].inbox # <<>> /\ Head(conn[f].inbox).last
           /\ Process(t)
           /\ terminate(t, TRUE, rest)
        \/ /\ conn[f].inbox # <<>> /\ ~Head(conn[f].inbox).last
           /\ conn' = rest
           /\ UNCHANGED <<task, expire, heap, pool, epoll, m_task_pool, live, call>>

TaskEvent(t) ==
  \/ (Connected(t) \/ Send(t) \/ Receive(t)) /\ UNCHANGED pipe
  \/ task[t].state = "INIT" /\ UNCHANGED <<task, expire, heap, pool, epoll, m_task_pool, live, conn, call, pipe>>

--------------------------------------------------------------------------------
(* The other handlers *)

PipeEvent == pipe' = FALSE /\ UNCHANGED <<task, expire, heap, pool, epoll, m_task_pool, live, conn, call>>

\* MonitorServerCloseHandler: cancel_listen, close_fd.  A connection that is not
\* where m_fd_info says is "inconsident", and stays open.
MonitorEvent(h) ==
  LET f == monitor.fd[h]
      known == m_fd_info[f] # <<>>
      kept == known /\ f \in Range(m_fds[m_fd_info[f][1]])
  IN /\ epoll' = [epoll EXCEPT ![f] = NoHandler]
     /\ conn' = IF kept THEN [conn EXCEPT ![f] = NoConn] ELSE conn
     /\ m_fds' = IF kept THEN [m_fds EXCEPT ![m_fd_info[f][1]] = Without(@, f)] ELSE m_fds
     /\ m_fd_info' = [m_fd_info EXCEPT ![f] = <<>>]
     /\ monitor' = IF known THEN [monitor EXCEPT !.free = Append(@, m_fd_info[f][2])] ELSE monitor
     /\ UNCHANGED <<task, expire, heap, m_task_pool, live, call, pipe>>

--------------------------------------------------------------------------------
(* run *)

Readable(f) == conn[f].inbox # <<>> \/ conn[f].state = "closed"
ReadyFd(f) ==
  CASE epoll[f].kind = "none"    -> FALSE
    [] epoll[f].kind = "monitor" -> Readable(f)
    [] epoll[f].kind = "task"    ->
         CASE task[epoll[f].id].state = "CONNECT" -> conn[f].state # "connecting"
           [] task[epoll[f].id].state = "SEND"    -> TRUE
           [] OTHER                               -> Readable(f)

\* epoll_wait returns every event that is ready, or none when its time is over; then
\* m_exit is looked at.
Wait ==
  /\ at = "wait"
  /\ at' = IF m_exit THEN "exit" ELSE "events"
  /\ batch' = IF m_exit THEN {}
              ELSE {[handler |-> epoll[f], fd |-> f] : f \in {g \in Fds : ReadyFd(g)}}
                   \cup {[handler |-> [kind |-> "pipe", id |-> None], fd |-> None] : x \in {y \in {1} : pipe}}
  /\ UNCHANGED <<m_task_queue, m_task_pool, live, task, expire, heap, pool, epoll, pipe, m_exit, conn, call>>

\* Variant: timeouts are looked at only when there was no event
HandleEventNoTimeout(e) ==
  /\ at = "events"
  /\ e \in batch
  /\ batch' = batch \ {e}
  /\ at' = IF batch' = {} THEN "tasks" ELSE at
  /\ CASE e.handler.kind = "pipe"    -> PipeEvent
       [] e.handler.kind = "task"    -> TaskEvent(e.handler.id)
       [] e.handler.kind = "monitor" -> MonitorEvent(e.handler.id)
  /\ UNCHANGED <<m_task_queue, m_exit>>

\* The events in any order: the order of epoll's list is not the code's.
HandleEvent(e) ==
  /\ at = "events"
  /\ e \in batch
  /\ batch' = batch \ {e}
  /\ CASE e.handler.kind = "pipe"    -> PipeEvent
       [] e.handler.kind = "task"    -> TaskEvent(e.handler.id)
       [] e.handler.kind = "monitor" -> MonitorEvent(e.handler.id)
  /\ UNCHANGED <<m_task_queue, at, m_exit>>

Expired == heap.size > 0 /\ expire[Front(heap)] <= 0

\* One turn of the loop in check_timeout.  It reads the clock once: a second that turns
\* meanwhile is as good as one that turned before.
check_timeout ==
  /\ at = "events" /\ batch = {}
  /\ \/ Expired /\ Fail(Front(heap)) /\ UNCHANGED at
     \/ /\ ~Expired
        /\ at' = "tasks"
        /\ UNCHANGED <<m_task_pool, live, task, expire, heap, pool, epoll, conn, call>>
  /\ UNCHANGED <<m_task_queue, batch, pipe, m_exit>>

--------------------------------------------------------------------------------
(* get_task and init_task *)

Begin(t, f, state, timeout) ==
  /\ task' = [task EXCEPT ![t].state = state, ![t].fd = f]
  /\ epoll' = [epoll EXCEPT ![f] = TaskHandler(t)]
  /\ expire' = [expire EXCEPT ![t] = timeout]
  /\ heap' = Insert(heap, expire', t)
  /\ UNCHANGED <<m_task_pool, live, call>>

\* get_fd finds a connection
TakeKept(t) ==
  LET a == AddrOf(t)
      f == Top(m_fds[a])
  IN /\ m_fds[a] # <<>>
     /\ m_fds' = [m_fds EXCEPT ![a] = Pop(@)]
     /\ m_fd_info' = [m_fd_info EXCEPT ![f] = <<>>]
     /\ monitor' = [monitor EXCEPT !.free = Append(@, m_fd_info[f][2])]
     /\ Begin(t, f, "SEND", SendTimeout)
     /\ UNCHANGED conn

\* connect succeeds, is in progress, or fails, also for want of a descriptor; then
\* terminate has no connection to end and the task in no queue.
Connect(t) ==
  LET f == Min(Fds \ Open)
  IN /\ m_fds[AddrOf(t)] = <<>>
     /\ \/ /\ Fds \ Open # {}
           /\ conn' = [conn EXCEPT ![f].state = "up"]
           /\ Begin(t, f, "SEND", SendTimeout)
        \/ /\ Fds \ Open # {}
           /\ conn' = [conn EXCEPT ![f].state = "connecting"]
           /\ Begin(t, f, "CONNECT", ConnTimeout)
        \/ /\ Process(t)
           /\ task' = [task EXCEPT ![t] = Blank]
           /\ return_task(t)
           /\ UNCHANGED <<expire, heap, epoll, conn>>
     /\ UNCHANGED pool

CanTake == heap.size < MaxConcurrent /\ m_task_queue # <<>>

\* Variant: a task is begun as soon as there is room, between two events
init_task_at_once ==
  /\ \/ /\ CanTake
        /\ at \in {"events", "tasks"}
        /\ m_task_queue' = Tail(m_task_queue)
        /\ TakeKept(Head(m_task_queue)) \/ Connect(Head(m_task_queue))
        /\ UNCHANGED at
     \/ /\ ~CanTake
        /\ at = "tasks"
        /\ at' = "wait"
        /\ UNCHANGED <<m_task_queue, m_task_pool, live, task, expire, heap, pool, epoll, conn, call>>
  /\ UNCHANGED <<batch, pipe, m_exit>>

init_task ==
  /\ at = "tasks"
  /\ \/ /\ CanTake
        /\ m_task_queue' = Tail(m_task_queue)
        /\ TakeKept(Head(m_task_queue)) \/ Connect(Head(m_task_queue))
        /\ UNCHANGED at
     \/ /\ ~CanTake
        /\ at' = "wait"
        /\ UNCHANGED <<m_task_queue, m_task_pool, live, task, expire, heap, pool, epoll, conn, call>>
  /\ UNCHANGED <<batch, pipe, m_exit>>

--------------------------------------------------------------------------------
(* The destructor.  It stops and joins the thread itself only if Stop has not been   *)
(* called and the byte goes into the pipe.  Otherwise the join is the owner's part:  *)
(* Stop returns the thread for that.  So this is the destructor once the thread has  *)
(* returned and nobody calls any more; one that runs beside the loop is left out.    *)
(* Queued tasks end without a callback.  The tasks under way are neither called back *)
(* nor closed; the handlers kept for reuse close the descriptor they had last.       *)

Destroy ==
  /\ at = "exit"
  /\ at' = "gone"
  /\ call' = [c \in Calls |-> IF \E i \in DOMAIN m_task_queue : task[m_task_queue[i]].call = c
                              THEN "dropped" ELSE call[c]]
  /\ live' = live \ (Range(m_task_queue) \cup Range(m_task_pool))
  /\ conn' = [f \in Fds |-> IF \/ \E a \in Addrs : f \in Range(m_fds[a])
                               \/ f \in {monitor.fd[h] : h \in Range(monitor.free)}
                            THEN NoConn ELSE conn[f]]
  /\ m_task_queue' = <<>> /\ m_task_pool' = <<>>
  /\ m_fds' = [a \in Addrs |-> <<>>] /\ m_fd_info' = [f \in Fds |-> <<>>]
  /\ monitor' = [free |-> <<>>, fd |-> [h \in Handlers |-> None]]
  /\ epoll' = [f \in Fds |-> NoHandler]
  /\ heap' = Empty(Tasks) /\ expire' = [t \in Tasks |-> 0]
  /\ task' = [t \in Tasks |-> Blank]
  /\ pipe' = FALSE
  /\ UNCHANGED <<batch, m_exit>>

--------------------------------------------------------------------------------
(* The network and the clock (external) *)

Network(f) ==
  /\ conn[f].state \in {"connecting", "up"}
  /\ \/ conn[f].state = "connecting" /\ \E s \in {"up", "closed"} : conn' = [conn EXCEPT ![f].state = s]
     \/ conn[f].state = "up" /\ conn' = [conn EXCEPT ![f].state = "closed", ![f].asked = <<>>]
  /\ UNCHANGED <<m_task_queue, m_task_pool, live, task, expire, heap, pool, epoll, batch, at, pipe, m_exit, call>>

Answer(f) ==
  /\ conn[f].asked # <<>>
  /\ conn' = [conn EXCEPT ![f].inbox = Append(@, Head(conn[f].asked)), ![f].asked = Tail(@)]
  /\ UNCHANGED <<m_task_queue, m_task_pool, live, task, expire, heap, pool, epoll, batch, at, pipe, m_exit, call>>

\* The second turns.
Tick ==
  /\ \A t \in Active : expire[t] - Second >= -MaxLate
  /\ expire' = [t \in Tasks |-> IF t \in Active THEN expire[t] - Second ELSE 0]
  /\ UNCHANGED <<m_task_queue, m_task_pool, live, task, heap, pool, epoll, batch, at, pipe, m_exit, conn, call>>

--------------------------------------------------------------------------------
Init ==
  /\ m_task_queue = <<>> /\ m_task_pool = <<>>
  /\ live = {}
  /\ task = [t \in Tasks |-> Blank]
  /\ expire = [t \in Tasks |-> 0] /\ heap = Empty(Tasks)
  /\ m_fds = [a \in Addrs |-> <<>>] /\ m_fd_info = [f \in Fds |-> <<>>]
  /\ monitor = [free |-> <<>>, fd |-> [h \in Handlers |-> None]]
  /\ epoll = [f \in Fds |-> NoHandler]
  /\ batch = {} /\ at = "wait"
  /\ pipe = FALSE /\ m_exit = FALSE
  /\ conn = [f \in Fds |-> NoConn]
  /\ call = [c \in Calls |-> "idle"]

run == Wait \/ (\E e \in batch : HandleEvent(e)) \/ check_timeout \/ init_task

Next ==
  \/ \E c \in Calls : Call(c)
  \/ Stop
  \/ run
  \/ Destroy
  \/ \E f \in Fds : Network(f) \/ Answer(f)
  \/ Tick

Spec == Init /\ [][Next]_vars

\* The thread runs and time passes.
FairSpec == Spec /\ WF_vars(run) /\ WF_vars(Tick)

--------------------------------------------------------------------------------
(* Properties *)

Results == {"idle", "refused", "accepted", "called back", "dropped"}
Kept(a) == Range(m_fds[a])
AllKept == UNION {Kept(a) : a \in Addrs}
Used == {task[t].fd : t \in Active}

\* Types, and the limits: calls under way, connections kept for an address, tasks kept.
TypeOK ==
  /\ at \in {"wait", "events", "tasks", "exit", "gone"}
  /\ pipe \in BOOLEAN /\ m_exit \in BOOLEAN
  /\ \A t \in Tasks : task[t].state \in {"INIT", "CONNECT", "SEND", "RECV"}
  /\ heap.size <= MaxConcurrent
  /\ \A a \in Addrs : Len(m_fds[a]) <= MaxConcurrent
  /\ Len(m_task_pool) <= TaskPoolLimit

\* A call that was accepted has its callback once: until then exactly one Task carries
\* it, queued or under way, and afterwards none does, whatever the races of answers,
\* timeouts and closed connections.
CalledBackOnce ==
  \A c \in Calls :
    /\ call[c] \in Results
    /\ Cardinality({t \in Range(m_task_queue) \cup Active : task[t].call = c}) =
         IF call[c] = "accepted" /\ at # "gone" THEN 1 ELSE 0

\* A Task given back is forgotten by everybody else: it is in the pool once, and in
\* neither queue, and keeps nothing of its last call.
PooledTasksAreFree ==
  /\ Cardinality(Range(m_task_pool)) = Len(m_task_pool)
  /\ \A t \in Range(m_task_pool) :
       t \in live /\ t \notin Active \cup Range(m_task_queue) /\ task[t] = Blank

\* The timeouts look at the front of the queue only: it is the earliest of all tasks
\* under way, and m_queue_index finds each of them.
FrontIsEarliest ==
  /\ \A t \in Active : expire[Front(heap)] <= expire[t] /\ At(heap, heap.index[t]) = t
  /\ Active = {t \in Tasks : task[t].fd # None}

\* Every open connection has one owner, which epoll would call: a task under way, or
\* the monitor of a connection kept; m_addr_info and m_fd_info agree, so that "fd and
\* addr info inconsident" (lines 448, 464) is never logged; nothing stays open unowned.
ConnectionsOwnedOnce ==
  at # "gone" =>
    /\ Open = Used \cup AllKept
    /\ Used \cap AllKept = {} /\ Cardinality(Used) = Cardinality(Active)
    /\ \A t \in Active : epoll[task[t].fd] = TaskHandler(t)
    /\ \A a \in Addrs : Cardinality(Kept(a)) = Len(m_fds[a])
    /\ \A f \in Fds : m_fd_info[f] # <<>> <=> f \in AllKept
    /\ \A a \in Addrs : \A f \in Kept(a) :
         LET h == m_fd_info[f][2]
         IN /\ m_fd_info[f][1] = a
            /\ epoll[f] = MonitorHandler(h) /\ monitor.fd[h] = f
            /\ h \notin Range(monitor.free)

\* Handling one event of a batch does not take away the handler of a later one: each
\* event still to be handled is for the handler registered for its descriptor.
NoStaleEvent == \A e \in batch : e.handler.kind = "pipe" \/ epoll[e.fd] = e.handler

\* What a task will read is an answer to its own request.  The code only logs a wrong
\* serial number (line 781): it relies on never keeping a connection with an answer due.
OwnResponses ==
  at # "gone" =>
    \A f \in Open : \A r \in Range(conn[f].asked \o conn[f].inbox) :
      \E t \in Active : task[t].fd = f /\ task[t].state = "RECV" /\ task[t].call = r.call

\* A call is answered once, and with its own answer.
CallsAreAnswered == CalledBackOnce /\ OwnResponses

\* Tasks, connections, handlers and places in the heap, all of them recycled, have one
\* owner each, and no pointer outlives its owner.
ResourcesAreOwned ==
  /\ TypeOK /\ PooledTasksAreFree /\ FrontIsEarliest
  /\ ConnectionsOwnedOnce /\ NoStaleEvent

\* Calls accepted are called back, all of them, if the client is not stopped: no call
\* waits for ever for a server, for a place among MaxConcurrent, or for a byte in the
\* pipe.
Pending == {c \in Calls : call[c] = "accepted"}
EveryCallEnds == Pending # {} ~> (Pending = {} \/ m_exit)
================================================================================
