----------------------------- MODULE ThreadWorker -----------------------------
(****************************************************************************)
(* common/system/concurrency/threadworker.cc: one detached thread that runs *)
(* closures in the order they were pushed.  push_task_spin_lock_ guards     *)
(* push_task_ and shutdown_; mutex_ is held by Start from end to end and by *)
(* Stop except while it waits.  The event descriptor exists only from the   *)
(* middle of Start to the end of Stop, and a push writes to it after it has *)
(* released the spin lock.                                                  *)
(*                                                                          *)
(* RunTask reads push_task_ outside the lock.  Only the worker assigns that *)
(* pointer, and a push that comes before the locked assignment goes to the  *)
(* vector that is about to be run, so the exchange is one step here.        *)
(****************************************************************************)
EXTENDS Naturals, Sequences

CONSTANTS
  Controllers,   \* threads that call Start and Stop
  Tasks

VARIABLES
  running, shutdown,
  push_task, run_task,
  eventfd,       \* "none" (-1), "open", or "closed" under its old number
  event,         \* the counter of the descriptor is not zero
  worker,        \* where the thread is
  at,            \* where each controller is
  notifying,     \* tasks whose PushTask has yet to write to the descriptor
  accepted,      \* the tasks PushTask took, in the order it took them
  done,          \* the tasks run, in the order they ran
  missed,        \* what was written for a task still queued is lost
  failed         \* a system call has failed

flags == <<running, shutdown>>
tasks == <<push_task, run_task, accepted, done>>
fd == <<eventfd, event>>
vars == <<flags, tasks, fd, worker, at, notifying, missed, failed>>

Free == \A c \in Controllers : at[c] \in {"idle", "stop_wait"}    \* mutex_
Goto(c, place) == at' = [at EXCEPT ![c] = place]
Elements(s) == {s[i] : i \in 1..Len(s)}

--------------------------------------------------------------------------------
(* PushTask *)

NewTaskNotify == event' = (event \/ eventfd = "open")

\* Variant: no write while the thread still runs tasks
PushTaskWhileBusy(t) ==
  \/ /\ running /\ ~shutdown
     /\ t \notin Elements(accepted)
     /\ push_task' = Append(push_task, t)
     /\ accepted' = Append(accepted, t)
     /\ notifying' = IF push_task = <<>> /\ run_task = <<>> THEN notifying \cup {t} ELSE notifying
     /\ UNCHANGED <<flags, run_task, done, fd, worker, at, missed, failed>>
  \/ /\ ~running \/ shutdown
     /\ UNCHANGED vars

\* Variant: shutdown_ is not tested
PushTaskUntilStopped(t) ==
  /\ running
  /\ t \notin Elements(accepted)
  /\ push_task' = Append(push_task, t)
  /\ accepted' = Append(accepted, t)
  /\ notifying' = IF push_task = <<>> THEN notifying \cup {t} ELSE notifying
  /\ UNCHANGED <<flags, run_task, done, fd, worker, at, missed, failed>>

PushTask(t) ==
  \/ /\ running /\ ~shutdown
     /\ t \notin Elements(accepted)
     /\ push_task' = Append(push_task, t)
     /\ accepted' = Append(accepted, t)
     /\ notifying' = IF push_task = <<>> THEN notifying \cup {t} ELSE notifying
     /\ UNCHANGED <<flags, run_task, done, fd, worker, at, missed, failed>>
  \/ /\ ~running \/ shutdown
     /\ UNCHANGED vars

PushNotify(t) ==
  /\ t \in notifying
  /\ notifying' = notifying \ {t}
  /\ NewTaskNotify
  /\ missed' = (missed \/ (eventfd # "open" /\ t \in Elements(push_task)))
  /\ UNCHANGED <<flags, tasks, eventfd, worker, at, failed>>

\* An event not yet read goes with its descriptor.
LoseEvent ==
  /\ event' = FALSE
  /\ missed' = (missed \/ (event /\ push_task # <<>>))

--------------------------------------------------------------------------------
(* Start: mutex_ held throughout, three steps that others see *)

StartBegin(c) ==
  /\ Free
  /\ at[c] = "idle"
  /\ ~running
  /\ push_task = <<>> /\ shutdown      \* the two CHECKs
  /\ running' = TRUE
  /\ shutdown' = FALSE
  /\ Goto(c, "start")
  /\ UNCHANGED <<tasks, fd, worker, notifying, missed, failed>>

StartOpens(c) ==
  /\ at[c] = "start"
  /\ eventfd' = "open"
  /\ LoseEvent
  /\ Goto(c, "create")
  /\ UNCHANGED <<flags, tasks, worker, notifying, failed>>

StartThread(c) ==
  /\ at[c] = "create"
  /\ worker' = "wait"
  /\ Goto(c, "idle")
  /\ UNCHANGED <<flags, tasks, fd, notifying, missed, failed>>

\* epoll_create or pthread_create fails; or eventfd; or fcntl or epoll_ctl, after
\* which the descriptor is closed and its number kept.  running_ stays true.
StartFails(c) ==
  /\ failed' = TRUE
  /\ Goto(c, "idle")
  /\ \/ at[c] \in {"start", "create"} /\ UNCHANGED <<fd, missed>>
     \/ at[c] = "start" /\ eventfd' = "none" /\ LoseEvent
     \/ at[c] = "create" /\ eventfd' = "closed" /\ LoseEvent
  /\ UNCHANGED <<flags, tasks, worker, notifying>>

--------------------------------------------------------------------------------
(* Stop *)

StopRequest(c) ==
  /\ Free
  /\ at[c] = "idle"
  /\ running
  /\ shutdown' = TRUE
  /\ Goto(c, "stop")
  /\ UNCHANGED <<running, tasks, fd, worker, notifying, missed, failed>>

\* Variant: no write
StopNotifySilent(c) ==
  /\ at[c] = "stop"
  /\ Goto(c, "stop_wait")
  /\ UNCHANGED <<flags, tasks, fd, worker, notifying, missed, failed>>

StopNotify(c) ==
  /\ at[c] = "stop"
  /\ NewTaskNotify
  /\ Goto(c, "stop_wait")
  /\ UNCHANGED <<flags, tasks, eventfd, worker, notifying, missed, failed>>

\* The end of "while (running_) wait".  A waiter slept with running_ true, and the
\* broadcast that follows running_ = false wakes it: it needs only the mutex.
StopEnd(c) ==
  /\ Free
  /\ at[c] = "stop_wait"
  /\ ~running
  /\ eventfd' = "none"
  /\ LoseEvent
  /\ Goto(c, "idle")
  /\ UNCHANGED <<flags, tasks, worker, notifying, failed>>

--------------------------------------------------------------------------------
(* The thread *)

\* epoll_wait reports the event, read takes it.
WaitEvent ==
  /\ worker = "wait"
  /\ event
  /\ event' = FALSE
  /\ worker' = "take"
  /\ UNCHANGED <<flags, tasks, eventfd, at, notifying, missed, failed>>

\* epoll_wait or read fails: the loop is left, whatever is queued.
WaitFails ==
  /\ failed' = TRUE
  /\ worker = "wait"
  /\ worker' = "leave"
  /\ UNCHANGED <<flags, tasks, fd, at, notifying, missed>>

\* RunTask exchanges the vectors; "take_last" is the second one, after shutdown_.
TakeTasks ==
  /\ worker \in {"take", "take_last"}
  /\ run_task' = push_task
  /\ push_task' = run_task
  /\ worker' = IF worker = "take" THEN "run" ELSE "run_last"
  /\ missed' = FALSE
  /\ UNCHANGED <<flags, accepted, done, fd, at, notifying, failed>>

RunTask ==
  /\ worker \in {"run", "run_last"}
  /\ run_task # <<>>
  /\ done' = Append(done, Head(run_task))
  /\ run_task' = Tail(run_task)
  /\ UNCHANGED <<flags, push_task, accepted, fd, worker, at, notifying, missed, failed>>

\* All are run: shutdown_ is read, without the lock.
AfterTasks ==
  /\ worker \in {"run", "run_last"}
  /\ run_task = <<>>
  /\ worker' = IF worker = "run_last" THEN "leave"
               ELSE IF shutdown THEN "take_last" ELSE "wait"
  /\ UNCHANGED <<flags, tasks, fd, at, notifying, missed, failed>>

Leave ==
  /\ Free
  /\ worker = "leave"
  /\ running' = FALSE
  /\ worker' = "none"
  /\ UNCHANGED <<shutdown, tasks, fd, at, notifying, missed, failed>>

--------------------------------------------------------------------------------
Init ==
  /\ running = FALSE /\ shutdown = TRUE
  /\ push_task = <<>> /\ run_task = <<>>
  /\ eventfd = "none" /\ event = FALSE
  /\ worker = "none"
  /\ at = [c \in Controllers |-> "idle"]
  /\ notifying = {}
  /\ accepted = <<>> /\ done = <<>>
  /\ missed = FALSE /\ failed = FALSE

Run == WaitEvent \/ TakeTasks \/ RunTask \/ AfterTasks \/ Leave
Resume(c) == StartOpens(c) \/ StartThread(c) \/ StopNotify(c) \/ StopEnd(c)

Next ==
  \/ \E t \in Tasks : PushTask(t) \/ PushNotify(t)
  \/ \E c \in Controllers : StartBegin(c) \/ StartFails(c) \/ StopRequest(c) \/ Resume(c)
  \/ Run
  \/ WaitFails

Spec == Init /\ [][Next]_vars

\* A call once begun goes on, and so does the thread.
FairSpec ==
  /\ Spec
  /\ WF_vars(Run)
  /\ \A t \in Tasks : WF_vars(PushNotify(t))
  /\ \A c \in Controllers : WF_vars(Resume(c))

--------------------------------------------------------------------------------
(* Properties *)

Places == {"none", "wait", "take", "take_last", "run", "run_last", "leave"}

\* The fields of the worker, its thread and its controllers have their types.
TypeOK ==
  /\ running \in BOOLEAN /\ shutdown \in BOOLEAN
  /\ eventfd \in {"none", "open", "closed"}
  /\ event \in BOOLEAN /\ missed \in BOOLEAN /\ failed \in BOOLEAN
  /\ worker \in Places
  /\ at \in [Controllers -> {"idle", "start", "create", "stop", "stop_wait"}]
  /\ notifying \subseteq Tasks
  /\ push_task \in Seq(Tasks) /\ run_task \in Seq(Tasks)
  /\ accepted \in Seq(Tasks) /\ done \in Seq(Tasks)

\* The tasks accepted are those done, then those being run, then those pushed: each
\* runs once and in the order of PushTask, as TestSequence checks.
TasksInOrder == done \o run_task \o push_task = accepted

\* When the thread is gone, and so when Stop returns, every accepted task has run, and
\* the two CHECKs of the next Start (threadworker.cc:101-102) hold; but for an error in
\* the loop, which leaves with tasks queued and shutdown_ false.
StoppedMeansDrained == ~running /\ ~failed => done = accepted /\ shutdown

\* Queued tasks are announced: the event is set, a PushTask is about to set it, or the
\* thread is about to take them.  Only a write that found no descriptor, or one that
\* Start replaced (a PushTask that overlaps Start), leaves tasks queued until Stop.
QueuedIsAnnounced ==
  push_task # <<>> => event \/ notifying # {} \/ worker \in {"take", "take_last"} \/ missed

\* Tasks run once and in order, are announced while they are queued, and have all run
\* when the worker has stopped.
WorkerIsSound ==
  TypeOK /\ TasksInOrder /\ StoppedMeansDrained /\ QueuedIsAnnounced

\* Stop returns, unless another thread starts the worker again before it gets mutex_.
StopReturns ==
  \A c \in Controllers : at[c] = "stop" ~> at[c] = "idle" \/ ~shutdown \/ failed

\* Accepted tasks run without waiting for Stop, unless their announcement was missed.
AcceptedTasksRun ==
  \A t \in Tasks : t \in Elements(accepted) ~> (t \in Elements(done) \/ missed \/ failed)

\* The worker makes progress: Stop returns and tasks run.
WorkerGoesOn == StopReturns /\ AcceptedTasksRun

\* The worker is an executor: no task runs twice or unasked, none is accepted after
\* Stop has begun, and a Start whose CHECKs hold has found all earlier tasks done, also
\* after a failed system call.
AsExecutor == INSTANCE Executor
                WITH Tasks <- Tasks, open <- running /\ ~shutdown,
                     accepted <- Elements(accepted), done <- Elements(done)

ImplementsExecutor == AsExecutor!Spec
================================================================================
