------------------------------ MODULE ThreadPool ------------------------------
(****************************************************************************)
(* common/system/concurrency/threadpool.h.  Start, Stop and PushTask work   *)
(* under mutex_; so does a worker, but not when it leaves: it decrements    *)
(* worker_number_ and notifies all_worker_done_ without the mutex.  Hence   *)
(* the test "worker_number_ > 0" and the wait that follows it in Start and  *)
(* Stop are two steps here, with the mutex held from one to the next.  The  *)
(* other critical sections are single steps.                                *)
(*                                                                          *)
(* Threads are the threads Start creates (detached, never reused while they *)
(* run); Controllers call Start and Stop; anyone may push.  Tasks are       *)
(* closures that run once and end.                                          *)
(****************************************************************************)
EXTENDS Naturals, Sequences, FiniteSets

CONSTANTS
  Threads, Controllers, Tasks,
  Size

ASSUME PoolAssumption ==
  /\ IsFiniteSet(Threads)
  /\ Size \in Nat \ {0}

VARIABLES
  running,
  worker_number,
  task,          \* the queue task_
  worker,        \* what each thread of the pool is doing
  threads,       \* threads_: the threads whose Thread objects the pool keeps
  job,           \* the task it runs, as a set of at most one
  method, at,    \* what each controller is calling, and where it is in the loop
  accepted,      \* tasks PushTask took
  done           \* tasks that have run

pool == <<running, worker_number, task, threads>>
control == <<method, at>>
PoolVars == <<pool, worker, job, control, accepted, done>>

In(S) == {w \in Threads : worker[w] \in S}
Free == \A c \in Controllers : at[c] # "commit"    \* nobody holds mutex_ now

NotifyOne(S) == IF S = {} THEN {{}} ELSE {{x} : x \in S}

\* new_task_notify_ wakes the sleeping workers of W
Wake(W) == worker' = [w \in Threads |-> IF w \in W THEN "ready" ELSE worker[w]]

--------------------------------------------------------------------------------
(* PushTask *)

\* Variant: tasks are accepted as long as there are workers
PushTaskWhileWorkers(t) ==
  /\ Free
  /\ worker_number > 0
  /\ t \notin accepted
  /\ task' = Append(task, t)
  /\ accepted' = accepted \cup {t}
  /\ \E W \in NotifyOne(In({"sleep"})) : Wake(W)
  /\ UNCHANGED <<running, worker_number, threads, job, control, done>>

PushTask(t) ==
  /\ Free
  /\ \/ ~running /\ UNCHANGED PoolVars
     \/ /\ running
        /\ t \notin accepted
        /\ task' = Append(task, t)
        /\ accepted' = accepted \cup {t}
        /\ \E W \in NotifyOne(In({"sleep"})) : Wake(W)
        /\ UNCHANGED <<running, worker_number, threads, job, control, done>>

--------------------------------------------------------------------------------
(* A worker: Loop *)

\* Variant: continued = running(), whatever is left in the queue
TakeTaskStopsEarly(w) ==
  /\ Free
  /\ worker[w] = "ready"
  /\ \/ /\ task = <<>> /\ running
        /\ worker' = [worker EXCEPT ![w] = "sleep"]
        /\ UNCHANGED <<task, job>>
     \/ /\ task # <<>>
        /\ task' = Tail(task)
        /\ job' = [job EXCEPT ![w] = {Head(task)}]
        /\ worker' = [worker EXCEPT ![w] = IF running THEN "run" ELSE "run_last"]
     \/ /\ task = <<>> /\ ~running
        /\ worker' = [worker EXCEPT ![w] = "leave"]
        /\ UNCHANGED <<task, job>>
  /\ UNCHANGED <<running, worker_number, threads, control, accepted, done>>

\* Variant: tasks are taken only while running_
TakeTaskWhileRunning(w) ==
  /\ Free
  /\ worker[w] = "ready"
  /\ \/ /\ task = <<>>
        /\ worker' = [worker EXCEPT ![w] = IF running THEN "sleep" ELSE "leave"]
        /\ UNCHANGED <<task, job>>
     \/ /\ task # <<>> /\ running
        /\ task' = Tail(task)
        /\ job' = [job EXCEPT ![w] = {Head(task)}]
        /\ worker' = [worker EXCEPT ![w] = "run"]
  /\ UNCHANGED <<running, worker_number, threads, control, accepted, done>>

\* The critical section of the loop: wait, or take a task if there is one; whether
\* the loop goes on is decided here, before the task runs.
TakeTask(w) ==
  /\ Free
  /\ worker[w] = "ready"
  /\ \/ /\ task = <<>> /\ running
        /\ worker' = [worker EXCEPT ![w] = "sleep"]
        /\ UNCHANGED <<task, job>>
     \/ /\ task # <<>>
        /\ task' = Tail(task)
        /\ job' = [job EXCEPT ![w] = {Head(task)}]
        /\ worker' = [worker EXCEPT ![w] =
             IF running \/ Tail(task) # <<>> THEN "run" ELSE "run_last"]
     \/ /\ task = <<>> /\ ~running
        /\ worker' = [worker EXCEPT ![w] = "leave"]
        /\ UNCHANGED <<task, job>>
  /\ UNCHANGED <<running, worker_number, threads, control, accepted, done>>

RunTask(w) ==
  /\ worker[w] \in {"run", "run_last"}
  /\ done' = done \cup job[w]
  /\ job' = [job EXCEPT ![w] = {}]
  /\ worker' = [worker EXCEPT ![w] = IF @ = "run" THEN "ready" ELSE "leave"]
  /\ UNCHANGED <<pool, control, accepted>>

PoolSpuriousWakeup(w) ==
  /\ worker[w] = "sleep"
  /\ Wake({w})
  /\ UNCHANGED <<pool, job, control, accepted, done>>

\* AtomicDecrement, outside the mutex; the last worker has a Notify left to do.
DecrementWorkers(w) ==
  /\ worker[w] = "leave"
  /\ worker_number' = worker_number - 1
  /\ worker' = [worker EXCEPT ![w] = IF worker_number' = 0 THEN "notify" ELSE "exit"]
  /\ UNCHANGED <<running, task, threads, job, control, accepted, done>>

NotifyAllDone(w) ==
  /\ worker[w] = "notify"
  /\ worker' = [worker EXCEPT ![w] = "exit"]
  /\ \E W \in NotifyOne({c \in Controllers : at[c] = "wait"}) :
       at' = [c \in Controllers |-> IF c \in W THEN "woken" ELSE at[c]]
  /\ UNCHANGED <<pool, job, method, accepted, done>>

\* Back in BaseThread::StaticEntry, which writes to the Thread object and ends.
ExitThread(w) ==
  /\ worker[w] = "exit"
  /\ worker' = [worker EXCEPT ![w] = "none"]
  /\ UNCHANGED <<pool, job, control, accepted, done>>

--------------------------------------------------------------------------------
(* Start and Stop *)

Enter(c, m) == method' = [method EXCEPT ![c] = m]
Goto(c, place) == at' = [at EXCEPT ![c] = place]
Return(c) == method' = [method EXCEPT ![c] = "none"] /\ Goto(c, "idle")

\* CHECK(task_.empty()), then Size new threads; threads_.clear() deletes the Thread
\* objects of the former ones.
CreateWorkers(c) ==
  /\ running' = TRUE
  /\ worker_number' = Size
  /\ \E W \in SUBSET In({"none"}) :
       /\ Cardinality(W) = Size
       /\ threads' = W
       /\ Wake(W)
  /\ Return(c)
  /\ UNCHANGED task

\* The test of "while (worker_number_ > 0) wait", when it finds workers.
MustWait(c, m) ==
  /\ worker_number > 0
  /\ Enter(c, m)
  /\ Goto(c, "commit")

Start(c) ==
  /\ Free
  /\ \/ at[c] = "idle" /\ ~running
     \/ at[c] = "woken" /\ method[c] = "Start"
  /\ \/ MustWait(c, "Start") /\ UNCHANGED <<pool, worker>>
     \/ worker_number = 0 /\ CreateWorkers(c)
  /\ UNCHANGED <<job, accepted, done>>

Stop(c) ==
  /\ Free
  /\ at[c] = "idle"
  /\ running' = FALSE
  /\ IF running THEN Wake(In({"sleep"})) ELSE UNCHANGED worker
  /\ MustWait(c, "Stop") \/ (worker_number = 0 /\ Return(c))
  /\ UNCHANGED <<worker_number, task, threads, job, accepted, done>>

\* After a wait the controller has the mutex again.
StopAgain(c) ==
  /\ Free
  /\ at[c] = "woken"
  /\ method[c] = "Stop"
  /\ MustWait(c, "Stop") \/ (worker_number = 0 /\ Return(c))
  /\ UNCHANGED <<pool, worker, job, accepted, done>>

\* The wait itself: the controller sleeps and the mutex is released.
BeginWait(c) ==
  /\ at[c] = "commit"
  /\ Goto(c, "wait")
  /\ UNCHANGED <<pool, worker, job, method, accepted, done>>

SpuriousReturn(c) ==
  /\ at[c] = "wait"
  /\ Goto(c, "woken")
  /\ UNCHANGED <<pool, worker, job, method, accepted, done>>

--------------------------------------------------------------------------------
PoolInit ==
  /\ running = FALSE
  /\ worker_number = 0
  /\ task = <<>>
  /\ worker = [w \in Threads |-> "none"]
  /\ threads = {}
  /\ job = [w \in Threads |-> {}]
  /\ method = [c \in Controllers |-> "none"]
  /\ at = [c \in Controllers |-> "idle"]
  /\ accepted = {}
  /\ done = {}

Loop(w) ==
  TakeTask(w) \/ RunTask(w) \/ DecrementWorkers(w) \/ NotifyAllDone(w) \/ ExitThread(w)

Resume(c) == BeginWait(c) \/ StopAgain(c) \/ (at[c] = "woken" /\ Start(c))

PoolNext ==
  \/ \E t \in Tasks : PushTask(t)
  \/ \E w \in Threads : Loop(w) \/ PoolSpuriousWakeup(w)
  \/ \E c \in Controllers : Start(c) \/ Stop(c) \/ StopAgain(c) \/ BeginWait(c) \/ SpuriousReturn(c)

PoolSpec == PoolInit /\ [][PoolNext]_PoolVars

\* Threads that can run do; nobody need call.  A worker gets the mutex in the end,
\* although a controller that wakes up spuriously takes it again and again.
FairPoolSpec ==
  /\ PoolSpec
  /\ \A w \in Threads : SF_PoolVars(Loop(w))
  /\ \A c \in Controllers : WF_PoolVars(Resume(c))

--------------------------------------------------------------------------------
(* Properties *)

Places == {"none", "ready", "sleep", "run", "run_last", "leave", "notify", "exit"}

\* The pool, its workers and its tasks, and then what Start and Stop keep, have their types.
PoolTypes ==
  /\ running \in BOOLEAN
  /\ worker_number \in Nat
  /\ task \in Seq(Tasks)
  /\ worker \in [Threads -> Places]
  /\ job \in [Threads -> SUBSET Tasks]
  /\ accepted \in SUBSET Tasks
  /\ done \in SUBSET Tasks

CallTypes ==
  /\ threads \subseteq Threads
  /\ method \in [Controllers -> {"none", "Start", "Stop"}]
  /\ at \in [Controllers -> {"idle", "commit", "wait", "woken"}]

PoolTypeOK == PoolTypes /\ CallTypes

Queued == {task[i] : i \in 1..Len(task)}

\* Every task PushTask accepted is queued, in one worker's hands, or done, and in
\* one place only: none is lost or run twice across Stop and Start.
TasksRunOnce ==
  /\ accepted = Queued \cup done \cup UNION {job[w] : w \in Threads}
  /\ \A i, j \in 1..Len(task) : task[i] = task[j] => i = j
  /\ Queued \cap done = {}
  /\ \A w \in Threads : job[w] \cap (Queued \cup done) = {}
  /\ \A v, w \in Threads : v # w => job[v] \cap job[w] = {}

Alive == {"ready", "sleep", "run", "run_last", "leave"}

\* worker_number_ counts the workers that have not left, over all generations.
CountsWorkers == worker_number = Cardinality(In(Alive))

\* When the count is zero every accepted task has run: what a returned Stop promises,
\* and what CHECK(task_.empty()) in Start relies on.
ZeroWorkersMeansDrained == worker_number = 0 => done = accepted /\ ~running

\* A queued task does not wait for a worker that sleeps: each PushTask wakes one, and
\* a woken worker that finds its task taken leaves none behind.
NoTaskWaitsForASleeper ==
  In({"sleep"}) # {} => running /\ Len(task) <= Cardinality(In({"ready"}))

\* Tasks, the queue and the workers belong together, through any number of Starts and
\* Stops: each task is in one place, and there are workers awake for those queued.
PoolIsSound ==
  /\ PoolTypeOK /\ TasksRunOnce
  /\ CountsWorkers /\ ZeroWorkersMeansDrained /\ NoTaskWaitsForASleeper

\* Every accepted task runs, even if Stop comes first.
AcceptedTasksRun == \A t \in Tasks : t \in accepted ~> t \in done

\* "wait all worker done." (threadpool.h:93): a Stop, or a Start behind it, does not
\* go on waiting once the workers it waits for are done.
WaitEndsWithWorkers ==
  \A c \in Controllers : at[c] = "wait" /\ worker_number = 0 ~> at[c] # "wait"

\* The pool is an executor: no task runs twice or unasked, none is accepted after Stop
\* has begun, and a Start that returns has found all tasks of the earlier ones done.
AsExecutor == INSTANCE Executor
                WITH Tasks <- Tasks, open <- running, accepted <- accepted, done <- done

ImplementsExecutor == AsExecutor!Spec
================================================================================
