----------------------------- MODULE TimerManager -----------------------------
(****************************************************************************)
(* common/system/timer/timer_manager (.h, .cc): a map of timers, a priority *)
(* queue of timeouts, and one thread that sleeps until the earliest timeout *)
(* and runs the callbacks that are due.  Every method holds m_mutex for its *)
(* whole body, after an assert(!IsStoped()) made before the lock is taken,  *)
(* so a call is two steps: the assertion, and the body.  Callbacks run      *)
(* unlocked in the timer thread and may call the methods themselves.        *)
(*                                                                          *)
(* The queue holds outdated timeouts too; two equal timeouts are two, and   *)
(* fire twice.  Timeouts of equal time leave it in either order.            *)
(* revision counts every change of a timer; the code keeps it in a uint8_t, *)
(* so two revisions are compared modulo RevMod.  Closures are given to the  *)
(* manager once and deleted by it; freed is what it has deleted.            *)
(****************************************************************************)
EXTENDS Integers, FiniteSets

CONSTANTS
  Callers,      \* threads other than the timer thread that call the methods
  TimerThread,
  Closures,
  NULL,
  Intervals,    \* the intervals callers ask for, in ms
  Operations,   \* the methods callers use
  RevMod,       \* 256: values of a uint8_t
  IntMod,       \* 2^32: values of an int
  MaxTimers, MaxTime, MaxRevision, MaxTimeouts   \* bounds of the model

Ids == 1..MaxTimers

ASSUME TimerConstants ==
  /\ TimerThread \notin Callers
  /\ NULL \notin Closures
  /\ Intervals \subseteq Nat
  /\ RevMod \in Nat \ {0}
  /\ IntMod \in Nat \ {0}
  /\ MaxTimers \in Nat /\ MaxTime \in Nat /\ MaxRevision \in Nat /\ MaxTimeouts \in Nat

VARIABLES
  now,
  m_timers,          \* timer id -> TimerEntry
  m_timeouts,        \* Timeout -> how often it is in the queue
  m_running_timer,   \* 0: none
  m_bStopRequested,
  last_id,           \* the counter of NewTimerId
  pc,                \* where the timer thread is
  deadline,          \* when its TimedWait ends
  entry, timeout,    \* its copies of what it runs
  call,              \* what each caller is doing
  stop,              \* how far Stop has got
  given, freed,      \* closures handed over, closures deleted
  removed            \* ids whose synchronous removal returned

thread == <<pc, deadline, entry, timeout>>
vars == <<now, m_timers, m_timeouts, m_running_timer, m_bStopRequested, last_id,
          thread, call, stop, given, freed, removed>>

NoEntry ==
  [closure |-> NULL, interval |-> 0, is_enabled |-> FALSE, is_period |-> FALSE,
   revision |-> 0]
NoTimeout == [time |-> 0, timer_id |-> 0, revision |-> 0]

Timeouts == DOMAIN m_timeouts
NoTimeouts == [t \in {} |-> 0]
SameRevision(r, s) == r % RevMod = s % RevMod

Delete(closure) == freed' = freed \cup ({closure} \ {NULL})

--------------------------------------------------------------------------------
(* Scheduling *)

\* Signal wakes the timer thread if it waits.
Signal == pc' = IF pc \in {"wait", "timedwait"} THEN "dispatch" ELSE pc

\* m_timeouts.push and pop
Push(t) ==
  m_timeouts' = IF t \in Timeouts
                  THEN [m_timeouts EXCEPT ![t] = @ + 1]
                  ELSE [u \in Timeouts \cup {t} |-> IF u = t THEN 1 ELSE m_timeouts[u]]
Pop(t) ==
  m_timeouts' = IF m_timeouts[t] > 1
                  THEN [m_timeouts EXCEPT ![t] = @ - 1]
                  ELSE [u \in Timeouts \ {t} |-> m_timeouts[u]]

PushNextTimeout(id, interval, revision) ==
  Push([time |-> now + interval, timer_id |-> id, revision |-> revision])

\* Variant: the timer thread is not woken for an earlier timeout.
SetNextTimeoutSilently(by, id, interval, revision) ==
  PushNextTimeout(id, interval, revision) /\ UNCHANGED pc

\* The timer thread is woken only for a timeout earlier than all the others; it
\* need not wake itself.
SetNextTimeout(by, id, interval, revision) ==
  /\ PushNextTimeout(id, interval, revision)
  /\ IF by # TimerThread /\ \A t \in Timeouts : now + interval < t.time
       THEN Signal
       ELSE UNCHANGED pc

--------------------------------------------------------------------------------
(* The methods *)

IsStoped == stop \in {"clearing", "stopped"}

\* assert(!IsStoped()), before the lock
EnterCall(c) ==
  /\ call[c] = "idle"
  /\ ~IsStoped
  /\ call' = [call EXCEPT ![c] = "checked"]
  /\ UNCHANGED <<now, m_timers, m_timeouts, m_running_timer, m_bStopRequested, last_id,
                 thread, stop, given, freed, removed>>

\* A caller past the assertion, or the callback that runs, executes method op.
Calls(by, op) ==
  /\ op \in Operations
  /\ IF by = TimerThread
       THEN pc = "callback" /\ ~IsStoped /\ UNCHANGED call
       ELSE call[by] = "checked" /\ call' = [call EXCEPT ![by] = "idle"]
  /\ UNCHANGED <<now, m_running_timer, m_bStopRequested, deadline, entry, timeout, stop>>

HasRoom ==
  Cardinality({x \in Timeouts \X (1..MaxTimeouts) : x[2] <= m_timeouts[x[1]]}) < MaxTimeouts

AddTimer(by, interval, is_period) ==
  /\ Calls(by, "AddTimer")
  /\ last_id < MaxTimers
  /\ HasRoom
  /\ last_id' = last_id + 1
  /\ \E c \in Closures \ given :
       /\ given' = given \cup {c}
       /\ m_timers' = [id \in DOMAIN m_timers \cup {last_id'} |->
            IF id = last_id'
              THEN [closure |-> c, interval |-> interval, is_enabled |-> TRUE,
                    is_period |-> is_period, revision |-> 0]
              ELSE m_timers[id]]
  /\ SetNextTimeout(by, last_id', interval, 0)
  /\ UNCHANGED <<freed, removed>>

WithoutTimer(id) == [i \in DOMAIN m_timers \ {id} |-> m_timers[i]]

\* Deletes the closure in the map; the timeouts stay in the queue.
AsyncRemoveTimerInLock(id) ==
  /\ m_timers' = WithoutTimer(id)
  /\ IF id \in DOMAIN m_timers THEN Delete(m_timers[id].closure) ELSE UNCHANGED freed
  /\ UNCHANGED <<m_timeouts, last_id, pc, given>>

AsyncRemoveTimer(by, id) ==
  /\ Calls(by, "AsyncRemoveTimer")
  /\ AsyncRemoveTimerInLock(id)
  /\ UNCHANGED removed

\* In the timer thread RemoveTimer is AsyncRemoveTimer.  Another thread spins while
\* the timer runs, and is still at its "checked" step.
RemoveTimer(by, id) ==
  /\ Calls(by, "RemoveTimer")
  /\ by # TimerThread => m_running_timer # id
  /\ AsyncRemoveTimerInLock(id)
  /\ removed' = IF by = TimerThread THEN removed ELSE removed \cup {id}

\* Variant: the timer gets a new revision but no new timeout.
ModifyTimerUnscheduled(by, id, interval, closure) ==
  /\ Calls(by, "ModifyTimer")
  /\ id \in DOMAIN m_timers
  /\ closure = NULL
  /\ m_timers[id].revision < MaxRevision
  /\ m_timers' = [m_timers EXCEPT ![id].interval = interval, ![id].revision = @ + 1]
  /\ UNCHANGED <<m_timeouts, pc, given, freed, last_id, removed>>

\* ModifyTimer and its overload: closure is NULL where none is passed.
ModifyTimer(by, id, interval, closure) ==
  /\ Calls(by, "ModifyTimer")
  /\ id \in DOMAIN m_timers
  /\ m_timers[id].revision < MaxRevision
  /\ HasRoom
  /\ LET old == m_timers[id]
         new == [old EXCEPT !.interval = interval, !.revision = @ + 1,
                            !.closure = IF closure = NULL THEN @ ELSE closure]
     IN  /\ m_timers' = [m_timers EXCEPT ![id] = new]
         /\ IF closure # NULL
              THEN given' = given \cup {closure} /\ Delete(old.closure)
              ELSE UNCHANGED <<given, freed>>
         /\ IF old.is_enabled
              THEN SetNextTimeout(by, id, interval, new.revision)
              ELSE UNCHANGED <<m_timeouts, pc>>
  /\ UNCHANGED <<last_id, removed>>

DisableTimer(by, id) ==
  /\ Calls(by, "DisableTimer")
  /\ id \in DOMAIN m_timers
  /\ m_timers[id].revision < MaxRevision
  /\ m_timers' = [m_timers EXCEPT ![id].is_enabled = FALSE, ![id].revision = @ + 1]
  /\ UNCHANGED <<m_timeouts, last_id, pc, given, freed, removed>>

\* The revision stays: a timer that was enabled gets a second timeout.
EnableTimer(by, id) ==
  /\ Calls(by, "EnableTimer")
  /\ id \in DOMAIN m_timers
  /\ HasRoom
  /\ m_timers' = [m_timers EXCEPT ![id].is_enabled = TRUE]
  /\ SetNextTimeout(by, id, m_timers[id].interval, m_timers[id].revision)
  /\ UNCHANGED <<last_id, given, freed, removed>>

\* FindEntry finds nothing: the method returns false.
UnknownTimer(by, id) ==
  /\ \E op \in {"ModifyTimer", "DisableTimer", "EnableTimer"} : Calls(by, op)
  /\ id \notin DOMAIN m_timers
  /\ UNCHANGED <<m_timers, m_timeouts, last_id, pc, given, freed, removed>>

ClearInLock ==
  /\ m_timeouts' = NoTimeouts
  /\ m_timers' = [id \in {} |-> NoEntry]
  /\ freed' = freed \cup ({m_timers[id].closure : id \in DOMAIN m_timers} \ {NULL})

\* Clear is public and asserts nothing; a caller is counted as past an assertion.
Clear(by) ==
  /\ Calls(by, "Clear")
  /\ ClearInLock
  /\ UNCHANGED <<last_id, pc, given, removed>>

--------------------------------------------------------------------------------
(* The timer thread *)

\* static_cast<int> of a relative time: a large one wraps, and may turn negative.
IntWait(ms) ==
  IF ms % IntMod < IntMod \div 2 THEN ms % IntMod ELSE (ms % IntMod) - IntMod

\* TimedWait(&m_mutex, ms).  A negative ms becomes a time in the past, or, by the sign
\* that % leaves in tv_nsec, no time at all: pthread_cond_timedwait refuses that one
\* and the process aborts.
TimedWait(ms) ==
  \/ pc' = "timedwait" /\ deadline' = now + IF ms < 0 THEN 0 ELSE ms
  \/ ms < 0 /\ pc' = "aborted" /\ UNCHANGED deadline

\* The top of Entry's loop: leave, or wait for the earliest timeout.
EntryLoop ==
  /\ pc = "entry"
  /\ \/ m_bStopRequested /\ pc' = "exited" /\ UNCHANGED deadline
     \/ ~m_bStopRequested /\ Timeouts = {} /\ pc' = "wait" /\ UNCHANGED deadline
     \/ /\ ~m_bStopRequested
        /\ \E top \in Timeouts :
             /\ \A t \in Timeouts : top.time <= t.time
             /\ TimedWait(IF top.time < now THEN 0 ELSE IntWait(top.time - now))
  /\ UNCHANGED <<now, m_timers, m_timeouts, m_running_timer, m_bStopRequested, last_id,
                 entry, timeout, call, stop, given, freed, removed>>

\* TimedWait ends at its deadline; either wait may end unsignalled.
WaitTimesOut == pc = "timedwait" /\ deadline <= now /\ pc' = "dispatch"
SpuriousWakeup == pc \in {"wait", "timedwait"} /\ pc' = "dispatch"

WaitReturns ==
  /\ WaitTimesOut \/ SpuriousWakeup
  /\ UNCHANGED <<now, m_timers, m_timeouts, m_running_timer, m_bStopRequested, last_id,
                 deadline, entry, timeout, call, stop, given, freed, removed>>

IsLive(t) ==
  /\ t.timer_id \in DOMAIN m_timers
  /\ m_timers[t.timer_id].is_enabled
  /\ SameRevision(t.revision, m_timers[t.timer_id].revision)

\* Variant: a period timer's closure stays in the map while it runs.
DequeueLeavesClosure ==
  /\ pc = "dispatch"
  /\ \/ /\ \A t \in Timeouts : t.time > now
        /\ pc' = "entry"
        /\ UNCHANGED <<m_timers, m_timeouts, m_running_timer, entry, timeout>>
     \/ \E t \in Timeouts :
          /\ t.time <= now
          /\ Pop(t)
          /\ IsLive(t)
          /\ timeout' = t
          /\ entry' = m_timers[t.timer_id]
          /\ m_timers' = IF entry'.is_period THEN m_timers ELSE WithoutTimer(t.timer_id)
          /\ m_running_timer' = t.timer_id
          /\ pc' = "callback"
  /\ UNCHANGED <<now, m_bStopRequested, last_id, deadline, call, stop, given, freed, removed>>

\* One turn of DequeueTimeoutEntry's loop: nothing is due, an outdated timeout is
\* dropped, or a timer starts to run.  A period timer's closure moves into entry.
DequeueTimeoutEntry ==
  /\ pc = "dispatch"
  /\ \/ /\ \A t \in Timeouts : t.time > now
        /\ pc' = "entry"
        /\ UNCHANGED <<m_timers, m_timeouts, m_running_timer, entry, timeout>>
     \/ \E t \in Timeouts :
          /\ t.time <= now
          /\ \A u \in Timeouts : t.time <= u.time
          /\ Pop(t)
          /\ \/ ~IsLive(t) /\ UNCHANGED <<m_timers, m_running_timer, pc, entry, timeout>>
             \/ /\ IsLive(t)
                /\ timeout' = t
                /\ entry' = m_timers[t.timer_id]
                /\ m_timers' = IF entry'.is_period
                                 THEN [m_timers EXCEPT ![t.timer_id].closure = NULL]
                                 ELSE WithoutTimer(t.timer_id)
                /\ m_running_timer' = t.timer_id
                /\ pc' = "callback"
  /\ UNCHANGED <<now, m_bStopRequested, last_id, deadline, call, stop, given, freed, removed>>

\* The callback returned.  A one-shot closure has deleted itself; the closure of a
\* period timer goes back into the map unless it was replaced or removed, and the
\* timer's next timeout is set.
DispatchAfterRun ==
  /\ pc = "callback"
  /\ m_running_timer' = 0
  /\ entry' = NoEntry
  /\ timeout' = NoTimeout
  /\ pc' = "dispatch"
  /\ LET id == m_running_timer
         present == entry.is_period /\ id \in DOMAIN m_timers
         restore == present /\ m_timers[id].closure = NULL
     IN  /\ m_timers' = IF restore THEN [m_timers EXCEPT ![id].closure = entry.closure]
                                   ELSE m_timers
         /\ IF restore \/ (present /\ m_timers[id].closure = entry.closure)
              THEN UNCHANGED freed
              ELSE Delete(entry.closure)
         /\ IF present /\ m_timers[id].is_enabled
              THEN PushNextTimeout(id, m_timers[id].interval, m_timers[id].revision)
              ELSE UNCHANGED m_timeouts
  /\ UNCHANGED <<now, m_bStopRequested, last_id, deadline, call, stop, given, removed>>

--------------------------------------------------------------------------------
(* Stop, by one thread; time *)

StopRequest ==
  /\ stop = "running"
  /\ "Stop" \in Operations
  /\ stop' = "joining"
  /\ m_bStopRequested' = TRUE
  /\ Signal
  /\ UNCHANGED <<now, m_timers, m_timeouts, m_running_timer, last_id, deadline, entry,
                 timeout, call, given, freed, removed>>

\* Join resets the thread id: from here on IsStoped() holds.
StopJoin ==
  /\ stop = "joining"
  /\ pc = "exited"
  /\ stop' = "clearing"
  /\ UNCHANGED <<now, m_timers, m_timeouts, m_running_timer, m_bStopRequested, last_id,
                 thread, call, given, freed, removed>>

StopClear ==
  /\ stop = "clearing"
  /\ stop' = "stopped"
  /\ ClearInLock
  /\ UNCHANGED <<now, m_running_timer, m_bStopRequested, last_id, thread, call, given,
                 removed>>

Tick ==
  /\ now < MaxTime
  /\ now' = now + 1
  /\ UNCHANGED <<m_timers, m_timeouts, m_running_timer, m_bStopRequested, last_id, thread,
                 call, stop, given, freed, removed>>

--------------------------------------------------------------------------------
Init ==
  /\ now = 0
  /\ m_timers = [id \in {} |-> NoEntry]
  /\ m_timeouts = NoTimeouts
  /\ m_running_timer = 0
  /\ m_bStopRequested = FALSE
  /\ last_id = 0
  /\ pc = "entry"
  /\ deadline = 0
  /\ entry = NoEntry
  /\ timeout = NoTimeout
  /\ call = [c \in Callers |-> "idle"]
  /\ stop = "running"
  /\ given = {}
  /\ freed = {}
  /\ removed = {}

Method(by) ==
  \/ \E i \in Intervals, p \in BOOLEAN : AddTimer(by, i, p)
  \/ \E id \in 1..last_id :
       \/ AsyncRemoveTimer(by, id)
       \/ RemoveTimer(by, id)
       \/ \E i \in Intervals : \E c \in {NULL} \cup (Closures \ given) :
            ModifyTimer(by, id, i, c)
       \/ DisableTimer(by, id)
       \/ EnableTimer(by, id)
       \/ UnknownTimer(by, id)
  \/ Clear(by)

TimerThreadStep == EntryLoop \/ WaitReturns \/ DequeueTimeoutEntry \/ DispatchAfterRun

Next ==
  /\ pc # "aborted"
  /\ \/ \E c \in Callers : EnterCall(c) \/ Method(c)
     \/ Method(TimerThread)
     \/ TimerThreadStep
     \/ StopRequest \/ StopJoin \/ StopClear
     \/ Tick

Spec == Init /\ [][Next]_vars

\* Time passes, the timer thread runs whenever it can, callbacks return, and the
\* thread in Stop goes on.  Nothing makes callers call, or waits end unsignalled.
FairSpec ==
  /\ Spec
  /\ WF_vars(pc # "aborted" /\ Tick)
  /\ WF_vars(EntryLoop)
  /\ WF_vars(WaitTimesOut /\ WaitReturns)
  /\ WF_vars(DequeueTimeoutEntry)
  /\ WF_vars(DispatchAfterRun)
  /\ WF_vars(StopJoin \/ StopClear)

--------------------------------------------------------------------------------
(* Properties *)

Entries ==
  [closure : Closures \cup {NULL}, interval : Nat, is_enabled : BOOLEAN,
   is_period : BOOLEAN, revision : Nat]
TimeoutRecords == [time : Nat, timer_id : Nat, revision : Nat]

\* The map, the queue and the thread's copies have their types, and ids are those
\* NewTimerId has handed out.
TypeOK ==
  /\ now \in Nat
  /\ last_id \in Nat
  /\ DOMAIN m_timers \subseteq 1..last_id
  /\ \A id \in DOMAIN m_timers : m_timers[id] \in Entries
  /\ m_timeouts \in [Timeouts -> Nat \ {0}]
  /\ \A t \in Timeouts : t \in TimeoutRecords /\ t.timer_id \in 1..last_id
  /\ m_running_timer \in 0..last_id
  /\ m_bStopRequested \in BOOLEAN
  /\ pc \in {"entry", "wait", "timedwait", "dispatch", "callback", "exited", "aborted"}
  /\ deadline \in Nat
  /\ entry \in Entries
  /\ timeout \in TimeoutRecords
  /\ call \in [Callers -> {"idle", "checked"}]
  /\ stop \in {"running", "joining", "clearing", "stopped"}
  /\ given \subseteq Closures
  /\ freed \subseteq Closures
  /\ removed \subseteq 1..last_id

\* SetNextTimeout signals only for a timeout that is earlier than all others, yet
\* the timer thread never sleeps past a timeout in the queue, whoever pushed it and
\* whatever the cast to int made of the wait; nor does it sleep through Stop.
NoOversleep ==
  /\ pc = "wait" => Timeouts = {}
  /\ pc = "timedwait" => deadline <= now \/ \A t \in Timeouts : deadline <= t.time
  /\ pc \in {"wait", "timedwait"} => ~m_bStopRequested

\* An enabled timer that does not run just now has a timeout of its own revision
\* in the queue: Modify, Disable, Enable and the end of its callback, in any
\* interleaving, never leave it enabled and forgotten.
EnabledIsScheduled ==
  \A id \in DOMAIN m_timers :
    m_timers[id].is_enabled /\ id # m_running_timer =>
      \E t \in Timeouts : t.timer_id = id /\ t.revision = m_timers[id].revision

MapClosures == {m_timers[id].closure : id \in DOMAIN m_timers} \ {NULL}
RunningClosure == {entry.closure} \ {NULL}

\* Every closure handed over is in the map, with the callback that runs, or deleted,
\* and in one of these only: none leaks, none is deleted twice, and none is deleted
\* while it runs, although Modify, Remove and Clear may hit a running timer.
ClosureOwnership ==
  /\ given = MapClosures \cup RunningClosure \cup freed
  /\ freed \cap (MapClosures \cup RunningClosure) = {}
  /\ MapClosures \cap RunningClosure = {}
  /\ \A i, j \in DOMAIN m_timers :
       i # j /\ m_timers[i].closure # NULL => m_timers[i].closure # m_timers[j].closure
  /\ \A id \in DOMAIN m_timers : m_timers[id].closure = NULL => id = m_running_timer

\* "remove a timer synchronous, if timer is running, wait for complete": once
\* RemoveTimer has returned to another thread, the callback neither runs nor is
\* ever run again, whatever timeouts of the timer are still in the queue.
RemoveIsSynchronous ==
  \A id \in removed : id \notin DOMAIN m_timers /\ m_running_timer # id

\* "timer revision, old revisions will be discarded" (timer_manager.h:108), as far as
\* the uint8_t goes: a timer runs from an old timeout only if it was changed at least
\* RevMod times while that timeout was in the queue.
OldAreDiscardedUntilWrap ==
  m_running_timer # 0 =>
    timeout.revision = entry.revision \/ timeout.revision + RevMod <= entry.revision

\* What is enabled is scheduled with its present revision, also when revisions come
\* round, the thread wakes up in time for it, and an old timeout runs it only after a
\* full round of changes.
TimersAreScheduled ==
  TypeOK /\ NoOversleep /\ EnabledIsScheduled /\ OldAreDiscardedUntilWrap

\* A callback belongs to the map or to the thread that runs it, is deleted once, and is
\* over when RemoveTimer returns.
CallbacksAreOwned == ClosureOwnership /\ RemoveIsSynchronous

\* "stop the timer dispatch thread and clear all timers" (timer_manager.h:80): Stop
\* returns.
StopTerminates == stop = "joining" ~> stop = "stopped"

DueBy(id, time) ==
  \E t \in Timeouts : t.timer_id = id /\ t.time <= time /\ IsLive(t)

\* A timer whose timeout is reached runs, unless it is modified, disabled, removed
\* or cleared first, or the manager is stopped.  The process does not abort meanwhile:
\* MaxTime is less than an int holds, and the wait is for the earliest timeout.
DueTimersRun ==
  \A id \in Ids :
    DueBy(id, MaxTime) ~> m_running_timer = id \/ ~DueBy(id, MaxTime) \/ pc = "exited"

\* The dispatch thread makes progress: due timers run, and Stop returns.
DispatchGoesOn == DueTimersRun /\ StopTerminates
================================================================================
