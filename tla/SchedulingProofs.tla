--------------------------- MODULE SchedulingProofs ---------------------------
(***************************************************************************)
(* What runs closures on threads of its own: ThreadPool at once,           *)
(* TimerManager when their time has come.                                  *)
(***************************************************************************)
EXTENDS ThreadPool, TimerManager, FiniteSetTheorems, TLAPS

\* Leaves are tried with Zenon, then SMT; a leaf that only SMT proves says so.
USE ZenonT(30), SMTT(60)

--------------------------------------------------------------------------------
(* TimerManager for any callers, closures, intervals and bounds.           *)
(*                                                                         *)
(* The argument turns on who holds a closure.  A period timer that runs    *)
(* leaves its entry in the map without the closure, a one-shot timer       *)
(* leaves nothing there; ids are never used again.  So an entry without a  *)
(* closure is always the running timer's, and when the callback returns    *)
(* the thread finds out from the map alone who deletes what it has run.    *)

(* The queue *)

\* m_timeouts.push(t) adds t to what is in the queue and takes nothing away.
LEMMA Pushes ==
  ASSUME m_timeouts \in [Timeouts -> Nat \ {0}], NEW t, Push(t)
  PROVE  m_timeouts' \in [Timeouts' -> Nat \ {0}] /\ Timeouts' = Timeouts \cup {t}
BY SMTT(60) DEF Push, Timeouts

\* m_timeouts.pop() takes one t away and leaves all the others.
LEMMA Pops ==
  ASSUME m_timeouts \in [Timeouts -> Nat \ {0}], NEW t \in Timeouts, Pop(t)
  PROVE  /\ m_timeouts' \in [Timeouts' -> Nat \ {0}]
         /\ Timeouts' \subseteq Timeouts
         /\ \A u \in Timeouts : u # t => u \in Timeouts'
BY SMTT(60) DEF Pop, Timeouts

\* An empty queue.
LEMMA QueueEmpty == NoTimeouts \in [{} -> Nat \ {0}] /\ DOMAIN NoTimeouts = {}
BY DEF NoTimeouts

--------------------------------------------------------------------------------
(* The invariant *)

\* TypeOK by the parts of the state it is about.
TimersOK ==
  /\ last_id \in Nat
  /\ DOMAIN m_timers \subseteq 1..last_id
  /\ \A id \in DOMAIN m_timers : m_timers[id] \in Entries
QueueOK ==
  /\ now \in Nat
  /\ m_timeouts \in [Timeouts -> Nat \ {0}]
  /\ \A t \in Timeouts : t \in TimeoutRecords /\ t.timer_id \in 1..last_id
ThreadOK ==
  /\ m_running_timer \in 0..last_id
  /\ pc \in {"entry", "wait", "timedwait", "dispatch", "callback", "exited", "aborted"}
  /\ deadline \in Nat
  /\ entry \in Entries
  /\ timeout \in TimeoutRecords
RestOK ==
  /\ m_bStopRequested \in BOOLEAN
  /\ call \in [Callers -> {"idle", "checked"}]
  /\ stop \in {"running", "joining", "clearing", "stopped"}
  /\ given \subseteq Closures
  /\ freed \subseteq Closures
  /\ removed \subseteq 1..last_id

\* The thread's copies are those of the timer that runs; a one-shot timer has left
\* the map before it runs.
Running ==
  /\ pc # "callback" => m_running_timer = 0 /\ entry.closure = NULL
  /\ pc = "callback" => /\ m_running_timer # 0 /\ entry.closure # NULL
                        /\ ~entry.is_period => m_running_timer \notin DOMAIN m_timers

\* ClosureOwnership closure by closure.
Owned ==
  /\ freed \subseteq given
  /\ entry.closure # NULL => entry.closure \in given /\ entry.closure \notin freed
  /\ \A id \in DOMAIN m_timers :
       m_timers[id].closure # NULL =>
         /\ m_timers[id].closure \in given
         /\ m_timers[id].closure \notin freed
         /\ m_timers[id].closure # entry.closure
  /\ \A k \in given :
       k \in freed \/ k = entry.closure \/ \E id \in DOMAIN m_timers : m_timers[id].closure = k
  /\ \A i, j \in DOMAIN m_timers :
       i # j /\ m_timers[i].closure # NULL => m_timers[i].closure # m_timers[j].closure
  /\ \A id \in DOMAIN m_timers : m_timers[id].closure = NULL => id = m_running_timer

Inv ==
  /\ TimersOK /\ QueueOK /\ ThreadOK /\ RestOK
  /\ NoOversleep
  /\ EnabledIsScheduled
  /\ Running
  /\ Owned
  /\ RemoveIsSynchronous

\* The parts make up TypeOK.
LEMMA Types == TypeOK <=> TimersOK /\ QueueOK /\ ThreadOK /\ RestOK
BY DEF TypeOK, TimersOK, QueueOK, ThreadOK, RestOK

\* Who owns a closure, said of sets and said of each.
LEMMA OwnedIsOwnership ==
  ASSUME TimersOK, ThreadOK, RestOK
  PROVE  Owned <=> ClosureOwnership
<1>1. NULL \notin given /\ NULL \notin freed
  BY TimerConstants DEF RestOK
<1>2. \A k : k \in MapClosures <=> k # NULL /\ \E id \in DOMAIN m_timers : m_timers[id].closure = k
  BY DEF MapClosures
<1>3. \A k : k \in RunningClosure <=> k # NULL /\ k = entry.closure
  BY DEF RunningClosure
<1>4. Owned => ClosureOwnership
  BY SMTT(60), <1>1, <1>2, <1>3 DEF Owned, ClosureOwnership
<1>5. ClosureOwnership => Owned
  BY <1>1, <1>2, <1>3 DEF Owned, ClosureOwnership
<1> QED
  BY <1>4, <1>5

\* A new manager has no timers.
LEMMA InitInv == Init => Inv
<1> SUFFICES ASSUME Init PROVE Inv
  OBVIOUS
<1>1. m_timeouts \in [Timeouts -> Nat \ {0}] /\ Timeouts = {}
  BY QueueEmpty DEF Init, Timeouts
<1>2. DOMAIN m_timers = {}
  BY DEF Init
<1>3. entry = NoEntry /\ timeout = NoTimeout /\ entry \in Entries /\ timeout \in TimeoutRecords
  BY DEF Init, NoEntry, NoTimeout, Entries, TimeoutRecords
<1>4. TimersOK /\ QueueOK /\ ThreadOK
  BY SMTT(60), <1>1, <1>2, <1>3 DEF Init, TimersOK, QueueOK, ThreadOK
<1>5. RestOK
  BY DEF Init, RestOK
<1>6. NoOversleep /\ EnabledIsScheduled /\ RemoveIsSynchronous
  BY <1>1, <1>2 DEF Init, NoOversleep, EnabledIsScheduled, RemoveIsSynchronous
<1>7. Running /\ Owned
  BY <1>2, <1>3 DEF Init, Running, Owned, NoEntry
<1> QED
  BY <1>4, <1>5, <1>6, <1>7 DEF Inv

--------------------------------------------------------------------------------
(* What the methods have in common *)

ByThreads == Callers \cup {TimerThread}

\* A method leaves the thread's copies and the clock alone; the callback calls it
\* in the timer thread.
LEMMA CallsFacts ==
  ASSUME RestOK, NEW by \in ByThreads, NEW op, Calls(by, op)
  PROVE  /\ UNCHANGED <<now, m_running_timer, m_bStopRequested, deadline, entry, timeout, stop>>
         /\ call' \in [Callers -> {"idle", "checked"}]
         /\ by = TimerThread => pc = "callback"
BY DEF Calls, RestOK, ByThreads

NewTimeout(id, interval, revision) ==
  [time |-> now + interval, timer_id |-> id, revision |-> revision]

\* PushNextTimeout adds its timeout to the queue and changes no other.
LEMMA Pushed ==
  ASSUME QueueOK, NEW id, NEW interval, NEW revision, PushNextTimeout(id, interval, revision)
  PROVE  /\ m_timeouts' \in [Timeouts' -> Nat \ {0}]
         /\ Timeouts' = Timeouts \cup {NewTimeout(id, interval, revision)}
<1>1. Push(NewTimeout(id, interval, revision))
  BY DEF PushNextTimeout, NewTimeout
<1>2. m_timeouts \in [Timeouts -> Nat \ {0}]
  BY DEF QueueOK
<1> QED
  BY <1>1, <1>2, Pushes

\* A push wakes the timer thread when it sleeps longer than the new timeout allows.
LEMMA NextTimeoutIsSet ==
  ASSUME QueueOK, ThreadOK, NoOversleep, NEW by, NEW id \in Nat, NEW interval \in Nat,
         NEW revision \in Nat, SetNextTimeout(by, id, interval, revision),
         by = TimerThread => pc = "callback",
         UNCHANGED <<now, deadline, m_bStopRequested>>
  PROVE  /\ m_timeouts' \in [Timeouts' -> Nat \ {0}]
         /\ Timeouts' = Timeouts \cup {NewTimeout(id, interval, revision)}
         /\ pc' \in {"entry", "wait", "timedwait", "dispatch", "callback", "exited", "aborted"}
         /\ pc' = "callback" <=> pc = "callback"
         /\ NoOversleep'
<1> DEFINE new == NewTimeout(id, interval, revision)
<1>1. /\ m_timeouts' \in [Timeouts' -> Nat \ {0}]
      /\ Timeouts' = Timeouts \cup {new}
  BY Pushed DEF SetNextTimeout
<1>2. new.time = now + interval /\ new.time \in Nat /\ new.time >= now
  BY DEF NewTimeout, QueueOK
<1> HIDE DEF new
<1>3. \A t \in Timeouts : t.time \in Nat
  BY DEF QueueOK, TimeoutRecords
<1>4. pc' \in {"entry", "wait", "timedwait", "dispatch", "callback", "exited", "aborted"}
  BY DEF SetNextTimeout, Signal, ThreadOK
<1>5. pc' = "callback" <=> pc = "callback"
  BY DEF SetNextTimeout, Signal
<1>6. pc' \in {"wait", "timedwait"} =>
        pc' = pc /\ by # TimerThread /\ \E t \in Timeouts : ~(now + interval < t.time)
  BY DEF SetNextTimeout, Signal
<1>7. pc' \in {"wait", "timedwait"} => ~m_bStopRequested'
  BY <1>6 DEF NoOversleep
<1>8. pc' # "wait"
  BY <1>6 DEF NoOversleep
<1>9. pc' = "timedwait" => deadline' <= now' \/ \A t \in Timeouts' : deadline' <= t.time
  <2> SUFFICES ASSUME pc' = "timedwait", ~(deadline <= now)
               PROVE  \A t \in Timeouts' : deadline <= t.time
    OBVIOUS
  <2>1. \A t \in Timeouts : deadline <= t.time
    BY <1>6 DEF NoOversleep
  <2>2. deadline <= new.time
    BY SMTT(60), <2>1, <1>2, <1>3, <1>6 DEF QueueOK, ThreadOK
  <2> QED
    BY <2>1, <2>2, <1>1
<1>10. NoOversleep'
  BY <1>7, <1>8, <1>9 DEF NoOversleep
<1> QED
  BY <1>1, <1>4, <1>5, <1>10 DEF new

\* What is scheduled stays so while the queue only grows.
LEMMA StillScheduled ==
  ASSUME EnabledIsScheduled, Timeouts \subseteq Timeouts', UNCHANGED m_running_timer,
         NEW i \in DOMAIN m_timers, m_timers[i].is_enabled, i # m_running_timer'
  PROVE  \E t \in Timeouts' : t.timer_id = i /\ t.revision = m_timers[i].revision
BY DEF EnabledIsScheduled

--------------------------------------------------------------------------------
(* The methods *)

\* AddTimer brings a closure nobody has and an id nobody has had.
LEMMA AddTimerInv ==
  ASSUME Inv, NEW by \in ByThreads, NEW interval \in Intervals, NEW is_period \in BOOLEAN,
         AddTimer(by, interval, is_period)
  PROVE  Inv'
<1>1. PICK c \in Closures \ given :
        /\ given' = given \cup {c}
        /\ m_timers' = [id \in DOMAIN m_timers \cup {last_id'} |->
             IF id = last_id'
               THEN [closure |-> c, interval |-> interval, is_enabled |-> TRUE,
                     is_period |-> is_period, revision |-> 0]
               ELSE m_timers[id]]
  BY DEF AddTimer
<1>2. last_id \in Nat /\ last_id' = last_id + 1 /\ UNCHANGED <<freed, removed>>
  BY DEF AddTimer, Inv, TimersOK
<1>3. /\ UNCHANGED <<now, m_running_timer, m_bStopRequested, deadline, entry, timeout, stop>>
      /\ call' \in [Callers -> {"idle", "checked"}]
      /\ by = TimerThread => pc = "callback"
  BY CallsFacts DEF AddTimer, Inv
<1>4. interval \in Nat
  BY TimerConstants
<1>5. /\ m_timeouts' \in [Timeouts' -> Nat \ {0}]
      /\ Timeouts' = Timeouts \cup {NewTimeout(last_id', interval, 0)}
      /\ pc' \in {"entry", "wait", "timedwait", "dispatch", "callback", "exited", "aborted"}
      /\ pc' = "callback" <=> pc = "callback"
      /\ NoOversleep'
  BY SMTT(60), <1>2, <1>3, <1>4, NextTimeoutIsSet DEF AddTimer, Inv
<1>6. NewTimeout(last_id', interval, 0) \in TimeoutRecords
      /\ NewTimeout(last_id', interval, 0).timer_id = last_id'
      /\ NewTimeout(last_id', interval, 0).revision = 0
  BY SMTT(60), <1>2, <1>4 DEF NewTimeout, TimeoutRecords, Inv, QueueOK
<1>7. /\ DOMAIN m_timers' = DOMAIN m_timers \cup {last_id'}
      /\ last_id' \notin DOMAIN m_timers
      /\ \A id \in DOMAIN m_timers : m_timers'[id] = m_timers[id]
  BY <1>1, <1>2 DEF Inv, TimersOK
<1>8. /\ m_timers'[last_id'] \in Entries
      /\ m_timers'[last_id'].closure = c
      /\ m_timers'[last_id'].revision = 0
  BY <1>1, <1>4 DEF Entries
<1>9. TimersOK'
  BY SMTT(60), <1>2, <1>7, <1>8 DEF Inv, TimersOK
<1>10. QueueOK'
  BY SMTT(60), <1>2, <1>3, <1>5, <1>6 DEF Inv, QueueOK
<1>11. ThreadOK'
  BY SMTT(60), <1>2, <1>3, <1>5 DEF Inv, ThreadOK
<1>12. RestOK'
  BY SMTT(60), <1>1, <1>2, <1>3 DEF Inv, RestOK
<1>13. EnabledIsScheduled'
  <2> SUFFICES ASSUME NEW i \in DOMAIN m_timers', m_timers'[i].is_enabled, i # m_running_timer'
               PROVE  \E t \in Timeouts' : t.timer_id = i /\ t.revision = m_timers'[i].revision
    BY DEF EnabledIsScheduled
  <2>1. CASE i = last_id'
    BY <2>1, <1>5, <1>6, <1>8
  <2>2. CASE i \in DOMAIN m_timers
    BY SMTT(60), <2>2, <1>3, <1>5, <1>7, StillScheduled DEF Inv
  <2> QED
    BY <2>1, <2>2, <1>7
<1>14. Running'
  BY SMTT(60), <1>2, <1>3, <1>5, <1>7 DEF Inv, Running, ThreadOK
<1>15. Owned'
  <2>1. c # NULL /\ c \notin given /\ c \notin freed /\ c # entry.closure
    BY <1>1, TimerConstants DEF Inv, Owned
  <2> QED
    BY SMTT(60), <2>1, <1>1, <1>2, <1>3, <1>7, <1>8 DEF Inv, Owned
<1>16. RemoveIsSynchronous'
  BY SMTT(60), <1>2, <1>3, <1>7 DEF Inv, RemoveIsSynchronous, RestOK
<1> QED
  BY <1>5, <1>9, <1>10, <1>11, <1>12, <1>13, <1>14, <1>15, <1>16 DEF Inv

\* The thread that waits is not concerned by a method that pushes nothing.
LEMMA NothingPushed ==
  ASSUME Inv, UNCHANGED <<now, m_timeouts, m_bStopRequested, pc, deadline, last_id>>
  PROVE  Timeouts' = Timeouts /\ QueueOK' /\ NoOversleep'
BY DEF Inv, QueueOK, NoOversleep, Timeouts

\* Removing a timer deletes the closure the map holds, and leaves the one that runs to
\* the thread that runs it.
LEMMA RemovedInLock ==
  ASSUME Inv, NEW id \in 1..last_id, AsyncRemoveTimerInLock(id),
         UNCHANGED <<now, m_running_timer, m_bStopRequested, deadline, entry, timeout>>
  PROVE  /\ (TimersOK /\ QueueOK /\ ThreadOK /\ NoOversleep)'
         /\ (EnabledIsScheduled /\ Running /\ Owned)'
         /\ DOMAIN m_timers' = DOMAIN m_timers \ {id}
         /\ freed' \subseteq Closures
         /\ UNCHANGED <<last_id, given>>
<1>1. /\ DOMAIN m_timers' = DOMAIN m_timers \ {id}
      /\ \A i \in DOMAIN m_timers' : m_timers'[i] = m_timers[i]
      /\ UNCHANGED <<m_timeouts, last_id, pc, given>>
  BY DEF AsyncRemoveTimerInLock, WithoutTimer
<1>2. ASSUME id \notin DOMAIN m_timers
      PROVE  Owned' /\ freed' \subseteq Closures
  <2>1. freed' = freed
    BY <1>2 DEF AsyncRemoveTimerInLock
  <2>2. DOMAIN m_timers' = DOMAIN m_timers
    BY <1>1, <1>2
  <2>3. Owned'
    BY <2>1, <2>2, <1>1 DEF Inv, Owned
  <2> QED
    BY <2>1, <2>3 DEF Inv, RestOK
<1>3. ASSUME id \in DOMAIN m_timers
      PROVE  Owned' /\ freed' \subseteq Closures
  <2>1. freed' = freed \cup ({m_timers[id].closure} \ {NULL})
    BY <1>3 DEF AsyncRemoveTimerInLock, Delete
  <2>2. m_timers[id].closure \in Closures \cup {NULL}
    BY <1>3 DEF Inv, TimersOK, Entries
  <2>3. freed' \subseteq Closures
    BY <2>1, <2>2 DEF Inv, RestOK
  <2> DEFINE k == m_timers[id].closure
  <2>4. /\ k # NULL => k \in given /\ k # entry.closure
        /\ \A i \in DOMAIN m_timers' : m_timers[i].closure # NULL => m_timers[i].closure # k
    BY <1>1, <1>3 DEF Inv, Owned
  <2>5. freed' = IF k = NULL THEN freed ELSE freed \cup {k}
    BY <2>1
  <2>6. \A j \in given : \/ j \in freed' \/ j = entry.closure
                         \/ \E i \in DOMAIN m_timers' : m_timers[i].closure = j
    BY <1>1, <1>3, <2>1, TimerConstants DEF Inv, Owned, RestOK
  <2> HIDE DEF k
  <2>7. Owned'
    BY SMTT(60), <1>1, <2>4, <2>5, <2>6 DEF Inv, Owned
  <2> QED
    BY <2>3, <2>7
<1>4. Timeouts' = Timeouts /\ QueueOK' /\ NoOversleep'
  BY <1>1, NothingPushed
<1>5. TimersOK' /\ ThreadOK'
  BY <1>1 DEF Inv, TimersOK, ThreadOK
<1>6. EnabledIsScheduled'
  BY SMTT(60), <1>1, <1>4 DEF Inv, EnabledIsScheduled
<1>7. Running'
  BY <1>1 DEF Inv, Running
<1> QED
  BY <1>1, <1>2, <1>3, <1>4, <1>5, <1>6, <1>7

\* AsyncRemoveTimer
LEMMA AsyncRemoveTimerInv ==
  ASSUME Inv, NEW by \in ByThreads, NEW id \in 1..last_id, AsyncRemoveTimer(by, id)
  PROVE  Inv'
<1>1. /\ UNCHANGED <<now, m_running_timer, m_bStopRequested, deadline, entry, timeout, stop>>
      /\ call' \in [Callers -> {"idle", "checked"}]
  BY CallsFacts DEF AsyncRemoveTimer, Inv
<1>2. UNCHANGED removed
  BY DEF AsyncRemoveTimer
<1>3. /\ (TimersOK /\ QueueOK /\ ThreadOK /\ NoOversleep)'
      /\ (EnabledIsScheduled /\ Running /\ Owned)'
      /\ DOMAIN m_timers' = DOMAIN m_timers \ {id}
      /\ freed' \subseteq Closures
      /\ UNCHANGED <<last_id, given>>
  BY <1>1, RemovedInLock DEF AsyncRemoveTimer
<1>4. RestOK'
  BY <1>1, <1>2, <1>3 DEF Inv, RestOK
<1>5. RemoveIsSynchronous'
  BY <1>1, <1>2, <1>3 DEF Inv, RemoveIsSynchronous
<1> QED
  BY <1>3, <1>4, <1>5 DEF Inv

\* RemoveTimer returns to another thread only while the timer does not run.
LEMMA RemoveTimerInv ==
  ASSUME Inv, NEW by \in ByThreads, NEW id \in 1..last_id, RemoveTimer(by, id)
  PROVE  Inv'
<1>1. /\ UNCHANGED <<now, m_running_timer, m_bStopRequested, deadline, entry, timeout, stop>>
      /\ call' \in [Callers -> {"idle", "checked"}]
  BY CallsFacts DEF RemoveTimer, Inv
<1>2. removed' = removed \/ (removed' = removed \cup {id} /\ m_running_timer # id)
  BY DEF RemoveTimer
<1>3. /\ (TimersOK /\ QueueOK /\ ThreadOK /\ NoOversleep)'
      /\ (EnabledIsScheduled /\ Running /\ Owned)'
      /\ DOMAIN m_timers' = DOMAIN m_timers \ {id}
      /\ freed' \subseteq Closures
      /\ UNCHANGED <<last_id, given>>
  BY <1>1, RemovedInLock DEF RemoveTimer
<1>4. RestOK'
  BY <1>1, <1>2, <1>3 DEF Inv, RestOK
<1>5. RemoveIsSynchronous'
  BY <1>1, <1>2, <1>3 DEF Inv, RemoveIsSynchronous
<1> QED
  BY <1>3, <1>4, <1>5 DEF Inv

\* After SetNextTimeout the timer has a timeout of the revision given, and nothing else
\* about the queue and the thread's sleep has changed for the worse.
LEMMA Rescheduled ==
  ASSUME Inv, NEW by \in ByThreads, NEW id \in 1..last_id, NEW interval \in Nat,
         NEW revision \in Nat, SetNextTimeout(by, id, interval, revision),
         by = TimerThread => pc = "callback",
         UNCHANGED <<now, deadline, m_bStopRequested, last_id>>
  PROVE  /\ QueueOK' /\ NoOversleep'
         /\ pc' \in {"entry", "wait", "timedwait", "dispatch", "callback", "exited", "aborted"}
         /\ pc' = "callback" <=> pc = "callback"
         /\ Timeouts \subseteq Timeouts'
         /\ \E t \in Timeouts' : t.timer_id = id /\ t.revision = revision
<1> DEFINE new == NewTimeout(id, interval, revision)
<1>1. id \in Nat
  BY DEF Inv, TimersOK
<1>2. /\ m_timeouts' \in [Timeouts' -> Nat \ {0}]
      /\ Timeouts' = Timeouts \cup {new}
      /\ pc' \in {"entry", "wait", "timedwait", "dispatch", "callback", "exited", "aborted"}
      /\ pc' = "callback" <=> pc = "callback"
      /\ NoOversleep'
  BY <1>1, NextTimeoutIsSet DEF Inv
<1>3. new \in TimeoutRecords /\ new.timer_id = id /\ new.revision = revision
  BY SMTT(60), <1>1 DEF NewTimeout, TimeoutRecords, Inv, QueueOK
<1> HIDE DEF new
<1>4. QueueOK'
  BY <1>2, <1>3 DEF Inv, QueueOK
<1> QED
  BY <1>2, <1>3, <1>4

\* ModifyTimer deletes a closure only if it puts another in its place; one that runs is
\* not in the map.
LEMMA ModifyTimerInv ==
  ASSUME Inv, NEW by \in ByThreads, NEW id \in 1..last_id, NEW interval \in Intervals,
         NEW closure \in {NULL} \cup (Closures \ given),
         ModifyTimer(by, id, interval, closure)
  PROVE  Inv'
<1> DEFINE old == m_timers[id]
           new == [old EXCEPT !.interval = interval, !.revision = @ + 1,
                              !.closure = IF closure = NULL THEN @ ELSE closure]
<1>1. /\ UNCHANGED <<now, m_running_timer, m_bStopRequested, deadline, entry, timeout, stop>>
      /\ call' \in [Callers -> {"idle", "checked"}]
      /\ by = TimerThread => pc = "callback"
  BY CallsFacts DEF ModifyTimer, Inv
<1>2. /\ id \in DOMAIN m_timers
      /\ m_timers' = [m_timers EXCEPT ![id] = new]
      /\ IF closure # NULL
           THEN given' = given \cup {closure} /\ Delete(old.closure)
           ELSE UNCHANGED <<given, freed>>
      /\ IF old.is_enabled
           THEN SetNextTimeout(by, id, interval, new.revision)
           ELSE UNCHANGED <<m_timeouts, pc>>
      /\ UNCHANGED <<last_id, removed>>
  BY DEF ModifyTimer
<1>3. old \in Entries /\ interval \in Nat
  BY <1>2, TimerConstants DEF Inv, TimersOK
<1>4. /\ new \in Entries
      /\ new.is_enabled = old.is_enabled
      /\ new.closure = IF closure = NULL THEN old.closure ELSE closure
      /\ new.revision \in Nat
  <2> DEFINE k == IF closure = NULL THEN old.closure ELSE closure
  <2>1. k \in Closures \cup {NULL}
    BY <1>3 DEF Entries
  <2>2. new = [old EXCEPT !.interval = interval, !.revision = old.revision + 1, !.closure = k]
    OBVIOUS
  <2>3. old.revision + 1 \in Nat
    BY SMTT(60), <1>3 DEF Entries
  <2> DEFINE a == [old EXCEPT !.interval = interval]
             b == [a EXCEPT !.revision = old.revision + 1]
             c == [b EXCEPT !.closure = k]
  <2>4. new = c
    BY <2>2
  <2> HIDE DEF k, old, new
  <2>5. a \in Entries /\ a.is_enabled = old.is_enabled
    BY <1>3 DEF Entries
  <2> HIDE DEF a
  <2>6. b \in Entries /\ b.is_enabled = old.is_enabled /\ b.revision = old.revision + 1
    BY <2>3, <2>5 DEF Entries
  <2> HIDE DEF b
  <2>7. /\ c \in Entries /\ c.is_enabled = old.is_enabled /\ c.revision = old.revision + 1
        /\ c.closure = k
    BY <2>1, <2>6 DEF Entries
  <2> HIDE DEF c
  <2> QED
    BY <2>3, <2>4, <2>7 DEF k
<1>5. /\ DOMAIN m_timers' = DOMAIN m_timers
      /\ m_timers'[id] = new
      /\ \A i \in DOMAIN m_timers : i # id => m_timers'[i] = m_timers[i]
  BY <1>2
<1> HIDE DEF new
<1>6. /\ QueueOK' /\ NoOversleep'
      /\ pc' \in {"entry", "wait", "timedwait", "dispatch", "callback", "exited", "aborted"}
      /\ pc' = "callback" <=> pc = "callback"
      /\ Timeouts \subseteq Timeouts'
      /\ old.is_enabled => \E t \in Timeouts' : t.timer_id = id /\ t.revision = new.revision
  <2>1. CASE old.is_enabled
    BY SMTT(60), <2>1, <1>1, <1>2, <1>3, <1>4, Rescheduled
  <2>2. CASE ~old.is_enabled
    BY <2>2, <1>1, <1>2, NothingPushed DEF Inv, ThreadOK
  <2> QED
    BY <2>1, <2>2
<1>7. TimersOK'
  BY <1>2, <1>4, <1>5 DEF Inv, TimersOK
<1>8. ThreadOK'
  BY <1>1, <1>2, <1>6 DEF Inv, ThreadOK
<1>9. EnabledIsScheduled'
  <2> SUFFICES ASSUME NEW i \in DOMAIN m_timers', m_timers'[i].is_enabled, i # m_running_timer'
               PROVE  \E t \in Timeouts' : t.timer_id = i /\ t.revision = m_timers'[i].revision
    BY DEF EnabledIsScheduled
  <2>1. CASE i = id
    BY <2>1, <1>4, <1>5, <1>6
  <2>2. CASE i # id
    BY SMTT(60), <2>2, <1>1, <1>5, <1>6, StillScheduled DEF Inv
  <2> QED
    BY <2>1, <2>2
<1>10. Running'
  BY <1>1, <1>5, <1>6 DEF Inv, Running
<1>11. RemoveIsSynchronous'
  BY <1>1, <1>2, <1>5 DEF Inv, RemoveIsSynchronous
<1>12. Owned' /\ RestOK'
  <2>1. CASE closure = NULL
    <3>1. UNCHANGED <<given, freed>> /\ \A i \in DOMAIN m_timers : m_timers'[i].closure = m_timers[i].closure
      BY <2>1, <1>2, <1>4, <1>5
    <3>2. Owned'
      BY SMTT(60), <3>1, <1>1, <1>5 DEF Inv, Owned
    <3>3. RestOK'
      BY <3>1, <1>1, <1>2 DEF Inv, RestOK
    <3> QED
      BY <3>2, <3>3
  <2>2. CASE closure # NULL
    <3>1. /\ given' = given \cup {closure}
          /\ freed' = IF old.closure = NULL THEN freed ELSE freed \cup {old.closure}
          /\ closure \in Closures /\ closure \notin given
      BY <2>2, <1>2 DEF Delete
    <3>2. \A i \in DOMAIN m_timers :
            m_timers'[i].closure = IF i = id THEN closure ELSE m_timers[i].closure
      BY <2>2, <1>4, <1>5
    <3>3. old.closure \in Closures \cup {NULL}
      BY <1>3 DEF Entries
    <3>4. RestOK'
      BY <3>1, <3>3, <1>1, <1>2 DEF Inv, RestOK
    <3>5. /\ old.closure # NULL =>
               /\ old.closure \in given /\ old.closure # entry.closure
               /\ \A i \in DOMAIN m_timers : i # id => m_timers[i].closure # old.closure
          /\ closure # entry.closure /\ closure \notin freed
          /\ \A i \in DOMAIN m_timers : m_timers[i].closure # closure
      BY <2>2, <3>1, <1>2 DEF Inv, Owned
    <3>6. \A k \in given' : \/ k \in freed' \/ k = entry.closure
                            \/ \E i \in DOMAIN m_timers : m_timers'[i].closure = k
      <4> SUFFICES ASSUME NEW k \in given', k \notin freed', k # entry.closure
                   PROVE  \E i \in DOMAIN m_timers : m_timers'[i].closure = k
        OBVIOUS
      <4>1. CASE k = closure
        BY <4>1, <3>2, <1>2
      <4>2. CASE k \in given
        <5>1. k # NULL /\ k \notin freed
          BY <4>2, <3>1, TimerConstants DEF Inv, RestOK
        <5>2. PICK i \in DOMAIN m_timers : m_timers[i].closure = k
          BY <4>2, <5>1 DEF Inv, Owned
        <5> QED
          BY <5>1, <5>2, <3>1, <3>2
      <4> QED
        BY <4>1, <4>2, <3>1
    <3>7. freed' \subseteq given' /\ UNCHANGED entry /\ DOMAIN m_timers' = DOMAIN m_timers
      BY <3>1, <3>5, <1>1, <1>5 DEF Inv, Owned
    <3>8. entry.closure # NULL => entry.closure \in given' /\ entry.closure \notin freed'
      BY <3>1, <3>5 DEF Inv, Owned
    <3>9. ASSUME NEW i \in DOMAIN m_timers, m_timers'[i].closure # NULL
          PROVE  /\ m_timers'[i].closure \in given'
                 /\ m_timers'[i].closure \notin freed'
                 /\ m_timers'[i].closure # entry.closure
      <4>1. CASE i = id
        BY <4>1, <3>1, <3>2, <3>5, <1>2
      <4>2. CASE i # id
        BY <3>9, <4>2, <3>1, <3>2, <3>5 DEF Inv, Owned
      <4> QED
        BY <4>1, <4>2
    <3>10. ASSUME NEW i \in DOMAIN m_timers, NEW j \in DOMAIN m_timers, i # j,
                  m_timers'[i].closure # NULL
           PROVE  m_timers'[i].closure # m_timers'[j].closure
      BY SMTT(60), <3>10, <3>2, <3>5 DEF Inv, Owned
    <3>11. \A i \in DOMAIN m_timers : m_timers'[i].closure = NULL => i = m_running_timer'
      BY <2>2, <3>2, <1>1 DEF Inv, Owned
    <3>12. Owned'
      BY <3>6, <3>7, <3>8, <3>9, <3>10, <3>11 DEF Owned
    <3> QED
      BY <3>4, <3>12
  <2> QED
    BY <2>1, <2>2
<1> QED
  BY <1>6, <1>7, <1>8, <1>9, <1>10, <1>11, <1>12 DEF Inv

\* A disabled timer needs no timeout.
LEMMA DisableTimerInv ==
  ASSUME Inv, NEW by \in ByThreads, NEW id \in 1..last_id, DisableTimer(by, id)
  PROVE  Inv'
<1> DEFINE old == m_timers[id]
           off == [old EXCEPT !.is_enabled = FALSE]
           new == [off EXCEPT !.revision = @ + 1]
<1>1. /\ UNCHANGED <<now, m_running_timer, m_bStopRequested, deadline, entry, timeout, stop>>
      /\ call' \in [Callers -> {"idle", "checked"}]
  BY CallsFacts DEF DisableTimer, Inv
<1>2. /\ id \in DOMAIN m_timers
      /\ m_timers' = [m_timers EXCEPT ![id].is_enabled = FALSE, ![id].revision = @ + 1]
      /\ UNCHANGED <<m_timeouts, last_id, pc, given, freed, removed>>
  BY DEF DisableTimer
<1>3. old \in Entries
  BY <1>2 DEF Inv, TimersOK
<1>4. /\ DOMAIN m_timers' = DOMAIN m_timers
      /\ m_timers'[id] = new
      /\ \A i \in DOMAIN m_timers : i # id => m_timers'[i] = m_timers[i]
  BY <1>2
<1> HIDE DEF old
<1>5. off \in Entries /\ off.is_enabled = FALSE /\ off.closure = old.closure
  BY <1>3 DEF Entries
<1> HIDE DEF off
<1>6. new \in Entries /\ new.is_enabled = FALSE /\ new.closure = old.closure
  BY SMTT(60), <1>5 DEF Entries
<1> HIDE DEF new
<1>7. Timeouts' = Timeouts /\ QueueOK' /\ NoOversleep'
  BY <1>1, <1>2, NothingPushed
<1>8. TimersOK' /\ ThreadOK'
  BY <1>1, <1>2, <1>4, <1>6 DEF Inv, TimersOK, ThreadOK
<1>9. RestOK'
  BY <1>1, <1>2 DEF Inv, RestOK
<1>10. EnabledIsScheduled'
  BY SMTT(60), <1>1, <1>4, <1>6, <1>7 DEF Inv, EnabledIsScheduled
<1>11. Running' /\ RemoveIsSynchronous'
  BY <1>1, <1>2, <1>4 DEF Inv, Running, RemoveIsSynchronous
<1>12. \A i \in DOMAIN m_timers : m_timers'[i].closure = m_timers[i].closure
  BY <1>4, <1>6 DEF old
<1>13. Owned'
  BY SMTT(60), <1>1, <1>2, <1>4, <1>12 DEF Inv, Owned
<1> QED
  BY <1>7, <1>8, <1>9, <1>10, <1>11, <1>13 DEF Inv

\* EnableTimer sets a timeout of the revision the timer has.
LEMMA EnableTimerInv ==
  ASSUME Inv, NEW by \in ByThreads, NEW id \in 1..last_id, EnableTimer(by, id)
  PROVE  Inv'
<1> DEFINE old == m_timers[id]
           new == [old EXCEPT !.is_enabled = TRUE]
<1>1. /\ UNCHANGED <<now, m_running_timer, m_bStopRequested, deadline, entry, timeout, stop>>
      /\ call' \in [Callers -> {"idle", "checked"}]
      /\ by = TimerThread => pc = "callback"
  BY CallsFacts DEF EnableTimer, Inv
<1>2. /\ id \in DOMAIN m_timers
      /\ m_timers' = [m_timers EXCEPT ![id].is_enabled = TRUE]
      /\ SetNextTimeout(by, id, old.interval, old.revision)
      /\ UNCHANGED <<last_id, given, freed, removed>>
  BY DEF EnableTimer
<1>3. old \in Entries
  BY <1>2 DEF Inv, TimersOK
<1>4. /\ DOMAIN m_timers' = DOMAIN m_timers
      /\ m_timers'[id] = new
      /\ \A i \in DOMAIN m_timers : i # id => m_timers'[i] = m_timers[i]
  BY <1>2
<1> HIDE DEF old
<1>5. /\ new \in Entries /\ new.closure = old.closure /\ new.revision = old.revision
      /\ old.interval \in Nat /\ old.revision \in Nat
  BY <1>3 DEF Entries
<1> HIDE DEF new
<1>6. /\ QueueOK' /\ NoOversleep'
      /\ pc' \in {"entry", "wait", "timedwait", "dispatch", "callback", "exited", "aborted"}
      /\ pc' = "callback" <=> pc = "callback"
      /\ Timeouts \subseteq Timeouts'
      /\ \E t \in Timeouts' : t.timer_id = id /\ t.revision = new.revision
  BY SMTT(60), <1>1, <1>2, <1>5, Rescheduled
<1>7. TimersOK' /\ ThreadOK'
  BY <1>1, <1>2, <1>4, <1>5, <1>6 DEF Inv, TimersOK, ThreadOK
<1>8. RestOK'
  BY <1>1, <1>2 DEF Inv, RestOK
<1>9. EnabledIsScheduled'
  <2> SUFFICES ASSUME NEW i \in DOMAIN m_timers', m_timers'[i].is_enabled, i # m_running_timer'
               PROVE  \E t \in Timeouts' : t.timer_id = i /\ t.revision = m_timers'[i].revision
    BY DEF EnabledIsScheduled
  <2>1. CASE i = id
    BY <2>1, <1>4, <1>6
  <2>2. CASE i # id
    BY SMTT(60), <2>2, <1>1, <1>4, <1>6, StillScheduled DEF Inv
  <2> QED
    BY <2>1, <2>2
<1>10. Running' /\ RemoveIsSynchronous'
  BY <1>1, <1>2, <1>4, <1>6 DEF Inv, Running, RemoveIsSynchronous
<1>11. \A i \in DOMAIN m_timers : m_timers'[i].closure = m_timers[i].closure
  BY <1>4, <1>5 DEF old
<1>12. Owned'
  BY SMTT(60), <1>1, <1>2, <1>4, <1>11 DEF Inv, Owned
<1> QED
  BY <1>6, <1>7, <1>8, <1>9, <1>10, <1>12 DEF Inv

\* A method that finds no timer changes nothing but the caller's place.
LEMMA UnknownTimerInv ==
  ASSUME Inv, NEW by \in ByThreads, NEW id \in 1..last_id, UnknownTimer(by, id)
  PROVE  Inv'
<1>1. /\ UNCHANGED <<now, m_running_timer, m_bStopRequested, deadline, entry, timeout, stop>>
      /\ call' \in [Callers -> {"idle", "checked"}]
  BY CallsFacts DEF UnknownTimer, Inv
<1>2. UNCHANGED <<m_timers, m_timeouts, last_id, pc, given, freed, removed>>
  BY DEF UnknownTimer
<1>3. Timeouts' = Timeouts /\ QueueOK' /\ NoOversleep'
  BY <1>1, <1>2, NothingPushed
<1>4. TimersOK' /\ ThreadOK' /\ RestOK'
  BY <1>1, <1>2 DEF Inv, TimersOK, ThreadOK, RestOK
<1>5. EnabledIsScheduled' /\ Running' /\ RemoveIsSynchronous'
  BY <1>1, <1>2, <1>3 DEF Inv, EnabledIsScheduled, Running, RemoveIsSynchronous
<1>6. Owned'
  BY SMTT(60), <1>1, <1>2 DEF Inv, Owned
<1> QED
  BY <1>3, <1>4, <1>5, <1>6 DEF Inv

\* Clear deletes what the map holds, and leaves the closure that runs to the thread.
LEMMA ClearedInLock ==
  ASSUME Inv, ClearInLock,
         UNCHANGED <<now, m_running_timer, m_bStopRequested, last_id, thread, given, removed>>
  PROVE  /\ (TimersOK /\ QueueOK /\ ThreadOK /\ NoOversleep)'
         /\ (EnabledIsScheduled /\ Running /\ Owned /\ RemoveIsSynchronous)'
         /\ freed' \subseteq Closures
<1>1. DOMAIN m_timers' = {}
  BY DEF ClearInLock
<1>2. m_timeouts' \in [Timeouts' -> Nat \ {0}] /\ Timeouts' = {}
  BY QueueEmpty DEF ClearInLock, Timeouts
<1>3. \A k : k \in freed' <=>
         \/ k \in freed
         \/ k # NULL /\ \E id \in DOMAIN m_timers : m_timers[id].closure = k
  BY DEF ClearInLock
<1>4. freed' \subseteq Closures
  BY SMTT(60), <1>3 DEF Inv, TimersOK, Entries, RestOK
<1>5. TimersOK' /\ QueueOK'
  BY <1>1, <1>2 DEF Inv, TimersOK, QueueOK
<1>6. ThreadOK'
  BY DEF Inv, ThreadOK, thread
<1>7. NoOversleep'
  BY <1>2 DEF Inv, NoOversleep, thread
<1>8. EnabledIsScheduled' /\ Running' /\ RemoveIsSynchronous'
  BY <1>1 DEF Inv, EnabledIsScheduled, Running, RemoveIsSynchronous, thread
<1>9. Owned'
  <2>1. entry' = entry /\ given' = given
    BY DEF thread
  <2>2. freed' \subseteq given'
    BY SMTT(60), <1>3, <2>1 DEF Inv, Owned
  <2>3. entry.closure # NULL => entry.closure \in given /\ entry.closure \notin freed'
    BY <1>3 DEF Inv, Owned
  <2>4. \A k \in given : k \in freed' \/ k = entry.closure
    BY <1>3, TimerConstants DEF Inv, Owned, RestOK
  <2> QED
    BY <1>1, <2>1, <2>2, <2>3, <2>4 DEF Owned
<1> QED
  BY <1>4, <1>5, <1>6, <1>7, <1>8, <1>9

\* Clear
LEMMA ClearInv ==
  ASSUME Inv, NEW by \in ByThreads, Clear(by)
  PROVE  Inv'
<1>1. /\ UNCHANGED <<now, m_running_timer, m_bStopRequested, deadline, entry, timeout, stop>>
      /\ call' \in [Callers -> {"idle", "checked"}]
  BY CallsFacts DEF Clear, Inv
<1>2. ClearInLock /\ UNCHANGED <<last_id, pc, given, removed>>
  BY DEF Clear
<1>3. /\ (TimersOK /\ QueueOK /\ ThreadOK /\ NoOversleep)'
      /\ (EnabledIsScheduled /\ Running /\ Owned /\ RemoveIsSynchronous)'
      /\ freed' \subseteq Closures
  BY <1>1, <1>2, ClearedInLock DEF thread
<1>4. RestOK'
  BY <1>1, <1>2, <1>3 DEF Inv, RestOK
<1> QED
  BY <1>3, <1>4 DEF Inv

\* Every method keeps the invariant, whichever thread calls it.
LEMMA MethodInv ==
  ASSUME Inv, NEW by \in ByThreads, Method(by)
  PROVE  Inv'
BY AddTimerInv, AsyncRemoveTimerInv, RemoveTimerInv, ModifyTimerInv, DisableTimerInv,
   EnableTimerInv, UnknownTimerInv, ClearInv DEF Method

--------------------------------------------------------------------------------
(* The timer thread *)

\* The cast to int makes no wait longer.
LEMMA IntWaitShortens ==
  ASSUME NEW ms \in Nat
  PROVE  IntWait(ms) \in Int /\ IntWait(ms) <= ms
<1>1. IntMod \in Nat /\ IntMod > 0
  BY TimerConstants
<1>2. ms % IntMod \in Nat /\ ms % IntMod <= ms
  BY <1>1
<1> QED
  BY <1>1, <1>2 DEF IntWait

\* The thread falls asleep until the earliest timeout, or not at all.
LEMMA EntryLoopInv ==
  ASSUME Inv, EntryLoop
  PROVE  Inv'
<1>1. /\ pc = "entry"
      /\ UNCHANGED <<now, m_timers, m_timeouts, m_running_timer, m_bStopRequested, last_id,
                     entry, timeout, call, stop, given, freed, removed>>
  BY DEF EntryLoop
<1>2. Timeouts' = Timeouts
  BY <1>1 DEF Timeouts
<1>3. /\ pc' \in {"exited", "wait", "timedwait", "aborted"}
      /\ pc' = "wait" => Timeouts = {}
      /\ pc' \in {"wait", "timedwait"} => ~m_bStopRequested
  BY DEF EntryLoop, TimedWait
<1>4. deadline' \in Nat /\ (pc' = "timedwait" => deadline' <= now \/ \A t \in Timeouts : deadline' <= t.time)
  <2>1. CASE pc' # "timedwait"
    BY <2>1 DEF EntryLoop, TimedWait, Inv, ThreadOK
  <2>2. CASE pc' = "timedwait"
    <3> DEFINE ms(top) == IF top.time < now THEN 0 ELSE IntWait(top.time - now)
    <3>1. PICK top \in Timeouts :
            /\ \A t \in Timeouts : top.time <= t.time
            /\ deadline' = now + IF ms(top) < 0 THEN 0 ELSE ms(top)
      BY <2>2 DEF EntryLoop, TimedWait
    <3>2. now \in Nat /\ \A t \in Timeouts : t.time \in Nat
      BY DEF Inv, QueueOK, TimeoutRecords
    <3>3. CASE top.time < now
      BY <3>1, <3>2, <3>3
    <3>4. CASE ~(top.time < now)
      <4>1. top.time - now \in Nat
        BY <3>2, <3>4
      <4>2. ms(top) \in Int /\ ms(top) <= top.time - now
        BY <3>4, <4>1, IntWaitShortens
      <4>3. PICK w \in Int : w <= top.time - now /\ deadline' = now + IF w < 0 THEN 0 ELSE w
        BY <3>1, <4>2
      <4>4. deadline' \in Nat /\ deadline' <= top.time
        BY <4>1, <4>3, <3>2
      <4> QED
        BY <4>4, <3>1, <3>2
    <3> QED
      BY <3>3, <3>4
  <2> QED
    BY <2>1, <2>2
<1>5. NoOversleep'
  BY <1>1, <1>2, <1>3, <1>4 DEF NoOversleep
<1>6. TimersOK' /\ QueueOK' /\ RestOK'
  BY <1>1, <1>2 DEF Inv, TimersOK, QueueOK, RestOK
<1>7. ThreadOK'
  BY <1>1, <1>3, <1>4 DEF Inv, ThreadOK
<1>8. EnabledIsScheduled' /\ Running' /\ RemoveIsSynchronous'
  BY <1>1, <1>2, <1>3 DEF Inv, EnabledIsScheduled, Running, RemoveIsSynchronous
<1>9. Owned'
  BY SMTT(60), <1>1 DEF Inv, Owned
<1> QED
  BY <1>5, <1>6, <1>7, <1>8, <1>9 DEF Inv

\* It wakes up.
LEMMA WaitReturnsInv ==
  ASSUME Inv, WaitReturns
  PROVE  Inv'
<1>1. /\ pc \in {"wait", "timedwait"} /\ pc' = "dispatch"
      /\ UNCHANGED <<now, m_timers, m_timeouts, m_running_timer, m_bStopRequested, last_id,
                     deadline, entry, timeout, call, stop, given, freed, removed>>
  BY DEF WaitReturns, WaitTimesOut, SpuriousWakeup
<1>2. Timeouts' = Timeouts
  BY <1>1 DEF Timeouts
<1>3. TimersOK' /\ QueueOK' /\ RestOK'
  BY <1>1, <1>2 DEF Inv, TimersOK, QueueOK, RestOK
<1>4. ThreadOK' /\ NoOversleep'
  BY <1>1 DEF Inv, ThreadOK, NoOversleep
<1>5. EnabledIsScheduled' /\ Running' /\ RemoveIsSynchronous'
  BY <1>1, <1>2 DEF Inv, EnabledIsScheduled, Running, RemoveIsSynchronous
<1>6. Owned'
  BY SMTT(60), <1>1 DEF Inv, Owned
<1> QED
  BY <1>3, <1>4, <1>5, <1>6 DEF Inv

\* A timeout that is dropped was not what keeps a timer scheduled.
LEMMA DroppedTimeout ==
  ASSUME Inv, NEW t \in Timeouts, ~IsLive(t), Pop(t),
         UNCHANGED <<now, m_timers, m_running_timer, m_bStopRequested, last_id, thread, call,
                     stop, given, freed, removed>>, pc = "dispatch"
  PROVE  Inv'
<1>1. /\ m_timeouts' \in [Timeouts' -> Nat \ {0}]
      /\ Timeouts' \subseteq Timeouts
      /\ \A u \in Timeouts : u # t => u \in Timeouts'
  BY Pops DEF Inv, QueueOK
<1>2. UNCHANGED <<pc, deadline, entry, timeout>>
  BY DEF thread
<1>3. EnabledIsScheduled'
  <2> SUFFICES ASSUME NEW id \in DOMAIN m_timers, m_timers[id].is_enabled, id # m_running_timer
               PROVE  \E u \in Timeouts' : u.timer_id = id /\ u.revision = m_timers[id].revision
    BY DEF EnabledIsScheduled
  <2>1. PICK u \in Timeouts : u.timer_id = id /\ u.revision = m_timers[id].revision
    BY DEF Inv, EnabledIsScheduled
  <2>2. IsLive(u)
    BY <2>1 DEF IsLive, SameRevision
  <2> QED
    BY <2>1, <2>2, <1>1
<1>4. TimersOK' /\ QueueOK' /\ RestOK'
  BY <1>1 DEF Inv, TimersOK, QueueOK, RestOK
<1>5. ThreadOK' /\ NoOversleep'
  BY <1>2 DEF Inv, ThreadOK, NoOversleep
<1>6. Running' /\ RemoveIsSynchronous' /\ Owned'
  BY SMTT(60), <1>2 DEF Inv, Running, RemoveIsSynchronous, Owned
<1> QED
  BY <1>3, <1>4, <1>5, <1>6 DEF Inv

\* The timer that starts to run was in the map with its closure, which goes with the
\* thread: a period timer's entry stays without it, a one-shot timer's goes.
LEMMA TimerStarts ==
  ASSUME Inv, NEW t \in Timeouts, IsLive(t), Pop(t), pc = "dispatch",
         timeout' = t, entry' = m_timers[t.timer_id],
         m_timers' = IF entry'.is_period
                       THEN [m_timers EXCEPT ![t.timer_id].closure = NULL]
                       ELSE WithoutTimer(t.timer_id),
         m_running_timer' = t.timer_id, pc' = "callback",
         UNCHANGED <<now, m_bStopRequested, last_id, deadline, call, stop, given, freed, removed>>
  PROVE  Inv'
<1> DEFINE id == t.timer_id
           old == m_timers[id]
           new == [old EXCEPT !.closure = NULL]
<1>1. /\ m_timeouts' \in [Timeouts' -> Nat \ {0}]
      /\ Timeouts' \subseteq Timeouts
      /\ \A u \in Timeouts : u # t => u \in Timeouts'
  BY Pops DEF Inv, QueueOK
<1>2. id \in DOMAIN m_timers /\ id \in 1..last_id /\ t \in TimeoutRecords /\ old \in Entries
  BY DEF IsLive, Inv, QueueOK, TimersOK
<1>3. m_running_timer = 0 /\ entry.closure = NULL
  BY DEF Inv, Running
<1>4. old.closure # NULL
  BY SMTT(60), <1>2, <1>3 DEF Inv, Owned, TimersOK
<1>5. /\ DOMAIN m_timers' \subseteq DOMAIN m_timers
      /\ \A i \in DOMAIN m_timers : i # id => i \in DOMAIN m_timers' /\ m_timers'[i] = m_timers[i]
      /\ id \in DOMAIN m_timers' => m_timers'[id] = new
      /\ id \in DOMAIN m_timers' <=> old.is_period
  BY <1>2 DEF WithoutTimer
<1> HIDE DEF old
<1>6. new \in Entries /\ new.closure = NULL /\ new.is_period = old.is_period
  BY <1>2 DEF Entries
<1>7. entry' = old
  BY DEF old
<1> HIDE DEF new
<1>8. TimersOK' /\ QueueOK'
  BY <1>1, <1>5, <1>6 DEF Inv, TimersOK, QueueOK
<1>9. ThreadOK' /\ RestOK'
  BY SMTT(60), <1>2, <1>7 DEF Inv, ThreadOK, RestOK, TimersOK
<1>10. NoOversleep'
  BY DEF NoOversleep
<1>11. EnabledIsScheduled'
  <2> SUFFICES ASSUME NEW i \in DOMAIN m_timers', m_timers'[i].is_enabled, i # id
               PROVE  \E u \in Timeouts' : u.timer_id = i /\ u.revision = m_timers'[i].revision
    BY DEF EnabledIsScheduled
  <2>1. i \in DOMAIN m_timers /\ m_timers'[i] = m_timers[i] /\ i # m_running_timer
    BY SMTT(60), <1>3, <1>5 DEF Inv, TimersOK
  <2>2. PICK u \in Timeouts : u.timer_id = i /\ u.revision = m_timers[i].revision
    BY <2>1 DEF Inv, EnabledIsScheduled
  <2> QED
    BY <2>1, <2>2, <1>1
<1>12. Running'
  BY SMTT(60), <1>2, <1>4, <1>5, <1>7 DEF Running, Inv, TimersOK
<1>13. RemoveIsSynchronous'
  BY <1>2, <1>5 DEF Inv, RemoveIsSynchronous
<1>14. Owned'
  <2>1. /\ old.closure \in given /\ old.closure \notin freed
        /\ \A i \in DOMAIN m_timers : i # id => m_timers[i].closure # old.closure
    BY <1>2, <1>4 DEF Inv, Owned, old
  <2>2. ASSUME NEW i \in DOMAIN m_timers', m_timers'[i].closure # NULL
        PROVE  i # id /\ i \in DOMAIN m_timers /\ m_timers'[i] = m_timers[i]
    BY <2>2, <1>5, <1>6
  <2>3. \A k \in given : \/ k \in freed \/ k = old.closure
                         \/ \E i \in DOMAIN m_timers' : m_timers'[i].closure = k
    <3> SUFFICES ASSUME NEW k \in given, k \notin freed, k # old.closure
                 PROVE  \E i \in DOMAIN m_timers' : m_timers'[i].closure = k
      OBVIOUS
    <3>1. k # NULL
      BY TimerConstants DEF Inv, RestOK
    <3>2. PICK i \in DOMAIN m_timers : m_timers[i].closure = k
      BY <3>1, <1>3 DEF Inv, Owned
    <3> QED
      BY <3>2, <1>5 DEF old
  <2>4. \A i \in DOMAIN m_timers' : m_timers'[i].closure = NULL => i = id
    BY SMTT(60), <1>3, <1>5 DEF Inv, Owned, TimersOK
  <2>5. \A i, j \in DOMAIN m_timers' :
          i # j /\ m_timers'[i].closure # NULL => m_timers'[i].closure # m_timers'[j].closure
    BY SMTT(60), <2>2, <1>5, <1>6 DEF Inv, Owned
  <2>6. \A i \in DOMAIN m_timers' : m_timers'[i].closure # NULL =>
          /\ m_timers'[i].closure \in given
          /\ m_timers'[i].closure \notin freed
          /\ m_timers'[i].closure # old.closure
    BY SMTT(60), <2>1, <2>2 DEF Inv, Owned
  <2> QED
    BY SMTT(60), <2>1, <2>3, <2>4, <2>5, <2>6, <1>7 DEF Inv, Owned
<1> QED
  BY <1>8, <1>9, <1>10, <1>11, <1>12, <1>13, <1>14 DEF Inv

\* One turn of the loop of DequeueTimeoutEntry
LEMMA DequeueTimeoutEntryInv ==
  ASSUME Inv, DequeueTimeoutEntry
  PROVE  Inv'
<1>1. /\ pc = "dispatch"
      /\ UNCHANGED <<now, m_bStopRequested, last_id, deadline, call, stop, given, freed, removed>>
  BY DEF DequeueTimeoutEntry
<1>2. CASE /\ pc' = "entry"
           /\ UNCHANGED <<m_timers, m_timeouts, m_running_timer, entry, timeout>>
  <2>1. Timeouts' = Timeouts
    BY <1>2 DEF Timeouts
  <2>2. TimersOK' /\ QueueOK' /\ RestOK'
    BY <1>1, <1>2, <2>1 DEF Inv, TimersOK, QueueOK, RestOK
  <2>3. ThreadOK' /\ NoOversleep'
    BY <1>1, <1>2 DEF Inv, ThreadOK, NoOversleep
  <2>4. EnabledIsScheduled' /\ Running' /\ RemoveIsSynchronous'
    BY <1>1, <1>2, <2>1 DEF Inv, EnabledIsScheduled, Running, RemoveIsSynchronous
  <2>5. Owned'
    BY SMTT(60), <1>1, <1>2 DEF Inv, Owned
  <2> QED
    BY <2>2, <2>3, <2>4, <2>5 DEF Inv
<1>3. ASSUME NEW t \in Timeouts, Pop(t), ~IsLive(t),
             UNCHANGED <<m_timers, m_running_timer, pc, entry, timeout>>
      PROVE  Inv'
  BY <1>1, <1>3, DroppedTimeout DEF thread
<1>4. ASSUME NEW t \in Timeouts, Pop(t), IsLive(t),
             timeout' = t, entry' = m_timers[t.timer_id],
             m_timers' = IF entry'.is_period
                           THEN [m_timers EXCEPT ![t.timer_id].closure = NULL]
                           ELSE WithoutTimer(t.timer_id),
             m_running_timer' = t.timer_id, pc' = "callback"
      PROVE  Inv'
  BY <1>1, <1>4, TimerStarts
<1> QED
  BY <1>2, <1>3, <1>4 DEF DequeueTimeoutEntry

\* The callback has returned: its closure is back in the map or deleted.
LEMMA DispatchAfterRunInv ==
  ASSUME Inv, DispatchAfterRun
  PROVE  Inv'
<1> DEFINE id == m_running_timer
           present == entry.is_period /\ id \in DOMAIN m_timers
           restore == present /\ m_timers[id].closure = NULL
           scheduled == present /\ m_timers[id].is_enabled
<1>1. /\ pc = "callback" /\ pc' = "dispatch"
      /\ m_running_timer' = 0 /\ entry' = NoEntry /\ timeout' = NoTimeout
      /\ UNCHANGED <<now, m_bStopRequested, last_id, deadline, call, stop, given, removed>>
  BY DEF DispatchAfterRun
<1>2. /\ m_timers' = IF restore THEN [m_timers EXCEPT ![id].closure = entry.closure]
                                ELSE m_timers
      /\ IF restore \/ (present /\ m_timers[id].closure = entry.closure)
           THEN UNCHANGED freed
           ELSE Delete(entry.closure)
      /\ IF scheduled
           THEN PushNextTimeout(id, m_timers[id].interval, m_timers[id].revision)
           ELSE UNCHANGED m_timeouts
  BY DEF DispatchAfterRun
<1>3. /\ id \in 1..last_id /\ entry.closure # NULL /\ entry.closure \in Closures
      /\ ~present => id \notin DOMAIN m_timers
  BY SMTT(60), <1>1 DEF Inv, Running, ThreadOK, TimersOK, Entries
<1>4. entry' \in Entries /\ timeout' \in TimeoutRecords /\ entry'.closure = NULL
  BY <1>1 DEF NoEntry, NoTimeout, Entries, TimeoutRecords
<1>5. restore => id \in DOMAIN m_timers
  OBVIOUS
<1>6. scheduled => id \in DOMAIN m_timers /\ m_timers[id].interval \in Nat /\ m_timers[id].revision \in Nat
  BY DEF Inv, TimersOK, Entries
<1>7. freed' = IF restore THEN freed ELSE freed \cup {entry.closure}
  BY SMTT(60), <1>2, <1>3 DEF Delete, Inv, Owned
<1>8. /\ DOMAIN m_timers' = DOMAIN m_timers
      /\ \A i \in DOMAIN m_timers : i # id \/ ~restore => m_timers'[i] = m_timers[i]
      /\ restore => m_timers'[id] = [m_timers[id] EXCEPT !.closure = entry.closure]
  BY <1>2
<1> DEFINE old == m_timers[id]
           new == [old EXCEPT !.closure = entry.closure]
<1>9. restore => /\ new \in Entries /\ new.closure = entry.closure
                 /\ new.is_enabled = old.is_enabled /\ new.revision = old.revision
  <2> SUFFICES ASSUME old \in Entries
               PROVE  /\ new \in Entries /\ new.closure = entry.closure
                      /\ new.is_enabled = old.is_enabled /\ new.revision = old.revision
    BY DEF Inv, TimersOK
  <2> HIDE DEF old
  <2> QED
    BY <1>3 DEF Entries
<1>10. /\ Timeouts \subseteq Timeouts'
       /\ scheduled => \E t \in Timeouts' : t.timer_id = id /\ t.revision = old.revision
       /\ QueueOK'
  <2>1. CASE scheduled
    <3> DEFINE t == NewTimeout(id, old.interval, old.revision)
    <3>1. m_timeouts' \in [Timeouts' -> Nat \ {0}] /\ Timeouts' = Timeouts \cup {t}
      BY <2>1, <1>2, Pushed DEF Inv
    <3>2. t \in TimeoutRecords /\ t.timer_id = id /\ t.revision = old.revision
      BY SMTT(60), <2>1, <1>3, <1>6 DEF NewTimeout, TimeoutRecords, Inv, QueueOK, TimersOK
    <3> HIDE DEF t
    <3> QED
      BY <3>1, <3>2, <1>1, <1>3 DEF Inv, QueueOK
  <2>2. CASE ~scheduled
    BY <2>2, <1>1, <1>2 DEF Inv, QueueOK, Timeouts
  <2> QED
    BY <2>1, <2>2
<1> HIDE DEF new
<1>11. TimersOK'
  BY <1>1, <1>8, <1>9 DEF Inv, TimersOK, new
<1>12. ThreadOK' /\ NoOversleep'
  BY SMTT(60), <1>1, <1>4 DEF Inv, ThreadOK, NoOversleep, TimersOK
<1>13. RestOK'
  BY <1>1, <1>3, <1>7 DEF Inv, RestOK
<1>14. EnabledIsScheduled'
  <2> SUFFICES ASSUME NEW i \in DOMAIN m_timers, m_timers'[i].is_enabled
               PROVE  \E t \in Timeouts' : t.timer_id = i /\ t.revision = m_timers'[i].revision
    BY <1>8 DEF EnabledIsScheduled
  <2>1. m_timers[i].is_enabled /\ m_timers'[i].revision = m_timers[i].revision
    BY <1>8, <1>9 DEF new
  <2>2. CASE i = id
    BY <2>1, <2>2, <1>3, <1>10
  <2>3. CASE i # id
    BY SMTT(60), <2>1, <2>3, <1>10 DEF Inv, EnabledIsScheduled
  <2> QED
    BY <2>2, <2>3
<1>15. Running' /\ RemoveIsSynchronous'
  BY SMTT(60), <1>1, <1>4, <1>8 DEF Inv, Running, RemoveIsSynchronous, RestOK
<1>16. Owned'
  <2>1. /\ entry.closure \in given /\ entry.closure \notin freed
        /\ \A i \in DOMAIN m_timers : m_timers[i].closure # entry.closure
    BY <1>3 DEF Inv, Owned
  <2>2. \A i \in DOMAIN m_timers :
          m_timers'[i].closure = IF restore /\ i = id THEN entry.closure ELSE m_timers[i].closure
    BY <1>8, <1>9 DEF new
  <2>3. \A i \in DOMAIN m_timers : m_timers'[i].closure # NULL
    BY <2>2, <1>3 DEF Inv, Owned
  <2>4. ASSUME NEW k \in given, k \notin freed'
        PROVE  \E i \in DOMAIN m_timers : m_timers'[i].closure = k
    <3>1. CASE k = entry.closure
      BY <3>1, <2>4, <2>2, <1>5, <1>7
    <3>2. CASE k # entry.closure
      <4>1. k \notin freed /\ k # NULL
        BY <2>4, <1>7, TimerConstants DEF Inv, RestOK
      <4>2. PICK i \in DOMAIN m_timers : m_timers[i].closure = k
        BY <3>2, <4>1 DEF Inv, Owned
      <4> QED
        BY <4>1, <4>2, <2>2
    <3> QED
      BY <3>1, <3>2
  <2>5. \A i \in DOMAIN m_timers : m_timers'[i].closure \in given /\ m_timers'[i].closure \notin freed'
    BY <2>1, <2>2, <2>3, <1>7 DEF Inv, Owned
  <2>6. \A i, j \in DOMAIN m_timers : i # j => m_timers'[i].closure # m_timers'[j].closure
    BY SMTT(60), <2>1, <2>2, <2>3 DEF Inv, Owned
  <2>7. freed' \subseteq given'
    BY <2>1, <1>1, <1>7 DEF Inv, Owned
  <2> QED
    BY <2>3, <2>4, <2>5, <2>6, <2>7, <1>1, <1>4, <1>8 DEF Owned
<1> QED
  BY <1>10, <1>11, <1>12, <1>13, <1>14, <1>15, <1>16 DEF Inv

--------------------------------------------------------------------------------
(* The other steps, and all of them *)

\* Neither the assertion before a method, nor Stop up to its Clear, nor time touches
\* timers, closures or the queue; Stop wakes the thread.
LEMMA OtherStepsInv ==
  ASSUME Inv, (\E c \in Callers : EnterCall(c)) \/ StopRequest \/ StopJoin \/ Tick
  PROVE  Inv'
<1>1. UNCHANGED <<m_timers, m_timeouts, m_running_timer, last_id, deadline, entry, timeout,
                  given, freed, removed>>
  BY DEF EnterCall, StopRequest, StopJoin, Tick, thread
<1>2. Timeouts' = Timeouts
  BY <1>1 DEF Timeouts
<1>3. /\ pc' = pc \/ pc' = "dispatch"
      /\ pc' = "callback" <=> pc = "callback"
  BY DEF EnterCall, StopRequest, StopJoin, Tick, thread, Signal
<1>4. now' \in Nat /\ now' >= now /\ now \in Nat
  BY DEF EnterCall, StopRequest, StopJoin, Tick, Inv, QueueOK
<1>5. /\ call' \in [Callers -> {"idle", "checked"}]
      /\ stop' \in {"running", "joining", "clearing", "stopped"}
      /\ m_bStopRequested' \in BOOLEAN
  <2>1. CASE \E c \in Callers : EnterCall(c)
    BY <2>1 DEF EnterCall, Inv, RestOK
  <2>2. CASE StopRequest \/ StopJoin \/ Tick
    BY <2>2 DEF StopRequest, StopJoin, Tick, Inv, RestOK
  <2> QED
    BY <2>1, <2>2
<1>6. NoOversleep'
  <2>1. CASE StopRequest
    BY <2>1 DEF StopRequest, Signal, NoOversleep
  <2>2. CASE ~StopRequest
    <3>1. pc' = pc /\ m_bStopRequested' = m_bStopRequested
      BY <2>2 DEF EnterCall, StopJoin, Tick, thread
    <3>2. deadline \in Nat
      BY DEF Inv, ThreadOK
    <3> QED
      BY <3>1, <3>2, <1>1, <1>2, <1>4 DEF Inv, NoOversleep
  <2> QED
    BY <2>1, <2>2
<1>7. TimersOK' /\ QueueOK' /\ RestOK'
  BY <1>1, <1>2, <1>4, <1>5 DEF Inv, TimersOK, QueueOK, RestOK
<1>8. ThreadOK'
  BY <1>1, <1>3 DEF Inv, ThreadOK
<1>9. EnabledIsScheduled' /\ Running' /\ RemoveIsSynchronous'
  BY <1>1, <1>2, <1>3 DEF Inv, EnabledIsScheduled, Running, RemoveIsSynchronous
<1>10. Owned'
  BY SMTT(60), <1>1 DEF Inv, Owned
<1> QED
  BY <1>6, <1>7, <1>8, <1>9, <1>10 DEF Inv

\* Stop's own Clear.
LEMMA StopClearInv ==
  ASSUME Inv, StopClear
  PROVE  Inv'
<1>1. /\ ClearInLock
      /\ UNCHANGED <<now, m_running_timer, m_bStopRequested, last_id, thread, call, given, removed>>
      /\ stop' = "stopped"
  BY DEF StopClear
<1>2. /\ (TimersOK /\ QueueOK /\ ThreadOK /\ NoOversleep)'
      /\ (EnabledIsScheduled /\ Running /\ Owned /\ RemoveIsSynchronous)'
      /\ freed' \subseteq Closures
  BY <1>1, ClearedInLock
<1>3. RestOK'
  BY <1>1, <1>2 DEF Inv, RestOK
<1> QED
  BY <1>2, <1>3 DEF Inv

\* A step that changes nothing.
LEMMA StutterInv ==
  ASSUME Inv, UNCHANGED vars
  PROVE  Inv'
<1>1. UNCHANGED <<now, m_timers, m_timeouts, m_running_timer, m_bStopRequested, last_id, pc,
                  deadline, entry, timeout, call, stop, given, freed, removed>>
  BY DEF vars, thread
<1>2. TimersOK' /\ QueueOK' /\ ThreadOK' /\ RestOK'
  BY <1>1 DEF Inv, TimersOK, QueueOK, ThreadOK, RestOK, Timeouts
<1>3. NoOversleep' /\ EnabledIsScheduled' /\ Running' /\ RemoveIsSynchronous'
  BY <1>1 DEF Inv, NoOversleep, EnabledIsScheduled, Running, RemoveIsSynchronous, Timeouts
<1>4. Owned'
  BY SMTT(60), <1>1 DEF Inv, Owned
<1> QED
  BY <1>2, <1>3, <1>4 DEF Inv

\* Every step keeps the invariant.
LEMMA NextInv == Inv /\ [Next]_vars => Inv'
<1> SUFFICES ASSUME Inv, [Next]_vars PROVE Inv'
  OBVIOUS
<1>1. ASSUME NEW c \in Callers, Method(c) PROVE Inv'
  BY <1>1, MethodInv DEF ByThreads
<1>2. CASE Method(TimerThread)
  BY <1>2, MethodInv DEF ByThreads
<1>3. CASE TimerThreadStep
  BY <1>3, EntryLoopInv, WaitReturnsInv, DequeueTimeoutEntryInv, DispatchAfterRunInv
     DEF TimerThreadStep
<1>4. CASE (\E c \in Callers : EnterCall(c)) \/ StopRequest \/ StopJoin \/ Tick
  BY <1>4, OtherStepsInv
<1>5. CASE StopClear
  BY <1>5, StopClearInv
<1>6. CASE UNCHANGED vars
  BY <1>6, StutterInv
<1> QED
  BY <1>1, <1>2, <1>3, <1>4, <1>5, <1>6 DEF Next

\* The invariant holds.
LEMMA Always == Spec => []Inv
BY InitInv, NextInv, PTL DEF Spec

\* For any number of callers, timers and closures: every callback is in the map, with the
\* thread that runs it, or deleted, and in one place only, so that none leaks or is
\* deleted twice or while it runs; and after RemoveTimer has returned to another thread
\* the timer neither runs nor ever will.
THEOREM CallbacksAreAlwaysOwned == Spec => []CallbacksAreOwned
<1>1. Inv => CallbacksAreOwned
  BY OwnedIsOwnership DEF Inv, CallbacksAreOwned
<1> QED
  BY <1>1, Always, PTL

--------------------------------------------------------------------------------
(* Revisions *)

\* A timeout is never ahead of its timer's revision.
NoneAhead ==
  \A t \in Timeouts :
    t.timer_id \in DOMAIN m_timers => t.revision <= m_timers[t.timer_id].revision

RevInv == NoneAhead /\ OldAreDiscardedUntilWrap

\* A step puts no timeout ahead if the timers that stay keep or raise their revisions, the
\* new ones have new ids, and what is pushed has its timer's revision.
LEMMA NoneGetsAhead ==
  ASSUME Inv, Inv', NoneAhead,
         \A i \in DOMAIN m_timers' :
           IF i \in DOMAIN m_timers THEN m_timers[i].revision <= m_timers'[i].revision
                                    ELSE i > last_id,
         \A t \in Timeouts' :
           t \in Timeouts
             \/ (t.timer_id \in DOMAIN m_timers' => t.revision <= m_timers'[t.timer_id].revision)
  PROVE  NoneAhead'
<1> SUFFICES ASSUME NEW t \in Timeouts', t.timer_id \in DOMAIN m_timers'
             PROVE  t.revision <= m_timers'[t.timer_id].revision
  BY DEF NoneAhead
<1>1. CASE t \in Timeouts
  <2>1. t.timer_id \in 1..last_id /\ t.revision \in Nat /\ last_id \in Nat
    BY <1>1 DEF Inv, QueueOK, TimersOK, TimeoutRecords
  <2>2. t.timer_id \in DOMAIN m_timers
    BY <2>1
  <2>3. m_timers[t.timer_id].revision \in Nat /\ m_timers'[t.timer_id].revision \in Nat
    BY <2>2 DEF Inv, TimersOK, Entries
  <2>4. t.revision <= m_timers[t.timer_id].revision
    BY <1>1, <2>2 DEF NoneAhead
  <2>5. m_timers[t.timer_id].revision <= m_timers'[t.timer_id].revision
    BY <2>2
  <2> QED
    BY <2>1, <2>3, <2>4, <2>5
<1>2. CASE t \notin Timeouts
  BY <1>2
<1> QED
  BY <1>1, <1>2

\* A timer's next timeout with a revision that is not ahead of it.
LEMMA PushedNotAhead ==
  ASSUME Inv, NEW id, NEW interval, NEW revision, PushNextTimeout(id, interval, revision),
         id \in DOMAIN m_timers' => revision <= m_timers'[id].revision
  PROVE  \A t \in Timeouts' :
           t \in Timeouts
             \/ (t.timer_id \in DOMAIN m_timers' => t.revision <= m_timers'[t.timer_id].revision)
<1>1. Timeouts' = Timeouts \cup {NewTimeout(id, interval, revision)}
  BY Pushed DEF Inv
<1>2. /\ NewTimeout(id, interval, revision).revision = revision
      /\ NewTimeout(id, interval, revision).timer_id = id
  BY DEF NewTimeout
<1> QED
  BY <1>1, <1>2

\* The methods push what they have just written into the map.
LEMMA MethodRevisions ==
  ASSUME Inv, Inv', NoneAhead, NEW by \in ByThreads, Method(by)
  PROVE  NoneAhead' /\ UNCHANGED <<m_running_timer, entry, timeout>>
<1>0. \A id \in DOMAIN m_timers : m_timers[id] \in Entries /\ m_timers[id].revision \in Nat
  BY DEF Inv, TimersOK, Entries
<1>1. ASSUME NEW i \in Intervals, NEW p \in BOOLEAN, AddTimer(by, i, p)
      PROVE  NoneAhead'
  <2>1. /\ last_id' = last_id + 1 /\ last_id \in Nat
        /\ PushNextTimeout(last_id', i, 0)
    BY <1>1 DEF AddTimer, SetNextTimeout, Inv, TimersOK
  <2>2. PICK c : m_timers' = [id \in DOMAIN m_timers \cup {last_id'} |->
            IF id = last_id'
              THEN [closure |-> c, interval |-> i, is_enabled |-> TRUE,
                    is_period |-> p, revision |-> 0]
              ELSE m_timers[id]]
    BY <1>1 DEF AddTimer
  <2>3. last_id' \notin DOMAIN m_timers /\ last_id' > last_id
    BY <2>1 DEF Inv, TimersOK
  <2>4. m_timers'[last_id'].revision = 0
    BY <2>2
  <2>5. \A id \in DOMAIN m_timers' :
           IF id \in DOMAIN m_timers THEN m_timers[id].revision <= m_timers'[id].revision
                                     ELSE id > last_id
    BY <1>0, <2>2, <2>3
  <2>6. \A t \in Timeouts' :
          t \in Timeouts
            \/ (t.timer_id \in DOMAIN m_timers' => t.revision <= m_timers'[t.timer_id].revision)
    BY <2>1, <2>4, PushedNotAhead
  <2> QED
    BY <2>5, <2>6, NoneGetsAhead
<1>2. ASSUME NEW id \in 1..last_id, AsyncRemoveTimer(by, id) \/ RemoveTimer(by, id)
      PROVE  NoneAhead'
  BY <1>2 DEF AsyncRemoveTimer, RemoveTimer, AsyncRemoveTimerInLock, WithoutTimer,
              NoneAhead, Timeouts
<1>3. ASSUME NEW id \in 1..last_id, NEW i \in Intervals,
             NEW c \in {NULL} \cup (Closures \ given), ModifyTimer(by, id, i, c)
      PROVE  NoneAhead'
  <2> DEFINE old == m_timers[id]
             new == [old EXCEPT !.interval = i, !.revision = @ + 1,
                                !.closure = IF c = NULL THEN @ ELSE c]
  <2>1. /\ id \in DOMAIN m_timers /\ old.revision \in Nat
        /\ m_timers' = [m_timers EXCEPT ![id] = new]
        /\ IF old.is_enabled THEN SetNextTimeout(by, id, i, new.revision)
                             ELSE UNCHANGED <<m_timeouts, pc>>
    BY <1>0, <1>3 DEF ModifyTimer
  <2>2. new.revision = old.revision + 1
    BY <1>0, <2>1 DEF Entries
  <2> HIDE DEF new
  <2>3. /\ DOMAIN m_timers' = DOMAIN m_timers
        /\ m_timers'[id] = new
        /\ \A j \in DOMAIN m_timers : j # id => m_timers'[j] = m_timers[j]
    BY <2>1
  <2>4. \A j \in DOMAIN m_timers' :
           IF j \in DOMAIN m_timers THEN m_timers[j].revision <= m_timers'[j].revision
                                    ELSE j > last_id
    BY SMTT(60), <1>0, <2>1, <2>2, <2>3
  <2>5. \A t \in Timeouts' :
          t \in Timeouts
            \/ (t.timer_id \in DOMAIN m_timers' => t.revision <= m_timers'[t.timer_id].revision)
    <3>1. CASE old.is_enabled
      BY SMTT(60), <3>1, <2>1, <2>2, <2>3, PushedNotAhead DEF SetNextTimeout
    <3>2. CASE ~old.is_enabled
      BY <3>2, <2>1 DEF Timeouts
    <3> QED
      BY <3>1, <3>2
  <2> QED
    BY <2>4, <2>5, NoneGetsAhead
<1>4. ASSUME NEW id \in 1..last_id, DisableTimer(by, id)
      PROVE  NoneAhead'
  <2> DEFINE off == [m_timers[id] EXCEPT !.is_enabled = FALSE]
             new == [off EXCEPT !.revision = @ + 1]
  <2>1. /\ id \in DOMAIN m_timers
        /\ m_timers' = [m_timers EXCEPT ![id].is_enabled = FALSE, ![id].revision = @ + 1]
        /\ Timeouts' = Timeouts
    BY <1>4 DEF DisableTimer, Timeouts
  <2>2. /\ DOMAIN m_timers' = DOMAIN m_timers
        /\ m_timers'[id] = new
        /\ \A i \in DOMAIN m_timers : i # id => m_timers'[i] = m_timers[i]
    BY <2>1
  <2>3. off.revision = m_timers[id].revision /\ m_timers[id].revision \in Nat /\ off \in Entries
    BY <1>0, <2>1 DEF Entries
  <2> HIDE DEF off
  <2>4. new.revision = m_timers[id].revision + 1
    BY <2>1, <2>3 DEF Entries
  <2> HIDE DEF new
  <2>5. \A j \in DOMAIN m_timers' :
           IF j \in DOMAIN m_timers THEN m_timers[j].revision <= m_timers'[j].revision
                                    ELSE j > last_id
    BY SMTT(60), <1>0, <2>1, <2>2, <2>3, <2>4
  <2> QED
    BY <2>1, <2>5, NoneGetsAhead
<1>5. ASSUME NEW id \in 1..last_id, EnableTimer(by, id)
      PROVE  NoneAhead'
  <2>1. /\ id \in DOMAIN m_timers
        /\ m_timers' = [m_timers EXCEPT ![id].is_enabled = TRUE]
        /\ PushNextTimeout(id, m_timers[id].interval, m_timers[id].revision)
    BY <1>5 DEF EnableTimer, SetNextTimeout
  <2> DEFINE new == [m_timers[id] EXCEPT !.is_enabled = TRUE]
  <2>2. /\ DOMAIN m_timers' = DOMAIN m_timers
        /\ m_timers'[id] = new
        /\ \A i \in DOMAIN m_timers : i # id => m_timers'[i] = m_timers[i]
    BY <2>1
  <2>3. new.revision = m_timers[id].revision
    BY <1>0, <2>1 DEF Entries
  <2> HIDE DEF new
  <2>4. \A j \in DOMAIN m_timers' :
           IF j \in DOMAIN m_timers THEN m_timers[j].revision <= m_timers'[j].revision
                                    ELSE j > last_id
    BY SMTT(60), <1>0, <2>1, <2>2, <2>3
  <2>5. \A t \in Timeouts' :
          t \in Timeouts
            \/ (t.timer_id \in DOMAIN m_timers' => t.revision <= m_timers'[t.timer_id].revision)
    BY <2>1, <2>2, <2>4, PushedNotAhead
  <2> QED
    BY <2>4, <2>5, NoneGetsAhead
<1>6. ASSUME NEW id \in 1..last_id, UnknownTimer(by, id)
      PROVE  NoneAhead'
  BY <1>6 DEF UnknownTimer, NoneAhead, Timeouts
<1>7. ASSUME Clear(by) PROVE NoneAhead'
  BY <1>7 DEF Clear, ClearInLock, NoTimeouts, NoneAhead, Timeouts
<1>8. \E op : Calls(by, op)
  BY ZenonT(60) DEF Method, AddTimer, AsyncRemoveTimer, RemoveTimer, ModifyTimer,
     DisableTimer, EnableTimer, UnknownTimer, Clear
<1>9. UNCHANGED <<m_running_timer, entry, timeout>>
  BY <1>8 DEF Calls
<1>10. NoneAhead'
  BY <1>1, <1>2, <1>3, <1>4, <1>5, <1>6, <1>7 DEF Method
<1> QED
  BY <1>9, <1>10

\* Two numbers of the same remainder are equal or a whole modulus apart.
LEMMA SameRemainder ==
  ASSUME NEW m \in Nat \ {0}, NEW r \in Nat, NEW s \in Nat, r <= s, r % m = s % m
  PROVE  r = s \/ r + m <= s
<1>1. r = m * (r \div m) + (r % m) /\ s = m * (s \div m) + (s % m)
  BY SMTT(60)
<1>2. r \div m \in Nat /\ s \div m \in Nat
  BY SMTT(60)
<1>3. CASE r \div m = s \div m
  BY <1>1, <1>3
<1>4. CASE r \div m < s \div m
  <2>1. m * (s \div m) >= m * (r \div m) + m
    BY SMTT(60), <1>2, <1>4
  <2> QED
    BY <1>1, <1>2, <2>1
<1>5. CASE r \div m > s \div m
  <2>1. m * (r \div m) >= m * (s \div m) + m
    BY SMTT(60), <1>2, <1>5
  <2> QED
    BY <1>1, <1>2, <2>1
<1> QED
  BY <1>2, <1>3, <1>4, <1>5

\* A timeout found live has the timer's revision, or one that came round.
LEMMA LiveIsCurrent ==
  ASSUME Inv, NoneAhead, NEW t \in Timeouts, IsLive(t)
  PROVE  \/ t.revision = m_timers[t.timer_id].revision
         \/ t.revision + RevMod <= m_timers[t.timer_id].revision
<1>1. /\ t.revision \in Nat /\ m_timers[t.timer_id].revision \in Nat /\ RevMod \in Nat \ {0}
      /\ t.revision <= m_timers[t.timer_id].revision
      /\ t.revision % RevMod = m_timers[t.timer_id].revision % RevMod
  BY SMTT(60), TimerConstants DEF Inv, QueueOK, TimersOK, TimeoutRecords, Entries,
     IsLive, NoneAhead, SameRevision
<1> QED
  BY <1>1, SameRemainder

\* The timer thread takes revisions over as they are.
LEMMA TimerThreadRevisions ==
  ASSUME Inv, Inv', RevInv, TimerThreadStep
  PROVE  RevInv'
<1>1. CASE EntryLoop \/ WaitReturns
  BY <1>1 DEF EntryLoop, WaitReturns, RevInv, NoneAhead, OldAreDiscardedUntilWrap, Timeouts
<1>2. CASE DequeueTimeoutEntry
  <2>1. CASE UNCHANGED <<m_timers, m_timeouts, m_running_timer, entry, timeout>>
    BY <2>1 DEF RevInv, NoneAhead, OldAreDiscardedUntilWrap, Timeouts
  <2>2. ASSUME NEW t \in Timeouts, Pop(t), UNCHANGED <<m_timers, m_running_timer, entry, timeout>>
        PROVE  RevInv'
    <3>1. Timeouts' \subseteq Timeouts
      BY <2>2, Pops DEF Inv, QueueOK
    <3> QED
      BY <2>2, <3>1 DEF RevInv, NoneAhead, OldAreDiscardedUntilWrap
  <2>3. ASSUME NEW t \in Timeouts, Pop(t), IsLive(t), timeout' = t, entry' = m_timers[t.timer_id],
               m_timers' = IF entry'.is_period
                             THEN [m_timers EXCEPT ![t.timer_id].closure = NULL]
                             ELSE WithoutTimer(t.timer_id)
        PROVE  RevInv'
    <3>1. Timeouts' \subseteq Timeouts
      BY <2>3, Pops DEF Inv, QueueOK
    <3>2. \/ t.revision = m_timers[t.timer_id].revision
          \/ t.revision + RevMod <= m_timers[t.timer_id].revision
      BY <2>3, LiveIsCurrent DEF RevInv
    <3>3. /\ DOMAIN m_timers' \subseteq DOMAIN m_timers
          /\ \A i \in DOMAIN m_timers' :
               \/ m_timers'[i] = m_timers[i]
               \/ m_timers'[i] = [m_timers[i] EXCEPT !.closure = NULL]
      BY <2>3 DEF WithoutTimer
    <3>4. \A i \in DOMAIN m_timers' : m_timers'[i].revision = m_timers[i].revision
      BY <3>3 DEF Inv, TimersOK, Entries
    <3> QED
      BY <2>3, <3>1, <3>2, <3>3, <3>4 DEF RevInv, NoneAhead, OldAreDiscardedUntilWrap
  <2> QED
    BY <1>2, <2>1, <2>2, <2>3 DEF DequeueTimeoutEntry
<1>3. CASE DispatchAfterRun
  <2> DEFINE id == m_running_timer
             present == entry.is_period /\ id \in DOMAIN m_timers
             restore == present /\ m_timers[id].closure = NULL
  <2>1. /\ m_running_timer' = 0
        /\ m_timers' = IF restore THEN [m_timers EXCEPT ![id].closure = entry.closure]
                                  ELSE m_timers
        /\ IF present /\ m_timers[id].is_enabled
             THEN PushNextTimeout(id, m_timers[id].interval, m_timers[id].revision)
             ELSE UNCHANGED m_timeouts
    BY <1>3 DEF DispatchAfterRun
  <2>2. /\ DOMAIN m_timers' = DOMAIN m_timers
        /\ \A i \in DOMAIN m_timers' :
             \/ m_timers'[i] = m_timers[i]
             \/ m_timers'[i] = [m_timers[i] EXCEPT !.closure = entry.closure]
    BY <2>1
  <2>3. \A i \in DOMAIN m_timers' :
          m_timers'[i].revision = m_timers[i].revision /\ m_timers[i].revision \in Nat
    BY <2>2 DEF Inv, TimersOK, Entries
  <2>4. \A t \in Timeouts' :
          t \in Timeouts
            \/ (t.timer_id \in DOMAIN m_timers' => t.revision <= m_timers'[t.timer_id].revision)
    <3>1. CASE present /\ m_timers[id].is_enabled
      BY SMTT(60), <2>1, <2>2, <2>3, <3>1, PushedNotAhead
    <3>2. CASE ~(present /\ m_timers[id].is_enabled)
      BY <2>1, <3>2 DEF Timeouts
    <3> QED
      BY <3>1, <3>2
  <2>5. NoneAhead'
    BY SMTT(60), <2>2, <2>3, <2>4, NoneGetsAhead DEF RevInv
  <2> QED
    BY <2>1, <2>5 DEF RevInv, OldAreDiscardedUntilWrap
<1> QED
  BY <1>1, <1>2, <1>3 DEF TimerThreadStep

\* Every step runs a timer from a timeout of its revision, or of one that came round.
LEMMA NextRevisions == Inv /\ Inv' /\ RevInv /\ [Next]_vars => RevInv'
<1> SUFFICES ASSUME Inv, Inv', RevInv, [Next]_vars PROVE RevInv'
  OBVIOUS
<1>1. ASSUME NEW by \in ByThreads, Method(by) PROVE RevInv'
  <2>1. NoneAhead' /\ UNCHANGED <<m_running_timer, entry, timeout>>
    BY <1>1, MethodRevisions DEF RevInv
  <2> QED
    BY <2>1 DEF RevInv, OldAreDiscardedUntilWrap
<1>2. CASE TimerThreadStep
  BY <1>2, TimerThreadRevisions
<1>3. CASE (\E c \in Callers : EnterCall(c)) \/ StopRequest \/ StopJoin \/ Tick \/ UNCHANGED vars
  BY <1>3 DEF EnterCall, StopRequest, StopJoin, Tick, vars, thread, RevInv, NoneAhead,
              OldAreDiscardedUntilWrap, Timeouts
<1>4. CASE StopClear
  BY <1>4 DEF StopClear, ClearInLock, thread, NoTimeouts, RevInv, NoneAhead,
              OldAreDiscardedUntilWrap, Timeouts
<1> QED
  BY <1>1, <1>2, <1>3, <1>4 DEF Next, ByThreads

\* For any callers, timers and intervals, whatever the cast of a wait to int makes of it
\* and however often a uint8_t revision comes round: an enabled timer is in the queue with
\* its present revision, the thread sleeps past no timeout and not through Stop, and a
\* timer runs from no outdated timeout but one a whole round of revisions old.
THEOREM TimersAreAlwaysScheduled == Spec => []TimersAreScheduled
<1>1. Init => RevInv
  BY QueueEmpty DEF Init, RevInv, NoneAhead, OldAreDiscardedUntilWrap, Timeouts
<1>2. Inv /\ Inv' /\ RevInv /\ [Next]_vars => RevInv'
  BY NextRevisions
<1>3. Inv /\ RevInv => TimersAreScheduled
  BY Types DEF Inv, RevInv, TimersAreScheduled
<1> QED
  BY <1>1, <1>2, <1>3, Always, PTL DEF Spec

--------------------------------------------------------------------------------
(* ThreadPool for any finite set of threads, any size and any tasks: each  *)
(* accepted task is in one place, the count of workers is right, nothing   *)
(* is left when it is zero, no task waits for a sleeper, and the pool      *)
(* implements Executor.                                                    *)
(*                                                                         *)
(* The fact behind them is Leaving: once a worker has decided to leave,    *)
(* the queue is empty and stays so, for running_ is false and no Start     *)
(* goes through before the last worker has gone.                           *)

\* Exactly the workers that run a task have one.
HasJob ==
  \A w \in Threads :
    IF worker[w] \in {"run", "run_last"} THEN \E t \in Tasks : job[w] = {t} ELSE job[w] = {}

\* A worker on its way out leaves no task behind.
Leaving == In({"run_last", "leave"}) # {} => ~running /\ task = <<>>

PoolInv ==
  /\ PoolTypes /\ HasJob /\ TasksRunOnce
  /\ CountsWorkers /\ Leaving /\ ZeroWorkersMeansDrained /\ NoTaskWaitsForASleeper

--------------------------------------------------------------------------------
(* Counting workers *)

\* Sets of threads are counted by natural numbers, and only none is counted as zero.
LEMMA Counted ==
  ASSUME NEW S \in SUBSET Threads
  PROVE  /\ IsFiniteSet(S) /\ Cardinality(S) \in Nat
         /\ Cardinality(S) = 0 <=> S = {}
BY PoolAssumption, FS_Subset, FS_CardinalityType, FS_EmptySet

\* One thread more, one less.
LEMMA CountOne ==
  ASSUME NEW S \in SUBSET Threads, NEW w \in Threads
  PROVE  /\ w \notin S => Cardinality(S \cup {w}) = Cardinality(S) + 1
         /\ w \in S => Cardinality(S \ {w}) = Cardinality(S) - 1
BY Counted, FS_AddElement, FS_RemoveElement

\* The workers in some places after one of them has moved.
LEMMA MoveOne ==
  ASSUME NEW w \in Threads, NEW p, NEW S, worker \in [Threads -> Places],
         worker' = [worker EXCEPT ![w] = p]
  PROVE  In(S)' = IF p \in S THEN In(S) \cup {w} ELSE In(S) \ {w}
BY DEF In

\* Waking one sleeper at most.
LEMMA WakeOne ==
  ASSUME PoolTypes, NEW W \in NotifyOne(In({"sleep"})), Wake(W)
  PROVE  /\ W \subseteq In({"sleep"})
         /\ worker' \in [Threads -> Places]
         /\ \A S : "sleep" \notin S /\ "ready" \notin S => In(S)' = In(S)
         /\ In(Alive)' = In(Alive)
         /\ In({"sleep"})' = In({"sleep"}) \ W
         /\ In({"ready"})' = In({"ready"}) \cup W
         /\ In({"sleep"}) # {} => \E w \in Threads : W = {w} /\ w \notin In({"ready"})
<1>1. W \subseteq In({"sleep"}) /\ (In({"sleep"}) # {} => \E w \in In({"sleep"}) : W = {w})
  BY DEF NotifyOne
<1>2. \A w \in Threads : worker'[w] = IF w \in W THEN "ready" ELSE worker[w]
  BY DEF Wake
<1>3. worker' \in [Threads -> Places]
  BY DEF Wake, PoolTypes, Places
<1> QED
  BY <1>1, <1>2, <1>3 DEF In, Alive

--------------------------------------------------------------------------------
(* Where the tasks are *)

\* TasksRunOnce task by task.
OnePlace ==
  /\ \A t \in Tasks :
       t \in accepted <=> (t \in Queued \/ t \in done \/ \E w \in Threads : t \in job[w])
  /\ \A i, j \in 1..Len(task) : task[i] = task[j] => i = j
  /\ \A t \in Tasks : ~(t \in Queued /\ t \in done)
  /\ \A w \in Threads, t \in Tasks : t \in job[w] => t \notin Queued /\ t \notin done
  /\ \A v, w \in Threads, t \in Tasks : t \in job[v] /\ t \in job[w] => v = w

\* The two ways to say it.
LEMMA OnePlaceIsOnce == PoolTypes => (TasksRunOnce <=> OnePlace)
<1> SUFFICES ASSUME PoolTypes PROVE TasksRunOnce <=> OnePlace
  OBVIOUS
<1>1. Queued \in SUBSET Tasks
  BY SMTT(60) DEF Queued, PoolTypes
<1>2. \A t : t \in UNION {job[w] : w \in Threads} <=> \E w \in Threads : t \in job[w]
  OBVIOUS
<1>3. \A w \in Threads : job[w] \in SUBSET Tasks
  BY DEF PoolTypes
<1> HIDE DEF Queued
<1>4. (accepted = Queued \cup done \cup UNION {job[w] : w \in Threads})
        <=> \A t \in Tasks :
              t \in accepted <=> (t \in Queued \/ t \in done \/ \E w \in Threads : t \in job[w])
  BY <1>1, <1>2, <1>3 DEF PoolTypes
<1>5. Queued \cap done = {} <=> \A t \in Tasks : ~(t \in Queued /\ t \in done)
  BY <1>1
<1>6. (\A w \in Threads : job[w] \cap (Queued \cup done) = {})
        <=> \A w \in Threads, t \in Tasks : t \in job[w] => t \notin Queued /\ t \notin done
  BY <1>3
<1>7. (\A v, w \in Threads : v # w => job[v] \cap job[w] = {})
        <=> \A v, w \in Threads, t \in Tasks : t \in job[v] /\ t \in job[w] => v = w
  BY <1>3
<1> QED
  BY <1>4, <1>5, <1>6, <1>7 DEF TasksRunOnce, OnePlace

\* The same after a step.
LEMMA OnePlaceIsOnceNext == PoolTypes' => (TasksRunOnce' <=> OnePlace')
BY OnePlaceIsOnce, PTL

\* The queue after a push.
LEMMA QueuedAfterPush ==
  ASSUME PoolTypes, NEW t \in Tasks, task' = Append(task, t)
  PROVE  Queued' = Queued \cup {t} /\ task' \in Seq(Tasks)
BY SMTT(60) DEF PoolTypes, Queued

\* The queue after a pop: the head is gone, and was there once.
LEMMA QueuedAfterPop ==
  ASSUME PoolTypes, OnePlace, task # <<>>, task' = Tail(task)
  PROVE  /\ Head(task) \in Tasks /\ task' \in Seq(Tasks)
         /\ Head(task) \in Queued
         /\ Queued' = Queued \ {Head(task)}
         /\ Len(task') = Len(task) - 1
         /\ \A i, j \in 1..Len(task') : task'[i] = task'[j] => i = j
<1>1. /\ Head(task) \in Tasks /\ Tail(task) \in Seq(Tasks)
      /\ Len(Tail(task)) = Len(task) - 1
      /\ \A i \in 1..Len(Tail(task)) : Tail(task)[i] = task[i + 1]
      /\ Head(task) = task[1]
      /\ Len(task) \in Nat \ {0}
  BY SMTT(60) DEF PoolTypes
<1>2. \A i, j \in 1..Len(task) : task[i] = task[j] => i = j
  BY DEF OnePlace
<1>3. Head(task) \in Queued
  BY SMTT(60), <1>1 DEF Queued
<1>4. Queued' = Queued \ {Head(task)}
  <2>1. \A x : x \in Queued' => x \in Queued \ {Head(task)}
    BY SMTT(60), <1>1, <1>2 DEF Queued
  <2>2. ASSUME NEW x \in Queued, x # Head(task) PROVE x \in Queued'
    <3>1. PICK i \in 1..Len(task) : x = task[i]
      BY DEF Queued
    <3>2. i - 1 \in 1..Len(Tail(task)) /\ Tail(task)[i - 1] = x
      BY SMTT(60), <1>1, <2>2, <3>1
    <3> QED
      BY <3>2 DEF Queued
  <2> QED
    BY <2>1, <2>2
<1>5. \A i, j \in 1..Len(task') : task'[i] = task'[j] => i = j
  BY SMTT(60), <1>1, <1>2
<1> QED
  BY <1>1, <1>3, <1>4, <1>5

\* Steps that move no task.
LEMMA TasksStay ==
  ASSUME PoolInv, UNCHANGED <<task, job, accepted, done>>
  PROVE  TasksRunOnce'
BY SMTT(60) DEF PoolInv, TasksRunOnce, Queued

--------------------------------------------------------------------------------
(* The steps *)

\* No worker and no task.
LEMMA PoolInitInv == PoolInit => PoolInv
<1> SUFFICES ASSUME PoolInit PROVE PoolInv
  OBVIOUS
<1>1. <<>> \in Seq(Tasks) /\ Len(<<>>) = 0
  BY SMTT(60)
<1>2. PoolTypes /\ HasJob
  BY <1>1 DEF PoolInit, PoolTypes, HasJob, Places
<1>3. OnePlace
  BY <1>1 DEF PoolInit, OnePlace, Queued
<1>4. \A S : "none" \notin S => In(S) = {}
  BY DEF PoolInit, In
<1>5. CountsWorkers
  BY <1>4, FS_EmptySet DEF PoolInit, CountsWorkers, Alive
<1>6. Leaving /\ ZeroWorkersMeansDrained /\ NoTaskWaitsForASleeper
  BY <1>4 DEF PoolInit, Leaving, ZeroWorkersMeansDrained, NoTaskWaitsForASleeper
<1> QED
  BY <1>2, <1>3, <1>5, <1>6, OnePlaceIsOnce DEF PoolInv

\* PushTask: the task is new, and wakes a sleeper if there is one.
LEMMA PushTaskInv ==
  ASSUME PoolInv, NEW t \in Tasks, PushTask(t), ~UNCHANGED PoolVars
  PROVE  PoolInv'
<1>1. /\ running /\ t \notin accepted
      /\ task' = Append(task, t) /\ accepted' = accepted \cup {t}
      /\ UNCHANGED <<running, worker_number, threads, job, control, done>>
  BY DEF PushTask
<1>2. PICK W \in NotifyOne(In({"sleep"})) : Wake(W)
  BY DEF PushTask
<1>3. Queued' = Queued \cup {t} /\ task' \in Seq(Tasks)
  BY <1>1, QueuedAfterPush DEF PoolInv
<1>4. PoolTypes'
  BY <1>1, <1>2, <1>3, WakeOne DEF PoolInv, PoolTypes
<1>5. HasJob'
  BY <1>1, <1>2 DEF PoolInv, PoolTypes, HasJob, Wake, NotifyOne, In
<1>6. OnePlace'
  <2>1. OnePlace
    BY OnePlaceIsOnce DEF PoolInv
  <2>2. t \notin Queued /\ t \notin done /\ \A w \in Threads : t \notin job[w]
    BY <1>1, <2>1 DEF OnePlace
  <2>3. \A i, j \in 1..Len(task') : task'[i] = task'[j] => i = j
    BY SMTT(60), <1>1, <2>1, <2>2 DEF OnePlace, Queued, PoolInv, PoolTypes
  <2> QED
    BY SMTT(60), <1>1, <1>3, <2>1, <2>2, <2>3 DEF OnePlace
<1>7. CountsWorkers'
  BY <1>1, <1>2, WakeOne DEF PoolInv, CountsWorkers
<1>8. Leaving' /\ ZeroWorkersMeansDrained'
  <2>1. In({"run_last", "leave"})' = In({"run_last", "leave"})
    BY <1>2, WakeOne DEF PoolInv
  <2> QED
    BY <1>1, <2>1 DEF PoolInv, Leaving, ZeroWorkersMeansDrained
<1>9. NoTaskWaitsForASleeper'
  <2> SUFFICES ASSUME In({"sleep"})' # {}
               PROVE  running' /\ Len(task') <= Cardinality(In({"ready"})')
    BY DEF NoTaskWaitsForASleeper
  <2>1. PICK w \in Threads : W = {w} /\ w \notin In({"ready"})
    BY <1>2, WakeOne DEF PoolInv
  <2>2. Cardinality(In({"ready"})') = Cardinality(In({"ready"})) + 1
    BY SMTT(60), <1>2, <2>1, WakeOne, CountOne DEF PoolInv, In
  <2>3. Len(task') = Len(task) + 1 /\ Len(task) <= Cardinality(In({"ready"}))
    BY SMTT(60), <1>1, <1>2, WakeOne DEF PoolInv, PoolTypes, NoTaskWaitsForASleeper
  <2>4. Len(task) \in Nat /\ Cardinality(In({"ready"})) \in Nat
    BY SMTT(60), Counted DEF PoolInv, PoolTypes, In
  <2> QED
    BY SMTT(60), <1>1, <2>2, <2>3, <2>4
<1> QED
  BY <1>4, <1>5, <1>6, <1>7, <1>8, <1>9, OnePlaceIsOnceNext DEF PoolInv

\* A worker that goes from one place of Alive to another is still counted.
LEMMA StillCounted ==
  ASSUME PoolInv, NEW w \in Threads, NEW p \in Alive, worker[w] \in Alive,
         worker' = [worker EXCEPT ![w] = p], UNCHANGED worker_number
  PROVE  CountsWorkers'
<1>1. In(Alive)' = In(Alive)
  BY DEF PoolInv, PoolTypes, In
<1> QED
  BY <1>1 DEF PoolInv, CountsWorkers

\* TakeTask with nothing to take: the worker sleeps or leaves.
LEMMA TakeNothingInv ==
  ASSUME PoolInv, NEW w \in Threads, TakeTask(w), task = <<>>
  PROVE  PoolInv'
<1> DEFINE p == IF running THEN "sleep" ELSE "leave"
<1>1. /\ worker[w] = "ready" /\ worker' = [worker EXCEPT ![w] = p]
      /\ UNCHANGED <<task, job, running, worker_number, accepted, done>>
  BY DEF TakeTask, PoolInv, PoolTypes
<1>2. p \in {"sleep", "leave"} /\ (p = "leave" => ~running) /\ (p = "sleep" => running)
  OBVIOUS
<1> HIDE DEF p
<1>3. PoolTypes' /\ HasJob'
  BY <1>1, <1>2 DEF PoolInv, PoolTypes, HasJob, Places
<1>4. CountsWorkers'
  BY <1>1, <1>2, StillCounted DEF Alive
<1>5. Leaving' /\ ZeroWorkersMeansDrained'
  BY <1>1, <1>2 DEF PoolInv, PoolTypes, Leaving, ZeroWorkersMeansDrained, In
<1>6. NoTaskWaitsForASleeper'
  <2>1. Cardinality(In({"ready"})') \in Nat /\ Len(task') = 0
    BY SMTT(60), <1>1, Counted DEF In
  <2>2. In({"sleep"})' # {} => running'
    BY <1>1, <1>2 DEF PoolInv, PoolTypes, NoTaskWaitsForASleeper, In
  <2> QED
    BY <2>1, <2>2 DEF NoTaskWaitsForASleeper
<1> QED
  BY <1>1, <1>3, <1>4, <1>5, <1>6, TasksStay DEF PoolInv

\* TakeTask with a task: it goes from the queue to the worker.
LEMMA TakeTaskInv ==
  ASSUME PoolInv, NEW w \in Threads, TakeTask(w), task # <<>>
  PROVE  PoolInv'
<1> DEFINE p == IF running \/ Tail(task) # <<>> THEN "run" ELSE "run_last"
<1>1. /\ worker[w] = "ready" /\ worker' = [worker EXCEPT ![w] = p]
      /\ task' = Tail(task) /\ job' = [job EXCEPT ![w] = {Head(task)}]
      /\ UNCHANGED <<running, worker_number, accepted, done>>
  BY DEF TakeTask
<1>2. p \in {"run", "run_last"} /\ (p = "run_last" => ~running /\ task' = <<>>)
  BY <1>1
<1> HIDE DEF p
<1>3. /\ Head(task) \in Tasks /\ task' \in Seq(Tasks) /\ Head(task) \in Queued
      /\ Queued' = Queued \ {Head(task)} /\ Len(task') = Len(task) - 1
      /\ \A i, j \in 1..Len(task') : task'[i] = task'[j] => i = j
  BY <1>1, QueuedAfterPop, OnePlaceIsOnce DEF PoolInv
<1>4. PoolTypes' /\ HasJob'
  BY <1>1, <1>2, <1>3 DEF PoolInv, PoolTypes, HasJob, Places
<1>5. OnePlace'
  <2>1. OnePlace
    BY OnePlaceIsOnce DEF PoolInv
  <2>2. job[w] = {} /\ \A v \in Threads : job'[v] = IF v = w THEN {Head(task)} ELSE job[v]
    BY <1>1 DEF PoolInv, HasJob, PoolTypes
  <2> QED
    BY SMTT(60), <1>1, <1>3, <2>1, <2>2 DEF OnePlace
<1>6. CountsWorkers'
  BY <1>1, <1>2, StillCounted DEF Alive
<1>7. In({"run_last", "leave"}) = {}
  BY DEF PoolInv, Leaving
<1>8. Leaving'
  BY <1>1, <1>2, <1>7 DEF PoolInv, PoolTypes, Leaving, In
<1>9. ZeroWorkersMeansDrained'
  BY <1>1 DEF PoolInv, ZeroWorkersMeansDrained
<1>10. NoTaskWaitsForASleeper'
  <2>1. In({"sleep"})' = In({"sleep"}) /\ In({"ready"})' = In({"ready"}) \ {w} /\ w \in In({"ready"})
    BY <1>1, <1>2 DEF PoolInv, PoolTypes, In
  <2>2. Cardinality(In({"ready"})') = Cardinality(In({"ready"})) - 1
    BY <2>1, CountOne DEF In
  <2>3. Len(task) \in Nat /\ Cardinality(In({"ready"})) \in Nat
    BY SMTT(60), Counted DEF PoolInv, PoolTypes, In
  <2> QED
    BY SMTT(60), <1>1, <1>3, <2>1, <2>2, <2>3 DEF PoolInv, NoTaskWaitsForASleeper
<1> QED
  BY <1>4, <1>5, <1>6, <1>8, <1>9, <1>10, OnePlaceIsOnceNext DEF PoolInv

\* RunTask: the task goes from the worker to those done.
LEMMA RunTaskInv ==
  ASSUME PoolInv, NEW w \in Threads, RunTask(w)
  PROVE  PoolInv'
<1> DEFINE p == IF worker[w] = "run" THEN "ready" ELSE "leave"
<1>1. /\ worker[w] \in {"run", "run_last"} /\ worker' = [worker EXCEPT ![w] = p]
      /\ done' = done \cup job[w] /\ job' = [job EXCEPT ![w] = {}]
      /\ UNCHANGED <<running, worker_number, task, accepted>>
  BY DEF RunTask, pool, PoolInv, PoolTypes
<1>2. p \in {"ready", "leave"} /\ (p = "leave" => worker[w] = "run_last")
  BY <1>1
<1> HIDE DEF p
<1>3. PoolTypes' /\ HasJob'
  BY <1>1, <1>2 DEF PoolInv, PoolTypes, HasJob, Places
<1>4. OnePlace'
  <2>1. OnePlace
    BY OnePlaceIsOnce DEF PoolInv
  <2>2. Queued' = Queued /\ \A v \in Threads : job'[v] = IF v = w THEN {} ELSE job[v]
    BY <1>1 DEF PoolInv, PoolTypes, Queued
  <2> QED
    BY SMTT(60), <1>1, <2>1, <2>2 DEF OnePlace
<1>5. CountsWorkers'
  BY <1>1, <1>2, StillCounted DEF Alive
<1>6. Leaving'
  BY <1>1, <1>2 DEF PoolInv, PoolTypes, Leaving, In
<1>7. worker_number # 0
  BY <1>1, Counted DEF PoolInv, CountsWorkers, In, Alive
<1>8. NoTaskWaitsForASleeper'
  <2>1. /\ In({"sleep"})' = In({"sleep"})
        /\ In({"ready"})' = IF p = "ready" THEN In({"ready"}) \cup {w} ELSE In({"ready"})
        /\ w \notin In({"ready"})
    BY <1>1, <1>2 DEF PoolInv, PoolTypes, In
  <2>2. Cardinality(In({"ready"})') >= Cardinality(In({"ready"}))
    <3>1. In({"ready"}) \in SUBSET Threads
      BY DEF In
    <3>2. /\ Cardinality(In({"ready"})) \in Nat
          /\ Cardinality(In({"ready"}) \cup {w}) = Cardinality(In({"ready"})) + 1
      BY <2>1, <3>1, Counted, CountOne
    <3>3. \/ Cardinality(In({"ready"})') = Cardinality(In({"ready"})) + 1
          \/ Cardinality(In({"ready"})') = Cardinality(In({"ready"}))
      BY <2>1, <3>2
    <3> QED
      BY SMTT(60), <3>2, <3>3
  <2>3. /\ Len(task) \in Nat /\ Cardinality(In({"ready"})) \in Nat
        /\ Cardinality(In({"ready"})') \in Nat
    BY SMTT(60), Counted DEF PoolInv, PoolTypes, In
  <2> QED
    BY SMTT(60), <1>1, <2>1, <2>2, <2>3 DEF PoolInv, NoTaskWaitsForASleeper
<1> QED
  BY <1>1, <1>3, <1>4, <1>5, <1>6, <1>7, <1>8, OnePlaceIsOnceNext
     DEF PoolInv, ZeroWorkersMeansDrained

\* A worker wakes up by itself.
LEMMA SpuriousWakeupInv ==
  ASSUME PoolInv, NEW w \in Threads, PoolSpuriousWakeup(w)
  PROVE  PoolInv'
<1>1. /\ worker[w] = "sleep" /\ worker' = [worker EXCEPT ![w] = "ready"]
      /\ UNCHANGED <<running, worker_number, task, job, accepted, done>>
  BY DEF PoolSpuriousWakeup, Wake, pool, PoolInv, PoolTypes
<1>2. PoolTypes' /\ HasJob'
  BY <1>1 DEF PoolInv, PoolTypes, HasJob, Places
<1>3. CountsWorkers'
  BY <1>1, StillCounted DEF Alive
<1>4. Leaving' /\ ZeroWorkersMeansDrained'
  BY <1>1 DEF PoolInv, PoolTypes, Leaving, ZeroWorkersMeansDrained, In
<1>5. NoTaskWaitsForASleeper'
  <2>1. /\ In({"sleep"}) # {} /\ In({"ready"})' = In({"ready"}) \cup {w}
        /\ w \notin In({"ready"})
    BY <1>1 DEF PoolInv, PoolTypes, In
  <2>2. Cardinality(In({"ready"})') = Cardinality(In({"ready"})) + 1
    BY <2>1, CountOne DEF In
  <2>3. Len(task) \in Nat /\ Cardinality(In({"ready"})) \in Nat
    BY SMTT(60), Counted DEF PoolInv, PoolTypes, In
  <2> QED
    BY <1>1, <2>1, <2>2, <2>3 DEF PoolInv, NoTaskWaitsForASleeper
<1> QED
  BY <1>1, <1>2, <1>3, <1>4, <1>5, TasksStay DEF PoolInv

\* Without workers nobody has a task in hand.
LEMMA NobodyHasOne ==
  ASSUME PoolTypes, HasJob, TasksRunOnce, task = <<>>, In({"run", "run_last"}) = {}
  PROVE  done = accepted
<1>1. \A w \in Threads : job[w] = {}
  BY DEF HasJob, In
<1>2. Queued = {}
  BY SMTT(60) DEF Queued
<1> QED
  BY <1>1, <1>2, OnePlaceIsOnce DEF OnePlace, PoolTypes

\* A worker leaves; when it is the last, everything is done.
LEMMA DecrementWorkersInv ==
  ASSUME PoolInv, NEW w \in Threads, DecrementWorkers(w)
  PROVE  PoolInv'
<1> DEFINE p == IF worker_number' = 0 THEN "notify" ELSE "exit"
<1>1. /\ worker[w] = "leave" /\ worker' = [worker EXCEPT ![w] = p]
      /\ worker_number' = worker_number - 1
      /\ UNCHANGED <<running, task, job, accepted, done>>
  BY DEF DecrementWorkers
<1>2. p \in {"notify", "exit"}
  OBVIOUS
<1> HIDE DEF p
<1>3. In(Alive)' = In(Alive) \ {w} /\ w \in In(Alive)
  BY <1>1, <1>2 DEF PoolInv, PoolTypes, In, Alive
<1>4. worker_number' = Cardinality(In(Alive)') /\ worker_number' \in Nat
  BY <1>1, <1>3, CountOne, Counted DEF PoolInv, CountsWorkers, In
<1>5. PoolTypes' /\ HasJob'
  BY <1>1, <1>2, <1>4 DEF PoolInv, PoolTypes, HasJob, Places
<1>6. Leaving'
  BY <1>1, <1>2 DEF PoolInv, PoolTypes, Leaving, In
<1>7. ZeroWorkersMeansDrained'
  <2> SUFFICES ASSUME worker_number' = 0 PROVE done' = accepted' /\ ~running'
    BY DEF ZeroWorkersMeansDrained
  <2>1. ~running /\ task = <<>>
    BY <1>1 DEF PoolInv, Leaving, In
  <2>2. In(Alive)' = {}
    BY <1>4, Counted DEF In
  <2>3. In({"run", "run_last"}) = {}
    BY <1>1, <1>3, <2>2 DEF In, Alive
  <2> QED
    BY <1>1, <2>1, <2>3, NobodyHasOne DEF PoolInv
<1>8. NoTaskWaitsForASleeper'
  <2>1. In({"sleep"})' = In({"sleep"}) /\ In({"ready"})' = In({"ready"})
    BY <1>1, <1>2 DEF PoolInv, PoolTypes, In
  <2> QED
    BY <1>1, <2>1 DEF PoolInv, NoTaskWaitsForASleeper
<1> QED
  BY <1>1, <1>4, <1>5, <1>6, <1>7, <1>8, TasksStay DEF PoolInv, CountsWorkers

\* The notification and the end of a thread concern no worker that is counted.
LEMMA ExitInv ==
  ASSUME PoolInv, NEW w \in Threads, NotifyAllDone(w) \/ ExitThread(w)
  PROVE  PoolInv'
<1>1. PICK p \in {"exit", "none"} : worker' = [worker EXCEPT ![w] = p]
  BY DEF NotifyAllDone, ExitThread
<1>2. /\ worker[w] \in {"notify", "exit"}
      /\ UNCHANGED <<running, worker_number, task, job, accepted, done>>
  BY DEF NotifyAllDone, ExitThread, pool
<1>3. PoolTypes' /\ HasJob'
  BY <1>1, <1>2 DEF PoolInv, PoolTypes, HasJob, Places
<1>4. /\ In(Alive)' = In(Alive) /\ In({"run_last", "leave"})' = In({"run_last", "leave"})
      /\ In({"sleep"})' = In({"sleep"}) /\ In({"ready"})' = In({"ready"})
  BY <1>1, <1>2 DEF PoolInv, PoolTypes, In, Alive
<1> QED
  BY <1>2, <1>3, <1>4, TasksStay
     DEF PoolInv, CountsWorkers, Leaving, ZeroWorkersMeansDrained, NoTaskWaitsForASleeper

\* Steps of a controller that leave the pool alone.
LEMMA ControlInv ==
  ASSUME PoolInv, UNCHANGED <<running, worker_number, task, worker, job, accepted, done>>
  PROVE  PoolInv'
BY TasksStay DEF PoolInv, PoolTypes, HasJob, In, CountsWorkers, Leaving, ZeroWorkersMeansDrained,
                 NoTaskWaitsForASleeper

\* Start: there are no workers, so the queue is empty, and Size new ones.
LEMMA CreateWorkersInv ==
  ASSUME PoolInv, worker_number = 0, NEW c, CreateWorkers(c), UNCHANGED <<job, accepted, done>>
  PROVE  PoolInv'
<1>1. PICK W \in SUBSET In({"none"}) : Cardinality(W) = Size /\ Wake(W)
  BY DEF CreateWorkers
<1>2. running' = TRUE /\ worker_number' = Size /\ task' = task
  BY DEF CreateWorkers
<1>3. In(Alive) = {}
  BY Counted DEF PoolInv, CountsWorkers, In
<1>4. W \subseteq Threads /\ \A w \in Threads : worker'[w] = IF w \in W THEN "ready" ELSE worker[w]
  BY <1>1 DEF Wake, In
<1>5. In(Alive)' = W /\ In({"sleep"})' = {} /\ In({"run_last", "leave"})' = {}
  BY <1>3, <1>4 DEF In, Alive
<1>6. PoolTypes'
  BY <1>1, <1>2, PoolAssumption DEF PoolInv, PoolTypes, Wake, Places
<1>7. HasJob'
  BY <1>1, <1>4 DEF PoolInv, HasJob, In
<1>8. CountsWorkers' /\ Leaving' /\ ZeroWorkersMeansDrained' /\ NoTaskWaitsForASleeper'
  BY <1>1, <1>2, <1>5, PoolAssumption
     DEF CountsWorkers, Leaving, ZeroWorkersMeansDrained, NoTaskWaitsForASleeper
<1> QED
  BY <1>2, <1>6, <1>7, <1>8, TasksStay DEF PoolInv

\* Start waits or creates.
LEMMA StartInv ==
  ASSUME PoolInv, NEW c \in Controllers, Start(c)
  PROVE  PoolInv'
BY CreateWorkersInv, ControlInv DEF Start, pool

\* Stop wakes every sleeper.
LEMMA StopInv ==
  ASSUME PoolInv, NEW c \in Controllers, Stop(c)
  PROVE  PoolInv'
<1>1. running' = FALSE /\ UNCHANGED <<worker_number, task, job, accepted, done>>
  BY DEF Stop
<1>2. CASE running
  <2>1. \A w \in Threads : worker'[w] = IF worker[w] = "sleep" THEN "ready" ELSE worker[w]
    BY <1>2 DEF Stop, Wake, In
  <2>2. PoolTypes'
    BY <1>1, <1>2 DEF Stop, Wake, PoolInv, PoolTypes, Places
  <2>3. HasJob'
    BY <1>1, <2>1 DEF PoolInv, HasJob
  <2>4. /\ In(Alive)' = In(Alive) /\ In({"sleep"})' = {}
        /\ In({"run_last", "leave"})' = In({"run_last", "leave"})
    BY <2>1 DEF In, Alive
  <2> QED
    BY <1>1, <2>2, <2>3, <2>4, TasksStay
       DEF PoolInv, CountsWorkers, Leaving, ZeroWorkersMeansDrained, NoTaskWaitsForASleeper
<1>3. CASE ~running
  <2>1. UNCHANGED <<running, worker>>
    BY <1>1, <1>3 DEF Stop, PoolInv, PoolTypes
  <2> QED
    BY <1>1, <2>1, ControlInv
<1> QED
  BY <1>2, <1>3

\* Every step keeps the invariant.
LEMMA PoolNextInv == PoolInv /\ [PoolNext]_PoolVars => PoolInv'
<1> SUFFICES ASSUME PoolInv, [PoolNext]_PoolVars PROVE PoolInv'
  OBVIOUS
<1>1. CASE UNCHANGED PoolVars
  BY <1>1, ControlInv DEF PoolVars, pool
<1>2. ASSUME NEW t \in Tasks, PushTask(t) PROVE PoolInv'
  BY <1>1, <1>2, PushTaskInv
<1>3. ASSUME NEW w \in Threads, Loop(w) \/ PoolSpuriousWakeup(w) PROVE PoolInv'
  BY <1>3, TakeNothingInv, TakeTaskInv, RunTaskInv, DecrementWorkersInv, ExitInv,
     SpuriousWakeupInv DEF Loop
<1>4. ASSUME NEW c \in Controllers, StopAgain(c) \/ BeginWait(c) \/ SpuriousReturn(c) PROVE PoolInv'
  BY <1>4, ControlInv DEF StopAgain, BeginWait, SpuriousReturn, pool
<1> QED
  BY <1>1, <1>2, <1>3, <1>4, StartInv, StopInv DEF PoolNext

\* The inductive invariant holds in every state of the pool.
THEOREM Invariant == PoolSpec => []PoolInv
BY PoolInitInv, PoolNextInv, PTL DEF PoolSpec

\* Start and Stop keep their places, and threads_ holds threads of the pool.
LEMMA CallTypesStay == CallTypes /\ [PoolNext]_PoolVars => CallTypes'
<1> SUFFICES ASSUME CallTypes, [PoolNext]_PoolVars PROVE CallTypes'
  OBVIOUS
<1> USE DEF CallTypes
<1>1. CASE UNCHANGED <<threads, control>>
  BY <1>1 DEF control
<1>2. ASSUME NEW w \in Threads, NotifyAllDone(w) PROVE CallTypes'
  BY <1>2 DEF NotifyAllDone, pool
<1>3. ASSUME NEW c \in Controllers, CreateWorkers(c) PROVE CallTypes'
  <2>1. threads' \subseteq Threads
    BY <1>3 DEF CreateWorkers, In
  <2> QED
    BY <1>3, <2>1 DEF CreateWorkers, Return, Goto
<1>4. ASSUME NEW c \in Controllers, NEW m \in {"Start", "Stop"},
             MustWait(c, m) \/ Return(c), UNCHANGED threads
      PROVE  CallTypes'
  BY <1>4 DEF MustWait, Enter, Return, Goto
<1>5. ASSUME NEW c \in Controllers, Start(c) PROVE CallTypes'
  BY <1>3, <1>4, <1>5 DEF Start, pool
<1>6. ASSUME NEW c \in Controllers, Stop(c) \/ StopAgain(c) PROVE CallTypes'
  BY <1>4, <1>6 DEF Stop, StopAgain, pool
<1>7. ASSUME NEW c \in Controllers, BeginWait(c) \/ SpuriousReturn(c) PROVE CallTypes'
  BY <1>7 DEF BeginWait, SpuriousReturn, Goto, pool
<1>8. ASSUME NEW w \in Threads, Loop(w) \/ PoolSpuriousWakeup(w), ~NotifyAllDone(w) PROVE CallTypes'
  BY <1>1, <1>8 DEF Loop, TakeTask, RunTask, DecrementWorkers, ExitThread, PoolSpuriousWakeup, pool
<1>9. ASSUME NEW t \in Tasks, PushTask(t) PROVE CallTypes'
  BY <1>1, <1>9 DEF PushTask, PoolVars, pool
<1> QED
  BY <1>1, <1>2, <1>5, <1>6, <1>7, <1>8, <1>9 DEF PoolNext, PoolVars, pool

\* PushTask, Loop, Start and Stop: no accepted task is lost or in two hands, worker_number_
\* is right although it is decremented without the mutex, every task has run when Stop
\* returns, and one Notify a task is enough.
THEOREM PoolIsAlwaysSound == PoolSpec => []PoolIsSound
<1>1. PoolInit => CallTypes
  BY DEF PoolInit, CallTypes
<1>2. PoolInv /\ CallTypes => PoolIsSound
  BY DEF PoolInv, PoolIsSound, PoolTypeOK
<1> QED
  BY <1>1, <1>2, CallTypesStay, Invariant, PTL DEF PoolSpec

--------------------------------------------------------------------------------
(* ThreadPool implements Executor *)

\* Every step of the pool is a step of an executor or changes nothing it shows.
LEMMA StepRefines == PoolInv /\ [PoolNext]_PoolVars => [AsExecutor!Next]_(AsExecutor!vars)
<1> SUFFICES ASSUME PoolInv, [PoolNext]_PoolVars PROVE [AsExecutor!Next]_(AsExecutor!vars)
  OBVIOUS
<1>1. CASE UNCHANGED <<running, accepted, done>>
  BY <1>1 DEF AsExecutor!vars
<1>2. ASSUME NEW t \in Tasks, PushTask(t) PROVE [AsExecutor!Next]_(AsExecutor!vars)
  <2>1. CASE UNCHANGED PoolVars
    BY <1>1, <2>1 DEF PoolVars, pool
  <2>2. CASE ~UNCHANGED PoolVars
    <3>1. AsExecutor!PushTask(t)
      BY <1>2, <2>2 DEF PushTask, AsExecutor!PushTask
    <3> QED
      BY <3>1 DEF AsExecutor!Next
  <2> QED
    BY <2>1, <2>2
<1>3. ASSUME NEW w \in Threads, RunTask(w) PROVE [AsExecutor!Next]_(AsExecutor!vars)
  <2>1. PICK t \in Tasks : job[w] = {t}
    BY <1>3 DEF RunTask, PoolInv, HasJob
  <2>2. t \in accepted /\ t \notin done
    BY <2>1, OnePlaceIsOnce DEF PoolInv, OnePlace
  <2>3. AsExecutor!Run(t)
    BY <1>3, <2>1, <2>2 DEF RunTask, pool, AsExecutor!Run
  <2> QED
    BY <2>3 DEF AsExecutor!Next
<1>4. ASSUME NEW c \in Controllers, Start(c) PROVE [AsExecutor!Next]_(AsExecutor!vars)
  <2>1. CASE UNCHANGED pool
    BY <1>1, <1>4, <2>1 DEF Start, pool
  <2>2. CASE worker_number = 0 /\ CreateWorkers(c)
    <3>1. ~running /\ done = accepted
      BY <2>2 DEF PoolInv, ZeroWorkersMeansDrained
    <3>2. AsExecutor!Start
      BY <1>4, <2>2, <3>1 DEF Start, CreateWorkers, AsExecutor!Start
    <3> QED
      BY <3>2 DEF AsExecutor!Next
  <2> QED
    BY <1>4, <2>1, <2>2 DEF Start
<1>5. ASSUME NEW c \in Controllers, Stop(c) PROVE [AsExecutor!Next]_(AsExecutor!vars)
  <2>1. CASE running
    <3>1. AsExecutor!Stop
      BY <1>5, <2>1 DEF Stop, AsExecutor!Stop
    <3> QED
      BY <3>1 DEF AsExecutor!Next
  <2>2. CASE ~running
    BY <1>1, <1>5, <2>2 DEF Stop, PoolInv, PoolTypes
  <2> QED
    BY <2>1, <2>2
<1>6. ASSUME NEW w \in Threads,
             \/ TakeTask(w) \/ DecrementWorkers(w) \/ NotifyAllDone(w) \/ ExitThread(w)
             \/ PoolSpuriousWakeup(w)
      PROVE  [AsExecutor!Next]_(AsExecutor!vars)
  BY <1>1, <1>6 DEF TakeTask, DecrementWorkers, NotifyAllDone, ExitThread, PoolSpuriousWakeup, pool
<1>7. ASSUME NEW c \in Controllers, StopAgain(c) \/ BeginWait(c) \/ SpuriousReturn(c)
      PROVE  [AsExecutor!Next]_(AsExecutor!vars)
  BY <1>1, <1>7 DEF StopAgain, BeginWait, SpuriousReturn, pool
<1>8. CASE UNCHANGED PoolVars
  BY <1>1, <1>8 DEF PoolVars, pool
<1> QED
  BY <1>2, <1>3, <1>4, <1>5, <1>6, <1>7, <1>8 DEF PoolNext, Loop

\* threadpool.h does what Executor promises, for any threads, size and tasks.
THEOREM PoolIsExecutor == PoolSpec => ImplementsExecutor
<1>1. PoolInit => AsExecutor!Init
  BY DEF PoolInit, AsExecutor!Init
<1> QED
  BY <1>1, Invariant, StepRefines, PTL DEF PoolSpec, ImplementsExecutor, AsExecutor!Spec
================================================================================
