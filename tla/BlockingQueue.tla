----------------------------- MODULE BlockingQueue -----------------------------
(***************************************************************************)
(* common/system/concurrency/blocking_queue.h.  Every operation is one     *)
(* critical section of m_mutex, with a wait in it, and a signal that most  *)
(* of them send after the mutex is released: any thread may come between.  *)
(*                                                                         *)
(* What is at stake is who is woken, and for that only the number of       *)
(* elements matters: m_queue is its size, and the Front and the Back form  *)
(* of an operation are the same action.  A call is a kind (push, pop,      *)
(* popall) and a mode: "block" (PushFront, PopBack, PopAll...), "try"      *)
(* (TryPushFront...) or "timed" (TimedPushFront...).                       *)
(***************************************************************************)
EXTENDS Naturals, FiniteSets

CONSTANTS Callers, max_elements

ASSUME QueueAssumption ==
  /\ IsFiniteSet(Callers)
  /\ max_elements \in Nat \ {0}      \* assert(m_max_elements > 0)

VARIABLES
  size,
  at,      \* "idle", "wait" (on a condition), "woken", "signal", "broadcast"
  kind,    \* the operation of each thread's call
  mode     \* and its form

QueueVars == <<size, at, kind, mode>>

Consumers == {"pop", "popall"}
Kinds == {"push"} \cup Consumers
CallModes == {"block", "try", "timed"}

UnlockedIsFull == size >= max_elements
Blocked(k) == IF k = "push" THEN UnlockedIsFull ELSE size = 0

\* Callers at a place of a call of one of the kinds K
Who(place, K) == {t \in Callers : at[t] = place /\ kind[t] \in K}

\* The calls that wait for what a call of kind k provides
Peers(k) == IF k = "push" THEN Consumers ELSE {"push"}

\* t goes to a place, and the threads W are woken
Move(t, place, W) ==
  at' = [u \in Callers |-> IF u = t THEN place ELSE IF u \in W THEN "woken" ELSE at[u]]

--------------------------------------------------------------------------------
\* Variant: a push signals only when the queue was empty
ServeSignalsFirst(t, k, m) ==
  /\ ~Blocked(k)
  /\ size' = CASE k = "push" -> size + 1 [] k = "pop" -> size - 1 [] k = "popall" -> 0
  /\ IF k = "push" /\ size > 0 THEN Move(t, "idle", {})
     ELSE IF k # "popall" THEN Move(t, "signal", {})
     ELSE Move(t, "broadcast", {})

\* The rest of the critical section, when the call can be served.  TimedPopAll
\* broadcasts before it unlocks, and signals once more after.
Serve(t, k, m) ==
  /\ ~Blocked(k)
  /\ size' = CASE k = "push" -> size + 1 [] k = "pop" -> size - 1 [] k = "popall" -> 0
  /\ IF k # "popall" THEN Move(t, "signal", {})
     ELSE IF m = "timed" THEN Move(t, "signal", Who("wait", {"push"}))
     ELSE Move(t, "broadcast", {})

\* A call enters the critical section: it is served, sleeps, or (try) fails.
Call(t, k, m) ==
  /\ at[t] = "idle"
  /\ kind' = [kind EXCEPT ![t] = k]
  /\ mode' = [mode EXCEPT ![t] = m]
  /\ \/ Serve(t, k, m)
     \/ /\ Blocked(k)
        /\ size' = size
        /\ Move(t, IF m = "try" THEN "idle" ELSE "wait", {})

\* Variant: who is awake yields to those of its kind that sleep
RetryYields(t) ==
  /\ at[t] = "woken"
  /\ IF Who("wait", Kinds \ Peers(kind[t])) # {} THEN UNCHANGED QueueVars
     ELSE \/ Serve(t, kind[t], mode[t]) /\ UNCHANGED <<kind, mode>>
          \/ /\ Blocked(kind[t])
             /\ Move(t, IF mode[t] = "block" THEN "wait" ELSE "idle", {})
             /\ UNCHANGED <<size, kind, mode>>

\* Awake and with the mutex: a blocking call tests again and may sleep again, a timed
\* one tests once more and fails.
Retry(t) ==
  /\ at[t] = "woken"
  /\ \/ Serve(t, kind[t], mode[t])
     \/ /\ Blocked(kind[t])
        /\ size' = size
        /\ Move(t, IF mode[t] = "block" THEN "wait" ELSE "idle", {})
  /\ UNCHANGED <<kind, mode>>

\* Signal after the unlock: one of those who wait, if any.
Signal(t) ==
  /\ at[t] = "signal"
  /\ LET waiting == Who("wait", Peers(kind[t])) IN
       IF waiting = {} THEN Move(t, "idle", {})
       ELSE \E u \in waiting : Move(t, "idle", {u})
  /\ UNCHANGED <<size, kind, mode>>

Broadcast(t) ==
  /\ at[t] = "broadcast"
  /\ Move(t, "idle", Who("wait", {"push"}))
  /\ UNCHANGED <<size, kind, mode>>

\* Clear broadcasts with the mutex held.
Clear(t) ==
  /\ at[t] = "idle"
  /\ size' = 0
  /\ Move(t, "idle", Who("wait", {"push"}))
  /\ UNCHANGED <<kind, mode>>

\* A timed wait ends, or any wait ends unsignalled.
Timeout(t) ==
  /\ at[t] = "wait"
  /\ mode[t] = "timed"
  /\ Move(t, "woken", {})
  /\ UNCHANGED <<size, kind, mode>>

QueueSpuriousWakeup(t) ==
  /\ at[t] = "wait"
  /\ Move(t, "woken", {})
  /\ UNCHANGED <<size, kind, mode>>

--------------------------------------------------------------------------------
QueueInit ==
  /\ size = 0
  /\ at = [t \in Callers |-> "idle"]
  /\ kind = [t \in Callers |-> "push"]
  /\ mode = [t \in Callers |-> "try"]

Resume(t) == Retry(t) \/ Signal(t) \/ Broadcast(t)

QueueNext ==
  \E t \in Callers :
    \/ \E k \in Kinds, m \in CallModes : Call(t, k, m)
    \/ Resume(t)
    \/ Clear(t)
    \/ Timeout(t)
    \/ QueueSpuriousWakeup(t)

QueueSpec == QueueInit /\ [][QueueNext]_QueueVars

\* A thread that is awake goes on.  A timeout need not come: a timed wait may be
\* arbitrarily long.
FairQueueSpec == QueueSpec /\ \A t \in Callers : WF_QueueVars(Resume(t))

--------------------------------------------------------------------------------
(* Properties *)

\* Types; the queue keeps its bound; a "try" call never sleeps.
QueueTypeOK ==
  /\ size \in 0..max_elements
  /\ at \in [Callers -> {"idle", "wait", "woken", "signal", "broadcast"}]
  /\ kind \in [Callers -> Kinds]
  /\ mode \in [Callers -> CallModes]
  /\ \A t \in Callers : at[t] \in {"wait", "woken"} => mode[t] # "try"

\* While a pop sleeps, every element has a push that is about to signal it or a pop
\* that is already awake: no element lies in the queue with its consumer asleep.
NoElementMissed ==
  Who("wait", Consumers) # {} =>
    size <= Cardinality(Who("signal", {"push"})) + Cardinality(Who("woken", Consumers))

\* While a push sleeps, every free slot has a pop that is about to signal it, a popall
\* about to broadcast, or a push that is already awake.
NoSlotMissed ==
  Who("wait", {"push"}) # {} =>
    \/ Who("broadcast", Consumers) # {}
    \/ max_elements - size <=
         Cardinality(Who("signal", Consumers)) + Cardinality(Who("woken", {"push"}))

\* The queue keeps its bound, and neither an element nor a slot is without somebody who
\* is awake for it or about to be woken, although signals are sent after the unlock.
NothingIsMissed == QueueTypeOK /\ NoElementMissed /\ NoSlotMissed

\* A pop does not sleep for ever beside an element, nor a push beside a free slot,
\* whatever the threads that were woken in its place do.
NobodySleepsForNothing ==
  /\ (Who("wait", Consumers) # {} /\ size > 0) ~> (Who("wait", Consumers) = {} \/ size = 0)
  /\ (Who("wait", {"push"}) # {} /\ ~UnlockedIsFull) ~>
       (Who("wait", {"push"}) = {} \/ UnlockedIsFull)
================================================================================
