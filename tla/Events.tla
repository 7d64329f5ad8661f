------------------------------- MODULE Events -------------------------------
(***************************************************************************)
(* AutoResetEvent and ManualResetEvent of common/system/concurrency/event. *)
(* Every operation holds m_mutex, except while it is asleep on m_cond; a   *)
(* thread that is woken takes m_mutex again later, and finds what others   *)
(* have made of the event by then.                                         *)
(***************************************************************************)
EXTENDS Integers, FiniteSets

CONSTANTS
    Threads,
    MaxSets,     \* bound: calls of Set
    MaxWaits     \* bound: waits

VARIABLES
    kind,        \* "auto" or "manual"
    m_signaled,
    waiter,      \* thread -> where it is in Wait or TimedWait
    sets,        \* ghost: calls of Set, and an event created signaled
    waits,       \* ghost: waits begun
    released     \* ghost: waits that ended with the event

vars == <<kind, m_signaled, waiter, sets, waits, released>>

Outside == [at |-> "outside", timed |-> FALSE]
At(place) == {t \in Threads : waiter[t].at = place}

-----------------------------------------------------------------------------
\* A wait ends with the event, which an AutoResetEvent then has no more.
Take(t) ==
    /\ m_signaled' = (kind = "manual")
    /\ released' = released + 1
    /\ waiter' = [waiter EXCEPT ![t] = Outside]

\* Wait; TimedWait and TryWait, which is TimedWait(0).
Wait(t, timed) ==
    /\ waiter[t].at = "outside"
    /\ waits < MaxWaits
    /\ waits' = waits + 1
    /\ IF m_signaled
       THEN Take(t)
       ELSE /\ waiter' = [waiter EXCEPT ![t] = [at |-> "asleep", timed |-> timed]]
            /\ UNCHANGED <<m_signaled, released>>
    /\ UNCHANGED <<kind, sets>>

\* A sleeper wakes by itself: at its timeout, or for no reason.
WakeUp(t) ==
    /\ waiter[t].at = "asleep"
    /\ waiter' = [waiter EXCEPT ![t].at = "awake"]
    /\ UNCHANGED <<kind, m_signaled, sets, waits, released>>

\* Variant: a woken thread takes it for granted that the event is there.
AwakeUnchecked(t) ==
    /\ waiter[t].at = "awake"
    /\ Take(t)
    /\ UNCHANGED <<kind, sets, waits>>

\* Awake, with m_mutex again: Wait looks once more, TimedWait gives up.
Awake(t) ==
    /\ waiter[t].at = "awake"
    /\ IF m_signaled
       THEN Take(t)
       ELSE /\ waiter' = [waiter EXCEPT ![t] = IF @.timed
                                               THEN Outside
                                               ELSE [@ EXCEPT !.at = "asleep"]]
            /\ UNCHANGED <<m_signaled, released>>
    /\ UNCHANGED <<kind, sets, waits>>

\* The sleepers that m_cond's Signal or Broadcast may wake.
Notified ==
    IF kind = "manual" \/ At("asleep") = {}
    THEN {At("asleep")}
    ELSE {{t} : t \in At("asleep")}

Set ==
    /\ sets < MaxSets
    /\ sets' = sets + 1
    /\ m_signaled' = TRUE
    /\ \E woken \in Notified :
         waiter' = [t \in Threads |-> IF t \in woken
                                      THEN [waiter[t] EXCEPT !.at = "awake"]
                                      ELSE waiter[t]]
    /\ UNCHANGED <<kind, waits, released>>

Reset ==
    /\ m_signaled
    /\ m_signaled' = FALSE
    /\ UNCHANGED <<kind, waiter, sets, waits, released>>

Init ==
    /\ kind \in {"auto", "manual"}
    /\ m_signaled \in BOOLEAN
    /\ sets = IF m_signaled THEN 1 ELSE 0
    /\ waiter = [t \in Threads |-> Outside]
    /\ waits = 0
    /\ released = 0

Next ==
    \/ \E t \in Threads : \/ \E timed \in BOOLEAN : Wait(t, timed)
                          \/ WakeUp(t)
                          \/ Awake(t)
    \/ Set
    \/ Reset

Spec == Init /\ [][Next]_vars

-----------------------------------------------------------------------------
(* Properties.                                                             *)

\* Nobody sleeps beside an event that is set: all are awake for a
\* ManualResetEvent, and somebody is on the way to an AutoResetEvent, whatever
\* timeouts, resets and other waiters came between.
NobodyOversleeps ==
    m_signaled /\ At("asleep") # {} => kind = "auto" /\ At("awake") # {}

\* An AutoResetEvent ends no more waits than Set was called, and keeps at most
\* one for later.
OneReleasePerSet ==
    kind = "auto" => released + (IF m_signaled THEN 1 ELSE 0) <= sets
=============================================================================
