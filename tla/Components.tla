----------------------------- MODULE Components -----------------------------
(***************************************************************************)
(* The components of the base library whose properties are proved for      *)
(* every value of their constants, each an instance with variables of its  *)
(* own.  MCComponents runs them; ComponentsProofs has the proofs.          *)
(***************************************************************************)
EXTENDS Integers, FiniteSets

CONSTANTS
    kTimeWindowSize, MaxTime, Values,        \* TimedStats
    MaxAdds,
    Low, High,                               \* Interval
    EventThreads, MaxSets, MaxWaits,         \* Events
    BlockerThreads, MaxCount,                \* CountBlocker
    Runners                                  \* BarrierClosure

\* The ring has a slot, and time is counted from 0.
ASSUME StatsAssumption ==
    /\ kTimeWindowSize \in Nat \ {0}
    /\ MaxTime \in Nat
    /\ Values \subseteq Int

\* Interval() is one of the intervals.
ASSUME IntervalAssumption ==
    Low \in Int /\ High \in Int /\ Low <= 0 /\ 0 <= High

\* The count is bounded.
ASSUME BlockerAssumption == MaxCount \in Nat

\* A BarrierClosure is made for at least one thread.
ASSUME BarrierAssumption == IsFiniteSet(Runners) /\ Runners # {}

VARIABLES
    counting, mean, history,
    this, last,
    kind, m_signaled, waiter, sets, waits, released,
    count_, blocked, reached, changes_,
    left_, runner, decremented, done_runs, deleted, misused

Stats == INSTANCE TimedStats

Intervals == INSTANCE Interval

Event == INSTANCE Events WITH Threads <- EventThreads

Blocker == INSTANCE CountBlocker WITH Threads <- BlockerThreads

Barrier == INSTANCE BarrierClosure

-----------------------------------------------------------------------------
\* Interval's intersection and difference have the points they should, and
\* its spanning union is the smallest interval that contains both.
IntervalsAreExact == Intervals!PointsAreExact /\ Intervals!UnionIsSmallest

\* No thread sleeps beside an event that is set, and an AutoResetEvent ends
\* no more waits than Set was called.
EventsRelease == Event!NobodyOversleeps /\ Event!OneReleasePerSet

\* CountBlocker leaves nobody asleep when the count is 0, and notifies a
\* waiter only when it has been during its wait.
BlockerReleases == Blocker!NotifiedMeansZero /\ Blocker!ZeroWakesAll

\* BarrierClosure runs done_ once, after all, and is not used once deleted.
BarrierIsSafe == Barrier!BarrierIsSafe
=============================================================================
