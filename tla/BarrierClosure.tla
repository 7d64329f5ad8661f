--------------------------- MODULE BarrierClosure ---------------------------
(***************************************************************************)
(* common/base/barrier_closure.h: n threads run the closure, the last of   *)
(* them runs done_ and deletes the closure.                                *)
(***************************************************************************)
EXTENDS Integers, FiniteSets

CONSTANT Runners     \* the threads that run the closure, n of them

VARIABLES
    left_,
    runner,          \* thread -> where it is in Run
    decremented,     \* thread -> what its AtomicDecrement returned
    done_runs,       \* how often done_ has been run
    deleted,         \* the closure has been deleted
    misused          \* ghost: left_ or done_ was used afterwards

vars == <<left_, runner, decremented, done_runs, deleted, misused>>

AtomicDecrementLeft(t) ==
    /\ runner[t] = "before"
    /\ left_' = left_ - 1
    /\ decremented' = [decremented EXCEPT ![t] = left_ - 1]
    /\ runner' = [runner EXCEPT ![t] = "decremented"]
    /\ misused' = (misused \/ deleted)
    /\ UNCHANGED <<done_runs, deleted>>

\* Variant: left_ is read again.
IsLastReread(t) == left_ = 0

IsLast(t) == decremented[t] = 0

RunDone(t) ==
    /\ runner[t] = "decremented"
    /\ IF IsLast(t)
       THEN /\ runner' = [runner EXCEPT ![t] = "done"]
            /\ done_runs' = done_runs + 1
            /\ misused' = (misused \/ deleted)
       ELSE /\ runner' = [runner EXCEPT ![t] = "returned"]
            /\ UNCHANGED <<done_runs, misused>>
    /\ UNCHANGED <<left_, decremented, deleted>>

DeleteThis(t) ==
    /\ runner[t] = "done"
    /\ runner' = [runner EXCEPT ![t] = "returned"]
    /\ deleted' = TRUE
    /\ misused' = (misused \/ deleted)
    /\ UNCHANGED <<left_, decremented, done_runs>>

Init ==
    /\ left_ = Cardinality(Runners)
    /\ runner = [t \in Runners |-> "before"]
    /\ decremented = [t \in Runners |-> -1]
    /\ done_runs = 0
    /\ deleted = FALSE
    /\ misused = FALSE

Next ==
    \E t \in Runners : AtomicDecrementLeft(t) \/ RunDone(t) \/ DeleteThis(t)

Spec == Init /\ [][Next]_vars

-----------------------------------------------------------------------------
\* done_ runs once, when all n threads have come; the closure is deleted after
\* that, once, and no thread that is still in Run uses it any more.  When all
\* have returned, both have happened.
BarrierIsSafe ==
    /\ ~misused
    /\ done_runs <= 1
    /\ done_runs = 1 => \A t \in Runners : runner[t] # "before"
    /\ (\A t \in Runners : runner[t] = "returned") => done_runs = 1 /\ deleted
=============================================================================
