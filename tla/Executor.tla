------------------------------ MODULE Executor ------------------------------
(***************************************************************************)
(* What ThreadPool and ThreadWorker promise the code that pushes closures  *)
(* to them: between Start and Stop tasks are accepted, every task is run   *)
(* at most once and only if accepted, tasks accepted before Stop may run   *)
(* after it, and a new Start finds everything done.                        *)
(***************************************************************************)
CONSTANT Tasks

VARIABLES
    open,       \* PushTask accepts
    accepted,   \* the tasks accepted so far
    done        \* the tasks that have run

vars == <<open, accepted, done>>

Start ==
    /\ ~open
    /\ done = accepted
    /\ open' = TRUE
    /\ UNCHANGED <<accepted, done>>

PushTask(t) ==
    /\ open
    /\ t \notin accepted
    /\ accepted' = accepted \cup {t}
    /\ UNCHANGED <<open, done>>

Run(t) ==
    /\ t \in accepted \ done
    /\ done' = done \cup {t}
    /\ UNCHANGED <<open, accepted>>

Stop ==
    /\ open
    /\ open' = FALSE
    /\ UNCHANGED <<accepted, done>>

-----------------------------------------------------------------------------
Init == open = FALSE /\ accepted = {} /\ done = {}

Next == Start \/ Stop \/ \E t \in Tasks : PushTask(t) \/ Run(t)

Spec == Init /\ [][Next]_vars
=============================================================================
