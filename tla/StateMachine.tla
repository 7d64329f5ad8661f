---------------------------- MODULE StateMachine ----------------------------
(***************************************************************************)
(* common/state_machine: StateMachine runs BaseTasks one after the other   *)
(* along the transitions its user has added.  A call that breaks a CHECK   *)
(* aborts the program, so an action is guarded by the CHECKs of its call.  *)
(* Everything after Start happens in callbacks: only the task under way    *)
(* can take the next step.                                                 *)
(***************************************************************************)
EXTENDS Integers, Sequences, FiniteSets, TLC

CONSTANTS
    States,          \* the states a user defines, none of them kStateEnd
    MaxTransitions,  \* bound: transitions added
    MaxRan           \* bound: states run

VARIABLES
    check_success_route,  \* FLAGS_gdt_state_machine_check_success_route
    state_creators,       \* the states with a task creator
    transitions,          \* <<state, result>> -> next state
    default_transitions,  \* state -> next state
    started,
    current_state,
    step,       \* what the callback in progress does next
    task,       \* the task created for current_state, "none" when deleted
    ran,        \* ran_states_and_results_
    done        \* how often final_done_ has been run

vars == <<check_success_route, state_creators, transitions,
          default_transitions, started, current_state, step, task, ran, done>>

routes == <<check_success_route, state_creators, transitions,
            default_transitions>>

kStateEnd == 0
Results == {"kSuccess", "kFailure", "kSkiped"}

-----------------------------------------------------------------------------
\* std::map::insert keeps the value that is there.
Insert(map, key, value) ==
    IF key \in DOMAIN map THEN map ELSE map @@ (key :> value)

HasNext(state, result) ==
    <<state, result>> \in DOMAIN transitions
        \/ state \in DOMAIN default_transitions

NextState(state, result) ==
    IF <<state, result>> \in DOMAIN transitions
    THEN transitions[<<state, result>>] ELSE default_transitions[state]

\* The route of successes from a state, up to the first state met again.
SuccessRoute(start) ==
    LET follow[n \in 0..Cardinality(States) + 1] ==
            IF n = 0 THEN <<start>>
            ELSE LET route == follow[n - 1]
                     s == route[Len(route)]
                 IN  IF \/ s = kStateEnd
                        \/ ~HasNext(s, "kSuccess")
                        \/ \E i \in 1..Len(route) - 1 : route[i] = s
                     THEN route
                     ELSE Append(route, NextState(s, "kSuccess"))
    IN  follow[Cardinality(States) + 1]

\* Variant: a loop is not noticed.
SuccessCanGoOn(start) ==
    LET route == SuccessRoute(start)
    IN  route[Len(route)] = kStateEnd \/ HasNext(route[Len(route)], "kSuccess")

SuccessCanReachEnd(start) ==
    LET route == SuccessRoute(start)
    IN  ~check_success_route \/ route[Len(route)] = kStateEnd

IsValidTransitionState(state, next) ==
    /\ ~started
    /\ state \in state_creators
    /\ next \in state_creators \cup {kStateEnd}

-----------------------------------------------------------------------------
AddState(s) ==
    /\ ~started
    /\ s # kStateEnd
    /\ state_creators' = state_creators \cup {s}
    /\ UNCHANGED <<check_success_route, transitions, default_transitions,
                   started, current_state, step, task, ran, done>>

Added == Cardinality(DOMAIN transitions)
           + Cardinality(DOMAIN default_transitions)

AddTransition(s, result, next) ==
    /\ IsValidTransitionState(s, next)
    /\ Added < MaxTransitions
    /\ transitions' = Insert(transitions, <<s, result>>, next)
    /\ UNCHANGED <<check_success_route, state_creators, default_transitions,
                   started, current_state, step, task, ran, done>>

AddDefaultTransition(s, next) ==
    /\ IsValidTransitionState(s, next)
    /\ Added < MaxTransitions
    /\ default_transitions' = Insert(default_transitions, s, next)
    /\ UNCHANGED <<check_success_route, state_creators, transitions, started,
                   current_state, step, task, ran, done>>

Start(s) ==
    /\ ~started
    /\ s \in state_creators
    /\ SuccessCanReachEnd(s)
    /\ started' = TRUE
    /\ current_state' = s
    /\ step' = "RunCurrentState"
    /\ UNCHANGED <<routes, task, ran, done>>

RunFinalDone ==
    /\ done' = done + 1
    /\ step' = "returned"

\* The creator returns a task or NULL; a NULL task is done at once, with the
\* result kSkiped, and so is a task that need not start.
RunCurrentState ==
    /\ step = "RunCurrentState"
    /\ IF current_state = kStateEnd
       THEN /\ ran' = Append(ran, <<kStateEnd, "kSuccess">>)
            /\ RunFinalDone
            /\ UNCHANGED task
       ELSE IF current_state \notin state_creators
       THEN RunFinalDone /\ UNCHANGED <<ran, task>>
       ELSE /\ Len(ran) < MaxRan
            /\ \E created \in {"NULL", "kSkiped", "started"} : task' = created
            /\ step' = IF task' = "started" THEN "DoStart"
                       ELSE "CurrentStateDone"
            /\ UNCHANGED <<ran, done>>
    /\ UNCHANGED <<routes, started, current_state>>

\* DoStart, the asynchronous call it makes, and Finish, with the status the
\* task has set itself; BeforeFinish is left out after an error exit.
Finish ==
    /\ step = "DoStart"
    /\ \E result \in Results : task' = result
    /\ step' = "CurrentStateDone"
    /\ UNCHANGED <<routes, started, current_state, ran, done>>

CurrentStateDone ==
    /\ step = "CurrentStateDone"
    /\ LET result == IF task = "NULL" THEN "kSkiped" ELSE task
       IN  /\ task' = "none"
           /\ ran' = Append(ran, <<current_state, result>>)
           /\ IF HasNext(current_state, result)
              THEN /\ current_state' = NextState(current_state, result)
                   /\ step' = "RunCurrentState"
                   /\ UNCHANGED done
              ELSE RunFinalDone /\ UNCHANGED current_state
    /\ UNCHANGED <<routes, started>>

-----------------------------------------------------------------------------
Init ==
    /\ check_success_route \in BOOLEAN
    /\ state_creators = {}
    /\ transitions = <<>>
    /\ default_transitions = <<>>
    /\ started = FALSE
    /\ current_state = kStateEnd
    /\ step = "idle"
    /\ task = "none"
    /\ ran = <<>>
    /\ done = 0

Next ==
    \/ \E s \in States : AddState(s) \/ Start(s)
    \/ \E s \in States, next \in States \cup {kStateEnd} :
         \/ AddDefaultTransition(s, next)
         \/ \E result \in Results : AddTransition(s, result, next)
    \/ RunCurrentState
    \/ Finish
    \/ CurrentStateDone

Spec == Init /\ [][Next]_vars

-----------------------------------------------------------------------------
AllSuccess == \A i \in 1..Len(ran) : ran[i][2] = "kSuccess"

\* "State not found, this should not happen" in RunCurrentState does not
\* happen: whatever has been added, and in whatever order, the machine only
\* moves to states it can run.
StateIsFound ==
    step = "RunCurrentState" => current_state \in state_creators \cup {kStateEnd}

\* What Start promises by checking SuccessCanReachEnd, unless the flag switches
\* the check off: as long as every task succeeds no state is run twice, and
\* when the machine stops it has reached kStateEnd.
SuccessReachesEnd ==
    check_success_route /\ AllSuccess /\ started =>
        /\ \A i, j \in 1..Len(ran) : ran[i][1] = ran[j][1] => i = j
        /\ step = "returned" => ran[Len(ran)][1] = kStateEnd

\* final_done_ is run exactly once, when no task is left, and the result
\* list ends in kStateEnd unless a result had no transition.
DoneOnce ==
    /\ done = IF step = "returned" THEN 1 ELSE 0
    /\ step = "returned" =>
         /\ task = "none"
         /\ \/ ran[Len(ran)][1] = kStateEnd
            \/ ~HasNext(ran[Len(ran)][1], ran[Len(ran)][2])
=============================================================================
