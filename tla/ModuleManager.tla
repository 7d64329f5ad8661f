--------------------------- MODULE ModuleManager ----------------------------
(***************************************************************************)
(* common/base/module: modules register themselves and what they depend    *)
(* on, InitializeAll sorts them and runs their constructors, atexit runs   *)
(* their destructors.  A shared library may bring more modules later, and  *)
(* InitializeAll is then called again.  A fatal log or a broken CHECK ends *)
(* the program without atexit: "aborted".                                  *)
(***************************************************************************)
EXTENDS Integers, Sequences, FiniteSets, SequencesExt, Relation

CONSTANT Modules       \* numbers, in the order of the modules' names

VARIABLES
    m_modules,    \* module -> it has a destructor
    m_depends,    \* module -> the modules it depends on
    initialized,  \* the modules whose constructor has returned true
    at_exit,      \* the destructors registered with atexit, in order
    todo,         \* sorted_modules of the InitializeAll in progress
    program,      \* "running", "exiting", "exited" or "aborted"
    alive         \* the modules constructed and not destructed, in order

vars == <<m_modules, m_depends, initialized, at_exit, todo, program, alive>>

-----------------------------------------------------------------------------
(* TopologicalSort: the names no other name depends on first.              *)

\* ++indegrees[*j] for every edge.
Indegree(depends, m) == Cardinality({k \in DOMAIN depends : m \in depends[k]})

\* The loop over zero_queue: the result grows by the head of the queue, and
\* the edges of the head are taken off the indegrees of their ends.
RECURSIVE Drain(_, _, _, _)
Drain(depends, queue, indegrees, result) ==
    IF queue = <<>> THEN result
    ELSE LET head == Head(queue)
             left == [m \in DOMAIN indegrees |->
                        indegrees[m] - (IF m \in depends[head] THEN 1 ELSE 0)]
             freed == {m \in depends[head] : left[m] = 0}
         IN  Drain(depends, Tail(queue) \o SetToSortSeq(freed, <), left,
                   Append(result, head))

TopologicalSort(depends) ==
    LET indegrees == [m \in DOMAIN depends |-> Indegree(depends, m)]
        zero == {m \in DOMAIN depends : indegrees[m] = 0}
    IN  Drain(depends, SetToSortSeq(zero, <), indegrees, <<>>)

\* TopologicalSort's return value.
Sortable(depends) ==
    Len(TopologicalSort(depends)) = Cardinality(DOMAIN depends)

-----------------------------------------------------------------------------
Running == program = "running" /\ todo = <<>>

\* RegisterModuleCtor and RegisterModuleDtor, called by one macro.
RegisterModule(m, dtor) ==
    /\ Running
    /\ m \notin DOMAIN m_modules
    /\ m_modules' = [k \in DOMAIN m_modules \cup {m} |->
                       IF k = m THEN dtor ELSE m_modules[k]]
    /\ m_depends' = [k \in DOMAIN m_depends \cup {m} |->
                       IF k \in DOMAIN m_depends THEN m_depends[k] ELSE {}]
    /\ UNCHANGED <<initialized, at_exit, todo, program, alive>>

\* A module declares its dependencies in its own file, so before it is
\* initialized and perhaps before either module has been registered; the
\* linker makes sure that the other one exists.
RegisterDependency(m, dep) ==
    /\ Running
    /\ m \notin initialized
    /\ m_depends' = [k \in DOMAIN m_depends \cup {m} |->
                       IF k # m THEN m_depends[k]
                       ELSE IF m \in DOMAIN m_depends
                       THEN m_depends[m] \cup {dep} ELSE {dep}]
    /\ UNCHANGED <<m_modules, initialized, at_exit, todo, program, alive>>

\* Every dependency is a key of the map, as TopologicalSort asserts.
Linked == \A m \in DOMAIN m_depends : m_depends[m] \subseteq DOMAIN m_depends

\* Variant: the sorted names are not reversed.
SortModulesForward ==
    IF ~Sortable(m_depends) \/ DOMAIN m_depends # DOMAIN m_modules
    THEN program' = "aborted" /\ UNCHANGED todo
    ELSE todo' = TopologicalSort(m_depends) /\ UNCHANGED program

\* LOG(FATAL) on a cycle, CHECK that every name is a module.
SortModules ==
    IF ~Sortable(m_depends) \/ DOMAIN m_depends # DOMAIN m_modules
    THEN program' = "aborted" /\ UNCHANGED todo
    ELSE todo' = Reverse(TopologicalSort(m_depends)) /\ UNCHANGED program

InitializeAll ==
    /\ Running
    /\ DOMAIN m_depends # {}
    /\ Linked
    /\ SortModules
    /\ UNCHANGED <<m_modules, m_depends, initialized, at_exit, alive>>

\* The loop's body: a module that has been initialized is passed over; a
\* constructor that fails ends the program with exit(1).
Construct ==
    IF Head(todo) \in initialized
    THEN UNCHANGED <<initialized, at_exit, program, alive>>
    ELSE \/ /\ at_exit' = IF m_modules[Head(todo)]
                          THEN Append(at_exit, Head(todo)) ELSE at_exit
            /\ initialized' = initialized \cup {Head(todo)}
            /\ alive' = Append(alive, Head(todo))
            /\ UNCHANGED program
         \/ program' = "exiting" /\ UNCHANGED <<initialized, at_exit, alive>>

InitializeNext ==
    /\ program = "running"
    /\ todo # <<>>
    /\ Construct
    /\ todo' = IF program' = "exiting" THEN <<>> ELSE Tail(todo)
    /\ UNCHANGED <<m_modules, m_depends>>

Exit ==
    /\ Running
    /\ program' = "exiting"
    /\ UNCHANGED <<m_modules, m_depends, initialized, at_exit, todo, alive>>

\* exit runs the registered destructors, the last one first.
RunAtExit ==
    /\ program = "exiting"
    /\ IF at_exit = <<>>
       THEN program' = "exited" /\ UNCHANGED <<at_exit, alive>>
       ELSE /\ at_exit' = Front(at_exit)
            /\ alive' = SelectSeq(alive, LAMBDA m : m # Last(at_exit))
            /\ UNCHANGED program
    /\ UNCHANGED <<m_modules, m_depends, initialized, todo>>

-----------------------------------------------------------------------------
Init ==
    /\ m_modules = <<>>
    /\ m_depends = <<>>
    /\ initialized = {}
    /\ at_exit = <<>>
    /\ todo = <<>>
    /\ program = "running"
    /\ alive = <<>>

Next ==
    \/ \E m \in Modules, dtor \in BOOLEAN : RegisterModule(m, dtor)
    \/ \E m, dep \in Modules : RegisterDependency(m, dep)
    \/ InitializeAll
    \/ InitializeNext
    \/ Exit
    \/ RunAtExit

Spec == Init /\ [][Next]_vars

-----------------------------------------------------------------------------
\* A module is only used together with everything it depends on: its
\* constructor runs after theirs and its destructor, if it has one, before
\* theirs, also when libraries are loaded later and when a constructor fails.
DependenciesOutlive ==
    \A m \in ToSet(alive) :
        program = "running" \/ m_modules[m] => m_depends[m] \subseteq ToSet(alive)

\* No module is constructed twice, however often InitializeAll is called.
ConstructedOnce == IsInjective(alive)

\* TopologicalSort returns true exactly for a dependency map without cycle,
\* self-dependencies included.
SortFindsCycles ==
    Linked =>
        LET reaches == TransitiveClosure(
                [e \in (DOMAIN m_depends) \X (DOMAIN m_depends) |->
                   e[2] \in m_depends[e[1]]], DOMAIN m_depends)
        IN  Sortable(m_depends)
              <=> \A m \in DOMAIN m_depends : ~reaches[m, m]
=============================================================================
