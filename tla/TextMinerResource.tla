------------------------- MODULE TextMinerResource --------------------------
(***************************************************************************)
(* app/qzap/text_analysis/text_miner_resource.cc: resources that are       *)
(* created when a thread first asks for them, behind a flag that is read   *)
(* without the lock and again with it.  The resources are the dictionary   *)
(* manager with its own mutex, those that may fail to load (the segmenter, *)
(* the topic inference engine), and those built upon the dictionary (the   *)
(* token and keyword extractors, the embedding engine).                    *)
(***************************************************************************)
EXTENDS Naturals, Sequences, FiniteSets

CONSTANTS
    Threads,
    Dict,         \* the dictionary manager
    Loaded,       \* resources that load a model
    UponDict,     \* resources built with the dictionary
    MaxObjects,   \* bound: objects created
    MaxGets       \* bound: calls of a thread

Resources == {Dict} \cup Loaded \cup UponDict

VARIABLES
    is_init,   \* the is_init_ flags
    pointer,   \* resource -> its object, 0 for NULL
    ready,     \* the objects that are completely built
    objects,   \* objects created so far
    holder,    \* mutex -> the thread that holds it, or Nobody
    stack,     \* thread -> the getters it is in, the innermost one last
    got,       \* thread -> what its last getter has returned
    gets,      \* thread -> calls so far
    crashed    \* a NULL dictionary manager has been dereferenced

vars == <<is_init, pointer, ready, objects, holder, stack, got, gets, crashed>>

Nobody == "nobody"

\* Variant: one mutex for everything.
MutexOfModule(x) == "module_mutex_"

MutexOf(x) == IF x = Dict THEN "dict_manager_mutex_" ELSE "module_mutex_"

Top(t) == stack[t][Len(stack[t])]

At(t, pc) == ~crashed /\ stack[t] # <<>> /\ Top(t).pc = pc

Goto(t, pc) == [stack EXCEPT ![t][Len(stack[t])].pc = pc]

\* A getter returns to its caller: the user, or the Init function that has
\* asked for the dictionary.
Return(t, object) ==
    /\ got' = [got EXCEPT ![t] = <<Top(t).resource, object>>]
    /\ stack' = [stack EXCEPT ![t] = SubSeq(@, 1, Len(@) - 1)]

Unlock(x) == holder' = [holder EXCEPT ![MutexOf(x)] = Nobody]

Frame(x) == [resource |-> x, pc |-> "flag"]

-----------------------------------------------------------------------------
Get(t, x) ==
    /\ ~crashed
    /\ stack[t] = <<>>
    /\ gets[t] < MaxGets
    /\ gets' = [gets EXCEPT ![t] = @ + 1]
    /\ stack' = [stack EXCEPT ![t] = <<Frame(x)>>]
    /\ UNCHANGED <<is_init, pointer, ready, objects, holder, got, crashed>>

\* The flag is read without the lock.
ReadFlag(t) ==
    /\ At(t, "flag")
    /\ stack' = Goto(t, IF is_init[Top(t).resource] THEN "return" ELSE "lock")
    /\ UNCHANGED <<is_init, pointer, ready, objects, holder, got, gets,
                   crashed>>

InitNeeded(x) == ~is_init[x]

Lock(t) ==
    /\ At(t, "lock")
    /\ holder[MutexOf(Top(t).resource)] = Nobody
    /\ holder' = [holder EXCEPT ![MutexOf(Top(t).resource)] = t]
    /\ stack' = Goto(t, IF InitNeeded(Top(t).resource) THEN "init" ELSE "unlock")
    /\ UNCHANGED <<is_init, pointer, ready, objects, got, gets, crashed>>

\* InitX for the resources built upon the dictionary begins with
\* GetDictManager; the others create their object.
InitBegin(t) ==
    /\ At(t, "init")
    /\ IF Top(t).resource \in UponDict
       THEN /\ stack' = [stack EXCEPT ![t] =
                           Append(Goto(t, "dict")[t], Frame(Dict))]
            /\ UNCHANGED <<pointer, objects>>
       ELSE /\ objects < MaxObjects
            /\ objects' = objects + 1
            /\ pointer' = [pointer EXCEPT ![Top(t).resource] = objects']
            /\ stack' = Goto(t, "load")
    /\ UNCHANGED <<is_init, ready, holder, got, gets, crashed>>

\* *dict_manager: undefined when GetDictManager has returned NULL.
UseDict(t) ==
    /\ At(t, "dict")
    /\ IF got[t][2] = 0
       THEN crashed' = TRUE /\ UNCHANGED <<objects, pointer, ready, is_init, stack>>
       ELSE /\ objects < MaxObjects
            /\ objects' = objects + 1
            /\ pointer' = [pointer EXCEPT ![Top(t).resource] = objects']
            /\ ready' = ready \cup {objects'}
            /\ is_init' = [is_init EXCEPT ![Top(t).resource] = TRUE]
            /\ stack' = Goto(t, "unlock")
            /\ UNCHANGED crashed
    /\ UNCHANGED <<holder, got, gets>>

\* Init or LoadModel succeeds, or fails and leaves the object as it is.
Load(t) ==
    /\ At(t, "load")
    /\ \/ /\ ready' = ready \cup {pointer[Top(t).resource]}
          /\ is_init' = [is_init EXCEPT ![Top(t).resource] = TRUE]
          /\ stack' = Goto(t, "unlock")
          /\ UNCHANGED <<holder, got>>
       \/ /\ Unlock(Top(t).resource)
          /\ Return(t, 0)
          /\ UNCHANGED <<ready, is_init>>
    /\ UNCHANGED <<pointer, objects, gets, crashed>>

UnlockMutex(t) ==
    /\ At(t, "unlock")
    /\ Unlock(Top(t).resource)
    /\ stack' = Goto(t, "return")
    /\ UNCHANGED <<is_init, pointer, ready, objects, got, gets, crashed>>

ReturnPointer(t) ==
    /\ At(t, "return")
    /\ Return(t, pointer[Top(t).resource])
    /\ UNCHANGED <<is_init, pointer, ready, objects, holder, gets, crashed>>

-----------------------------------------------------------------------------
Init ==
    /\ is_init = [x \in Resources |-> FALSE]
    /\ pointer = [x \in Resources |-> 0]
    /\ ready = {}
    /\ objects = 0
    /\ holder = [m \in {"dict_manager_mutex_", "module_mutex_"} |-> Nobody]
    /\ stack = [t \in Threads |-> <<>>]
    /\ got = [t \in Threads |-> <<Dict, 0>>]
    /\ gets = [t \in Threads |-> 0]
    /\ crashed = FALSE

Next ==
    \E t \in Threads :
        \/ \E x \in Resources : Get(t, x)
        \/ ReadFlag(t) \/ Lock(t) \/ InitBegin(t) \/ UseDict(t) \/ Load(t)
        \/ UnlockMutex(t) \/ ReturnPointer(t)

Spec == Init /\ [][Next]_vars

-----------------------------------------------------------------------------
\* What a getter has returned is NULL or the completely built object that
\* the resource still has: neither an object whose loading has failed or is
\* still under way, nor one that another thread has replaced since.
GotIsCurrent ==
    \A t \in Threads :
        got[t][2] # 0 => got[t][2] \in ready /\ got[t][2] = pointer[got[t][1]]

WaitsFor(t) == IF At(t, "lock") THEN holder[MutexOf(Top(t).resource)] ELSE Nobody

\* Nobody waits in a circle: the dictionary's mutex is taken inside the
\* modules' mutex and never the other way round, nor a mutex twice.
NoCircularWait ==
    \A t \in Threads :
        /\ WaitsFor(t) # t
        /\ WaitsFor(t) \in Threads => WaitsFor(WaitsFor(t)) # t
=============================================================================
