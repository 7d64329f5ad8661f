---------------------------- MODULE MemoryCache -----------------------------
(***************************************************************************)
(* common/cache/memory_cache.h: a map of limited size whose entries expire *)
(* and whose least recently used entry makes room.  A node of the map is   *)
(* also an element of lru_list_, and erasing it from the map unlinks it.   *)
(***************************************************************************)
EXTENDS Integers, Sequences, FiniteSets, SequencesExt, TLC

CONSTANTS
    Keys,
    capacity,
    life_cycle,
    MaxTime       \* bound: the clock

VARIABLES
    map,       \* key -> [value, expiry_time]; a value is the time it was put
    lru_list,  \* the keys of the nodes, the hottest one last
    now,       \* GetTimeStampInMs
    touched    \* ghost: all keys put or got so far, the last one last

vars == <<map, lru_list, now, touched>>

-----------------------------------------------------------------------------
ToBack(list, key) == Append(SelectSeq(list, LAMBDA k : k # key), key)

\* Variant: a node that is linked stays where it is.
MarkAsHotOnce(list, key) ==
    IF key \in ToSet(list) THEN list ELSE Append(list, key)

MarkAsHot(list, key) ==
    IF list # <<>> /\ Last(list) = key THEN list ELSE ToBack(list, key)

DiscardOneElement(m, list) ==
    /\ map' = [k \in DOMAIN m \ {Head(list)} |-> m[k]]
    /\ lru_list' = Tail(list)

\* Put and PutWithDetail, which differ in what they return.
Put(key) ==
    /\ ~(key \in DOMAIN map /\ map[key].expiry_time > now)
    /\ LET node == [value |-> now, expiry_time |-> now + life_cycle]
           m == (key :> node) @@ map
           list == MarkAsHot(lru_list, key)
       IN  IF Cardinality(DOMAIN m) > capacity
           THEN DiscardOneElement(m, list)
           ELSE map' = m /\ lru_list' = list
    /\ touched' = ToBack(touched, key)
    /\ UNCHANGED now

\* Get and GetWithDetail; an entry that has expired stays where it is.
\* Contains has the same condition and changes nothing.
Found(key) == key \in DOMAIN map /\ map[key].expiry_time >= now

Get(key) ==
    /\ Found(key)
    /\ lru_list' = MarkAsHot(lru_list, key)
    /\ touched' = ToBack(touched, key)
    /\ UNCHANGED <<map, now>>

Tick == now < MaxTime /\ now' = now + 1 /\ UNCHANGED <<map, lru_list, touched>>

-----------------------------------------------------------------------------
Init ==
    /\ map = <<>>
    /\ lru_list = <<>>
    /\ now = 1
    /\ touched = <<>>

Next == (\E key \in Keys : Put(key) \/ Get(key)) \/ Tick

Spec == Init /\ [][Next]_vars

-----------------------------------------------------------------------------
\* The map and the list hold the same nodes and never more than the capacity
\* (IsFull is an equality and would not notice).
ListIsMap ==
    /\ IsInjective(lru_list)
    /\ ToSet(lru_list) = DOMAIN map
    /\ Len(lru_list) <= capacity

\* What is in the cache are the keys used last, expired or not: an entry is
\* only discarded when "capacity" other keys have been used since.
KeepsTheLastUsed ==
    lru_list = SubSeq(touched, Len(touched) - Len(lru_list) + 1, Len(touched))
        /\ Len(lru_list) = IF Len(touched) < capacity THEN Len(touched)
                           ELSE capacity
=============================================================================
