--------------------------- MODULE ThreadSafeTable ---------------------------
(***************************************************************************)
(* app/qzap/common/thread/thread_safe_table.h: a hash table whose          *)
(* operations hold its shared_mutex_, Find in shared mode and the others   *)
(* exclusively.  The lock is what SharedLock specifies, which SharedMutex  *)
(* implements.  Inside an operation, finding an entry and using the        *)
(* iterator are two steps.                                                 *)
(***************************************************************************)
EXTENDS Integers, FiniteSets

CONSTANTS
    Threads,
    Keys,
    MaxInserts,   \* bound: calls of Insert, each with a value of its own
    None          \* no value, and end()

VARIABLES
    holds,        \* the ownership of shared_mutex_
    table_,       \* key -> value
    operation,    \* thread -> the operation in progress
    inserts,      \* ghost: values inserted so far
    handed,       \* ghost: (thread, value) FindAndRemove has handed out
    dangling      \* ghost: an iterator to an erased entry was used

vars == <<holds, table_, operation, inserts, handed, dangling>>

shared_mutex_ == INSTANCE SharedLock

Idle == [name |-> "none", key |-> None, at |-> "idle", it |-> None]

-----------------------------------------------------------------------------
\* Variant: FindAndRemove is satisfied with the shared lock.
ModeShared(name) ==
    IF name \in {"Find", "FindAndRemove"} THEN "shared" ELSE "exclusive"

\* SharedMutex::ScopedSharedLock or ScopedLock.
Mode(name) == IF name = "Find" THEN "shared" ELSE "exclusive"

Call(t, name, key) ==
    /\ operation[t].at = "idle"
    /\ name = "Insert" => inserts < MaxInserts
    /\ shared_mutex_!Acquire(t, Mode(name))
    /\ operation' = [operation EXCEPT ![t] = [name |-> name, key |-> key,
                                              at |-> "locked", it |-> None]]
    /\ UNCHANGED <<table_, inserts, handed, dangling>>

Return(t) ==
    /\ operation' = [operation EXCEPT ![t].at = "return"]
    /\ UNCHANGED holds

\* table_.find; without an entry, Find and FindAndRemove return false.
FindEntry(t) ==
    /\ operation[t].at = "locked"
    /\ operation[t].name \in {"Find", "FindAndRemove"}
    /\ IF table_[operation[t].key] = None
       THEN Return(t)
       ELSE /\ operation' = [operation EXCEPT ![t].at = "found",
                                              ![t].it = table_[operation[t].key]]
            /\ UNCHANGED holds
    /\ UNCHANGED <<table_, inserts, handed, dangling>>

\* *v = it->second, and FindAndRemove's erase(it).
UseEntry(t) ==
    LET op == operation[t] IN
    /\ op.at = "found"
    /\ dangling' = (dangling \/ table_[op.key] # op.it)
    /\ IF op.name = "FindAndRemove"
       THEN /\ table_' = [table_ EXCEPT ![op.key] = None]
            /\ handed' = handed \cup {<<t, op.it>>}
       ELSE UNCHANGED <<table_, handed>>
    /\ Return(t)
    /\ UNCHANGED inserts

\* table_[key] = value, table_.erase(key) and table_.clear().
Change(t) ==
    LET op == operation[t] IN
    /\ op.at = "locked"
    /\ \/ /\ op.name = "Insert"
          /\ inserts' = inserts + 1
          /\ table_' = [table_ EXCEPT ![op.key] = inserts + 1]
       \/ /\ op.name = "Remove"
          /\ table_' = [table_ EXCEPT ![op.key] = None]
          /\ UNCHANGED inserts
       \/ /\ op.name = "Clear"
          /\ table_' = [key \in Keys |-> None]
          /\ UNCHANGED inserts
    /\ Return(t)
    /\ UNCHANGED <<handed, dangling>>

Unlock(t) ==
    /\ operation[t].at = "return"
    /\ shared_mutex_!Release(t)
    /\ operation' = [operation EXCEPT ![t] = Idle]
    /\ UNCHANGED <<table_, inserts, handed, dangling>>

Init ==
    /\ shared_mutex_!Init
    /\ table_ = [key \in Keys |-> None]
    /\ operation = [t \in Threads |-> Idle]
    /\ inserts = 0
    /\ handed = {}
    /\ dangling = FALSE

Next ==
    \E t \in Threads :
      \/ \E name \in {"Find", "FindAndRemove", "Insert", "Remove", "Clear"},
            key \in Keys : Call(t, name, key)
      \/ FindEntry(t)
      \/ UseEntry(t)
      \/ Change(t)
      \/ Unlock(t)

Spec == Init /\ [][Next]_vars

-----------------------------------------------------------------------------
(* Properties.                                                             *)

\* FindAndRemove hands a value to one caller only, however many ask for it at
\* the same time, and no operation uses an entry another has erased.
HandedToOne ==
    /\ ~dangling
    /\ \A x, y \in handed : x[2] = y[2] => x = y
=============================================================================
