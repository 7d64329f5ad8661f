------------------------------ MODULE SharedLock ------------------------------
(****************************************************************************)
(* What the comment at the head of shared_mutex.h promises of an upgradable *)
(* shared lock, without the condition variables that implement it: who owns *)
(* the lock, and in which mode.  Any number of threads may own it shared, a *)
(* single one upgradable at the same time, and an exclusive owner is alone. *)
(****************************************************************************)
CONSTANT Threads

VARIABLE holds      \* the ownership of each thread

Modes == {"none", "shared", "upgrade", "exclusive"}

\* Modes another thread may own the lock in while a thread owns it in mode m.
Compatible(m) ==
  CASE m = "shared"    -> {"none", "shared", "upgrade"}
    [] m = "upgrade"   -> {"none", "shared"}
    [] m = "exclusive" -> {"none"}

OthersAllow(t, m) == \A u \in Threads \ {t} : holds[u] \in Compatible(m)

Become(t, m) == holds' = [holds EXCEPT ![t] = m]

Init == holds = [t \in Threads |-> "none"]

\* lock, lock_shared, lock_upgrade and their try and timed forms
Acquire(t, m) == holds[t] = "none" /\ OthersAllow(t, m) /\ Become(t, m)

\* "If no other threads have shared ownership, the upgrade is completed"
Upgrade(t) ==
  /\ holds[t] = "upgrade"
  /\ OthersAllow(t, "exclusive")
  /\ Become(t, "exclusive")

\* "Ownership can also be downgraded as well as upgraded"
Downgrade(t, m) ==
  /\ \/ holds[t] = "exclusive" /\ m \in {"upgrade", "shared"}
     \/ holds[t] = "upgrade" /\ m = "shared"
  /\ Become(t, m)

Release(t) == holds[t] # "none" /\ Become(t, "none")

Next ==
  \E t \in Threads :
    \/ \E m \in {"shared", "upgrade", "exclusive"} : Acquire(t, m)
    \/ Upgrade(t)
    \/ \E m \in {"upgrade", "shared"} : Downgrade(t, m)
    \/ Release(t)

Spec == Init /\ [][Next]_holds
================================================================================
