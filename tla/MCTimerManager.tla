---------------------------- MODULE MCTimerManager ----------------------------
(* TimerManager for TLC. Callers and closures are interchangeable. *)
EXTENDS TimerManager, TLC

Symmetry == Permutations(Callers) \cup Permutations(Closures)

AllOperations ==
  {"AddTimer", "AsyncRemoveTimer", "RemoveTimer", "ModifyTimer", "DisableTimer",
   "EnableTimer", "Clear", "Stop"}
================================================================================
