-------------------------- MODULE MCSynchronization --------------------------
(***************************************************************************)
(* SharedMutex and BlockingQueue, checked side by side: a behaviour takes  *)
(* steps of the one chosen at the start, so that their state spaces add up *)
(* and do not multiply.                                                    *)
(*                                                                         *)
(* The threads of the lock call it finitely often and release what they    *)
(* own.  budget is what they may still begin, together: acquisitions and   *)
(* conversions.  The lock prefers nobody for good, so without this bound a *)
(* stream of readers may keep a converting thread waiting.                 *)
(***************************************************************************)
EXTENDS SharedMutex, BlockingQueue

CONSTANT MaxCalls

VARIABLES part, budget

MutexVars == <<vars, budget>>
allVars == <<part, MutexVars, QueueVars>>

Begin(t) ==
  /\ request[t] = "none"
  /\ budget > 0
  /\ budget' = budget - 1
  /\ Acquiring(t) \/ Converting(t)

Continue(t) ==
  /\ Resuming(t) \/ Releasing(t) \/ SpuriousWakeup(t)
  /\ UNCHANGED budget

AllDone == budget = 0 /\ \A t \in Threads : Idle(t)

Terminated == AllDone /\ UNCHANGED MutexVars

MutexStep ==
  /\ part = "mutex"
  /\ (\E t \in Threads : Begin(t) \/ Continue(t)) \/ Terminated
  /\ UNCHANGED <<part, QueueVars>>

QueueStep ==
  /\ part = "queue"
  /\ QueueNext
  /\ UNCHANGED <<part, MutexVars>>

BoundedInit ==
  /\ part \in {"mutex", "queue"}
  /\ Init /\ budget = MaxCalls
  /\ QueueInit

\* Runnable threads run, bounded waits end and owners of the lock release it.
BoundedSpec ==
  /\ BoundedInit
  /\ [][MutexStep \/ QueueStep]_allVars
  /\ \A t \in Threads :
       /\ WF_MutexVars(part = "mutex" /\ Resuming(t) /\ UNCHANGED budget)
       /\ WF_MutexVars(part = "mutex" /\ Releasing(t) /\ UNCHANGED budget)
  /\ \A t \in Callers : WF_QueueVars(part = "queue" /\ Resume(t))

\* Every method of SharedMutex returns: no interleaving of unlocks, conversions, timeouts
\* and spurious wakeups leaves a thread waiting with nobody to wake it.
EveryCallReturns ==
  \A t \in Threads : request[t] # "none" ~> request[t] = "none"
================================================================================
