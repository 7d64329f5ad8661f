----------------------------- MODULE SharedMutex -----------------------------
(****************************************************************************)
(* The upgradable reader/writer lock of app/qzap/common/thread/shared_mutex *)
(* (.h, .cc).  Every method of SharedMutex::Impl holds state_change for its *)
(* whole body and gives it up only inside a condition wait, so a method is  *)
(* a sequence of atomic steps: from its entry, or from the return of a      *)
(* wait, to the next wait or to its return.                                 *)
(*                                                                          *)
(* The four fields of state_data are variables of their own.  holds[t] is   *)
(* the ownership thread t has been granted; request[t] the method that t is *)
(* inside, waiting; asleep the waiting threads nothing has woken yet.  Each *)
(* method waits on one condition variable, so request tells which.  Threads *)
(* unlock what they own, as the scoped locks of shared_mutex.h do.          *)
(****************************************************************************)
EXTENDS Naturals, FiniteSets

CONSTANT Threads

ASSUME ThreadsAssumption == IsFiniteSet(Threads)

VARIABLES
  shared_count,               \* threads counted as readers
  exclusive,
  upgrade,
  exclusive_waiting_blocked,  \* a writer waits: hold back new readers
  holds,
  request,
  asleep

state == <<shared_count, exclusive, upgrade, exclusive_waiting_blocked>>
vars == <<state, holds, request, asleep>>

SharedCondCalls ==
  {"LockShared", "TimedLockShared", "LockUpgrade", "TimedLockUpgrade"}
ExclusiveCondCalls == {"Lock", "TimedLock"}
UpgradeCondCalls == {"UnlockUpgradeAndLock"}
Calls == SharedCondCalls \cup ExclusiveCondCalls \cup UpgradeCondCalls

Sleepers(calls) == {t \in asleep : request[t] \in calls}

--------------------------------------------------------------------------------
(* Condition variables *)

\* Signal wakes one sleeper, if there is one, and which one is not determined.
NotifyOne(S) == IF S = {} THEN {{}} ELSE {{t} : t \in S}

\* The threads of also, one writer, and everyone on shared_cond wake.
ReleaseWaiters(also) ==
  \E w \in NotifyOne(Sleepers(ExclusiveCondCalls)) :
    asleep' = asleep \ (also \cup w \cup Sleepers(SharedCondCalls))

\* A wait may return although nothing signalled it; the loops check again.
SpuriousWakeup(t) ==
  /\ t \in asleep
  /\ asleep' = asleep \ {t}
  /\ UNCHANGED <<state, holds, request>>

--------------------------------------------------------------------------------
(* Entering, waiting and returning *)

Idle(t) == holds[t] = "none" /\ request[t] = "none"

\* t evaluates the condition of method call: it enters it, or a wait returned.
Evaluates(t, call) == Idle(t) \/ (request[t] = call /\ t \notin asleep)

SleepIn(t, call) ==
  /\ request' = [request EXCEPT ![t] = call]
  /\ asleep' = asleep \cup {t}
  /\ UNCHANGED holds

\* The method t was in returns and leaves t with ownership mode.
ReturnWith(t, mode) ==
  /\ holds' = [holds EXCEPT ![t] = mode]
  /\ request' = [request EXCEPT ![t] = "none"]

SharedBlocked == exclusive \/ exclusive_waiting_blocked
\* Variant: a writer looks only for another writer.
ExclusiveBlockedIgnoresReaders == exclusive

ExclusiveBlocked == shared_count # 0 \/ exclusive

UpgradeBlocked == SharedBlocked \/ upgrade

GrantShared(t) ==
  /\ shared_count' = shared_count + 1
  /\ ReturnWith(t, "shared")
  /\ UNCHANGED <<exclusive, upgrade, exclusive_waiting_blocked>>

GrantExclusive(t) ==
  /\ exclusive' = TRUE
  /\ ReturnWith(t, "exclusive")
  /\ UNCHANGED <<shared_count, upgrade, exclusive_waiting_blocked>>

GrantUpgrade(t) ==
  /\ shared_count' = shared_count + 1
  /\ upgrade' = TRUE
  /\ ReturnWith(t, "upgrade")
  /\ UNCHANGED <<exclusive, exclusive_waiting_blocked>>

\* A bounded wait ended by its timeout: t is awake and runs on from there.
TimesOutIn(t, call) == t \in asleep /\ request[t] = call

ReturnFalse(t) == ReturnWith(t, "none") /\ UNCHANGED <<shared_count, exclusive, upgrade>>

--------------------------------------------------------------------------------
(* Shared ownership *)

SharedLoop(t, call) ==
  /\ Evaluates(t, call)
  /\ \/ SharedBlocked /\ SleepIn(t, call) /\ UNCHANGED state
     \/ ~SharedBlocked /\ GrantShared(t) /\ UNCHANGED asleep

LockShared(t) == SharedLoop(t, "LockShared")

\* The refused try leaves everything as it was: only the granted one is a step.
TrylockShared(t) == Idle(t) /\ ~SharedBlocked /\ GrantShared(t) /\ UNCHANGED asleep

\* The timeout returns false without a second look at the state.
TimedLockShared(t) ==
  \/ SharedLoop(t, "TimedLockShared")
  \/ /\ TimesOutIn(t, "TimedLockShared")
     /\ ReturnFalse(t)
     /\ asleep' = asleep \ {t}
     /\ UNCHANGED exclusive_waiting_blocked

\* The last reader hands the lock to a waiting upgrade, or opens it to all.
UnlockShared(t) ==
  /\ holds[t] = "shared"
  /\ ReturnWith(t, "none")
  /\ shared_count' = shared_count - 1
  /\ \/ /\ shared_count' # 0
        /\ UNCHANGED <<exclusive, upgrade, exclusive_waiting_blocked, asleep>>
     \/ /\ shared_count' = 0
        /\ upgrade
        /\ upgrade' = FALSE
        /\ exclusive' = TRUE
        /\ \E u \in NotifyOne(Sleepers(UpgradeCondCalls)) : ReleaseWaiters(u)
        /\ UNCHANGED exclusive_waiting_blocked
     \/ /\ shared_count' = 0
        /\ ~upgrade
        /\ exclusive_waiting_blocked' = FALSE
        /\ ReleaseWaiters({})
        /\ UNCHANGED <<exclusive, upgrade>>

--------------------------------------------------------------------------------
(* Exclusive ownership *)

ExclusiveLoop(t, call) ==
  /\ Evaluates(t, call)
  /\ \/ /\ ExclusiveBlocked
        /\ exclusive_waiting_blocked' = TRUE
        /\ SleepIn(t, call)
        /\ UNCHANGED <<shared_count, exclusive, upgrade>>
     \/ ~ExclusiveBlocked /\ GrantExclusive(t) /\ UNCHANGED asleep

Lock(t) == ExclusiveLoop(t, "Lock")

\* Variant: a writer that gives up leaves exclusive_waiting_blocked set.
TimedLockKeepsReadersOut(t) ==
  \/ ExclusiveLoop(t, "TimedLock")
  \/ /\ TimesOutIn(t, "TimedLock")
     /\ ExclusiveBlocked
     /\ ReturnFalse(t)
     /\ asleep' = asleep \ {t}
     /\ UNCHANGED exclusive_waiting_blocked

\* A timeout that still finds the lock taken withdraws the hold on new readers
\* and passes its turn to another writer; it does not wake shared_cond.
TimedLock(t) ==
  \/ ExclusiveLoop(t, "TimedLock")
  \/ /\ TimesOutIn(t, "TimedLock")
     /\ ExclusiveBlocked
     /\ exclusive_waiting_blocked' = FALSE
     /\ \E w \in NotifyOne(Sleepers(ExclusiveCondCalls) \ {t}) :
          asleep' = asleep \ (w \cup {t})
     /\ ReturnFalse(t)
  \/ /\ TimesOutIn(t, "TimedLock")
     /\ ~ExclusiveBlocked
     /\ GrantExclusive(t)
     /\ asleep' = asleep \ {t}

\* Variant: the only reader may take the lock exclusively.
TrylockFromShared(t) ==
  \/ Idle(t) /\ ~ExclusiveBlocked /\ GrantExclusive(t) /\ UNCHANGED asleep
  \/ /\ holds[t] = "shared" /\ shared_count = 1 /\ ~upgrade
     /\ shared_count' = 0
     /\ exclusive' = TRUE
     /\ ReturnWith(t, "exclusive")
     /\ UNCHANGED <<upgrade, exclusive_waiting_blocked, asleep>>

Trylock(t) == Idle(t) /\ ~ExclusiveBlocked /\ GrantExclusive(t) /\ UNCHANGED asleep

Unlock(t) ==
  /\ holds[t] = "exclusive"
  /\ ReturnWith(t, "none")
  /\ exclusive' = FALSE
  /\ exclusive_waiting_blocked' = FALSE
  /\ ReleaseWaiters({})
  /\ UNCHANGED <<shared_count, upgrade>>

--------------------------------------------------------------------------------
(* Upgradable ownership *)

UpgradeLoop(t, call) ==
  /\ Evaluates(t, call)
  /\ \/ UpgradeBlocked /\ SleepIn(t, call) /\ UNCHANGED state
     \/ ~UpgradeBlocked /\ GrantUpgrade(t) /\ UNCHANGED asleep

LockUpgrade(t) == UpgradeLoop(t, "LockUpgrade")

TimedLockUpgrade(t) ==
  \/ UpgradeLoop(t, "TimedLockUpgrade")
  \/ /\ TimesOutIn(t, "TimedLockUpgrade")
     /\ UpgradeBlocked
     /\ ReturnFalse(t)
     /\ asleep' = asleep \ {t}
     /\ UNCHANGED exclusive_waiting_blocked
  \/ /\ TimesOutIn(t, "TimedLockUpgrade")
     /\ ~UpgradeBlocked
     /\ GrantUpgrade(t)
     /\ asleep' = asleep \ {t}

TrylockUpgrade(t) == Idle(t) /\ ~UpgradeBlocked /\ GrantUpgrade(t) /\ UNCHANGED asleep

\* t owns the lock upgradable and has not begun to convert that ownership.
OwnsUpgrade(t) == holds[t] = "upgrade" /\ request[t] = "none"

\* Nobody is woken while other readers remain.
UnlockUpgrade(t) ==
  /\ OwnsUpgrade(t)
  /\ ReturnWith(t, "none")
  /\ upgrade' = FALSE
  /\ shared_count' = shared_count - 1
  /\ \/ shared_count' # 0 /\ UNCHANGED <<exclusive_waiting_blocked, asleep>>
     \/ /\ shared_count' = 0
        /\ exclusive_waiting_blocked' = FALSE
        /\ ReleaseWaiters({})
  /\ UNCHANGED exclusive

\* The end of UnlockUpgradeAndLock, once its loop is left.
Upgraded(t) ==
  /\ upgrade' = FALSE
  /\ exclusive' = TRUE
  /\ ReturnWith(t, "exclusive")
  /\ UNCHANGED <<exclusive_waiting_blocked, asleep>>

\* Variant: the loop also spins on exclusive, which the hand-over itself sets.
ConvertSpinsOnExclusive(t) ==
  \/ /\ OwnsUpgrade(t)
     /\ shared_count' = shared_count - 1
     /\ \/ /\ shared_count' # 0
           /\ SleepIn(t, "UnlockUpgradeAndLock")
           /\ UNCHANGED <<exclusive, upgrade, exclusive_waiting_blocked>>
        \/ shared_count' = 0 /\ Upgraded(t)
  \/ /\ request[t] = "UnlockUpgradeAndLock"
     /\ t \notin asleep
     /\ \/ shared_count # 0 /\ SleepIn(t, "UnlockUpgradeAndLock") /\ UNCHANGED state
        \/ shared_count = 0 /\ UNCHANGED vars

\* t stops counting as a reader when it enters, then waits for the others; it
\* keeps its upgradable ownership until it is exclusive.
UnlockUpgradeAndLock(t) ==
  \/ /\ OwnsUpgrade(t)
     /\ shared_count' = shared_count - 1
     /\ \/ /\ shared_count' # 0
           /\ SleepIn(t, "UnlockUpgradeAndLock")
           /\ UNCHANGED <<exclusive, upgrade, exclusive_waiting_blocked>>
        \/ shared_count' = 0 /\ Upgraded(t)
  \/ /\ request[t] = "UnlockUpgradeAndLock"
     /\ t \notin asleep
     /\ \/ shared_count # 0 /\ SleepIn(t, "UnlockUpgradeAndLock") /\ UNCHANGED state
        \/ shared_count = 0 /\ Upgraded(t) /\ UNCHANGED shared_count

UnlockAndLockUpgrade(t) ==
  /\ holds[t] = "exclusive"
  /\ ReturnWith(t, "upgrade")
  /\ exclusive' = FALSE
  /\ upgrade' = TRUE
  /\ shared_count' = shared_count + 1
  /\ exclusive_waiting_blocked' = FALSE
  /\ ReleaseWaiters({})

UnlockAndLockShared(t) ==
  /\ holds[t] = "exclusive"
  /\ ReturnWith(t, "shared")
  /\ exclusive' = FALSE
  /\ shared_count' = shared_count + 1
  /\ exclusive_waiting_blocked' = FALSE
  /\ ReleaseWaiters({})
  /\ UNCHANGED upgrade

UnlockUpgradeAndLockShared(t) ==
  /\ OwnsUpgrade(t)
  /\ ReturnWith(t, "shared")
  /\ upgrade' = FALSE
  /\ exclusive_waiting_blocked' = FALSE
  /\ ReleaseWaiters({})
  /\ UNCHANGED <<shared_count, exclusive>>

--------------------------------------------------------------------------------
Init ==
  /\ shared_count = 0
  /\ exclusive = FALSE
  /\ upgrade = FALSE
  /\ exclusive_waiting_blocked = FALSE
  /\ holds = [t \in Threads |-> "none"]
  /\ request = [t \in Threads |-> "none"]
  /\ asleep = {}

Acquiring(t) ==
  \/ LockShared(t) \/ TrylockShared(t) \/ TimedLockShared(t)
  \/ Lock(t) \/ Trylock(t) \/ TimedLock(t)
  \/ LockUpgrade(t) \/ TrylockUpgrade(t) \/ TimedLockUpgrade(t)

Releasing(t) == UnlockShared(t) \/ Unlock(t) \/ UnlockUpgrade(t)

Converting(t) ==
  \/ UnlockUpgradeAndLock(t) \/ UnlockAndLockUpgrade(t)
  \/ UnlockAndLockShared(t) \/ UnlockUpgradeAndLockShared(t)

Next ==
  \E t \in Threads : Acquiring(t) \/ Releasing(t) \/ Converting(t) \/ SpuriousWakeup(t)

Spec == Init /\ [][Next]_vars

\* A thread inside a method takes its next step: its wait returned, or timed out.
Resuming(t) == request[t] # "none" /\ (Acquiring(t) \/ UnlockUpgradeAndLock(t))

--------------------------------------------------------------------------------
(* Properties *)

Modes == {"none", "shared", "upgrade", "exclusive"}

\* Threads counted by shared_count: the owners that read, but not a thread that
\* has entered UnlockUpgradeAndLock.
Readers ==
  {t \in Threads : /\ holds[t] \in {"shared", "upgrade"}
                   /\ request[t] \notin UpgradeCondCalls}

Writers == {t \in Threads : request[t] \in ExclusiveCondCalls}

\* The state_data fields, the ownerships and the waits have their types; a waiter
\* owns nothing, except one that converts its upgradable ownership.
TypeOK ==
  /\ shared_count \in 0..Cardinality(Threads)
  /\ exclusive \in BOOLEAN
  /\ upgrade \in BOOLEAN
  /\ exclusive_waiting_blocked \in BOOLEAN
  /\ holds \in [Threads -> Modes]
  /\ request \in [Threads -> Calls \cup {"none"}]
  /\ asleep \subseteq {t \in Threads : request[t] # "none"}
  /\ \A t \in Threads :
       request[t] # "none" =>
         holds[t] = IF request[t] \in UpgradeCondCalls THEN "upgrade" ELSE "none"

\* The promise of shared_mutex.h:5-15: an exclusive owner is alone, and at most
\* one thread owns the lock upgradable, whatever way it was obtained.
MutualExclusion ==
  \A t, u \in Threads :
    t # u =>
      /\ holds[t] = "exclusive" => holds[u] = "none"
      /\ holds[t] = "upgrade" => holds[u] \in {"none", "shared"}

\* shared_count, exclusive and upgrade, which every method decides by, agree with
\* the ownerships: no unlock is counted twice or forgotten.  A waiting upgrade
\* keeps upgrade set until the last reader turns it into exclusive.
StateMatchesOwners ==
  /\ shared_count = Cardinality(Readers)
  /\ exclusive => shared_count = 0 /\ ~upgrade
  /\ \A t \in Threads :
       /\ holds[t] = "exclusive" => exclusive
       /\ OwnsUpgrade(t) => upgrade
       /\ request[t] \in UpgradeCondCalls => \/ upgrade /\ shared_count # 0
                                            \/ exclusive
  /\ upgrade => \E t \in Threads : holds[t] = "upgrade"
  /\ exclusive => \E t \in Threads : holds[t] \in {"exclusive", "upgrade"}

\* Lost wakeups: when the lock is free, whichever method freed it and however
\* timeouts, spurious wakeups and barging threads interleaved, no reader sleeps or
\* is held back, and if writers sleep one is awake and will pass the lock on.
FreeLockForgetsNobody ==
  ~ExclusiveBlocked =>
    /\ ~exclusive_waiting_blocked
    /\ Sleepers(SharedCondCalls) = {}
    /\ Sleepers(ExclusiveCondCalls) # {} => Writers \ asleep # {}

\* UnlockUpgradeAndLock never sleeps through the departure of the last reader:
\* UnlockShared's Notify on upgrade_cond reaches the thread that converts.
UpgradeIsHandedOver ==
  Sleepers(UpgradeCondCalls) # {} => shared_count # 0

\* Readers are held back only on behalf of a writer that still waits: the flag
\* does not outlive a Lock that was granted or a TimedLock that gave up.
ReadersHeldBackForAWriter ==
  exclusive_waiting_blocked => Writers # {}

\* The lock excludes as its header promises, because its fields and the ownerships,
\* which no field records by itself, stay in agreement through every method.
OwnershipIsSound == TypeOK /\ MutualExclusion /\ StateMatchesOwners

\* No wakeup is lost by any method, timeout or barging thread: a free lock, the
\* departure of the last reader and the end of a writer's wait reach who waits for them.
NobodyIsForgotten ==
  FreeLockForgetsNobody /\ UpgradeIsHandedOver /\ ReadersHeldBackForAWriter

\* Every method step is a step of the lock shared_mutex.h describes, or none.
Abstract == INSTANCE SharedLock WITH Threads <- Threads, holds <- holds
ImplementsSharedLock == Abstract!Spec
================================================================================
