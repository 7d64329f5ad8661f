------------------------- MODULE SynchronizationProofs -------------------------
(***************************************************************************)
(* The two components of the library that threads wait at: SharedMutex and *)
(* BlockingQueue.                                                          *)
(***************************************************************************)
EXTENDS SharedMutex, BlockingQueue, FiniteSetTheorems, TLAPS

\* Leaves are tried with Zenon, then SMT; a leaf that only SMT proves says so.
USE ZenonT(30), SMTT(60)

--------------------------------------------------------------------------------
(* For any finite set of threads, SharedMutex keeps its invariants and     *)
(* implements SharedLock.  None of the invariants is inductive alone: who  *)
(* may be granted ownership is decided by the flags and the count, so      *)
(* exclusion needs their agreement with the owners, the agreement needs    *)
(* exclusion, and exclusive_waiting_blocked needs that a free lock has no  *)
(* flag left behind.  Inv is their conjunction.                            *)

Inv ==
  /\ TypeOK
  /\ MutualExclusion
  /\ StateMatchesOwners
  /\ FreeLockForgetsNobody
  /\ UpgradeIsHandedOver
  /\ ReadersHeldBackForAWriter

\* A thread that is not counted as a reader and owns nothing: it enters a locking
\* method, or continues one.
Outside(t) == holds[t] = "none" /\ request[t] \notin UpgradeCondCalls

--------------------------------------------------------------------------------
(* Counting readers *)

\* A set of threads is finite and is counted by a natural number; no threads are
\* counted as zero.
LEMMA ThreadSets ==
  ASSUME NEW S \in SUBSET Threads
  PROVE  /\ IsFiniteSet(S)
         /\ Cardinality(S) \in 0..Cardinality(Threads)
         /\ Cardinality(S) = 0 <=> S = {}
<1>1. IsFiniteSet(S) /\ Cardinality(S) <= Cardinality(Threads)
  BY ThreadsAssumption, FS_Subset
<1>2. Cardinality(S) \in Nat /\ Cardinality(Threads) \in Nat
  BY <1>1, ThreadsAssumption, FS_CardinalityType
<1>3. Cardinality(S) = 0 <=> S = {}
  BY <1>1, FS_EmptySet
<1> QED BY <1>1, <1>2, <1>3

\* ++shared_count for a thread that was no reader, --shared_count for one that was.
LEMMA CountOneMore ==
  ASSUME NEW S \in SUBSET Threads, NEW t \in Threads
  PROVE  /\ t \notin S => Cardinality(S \cup {t}) = Cardinality(S) + 1
         /\ t \in S => Cardinality(S \ {t}) = Cardinality(S) - 1
<1>1. IsFiniteSet(S)
  BY ThreadSets
<1>2. t \notin S => Cardinality(S \cup {t}) = Cardinality(S) + 1
  BY <1>1, FS_AddElement
<1>3. t \in S => Cardinality(S \ {t}) = Cardinality(S) - 1
  BY <1>1, FS_RemoveElement
<1> QED BY <1>2, <1>3

\* The readers after a method of t returned with an ownership, or put t to sleep.
LEMMA ReadersAfter ==
  ASSUME TypeOK, NEW t \in Threads
  PROVE  /\ \A owns \in {"shared", "upgrade"} :
              ReturnWith(t, owns) => Readers' = Readers \cup {t}
         /\ \A owns \in {"none", "exclusive"} :
              ReturnWith(t, owns) => Readers' = Readers \ {t}
         /\ \A call \in Calls :
              SleepIn(t, call) /\ call \in UpgradeCondCalls => Readers' = Readers \ {t}
         /\ \A call \in Calls :
              SleepIn(t, call) /\ call \notin UpgradeCondCalls /\ Outside(t)
                => Readers' = Readers
BY SMTT(60) DEF TypeOK, ReturnWith, SleepIn, Readers, Outside, Modes, Calls,
   SharedCondCalls, ExclusiveCondCalls, UpgradeCondCalls

\* What ReleaseWaiters does to the sleepers: everyone on shared_cond wakes, and a
\* writer if one slept.
LEMMA ReleaseWaitersWakes ==
  ASSUME NEW also, ReleaseWaiters(also)
  PROVE  /\ asleep' \subseteq asleep \ also
         /\ asleep' \cap Sleepers(SharedCondCalls) = {}
         /\ Sleepers(ExclusiveCondCalls) # {} =>
              Sleepers(ExclusiveCondCalls) \ asleep' # {}
BY DEF ReleaseWaiters, NotifyOne

--------------------------------------------------------------------------------
(* What a locking method does to a thread that owns nothing *)

USE DEF Calls, SharedCondCalls, ExclusiveCondCalls, UpgradeCondCalls

\* Granting shared ownership, at once, after a wait, or after a timeout.
LEMMA GrantSharedInv ==
  ASSUME Inv, NEW t \in Threads, Outside(t), ~SharedBlocked, GrantShared(t),
         asleep' = asleep \ {t}
  PROVE  Inv'
<1> USE DEF Inv
<1>1. Readers' = Readers \cup {t} /\ t \notin Readers
  BY ReadersAfter DEF GrantShared, Outside, Readers
<1>2. shared_count' = Cardinality(Readers') /\ shared_count' # 0
  BY <1>1, CountOneMore, ThreadSets DEF Readers, GrantShared, StateMatchesOwners, TypeOK
<1>3. TypeOK'
  BY <1>2, ThreadSets DEF TypeOK, GrantShared, ReturnWith, Readers, Modes
<1>4. MutualExclusion'
  BY DEF MutualExclusion, StateMatchesOwners, SharedBlocked, GrantShared, ReturnWith, TypeOK
<1>5. StateMatchesOwners'
  BY <1>2 DEF StateMatchesOwners, SharedBlocked, GrantShared, ReturnWith, TypeOK,
     OwnsUpgrade, Outside
<1>6. FreeLockForgetsNobody' /\ UpgradeIsHandedOver'
  BY <1>2 DEF FreeLockForgetsNobody, UpgradeIsHandedOver, ExclusiveBlocked
<1>7. ReadersHeldBackForAWriter'
  BY DEF ReadersHeldBackForAWriter, GrantShared, SharedBlocked
<1> QED BY <1>3, <1>4, <1>5, <1>6, <1>7

\* Granting upgradable ownership.
LEMMA GrantUpgradeInv ==
  ASSUME Inv, NEW t \in Threads, Outside(t), ~UpgradeBlocked, GrantUpgrade(t),
         asleep' = asleep \ {t}
  PROVE  Inv'
<1> USE DEF Inv
<1>1. Readers' = Readers \cup {t} /\ t \notin Readers
  BY ReadersAfter DEF GrantUpgrade, Outside, Readers
<1>2. shared_count' = Cardinality(Readers') /\ shared_count' # 0
  BY <1>1, CountOneMore, ThreadSets DEF Readers, GrantUpgrade, StateMatchesOwners, TypeOK
<1>3. TypeOK'
  BY <1>2, ThreadSets DEF TypeOK, GrantUpgrade, ReturnWith, Readers, Modes
<1>4. MutualExclusion'
  BY DEF MutualExclusion, StateMatchesOwners, SharedBlocked, UpgradeBlocked,
     OwnsUpgrade, GrantUpgrade, ReturnWith, TypeOK, Modes
<1>5. StateMatchesOwners'
  BY <1>2 DEF StateMatchesOwners, SharedBlocked, UpgradeBlocked, GrantUpgrade,
     ReturnWith, TypeOK, OwnsUpgrade, Outside
<1>6. FreeLockForgetsNobody' /\ UpgradeIsHandedOver'
  BY <1>2 DEF FreeLockForgetsNobody, UpgradeIsHandedOver, ExclusiveBlocked
<1>7. ReadersHeldBackForAWriter'
  BY DEF ReadersHeldBackForAWriter, GrantUpgrade, UpgradeBlocked, SharedBlocked
<1> QED BY <1>3, <1>4, <1>5, <1>6, <1>7

\* Granting exclusive ownership: by the agreement of flags and owners, a lock that
\* looks free is owned by nobody, and no flag is left to hold readers back.
LEMMA GrantExclusiveInv ==
  ASSUME Inv, NEW t \in Threads, Outside(t), ~ExclusiveBlocked, GrantExclusive(t),
         asleep' = asleep \ {t}
  PROVE  Inv'
<1> USE DEF Inv
<1>1. Readers = {}
  BY ThreadSets DEF ExclusiveBlocked, StateMatchesOwners, Readers
<1>2. \A u \in Threads : holds[u] = "none"
  BY <1>1 DEF StateMatchesOwners, Readers, ExclusiveBlocked, TypeOK, Modes, OwnsUpgrade
<1>3. Readers' = {}
  BY <1>1, ReadersAfter DEF GrantExclusive
<1>4. shared_count' = Cardinality(Readers') /\ shared_count' = 0
  BY <1>3, FS_EmptySet DEF ExclusiveBlocked, GrantExclusive
<1>5. TypeOK'
  BY DEF TypeOK, GrantExclusive, ReturnWith, Modes
<1>6. MutualExclusion'
  BY SMTT(60), <1>2 DEF MutualExclusion, GrantExclusive, ReturnWith, TypeOK
<1>7. StateMatchesOwners'
  BY <1>2, <1>4 DEF StateMatchesOwners, GrantExclusive, ReturnWith, TypeOK, OwnsUpgrade,
     ExclusiveBlocked, Outside
<1>8. FreeLockForgetsNobody' /\ ReadersHeldBackForAWriter'
  BY DEF FreeLockForgetsNobody, ReadersHeldBackForAWriter, ExclusiveBlocked,
     GrantExclusive
<1>9. UpgradeIsHandedOver'
  BY <1>2 DEF UpgradeIsHandedOver, Sleepers, GrantExclusive, ReturnWith, TypeOK
<1> QED BY <1>5, <1>6, <1>7, <1>8, <1>9

\* Going to sleep on shared_cond: the lock is not free, or writers are ahead.
LEMMA SleepSharedInv ==
  ASSUME Inv, NEW t \in Threads, Outside(t), UpgradeBlocked,
         NEW call \in SharedCondCalls, request[t] \notin ExclusiveCondCalls,
         SleepIn(t, call), UNCHANGED state
  PROVE  Inv'
<1> USE DEF Inv, state
<1>1. Readers' = Readers
  BY ReadersAfter
<1>2. ExclusiveBlocked
  <2>1. upgrade => shared_count # 0 \/ exclusive
    <3>1. SUFFICES ASSUME upgrade, shared_count = 0 PROVE exclusive
      BY DEF TypeOK
    <3>2. Readers = {}
      BY <3>1, ThreadSets DEF StateMatchesOwners, Readers
    <3> QED BY <3>1, <3>2 DEF StateMatchesOwners, Readers, TypeOK
  <2> QED BY <2>1 DEF UpgradeBlocked, SharedBlocked, ExclusiveBlocked, FreeLockForgetsNobody
<1>3. TypeOK'
  BY SMTT(60) DEF TypeOK, SleepIn, Modes, Outside
<1>4. MutualExclusion' /\ StateMatchesOwners'
  BY <1>1 DEF MutualExclusion, StateMatchesOwners, SleepIn, TypeOK, OwnsUpgrade, Outside
<1>5. FreeLockForgetsNobody'
  BY <1>2 DEF FreeLockForgetsNobody, ExclusiveBlocked
<1>6. UpgradeIsHandedOver'
  BY DEF UpgradeIsHandedOver, Sleepers, SleepIn, TypeOK
<1>7. ReadersHeldBackForAWriter'
  BY DEF ReadersHeldBackForAWriter, Writers, SleepIn, TypeOK
<1> QED BY <1>3, <1>4, <1>5, <1>6, <1>7

\* Going to sleep on exclusive_cond, leaving exclusive_waiting_blocked set.
LEMMA SleepExclusiveInv ==
  ASSUME Inv, NEW t \in Threads, Outside(t), ExclusiveBlocked,
         NEW call \in ExclusiveCondCalls, SleepIn(t, call),
         exclusive_waiting_blocked' = TRUE, UNCHANGED <<shared_count, exclusive, upgrade>>
  PROVE  Inv'
<1> USE DEF Inv
<1>1. Readers' = Readers
  BY ReadersAfter
<1>2. TypeOK'
  BY SMTT(60) DEF TypeOK, SleepIn, Modes, Outside
<1>3. MutualExclusion' /\ StateMatchesOwners'
  BY <1>1 DEF MutualExclusion, StateMatchesOwners, SleepIn, TypeOK, OwnsUpgrade, Outside
<1>4. FreeLockForgetsNobody'
  BY DEF FreeLockForgetsNobody, ExclusiveBlocked
<1>5. UpgradeIsHandedOver'
  BY DEF UpgradeIsHandedOver, Sleepers, SleepIn, TypeOK
<1>6. ReadersHeldBackForAWriter'
  BY DEF ReadersHeldBackForAWriter, Writers, SleepIn, TypeOK
<1> QED BY <1>2, <1>3, <1>4, <1>5, <1>6

\* A bounded wait on shared_cond gives up.
LEMMA GiveUpSharedInv ==
  ASSUME Inv, NEW t \in Threads, t \in asleep, request[t] \in SharedCondCalls,
         ReturnFalse(t), asleep' = asleep \ {t}, UNCHANGED exclusive_waiting_blocked
  PROVE  Inv'
<1> USE DEF Inv, ReturnFalse
<1>1. Outside(t)
  BY DEF Outside, TypeOK
<1>2. Readers' = Readers
  BY <1>1, ReadersAfter DEF Outside, Readers
<1>3. TypeOK'
  BY DEF TypeOK, ReturnWith, Modes
<1>4. MutualExclusion' /\ StateMatchesOwners'
  BY <1>1, <1>2 DEF MutualExclusion, StateMatchesOwners, ReturnWith, TypeOK, OwnsUpgrade, Outside
<1>5. FreeLockForgetsNobody'
  BY DEF FreeLockForgetsNobody, ExclusiveBlocked, Sleepers
<1>6. UpgradeIsHandedOver'
  BY DEF UpgradeIsHandedOver, Sleepers, ReturnWith, TypeOK
<1>7. ReadersHeldBackForAWriter'
  BY DEF ReadersHeldBackForAWriter, Writers, ReturnWith, TypeOK
<1> QED BY <1>3, <1>4, <1>5, <1>6, <1>7

\* TimedLock gives up: the flag goes with it.
LEMMA GiveUpExclusiveInv ==
  ASSUME Inv, NEW t \in Threads, t \in asleep, request[t] \in ExclusiveCondCalls,
         ExclusiveBlocked, ReturnFalse(t), asleep' \subseteq asleep \ {t},
         exclusive_waiting_blocked' = FALSE
  PROVE  Inv'
<1> USE DEF Inv, ReturnFalse
<1>1. Outside(t)
  BY DEF Outside, TypeOK
<1>2. Readers' = Readers
  BY <1>1, ReadersAfter DEF Outside, Readers
<1>3. TypeOK'
  BY DEF TypeOK, ReturnWith, Modes
<1>4. MutualExclusion' /\ StateMatchesOwners'
  BY <1>1, <1>2 DEF MutualExclusion, StateMatchesOwners, ReturnWith, TypeOK, OwnsUpgrade, Outside
<1>5. FreeLockForgetsNobody' /\ ReadersHeldBackForAWriter'
  BY DEF FreeLockForgetsNobody, ReadersHeldBackForAWriter, ExclusiveBlocked
<1>6. UpgradeIsHandedOver'
  BY DEF UpgradeIsHandedOver, Sleepers, ReturnWith, TypeOK
<1> QED BY <1>3, <1>4, <1>5, <1>6

\* A wait that returns unsignalled leaves the loops to decide.
LEMMA SpuriousWakeupInv ==
  ASSUME Inv, NEW t \in Threads, SpuriousWakeup(t)
  PROVE  Inv'
<1> USE DEF Inv, SpuriousWakeup, state
<1>1. Readers' = Readers
  BY DEF Readers
<1>2. TypeOK' /\ MutualExclusion' /\ StateMatchesOwners'
  BY <1>1 DEF TypeOK, MutualExclusion, StateMatchesOwners, OwnsUpgrade
<1>3. FreeLockForgetsNobody' /\ UpgradeIsHandedOver' /\ ReadersHeldBackForAWriter'
  BY DEF FreeLockForgetsNobody, UpgradeIsHandedOver, ReadersHeldBackForAWriter,
     ExclusiveBlocked, Sleepers, Writers, TypeOK
<1> QED BY <1>2, <1>3

--------------------------------------------------------------------------------
(* Unlocking and converting *)

\* A method of an owner that clears exclusive_waiting_blocked and releases the
\* waiters may leave the lock free.
LEMMA OpenedLock ==
  ASSUME TypeOK, NEW t \in Threads, request[t] = "none", NEW owns, ReturnWith(t, owns),
         ReleaseWaiters({}), exclusive_waiting_blocked' = FALSE
  PROVE  asleep' \subseteq asleep /\ FreeLockForgetsNobody' /\ ReadersHeldBackForAWriter'
<1>1. /\ asleep' \subseteq asleep
      /\ asleep' \cap Sleepers(SharedCondCalls) = {}
      /\ Sleepers(ExclusiveCondCalls) # {} => Sleepers(ExclusiveCondCalls) \ asleep' # {}
  BY ReleaseWaitersWakes
<1>2. request' = request
  BY DEF ReturnWith, TypeOK
<1>3. Sleepers(SharedCondCalls)' = {}
  BY <1>1, <1>2 DEF Sleepers
<1>4. Sleepers(ExclusiveCondCalls)' # {} => (Writers \ asleep)' # {}
  BY <1>1, <1>2 DEF Sleepers, Writers, TypeOK
<1> QED BY <1>1, <1>3, <1>4 DEF FreeLockForgetsNobody, ReadersHeldBackForAWriter

\* An owner that reads and waits for nothing is one of the readers counted.
LEMMA ReaderLeaves ==
  ASSUME Inv, NEW t \in Threads, t \in Readers, shared_count' = shared_count - 1,
         Readers' = Readers \ {t}
  PROVE  /\ shared_count' = Cardinality(Readers')
         /\ shared_count' \in 0..Cardinality(Threads)
         /\ shared_count' = 0 <=> Readers' = {}
         /\ ~exclusive
<1>1. shared_count = Cardinality(Readers) /\ shared_count # 0
  BY ThreadSets DEF Inv, StateMatchesOwners, Readers
<1>2. Cardinality(Readers \ {t}) = shared_count - 1
  BY <1>1, CountOneMore DEF Readers
<1>3. Readers \ {t} \in SUBSET Threads
  BY DEF Readers
<1> QED BY <1>1, <1>2, <1>3, ThreadSets DEF Inv, StateMatchesOwners

\* UnlockShared, in its three cases.
LEMMA UnlockSharedInv ==
  ASSUME Inv, NEW t \in Threads, UnlockShared(t)
  PROVE  Inv'
<1> USE DEF Inv
<1>1. request[t] = "none" /\ ReturnWith(t, "none") /\ request' = request
  BY DEF UnlockShared, TypeOK, ReturnWith
<1>2. t \in Readers /\ Readers' = Readers \ {t}
  BY <1>1, ReadersAfter DEF UnlockShared, Readers
<1>3. /\ shared_count' = Cardinality(Readers')
      /\ shared_count' \in 0..Cardinality(Threads)
      /\ shared_count' = 0 <=> Readers' = {}
      /\ ~exclusive
  BY <1>2, ReaderLeaves DEF UnlockShared
<1>4. MutualExclusion'
  BY DEF UnlockShared, MutualExclusion, ReturnWith, TypeOK
<1>5. CASE shared_count' # 0 /\ UNCHANGED <<exclusive, upgrade, exclusive_waiting_blocked, asleep>>
  <2>1. TypeOK'
    BY <1>1, <1>3, <1>5 DEF TypeOK, ReturnWith, Modes
  <2>2. StateMatchesOwners'
    BY <1>1, <1>3, <1>5 DEF StateMatchesOwners, ReturnWith, TypeOK, OwnsUpgrade, UnlockShared
  <2>3. FreeLockForgetsNobody' /\ UpgradeIsHandedOver'
    BY <1>5 DEF FreeLockForgetsNobody, UpgradeIsHandedOver, ExclusiveBlocked
  <2>4. ReadersHeldBackForAWriter'
    BY <1>1, <1>5 DEF ReadersHeldBackForAWriter, Writers
  <2> QED BY <1>4, <2>1, <2>2, <2>3, <2>4
<1>6. CASE /\ shared_count' = 0
           /\ upgrade
           /\ upgrade' = FALSE
           /\ exclusive' = TRUE
           /\ \E u \in NotifyOne(Sleepers(UpgradeCondCalls)) : ReleaseWaiters(u)
           /\ UNCHANGED exclusive_waiting_blocked
  <2>1. PICK u \in NotifyOne(Sleepers(UpgradeCondCalls)) : ReleaseWaiters(u)
    BY <1>6
  <2>2. asleep' \subseteq asleep \ u
    BY <2>1, ReleaseWaitersWakes
  <2>3. TypeOK'
    BY <1>1, <1>3, <1>6, <2>2 DEF TypeOK, ReturnWith, Modes
  <2>4. StateMatchesOwners'
    <3>1. PICK c \in Threads : holds[c] = "upgrade"
      BY <1>6 DEF StateMatchesOwners
    <3>2. c # t /\ holds'[c] = "upgrade"
      BY <3>1, <1>1 DEF UnlockShared, ReturnWith, TypeOK
    <3>3. \A v \in Threads : holds'[v] = "upgrade" => request'[v] \in UpgradeCondCalls
      BY <1>1, <1>3, <1>6 DEF Readers, UnlockShared, ReturnWith, TypeOK
    <3>4. (\A v \in Threads :
             /\ holds[v] = "exclusive" => exclusive
             /\ OwnsUpgrade(v) => upgrade
             /\ request[v] \in UpgradeCondCalls => \/ upgrade /\ shared_count # 0
                                                  \/ exclusive)'
      BY <1>6, <3>3 DEF OwnsUpgrade
    <3> QED BY <1>3, <1>6, <3>1, <3>2, <3>4 DEF StateMatchesOwners
  <2>5. FreeLockForgetsNobody'
    BY <1>6 DEF FreeLockForgetsNobody, ExclusiveBlocked
  <2>6. UpgradeIsHandedOver'
    \* by exclusion a single thread converts: the Notify reaches it
    <3>1. \A v, w \in Threads :
            request[v] \in UpgradeCondCalls /\ request[w] \in UpgradeCondCalls => v = w
      BY DEF MutualExclusion, TypeOK
    <3>2. Sleepers(UpgradeCondCalls) \subseteq u
      BY <2>1, <3>1 DEF NotifyOne, Sleepers, TypeOK
    <3>3. Sleepers(UpgradeCondCalls)' = {}
      BY <1>1, <2>2, <3>2 DEF Sleepers
    <3> QED BY <3>3 DEF UpgradeIsHandedOver
  <2>7. ReadersHeldBackForAWriter'
    BY <1>1, <1>6 DEF ReadersHeldBackForAWriter, Writers
  <2> QED BY <1>4, <2>3, <2>4, <2>5, <2>6, <2>7
<1>7. CASE /\ shared_count' = 0
           /\ ~upgrade
           /\ exclusive_waiting_blocked' = FALSE
           /\ ReleaseWaiters({})
           /\ UNCHANGED <<exclusive, upgrade>>
  <2>1. asleep' \subseteq asleep /\ FreeLockForgetsNobody' /\ ReadersHeldBackForAWriter'
    BY <1>1, <1>7, OpenedLock
  <2>2. TypeOK'
    BY <1>1, <1>3, <1>7, <2>1 DEF TypeOK, ReturnWith, Modes
  <2>3. \A v \in Threads : request[v] \notin UpgradeCondCalls
    BY <1>3, <1>7 DEF StateMatchesOwners
  <2>4. StateMatchesOwners'
    BY <1>1, <1>3, <1>7, <2>3 DEF StateMatchesOwners, ReturnWith, TypeOK, OwnsUpgrade, UnlockShared
  <2>5. UpgradeIsHandedOver'
    BY <1>1, <2>1, <2>3 DEF UpgradeIsHandedOver, Sleepers, TypeOK
  <2> QED BY <1>4, <2>1, <2>2, <2>4, <2>5
<1> QED BY <1>5, <1>6, <1>7 DEF UnlockShared

\* An exclusive owner is alone, and the flags say so.
LEMMA ExclusiveOwnerIsAlone ==
  ASSUME Inv, NEW t \in Threads, holds[t] = "exclusive"
  PROVE  /\ request[t] = "none" /\ exclusive /\ ~upgrade /\ shared_count = 0
         /\ Readers = {}
         /\ \A u \in Threads \ {t} : holds[u] = "none" /\ request[u] \notin UpgradeCondCalls
<1>1. request[t] = "none" /\ exclusive /\ ~upgrade /\ shared_count = 0
  BY DEF Inv, TypeOK, StateMatchesOwners
<1>2. \A u \in Threads \ {t} : holds[u] = "none" /\ request[u] \notin UpgradeCondCalls
  BY DEF Inv, MutualExclusion, TypeOK
<1> QED BY <1>1, <1>2 DEF Readers

\* Unlock.
LEMMA UnlockInv ==
  ASSUME Inv, NEW t \in Threads, Unlock(t)
  PROVE  Inv'
<1> USE DEF Inv
<1>1. /\ request[t] = "none" /\ exclusive /\ ~upgrade /\ shared_count = 0 /\ Readers = {}
      /\ \A u \in Threads \ {t} : holds[u] = "none" /\ request[u] \notin UpgradeCondCalls
  BY ExclusiveOwnerIsAlone DEF Unlock
<1>2. ReturnWith(t, "none") /\ request' = request
  BY <1>1 DEF Unlock, ReturnWith, TypeOK
<1>3. asleep' \subseteq asleep /\ FreeLockForgetsNobody' /\ ReadersHeldBackForAWriter'
  BY <1>1, <1>2, OpenedLock DEF Unlock
<1>4. \A u \in Threads : holds'[u] = "none" /\ request'[u] \notin UpgradeCondCalls
  BY <1>1, <1>2 DEF ReturnWith, TypeOK
<1>5. shared_count' = Cardinality(Readers')
  BY <1>1, <1>4, FS_EmptySet DEF Unlock, Readers
<1>6. TypeOK'
  BY <1>1, <1>2, <1>3 DEF TypeOK, ReturnWith, Modes, Unlock
<1>7. MutualExclusion' /\ StateMatchesOwners'
  BY <1>1, <1>4, <1>5 DEF MutualExclusion, StateMatchesOwners, OwnsUpgrade, Unlock
<1>8. UpgradeIsHandedOver'
  BY <1>4, <1>6 DEF UpgradeIsHandedOver, Sleepers, TypeOK
<1> QED BY <1>3, <1>6, <1>7, <1>8

\* UnlockAndLockUpgrade.
LEMMA UnlockAndLockUpgradeInv ==
  ASSUME Inv, NEW t \in Threads, UnlockAndLockUpgrade(t)
  PROVE  Inv'
<1> USE DEF Inv
<1>1. /\ request[t] = "none" /\ exclusive /\ ~upgrade /\ shared_count = 0 /\ Readers = {}
      /\ \A u \in Threads \ {t} : holds[u] = "none" /\ request[u] \notin UpgradeCondCalls
  BY ExclusiveOwnerIsAlone DEF UnlockAndLockUpgrade
<1>2. ReturnWith(t, "upgrade") /\ request' = request
  BY <1>1 DEF UnlockAndLockUpgrade, ReturnWith, TypeOK
<1>3. asleep' \subseteq asleep /\ FreeLockForgetsNobody' /\ ReadersHeldBackForAWriter'
  BY <1>1, <1>2, OpenedLock DEF UnlockAndLockUpgrade
<1>4. /\ shared_count' = 1
      /\ shared_count' = Cardinality(Readers')
      /\ shared_count' \in 0..Cardinality(Threads)
  <2>1. Readers' = {t}
    BY <1>1, <1>2, ReadersAfter
  <2>2. Cardinality(Readers') = 1
    BY <2>1, FS_Singleton
  <2>3. shared_count' = 1
    BY <1>1 DEF UnlockAndLockUpgrade
  <2> QED BY <2>1, <2>2, <2>3, ThreadSets
<1>5. TypeOK'
  BY <1>1, <1>2, <1>3, <1>4 DEF TypeOK, ReturnWith, Modes, UnlockAndLockUpgrade
<1>6. MutualExclusion' /\ StateMatchesOwners'
  BY SMTT(60), <1>1, <1>2, <1>4 DEF MutualExclusion, StateMatchesOwners, OwnsUpgrade,
     UnlockAndLockUpgrade, ReturnWith, TypeOK
<1>7. UpgradeIsHandedOver'
  BY <1>4 DEF UpgradeIsHandedOver
<1> QED BY <1>3, <1>5, <1>6, <1>7

\* UnlockAndLockShared.
LEMMA UnlockAndLockSharedInv ==
  ASSUME Inv, NEW t \in Threads, UnlockAndLockShared(t)
  PROVE  Inv'
<1> USE DEF Inv
<1>1. /\ request[t] = "none" /\ exclusive /\ ~upgrade /\ shared_count = 0 /\ Readers = {}
      /\ \A u \in Threads \ {t} : holds[u] = "none" /\ request[u] \notin UpgradeCondCalls
  BY ExclusiveOwnerIsAlone DEF UnlockAndLockShared
<1>2. ReturnWith(t, "shared") /\ request' = request
  BY <1>1 DEF UnlockAndLockShared, ReturnWith, TypeOK
<1>3. asleep' \subseteq asleep /\ FreeLockForgetsNobody' /\ ReadersHeldBackForAWriter'
  BY <1>1, <1>2, OpenedLock DEF UnlockAndLockShared
<1>4. /\ shared_count' = 1
      /\ shared_count' = Cardinality(Readers')
      /\ shared_count' \in 0..Cardinality(Threads)
  <2>1. Readers' = {t}
    BY <1>1, <1>2, ReadersAfter
  <2>2. Cardinality(Readers') = 1
    BY <2>1, FS_Singleton
  <2>3. shared_count' = 1
    BY <1>1 DEF UnlockAndLockShared
  <2> QED BY <2>1, <2>2, <2>3, ThreadSets
<1>5. TypeOK'
  BY <1>1, <1>2, <1>3, <1>4 DEF TypeOK, ReturnWith, Modes, UnlockAndLockShared
<1>6. MutualExclusion' /\ StateMatchesOwners'
  BY <1>1, <1>2, <1>4 DEF MutualExclusion, StateMatchesOwners, OwnsUpgrade,
     UnlockAndLockShared, ReturnWith, TypeOK
<1>7. UpgradeIsHandedOver'
  BY <1>4 DEF UpgradeIsHandedOver
<1> QED BY <1>3, <1>5, <1>6, <1>7

\* The upgradable owner that does not convert is a reader, and the only thread
\* upgrade can stand for.
LEMMA UpgradeOwner ==
  ASSUME Inv, NEW t \in Threads, OwnsUpgrade(t)
  PROVE  /\ t \in Readers /\ upgrade /\ ~exclusive /\ shared_count # 0
         /\ \A u \in Threads \ {t} :
              holds[u] \in {"none", "shared"} /\ request[u] \notin UpgradeCondCalls
<1>1. t \in Readers /\ upgrade /\ ~exclusive
  BY DEF Inv, StateMatchesOwners, OwnsUpgrade, Readers
<1>2. shared_count # 0
  BY <1>1, ThreadSets DEF Inv, StateMatchesOwners, Readers
<1>3. \A u \in Threads \ {t} :
        holds[u] \in {"none", "shared"} /\ request[u] \notin UpgradeCondCalls
  BY DEF Inv, MutualExclusion, TypeOK, OwnsUpgrade
<1> QED BY <1>1, <1>2, <1>3

\* UnlockUpgrade, for the last reader and before.
LEMMA UnlockUpgradeInv ==
  ASSUME Inv, NEW t \in Threads, UnlockUpgrade(t)
  PROVE  Inv'
<1> USE DEF Inv
<1>1. /\ t \in Readers /\ upgrade /\ ~exclusive /\ shared_count # 0
      /\ \A u \in Threads \ {t} :
           holds[u] \in {"none", "shared"} /\ request[u] \notin UpgradeCondCalls
  BY UpgradeOwner DEF UnlockUpgrade
<1>2. request[t] = "none" /\ ReturnWith(t, "none") /\ request' = request
  BY DEF UnlockUpgrade, OwnsUpgrade, ReturnWith, TypeOK
<1>3. Readers' = Readers \ {t}
  BY <1>2, ReadersAfter
<1>4. /\ shared_count' = Cardinality(Readers')
      /\ shared_count' \in 0..Cardinality(Threads)
  BY <1>1, <1>3, ReaderLeaves DEF UnlockUpgrade
<1>5. \A u \in Threads : holds'[u] \in {"none", "shared"} /\ request'[u] \notin UpgradeCondCalls
  BY <1>1, <1>2 DEF ReturnWith, TypeOK
<1>6. MutualExclusion' /\ StateMatchesOwners'
  BY <1>1, <1>4, <1>5 DEF MutualExclusion, StateMatchesOwners, OwnsUpgrade, UnlockUpgrade
<1>7. asleep' \subseteq asleep /\ FreeLockForgetsNobody' /\ ReadersHeldBackForAWriter'
  <2>1. CASE shared_count' # 0 /\ UNCHANGED <<exclusive_waiting_blocked, asleep>>
    BY <1>2, <2>1 DEF FreeLockForgetsNobody, ExclusiveBlocked, ReadersHeldBackForAWriter, Writers
  <2>2. CASE shared_count' = 0 /\ exclusive_waiting_blocked' = FALSE /\ ReleaseWaiters({})
    BY <1>2, <2>2, OpenedLock
  <2> QED BY <2>1, <2>2 DEF UnlockUpgrade
<1>8. TypeOK'
  BY <1>2, <1>4, <1>7 DEF TypeOK, ReturnWith, Modes, UnlockUpgrade
<1>9. UpgradeIsHandedOver'
  BY <1>5, <1>8 DEF UpgradeIsHandedOver, Sleepers, TypeOK
<1> QED BY <1>6, <1>7, <1>8, <1>9

\* UnlockUpgradeAndLockShared.
LEMMA UnlockUpgradeAndLockSharedInv ==
  ASSUME Inv, NEW t \in Threads, UnlockUpgradeAndLockShared(t)
  PROVE  Inv'
<1> USE DEF Inv
<1>1. /\ t \in Readers /\ upgrade /\ ~exclusive /\ shared_count # 0
      /\ \A u \in Threads \ {t} :
           holds[u] \in {"none", "shared"} /\ request[u] \notin UpgradeCondCalls
  BY UpgradeOwner DEF UnlockUpgradeAndLockShared
<1>2. request[t] = "none" /\ ReturnWith(t, "shared") /\ request' = request
  BY DEF UnlockUpgradeAndLockShared, OwnsUpgrade, ReturnWith, TypeOK
<1>3. Readers' = Readers
  BY SMTT(60), <1>1, <1>2, ReadersAfter
<1>4. \A u \in Threads : holds'[u] \in {"none", "shared"} /\ request'[u] \notin UpgradeCondCalls
  BY <1>1, <1>2 DEF ReturnWith, TypeOK
<1>5. MutualExclusion' /\ StateMatchesOwners'
  BY <1>1, <1>3, <1>4 DEF MutualExclusion, StateMatchesOwners, OwnsUpgrade,
     UnlockUpgradeAndLockShared
<1>6. asleep' \subseteq asleep /\ FreeLockForgetsNobody' /\ ReadersHeldBackForAWriter'
  BY <1>2, OpenedLock DEF UnlockUpgradeAndLockShared
<1>7. TypeOK'
  BY <1>2, <1>6 DEF TypeOK, ReturnWith, Modes, UnlockUpgradeAndLockShared
<1>8. UpgradeIsHandedOver'
  BY <1>4, <1>7 DEF UpgradeIsHandedOver, Sleepers, TypeOK
<1> QED BY <1>5, <1>6, <1>7, <1>8

\* UnlockUpgradeAndLock begins to wait for the other readers, or finds none.
LEMMA BeginUpgradeInv ==
  ASSUME Inv, NEW t \in Threads, OwnsUpgrade(t), shared_count' = shared_count - 1,
         \/ /\ shared_count' # 0
            /\ SleepIn(t, "UnlockUpgradeAndLock")
            /\ UNCHANGED <<exclusive, upgrade, exclusive_waiting_blocked>>
         \/ shared_count' = 0 /\ Upgraded(t)
  PROVE  Inv'
<1> USE DEF Inv
<1>1. /\ t \in Readers /\ upgrade /\ ~exclusive /\ shared_count # 0
      /\ \A u \in Threads \ {t} :
           holds[u] \in {"none", "shared"} /\ request[u] \notin UpgradeCondCalls
  BY UpgradeOwner
<1>2. Readers' = Readers \ {t}
  BY ReadersAfter DEF Upgraded
<1>3. /\ shared_count' = Cardinality(Readers')
      /\ shared_count' \in 0..Cardinality(Threads)
      /\ shared_count' = 0 <=> Readers' = {}
  BY <1>1, <1>2, ReaderLeaves
<1>4. request[t] = "none" /\ holds[t] = "upgrade" /\ t \notin asleep
  BY DEF OwnsUpgrade, TypeOK
<1>5. CASE /\ shared_count' # 0
           /\ SleepIn(t, "UnlockUpgradeAndLock")
           /\ UNCHANGED <<exclusive, upgrade, exclusive_waiting_blocked>>
  <2>1. TypeOK'
    BY <1>3, <1>4, <1>5 DEF TypeOK, SleepIn
  <2>2. MutualExclusion' /\ StateMatchesOwners'
    BY <1>1, <1>3, <1>4, <1>5 DEF MutualExclusion, StateMatchesOwners, SleepIn, OwnsUpgrade, TypeOK
  <2>3. FreeLockForgetsNobody' /\ UpgradeIsHandedOver'
    BY <1>5 DEF FreeLockForgetsNobody, UpgradeIsHandedOver, ExclusiveBlocked
  <2>4. ReadersHeldBackForAWriter'
    BY <1>4, <1>5 DEF ReadersHeldBackForAWriter, Writers, SleepIn, TypeOK
  <2> QED BY <2>1, <2>2, <2>3, <2>4
<1>6. CASE shared_count' = 0 /\ Upgraded(t)
  <2> USE DEF Upgraded
  <2>1. request' = request /\ holds' = [holds EXCEPT ![t] = "exclusive"]
    BY <1>4, <1>6 DEF ReturnWith, TypeOK
  <2>2. TypeOK'
    BY <1>3, <1>4, <1>6, <2>1 DEF TypeOK, Modes
  <2>3. \A u \in Threads \ {t} : holds'[u] = "none" /\ request'[u] \notin UpgradeCondCalls
    BY <1>1, <1>3, <1>6, <2>1 DEF Readers, TypeOK
  <2>4. /\ exclusive' /\ ~upgrade' /\ shared_count' = 0
        /\ holds'[t] = "exclusive" /\ request'[t] = "none"
    BY <1>4, <1>6, <2>1 DEF TypeOK
  <2>5. MutualExclusion'
    BY <2>3, <2>4 DEF MutualExclusion
  <2>6. StateMatchesOwners'
    BY <1>3, <2>3, <2>4 DEF StateMatchesOwners, OwnsUpgrade, UpgradeCondCalls
  <2>7. FreeLockForgetsNobody'
    BY <1>6 DEF FreeLockForgetsNobody, ExclusiveBlocked
  <2>8. UpgradeIsHandedOver'
    BY <1>4, <1>6, <2>1, <2>3 DEF UpgradeIsHandedOver, Sleepers, TypeOK
  <2>9. ReadersHeldBackForAWriter'
    BY <1>6, <2>1 DEF ReadersHeldBackForAWriter, Writers
  <2> QED BY <2>2, <2>5, <2>6, <2>7, <2>8, <2>9
<1> QED BY <1>5, <1>6

\* UnlockUpgradeAndLock looks again after a wait.
LEMMA ResumeUpgradeInv ==
  ASSUME Inv, NEW t \in Threads, request[t] = "UnlockUpgradeAndLock", t \notin asleep,
         \/ shared_count # 0 /\ SleepIn(t, "UnlockUpgradeAndLock") /\ UNCHANGED state
         \/ shared_count = 0 /\ Upgraded(t) /\ UNCHANGED shared_count
  PROVE  Inv'
<1> USE DEF Inv
<1>1. holds[t] = "upgrade" /\ t \notin Readers
  BY DEF TypeOK, Readers
<1>2. Readers' = Readers
  BY <1>1, ReadersAfter DEF Upgraded
<1>3. CASE shared_count # 0 /\ SleepIn(t, "UnlockUpgradeAndLock") /\ UNCHANGED state
  <2> USE DEF state
  <2>1. request' = request
    BY <1>3 DEF SleepIn, TypeOK
  <2>2. TypeOK'
    BY <1>3, <2>1 DEF TypeOK, SleepIn
  <2>3. MutualExclusion' /\ StateMatchesOwners'
    BY <1>2, <1>3, <2>1 DEF MutualExclusion, StateMatchesOwners, SleepIn, OwnsUpgrade
  <2>4. FreeLockForgetsNobody' /\ UpgradeIsHandedOver'
    BY <1>3 DEF FreeLockForgetsNobody, UpgradeIsHandedOver, ExclusiveBlocked
  <2>5. ReadersHeldBackForAWriter'
    BY <1>3, <2>1 DEF ReadersHeldBackForAWriter, Writers
  <2> QED BY <2>2, <2>3, <2>4, <2>5
<1>4. CASE shared_count = 0 /\ Upgraded(t) /\ UNCHANGED shared_count
  <2> USE DEF Upgraded
  <2>1. Readers = {}
    BY <1>4, ThreadSets DEF StateMatchesOwners, Readers
  <2>2. \A u \in Threads \ {t} : holds[u] = "none" /\ request[u] \notin UpgradeCondCalls
    BY <1>1, <2>1 DEF MutualExclusion, Readers, TypeOK
  <2>3. \A u \in Threads \ {t} : holds'[u] = "none" /\ request'[u] = request[u]
    BY <1>4, <2>2 DEF ReturnWith, TypeOK
  <2>4. holds'[t] = "exclusive" /\ request'[t] = "none"
    BY <1>4 DEF ReturnWith, TypeOK
  <2>5. TypeOK'
    BY <1>4, <1>1 DEF TypeOK, Modes, ReturnWith
  <2>6. MutualExclusion' /\ StateMatchesOwners'
    BY <1>2, <1>4, <2>2, <2>3, <2>4
       DEF MutualExclusion, StateMatchesOwners, OwnsUpgrade
  <2>7. FreeLockForgetsNobody'
    BY <1>4 DEF FreeLockForgetsNobody, ExclusiveBlocked
  <2>8. UpgradeIsHandedOver'
    BY <1>4, <2>2, <2>3, <2>4, <2>5 DEF UpgradeIsHandedOver, Sleepers, TypeOK
  <2>9. ReadersHeldBackForAWriter'
    BY <1>4, <2>3 DEF ReadersHeldBackForAWriter, Writers
  <2> QED BY <2>5, <2>6, <2>7, <2>8, <2>9
<1> QED BY <1>3, <1>4

--------------------------------------------------------------------------------
(* The invariant *)

\* A thread that evaluates the condition of a locking method, or whose bounded
\* wait in one ended, owns nothing and leaves the sleepers to the others.
LEMMA EntersOutside ==
  ASSUME TypeOK, NEW t \in Threads, NEW call \in SharedCondCalls \cup ExclusiveCondCalls
  PROVE  /\ Evaluates(t, call) => /\ Outside(t) /\ t \notin asleep
                                 /\ request[t] \in {"none", call}
         /\ TimesOutIn(t, call) => Outside(t) /\ request[t] = call
         /\ Idle(t) => Outside(t) /\ t \notin asleep
BY DEF TypeOK, Evaluates, TimesOutIn, Outside, Idle

\* Each locking method keeps the invariant.
LEMMA AcquiringInv ==
  ASSUME Inv, NEW t \in Threads, Acquiring(t)
  PROVE  Inv'
<1>0. TypeOK
  BY DEF Inv
<1>1. ASSUME NEW call \in {"LockShared", "TimedLockShared"}, SharedLoop(t, call)
      PROVE  Inv'
  <2>1. /\ Evaluates(t, call)
        /\ Outside(t) /\ t \notin asleep /\ request[t] \in {"none", call}
    BY <1>0, <1>1, EntersOutside DEF SharedLoop
  <2>2. CASE SharedBlocked /\ SleepIn(t, call) /\ UNCHANGED state
    BY <2>1, <2>2, SleepSharedInv DEF UpgradeBlocked
  <2>3. CASE ~SharedBlocked /\ GrantShared(t) /\ UNCHANGED asleep
    BY <2>1, <2>3, GrantSharedInv
  <2> QED BY <1>1, <2>2, <2>3 DEF SharedLoop
<1>2. ASSUME NEW call \in {"LockUpgrade", "TimedLockUpgrade"}, UpgradeLoop(t, call)
      PROVE  Inv'
  <2>1. /\ Evaluates(t, call)
        /\ Outside(t) /\ t \notin asleep /\ request[t] \in {"none", call}
    BY <1>0, <1>2, EntersOutside DEF UpgradeLoop
  <2>2. CASE UpgradeBlocked /\ SleepIn(t, call) /\ UNCHANGED state
    BY <2>1, <2>2, SleepSharedInv
  <2>3. CASE ~UpgradeBlocked /\ GrantUpgrade(t) /\ UNCHANGED asleep
    BY <2>1, <2>3, GrantUpgradeInv
  <2> QED BY <1>2, <2>2, <2>3 DEF UpgradeLoop
<1>3. ASSUME NEW call \in {"Lock", "TimedLock"}, ExclusiveLoop(t, call)
      PROVE  Inv'
  <2>1. /\ Evaluates(t, call)
        /\ Outside(t) /\ t \notin asleep /\ request[t] \in {"none", call}
    BY <1>0, <1>3, EntersOutside DEF ExclusiveLoop
  <2>2. CASE /\ ExclusiveBlocked
             /\ exclusive_waiting_blocked' = TRUE
             /\ SleepIn(t, call)
             /\ UNCHANGED <<shared_count, exclusive, upgrade>>
    BY <2>1, <2>2, SleepExclusiveInv
  <2>3. CASE ~ExclusiveBlocked /\ GrantExclusive(t) /\ UNCHANGED asleep
    BY <2>1, <2>3, GrantExclusiveInv
  <2> QED BY <1>3, <2>2, <2>3 DEF ExclusiveLoop
<1>4. CASE LockShared(t)       BY <1>1, <1>4 DEF LockShared
<1>5. CASE TrylockShared(t)
  BY <1>0, <1>5, EntersOutside, GrantSharedInv DEF TrylockShared
<1>6. CASE TimedLockShared(t)
  BY <1>1, <1>6, GiveUpSharedInv DEF TimedLockShared, TimesOutIn
<1>7. CASE Lock(t)             BY <1>3, <1>7 DEF Lock
<1>8. CASE Trylock(t)
  BY <1>0, <1>8, EntersOutside, GrantExclusiveInv DEF Trylock
<1>9. CASE TimedLock(t)
  <2>1. CASE ExclusiveLoop(t, "TimedLock")
    BY <1>3, <2>1
  <2>2. CASE /\ TimesOutIn(t, "TimedLock")
             /\ ExclusiveBlocked
             /\ exclusive_waiting_blocked' = FALSE
             /\ \E w \in NotifyOne(Sleepers(ExclusiveCondCalls) \ {t}) :
                  asleep' = asleep \ (w \cup {t})
             /\ ReturnFalse(t)
    BY <2>2, GiveUpExclusiveInv DEF TimesOutIn
  <2>3. CASE /\ TimesOutIn(t, "TimedLock")
             /\ ~ExclusiveBlocked
             /\ GrantExclusive(t)
             /\ asleep' = asleep \ {t}
    BY <1>0, <2>3, EntersOutside, GrantExclusiveInv
  <2> QED BY <1>9, <2>1, <2>2, <2>3 DEF TimedLock
<1>10. CASE LockUpgrade(t)     BY <1>2, <1>10 DEF LockUpgrade
<1>11. CASE TrylockUpgrade(t)
  BY <1>0, <1>11, EntersOutside, GrantUpgradeInv DEF TrylockUpgrade
<1>12. CASE TimedLockUpgrade(t)
  <2>1. CASE UpgradeLoop(t, "TimedLockUpgrade")
    BY <1>2, <2>1
  <2>2. CASE /\ TimesOutIn(t, "TimedLockUpgrade")
             /\ UpgradeBlocked
             /\ ReturnFalse(t)
             /\ asleep' = asleep \ {t}
             /\ UNCHANGED exclusive_waiting_blocked
    BY <2>2, GiveUpSharedInv DEF TimesOutIn
  <2>3. CASE /\ TimesOutIn(t, "TimedLockUpgrade")
             /\ ~UpgradeBlocked
             /\ GrantUpgrade(t)
             /\ asleep' = asleep \ {t}
    BY <1>0, <2>3, EntersOutside, GrantUpgradeInv
  <2> QED BY <1>12, <2>1, <2>2, <2>3 DEF TimedLockUpgrade
<1> QED
  BY <1>4, <1>5, <1>6, <1>7, <1>8, <1>9, <1>10, <1>11, <1>12 DEF Acquiring

\* Inv holds initially.
LEMMA InitInv == Init => Inv
<1> SUFFICES ASSUME Init PROVE Inv
  OBVIOUS
<1> USE DEF Init
<1>1. Readers = {} /\ Cardinality(Readers) = 0
  BY FS_EmptySet DEF Readers
<1>2. TypeOK
  BY ThreadSets DEF TypeOK, Modes
<1>3. StateMatchesOwners
  BY <1>1 DEF StateMatchesOwners, OwnsUpgrade
<1>4. MutualExclusion /\ ReadersHeldBackForAWriter
  BY DEF MutualExclusion, ReadersHeldBackForAWriter
<1>5. FreeLockForgetsNobody /\ UpgradeIsHandedOver
  BY DEF FreeLockForgetsNobody, UpgradeIsHandedOver, Sleepers
<1> QED BY <1>2, <1>3, <1>4, <1>5 DEF Inv

\* Inv is inductive.
LEMMA NextInv == Inv /\ [Next]_vars => Inv'
<1> SUFFICES ASSUME Inv, [Next]_vars PROVE Inv'
  OBVIOUS
<1>1. ASSUME NEW t \in Threads, Acquiring(t) PROVE Inv'
  BY <1>1, AcquiringInv
<1>2. ASSUME NEW t \in Threads, Releasing(t) PROVE Inv'
  BY <1>2, UnlockSharedInv, UnlockInv, UnlockUpgradeInv DEF Releasing
<1>3. ASSUME NEW t \in Threads, Converting(t) PROVE Inv'
  <2>1. CASE UnlockUpgradeAndLock(t)
    BY <2>1, BeginUpgradeInv, ResumeUpgradeInv DEF UnlockUpgradeAndLock
  <2> QED
    BY <1>3, <2>1, UnlockAndLockUpgradeInv, UnlockAndLockSharedInv,
       UnlockUpgradeAndLockSharedInv DEF Converting
<1>4. ASSUME NEW t \in Threads, SpuriousWakeup(t) PROVE Inv'
  BY <1>4, SpuriousWakeupInv
<1>5. CASE UNCHANGED vars
  BY <1>5 DEF vars, state, Inv, TypeOK, MutualExclusion, StateMatchesOwners,
     FreeLockForgetsNobody, UpgradeIsHandedOver, ReadersHeldBackForAWriter, Readers,
     OwnsUpgrade, ExclusiveBlocked, Sleepers, Writers
<1> QED BY <1>1, <1>2, <1>3, <1>4, <1>5 DEF Next

\* The inductive invariant holds in every state of the lock.
THEOREM Invariant == Spec => []Inv
<1>1. Init => Inv
  BY InitInv
<1>2. Inv /\ [Next]_vars => Inv'
  BY NextInv
<1> QED BY <1>1, <1>2, PTL DEF Spec

\* For any finite set of threads the lock excludes as shared_mutex.h:5-15 promises, and
\* the fields of state_data agree with the ownerships.
THEOREM Exclusion == Spec => []OwnershipIsSound
<1>1. Inv => OwnershipIsSound
  BY DEF Inv, OwnershipIsSound
<1> QED BY <1>1, Invariant, PTL

\* No unlock, timeout or conversion leaves a free lock with a waiter nobody has woken,
\* an upgrader asleep when the last reader has gone, or readers held back for a writer
\* that has given up.
THEOREM NoLostWakeup == Spec => []NobodyIsForgotten
<1>1. Inv => NobodyIsForgotten
  BY DEF Inv, NobodyIsForgotten
<1> QED BY <1>1, Invariant, PTL

--------------------------------------------------------------------------------
(* Refinement: who owns the lock changes only as SharedLock says *)

\* Every change of ownership by one thread is one SharedLock allows, given that
\* exclusion holds before and after it.
LEMMA OwnershipChange ==
  ASSUME Inv, Inv', NEW t \in Threads, NEW owns \in Modes,
         holds' = [holds EXCEPT ![t] = owns],
         \/ holds[t] = "none"
         \/ holds[t] = "shared" /\ owns = "none"
         \/ holds[t] = "upgrade"
         \/ holds[t] = "exclusive"
  PROVE  [Abstract!Next]_holds
<1> USE DEF Modes
<1>1. holds \in [Threads -> Modes] /\ MutualExclusion'
  BY DEF Inv, TypeOK
<1>2. \A m \in {"shared", "upgrade", "exclusive"} :
        owns = m => Abstract!OthersAllow(t, m)
  BY <1>1 DEF Abstract!OthersAllow, Abstract!Compatible, MutualExclusion
<1>3. CASE owns = holds[t]
  BY <1>1, <1>3
<1>4. CASE owns # holds[t] /\ owns = "none"
  BY <1>4 DEF Abstract!Next, Abstract!Release, Abstract!Become
<1>5. CASE holds[t] = "none" /\ owns # "none"
  BY <1>2, <1>5 DEF Abstract!Next, Abstract!Acquire, Abstract!Become
<1>6. CASE holds[t] = "upgrade" /\ owns = "exclusive"
  BY <1>2, <1>6 DEF Abstract!Next, Abstract!Upgrade, Abstract!Become
<1>7. CASE \/ holds[t] = "exclusive" /\ owns \in {"upgrade", "shared"}
           \/ holds[t] = "upgrade" /\ owns = "shared"
  BY <1>7 DEF Abstract!Next, Abstract!Downgrade, Abstract!Become
<1> QED BY <1>3, <1>4, <1>5, <1>6, <1>7

\* A step of a method grants, converts or gives up the ownership of its thread, or
\* leaves every ownership alone.
LEMMA StepSimulation ==
  ASSUME Inv, Inv', [Next]_vars
  PROVE  [Abstract!Next]_holds
<1>0. TypeOK
  BY DEF Inv
<1>1. ASSUME NEW t \in Threads, NEW owns \in Modes, ReturnWith(t, owns), holds[t] # "shared"
      PROVE  [Abstract!Next]_holds
  BY <1>0, <1>1, OwnershipChange DEF ReturnWith, TypeOK, Modes
<1>2. ASSUME NEW t \in Threads, ReturnWith(t, "none") PROVE [Abstract!Next]_holds
  BY <1>0, <1>2, OwnershipChange DEF ReturnWith, TypeOK, Modes
<1>3. ASSUME NEW t \in Threads, NEW call \in Calls, SleepIn(t, call)
      PROVE  [Abstract!Next]_holds
  BY <1>3 DEF SleepIn
<1>4. ASSUME NEW t \in Threads, Acquiring(t) PROVE [Abstract!Next]_holds
  <2>1. ASSUME NEW call \in SharedCondCalls \cup ExclusiveCondCalls,
               Evaluates(t, call) \/ TimesOutIn(t, call) \/ Idle(t)
        PROVE  holds[t] # "shared"
    BY <1>0, <2>1, EntersOutside DEF Outside
  <2>2. CASE LockShared(t) \/ TrylockShared(t) \/ TimedLockShared(t)
    BY <1>1, <1>2, <1>3, <2>1, <2>2 DEF LockShared, TrylockShared, TimedLockShared,
       SharedLoop, GrantShared, ReturnFalse, Modes
  <2>3. CASE Lock(t) \/ Trylock(t) \/ TimedLock(t)
    BY <1>1, <1>2, <1>3, <2>1, <2>3 DEF Lock, Trylock, TimedLock, ExclusiveLoop,
       GrantExclusive, ReturnFalse, Modes
  <2>4. CASE LockUpgrade(t) \/ TrylockUpgrade(t) \/ TimedLockUpgrade(t)
    BY <1>1, <1>2, <1>3, <2>1, <2>4 DEF LockUpgrade, TrylockUpgrade, TimedLockUpgrade,
       UpgradeLoop, GrantUpgrade, ReturnFalse, Modes
  <2> QED BY <1>4, <2>2, <2>3, <2>4 DEF Acquiring
<1>5. ASSUME NEW t \in Threads, Releasing(t) PROVE [Abstract!Next]_holds
  BY <1>2, <1>5 DEF Releasing, UnlockShared, Unlock, UnlockUpgrade
<1>6. ASSUME NEW t \in Threads, Converting(t) PROVE [Abstract!Next]_holds
  <2>1. CASE UnlockUpgradeAndLock(t)
    BY <1>0, <1>1, <1>3, <2>1 DEF UnlockUpgradeAndLock, Upgraded, OwnsUpgrade, TypeOK, Modes
  <2>2. CASE \/ UnlockAndLockUpgrade(t) \/ UnlockAndLockShared(t)
             \/ UnlockUpgradeAndLockShared(t)
    BY <1>1, <2>2 DEF UnlockAndLockUpgrade, UnlockAndLockShared,
       UnlockUpgradeAndLockShared, OwnsUpgrade, Modes
  <2> QED BY <1>6, <2>1, <2>2 DEF Converting
<1>7. CASE UNCHANGED holds
  BY <1>7
<1> QED BY <1>4, <1>5, <1>6, <1>7 DEF Next, SpuriousWakeup, vars

\* The condition-variable implementation refines the lock of the header comment.
THEOREM Refinement == Spec => ImplementsSharedLock
<1>1. Init => Abstract!Init
  BY DEF Init, Abstract!Init
<1>2. Inv /\ Inv' /\ [Next]_vars => [Abstract!Next]_holds
  BY StepSimulation
<1> QED BY <1>1, <1>2, Invariant, PTL DEF Spec, ImplementsSharedLock, Abstract!Spec

HIDE DEF Calls, SharedCondCalls, ExclusiveCondCalls, UpgradeCondCalls

--------------------------------------------------------------------------------
(* For any number of threads and any capacity, no wakeup of BlockingQueue  *)
(* is lost.  The two counting invariants are inductive once the types are  *)
(* known; neither needs the other.  The argument is the same for both: a   *)
(* call that provides an element (or a slot) leaves a signal to send, a    *)
(* signal becomes a thread that is awake, and a thread that is awake takes *)
(* one before it leaves, or finds none.                                    *)

USE QueueAssumption DEF Consumers, Kinds, CallModes

--------------------------------------------------------------------------------
(* Counting threads *)

\* Sets of threads are counted by natural numbers.
LEMMA Counted ==
  ASSUME NEW S \in SUBSET Callers
  PROVE  IsFiniteSet(S) /\ Cardinality(S) \in Nat
BY FS_Subset, FS_CardinalityType

\* One thread more, one thread less, or at least as many.
LEMMA CountChanges ==
  ASSUME NEW S \in SUBSET Callers, NEW T \in SUBSET Callers, NEW t \in Callers
  PROVE  /\ t \notin S /\ T = S \cup {t} => Cardinality(T) = Cardinality(S) + 1
         /\ t \in S /\ T = S \ {t} => Cardinality(T) = Cardinality(S) - 1
         /\ S \subseteq T => Cardinality(S) <= Cardinality(T)
<1>1. IsFiniteSet(S) /\ IsFiniteSet(T)
  BY Counted
<1>2. t \notin S /\ T = S \cup {t} => Cardinality(T) = Cardinality(S) + 1
  BY <1>1, FS_AddElement
<1>3. t \in S /\ T = S \ {t} => Cardinality(T) = Cardinality(S) - 1
  BY <1>1, FS_RemoveElement
<1>4. S \subseteq T => Cardinality(S) <= Cardinality(T)
  BY <1>1, FS_Subset
<1> QED BY <1>2, <1>3, <1>4

\* What each count counts, before and after a step.
LEMMA WhoIsCounted ==
  ASSUME NEW place, NEW K
  PROVE  /\ Who(place, K) \in SUBSET Callers
         /\ Who(place, K)' \in SUBSET Callers
         /\ Cardinality(Who(place, K)) \in Nat
         /\ Cardinality(Who(place, K)') \in Nat
BY Counted DEF Who

--------------------------------------------------------------------------------
(* The types *)

\* A call that is served keeps the queue in its bounds.
LEMMA ServeTypes ==
  ASSUME QueueTypeOK, NEW t \in Callers, NEW k \in Kinds, NEW m \in CallModes, Serve(t, k, m)
  PROVE  /\ size' \in 0..max_elements
         /\ at' \in [Callers -> {"idle", "wait", "woken", "signal", "broadcast"}]
         /\ \A u \in Callers \ {t} : at'[u] = at[u] \/ (at[u] = "wait" /\ at'[u] = "woken")
         /\ at'[t] \in {"signal", "broadcast"}
<1>1. size' \in 0..max_elements
  BY SMTT(60) DEF QueueTypeOK, Serve, Blocked, UnlockedIsFull
<1>2. PICK W \in SUBSET Who("wait", {"push"}), place \in {"signal", "broadcast"} :
        Move(t, place, W)
  BY DEF Serve
<1> QED BY <1>1, <1>2 DEF QueueTypeOK, Move, Who

\* Every step keeps the types.
LEMMA TypesKept == QueueTypeOK /\ [QueueNext]_QueueVars => QueueTypeOK'
<1> SUFFICES ASSUME QueueTypeOK, [QueueNext]_QueueVars PROVE QueueTypeOK'
  OBVIOUS
<1>1. CASE UNCHANGED QueueVars
  BY <1>1 DEF QueueTypeOK, QueueVars
<1>2. ASSUME NEW t \in Callers, NEW k \in Kinds, NEW m \in CallModes, Call(t, k, m)
      PROVE  QueueTypeOK'
  <2>1. CASE Serve(t, k, m)
    BY SMTT(60), <1>2, <2>1, ServeTypes DEF QueueTypeOK, Call
  <2>2. CASE ~Serve(t, k, m)
    BY SMTT(60), <1>2, <2>2 DEF QueueTypeOK, Call, Move
  <2> QED BY <2>1, <2>2
<1>3. ASSUME NEW t \in Callers, Retry(t) PROVE QueueTypeOK'
  <2>1. CASE Serve(t, kind[t], mode[t])
    <3>1. kind[t] \in Kinds /\ mode[t] \in CallModes
      BY DEF QueueTypeOK
    <3> QED BY SMTT(60), <1>3, <2>1, <3>1, ServeTypes DEF QueueTypeOK, Retry
  <2>2. CASE ~Serve(t, kind[t], mode[t])
    BY <1>3, <2>2 DEF QueueTypeOK, Retry, Move
  <2> QED BY <2>1, <2>2
<1>4. ASSUME NEW t \in Callers, Signal(t) PROVE QueueTypeOK'
  <2>1. PICK W \in SUBSET Who("wait", Kinds) : Move(t, "idle", W)
    BY <1>4 DEF Signal, Who, Peers
  <2> QED BY <1>4, <2>1 DEF QueueTypeOK, Signal, Move, Who
<1>5. ASSUME NEW t \in Callers, Broadcast(t) PROVE QueueTypeOK'
  BY <1>5 DEF QueueTypeOK, Broadcast, Move, Who
<1>6. ASSUME NEW t \in Callers, Clear(t) PROVE QueueTypeOK'
  BY SMTT(60), <1>6 DEF QueueTypeOK, Clear, Move, Who
<1>7. ASSUME NEW t \in Callers, Timeout(t) \/ QueueSpuriousWakeup(t) PROVE QueueTypeOK'
  BY <1>7 DEF QueueTypeOK, Timeout, QueueSpuriousWakeup, Move
<1> QED BY <1>1, <1>2, <1>3, <1>4, <1>5, <1>6, <1>7 DEF QueueNext, Resume

--------------------------------------------------------------------------------
(* Elements and the pops that sleep *)

\* A queue that is empty misses nothing.
LEMMA EmptyMissesNothing == size' = 0 => NoElementMissed'
BY WhoIsCounted DEF NoElementMissed

\* A push that is served leaves one more signal to send.
LEMMA PushIsAnnounced ==
  ASSUME QueueTypeOK, NoElementMissed, NEW t \in Callers, NEW k, NEW m, k = "push",
         at[t] \in {"idle", "woken"}, at[t] = "woken" => kind[t] = k,
         Serve(t, k, m), kind' = [kind EXCEPT ![t] = k]
  PROVE  NoElementMissed'
<1>1. size' = size + 1 /\ Move(t, "signal", {})
  BY DEF Serve
<1>2. /\ Who("wait", Consumers)' = Who("wait", Consumers)
      /\ Who("woken", Consumers)' = Who("woken", Consumers)
      /\ Who("signal", {"push"})' = Who("signal", {"push"}) \cup {t}
      /\ t \notin Who("signal", {"push"})
  BY <1>1 DEF QueueTypeOK, Move, Who
<1>3. Cardinality(Who("signal", {"push"})') = Cardinality(Who("signal", {"push"})) + 1
  BY <1>2, CountChanges, WhoIsCounted
<1> QED BY SMTT(60), <1>1, <1>2, <1>3, WhoIsCounted DEF NoElementMissed, QueueTypeOK

\* A pop that is served takes an element, and if it had been woken is awake no more.
LEMMA PopTakesItsOwn ==
  ASSUME QueueTypeOK, NoElementMissed, NEW t \in Callers, NEW k, NEW m, k = "pop",
         at[t] \in {"idle", "woken"}, at[t] = "woken" => kind[t] = k,
         Serve(t, k, m), kind' = [kind EXCEPT ![t] = k]
  PROVE  NoElementMissed'
<1>1. size' = size - 1 /\ Move(t, "signal", {})
  BY DEF Serve
<1>2. /\ Who("wait", Consumers)' = Who("wait", Consumers)
      /\ Who("woken", Consumers)' = Who("woken", Consumers) \ {t}
      /\ Who("signal", {"push"})' = Who("signal", {"push"})
  BY <1>1 DEF QueueTypeOK, Move, Who
<1>3. Cardinality(Who("woken", Consumers)') >= Cardinality(Who("woken", Consumers)) - 1
  <2>1. CASE t \in Who("woken", Consumers)
    BY SMTT(60), <1>2, <2>1, CountChanges, WhoIsCounted
  <2>2. CASE t \notin Who("woken", Consumers)
    <3>1. Who("woken", Consumers)' = Who("woken", Consumers)
      BY <1>2, <2>2
    <3> QED BY <3>1, WhoIsCounted
  <2> QED BY <2>1, <2>2
<1> QED BY SMTT(60), <1>1, <1>2, <1>3, WhoIsCounted DEF NoElementMissed, QueueTypeOK

\* Steps that leave the elements, the sleeping pops and their announcements alone.
LEMMA ElementsUntouched ==
  ASSUME NoElementMissed, size' = size,
         Who("wait", Consumers)' = Who("wait", Consumers),
         Who("woken", Consumers)' = Who("woken", Consumers),
         Who("signal", {"push"})' = Who("signal", {"push"})
  PROVE  NoElementMissed'
BY DEF NoElementMissed

\* A pop that wakes up, for whatever reason, is one more that is awake.
LEMMA PopWakes ==
  ASSUME QueueTypeOK, NoElementMissed, NEW u \in Who("wait", Consumers), size' = size,
         Who("woken", Consumers)' = Who("woken", Consumers) \cup {u},
         Cardinality(Who("signal", {"push"})') >= Cardinality(Who("signal", {"push"})) - 1
  PROVE  NoElementMissed'
<1>1. u \in Callers /\ u \notin Who("woken", Consumers)
  BY DEF Who
<1>2. Cardinality(Who("woken", Consumers)') = Cardinality(Who("woken", Consumers)) + 1
  BY <1>1, CountChanges, WhoIsCounted
<1> QED BY SMTT(60), <1>2, WhoIsCounted DEF NoElementMissed, QueueTypeOK

\* The invariant is kept by every step.
LEMMA ElementsKept == QueueTypeOK /\ NoElementMissed /\ [QueueNext]_QueueVars => NoElementMissed'
<1> SUFFICES ASSUME QueueTypeOK, NoElementMissed, [QueueNext]_QueueVars PROVE NoElementMissed'
  OBVIOUS
<1>1. CASE UNCHANGED QueueVars
  BY <1>1 DEF NoElementMissed, Who, QueueVars
<1>2. ASSUME NEW t \in Callers, NEW k \in Kinds, NEW m \in CallModes, Call(t, k, m)
      PROVE  NoElementMissed'
  <2>1. CASE Serve(t, k, m)
    <3>0. at[t] = "idle" /\ kind' = [kind EXCEPT ![t] = k]
      BY <1>2 DEF Call
    <3>1. CASE k = "push"
      BY <2>1, <3>0, <3>1, PushIsAnnounced
    <3>2. CASE k = "pop"
      BY <2>1, <3>0, <3>2, PopTakesItsOwn
    <3>3. CASE k = "popall"
      BY <2>1, <3>3, EmptyMissesNothing DEF Serve
    <3> QED BY <3>1, <3>2, <3>3
  <2>2. CASE ~Serve(t, k, m)
    <3>1. CASE k = "push"
      BY SMTT(60), <1>2, <2>2, <3>1, ElementsUntouched DEF Call, Move, Who, QueueTypeOK
    <3>2. CASE k # "push"
      BY <1>2, <2>2, <3>2, EmptyMissesNothing DEF Call, Blocked
    <3> QED BY <3>1, <3>2
  <2> QED BY <2>1, <2>2
<1>3. ASSUME NEW t \in Callers, Retry(t) PROVE NoElementMissed'
  <2>1. kind' = [kind EXCEPT ![t] = kind[t]] /\ kind[t] \in Kinds
    BY <1>3 DEF Retry, QueueTypeOK
  <2>2. CASE Serve(t, kind[t], mode[t])
    <3>0. at[t] = "woken"
      BY <1>3 DEF Retry
    <3>1. CASE kind[t] = "push"
      BY <2>1, <2>2, <3>0, <3>1, PushIsAnnounced
    <3>2. CASE kind[t] = "pop"
      BY <2>1, <2>2, <3>0, <3>2, PopTakesItsOwn
    <3>3. CASE kind[t] = "popall"
      BY <2>2, <3>3, EmptyMissesNothing DEF Serve
    <3> QED BY <2>1, <3>1, <3>2, <3>3
  <2>3. CASE ~Serve(t, kind[t], mode[t])
    <3>1. CASE kind[t] = "push"
      BY <1>3, <2>3, <3>1, ElementsUntouched DEF Retry, Move, Who, QueueTypeOK
    <3>2. CASE kind[t] # "push"
      BY <1>3, <2>3, <3>2, EmptyMissesNothing DEF Retry, Blocked
    <3> QED BY <3>1, <3>2
  <2> QED BY <2>2, <2>3
<1>4. ASSUME NEW t \in Callers, Signal(t) PROVE NoElementMissed'
  <2>1. CASE kind[t] # "push"
    BY SMTT(60), <1>4, <2>1, ElementsUntouched DEF Signal, Peers, Move, Who, QueueTypeOK
  <2>2. CASE kind[t] = "push" /\ Who("wait", Consumers) = {}
    <3>1. Who("wait", Consumers)' = {}
      BY <1>4, <2>2 DEF Signal, Peers, Move, Who, QueueTypeOK
    <3> QED BY <3>1 DEF NoElementMissed
  <2>3. CASE kind[t] = "push" /\ Who("wait", Consumers) # {}
    <3>1. PICK u \in Who("wait", Consumers) : Move(t, "idle", {u})
      BY <1>4, <2>3 DEF Signal, Peers
    <3>2. /\ Who("woken", Consumers)' = Who("woken", Consumers) \cup {u}
          /\ Who("signal", {"push"})' = Who("signal", {"push"}) \ {t}
          /\ t \in Who("signal", {"push"})
      BY <1>4, <2>3, <3>1 DEF Signal, Move, Who, QueueTypeOK
    <3>3. Cardinality(Who("signal", {"push"})') = Cardinality(Who("signal", {"push"})) - 1
      BY <3>2, CountChanges, WhoIsCounted
    <3> QED BY SMTT(60), <1>4, <3>2, <3>3, PopWakes, WhoIsCounted DEF Signal
  <2> QED BY <2>1, <2>2, <2>3
<1>5. ASSUME NEW t \in Callers, Broadcast(t) PROVE NoElementMissed'
  BY <1>5, ElementsUntouched DEF Broadcast, Move, Who, QueueTypeOK
<1>6. ASSUME NEW t \in Callers, Clear(t) PROVE NoElementMissed'
  BY <1>6, EmptyMissesNothing DEF Clear
<1>7. ASSUME NEW t \in Callers, Timeout(t) \/ QueueSpuriousWakeup(t) PROVE NoElementMissed'
  <2>0. at[t] = "wait" /\ Move(t, "woken", {}) /\ UNCHANGED <<size, kind, mode>>
    BY <1>7 DEF Timeout, QueueSpuriousWakeup
  <2>1. CASE kind[t] = "push"
    BY <2>0, <2>1, ElementsUntouched DEF Move, Who, QueueTypeOK
  <2>2. CASE kind[t] # "push"
    <3>1. /\ t \in Who("wait", Consumers)
          /\ Who("woken", Consumers)' = Who("woken", Consumers) \cup {t}
          /\ Who("signal", {"push"})' = Who("signal", {"push"})
      BY <2>0, <2>2 DEF Move, Who, QueueTypeOK
    <3> QED BY SMTT(60), <2>0, <3>1, PopWakes, WhoIsCounted
  <2> QED BY <2>1, <2>2
<1> QED BY <1>1, <1>2, <1>3, <1>4, <1>5, <1>6, <1>7 DEF QueueNext, Resume

--------------------------------------------------------------------------------
(* Slots and the pushes that sleep *)

\* A queue that is full, or that nobody waits to push to, misses nothing; nor does one
\* whose broadcast is still to come.
LEMMA NothingMissed ==
  ASSUME \/ size' = max_elements
         \/ Who("wait", {"push"})' = {}
         \/ Who("broadcast", Consumers)' # {}
  PROVE  NoSlotMissed'
BY WhoIsCounted DEF NoSlotMissed

\* A pop that is served leaves one more signal to send.
LEMMA PopIsAnnounced ==
  ASSUME QueueTypeOK, NoSlotMissed, NEW t \in Callers, NEW k, NEW m, k = "pop",
         at[t] \in {"idle", "woken"}, at[t] = "woken" => kind[t] = k,
         Serve(t, k, m), kind' = [kind EXCEPT ![t] = k]
  PROVE  NoSlotMissed'
<1>1. size' = size - 1 /\ Move(t, "signal", {})
  BY DEF Serve
<1>2. /\ Who("wait", {"push"})' = Who("wait", {"push"})
      /\ Who("woken", {"push"})' = Who("woken", {"push"})
      /\ Who("broadcast", Consumers)' = Who("broadcast", Consumers)
      /\ Who("signal", Consumers)' = Who("signal", Consumers) \cup {t}
      /\ t \notin Who("signal", Consumers)
  BY <1>1 DEF QueueTypeOK, Move, Who
<1>3. Cardinality(Who("signal", Consumers)') = Cardinality(Who("signal", Consumers)) + 1
  BY <1>2, CountChanges, WhoIsCounted
<1> QED BY SMTT(60), <1>1, <1>2, <1>3, WhoIsCounted DEF NoSlotMissed, QueueTypeOK

\* A push that is served takes a slot, and if it had been woken is awake no more.
LEMMA PushTakesItsOwn ==
  ASSUME QueueTypeOK, NoSlotMissed, NEW t \in Callers, NEW k, NEW m, k = "push",
         at[t] \in {"idle", "woken"}, at[t] = "woken" => kind[t] = k,
         Serve(t, k, m), kind' = [kind EXCEPT ![t] = k]
  PROVE  NoSlotMissed'
<1>1. size' = size + 1 /\ Move(t, "signal", {})
  BY DEF Serve
<1>2. /\ Who("wait", {"push"})' = Who("wait", {"push"})
      /\ Who("woken", {"push"})' = Who("woken", {"push"}) \ {t}
      /\ Who("broadcast", Consumers)' = Who("broadcast", Consumers)
      /\ Who("signal", Consumers)' = Who("signal", Consumers)
  BY <1>1 DEF QueueTypeOK, Move, Who
<1>3. Cardinality(Who("woken", {"push"})') >= Cardinality(Who("woken", {"push"})) - 1
  <2>1. CASE t \in Who("woken", {"push"})
    BY SMTT(60), <1>2, <2>1, CountChanges, WhoIsCounted
  <2>2. CASE t \notin Who("woken", {"push"})
    <3>1. Who("woken", {"push"})' = Who("woken", {"push"})
      BY <1>2, <2>2
    <3> QED BY <3>1, WhoIsCounted
  <2> QED BY <2>1, <2>2
<1> QED BY SMTT(60), <1>1, <1>2, <1>3, WhoIsCounted DEF NoSlotMissed, QueueTypeOK

\* A popall that is served broadcasts now or later.
LEMMA PopAllIsAnnounced ==
  ASSUME QueueTypeOK, NEW t \in Callers, NEW k, NEW m, k = "popall",
         at[t] \in {"idle", "woken"}, at[t] = "woken" => kind[t] = k,
         Serve(t, k, m), kind' = [kind EXCEPT ![t] = k]
  PROVE  NoSlotMissed'
<1>1. CASE m = "timed"
  <2>1. Move(t, "signal", Who("wait", {"push"}))
    BY <1>1 DEF Serve
  <2>2. Who("wait", {"push"})' = {}
    BY <2>1 DEF QueueTypeOK, Move, Who
  <2> QED BY <2>2, NothingMissed
<1>2. CASE m # "timed"
  <2>1. Move(t, "broadcast", {})
    BY <1>2 DEF Serve
  <2>2. t \in Who("broadcast", Consumers)'
    BY <2>1 DEF QueueTypeOK, Move, Who
  <2> QED BY <2>2, NothingMissed
<1> QED BY <1>1, <1>2

\* Steps that leave the slots, the sleeping pushes and their announcements alone.
LEMMA SlotsUntouched ==
  ASSUME NoSlotMissed, size' = size,
         Who("wait", {"push"})' = Who("wait", {"push"}),
         Who("woken", {"push"})' = Who("woken", {"push"}),
         Who("broadcast", Consumers)' = Who("broadcast", Consumers),
         Who("signal", Consumers)' = Who("signal", Consumers)
  PROVE  NoSlotMissed'
BY DEF NoSlotMissed

\* A push that wakes up, for whatever reason, is one more that is awake.
LEMMA PushWakes ==
  ASSUME QueueTypeOK, NoSlotMissed, NEW u \in Who("wait", {"push"}), size' = size,
         Who("woken", {"push"})' = Who("woken", {"push"}) \cup {u},
         Who("broadcast", Consumers)' = Who("broadcast", Consumers),
         Cardinality(Who("signal", Consumers)') >= Cardinality(Who("signal", Consumers)) - 1
  PROVE  NoSlotMissed'
<1>1. u \in Callers /\ u \notin Who("woken", {"push"})
  BY DEF Who
<1>2. Cardinality(Who("woken", {"push"})') = Cardinality(Who("woken", {"push"})) + 1
  BY <1>1, CountChanges, WhoIsCounted
<1> QED BY SMTT(60), <1>2, WhoIsCounted DEF NoSlotMissed, QueueTypeOK

\* The invariant is kept by every step.
LEMMA SlotsKept == QueueTypeOK /\ NoSlotMissed /\ [QueueNext]_QueueVars => NoSlotMissed'
<1> SUFFICES ASSUME QueueTypeOK, NoSlotMissed, [QueueNext]_QueueVars PROVE NoSlotMissed'
  OBVIOUS
<1>1. CASE UNCHANGED QueueVars
  BY <1>1 DEF NoSlotMissed, Who, QueueVars
<1>2. ASSUME NEW t \in Callers, NEW k \in Kinds, NEW m \in CallModes, Call(t, k, m)
      PROVE  NoSlotMissed'
  <2>1. CASE Serve(t, k, m)
    <3>0. at[t] = "idle" /\ kind' = [kind EXCEPT ![t] = k]
      BY <1>2 DEF Call
    <3>1. CASE k = "push"
      BY <2>1, <3>0, <3>1, PushTakesItsOwn
    <3>2. CASE k = "pop"
      BY <2>1, <3>0, <3>2, PopIsAnnounced
    <3>3. CASE k = "popall"
      BY <2>1, <3>0, <3>3, PopAllIsAnnounced
    <3> QED BY <3>1, <3>2, <3>3
  <2>2. CASE ~Serve(t, k, m)
    <3>1. CASE k = "push"
      BY SMTT(60), <1>2, <2>2, <3>1, NothingMissed DEF Call, Blocked, UnlockedIsFull, QueueTypeOK
    <3>2. CASE k # "push"
      BY SMTT(60), <1>2, <2>2, <3>2, SlotsUntouched DEF Call, Move, Who, QueueTypeOK
    <3> QED BY <3>1, <3>2
  <2> QED BY <2>1, <2>2
<1>3. ASSUME NEW t \in Callers, Retry(t) PROVE NoSlotMissed'
  <2>1. kind' = [kind EXCEPT ![t] = kind[t]] /\ kind[t] \in Kinds
    BY <1>3 DEF Retry, QueueTypeOK
  <2>2. CASE Serve(t, kind[t], mode[t])
    <3>0. at[t] = "woken"
      BY <1>3 DEF Retry
    <3>1. CASE kind[t] = "push"
      BY <2>1, <2>2, <3>0, <3>1, PushTakesItsOwn
    <3>2. CASE kind[t] = "pop"
      BY <2>1, <2>2, <3>0, <3>2, PopIsAnnounced
    <3>3. CASE kind[t] = "popall"
      BY <2>1, <2>2, <3>0, <3>3, PopAllIsAnnounced
    <3> QED BY <2>1, <3>1, <3>2, <3>3
  <2>3. CASE ~Serve(t, kind[t], mode[t])
    <3>1. CASE kind[t] = "push"
      BY SMTT(60), <1>3, <2>3, <3>1, NothingMissed DEF Retry, Blocked, UnlockedIsFull,
         QueueTypeOK
    <3>2. CASE kind[t] # "push"
      BY <1>3, <2>3, <3>2, SlotsUntouched DEF Retry, Move, Who, QueueTypeOK
    <3> QED BY <3>1, <3>2
  <2> QED BY <2>2, <2>3
<1>4. ASSUME NEW t \in Callers, Signal(t) PROVE NoSlotMissed'
  <2>1. CASE kind[t] = "push"
    BY SMTT(60), <1>4, <2>1, SlotsUntouched DEF Signal, Peers, Move, Who, QueueTypeOK
  <2>2. CASE kind[t] # "push" /\ Who("wait", {"push"}) = {}
    <3>1. Who("wait", {"push"})' = {}
      BY <1>4, <2>2 DEF Signal, Peers, Move, Who, QueueTypeOK
    <3> QED BY <3>1, NothingMissed
  <2>3. CASE kind[t] # "push" /\ Who("wait", {"push"}) # {}
    <3>1. PICK u \in Who("wait", {"push"}) : Move(t, "idle", {u})
      BY <1>4, <2>3 DEF Signal, Peers
    <3>2. /\ Who("woken", {"push"})' = Who("woken", {"push"}) \cup {u}
          /\ Who("broadcast", Consumers)' = Who("broadcast", Consumers)
          /\ Who("signal", Consumers)' = Who("signal", Consumers) \ {t}
          /\ t \in Who("signal", Consumers)
      BY <1>4, <2>3, <3>1 DEF Signal, Move, Who, QueueTypeOK
    <3>3. Cardinality(Who("signal", Consumers)') = Cardinality(Who("signal", Consumers)) - 1
      BY <3>2, CountChanges, WhoIsCounted
    <3> QED BY SMTT(60), <1>4, <3>2, <3>3, PushWakes, WhoIsCounted DEF Signal
  <2> QED BY <2>1, <2>2, <2>3
<1>5. ASSUME NEW t \in Callers, Broadcast(t) \/ Clear(t) PROVE NoSlotMissed'
  <2>1. Who("wait", {"push"})' = {}
    BY <1>5 DEF Broadcast, Clear, Move, Who, QueueTypeOK
  <2> QED BY <2>1, NothingMissed
<1>6. ASSUME NEW t \in Callers, Timeout(t) \/ QueueSpuriousWakeup(t) PROVE NoSlotMissed'
  <2>0. at[t] = "wait" /\ Move(t, "woken", {}) /\ UNCHANGED <<size, kind, mode>>
    BY <1>6 DEF Timeout, QueueSpuriousWakeup
  <2>1. CASE kind[t] # "push"
    BY <2>0, <2>1, SlotsUntouched DEF Move, Who, QueueTypeOK
  <2>2. CASE kind[t] = "push"
    <3>1. /\ t \in Who("wait", {"push"})
          /\ Who("woken", {"push"})' = Who("woken", {"push"}) \cup {t}
          /\ Who("broadcast", Consumers)' = Who("broadcast", Consumers)
          /\ Who("signal", Consumers)' = Who("signal", Consumers)
      BY <2>0, <2>2 DEF Move, Who, QueueTypeOK
    <3> QED BY SMTT(60), <2>0, <3>1, PushWakes, WhoIsCounted
  <2> QED BY <2>1, <2>2
<1> QED BY <1>1, <1>2, <1>3, <1>4, <1>5, <1>6 DEF QueueNext, Resume

--------------------------------------------------------------------------------
(* The theorems *)

\* All three hold before the first call.
LEMMA HoldInitially == QueueInit => QueueTypeOK /\ NoElementMissed /\ NoSlotMissed
<1> SUFFICES ASSUME QueueInit PROVE QueueTypeOK /\ NoElementMissed /\ NoSlotMissed
  OBVIOUS
<1>1. QueueTypeOK
  BY DEF QueueInit, QueueTypeOK
<1>2. \A K \in {Consumers, {"push"}} : Who("wait", K) = {}
  BY DEF QueueInit, Who
<1> QED BY <1>1, <1>2 DEF NoElementMissed, NoSlotMissed

\* The queue never holds more than max_elements, and no signal that a sleeping pop or push
\* needs is lost, although signals are sent outside the mutex and timed calls may take
\* them; Clear and the three PopAlls are included.
THEOREM NothingIsEverMissed == QueueSpec => []NothingIsMissed
<1>1. QueueInit => NothingIsMissed
  BY HoldInitially DEF NothingIsMissed
<1>2. NothingIsMissed /\ [QueueNext]_QueueVars => NothingIsMissed'
  BY TypesKept, ElementsKept, SlotsKept DEF NothingIsMissed
<1> QED BY <1>1, <1>2, PTL DEF QueueSpec
================================================================================
