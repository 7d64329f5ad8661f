---------------------- MODULE SppProtoAsyncClientProofs -----------------------
(***************************************************************************)
(* SppProtoAsyncClient: what a client hands out and takes back has one     *)
(* owner at every moment, and every call is answered once, with what is    *)
(* meant for it; for every number of calls, tasks, descriptors, monitors   *)
(* and addresses, and every timeout.                                       *)
(*                                                                         *)
(* The laws that the steps of the client rest on are proved here from what *)
(* is known of TaskExpirationQueue and of finite sets.                     *)
(***************************************************************************)
EXTENDS SppProtoAsyncClientSteps, TaskExpirationQueueProofs, FiniteSetTheorems

USE ZenonT(30), SMTT(60)

-------------------------------------------------------------------------------
(* The laws of the heap *)

\* A good heap, part by part
LEMMA GoodFacts ==
  ASSUME NEW q, NEW e, GoodHeap(q, e)
  PROVE  /\ q.size \in Nat /\ q.size <= MaxConcurrent /\ e \in [Tasks -> Int]
         /\ Heap(q, Tasks, e) /\ q \in Shaped(Tasks, q.size)
         /\ Members(q) \subseteq Tasks
<1>1. q.size \in Nat /\ q.size <= MaxConcurrent /\ e \in [Tasks -> Int] /\ Heap(q, Tasks, e)
  BY DEF GoodHeap
<1>2. q \in Shaped(Tasks, q.size)
  BY <1>1 DEF Heap
<1> QED
  BY <1>1, <1>2, MemberFacts

\* One deadline changes.
LEMMA DeadlineFacts ==
  ASSUME NEW e \in [Tasks -> Int], NEW t \in Tasks, NEW x \in Int,
         NEW d, d = [e EXCEPT ![t] = x]
  PROVE  d \in [Tasks -> Int] /\ \A u \in Tasks \ {t} : d[u] = e[u]
BY SMTT(60)

\* erase and reset: check_timeout and the ends of a task
LEMMA EraseLaw == LawOfErase
<1> SUFFICES ASSUME NEW q, NEW e, GoodHeap(q, e), NEW t \in Members(q)
             PROVE  /\ GoodHeap(reset(Erase(q, e, t), t), [e EXCEPT ![t] = 0])
                    /\ Members(reset(Erase(q, e, t), t)) = Members(q) \ {t}
  BY DEF LawOfErase
<1>1. PICK r : r = Erase(q, e, t)
  OBVIOUS
<1>2. PICK z : z = reset(r, t)
  OBVIOUS
<1>3. PICK d : d = [e EXCEPT ![t] = 0]
  OBVIOUS
<1>4. /\ q.size \in Nat /\ q.size <= MaxConcurrent /\ e \in [Tasks -> Int]
      /\ Heap(q, Tasks, e) /\ Members(q) \subseteq Tasks /\ t \in Tasks
  BY GoodFacts
<1>5. r.size = q.size - 1 /\ r.size \in Nat /\ Heap(r, Tasks, e) /\ Members(r) = Members(q) \ {t}
  BY <1>1, <1>4, EraseFacts
<1>6. z.size = r.size /\ Members(z) = Members(r) /\ Heap(z, Tasks, e)
  BY <1>2, <1>4, <1>5, ResetFacts
<1>7. d \in [Tasks -> Int] /\ \A u \in Tasks \ {t} : d[u] = e[u]
  <2>1. 0 \in Int
    BY SMTT(60)
  <2> QED
    BY <1>3, <1>4, <2>1, DeadlineFacts
<1>8. \A u \in Members(z) : d[u] = e[u]
  BY <1>4, <1>5, <1>6, <1>7
<1>9. Heap(z, Tasks, d)
  BY <1>5, <1>6, <1>8, OnlyMembersCount
<1>10. z.size \in Nat /\ z.size <= MaxConcurrent
  BY SMTT(60), <1>4, <1>5, <1>6, ClientAssumption
<1>11. GoodHeap(z, d) /\ Members(z) = Members(q) \ {t}
  BY <1>5, <1>6, <1>7, <1>9, <1>10 DEF GoodHeap
<1> QED
  BY <1>1, <1>2, <1>3, <1>11

\* insert: a task is taken from the queue
LEMMA InsertLaw == LawOfInsert
<1> SUFFICES ASSUME NEW q, NEW e, GoodHeap(q, e), q.size < MaxConcurrent,
                    NEW t \in Tasks, NEW x \in Int, t \notin Members(q)
             PROVE  /\ GoodHeap(Insert(q, [e EXCEPT ![t] = x], t), [e EXCEPT ![t] = x])
                    /\ Members(Insert(q, [e EXCEPT ![t] = x], t)) = Members(q) \cup {t}
  BY DEF LawOfInsert
<1>1. PICK d : d = [e EXCEPT ![t] = x]
  OBVIOUS
<1>2. PICK r : r = Insert(q, d, t)
  OBVIOUS
<1>3. /\ q.size \in Nat /\ q.size <= MaxConcurrent /\ e \in [Tasks -> Int]
      /\ Heap(q, Tasks, e) /\ Members(q) \subseteq Tasks
  BY GoodFacts
<1>4. d \in [Tasks -> Int] /\ \A u \in Tasks \ {t} : d[u] = e[u]
  BY <1>1, <1>3, DeadlineFacts
<1>5. \A u \in Members(q) : d[u] = e[u]
  BY <1>3, <1>4
<1>6. Heap(q, Tasks, d)
  BY <1>3, <1>5, OnlyMembersCount
<1>7. r.size = q.size + 1 /\ r.size \in Nat /\ Heap(r, Tasks, d) /\ Members(r) = Members(q) \cup {t}
  BY <1>2, <1>3, <1>4, <1>6, InsertFacts
<1>8. r.size <= MaxConcurrent
  BY SMTT(60), <1>3, <1>7, ClientAssumption
<1>9. GoodHeap(r, d) /\ Members(r) = Members(q) \cup {t}
  BY <1>4, <1>7, <1>8 DEF GoodHeap
<1> QED
  BY <1>1, <1>2, <1>9

\* expire_time_change: a task goes on to its next state
LEMMA UpdownLaw == LawOfUpdown
<1> SUFFICES ASSUME NEW q, NEW e, GoodHeap(q, e), NEW t \in Members(q), NEW x \in Int
             PROVE  /\ GoodHeap(Updown(q, [e EXCEPT ![t] = x], t), [e EXCEPT ![t] = x])
                    /\ Members(Updown(q, [e EXCEPT ![t] = x], t)) = Members(q)
  BY DEF LawOfUpdown
<1>1. PICK d : d = [e EXCEPT ![t] = x]
  OBVIOUS
<1>2. PICK r : r = Updown(q, d, t)
  OBVIOUS
<1>3. /\ q.size \in Nat /\ q.size <= MaxConcurrent /\ e \in [Tasks -> Int]
      /\ Heap(q, Tasks, e) /\ Members(q) \subseteq Tasks /\ t \in Tasks
  BY GoodFacts
<1>4. d \in [Tasks -> Int] /\ \A u \in Tasks \ {t} : d[u] = e[u]
  BY <1>1, <1>3, DeadlineFacts
<1>5. r.size = q.size /\ Heap(r, Tasks, d) /\ Members(r) = Members(q)
  BY <1>2, <1>3, <1>4, ChangeFacts
<1>6. GoodHeap(r, d) /\ Members(r) = Members(q)
  BY <1>3, <1>4, <1>5 DEF GoodHeap
<1> QED
  BY <1>1, <1>2, <1>6

\* The clock
LEMMA TickLaw == LawOfTick
<1> SUFFICES ASSUME NEW q, NEW e, GoodHeap(q, e)
             PROVE  GoodHeap(q, [t \in Tasks |-> IF t \in Members(q) THEN e[t] - Second ELSE 0])
  BY DEF LawOfTick
<1>1. PICK d : d = [t \in Tasks |-> IF t \in Members(q) THEN e[t] - Second ELSE 0]
  OBVIOUS
<1>2. /\ q.size \in Nat /\ q.size <= MaxConcurrent /\ e \in [Tasks -> Int]
      /\ Heap(q, Tasks, e) /\ q \in Shaped(Tasks, q.size) /\ Members(q) \subseteq Tasks
  BY GoodFacts
<1>3. d \in [Tasks -> Int] /\ \A t \in Members(q) : d[t] = e[t] - Second /\ e[t] \in Int
  <2>1. \A t \in Tasks : e[t] \in Int
    BY <1>2
  <2>2. \A x \in Int : x - Second \in Int /\ 0 \in Int
    BY SMTT(60), ClientAssumption
  <2>3. \A t \in Tasks : (IF t \in Members(q) THEN e[t] - Second ELSE 0) \in Int
    BY <2>1, <2>2
  <2>4. \A t \in Tasks : t \in Members(q) => d[t] = e[t] - Second
    BY <1>1
  <2>5. d \in [Tasks -> Int]
    BY <1>1, <2>3
  <2> QED
    BY <1>2, <2>1, <2>4, <2>5
<1>4. \A j \in 1..(q.size - 1) : j \in 0..(q.size - 1) /\ Parent(j) \in 0..(q.size - 1)
  BY SMTT(60), <1>2, ParentFacts
<1>5. \A k \in 0..(q.size - 1) : At(q, k) \in Members(q)
  BY <1>2, MemberFacts
<1>6. Ordered(q, d)
  <2> SUFFICES ASSUME NEW j \in 1..(q.size - 1)
               PROVE  d[At(q, Parent(j))] <= d[At(q, j)]
    BY DEF Ordered, OrderedBut
  <2>1. e[At(q, Parent(j))] <= e[At(q, j)]
    BY <1>2 DEF Heap, Ordered, OrderedBut
  <2>2. At(q, Parent(j)) \in Members(q) /\ At(q, j) \in Members(q)
    BY <1>4, <1>5
  <2>3. /\ d[At(q, Parent(j))] = e[At(q, Parent(j))] - Second /\ e[At(q, Parent(j))] \in Int
        /\ d[At(q, j)] = e[At(q, j)] - Second /\ e[At(q, j)] \in Int
    BY <2>2, <1>3
  <2> QED
    BY SMTT(60), <2>1, <2>3, ClientAssumption
<1>7. GoodHeap(q, d)
  BY <1>2, <1>3, <1>6 DEF GoodHeap, Heap
<1> QED
  BY <1>1, <1>7

\* check_timeout and get_epoll_wait_time look at the front
LEMMA FrontLaw == LawOfFront
<1> SUFFICES ASSUME NEW q, NEW e, GoodHeap(q, e)
             PROVE  /\ Members(q) \subseteq Tasks
                    /\ q.size # 0 => Front(q) \in Members(q)
                    /\ \A t \in Members(q) : e[Front(q)] <= e[t] /\ At(q, q.index[t]) = t
  BY DEF LawOfFront
<1>1. /\ q.size \in Nat /\ e \in [Tasks -> Int] /\ Heap(q, Tasks, e)
      /\ q \in Shaped(Tasks, q.size) /\ Members(q) \subseteq Tasks
  BY GoodFacts
<1>2. \A t \in Members(q) : e[Front(q)] <= e[t]
  BY <1>1, NoneBeforeFront
<1>3. (\A t \in Members(q) : At(q, q.index[t]) = t) /\ \A k \in 0..(q.size - 1) : At(q, k) \in Members(q)
  BY <1>1, MemberFacts
<1>4. q.size # 0 => 0 \in 0..(q.size - 1)
  BY SMTT(60), <1>1
<1> QED
  BY <1>1, <1>2, <1>3, <1>4 DEF Front

\* A new client
LEMMA EmptyLaw == LawOfEmpty
<1>1. PICK q : q = Empty(Tasks)
  OBVIOUS
<1>2. PICK e : e = [t \in Tasks |-> 0]
  OBVIOUS
<1>3. q.size = 0 /\ Heap(q, Tasks, e) /\ Members(q) = {}
  BY <1>1, EmptyFacts
<1>4. e \in [Tasks -> Int]
  BY SMTT(60), <1>2
<1>5. q.size \in Nat /\ q.size <= MaxConcurrent
  BY SMTT(60), <1>3, ClientAssumption
<1>6. GoodHeap(q, e) /\ Members(q) = {}
  BY <1>3, <1>4, <1>5 DEF GoodHeap
<1> QED
  BY <1>1, <1>2, <1>6 DEF LawOfEmpty

-------------------------------------------------------------------------------
(* The laws of counting *)

\* The least of a set of numbers is one of them.
LEMMA LeastLaw == LawOfLeast
<1> SUFFICES ASSUME NEW S \in SUBSET Nat, S # {} PROVE Min(S) \in S
  BY DEF LawOfLeast
<1> DEFINE R == OpToRel(<, Nat)
<1>1. PICK x \in S : \A y \in S : ~(<<y, x>> \in R)
  BY WFMin, NatLessThanWellFounded
<1>2. \A y \in S : ~(y < x)
  BY <1>1 DEF OpToRel
<1>3. \A y \in S : x <= y
  BY SMTT(60), <1>2
<1> QED
  BY <1>3 DEF Min

\* There are as many handlers as descriptors.
LEMMA HandlersLaw == LawOfHandlers
<1> SUFFICES ASSUME NEW f \in Fds, NEW m \in [Handlers -> Fds \ {f}],
                    \A g, h \in Handlers : m[g] = m[h] => g = h
             PROVE  FALSE
  BY DEF LawOfHandlers
<1>1. m \in Injection(Handlers, Fds \ {f})
  BY DEF Injection, IsInjective
<1>2. IsFiniteSet(Fds \ {f}) /\ Cardinality(Fds \ {f}) = Cardinality(Fds) - 1
  BY FS_RemoveElement, ClientAssumption
<1>3. Cardinality(Handlers) <= Cardinality(Fds \ {f})
  BY <1>1, <1>2, FS_Injection
<1>4. Cardinality(Handlers) \in Nat /\ Cardinality(Fds) \in Nat /\ Cardinality(Fds) <= Cardinality(Handlers)
  BY FS_CardinalityType, ClientAssumption
<1> QED
  BY SMTT(60), <1>2, <1>3, <1>4

\* A function onto a set that tells its arguments apart: both sets have the same size.
LEMMA OneToOne ==
  ASSUME NEW S, NEW T, IsFiniteSet(S), NEW m \in [S -> T],
         \A x, y \in S : m[x] = m[y] => x = y, \A z \in T : \E x \in S : m[x] = z
  PROVE  IsFiniteSet(T) /\ Cardinality(T) = Cardinality(S)
<1>1. m \in Injection(S, T) /\ m \in Surjection(S, T)
  BY DEF Injection, IsInjective, Surjection
<1> QED
  BY <1>1, FS_Surjection

\* Tasks under way and their descriptors
LEMMA UseLaw == LawOfUse
<1> SUFFICES ASSUME NEW S \in SUBSET Fds, NEW A, NEW m \in [S -> A],
                    \A f, g \in S : m[f] = m[g] => f = g, \A t \in A : \E f \in S : m[f] = t
             PROVE  Cardinality(S) = Cardinality(A)
  BY DEF LawOfUse
<1>1. IsFiniteSet(S)
  BY FS_Subset, ClientAssumption
<1> QED
  BY <1>1, OneToOne

\* The pool of tasks and the lists of connections
LEMMA DistinctLaw == LawOfDistinct
<1> SUFFICES ASSUME NEW S, NEW s \in Seq(S), Distinct(s)
             PROVE  Cardinality(Range(s)) = Len(s)
  BY DEF LawOfDistinct
<1> DEFINE n == Len(s)
           m == [i \in 1..n |-> s[i]]
<1>1. n \in Nat /\ (\A i \in 1..n : s[i] \in Range(s)) /\ \A x \in Range(s) : \E i \in 1..n : x = s[i]
  BY RangeFacts
<1>2. \A i, j \in 1..n : s[i] = s[j] => i = j
  BY DEF Distinct
<1> HIDE DEF n
<1>3. m \in [1..n -> Range(s)] /\ (\A i, j \in 1..n : m[i] = m[j] => i = j)
      /\ \A z \in Range(s) : \E i \in 1..n : m[i] = z
  BY <1>1, <1>2
<1>4. IsFiniteSet(1..n) /\ Cardinality(1..n) = n
  <2>1. 1 \in Int /\ n \in Int
    BY SMTT(60), <1>1
  <2>2. IsFiniteSet(1..n) /\ Cardinality(1..n) = IF 1 > n THEN 0 ELSE n - 1 + 1
    BY <2>1, FS_Interval
  <2>3. (IF 1 > n THEN 0 ELSE n - 1 + 1) = n
    BY SMTT(60), <1>1
  <2> QED
    BY SMTT(60), <2>2, <2>3
<1> HIDE DEF m
<1>5. Cardinality(Range(s)) = Cardinality(1..n)
  BY <1>3, <1>4, OneToOne
<1> QED
  BY <1>4, <1>5 DEF n

\* The laws that the steps of the client rest on
LEMMA Laws == DataLaws
<1>1. LawOfOne
  BY FS_Singleton, FS_EmptySet DEF LawOfOne
<1> QED
  BY <1>1, EraseLaw, InsertLaw, UpdownLaw, TickLaw, FrontLaw, EmptyLaw,
     LeastLaw, HandlersLaw, UseLaw, DistinctLaw DEF DataLaws

-------------------------------------------------------------------------------
\* The invariant holds always.
LEMMA ClientInvariant == Spec => []ClientInv
<1>1. Init => ClientInv
  BY Laws, ClientInit
<1>2. ClientInv /\ [Next]_vars => ClientInv'
  BY Laws, ClientStep
<1> QED
  BY <1>1, <1>2, PTL DEF Spec

\* Tasks, connections, monitors and places in the heap have one owner each, whatever the
\* number of calls, tasks, descriptors and addresses and whatever the timeouts.
THEOREM AsyncClientOwns == Spec => []ResourcesAreOwned
<1>1. ClientInv => ResourcesAreOwned
  BY Laws, InvTypes, InvPool, InvFront, InvOwners, InvEvents DEF ResourcesAreOwned
<1> QED
  BY <1>1, ClientInvariant, PTL

\* A call accepted is carried by one task until it is called back and by none afterwards,
\* and what its task reads is for that call, whatever races with what.
THEOREM AsyncClientAnswers == Spec => []CallsAreAnswered
<1>1. ClientInv => CallsAreAnswered
  BY Laws, InvCarriers, InvResponses DEF CallsAreAnswered
<1> QED
  BY <1>1, ClientInvariant, PTL
================================================================================
