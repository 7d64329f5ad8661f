----------------------- MODULE SppProtoAsyncClientSteps -----------------------
(***************************************************************************)
(* ClientInv is an invariant of SppProtoAsyncClient, given the laws of the *)
(* heap and of counting.                                                   *)
(*                                                                         *)
(* The parts of ClientInv say together who has each task, each descriptor  *)
(* and each handler at every moment.  DataLaws gathers what the client     *)
(* needs to know of the heap and of counting, apart from its own state:    *)
(* the steps of the client are proved here from these laws, and the laws   *)
(* on their own in SppProtoAsyncClientProofs.  A lemma says what each      *)
(* operation does to each part of the invariant; a step of the client puts *)
(* those together.                                                         *)
(***************************************************************************)
EXTENDS SppProtoAsyncClient, TLAPS

-------------------------------------------------------------------------------
(* The invariant *)

\* A sequence that names nothing twice
Distinct(s) == \A i, j \in 1..Len(s) : s[i] = s[j] => i = j

States == {"INIT", "CONNECT", "SEND", "RECV"}

TaskRecords == [state : States, fd : Fds \cup {None}, call : Calls \cup {None}]

\* Tasks that carry a call: under way, or queued
Carriers == Active \cup Range(m_task_queue)

\* A task is under way, queued, in the pool, or with nobody, and then it is as new.
TaskInv ==
  /\ m_task_queue \in Seq(Tasks) /\ m_task_pool \in Seq(Tasks) /\ live \subseteq Tasks
  /\ task \in [Tasks -> TaskRecords] /\ Active \subseteq Tasks
  /\ Distinct(m_task_queue) /\ Distinct(m_task_pool)
  /\ \A t \in Range(m_task_pool) : t \notin Carriers
  /\ \A t \in Range(m_task_queue) : t \notin Active
  /\ Carriers \subseteq live /\ Range(m_task_pool) \subseteq live
  /\ Len(m_task_pool) <= TaskPoolLimit
  /\ \A t \in Active : task[t].state # "INIT" /\ task[t].fd \in Fds /\ task[t].call \in Calls
  /\ \A t \in Range(m_task_queue) :
       task[t].state = "INIT" /\ task[t].fd = None /\ task[t].call \in Calls
  /\ \A t \in Tasks \ Carriers : task[t] = Blank

\* A heap that is in order, and has room for what is in it
GoodHeap(q, e) ==
  /\ q.size \in Nat /\ q.size <= MaxConcurrent
  /\ e \in [Tasks -> Int]
  /\ Heap(q, Tasks, e)

HeapInv == GoodHeap(heap, expire)

Places == {"wait", "events", "tasks", "exit", "gone"}

\* The calls accepted and not called back are those carried, each by one task.
CallInv ==
  /\ call \in [Calls -> Results] /\ at \in Places
  /\ \A t, u \in Carriers : task[t].call = task[u].call => t = u
  /\ \A c \in Calls : (call[c] = "accepted" /\ at # "gone") <=> \E t \in Carriers : task[t].call = c

EpollHandlers ==
  {NoHandler} \cup {TaskHandler(t) : t \in Tasks} \cup {MonitorHandler(h) : h \in Handlers}

\* The shape of what is kept about descriptors
FdTypes ==
  /\ m_fds \in [Addrs -> Seq(Fds)]
  /\ m_fd_info \in [Fds -> {<<>>} \cup (Addrs \X Handlers)]
  /\ monitor \in [free : Seq(Handlers), fd : [Handlers -> Fds \cup {None}]]
  /\ epoll \in [Fds -> EpollHandlers]

\* epoll calls a task under way, and no other task, for its descriptor.
FdTasks ==
  /\ \A t \in Active : epoll[task[t].fd] = TaskHandler(t)
  /\ \A f \in Fds, t \in Tasks : epoll[f] = TaskHandler(t) => t \in Active /\ task[t].fd = f

\* A descriptor that is known is kept for its address and watched by its monitor.
FdKnown ==
  \A f \in Fds : m_fd_info[f] # <<>> =>
    /\ f \in Range(m_fds[m_fd_info[f][1]])
    /\ epoll[f] = MonitorHandler(m_fd_info[f][2])
    /\ monitor.fd[m_fd_info[f][2]] = f
    /\ m_fd_info[f][2] \notin Range(monitor.free)

\* The descriptors kept for an address are few, different and known.
FdLists ==
  \A a \in Addrs :
    /\ Distinct(m_fds[a]) /\ Len(m_fds[a]) <= MaxConcurrent
    /\ \A f \in Range(m_fds[a]) : m_fd_info[f] # <<>> /\ m_fd_info[f][1] = a

\* epoll calls a monitor for the descriptor that is known with it.
FdMonitors ==
  \A f \in Fds, h \in Handlers :
    epoll[f] = MonitorHandler(h) => m_fd_info[f] # <<>> /\ m_fd_info[f][2] = h

\* A monitor that was made is free, once, or watches a descriptor that is known.
FdFree ==
  /\ Distinct(monitor.free)
  /\ \A h \in Range(monitor.free) : monitor.fd[h] # None
  /\ \A h \in Handlers : monitor.fd[h] # None /\ h \notin Range(monitor.free) =>
       m_fd_info[monitor.fd[h]] # <<>> /\ m_fd_info[monitor.fd[h]][2] = h

\* A descriptor is in the epoll set for the task that uses it, or for the monitor of the
\* connection kept; every monitor made is in use or free.
FdInv == FdTypes /\ FdTasks /\ FdKnown /\ FdLists /\ FdMonitors /\ FdFree

Answers == [call : Calls, last : BOOLEAN]

ConnStates == {"none", "connecting", "up", "closed"}

ConnRecords ==
  [state : ConnStates, asked : Seq(Answers), inbox : Seq(Answers)]

\* What is due or has come on a connection answers the call of the task that receives
\* on it, and nothing comes after the last answer.
Answered(f, c) ==
  /\ c.asked # <<>> \/ c.inbox # <<>> =>
       \E t \in Active : /\ task[t].fd = f /\ task[t].state = "RECV"
                         /\ \A r \in Range(c.asked) \cup Range(c.inbox) : r.call = task[t].call
  /\ \A i \in 1..Len(c.asked) : c.asked[i].last => i = Len(c.asked)
  /\ \A i \in 1..Len(c.inbox) : c.inbox[i].last => i = Len(c.inbox) /\ c.asked = <<>>

\* A connection is open while its descriptor is in the epoll set.
ConnInv ==
  /\ conn \in [Fds -> ConnRecords]
  /\ at # "gone" =>
       \A f \in Fds :
         /\ conn[f].state # "none" <=> epoll[f] # NoHandler
         /\ conn[f].state = "none" => conn[f] = NoConn
         /\ Answered(f, conn[f])

PipeReady == [handler |-> [kind |-> "pipe", id |-> None], fd |-> None]

\* The events still to be handled are for the handlers that the epoll set has.
BatchInv ==
  /\ at # "events" => batch = {}
  /\ \A e \in batch :
       e = PipeReady \/ \E f \in Fds : e = [handler |-> epoll[f], fd |-> f] /\ epoll[f] # NoHandler
  /\ pipe \in BOOLEAN /\ m_exit \in BOOLEAN

ClientInv == TaskInv /\ HeapInv /\ CallInv /\ FdInv /\ ConnInv /\ BatchInv

-------------------------------------------------------------------------------
(* The laws of the heap *)

\* A task that leaves the heap leaves the others in order.
LawOfErase ==
  \A q, e : GoodHeap(q, e) =>
    \A t \in Members(q) :
      /\ GoodHeap(reset(Erase(q, e, t), t), [e EXCEPT ![t] = 0])
      /\ Members(reset(Erase(q, e, t), t)) = Members(q) \ {t}

\* A task enters the heap at its place.
LawOfInsert ==
  \A q, e : GoodHeap(q, e) /\ q.size < MaxConcurrent =>
    \A t \in Tasks, d \in Int : t \notin Members(q) =>
      /\ GoodHeap(Insert(q, [e EXCEPT ![t] = d], t), [e EXCEPT ![t] = d])
      /\ Members(Insert(q, [e EXCEPT ![t] = d], t)) = Members(q) \cup {t}

\* A task with a new deadline moves to its place.
LawOfUpdown ==
  \A q, e : GoodHeap(q, e) =>
    \A t \in Members(q), d \in Int :
      /\ GoodHeap(Updown(q, [e EXCEPT ![t] = d], t), [e EXCEPT ![t] = d])
      /\ Members(Updown(q, [e EXCEPT ![t] = d], t)) = Members(q)

\* The order stays when every deadline comes nearer by the same time.
LawOfTick ==
  \A q, e : GoodHeap(q, e) =>
    GoodHeap(q, [t \in Tasks |-> IF t \in Members(q) THEN e[t] - Second ELSE 0])

\* The front is the earliest task, and a task knows its place.
LawOfFront ==
  \A q, e : GoodHeap(q, e) =>
    /\ Members(q) \subseteq Tasks
    /\ q.size # 0 => Front(q) \in Members(q)
    /\ \A t \in Members(q) : e[Front(q)] <= e[t] /\ At(q, q.index[t]) = t

LawOfEmpty == GoodHeap(Empty(Tasks), [t \in Tasks |-> 0]) /\ Members(Empty(Tasks)) = {}

-------------------------------------------------------------------------------
(* The laws of counting *)

LawOfLeast == \A S \in SUBSET Nat : S # {} => Min(S) \in S

\* Handlers in use for different descriptors leave no descriptor out.
LawOfHandlers ==
  \A f \in Fds : \A m \in [Handlers -> Fds \ {f}] :
    \E g, h \in Handlers : m[g] = m[h] /\ g # h

\* Tasks that have one descriptor each are as many as the descriptors.
LawOfUse ==
  \A S \in SUBSET Fds : \A A : \A m \in [S -> A] :
    /\ \A f, g \in S : m[f] = m[g] => f = g
    /\ \A t \in A : \E f \in S : m[f] = t
    => Cardinality(S) = Cardinality(A)

\* A sequence without repetition has as many elements as places.
LawOfDistinct == \A S : \A s \in Seq(S) : Distinct(s) => Cardinality(Range(s)) = Len(s)

LawOfOne == Cardinality({}) = 0 /\ \A x : Cardinality({x}) = 1

DataLaws ==
  /\ LawOfErase /\ LawOfInsert /\ LawOfUpdown /\ LawOfTick /\ LawOfFront /\ LawOfEmpty
  /\ LawOfLeast /\ LawOfHandlers /\ LawOfUse /\ LawOfDistinct /\ LawOfOne

-------------------------------------------------------------------------------

\* Leaves are tried with Zenon, then SMT; a leaf that only SMT proves says so.
USE ZenonT(30), SMTT(60)

-------------------------------------------------------------------------------
(* Sequences *)

\* The elements of a sequence
LEMMA RangeFacts ==
  ASSUME NEW S, NEW s \in Seq(S)
  PROVE  /\ Len(s) \in Nat /\ DOMAIN s = 1..Len(s) /\ Range(s) \subseteq S
         /\ \A i \in 1..Len(s) : s[i] \in Range(s) /\ s[i] \in S
         /\ \A x \in Range(s) : \E i \in 1..Len(s) : x = s[i]
         /\ Range(s) = {} <=> s = <<>>
         /\ s # <<>> => Len(s) > 0
<1>1. Len(s) \in Nat /\ DOMAIN s = 1..Len(s) /\ s \in [1..Len(s) -> S]
  BY SMTT(60)
<1>2. s # <<>> => Len(s) > 0 /\ 1 \in 1..Len(s)
  BY SMTT(60), <1>1
<1>3. s = <<>> => DOMAIN s = {}
  BY SMTT(60)
<1> QED
  BY <1>1, <1>2, <1>3 DEF Range

\* The empty sequence
LEMMA EmptyRange ==
  /\ Range(<<>>) = {} /\ Len(<<>>) = 0 /\ Distinct(<<>>) /\ \A S : <<>> \in Seq(S)
<1>1. Len(<<>>) = 0 /\ DOMAIN <<>> = {} /\ 1..0 = {} /\ \A S : <<>> \in Seq(S)
  BY SMTT(60)
<1> QED
  BY <1>1 DEF Range, Distinct

\* push_back
LEMMA PushFacts ==
  ASSUME NEW S, NEW s \in Seq(S), NEW x \in S
  PROVE  /\ Append(s, x) \in Seq(S) /\ Len(Append(s, x)) = Len(s) + 1
         /\ Append(s, x) # <<>>
         /\ Range(Append(s, x)) = Range(s) \cup {x}
         /\ Distinct(s) /\ x \notin Range(s) => Distinct(Append(s, x))
<1> DEFINE r == Append(s, x)
<1>1. /\ r \in Seq(S) /\ Len(r) = Len(s) + 1 /\ Len(s) \in Nat
      /\ \A i \in 1..Len(s) : r[i] = s[i]
      /\ r[Len(s) + 1] = x
  BY SMTT(60)
<1> HIDE DEF r
<1>2. /\ \A i \in 1..Len(s) : i \in 1..Len(r) /\ i # Len(r)
      /\ \A i \in 1..Len(r) : i # Len(r) => i \in 1..Len(s)
      /\ Len(r) \in 1..Len(r)
  BY SMTT(60), <1>1
<1>3. Range(r) = Range(s) \cup {x}
  <2>1. DOMAIN r = 1..Len(r) /\ DOMAIN s = 1..Len(s)
    BY <1>1, RangeFacts
  <2> QED
    BY <2>1, <1>1, <1>2 DEF Range
<1>4. Distinct(s) /\ x \notin Range(s) => Distinct(r)
  BY SMTT(60), <1>1, <1>2, RangeFacts DEF Distinct
<1>5. r # <<>>
  BY <1>3, EmptyRange
<1> QED
  BY <1>1, <1>3, <1>4, <1>5 DEF r

\* back and pop_back
LEMMA PopFacts ==
  ASSUME NEW S, NEW s \in Seq(S), s # <<>>
  PROVE  /\ Pop(s) \in Seq(S) /\ Len(Pop(s)) = Len(s) - 1
         /\ Top(s) \in Range(s) /\ Top(s) \in S
         /\ Distinct(s) => Distinct(Pop(s)) /\ Range(Pop(s)) = Range(s) \ {Top(s)}
<1> DEFINE r == Pop(s)
           n == Len(s)
<1>0. n \in Nat /\ n > 0
  BY RangeFacts
<1>1. \A i \in 1..n : s[i] \in S
  BY RangeFacts
<1>3. /\ \A i \in 1..(n - 1) : i \in 1..n /\ i # n
      /\ \A i \in 1..n : i # n => i \in 1..(n - 1)
      /\ n \in 1..n
  <2> HIDE DEF n
  <2> QED
    BY SMTT(60), <1>0
<1>2. /\ r \in Seq(S) /\ Len(r) = n - 1
      /\ \A i \in 1..(n - 1) : r[i] = s[i]
  <2>1. 1 \in Int /\ n - 1 \in Int /\ \A i \in 1..(n - 1) : s[i] \in S
    BY SMTT(60), <1>0, <1>1, <1>3
  <2>2. /\ r \in Seq(S) /\ Len(r) = IF 1 <= n - 1 THEN (n - 1) - 1 + 1 ELSE 0
        /\ \A i \in 1..((n - 1) - 1 + 1) : r[i] = s[1 + i - 1]
    BY SMTT(60), <2>1 DEF Pop
  <2>3. /\ (IF 1 <= n - 1 THEN (n - 1) - 1 + 1 ELSE 0) = n - 1 /\ (n - 1) - 1 + 1 = n - 1
        /\ \A i \in 1..(n - 1) : 1 + i - 1 = i
    <3> HIDE DEF n
    <3> QED
      BY SMTT(60), <1>0
  <2> HIDE DEF r, n
  <2> QED
    BY <2>2, <2>3
<1> HIDE DEF r
<1>4. Top(s) \in Range(s) /\ Top(s) \in S
  BY <1>3, RangeFacts DEF Top
<1>5. Distinct(s) => Distinct(r) /\ Range(r) = Range(s) \ {Top(s)}
  <2>1. DOMAIN r = 1..(n - 1) /\ DOMAIN s = 1..n
    BY <1>0, <1>2, RangeFacts
  <2>2. Distinct(s) => Distinct(r)
    BY <1>2, <1>3 DEF Distinct
  <2>3. Distinct(s) => Range(r) = Range(s) \ {s[n]}
    <3> SUFFICES ASSUME Distinct(s) PROVE Range(r) = Range(s) \ {s[n]}
      OBVIOUS
    <3>1. \A i \in 1..(n - 1) : r[i] \in Range(s) \ {s[n]}
      BY <2>1, <1>2, <1>3 DEF Range, Distinct
    <3>2. \A i \in 1..n : s[i] # s[n] => s[i] \in Range(r)
      BY <2>1, <1>2, <1>3 DEF Range
    <3> QED
      BY <2>1, <3>1, <3>2 DEF Range
  <2> QED
    BY <2>2, <2>3 DEF Top
<1> QED
  BY <1>2, <1>4, <1>5 DEF r

\* front and pop_front
LEMMA ShiftFacts ==
  ASSUME NEW S, NEW s \in Seq(S), s # <<>>
  PROVE  /\ Tail(s) \in Seq(S) /\ Len(Tail(s)) = Len(s) - 1
         /\ Head(s) = s[1] /\ \A i \in 1..Len(Tail(s)) : Tail(s)[i] = s[i + 1]
         /\ Head(s) \in Range(s) /\ Head(s) \in S
         /\ Range(Tail(s)) \subseteq Range(s)
         /\ Distinct(s) => Distinct(Tail(s)) /\ Range(Tail(s)) = Range(s) \ {Head(s)}
<1> DEFINE r == Tail(s)
           n == Len(s)
<1>1. n \in Nat /\ n > 0
  BY RangeFacts
<1>2. /\ r \in Seq(S) /\ Len(r) = n - 1 /\ Head(s) = s[1]
      /\ \A i \in 1..(n - 1) : r[i] = s[i + 1]
  BY SMTT(60)
<1> HIDE DEF r
<1>3. /\ \A i \in 1..(n - 1) : i + 1 \in 1..n /\ i + 1 # 1
      /\ \A i \in 1..n : i # 1 => i - 1 \in 1..(n - 1) /\ (i - 1) + 1 = i
      /\ 1 \in 1..n
      /\ \A i, j \in 1..(n - 1) : i + 1 = j + 1 => i = j
  BY SMTT(60), <1>1
<1>4. Head(s) \in Range(s) /\ Head(s) \in S
  BY SMTT(60), <1>2, <1>3, RangeFacts
<1>5. DOMAIN r = 1..(n - 1) /\ DOMAIN s = 1..n
  BY <1>1, <1>2, RangeFacts
<1>6. Range(r) \subseteq Range(s)
  BY SMTT(60), <1>2, <1>3, <1>5 DEF Range
<1>7. Distinct(s) => Distinct(r)
  BY SMTT(60), <1>2, <1>3 DEF Distinct
<1>8. Distinct(s) => Range(r) = Range(s) \ {s[1]}
  <2> SUFFICES ASSUME Distinct(s) PROVE Range(r) = Range(s) \ {s[1]}
    OBVIOUS
  <2>1. \A i \in 1..(n - 1) : r[i] \in Range(s) \ {s[1]}
    BY SMTT(60), <1>2, <1>3, <1>5 DEF Range, Distinct
  <2>2. ASSUME NEW i \in 1..n, s[i] # s[1] PROVE s[i] \in Range(r)
    <3>1. i - 1 \in 1..(n - 1) /\ (i - 1) + 1 = i
      BY <2>2, <1>3
    <3>2. r[i - 1] = s[i]
      BY <3>1, <1>2
    <3> QED
      BY <3>1, <3>2, <1>5 DEF Range
  <2> QED
    BY <2>1, <2>2, <1>5 DEF Range
<1> QED
  BY <1>2, <1>4, <1>6, <1>7, <1>8 DEF r

\* The least of a set of numbers is one of them.
LEMMA LeastIsThere ==
  ASSUME DataLaws, NEW S, S \subseteq Nat, S # {}
  PROVE  Min(S) \in S
BY DEF DataLaws, LawOfLeast

\* One sequence after another
LEMMA ConcatFacts ==
  ASSUME NEW S, NEW a \in Seq(S), NEW b \in Seq(S)
  PROVE  /\ a \o b \in Seq(S) /\ Len(a \o b) = Len(a) + Len(b)
         /\ \A k \in 1..(Len(a) + Len(b)) :
              (a \o b)[k] = IF k <= Len(a) THEN a[k] ELSE b[k - Len(a)]
BY SMTT(60)

\* erase(find(x))
LEMMA WithoutFacts ==
  ASSUME DataLaws, NEW S, NEW s \in Seq(S), NEW x \in Range(s), Distinct(s)
  PROVE  /\ Without(s, x) \in Seq(S) /\ Len(Without(s, x)) = Len(s) - 1
         /\ Distinct(Without(s, x)) /\ Range(Without(s, x)) = Range(s) \ {x}
<1> DEFINE n == Len(s)
           i == Min({j \in DOMAIN s : s[j] = x})
           a == SubSeq(s, 1, i - 1)
           b == SubSeq(s, i + 1, n)
           r == a \o b
<1>1. n \in Nat /\ s \in [1..n -> S] /\ DOMAIN s = 1..n
  BY SMTT(60)
<1>2. i \in 1..n /\ s[i] = x
  <2> DEFINE J == {j \in DOMAIN s : s[j] = x}
  <2>1. J # {}
    BY SMTT(60), RangeFacts
  <2>2. J \subseteq Nat
    BY SMTT(60), <1>1
  <2>3. \A j \in J : j \in 1..n /\ s[j] = x
    BY <1>1
  <2> HIDE DEF J
  <2>4. Min(J) \in J
    BY <2>1, <2>2, LeastIsThere
  <2> QED
    BY <2>3, <2>4 DEF J
<1> HIDE DEF i
<1>3. a \in Seq(S) /\ Len(a) = i - 1 /\ \A k \in 1..(i - 1) : a[k] = s[k]
  <2>1. 1 \in Int /\ i - 1 \in Int /\ \A k \in 1..(i - 1) : k \in 1..n /\ s[k] \in S
    BY SMTT(60), <1>1, <1>2
  <2>2. /\ a \in Seq(S) /\ Len(a) = IF 1 <= i - 1 THEN (i - 1) - 1 + 1 ELSE 0
        /\ \A k \in 1..((i - 1) - 1 + 1) : a[k] = s[1 + k - 1]
    BY SMTT(60), <2>1
  <2> HIDE DEF a
  <2> QED
    BY SMTT(60), <1>2, <2>2
<1>4. b \in Seq(S) /\ Len(b) = n - i /\ \A k \in 1..(n - i) : b[k] = s[i + k]
  <2>1. i + 1 \in Int /\ n \in Int /\ \A k \in (i + 1)..n : k \in 1..n /\ s[k] \in S
    BY SMTT(60), <1>1, <1>2
  <2>2. /\ b \in Seq(S) /\ Len(b) = IF i + 1 <= n THEN n - (i + 1) + 1 ELSE 0
        /\ \A k \in 1..(n - (i + 1) + 1) : b[k] = s[(i + 1) + k - 1]
    BY SMTT(60), <2>1
  <2>3. /\ (IF i + 1 <= n THEN n - (i + 1) + 1 ELSE 0) = n - i /\ n - (i + 1) + 1 = n - i
        /\ \A k \in 1..(n - i) : (i + 1) + k - 1 = i + k
    <3> HIDE DEF n
    <3>1. n \in Nat
      BY <1>1
    <3> QED
      BY SMTT(60), <3>1, <1>2
  <2> HIDE DEF b
  <2> QED
    BY <2>2, <2>3
<1> HIDE DEF a, b
<1>5. /\ r \in Seq(S) /\ Len(r) = Len(a) + Len(b)
      /\ \A k \in 1..(Len(a) + Len(b)) : r[k] = IF k <= Len(a) THEN a[k] ELSE b[k - Len(a)]
  BY <1>3, <1>4, ConcatFacts
<1> HIDE DEF r
<1>6. Len(r) = n - 1 /\ \A k \in 1..(n - 1) : r[k] = IF k < i THEN s[k] ELSE s[k + 1]
  <2> HIDE DEF n
  <2>1. Len(a) + Len(b) = n - 1
    BY SMTT(60), <1>1, <1>2, <1>3, <1>4
  <2>2. ASSUME NEW k \in 1..(n - 1), k < i PROVE r[k] = s[k]
    <3>1. k <= Len(a) /\ k \in 1..(i - 1)
      BY SMTT(60), <2>2, <1>1, <1>2, <1>3
    <3> QED
      BY <3>1, <2>1, <1>3, <1>5
  <2>3. ASSUME NEW k \in 1..(n - 1), ~(k < i) PROVE r[k] = s[k + 1]
    <3>1. ~(k <= Len(a)) /\ k - Len(a) \in 1..(n - i) /\ i + (k - Len(a)) = k + 1
      BY SMTT(60), <2>3, <1>1, <1>2, <1>3
    <3> QED
      BY <3>1, <2>1, <1>4, <1>5
  <2> QED
    BY <2>1, <2>2, <2>3, <1>5
<1> DEFINE Old(k) == IF k < i THEN k ELSE k + 1
<1>7. /\ \A k \in 1..(n - 1) : Old(k) \in 1..n /\ Old(k) # i
      /\ \A k, l \in 1..(n - 1) : Old(k) = Old(l) => k = l
      /\ \A j \in 1..n : j # i => \E k \in 1..(n - 1) : Old(k) = j
  <2>1. \A j \in 1..n : j # i => (j < i /\ j \in 1..(n - 1)) \/ (j - 1 \in 1..(n - 1) /\ ~(j - 1 < i) /\ (j - 1) + 1 = j)
    BY SMTT(60), <1>1, <1>2
  <2>2. /\ \A k \in 1..(n - 1) : Old(k) \in 1..n /\ Old(k) # i
        /\ \A k, l \in 1..(n - 1) : Old(k) = Old(l) => k = l
    BY SMTT(60), <1>1, <1>2
  <2> QED
    BY <2>1, <2>2
<1>8. \A k \in 1..(n - 1) : r[k] = s[Old(k)]
  BY <1>6
<1> HIDE DEF Old
<1>9. DOMAIN r = 1..(n - 1)
  BY <1>5, <1>6, RangeFacts
<1>10. Distinct(r)
  BY SMTT(60), <1>6, <1>7, <1>8 DEF Distinct
<1>11. Range(r) = Range(s) \ {x}
  <2>1. \A k \in 1..(n - 1) : r[k] \in Range(s) \ {x}
    BY SMTT(60), <1>1, <1>2, <1>7, <1>8 DEF Range, Distinct
  <2>2. \A j \in 1..n : s[j] # x => \E k \in 1..(n - 1) : r[k] = s[j]
    BY <1>2, <1>7, <1>8
  <2> QED
    BY SMTT(60), <2>1, <2>2, <1>1, <1>9 DEF Range
<1>12. Without(s, x) = r
  BY DEF Without, r, a, b, i
<1> QED
  BY <1>5, <1>6, <1>10, <1>11, <1>12

-------------------------------------------------------------------------------
(* The heap *)

\* A task leaves the heap.
LEMMA HeapLeaves ==
  ASSUME DataLaws, HeapInv, NEW t \in Active,
         heap' = reset(Erase(heap, expire, t), t), expire' = [expire EXCEPT ![t] = 0]
  PROVE  HeapInv' /\ Active' = Active \ {t}
<1>1. LawOfErase
  BY DEF DataLaws
<1>2. GoodHeap(heap, expire) /\ t \in Members(heap)
  BY DEF HeapInv, Active
<1>3. GoodHeap(heap', expire') /\ Members(heap') = Members(heap) \ {t}
  BY <1>1, <1>2 DEF LawOfErase
<1> QED
  BY <1>3 DEF HeapInv, Active

\* A task enters the heap.
LEMMA HeapEnters ==
  ASSUME DataLaws, HeapInv, NEW t \in Tasks, t \notin Active, NEW d \in Int, heap.size < MaxConcurrent,
         expire' = [expire EXCEPT ![t] = d], heap' = Insert(heap, expire', t)
  PROVE  HeapInv' /\ Active' = Active \cup {t}
<1>1. LawOfInsert
  BY DEF DataLaws
<1>2. GoodHeap(heap, expire) /\ t \notin Members(heap)
  BY DEF HeapInv, Active
<1> DEFINE e == [expire EXCEPT ![t] = d]
<1>3. GoodHeap(Insert(heap, e, t), e) /\ Members(Insert(heap, e, t)) = Members(heap) \cup {t}
  <2>1. \A u \in Tasks, x \in Int : u \notin Members(heap) =>
          /\ GoodHeap(Insert(heap, [expire EXCEPT ![u] = x], u), [expire EXCEPT ![u] = x])
          /\ Members(Insert(heap, [expire EXCEPT ![u] = x], u)) = Members(heap) \cup {u}
    BY <1>1, <1>2 DEF LawOfInsert
  <2> QED
    BY <2>1, <1>2
<1>4. expire' = e /\ heap' = Insert(heap, e, t)
  OBVIOUS
<1> HIDE DEF e
<1> QED
  BY <1>3, <1>4 DEF HeapInv, Active

\* A task under way has a new deadline.
LEMMA HeapChanges ==
  ASSUME DataLaws, HeapInv, NEW t \in Active, NEW d \in Int,
         expire' = [expire EXCEPT ![t] = d], heap' = Updown(heap, expire', t)
  PROVE  HeapInv' /\ Active' = Active
<1>1. LawOfUpdown
  BY DEF DataLaws
<1>2. GoodHeap(heap, expire) /\ t \in Members(heap)
  BY DEF HeapInv, Active
<1>3. GoodHeap(heap', expire') /\ Members(heap') = Members(heap)
  BY <1>1, <1>2 DEF LawOfUpdown
<1> QED
  BY <1>3 DEF HeapInv, Active

\* The second turns: every deadline is as much nearer.
LEMMA HeapTicks ==
  ASSUME DataLaws, HeapInv, Tick
  PROVE  HeapInv' /\ Active' = Active
<1>1. heap' = heap /\ expire' = [t \in Tasks |-> IF t \in Members(heap) THEN expire[t] - Second ELSE 0]
  BY DEF Tick, Active
<1>2. LawOfTick
  BY DEF DataLaws
<1>3. GoodHeap(heap, expire')
  BY <1>1, <1>2 DEF LawOfTick, HeapInv
<1> QED
  BY <1>1, <1>3 DEF HeapInv, Active

-------------------------------------------------------------------------------
(* The tasks *)

\* A blank task
LEMMA BlankFacts ==
  Blank \in TaskRecords /\ Blank.state = "INIT" /\ Blank.fd = None /\ Blank.call = None
BY DEF Blank, TaskRecords, States

\* return_task: the pool takes the task, or it is deleted.
LEMMA ReturnFacts ==
  ASSUME TaskInv, NEW t \in Tasks, t \in live, t \notin Range(m_task_pool), return_task(t)
  PROVE  /\ m_task_pool' \in Seq(Tasks) /\ Distinct(m_task_pool')
         /\ Len(m_task_pool') <= TaskPoolLimit
         /\ Range(m_task_pool') \subseteq Range(m_task_pool) \cup {t}
         /\ Range(m_task_pool') \subseteq live'
         /\ live' \subseteq live /\ live \ {t} \subseteq live'
<1>1. CASE Len(m_task_pool) >= TaskPoolLimit
  <2>1. live' = live \ {t} /\ m_task_pool' = m_task_pool
    BY <1>1 DEF return_task
  <2> QED
    BY <2>1 DEF TaskInv
<1>2. CASE ~(Len(m_task_pool) >= TaskPoolLimit)
  <2>1. live' = live /\ m_task_pool' = Append(m_task_pool, t)
    BY <1>2 DEF return_task
  <2>2. m_task_pool \in Seq(Tasks) /\ Distinct(m_task_pool) /\ Range(m_task_pool) \subseteq live
    BY DEF TaskInv
  <2>3. /\ Append(m_task_pool, t) \in Seq(Tasks) /\ Len(Append(m_task_pool, t)) = Len(m_task_pool) + 1
        /\ Range(Append(m_task_pool, t)) = Range(m_task_pool) \cup {t}
        /\ Distinct(Append(m_task_pool, t))
    BY SMTT(60), <2>2, PushFacts
  <2>4. Len(m_task_pool) \in Nat
    BY <2>2, RangeFacts
  <2>5. Len(m_task_pool) + 1 <= TaskPoolLimit
    BY SMTT(60), <2>4, <1>2, ClientAssumption
  <2> QED
    BY <2>1, <2>2, <2>3, <2>5
<1> QED
  BY <1>1, <1>2

\* The tasks, with task t on descriptor f
WithFd(tasks, t, f) == [tasks EXCEPT ![t].fd = f]

\* A task gets another state,
LEMMA StateSet ==
  ASSUME NEW tasks \in [Tasks -> TaskRecords], NEW t \in Tasks, NEW s \in States
  PROVE  LET z == [tasks EXCEPT ![t].state = s]
         IN /\ z \in [Tasks -> TaskRecords]
            /\ z[t].state = s /\ z[t].fd = tasks[t].fd /\ z[t].call = tasks[t].call
            /\ \A u \in Tasks \ {t} : z[u] = tasks[u]
BY SMTT(60) DEF TaskRecords

\* ... another descriptor,
LEMMA FdSet ==
  ASSUME NEW tasks \in [Tasks -> TaskRecords], NEW t \in Tasks, NEW f \in Fds \cup {None}
  PROVE  LET z == WithFd(tasks, t, f)
         IN /\ z \in [Tasks -> TaskRecords]
            /\ z[t].state = tasks[t].state /\ z[t].fd = f /\ z[t].call = tasks[t].call
            /\ \A u \in Tasks \ {t} : z[u] = tasks[u]
BY SMTT(60) DEF TaskRecords, WithFd

\* ... another call.
LEMMA CallSet ==
  ASSUME NEW tasks \in [Tasks -> TaskRecords], NEW t \in Tasks, NEW c \in Calls \cup {None}
  PROVE  LET z == [tasks EXCEPT ![t].call = c]
         IN /\ z \in [Tasks -> TaskRecords]
            /\ z[t].state = tasks[t].state /\ z[t].fd = tasks[t].fd /\ z[t].call = c
            /\ \A u \in Tasks \ {t} : z[u] = tasks[u]
BY SMTT(60) DEF TaskRecords

\* Fields of a task that ends
LEMMA TaskBlanked ==
  ASSUME task \in [Tasks -> TaskRecords], NEW t \in Tasks, task' = [task EXCEPT ![t] = Blank]
  PROVE  /\ task' \in [Tasks -> TaskRecords] /\ task'[t] = Blank
         /\ \A u \in Tasks \ {t} : task'[u] = task[u]
BY BlankFacts

\* A task under way ends.
LEMMA TaskLeaves ==
  ASSUME TaskInv, NEW t \in Active, Active' = Active \ {t}, task' = [task EXCEPT ![t] = Blank],
         return_task(t), m_task_queue' = m_task_queue
  PROVE  /\ TaskInv' /\ Carriers' = Carriers \ {t}
         /\ \A u \in Tasks \ {t} : task'[u] = task[u]
<1>1. t \in Tasks /\ t \in live /\ t \notin Range(m_task_pool) /\ t \notin Range(m_task_queue)
  BY DEF TaskInv, Carriers
<1>2. /\ m_task_pool' \in Seq(Tasks) /\ Distinct(m_task_pool')
      /\ Len(m_task_pool') <= TaskPoolLimit
      /\ Range(m_task_pool') \subseteq Range(m_task_pool) \cup {t}
      /\ Range(m_task_pool') \subseteq live'
      /\ live' \subseteq live /\ live \ {t} \subseteq live'
  BY <1>1, ReturnFacts
<1>3. /\ task' \in [Tasks -> TaskRecords] /\ task'[t] = Blank
      /\ \A u \in Tasks \ {t} : task'[u] = task[u]
  BY <1>1, TaskBlanked DEF TaskInv
<1>4. Carriers' = Carriers \ {t}
  BY <1>1 DEF Carriers
<1>5. Range(m_task_queue) \subseteq Tasks
  BY RangeFacts DEF TaskInv
<1>6. TaskInv'
  <2>1. m_task_queue' \in Seq(Tasks) /\ live' \subseteq Tasks /\ Active' \subseteq Tasks /\ Distinct(m_task_queue')
    BY <1>2 DEF TaskInv
  <2>2. \A u \in Range(m_task_pool') : u \notin Carriers'
    BY <1>2, <1>4 DEF TaskInv
  <2>3. \A u \in Range(m_task_queue') : u \notin Active'
    BY DEF TaskInv
  <2>4. Carriers' \subseteq live'
    BY <1>2, <1>4 DEF TaskInv
  <2>5. \A u \in Active' : task'[u].state # "INIT" /\ task'[u].fd \in Fds /\ task'[u].call \in Calls
    BY <1>3 DEF TaskInv
  <2>6. \A u \in Range(m_task_queue') :
          task'[u].state = "INIT" /\ task'[u].fd = None /\ task'[u].call \in Calls
    BY SMTT(60), <1>1, <1>3, <1>5 DEF TaskInv
  <2>7. \A u \in Tasks \ Carriers' : task'[u] = Blank
    BY <1>3, <1>4 DEF TaskInv
  <2> QED
    BY <1>2, <1>3, <2>1, <2>2, <2>3, <2>4, <2>5, <2>6, <2>7 DEF TaskInv
<1> QED
  BY <1>3, <1>4, <1>6

\* The task at the head of the queue
LEMMA HeadFacts ==
  ASSUME TaskInv, m_task_queue # <<>>, NEW t, t = Head(m_task_queue),
         m_task_queue' = Tail(m_task_queue)
  PROVE  /\ t \in Range(m_task_queue) /\ t \in Tasks /\ t \in live /\ t \notin Active
         /\ t \notin Range(m_task_pool)
         /\ m_task_queue' \in Seq(Tasks) /\ Distinct(m_task_queue')
         /\ Range(m_task_queue') = Range(m_task_queue) \ {t}
         /\ Range(m_task_queue) \subseteq Tasks
         /\ task[t].state = "INIT" /\ task[t].fd = None /\ task[t].call \in Calls
<1>1. m_task_queue \in Seq(Tasks) /\ Distinct(m_task_queue)
  BY DEF TaskInv
<1>2. /\ t \in Range(m_task_queue) /\ t \in Tasks
      /\ m_task_queue' \in Seq(Tasks) /\ Distinct(m_task_queue')
      /\ Range(m_task_queue') = Range(m_task_queue) \ {t}
  BY <1>1, ShiftFacts
<1>3. Range(m_task_queue) \subseteq Tasks
  BY <1>1, RangeFacts
<1> QED
  BY <1>2, <1>3 DEF TaskInv, Carriers

\* A queued task ends when it cannot be begun.
LEMMA TaskFails ==
  ASSUME TaskInv, m_task_queue # <<>>, NEW t, t = Head(m_task_queue),
         m_task_queue' = Tail(m_task_queue), Active' = Active,
         task' = [task EXCEPT ![t] = Blank], return_task(t)
  PROVE  /\ TaskInv' /\ Carriers' = Carriers \ {t} /\ t \in Carriers
         /\ \A u \in Tasks \ {t} : task'[u] = task[u]
<1>1. /\ t \in Range(m_task_queue) /\ t \in Tasks /\ t \in live /\ t \notin Active
      /\ t \notin Range(m_task_pool)
      /\ m_task_queue' \in Seq(Tasks) /\ Distinct(m_task_queue')
      /\ Range(m_task_queue') = Range(m_task_queue) \ {t}
      /\ Range(m_task_queue) \subseteq Tasks
  BY HeadFacts
<1>2. /\ m_task_pool' \in Seq(Tasks) /\ Distinct(m_task_pool')
      /\ Len(m_task_pool') <= TaskPoolLimit
      /\ Range(m_task_pool') \subseteq Range(m_task_pool) \cup {t}
      /\ Range(m_task_pool') \subseteq live'
      /\ live' \subseteq live /\ live \ {t} \subseteq live'
  BY <1>1, ReturnFacts
<1>3. /\ task' \in [Tasks -> TaskRecords] /\ task'[t] = Blank
      /\ \A u \in Tasks \ {t} : task'[u] = task[u]
  BY <1>1, TaskBlanked DEF TaskInv
<1>4. Carriers' = Carriers \ {t} /\ t \in Carriers
  BY <1>1 DEF Carriers
<1>5. TaskInv'
  <2>1. live' \subseteq Tasks /\ Active' \subseteq Tasks
    BY <1>2 DEF TaskInv
  <2>2. \A u \in Range(m_task_pool') : u \notin Carriers'
    BY <1>2, <1>4 DEF TaskInv
  <2>3. \A u \in Range(m_task_queue') : u \notin Active'
    BY <1>1 DEF TaskInv
  <2>4. Carriers' \subseteq live'
    BY <1>2, <1>4 DEF TaskInv
  <2>5. \A u \in Active' : task'[u].state # "INIT" /\ task'[u].fd \in Fds /\ task'[u].call \in Calls
    BY SMTT(60), <1>1, <1>3 DEF TaskInv
  <2>6. \A u \in Range(m_task_queue') :
          task'[u].state = "INIT" /\ task'[u].fd = None /\ task'[u].call \in Calls
    BY <1>1, <1>3 DEF TaskInv
  <2>7. \A u \in Tasks \ Carriers' : task'[u] = Blank
    BY <1>3, <1>4 DEF TaskInv
  <2> QED
    BY <1>1, <1>2, <1>3, <2>1, <2>2, <2>3, <2>4, <2>5, <2>6, <2>7 DEF TaskInv
<1> QED
  BY <1>3, <1>4, <1>5

\* The tasks, with task t in state s and on descriptor f
Begun(tasks, t, s, f) == [tasks EXCEPT ![t].state = s, ![t].fd = f]

\* A queued task is begun on descriptor f.
LEMMA TaskBegins ==
  ASSUME TaskInv, m_task_queue # <<>>, NEW t, t = Head(m_task_queue),
         m_task_queue' = Tail(m_task_queue), Active' = Active \cup {t},
         NEW f \in Fds, NEW s \in {"CONNECT", "SEND"},
         task' = Begun(task, t, s, f), m_task_pool' = m_task_pool, live' = live
  PROVE  /\ TaskInv' /\ Carriers' = Carriers /\ t \in Tasks \ Active
         /\ task'[t].state = s /\ task'[t].fd = f /\ task'[t].call = task[t].call
         /\ \A u \in Tasks \ {t} : task'[u] = task[u]
<1>1. /\ t \in Range(m_task_queue) /\ t \in Tasks /\ t \in live /\ t \notin Active
      /\ t \notin Range(m_task_pool)
      /\ m_task_queue' \in Seq(Tasks) /\ Distinct(m_task_queue')
      /\ Range(m_task_queue') = Range(m_task_queue) \ {t}
      /\ Range(m_task_queue) \subseteq Tasks
      /\ task[t].call \in Calls
  BY HeadFacts
<1>2. m_task_pool' = m_task_pool /\ live' = live
  OBVIOUS
<1>3. /\ task' \in [Tasks -> TaskRecords]
      /\ task'[t].state = s /\ task'[t].fd = f /\ task'[t].call = task[t].call
      /\ \A u \in Tasks \ {t} : task'[u] = task[u]
  <2> DEFINE z == [task EXCEPT ![t].state = s]
  <2>1. /\ z \in [Tasks -> TaskRecords]
        /\ z[t].state = s /\ z[t].call = task[t].call
        /\ \A u \in Tasks \ {t} : z[u] = task[u]
    <3>1. task \in [Tasks -> TaskRecords] /\ t \in Tasks /\ s \in States
      BY <1>1 DEF TaskInv, States
    <3> QED
      BY SMTT(60), <3>1, StateSet
  <2>2. task' = WithFd(z, t, f)
    BY DEF Begun, WithFd
  <2> HIDE DEF z
  <2>3. /\ task' \in [Tasks -> TaskRecords]
        /\ task'[t].state = z[t].state /\ task'[t].fd = f /\ task'[t].call = z[t].call
        /\ \A u \in Tasks \ {t} : task'[u] = z[u]
    BY SMTT(60), <1>1, <2>1, <2>2, FdSet
  <2> QED
    BY <2>1, <2>3
<1>4. Carriers' = Carriers
  BY <1>1 DEF Carriers
<1>5. TaskInv'
  <2>2. \A u \in Range(m_task_pool') : u \notin Carriers'
    BY <1>2, <1>4 DEF TaskInv
  <2>3. \A u \in Range(m_task_queue') : u \notin Active'
    BY <1>1 DEF TaskInv
  <2>4. Active' \subseteq Tasks
    BY <1>1 DEF TaskInv
  <2>5. \A u \in Active' : task'[u].state # "INIT" /\ task'[u].fd \in Fds /\ task'[u].call \in Calls
    BY SMTT(60), <1>1, <1>3 DEF TaskInv
  <2>6. \A u \in Range(m_task_queue') :
          task'[u].state = "INIT" /\ task'[u].fd = None /\ task'[u].call \in Calls
    BY SMTT(60), <1>1, <1>3 DEF TaskInv
  <2>7. \A u \in Tasks \ Carriers' : task'[u] = Blank
    BY <1>1, <1>3, <1>4 DEF TaskInv, Carriers
  <2> QED
    BY <1>1, <1>2, <1>3, <1>4, <2>2, <2>3, <2>4, <2>5, <2>6, <2>7 DEF TaskInv
<1> QED
  BY <1>1, <1>3, <1>4, <1>5

\* A task under way goes on to another state.
LEMMA TaskEnters ==
  ASSUME TaskInv, NEW t \in Active, Active' = Active, NEW s \in {"SEND", "RECV"},
         task' = [task EXCEPT ![t].state = s], UNCHANGED <<m_task_queue, m_task_pool, live>>
  PROVE  /\ TaskInv' /\ Carriers' = Carriers
         /\ task'[t].state = s /\ task'[t].fd = task[t].fd /\ task'[t].call = task[t].call
         /\ \A u \in Tasks \ {t} : task'[u] = task[u]
<1>1. t \in Tasks /\ t \notin Range(m_task_queue) /\ t \in Carriers
  BY DEF TaskInv, Carriers
<1>2. m_task_pool' = m_task_pool /\ live' = live /\ m_task_queue' = m_task_queue
  OBVIOUS
<1>3. /\ task' \in [Tasks -> TaskRecords]
      /\ task'[t].state = s /\ task'[t].fd = task[t].fd /\ task'[t].call = task[t].call
      /\ \A u \in Tasks \ {t} : task'[u] = task[u]
  BY SMTT(60), <1>1 DEF TaskInv, TaskRecords, States
<1>4. Carriers' = Carriers /\ Range(m_task_queue) \subseteq Tasks /\ s # "INIT"
  BY <1>2, RangeFacts DEF Carriers, TaskInv
<1>5. TaskInv'
  <2>5. \A u \in Active' : task'[u].state # "INIT" /\ task'[u].fd \in Fds /\ task'[u].call \in Calls
    BY <1>1, <1>3, <1>4 DEF TaskInv
  <2>6. \A u \in Range(m_task_queue') :
          task'[u].state = "INIT" /\ task'[u].fd = None /\ task'[u].call \in Calls
    BY <1>1, <1>2, <1>3, <1>4 DEF TaskInv
  <2>7. \A u \in Tasks \ Carriers' : task'[u] = Blank
    BY <1>1, <1>3, <1>4 DEF TaskInv
  <2> QED
    BY <1>2, <1>3, <1>4, <2>5, <2>6, <2>7 DEF TaskInv
<1> QED
  BY <1>3, <1>4, <1>5

\* alloc_task gives out a task that nobody has.
LEMMA Allocated ==
  ASSUME DataLaws, TaskInv, m_task_pool # <<>> \/ Tasks \ live # {},
         NEW t, t = (IF m_task_pool # <<>> THEN Top(m_task_pool) ELSE Min(Tasks \ live)),
         m_task_pool' = (IF m_task_pool # <<>> THEN Pop(m_task_pool) ELSE m_task_pool),
         live' = live \cup {t}
  PROVE  /\ t \in Tasks /\ t \notin Carriers /\ t \notin Range(m_task_pool') /\ task[t] = Blank
         /\ m_task_pool' \in Seq(Tasks) /\ Distinct(m_task_pool')
         /\ Len(m_task_pool') <= TaskPoolLimit
         /\ Range(m_task_pool') \subseteq Range(m_task_pool)
         /\ live' \subseteq Tasks
<1>0. m_task_pool \in Seq(Tasks) /\ Distinct(m_task_pool) /\ Len(m_task_pool) <= TaskPoolLimit
  BY DEF TaskInv
<1>1. CASE m_task_pool # <<>>
  <2>1. t = Top(m_task_pool) /\ m_task_pool' = Pop(m_task_pool)
    BY <1>1
  <2>2. /\ m_task_pool' \in Seq(Tasks) /\ Len(m_task_pool') = Len(m_task_pool) - 1
        /\ t \in Range(m_task_pool) /\ t \in Tasks
        /\ Distinct(m_task_pool') /\ Range(m_task_pool') = Range(m_task_pool) \ {t}
    BY SMTT(60), <2>1, <1>0, <1>1, PopFacts
  <2>3. Len(m_task_pool) \in Nat
    BY <1>0, RangeFacts
  <2>4. Len(m_task_pool') <= TaskPoolLimit
    BY SMTT(60), <2>2, <2>3, <1>0, ClientAssumption
  <2> QED
    BY <2>2, <2>4 DEF TaskInv
<1>2. CASE m_task_pool = <<>>
  <2>1. t = Min(Tasks \ live) /\ m_task_pool' = m_task_pool /\ Tasks \ live # {}
    BY <1>2
  <2>2. Tasks \ live \subseteq Nat
    BY ClientAssumption
  <2>3. t \in Tasks \ live
    BY <2>1, <2>2, LeastIsThere
  <2>4. t \notin Carriers /\ t \notin Range(m_task_pool)
    BY <2>3 DEF TaskInv
  <2> QED
    BY <2>1, <2>3, <2>4, <1>0 DEF TaskInv
<1> QED
  BY <1>1, <1>2

\* Call: a call is accepted, refused after a task was allocated, or refused for want of
\* a task.
LEMMA CallTasks ==
  ASSUME DataLaws, TaskInv, NEW c \in Calls, Call(c)
  PROVE  /\ TaskInv'
         /\ \/ /\ call' = [call EXCEPT ![c] = "refused"]
               /\ Carriers' = Carriers /\ task' = task
            \/ /\ call' = [call EXCEPT ![c] = "accepted"]
               /\ \E t \in Tasks \ Carriers :
                    /\ Carriers' = Carriers \cup {t} /\ task'[t].call = c
                    /\ \A u \in Tasks \ {t} : task'[u] = task[u]
<1>0. heap' = heap /\ Active' = Active
  BY DEF Call, Active
<1>1. CASE /\ m_task_pool = <<>>
           /\ call' = [call EXCEPT ![c] = "refused"]
           /\ UNCHANGED <<m_task_pool, live, task, m_task_queue, pipe>>
  <2>1. /\ m_task_pool' = m_task_pool /\ live' = live /\ task' = task /\ m_task_queue' = m_task_queue
    BY <1>1
  <2>2. Carriers' = Carriers
    BY <2>1, <1>0 DEF Carriers
  <2> QED
    BY <2>1, <2>2, <1>0, <1>1 DEF TaskInv
<1> DEFINE t == IF m_task_pool # <<>> THEN Top(m_task_pool) ELSE Min(Tasks \ live)
<1>2. CASE /\ m_task_pool # <<>> \/ Tasks \ live # {}
           /\ m_task_pool' = IF m_task_pool # <<>> THEN Pop(m_task_pool) ELSE m_task_pool
           /\ live' = live \cup {t}
           /\ \/ /\ task' = [task EXCEPT ![t].call = c]
                 /\ m_task_queue' = Append(m_task_queue, t)
                 /\ call' = [call EXCEPT ![c] = "accepted"]
              \/ /\ call' = [call EXCEPT ![c] = "refused"]
                 /\ task' = task /\ m_task_queue' = m_task_queue
  <2>1. /\ t \in Tasks /\ t \notin Carriers /\ t \notin Range(m_task_pool') /\ task[t] = Blank
        /\ m_task_pool' \in Seq(Tasks) /\ Distinct(m_task_pool')
        /\ Len(m_task_pool') <= TaskPoolLimit
        /\ Range(m_task_pool') \subseteq Range(m_task_pool)
        /\ live' \subseteq Tasks
    BY <1>2, Allocated
  <2> HIDE DEF t
  <2>2. CASE call' = [call EXCEPT ![c] = "refused"] /\ task' = task /\ m_task_queue' = m_task_queue
    <3>1. Carriers' = Carriers
      BY <2>2, <1>0 DEF Carriers
    <3> QED
      BY <2>1, <2>2, <3>1, <1>0, <1>2 DEF TaskInv
  <2>3. CASE /\ task' = [task EXCEPT ![t].call = c]
             /\ m_task_queue' = Append(m_task_queue, t)
             /\ call' = [call EXCEPT ![c] = "accepted"]
    <3>1. /\ task' \in [Tasks -> TaskRecords]
          /\ task'[t].state = task[t].state /\ task'[t].fd = task[t].fd /\ task'[t].call = c
          /\ \A u \in Tasks \ {t} : task'[u] = task[u]
      <4>1. task \in [Tasks -> TaskRecords] /\ c \in Calls \cup {None}
        BY DEF TaskInv
      <4> QED
        BY SMTT(60), <4>1, <2>1, <2>3, CallSet
    <3>2. m_task_queue \in Seq(Tasks) /\ Distinct(m_task_queue) /\ t \notin Range(m_task_queue)
      BY <2>1 DEF TaskInv, Carriers
    <3>3. /\ m_task_queue' \in Seq(Tasks) /\ Distinct(m_task_queue')
          /\ Range(m_task_queue') = Range(m_task_queue) \cup {t}
          /\ Range(m_task_queue) \subseteq Tasks
      BY SMTT(60), <2>1, <2>3, <3>2, PushFacts, RangeFacts
    <3>4. Carriers' = Carriers \cup {t}
      BY <3>3, <1>0 DEF Carriers
    <3>5. Carriers' \subseteq live' /\ Range(m_task_pool') \subseteq live' /\ Active' \subseteq Tasks
      BY <2>1, <3>4, <1>0, <1>2 DEF TaskInv
    <3>6. \A u \in Range(m_task_pool') : u \notin Carriers'
      BY <2>1, <3>4 DEF TaskInv
    <3>7. \A u \in Range(m_task_queue') : u \notin Active'
      BY <2>1, <3>3, <1>0 DEF TaskInv, Carriers
    <3>8. \A u \in Active' : task'[u].state # "INIT" /\ task'[u].fd \in Fds /\ task'[u].call \in Calls
      BY <2>1, <3>1, <1>0 DEF TaskInv, Carriers
    <3>9. \A u \in Range(m_task_queue') :
            task'[u].state = "INIT" /\ task'[u].fd = None /\ task'[u].call \in Calls
      <4>1. task'[t].state = "INIT" /\ task'[t].fd = None /\ task'[t].call \in Calls
        BY <2>1, <3>1, BlankFacts
      <4>2. \A u \in Range(m_task_queue) : u \in Tasks \ {t}
        BY <3>2, <3>3
      <4> QED
        BY <4>1, <4>2, <3>1, <3>3 DEF TaskInv
    <3>10. \A u \in Tasks \ Carriers' : task'[u] = Blank
      BY <3>1, <3>4 DEF TaskInv
    <3>11. TaskInv'
      BY <2>1, <3>1, <3>3, <3>5, <3>6, <3>7, <3>8, <3>9, <3>10 DEF TaskInv
    <3> QED
      BY <2>1, <2>3, <3>1, <3>4, <3>11
  <2> QED
    BY <2>2, <2>3, <1>2
<1> QED
  BY <1>1, <1>2 DEF Call

-------------------------------------------------------------------------------
(* The calls *)

\* Nothing changes for the calls.
LEMMA CallsStay ==
  ASSUME CallInv, Carriers' = Carriers, \A u \in Carriers : task'[u].call = task[u].call,
         call' = call, at' \in Places, at' = "gone" <=> at = "gone"
  PROVE  CallInv'
BY SMTT(60) DEF CallInv

\* The callback that ends a call comes while the call is accepted, and its task leaves.
LEMMA CallEnds ==
  ASSUME CallInv, TaskInv, NEW t \in Carriers, Carriers' = Carriers \ {t},
         \A u \in Carriers \ {t} : task'[u].call = task[u].call,
         Process(t), at # "gone", at' \in Places, at' # "gone"
  PROVE  CallInv'
<1> DEFINE c == task[t].call
<1>1. Carriers \subseteq Tasks /\ c \in Calls
  <2>1. Range(m_task_queue) \subseteq Tasks
    BY RangeFacts DEF TaskInv
  <2> QED
    BY <2>1 DEF TaskInv, Carriers
<1>2. call[c] = "accepted"
  BY <1>1 DEF CallInv
<1>3. call' = [call EXCEPT ![c] = "called back"]
  BY <1>2 DEF Process
<1>4. /\ call' \in [Calls -> Results] /\ call'[c] = "called back"
      /\ \A d \in Calls \ {c} : call'[d] = call[d]
  BY <1>1, <1>3 DEF CallInv, Results
<1>5. \A u \in Carriers \ {t} : task[u].call # c
  BY DEF CallInv
<1> HIDE DEF c
<1>6. \A u, v \in Carriers' : task'[u].call = task'[v].call => u = v
  BY SMTT(60) DEF CallInv
<1>7. ASSUME NEW d \in Calls
      PROVE  (call'[d] = "accepted" /\ at' # "gone") <=> \E u \in Carriers' : task'[u].call = d
  <2>1. CASE d = c
    <3>1. "called back" # "accepted"
      OBVIOUS
    <3> QED
      BY <2>1, <3>1, <1>4, <1>5
  <2>2. CASE d # c
    <3>1. call'[d] = call[d]
      BY <2>2, <1>4
    <3>2. (\E u \in Carriers' : task'[u].call = d) <=> (\E u \in Carriers : task[u].call = d)
      BY <2>2 DEF c
    <3> QED
      BY <3>1, <3>2 DEF CallInv
  <2> QED
    BY <2>1, <2>2
<1> QED
  BY <1>4, <1>6, <1>7 DEF CallInv

\* Call leaves the calls right.
LEMMA CallCalls ==
  ASSUME DataLaws, CallInv, TaskInv, NEW c \in Calls, Call(c)
  PROVE  CallInv'
<1>1. call[c] = "idle" /\ at # "gone" /\ at' = at
  BY DEF Call
<1>2. \A u \in Carriers : task[u].call # c /\ u \in Tasks
  <2>1. Range(m_task_queue) \subseteq Tasks
    BY RangeFacts DEF TaskInv
  <2>2. call[c] # "accepted"
    BY <1>1
  <2> QED
    BY <2>1, <2>2 DEF CallInv, TaskInv, Carriers
<1>3. CASE call' = [call EXCEPT ![c] = "refused"] /\ Carriers' = Carriers /\ task' = task
  <2>1. /\ call' \in [Calls -> Results] /\ call'[c] = "refused"
        /\ \A d \in Calls \ {c} : call'[d] = call[d]
    BY <1>3 DEF CallInv, Results
  <2>2. call'[c] # "accepted"
    BY <2>1
  <2> QED
    BY SMTT(60), <2>1, <2>2, <1>1, <1>2, <1>3 DEF CallInv
<1>4. ASSUME call' = [call EXCEPT ![c] = "accepted"],
             NEW t \in Tasks \ Carriers, Carriers' = Carriers \cup {t}, task'[t].call = c,
             \A u \in Tasks \ {t} : task'[u] = task[u]
      PROVE  CallInv'
  <2>1. /\ call' \in [Calls -> Results] /\ call'[c] = "accepted"
        /\ \A d \in Calls \ {c} : call'[d] = call[d]
    BY <1>4 DEF CallInv, Results
  <2>2. \A u \in Carriers : task'[u] = task[u]
    BY <1>2, <1>4
  <2>3. \A u, v \in Carriers' : task'[u].call = task'[v].call => u = v
    BY SMTT(60), <2>2, <1>2, <1>4 DEF CallInv
  <2>4. ASSUME NEW d \in Calls
        PROVE  (call'[d] = "accepted" /\ at' # "gone") <=> \E u \in Carriers' : task'[u].call = d
    <3>1. CASE d = c
      BY <3>1, <2>1, <1>1, <1>4
    <3>2. CASE d # c
      <4>1. (\E u \in Carriers' : task'[u].call = d) <=> (\E u \in Carriers : task[u].call = d)
        BY <3>2, <2>2, <1>4
      <4> QED
        BY SMTT(60), <3>2, <4>1, <2>1, <1>1 DEF CallInv
    <3> QED
      BY <3>1, <3>2
  <2> QED
    BY <2>1, <2>3, <2>4, <1>1 DEF CallInv
<1> QED
  BY <1>3, <1>4, CallTasks

-------------------------------------------------------------------------------
(* Descriptors, connections kept and monitors *)

\* Handlers of different objects differ.
LEMMA HandlerFacts ==
  /\ \A t, u : TaskHandler(t) = TaskHandler(u) => t = u
  /\ \A g, h : MonitorHandler(g) = MonitorHandler(h) => g = h
  /\ \A t, h : TaskHandler(t) # MonitorHandler(h)
  /\ \A t : TaskHandler(t) # NoHandler
  /\ \A h : MonitorHandler(h) # NoHandler
  /\ \A t : TaskHandler(t).kind = "task" /\ TaskHandler(t).id = t
  /\ \A h : MonitorHandler(h).kind = "monitor" /\ MonitorHandler(h).id = h
  /\ NoHandler.kind = "none"
<1>1. /\ \A t : TaskHandler(t).kind = "task" /\ TaskHandler(t).id = t
      /\ \A h : MonitorHandler(h).kind = "monitor" /\ MonitorHandler(h).id = h
      /\ NoHandler.kind = "none"
  BY DEF TaskHandler, MonitorHandler, NoHandler
<1>2. "task" # "monitor" /\ "task" # "none" /\ "monitor" # "none"
  OBVIOUS
<1> QED
  BY SMTT(60), <1>1, <1>2

\* What m_fd_info holds
LEMMA InfoFacts ==
  /\ \A a \in Addrs, h \in Handlers :
       <<a, h>> \in Addrs \X Handlers /\ <<a, h>> # <<>> /\ <<a, h>>[1] = a /\ <<a, h>>[2] = h
  /\ \A x \in Addrs \X Handlers : x[1] \in Addrs /\ x[2] \in Handlers
BY SMTT(60)

\* The address of a task's call
LEMMA AddrFacts ==
  ASSUME NEW t, task[t].call \in Calls
  PROVE  AddrOf(t) \in Addrs
BY DEF AddrOf, Addrs

\* The descriptor of a task under way is its own.
LEMMA UsedFacts ==
  ASSUME FdInv, TaskInv, NEW t \in Active
  PROVE  /\ t \in Tasks /\ task[t].fd \in Fds /\ AddrOf(t) \in Addrs
         /\ epoll[task[t].fd] = TaskHandler(t)
         /\ m_fd_info[task[t].fd] = <<>>
         /\ \A a \in Addrs : task[t].fd \notin Range(m_fds[a])
         /\ \A u \in Active \ {t} : task[u].fd # task[t].fd /\ u \in Tasks /\ task[u].fd \in Fds
<1>1. t \in Tasks /\ task[t].fd \in Fds /\ AddrOf(t) \in Addrs
  BY AddrFacts DEF TaskInv
<1>2. epoll[task[t].fd] = TaskHandler(t)
  BY DEF FdInv, FdTasks
<1>3. m_fd_info[task[t].fd] = <<>>
  BY SMTT(60), <1>1, <1>2, HandlerFacts DEF FdInv, FdTypes, FdKnown
<1>4. \A a \in Addrs : task[t].fd \notin Range(m_fds[a])
  BY <1>3 DEF FdInv, FdLists
<1>5. \A u \in Active \ {t} : task[u].fd # task[t].fd /\ u \in Tasks /\ task[u].fd \in Fds
  BY SMTT(60), <1>2, HandlerFacts DEF FdInv, FdTasks, TaskInv
<1> QED
  BY <1>1, <1>2, <1>3, <1>4, <1>5

\* Nothing changes for the descriptors.
LEMMA FdStays ==
  ASSUME FdInv, Active' = Active, \A u \in Active : task'[u].fd = task[u].fd,
         UNCHANGED <<m_fds, m_fd_info, monitor, epoll>>
  PROVE  FdInv'
<1>1. m_fds' = m_fds /\ m_fd_info' = m_fd_info /\ monitor' = monitor /\ epoll' = epoll
  OBVIOUS
<1>2. \A t \in Active' : epoll'[task'[t].fd] = TaskHandler(t)
  <2>1. \A t \in Active : epoll[task[t].fd] = TaskHandler(t)
    BY DEF FdInv, FdTasks
  <2> QED
    BY <2>1, <1>1
<1>3. \A f \in Fds, t \in Tasks : epoll'[f] = TaskHandler(t) => t \in Active' /\ task'[t].fd = f
  <2>1. \A f \in Fds, t \in Tasks : epoll[f] = TaskHandler(t) => t \in Active /\ task[t].fd = f
    BY DEF FdInv, FdTasks
  <2> QED
    BY <2>1, <1>1
<1>4. FdTypes /\ FdKnown /\ FdLists /\ FdMonitors /\ FdFree
  BY DEF FdInv
<1>5. FdTypes'
  BY <1>1, <1>4 DEF FdTypes
<1>6. FdKnown' /\ FdMonitors'
  BY SMTT(60), <1>1, <1>4 DEF FdKnown, FdMonitors
<1>7. FdLists' /\ FdFree'
  BY <1>1, <1>4 DEF FdLists, FdFree
<1>8. FdTasks'
  BY <1>2, <1>3 DEF FdTasks
<1> QED
  BY <1>5, <1>6, <1>7, <1>8 DEF FdInv

\* The connection of a task that ends is closed.
LEMMA FdCloses ==
  ASSUME FdInv, TaskInv, NEW t \in Active, Active' = Active \ {t},
         \A u \in Tasks \ {t} : task'[u] = task[u], UNCHANGED <<m_fds, m_fd_info, monitor>>,
         epoll' = [epoll EXCEPT ![task[t].fd] = NoHandler]
  PROVE  FdInv'
<1> DEFINE f == task[t].fd
<1>1. /\ f \in Fds /\ epoll[f] = TaskHandler(t)
      /\ m_fd_info[f] = <<>>
      /\ \A u \in Active \ {t} : task[u].fd # f /\ u \in Tasks /\ task[u].fd \in Fds
  BY UsedFacts
<1>2. /\ epoll' \in [Fds -> EpollHandlers] /\ epoll'[f] = NoHandler
      /\ \A g \in Fds \ {f} : epoll'[g] = epoll[g]
  BY <1>1 DEF FdInv, FdTypes, EpollHandlers
<1>3. m_fds' = m_fds /\ m_fd_info' = m_fd_info /\ monitor' = monitor
  OBVIOUS
<1> HIDE DEF f
<1>4. \A u \in Active' : epoll'[task'[u].fd] = TaskHandler(u)
  BY SMTT(60), <1>1, <1>2 DEF FdInv, FdTasks
<1>5. \A g \in Fds, u \in Tasks : epoll'[g] = TaskHandler(u) => u \in Active' /\ task'[u].fd = g
  <2> SUFFICES ASSUME NEW g \in Fds, NEW u \in Tasks, epoll'[g] = TaskHandler(u)
               PROVE  u \in Active' /\ task'[u].fd = g
    OBVIOUS
  <2>1. g # f /\ epoll[g] = TaskHandler(u)
    BY SMTT(60), <1>2, HandlerFacts
  <2>2. u \in Active /\ task[u].fd = g
    BY <2>1 DEF FdInv, FdTasks
  <2>3. u # t
    BY <2>1, <2>2 DEF f
  <2> QED
    BY <2>2, <2>3
<1>6. \A g \in Fds : m_fd_info'[g] # <<>> => epoll'[g] = MonitorHandler(m_fd_info'[g][2])
  BY SMTT(60), <1>1, <1>2, <1>3 DEF FdInv, FdKnown
<1>7. \A g \in Fds, h \in Handlers :
        epoll'[g] = MonitorHandler(h) => m_fd_info'[g] # <<>> /\ m_fd_info'[g][2] = h
  BY SMTT(60), <1>2, <1>3, HandlerFacts DEF FdInv, FdMonitors
<1>8. FdTypes /\ FdKnown /\ FdLists /\ FdFree
  BY DEF FdInv
<1>9. FdTypes'
  BY <1>8, <1>2, <1>3 DEF FdTypes
<1>10. FdTasks' /\ FdMonitors'
  BY <1>4, <1>5, <1>7 DEF FdTasks, FdMonitors
<1>11. FdKnown'
  BY <1>8, <1>3, <1>6 DEF FdKnown
<1>12. FdLists' /\ FdFree'
  BY SMTT(60), <1>8, <1>3 DEF FdLists, FdFree
<1> QED
  BY <1>9, <1>10, <1>11, <1>12 DEF FdInv

\* A task begins on a new connection.
LEMMA FdOpens ==
  ASSUME FdInv, TaskInv, NEW t \in Tasks \ Active, Active' = Active \cup {t},
         NEW f \in Fds, epoll[f] = NoHandler, task'[t].fd = f,
         \A u \in Tasks \ {t} : task'[u] = task[u], UNCHANGED <<m_fds, m_fd_info, monitor>>,
         epoll' = [epoll EXCEPT ![f] = TaskHandler(t)]
  PROVE  FdInv'
<1>1. /\ epoll' \in [Fds -> EpollHandlers] /\ epoll'[f] = TaskHandler(t)
      /\ \A g \in Fds \ {f} : epoll'[g] = epoll[g]
  BY DEF FdInv, FdTypes, EpollHandlers
<1>2. m_fds' = m_fds /\ m_fd_info' = m_fd_info /\ monitor' = monitor
  OBVIOUS
<1>3. \A u \in Active : task'[u].fd = task[u].fd /\ u \in Tasks /\ task[u].fd \in Fds \ {f}
  BY SMTT(60), HandlerFacts DEF FdInv, FdTasks, TaskInv
<1>4. \A u \in Active' : epoll'[task'[u].fd] = TaskHandler(u)
  BY SMTT(60), <1>1, <1>3 DEF FdInv, FdTasks
<1>5. \A g \in Fds, u \in Tasks : epoll'[g] = TaskHandler(u) => u \in Active' /\ task'[u].fd = g
  <2> SUFFICES ASSUME NEW g \in Fds, NEW u \in Tasks, epoll'[g] = TaskHandler(u)
               PROVE  u \in Active' /\ task'[u].fd = g
    OBVIOUS
  <2>1. CASE g = f
    BY <2>1, <1>1, HandlerFacts
  <2>2. CASE g # f
    <3>1. u \in Active /\ task[u].fd = g
      BY <2>2, <1>1 DEF FdInv, FdTasks
    <3> QED
      BY <3>1, <1>3
  <2> QED
    BY <2>1, <2>2
<1>6. \A g \in Fds : m_fd_info'[g] # <<>> => epoll'[g] = MonitorHandler(m_fd_info'[g][2])
  BY SMTT(60), <1>1, <1>2, HandlerFacts DEF FdInv, FdTypes, FdKnown
<1>7. \A g \in Fds, h \in Handlers :
        epoll'[g] = MonitorHandler(h) => m_fd_info'[g] # <<>> /\ m_fd_info'[g][2] = h
  BY SMTT(60), <1>1, <1>2, HandlerFacts DEF FdInv, FdMonitors
<1>8. FdTypes /\ FdKnown /\ FdLists /\ FdFree
  BY DEF FdInv
<1>9. FdTypes'
  BY <1>8, <1>1, <1>2 DEF FdTypes
<1>10. FdTasks' /\ FdMonitors'
  BY <1>4, <1>5, <1>7 DEF FdTasks, FdMonitors
<1>11. FdKnown'
  BY <1>8, <1>2, <1>6 DEF FdKnown
<1>12. FdLists' /\ FdFree'
  BY SMTT(60), <1>8, <1>2 DEF FdLists, FdFree
<1> QED
  BY <1>9, <1>10, <1>11, <1>12 DEF FdInv

\* There is a monitor for a connection to be kept: those made are in use for others.
LEMMA MonitorLeft ==
  ASSUME DataLaws, FdInv, monitor.free = <<>>, NEW f \in Fds, m_fd_info[f] = <<>>
  PROVE  \E h \in Handlers : monitor.fd[h] = None
<1> SUFFICES ASSUME \A h \in Handlers : monitor.fd[h] # None PROVE FALSE
  OBVIOUS
<1>1. \A h \in Handlers : h \notin Range(monitor.free)
  BY EmptyRange
<1>2. monitor.fd \in [Handlers -> Fds \cup {None}]
  BY DEF FdInv, FdTypes
<1>3. \A h \in Handlers : m_fd_info[monitor.fd[h]] # <<>> /\ m_fd_info[monitor.fd[h]][2] = h
  BY <1>1 DEF FdInv, FdFree
<1>4. monitor.fd \in [Handlers -> Fds \ {f}]
  BY SMTT(60), <1>2, <1>3
<1>5. \A g, h \in Handlers : monitor.fd[g] = monitor.fd[h] => g = h
  BY <1>3
<1>6. LawOfHandlers
  BY DEF DataLaws
<1> QED
  BY SMTT(60), <1>4, <1>5, <1>6 DEF LawOfHandlers

\* A monitor and a list of those that are free, field by field
LEMMA MonitorParts ==
  ASSUME monitor \in [free : Seq(Handlers), fd : [Handlers -> Fds \cup {None}]]
  PROVE  /\ monitor.free \in Seq(Handlers) /\ monitor.fd \in [Handlers -> Fds \cup {None}]
         /\ Range(monitor.free) \subseteq Handlers
<1>1. monitor.free \in Seq(Handlers) /\ monitor.fd \in [Handlers -> Fds \cup {None}]
  OBVIOUS
<1> QED
  BY <1>1, RangeFacts

\* The monitor that return_fd takes: one that is free, or a new one; nobody uses it.
LEMMA MonitorTaken ==
  ASSUME DataLaws, FdInv, NEW f \in Fds, m_fd_info[f] = <<>>,
         NEW h, h = (IF monitor.free # <<>> THEN Top(monitor.free)
                     ELSE Min({x \in Handlers : monitor.fd[x] = None})),
         NEW free, free = (IF monitor.free # <<>> THEN Pop(monitor.free) ELSE monitor.free)
  PROVE  /\ h \in Handlers /\ free \in Seq(Handlers) /\ Distinct(free)
         /\ h \notin Range(free) /\ Range(free) \subseteq Range(monitor.free)
         /\ Range(monitor.free) \subseteq Range(free) \cup {h}
         /\ \A g \in Fds : m_fd_info[g] # <<>> => m_fd_info[g][2] # h
<1>0. monitor.free \in Seq(Handlers) /\ monitor.fd \in [Handlers -> Fds \cup {None}] /\ Distinct(monitor.free)
  BY MonitorParts DEF FdInv, FdTypes, FdFree
<1>1. CASE monitor.free # <<>>
  <2>1. h = Top(monitor.free) /\ free = Pop(monitor.free)
    BY <1>1
  <2>2. /\ free \in Seq(Handlers) /\ h \in Range(monitor.free) /\ h \in Handlers
        /\ Distinct(free) /\ Range(free) = Range(monitor.free) \ {h}
    BY SMTT(60), <2>1, <1>0, <1>1, PopFacts
  <2>3. \A g \in Fds : m_fd_info[g] # <<>> => m_fd_info[g][2] # h
    <3>1. \A g \in Fds : m_fd_info[g] # <<>> => m_fd_info[g][2] \notin Range(monitor.free)
      BY DEF FdInv, FdKnown
    <3> QED
      BY <2>2, <3>1
  <2> QED
    BY <2>2, <2>3
<1>2. CASE monitor.free = <<>>
  <2>1. h = Min({x \in Handlers : monitor.fd[x] = None}) /\ free = <<>>
    BY <1>2
  <2>2. h \in {x \in Handlers : monitor.fd[x] = None}
    <3> DEFINE X == {x \in Handlers : monitor.fd[x] = None}
    <3>1. X # {}
      BY <1>2, MonitorLeft
    <3>2. X \subseteq Nat
      BY ClientAssumption
    <3>3. h = Min(X)
      BY <2>1
    <3> HIDE DEF X
    <3>4. h \in X
      BY <3>1, <3>2, <3>3, LeastIsThere
    <3> QED
      BY <3>4 DEF X
  <2>3. None \notin Fds
    BY ClientAssumption DEF None
  <2>4. \A g \in Fds : m_fd_info[g] # <<>> => m_fd_info[g][2] # h
    <3>1. monitor.fd[h] = None
      BY <2>2
    <3>2. \A g \in Fds : m_fd_info[g] # <<>> => monitor.fd[m_fd_info[g][2]] = g
      BY DEF FdInv, FdKnown
    <3> QED
      BY <3>1, <3>2, <2>3
  <2>5. Range(free) = {} /\ Range(monitor.free) = {} /\ free \in Seq(Handlers) /\ Distinct(free)
    BY <2>1, <1>2, EmptyRange
  <2> QED
    BY <2>2, <2>4, <2>5
<1> QED
  BY <1>1, <1>2

\* The connection of a task that ends is kept.
LEMMA FdKept ==
  ASSUME DataLaws, FdInv, TaskInv, NEW t \in Active, Active' = Active \ {t},
         \A u \in Tasks \ {t} : task'[u] = task[u], NEW net,
         Len(m_fds[AddrOf(t)]) < MaxConcurrent, return_fd(AddrOf(t), task[t].fd, net)
  PROVE  /\ FdInv' /\ conn' = net /\ epoll'[task[t].fd] # NoHandler
         /\ \A g \in Fds \ {task[t].fd} : epoll'[g] = epoll[g]
<1> DEFINE f == task[t].fd
           a == AddrOf(t)
           h == IF monitor.free # <<>> THEN Top(monitor.free)
                ELSE Min({x \in Handlers : monitor.fd[x] = None})
           free == IF monitor.free # <<>> THEN Pop(monitor.free) ELSE monitor.free
<1>1. /\ f \in Fds /\ a \in Addrs /\ epoll[f] = TaskHandler(t)
      /\ m_fd_info[f] = <<>>
      /\ \A b \in Addrs : f \notin Range(m_fds[b])
      /\ \A u \in Active \ {t} : task[u].fd # f /\ u \in Tasks /\ task[u].fd \in Fds
  BY UsedFacts
<1>2. /\ m_fds' = [m_fds EXCEPT ![a] = Append(@, f)]
      /\ m_fd_info' = [m_fd_info EXCEPT ![f] = <<a, h>>]
      /\ monitor' = [free |-> free, fd |-> [monitor.fd EXCEPT ![h] = f]]
      /\ epoll' = [epoll EXCEPT ![f] = MonitorHandler(h)]
      /\ conn' = net
  BY DEF return_fd
<1>3. /\ h \in Handlers /\ free \in Seq(Handlers) /\ Distinct(free)
      /\ h \notin Range(free) /\ Range(free) \subseteq Range(monitor.free)
      /\ Range(monitor.free) \subseteq Range(free) \cup {h}
      /\ \A g \in Fds : m_fd_info[g] # <<>> => m_fd_info[g][2] # h
  BY <1>1, MonitorTaken
<1>4. f # None
  BY <1>1, ClientAssumption DEF None
<1>5. Len(m_fds[a]) < MaxConcurrent
  OBVIOUS
<1> HIDE DEF f, a, h, free
<1>6. /\ epoll' \in [Fds -> EpollHandlers] /\ epoll'[f] = MonitorHandler(h)
      /\ \A g \in Fds \ {f} : epoll'[g] = epoll[g]
  BY <1>1, <1>2, <1>3 DEF FdInv, FdTypes, EpollHandlers
<1>7. /\ m_fd_info' \in [Fds -> {<<>>} \cup (Addrs \X Handlers)] /\ m_fd_info'[f] = <<a, h>>
      /\ m_fd_info'[f] # <<>> /\ m_fd_info'[f][1] = a /\ m_fd_info'[f][2] = h
      /\ \A g \in Fds \ {f} : m_fd_info'[g] = m_fd_info[g]
  <2>1. /\ <<a, h>> \in Addrs \X Handlers /\ <<a, h>> # <<>> /\ <<a, h>>[1] = a /\ <<a, h>>[2] = h
    BY <1>1, <1>3, InfoFacts
  <2>2. /\ m_fd_info' \in [Fds -> {<<>>} \cup (Addrs \X Handlers)] /\ m_fd_info'[f] = <<a, h>>
        /\ \A g \in Fds \ {f} : m_fd_info'[g] = m_fd_info[g]
    BY <2>1, <1>1, <1>2 DEF FdInv, FdTypes
  <2> QED
    BY <2>1, <2>2
<1>8. monitor.fd \in [Handlers -> Fds \cup {None}]
  BY MonitorParts DEF FdInv, FdTypes
<1>9. /\ monitor'.free = free /\ monitor'.fd[h] = f
      /\ \A x \in Handlers \ {h} : monitor'.fd[x] = monitor.fd[x]
      /\ monitor'.fd \in [Handlers -> Fds \cup {None}]
      /\ monitor' \in [free : Seq(Handlers), fd : [Handlers -> Fds \cup {None}]]
  <2> DEFINE fds == [monitor.fd EXCEPT ![h] = f]
  <2>1. /\ fds \in [Handlers -> Fds \cup {None}] /\ fds[h] = f
        /\ \A x \in Handlers \ {h} : fds[x] = monitor.fd[x]
    BY <1>1, <1>3, <1>8
  <2>2. monitor' = [free |-> free, fd |-> fds]
    BY <1>2
  <2> HIDE DEF fds
  <2>3. monitor'.free = free /\ monitor'.fd = fds
    BY <2>2
  <2>4. monitor' \in [free : Seq(Handlers), fd : [Handlers -> Fds \cup {None}]]
    BY <2>1, <2>2, <1>3
  <2> QED
    BY <2>1, <2>3, <2>4
<1>10. /\ m_fds' \in [Addrs -> Seq(Fds)]
       /\ Distinct(m_fds'[a]) /\ Len(m_fds'[a]) <= MaxConcurrent
       /\ Range(m_fds'[a]) = Range(m_fds[a]) \cup {f}
       /\ \A b \in Addrs \ {a} : m_fds'[b] = m_fds[b]
  <2>1. m_fds[a] \in Seq(Fds) /\ Distinct(m_fds[a]) /\ f \notin Range(m_fds[a])
    BY <1>1 DEF FdInv, FdTypes, FdLists
  <2>2. /\ Append(m_fds[a], f) \in Seq(Fds) /\ Distinct(Append(m_fds[a], f))
        /\ Len(Append(m_fds[a], f)) = Len(m_fds[a]) + 1
        /\ Range(Append(m_fds[a], f)) = Range(m_fds[a]) \cup {f}
    BY SMTT(60), <2>1, <1>1, PushFacts
  <2>3. Len(m_fds[a]) \in Nat
    BY <2>1, RangeFacts
  <2>4. Len(m_fds[a]) + 1 <= MaxConcurrent
    BY SMTT(60), <2>3, <1>5, ClientAssumption
  <2>5. /\ m_fds' \in [Addrs -> Seq(Fds)] /\ m_fds'[a] = Append(m_fds[a], f)
        /\ \A b \in Addrs \ {a} : m_fds'[b] = m_fds[b]
    BY <2>2, <1>1, <1>2 DEF FdInv, FdTypes
  <2> QED
    BY <2>2, <2>4, <2>5
<1>11. \A u \in Active' : epoll'[task'[u].fd] = TaskHandler(u)
  BY SMTT(60), <1>1, <1>6 DEF FdInv, FdTasks
<1>12. \A g \in Fds, u \in Tasks : epoll'[g] = TaskHandler(u) => u \in Active' /\ task'[u].fd = g
  <2> SUFFICES ASSUME NEW g \in Fds, NEW u \in Tasks, epoll'[g] = TaskHandler(u)
               PROVE  u \in Active' /\ task'[u].fd = g
    OBVIOUS
  <2>1. g # f /\ epoll[g] = TaskHandler(u)
    BY <1>6, HandlerFacts
  <2>2. u \in Active /\ task[u].fd = g
    BY <2>1 DEF FdInv, FdTasks
  <2>3. u # t
    BY <2>1, <2>2 DEF f
  <2> QED
    BY <2>2, <2>3
<1>13. ASSUME NEW g \in Fds, m_fd_info'[g] # <<>>
       PROVE  /\ g \in Range(m_fds'[m_fd_info'[g][1]])
              /\ epoll'[g] = MonitorHandler(m_fd_info'[g][2])
              /\ monitor'.fd[m_fd_info'[g][2]] = g
              /\ m_fd_info'[g][2] \notin Range(monitor'.free)
  <2>1. CASE g = f
    BY <2>1, <1>3, <1>6, <1>7, <1>9, <1>10
  <2>2. CASE g # f
    <3>1. m_fd_info'[g] = m_fd_info[g] /\ m_fd_info[g] # <<>>
      BY <2>2, <1>7, <1>13
    <3>2. m_fd_info[g] \in Addrs \X Handlers
      BY <3>1 DEF FdInv, FdTypes
    <3>3. m_fd_info[g][1] \in Addrs /\ m_fd_info[g][2] \in Handlers \ {h}
      BY <3>1, <3>2, <1>3, InfoFacts
    <3>4. /\ g \in Range(m_fds[m_fd_info[g][1]]) /\ epoll[g] = MonitorHandler(m_fd_info[g][2])
          /\ monitor.fd[m_fd_info[g][2]] = g /\ m_fd_info[g][2] \notin Range(monitor.free)
      BY <3>1 DEF FdInv, FdKnown
    <3>5. g \in Range(m_fds'[m_fd_info[g][1]])
      BY <3>3, <3>4, <1>10
    <3> QED
      BY SMTT(60), <2>2, <3>1, <3>3, <3>4, <3>5, <1>3, <1>6, <1>9
  <2> QED
    BY <2>1, <2>2
<1>14. ASSUME NEW b \in Addrs
       PROVE  /\ Distinct(m_fds'[b]) /\ Len(m_fds'[b]) <= MaxConcurrent
              /\ \A g \in Range(m_fds'[b]) : m_fd_info'[g] # <<>> /\ m_fd_info'[g][1] = b
  <2>1. \A g \in Range(m_fds[b]) : g \in Fds \ {f} /\ m_fd_info[g] # <<>> /\ m_fd_info[g][1] = b
    BY SMTT(60), <1>1, RangeFacts DEF FdInv, FdTypes, FdLists
  <2>2. CASE b = a
    BY ZenonT(60), <2>1, <2>2, <1>7, <1>10
  <2>3. CASE b # a
    BY <2>1, <2>3, <1>7, <1>10 DEF FdInv, FdLists
  <2> QED
    BY <2>2, <2>3
<1>15. \A g \in Fds, x \in Handlers :
         epoll'[g] = MonitorHandler(x) => m_fd_info'[g] # <<>> /\ m_fd_info'[g][2] = x
  <2> SUFFICES ASSUME NEW g \in Fds, NEW x \in Handlers, epoll'[g] = MonitorHandler(x)
               PROVE  m_fd_info'[g] # <<>> /\ m_fd_info'[g][2] = x
    OBVIOUS
  <2>1. CASE g = f
    <3>1. MonitorHandler(h) = MonitorHandler(x)
      BY <2>1, <1>6
    <3>2. h = x
      BY <3>1, HandlerFacts
    <3> QED
      BY <2>1, <3>2, <1>7
  <2>2. CASE g # f
    BY SMTT(60), <2>2, <1>6, <1>7 DEF FdInv, FdMonitors
  <2> QED
    BY <2>1, <2>2
<1>16. \A x \in Range(monitor'.free) : monitor'.fd[x] # None
  <2>1. \A x \in Range(free) : x \in Handlers \ {h} /\ monitor.fd[x] # None
    BY <1>3, MonitorParts DEF FdInv, FdTypes, FdFree
  <2> QED
    BY <2>1, <1>9
<1>17. \A x \in Handlers : monitor'.fd[x] # None /\ x \notin Range(monitor'.free) =>
         m_fd_info'[monitor'.fd[x]] # <<>> /\ m_fd_info'[monitor'.fd[x]][2] = x
  <2> SUFFICES ASSUME NEW x \in Handlers, monitor'.fd[x] # None, x \notin Range(monitor'.free)
               PROVE  m_fd_info'[monitor'.fd[x]] # <<>> /\ m_fd_info'[monitor'.fd[x]][2] = x
    OBVIOUS
  <2>1. CASE x = h
    BY <2>1, <1>7, <1>9
  <2>2. CASE x # h
    <3>1. monitor'.fd[x] = monitor.fd[x] /\ x \notin Range(monitor.free)
      BY <2>2, <1>3, <1>9
    <3>2. m_fd_info[monitor.fd[x]] # <<>> /\ m_fd_info[monitor.fd[x]][2] = x /\ monitor.fd[x] \in Fds
      BY <3>1, <1>8 DEF FdInv, FdFree
    <3> QED
      BY <3>1, <3>2, <1>1, <1>7
  <2> QED
    BY <2>1, <2>2
<1>18. FdInv'
  <2>1. FdTypes'
    BY <1>6, <1>7, <1>9, <1>10 DEF FdTypes
  <2>2. FdTasks' /\ FdMonitors'
    BY <1>11, <1>12, <1>15 DEF FdTasks, FdMonitors
  <2>3. FdKnown'
    BY <1>13 DEF FdKnown
  <2>4. FdLists'
    BY <1>14 DEF FdLists
  <2>5. FdFree'
    BY <1>3, <1>9, <1>16, <1>17 DEF FdFree
  <2> QED
    BY <2>1, <2>2, <2>3, <2>4, <2>5 DEF FdInv
<1> QED
  BY <1>2, <1>6, <1>18, HandlerFacts DEF f

\* A monitor is added to those that are free.
LEMMA MonitorFreed ==
  ASSUME NEW m \in [free : Seq(Handlers), fd : [Handlers -> Fds \cup {None}]], NEW w \in Seq(Handlers)
  PROVE  LET z == [m EXCEPT !.free = w]
         IN  /\ z \in [free : Seq(Handlers), fd : [Handlers -> Fds \cup {None}]]
             /\ z.free = w /\ z.fd = m.fd
BY SMTT(60)

\* A connection leaves those kept, and its monitor is free, whoever epoll calls then,
\* if that is not a monitor.
LEMMA FdLeavesPool ==
  ASSUME FdInv, NEW f \in Fds, m_fd_info[f] # <<>>,
         NEW a, a = m_fd_info[f][1], NEW h, h = m_fd_info[f][2],
         NEW s \in Seq(Fds), Distinct(s), Len(s) <= MaxConcurrent, Range(s) = Range(m_fds[a]) \ {f},
         m_fds' = [m_fds EXCEPT ![a] = s], m_fd_info' = [m_fd_info EXCEPT ![f] = <<>>],
         monitor' = [monitor EXCEPT !.free = Append(@, h)],
         NEW x \in EpollHandlers, epoll' = [epoll EXCEPT ![f] = x], \A y \in Handlers : x # MonitorHandler(y),
         \A u \in Active' : epoll'[task'[u].fd] = TaskHandler(u),
         \A g \in Fds, u \in Tasks : epoll'[g] = TaskHandler(u) => u \in Active' /\ task'[u].fd = g
  PROVE  FdInv'
<1>1. a \in Addrs /\ h \in Handlers /\ f \in Range(m_fds[a]) /\ epoll[f] = MonitorHandler(h)
      /\ monitor.fd[h] = f /\ h \notin Range(monitor.free)
  <2>1. m_fd_info[f] \in Addrs \X Handlers
    BY DEF FdInv, FdTypes
  <2> QED
    BY <2>1, InfoFacts DEF FdInv, FdKnown
<1>2. /\ monitor.free \in Seq(Handlers) /\ monitor.fd \in [Handlers -> Fds \cup {None}]
      /\ Range(monitor.free) \subseteq Handlers /\ Distinct(monitor.free)
  BY MonitorParts DEF FdInv, FdTypes, FdFree
<1>3. /\ monitor'.free = Append(monitor.free, h) /\ monitor'.fd = monitor.fd
      /\ monitor' \in [free : Seq(Handlers), fd : [Handlers -> Fds \cup {None}]]
  <2> DEFINE w == Append(monitor.free, h)
  <2>1. w \in Seq(Handlers)
    BY <1>1, <1>2, PushFacts
  <2>2. monitor' = [monitor EXCEPT !.free = w] /\ monitor \in [free : Seq(Handlers), fd : [Handlers -> Fds \cup {None}]]
    BY DEF FdInv, FdTypes
  <2> HIDE DEF w
  <2>3. /\ monitor'.free = w /\ monitor'.fd = monitor.fd
        /\ monitor' \in [free : Seq(Handlers), fd : [Handlers -> Fds \cup {None}]]
    BY <2>1, <2>2, MonitorFreed
  <2> QED
    BY <2>3 DEF w
<1>4. Distinct(monitor'.free) /\ Range(monitor'.free) = Range(monitor.free) \cup {h}
  BY SMTT(60), <1>1, <1>2, <1>3, PushFacts
<1>5. /\ epoll' \in [Fds -> EpollHandlers] /\ epoll'[f] = x
      /\ \A g \in Fds \ {f} : epoll'[g] = epoll[g]
  BY DEF FdInv, FdTypes
<1>6. /\ m_fd_info' \in [Fds -> {<<>>} \cup (Addrs \X Handlers)] /\ m_fd_info'[f] = <<>>
      /\ \A g \in Fds \ {f} : m_fd_info'[g] = m_fd_info[g]
  BY DEF FdInv, FdTypes
<1>7. /\ m_fds' \in [Addrs -> Seq(Fds)] /\ m_fds'[a] = s
      /\ \A b \in Addrs \ {a} : m_fds'[b] = m_fds[b]
  BY <1>1 DEF FdInv, FdTypes
<1>8. ASSUME NEW g \in Fds, m_fd_info'[g] # <<>>
      PROVE  /\ g \in Range(m_fds'[m_fd_info'[g][1]])
             /\ epoll'[g] = MonitorHandler(m_fd_info'[g][2])
             /\ monitor'.fd[m_fd_info'[g][2]] = g
             /\ m_fd_info'[g][2] \notin Range(monitor'.free)
  <2>1. g # f /\ m_fd_info'[g] = m_fd_info[g] /\ m_fd_info[g] # <<>>
    BY <1>6, <1>8
  <2>2. m_fd_info[g] \in Addrs \X Handlers
    BY <2>1 DEF FdInv, FdTypes
  <2>3. m_fd_info[g][1] \in Addrs /\ m_fd_info[g][2] \in Handlers
    BY <2>2, InfoFacts
  <2>4. /\ g \in Range(m_fds[m_fd_info[g][1]]) /\ epoll[g] = MonitorHandler(m_fd_info[g][2])
        /\ monitor.fd[m_fd_info[g][2]] = g /\ m_fd_info[g][2] \notin Range(monitor.free)
    BY <2>1 DEF FdInv, FdKnown
  <2>5. m_fd_info[g][2] # h
    BY <2>1, <2>4, <1>1
  <2>6. g \in Range(m_fds'[m_fd_info[g][1]])
    BY <2>1, <2>3, <2>4, <1>7
  <2> QED
    BY <2>1, <2>4, <2>5, <2>6, <1>3, <1>4, <1>5
<1>9. ASSUME NEW b \in Addrs
      PROVE  /\ Distinct(m_fds'[b]) /\ Len(m_fds'[b]) <= MaxConcurrent
             /\ \A g \in Range(m_fds'[b]) : m_fd_info'[g] # <<>> /\ m_fd_info'[g][1] = b
  <2>1. \A g \in Range(m_fds[b]) : g \in Fds /\ m_fd_info[g] # <<>> /\ m_fd_info[g][1] = b
    BY SMTT(60), RangeFacts DEF FdInv, FdTypes, FdLists
  <2>2. CASE b = a
    BY <2>1, <2>2, <1>6, <1>7
  <2>3. CASE b # a
    <3>1. \A g \in Range(m_fds[b]) : g # f
      BY <2>1, <2>3
    <3>2. m_fds'[b] = m_fds[b] /\ Distinct(m_fds[b]) /\ Len(m_fds[b]) <= MaxConcurrent
      BY <2>3, <1>7 DEF FdInv, FdLists
    <3> QED
      BY <2>1, <3>1, <3>2, <1>6
  <2> QED
    BY <2>2, <2>3
<1>10. \A g \in Fds, y \in Handlers :
         epoll'[g] = MonitorHandler(y) => m_fd_info'[g] # <<>> /\ m_fd_info'[g][2] = y
  <2> SUFFICES ASSUME NEW g \in Fds, NEW y \in Handlers, epoll'[g] = MonitorHandler(y)
               PROVE  m_fd_info'[g] # <<>> /\ m_fd_info'[g][2] = y
    OBVIOUS
  <2>1. g # f
    BY <1>5
  <2>2. epoll[g] = MonitorHandler(y) /\ m_fd_info'[g] = m_fd_info[g]
    BY <2>1, <1>5, <1>6
  <2> QED
    BY SMTT(60), <2>2 DEF FdInv, FdMonitors
<1>11. \A y \in Range(monitor'.free) : monitor'.fd[y] # None
  <2>1. f # None
    BY ClientAssumption DEF None
  <2> QED
    BY <2>1, <1>1, <1>3, <1>4 DEF FdInv, FdFree
<1>12. \A y \in Handlers : monitor'.fd[y] # None /\ y \notin Range(monitor'.free) =>
         m_fd_info'[monitor'.fd[y]] # <<>> /\ m_fd_info'[monitor'.fd[y]][2] = y
  <2> SUFFICES ASSUME NEW y \in Handlers, monitor'.fd[y] # None, y \notin Range(monitor'.free)
               PROVE  m_fd_info'[monitor'.fd[y]] # <<>> /\ m_fd_info'[monitor'.fd[y]][2] = y
    OBVIOUS
  <2>1. y # h /\ y \notin Range(monitor.free) /\ monitor'.fd[y] = monitor.fd[y] /\ monitor.fd[y] \in Fds
    BY <1>2, <1>3, <1>4
  <2>2. m_fd_info[monitor.fd[y]] # <<>> /\ m_fd_info[monitor.fd[y]][2] = y
    BY <2>1 DEF FdInv, FdFree
  <2>3. monitor.fd[y] # f
    BY <2>1, <2>2
  <2> QED
    BY <2>1, <2>2, <2>3, <1>6
<1>13. FdTypes'
  BY <1>3, <1>5, <1>6, <1>7 DEF FdTypes
<1>14. FdTasks' /\ FdMonitors'
  BY <1>10 DEF FdTasks, FdMonitors
<1>15. FdKnown'
  BY <1>8 DEF FdKnown
<1>16. FdLists'
  BY <1>9 DEF FdLists
<1>17. FdFree'
  BY <1>4, <1>11, <1>12 DEF FdFree
<1> QED
  BY <1>13, <1>14, <1>15, <1>16, <1>17 DEF FdInv

\* A connection kept is taken for a task.
LEMMA FdTaken ==
  ASSUME FdInv, TaskInv, NEW t \in Tasks \ Active, Active' = Active \cup {t}, AddrOf(t) \in Addrs,
         TakeKept(t), task'[t].fd = Top(m_fds[AddrOf(t)]), \A u \in Tasks \ {t} : task'[u] = task[u]
  PROVE  LET f == Top(m_fds[AddrOf(t)])
         IN  FdInv' /\ f \in Fds /\ m_fd_info[f] # <<>> /\ epoll' = [epoll EXCEPT ![f] = TaskHandler(t)]
<1> DEFINE a == AddrOf(t)
           f == Top(m_fds[a])
           s == Pop(m_fds[a])
           h == m_fd_info[f][2]
           x == TaskHandler(t)
<1>0. /\ m_fds[a] # <<>> /\ m_fds' = [m_fds EXCEPT ![a] = s] /\ m_fd_info' = [m_fd_info EXCEPT ![f] = <<>>]
      /\ monitor' = [monitor EXCEPT !.free = Append(@, h)] /\ epoll' = [epoll EXCEPT ![f] = x]
  BY DEF TakeKept, Begin
<1>1. m_fds[a] \in Seq(Fds) /\ Distinct(m_fds[a]) /\ Len(m_fds[a]) <= MaxConcurrent /\ Len(m_fds[a]) \in Nat
  BY RangeFacts DEF FdInv, FdTypes, FdLists
<1>2. /\ s \in Seq(Fds) /\ Distinct(s) /\ Range(s) = Range(m_fds[a]) \ {f}
      /\ f \in Range(m_fds[a]) /\ f \in Fds /\ Len(s) = Len(m_fds[a]) - 1
  BY <1>0, <1>1, PopFacts
<1>3. Len(s) <= MaxConcurrent
  <2> DEFINE n == Len(m_fds[a])
             k == Len(s)
  <2>1. n \in Nat /\ n <= MaxConcurrent /\ k = n - 1
    BY <1>1, <1>2
  <2> HIDE DEF n, k
  <2>2. k <= MaxConcurrent
    BY SMTT(60), <2>1, ClientAssumption
  <2> QED
    BY <2>2 DEF k
<1>4. m_fd_info[f] # <<>> /\ a = m_fd_info[f][1]
  BY <1>2 DEF FdInv, FdLists
<1>6. TaskHandler(t) \in EpollHandlers /\ \A y \in Handlers : TaskHandler(t) # MonitorHandler(y)
  BY HandlerFacts DEF EpollHandlers
<1>7. epoll'[f] = TaskHandler(t) /\ \A g \in Fds \ {f} : epoll'[g] = epoll[g]
  BY <1>0, <1>2 DEF FdInv, FdTypes
<1>8. epoll[f] = MonitorHandler(m_fd_info[f][2])
  BY <1>2, <1>4 DEF FdInv, FdKnown
<1>9. \A u \in Active : u # t /\ u \in Tasks /\ task[u].fd \in Fds \ {f} /\ epoll[task[u].fd] = TaskHandler(u)
  BY SMTT(60), <1>8, HandlerFacts DEF FdInv, FdTasks, TaskInv
<1>10. \A u \in Active' : epoll'[task'[u].fd] = TaskHandler(u)
  BY <1>7, <1>9
<1>11. \A g \in Fds, u \in Tasks : epoll'[g] = TaskHandler(u) => u \in Active' /\ task'[u].fd = g
  <2> SUFFICES ASSUME NEW g \in Fds, NEW u \in Tasks, epoll'[g] = TaskHandler(u)
               PROVE  u \in Active' /\ task'[u].fd = g
    OBVIOUS
  <2>1. CASE g = f
    <3>1. TaskHandler(t) = TaskHandler(u)
      BY <2>1, <1>7
    <3>2. t = u
      BY <3>1, HandlerFacts
    <3> QED
      BY <2>1, <3>2
  <2>2. CASE g # f
    <3>1. u \in Active /\ task[u].fd = g
      BY <2>2, <1>7 DEF FdInv, FdTasks
    <3> QED
      BY <3>1
  <2> QED
    BY <2>1, <2>2
<1>12. x \in EpollHandlers /\ \A y \in Handlers : x # MonitorHandler(y)
  BY <1>6
<1>13. h = m_fd_info[f][2] /\ a \in Addrs
  OBVIOUS
<1> HIDE DEF a, s, f, h, x
<1>14. FdInv'
  BY <1>0, <1>2, <1>3, <1>4, <1>10, <1>11, <1>12, <1>13, FdLeavesPool
<1> QED
  BY <1>0, <1>2, <1>4, <1>14 DEF f, a, x

\* A connection kept is closed by its server: the event is for its own monitor.
LEMMA FdMonitored ==
  ASSUME DataLaws, FdInv, TaskInv, NEW f \in Fds, NEW h \in Handlers, epoll[f] = MonitorHandler(h),
         Active' = Active, MonitorEvent(h)
  PROVE  /\ FdInv' /\ m_fd_info[f] # <<>> /\ conn' = [conn EXCEPT ![f] = NoConn]
         /\ epoll' = [epoll EXCEPT ![f] = NoHandler]
<1>1. m_fd_info[f] # <<>> /\ m_fd_info[f][2] = h
  BY DEF FdInv, FdMonitors
<1>2. monitor.fd[h] = f /\ f \in Range(m_fds[m_fd_info[f][1]])
  BY <1>1 DEF FdInv, FdKnown
<1> DEFINE a == m_fd_info[f][1]
           s == Without(m_fds[a], f)
           x == NoHandler
<1>3. /\ epoll' = [epoll EXCEPT ![f] = NoHandler] /\ conn' = [conn EXCEPT ![f] = NoConn]
      /\ m_fds' = [m_fds EXCEPT ![a] = s] /\ m_fd_info' = [m_fd_info EXCEPT ![f] = <<>>]
      /\ monitor' = [monitor EXCEPT !.free = Append(@, h)] /\ task' = task
  <2>1. epoll' = [epoll EXCEPT ![f] = NoHandler] /\ conn' = [conn EXCEPT ![f] = NoConn]
    BY <1>1, <1>2 DEF MonitorEvent
  <2>2. m_fds' = [m_fds EXCEPT ![a] = s] /\ m_fd_info' = [m_fd_info EXCEPT ![f] = <<>>]
    BY <1>1, <1>2 DEF MonitorEvent
  <2>3. monitor' = [monitor EXCEPT !.free = Append(@, h)] /\ task' = task
    BY <1>1, <1>2 DEF MonitorEvent
  <2> QED
    BY <2>1, <2>2, <2>3
<1>4. a \in Addrs
  <2>1. m_fd_info[f] \in Addrs \X Handlers
    BY <1>1 DEF FdInv, FdTypes
  <2> QED
    BY <2>1, InfoFacts
<1>5. m_fds[a] \in Seq(Fds) /\ Distinct(m_fds[a]) /\ Len(m_fds[a]) <= MaxConcurrent /\ Len(m_fds[a]) \in Nat
  BY SMTT(60), <1>4, RangeFacts DEF FdInv, FdTypes, FdLists
<1>6. s \in Seq(Fds) /\ Distinct(s) /\ Range(s) = Range(m_fds[a]) \ {f} /\ Len(s) = Len(m_fds[a]) - 1
  BY SMTT(60), <1>2, <1>5, WithoutFacts
<1>7. Len(s) <= MaxConcurrent
  <2> DEFINE n == Len(m_fds[a])
             k == Len(s)
  <2>1. n \in Nat /\ n <= MaxConcurrent /\ k = n - 1
    BY <1>5, <1>6
  <2> HIDE DEF n, k
  <2>2. k <= MaxConcurrent
    BY SMTT(60), <2>1, ClientAssumption
  <2> QED
    BY <2>2 DEF k
<1>8. epoll'[f] = NoHandler /\ \A g \in Fds \ {f} : epoll'[g] = epoll[g]
  BY <1>3 DEF FdInv, FdTypes
<1>9. \A u \in Active : task[u].fd \in Fds \ {f}
  BY SMTT(60), HandlerFacts DEF FdInv, FdTasks, TaskInv
<1>10. \A u \in Active' : epoll'[task'[u].fd] = TaskHandler(u)
  BY <1>3, <1>8, <1>9 DEF FdInv, FdTasks
<1>11. \A g \in Fds, u \in Tasks : epoll'[g] = TaskHandler(u) => u \in Active' /\ task'[u].fd = g
  BY SMTT(60), <1>3, <1>8, HandlerFacts DEF FdInv, FdTasks
<1>12. x \in EpollHandlers /\ (\A y \in Handlers : x # MonitorHandler(y)) /\ epoll' = [epoll EXCEPT ![f] = x]
  BY <1>3, HandlerFacts DEF EpollHandlers
<1>13. a = m_fd_info[f][1] /\ h = m_fd_info[f][2]
  BY <1>1
<1> HIDE DEF a, s, x
<1>14. FdInv'
  BY <1>1, <1>3, <1>6, <1>7, <1>10, <1>11, <1>12, <1>13, FdLeavesPool
<1> QED
  BY <1>1, <1>3, <1>14

-------------------------------------------------------------------------------
(* The connections *)

\* A connection, field by field
LEMMA ConnParts ==
  /\ \A c \in ConnRecords : /\ c.state \in ConnStates
                            /\ c.asked \in Seq(Answers) /\ c.inbox \in Seq(Answers)
  /\ NoConn \in ConnRecords /\ NoConn.state = "none" /\ NoConn.asked = <<>> /\ NoConn.inbox = <<>>
<1>1. <<>> \in Seq(Answers)
  BY SMTT(60)
<1> QED
  BY <1>1, SMTT(60) DEF ConnRecords, ConnStates, NoConn

\* Connections, with one field of connection f set
WithState(net, f, s) == [net EXCEPT ![f].state = s]

WithAsked(net, f, s) == [net EXCEPT ![f].asked = s]

WithInbox(net, f, s) == [net EXCEPT ![f].inbox = s]

\* A record of three fields, one of them set
LEMMA ThreeFields ==
  ASSUME NEW S, NEW A, NEW c \in [state : S, asked : A, inbox : A]
  PROVE  /\ \A x \in S : LET z == [c EXCEPT !.state = x]
                          IN  /\ z \in [state : S, asked : A, inbox : A]
                              /\ z.state = x /\ z.asked = c.asked /\ z.inbox = c.inbox
         /\ \A x \in A : LET z == [c EXCEPT !.asked = x]
                          IN  /\ z \in [state : S, asked : A, inbox : A]
                              /\ z.state = c.state /\ z.asked = x /\ z.inbox = c.inbox
         /\ \A x \in A : LET z == [c EXCEPT !.inbox = x]
                          IN  /\ z \in [state : S, asked : A, inbox : A]
                              /\ z.state = c.state /\ z.asked = c.asked /\ z.inbox = x
BY SMTT(60)

\* A connection gets another state,
LEMMA ConnStateSet ==
  ASSUME NEW net \in [Fds -> ConnRecords], NEW f \in Fds, NEW s \in ConnStates
  PROVE  LET z == WithState(net, f, s)
         IN  /\ z \in [Fds -> ConnRecords] /\ \A g \in Fds \ {f} : z[g] = net[g]
             /\ z[f].state = s /\ z[f].asked = net[f].asked /\ z[f].inbox = net[f].inbox
<1> DEFINE z == WithState(net, f, s)
           c == net[f]
           y == [c EXCEPT !.state = s]
           S == ConnStates
           A == Seq(Answers)
<1>1. c \in [state : S, asked : A, inbox : A] /\ s \in S
  BY DEF ConnRecords
<1>2. /\ y \in [state : S, asked : A, inbox : A]
      /\ y.state = s /\ y.asked = c.asked /\ y.inbox = c.inbox
  <2> HIDE DEF c, A, S
  <2> QED
    BY <1>1, ThreeFields
<1>3. z = [net EXCEPT ![f] = y]
  BY DEF WithState
<1> HIDE DEF y, z
<1>4. z[f] = y /\ \A g \in Fds \ {f} : z[g] = net[g]
  BY <1>3
<1>5. z \in [Fds -> ConnRecords]
  BY <1>2, <1>3 DEF ConnRecords
<1> QED
  BY <1>2, <1>4, <1>5 DEF z

\* ... other answers due,
LEMMA ConnAskedSet ==
  ASSUME NEW net \in [Fds -> ConnRecords], NEW f \in Fds, NEW s \in Seq(Answers)
  PROVE  LET z == WithAsked(net, f, s)
         IN  /\ z \in [Fds -> ConnRecords] /\ \A g \in Fds \ {f} : z[g] = net[g]
             /\ z[f].state = net[f].state /\ z[f].asked = s /\ z[f].inbox = net[f].inbox
<1> DEFINE z == WithAsked(net, f, s)
           c == net[f]
           y == [c EXCEPT !.asked = s]
           S == ConnStates
           A == Seq(Answers)
<1>1. c \in [state : S, asked : A, inbox : A] /\ s \in A
  BY DEF ConnRecords
<1>2. /\ y \in [state : S, asked : A, inbox : A]
      /\ y.asked = s /\ y.state = c.state /\ y.inbox = c.inbox
  <2> HIDE DEF c, A, S
  <2> QED
    BY <1>1, ThreeFields
<1>3. z = [net EXCEPT ![f] = y]
  BY DEF WithAsked
<1> HIDE DEF y, z
<1>4. z[f] = y /\ \A g \in Fds \ {f} : z[g] = net[g]
  BY <1>3
<1>5. z \in [Fds -> ConnRecords]
  BY <1>2, <1>3 DEF ConnRecords
<1> QED
  BY <1>2, <1>4, <1>5 DEF z

\* ... other answers to read.
LEMMA ConnInboxSet ==
  ASSUME NEW net \in [Fds -> ConnRecords], NEW f \in Fds, NEW s \in Seq(Answers)
  PROVE  LET z == WithInbox(net, f, s)
         IN  /\ z \in [Fds -> ConnRecords] /\ \A g \in Fds \ {f} : z[g] = net[g]
             /\ z[f].state = net[f].state /\ z[f].asked = net[f].asked /\ z[f].inbox = s
<1> DEFINE z == WithInbox(net, f, s)
           c == net[f]
           y == [c EXCEPT !.inbox = s]
           S == ConnStates
           A == Seq(Answers)
<1>1. c \in [state : S, asked : A, inbox : A] /\ s \in A
  BY DEF ConnRecords
<1>2. /\ y \in [state : S, asked : A, inbox : A]
      /\ y.inbox = s /\ y.state = c.state /\ y.asked = c.asked
  <2> HIDE DEF c, A, S
  <2> QED
    BY <1>1, ThreeFields
<1>3. z = [net EXCEPT ![f] = y]
  BY DEF WithInbox
<1> HIDE DEF y, z
<1>4. z[f] = y /\ \A g \in Fds \ {f} : z[g] = net[g]
  BY <1>3
<1>5. z \in [Fds -> ConnRecords]
  BY <1>2, <1>3 DEF ConnRecords
<1> QED
  BY <1>2, <1>4, <1>5 DEF z

\* Nothing is due on a connection that no task receives on.
LEMMA QuietFacts ==
  ASSUME ConnInv, at # "gone", NEW f \in Fds,
         \A u \in Active : task[u].fd = f => task[u].state # "RECV"
  PROVE  conn[f].asked = <<>> /\ conn[f].inbox = <<>>
BY DEF ConnInv, Answered

\* Nothing changes for the connections and those that receive on them.
LEMMA ConnStays ==
  ASSUME ConnInv, conn' = conn, epoll' = epoll, at' # "gone" => at # "gone",
         \A u \in Active : u \in Active' /\ task'[u] = task[u]
  PROVE  ConnInv'
<1> SUFFICES ASSUME at # "gone", NEW f \in Fds PROVE Answered(f, conn[f])'
  BY DEF ConnInv
<1>1. Answered(f, conn[f])
  BY DEF ConnInv
<1> QED
  BY <1>1 DEF Answered

\* One connection changes, and nothing for the others and those that receive on them.
LEMMA ConnChanges ==
  ASSUME ConnInv, NEW f \in Fds, conn' \in [Fds -> ConnRecords], at' # "gone" => at # "gone",
         \A g \in Fds \ {f} : conn'[g] = conn[g] /\ epoll'[g] = epoll[g],
         \A u \in Active : task[u].fd # f => u \in Active' /\ task'[u] = task[u],
         at # "gone" => /\ conn'[f].state # "none" <=> epoll'[f] # NoHandler
                        /\ conn'[f].state = "none" => conn'[f] = NoConn
                        /\ Answered(f, conn[f])'
  PROVE  ConnInv'
<1> SUFFICES ASSUME at # "gone", NEW g \in Fds, g # f PROVE Answered(g, conn[g])'
  BY DEF ConnInv
<1>1. Answered(g, conn[g])
  BY DEF ConnInv
<1>2. conn'[g] = conn[g]
  OBVIOUS
<1> QED
  BY SMTT(60), <1>1, <1>2 DEF Answered

\* A connection on which nothing is due
LEMMA QuietAnswered ==
  ASSUME NEW f, conn'[f].asked = <<>>, conn'[f].inbox = <<>>
  PROVE  Answered(f, conn[f])'
<1> DEFINE a == conn'[f].asked
           b == conn'[f].inbox
<1>1. a = <<>> /\ b = <<>>
  OBVIOUS
<1>2. Len(a) = 0 /\ Len(b) = 0
  BY SMTT(60), <1>1
<1>3. 1..Len(a) = {} /\ 1..Len(b) = {}
  BY SMTT(60), <1>2
<1> HIDE DEF a, b
<1> QED
  BY <1>1, <1>3 DEF Answered, a, b

\* A connection is closed.
LEMMA ConnCloses ==
  ASSUME ConnInv, FdInv, NEW f \in Fds, NEW net \in [Fds -> ConnRecords], \A g \in Fds \ {f} : net[g] = conn[g],
         CloseFd(f, net), at' # "gone" => at # "gone",
         \A u \in Active : task[u].fd # f => u \in Active' /\ task'[u] = task[u]
  PROVE  ConnInv'
<1>1. conn' = [net EXCEPT ![f] = NoConn] /\ epoll' = [epoll EXCEPT ![f] = NoHandler]
  BY DEF CloseFd
<1>2. /\ conn' \in [Fds -> ConnRecords] /\ conn'[f] = NoConn
      /\ \A g \in Fds \ {f} : conn'[g] = conn[g]
  BY <1>1, ConnParts
<1>3. epoll'[f] = NoHandler /\ \A g \in Fds \ {f} : epoll'[g] = epoll[g]
  BY <1>1 DEF FdInv, FdTypes
<1>4. Answered(f, conn[f])'
  BY <1>2, ConnParts, QuietAnswered
<1>5. conn'[f].state = "none"
  BY <1>2, ConnParts
<1> QED
  BY <1>2, <1>3, <1>4, <1>5, ConnChanges

\* An open connection stays open, with nothing due on it, whoever epoll calls for it.
LEMMA ConnQuiet ==
  ASSUME ConnInv, FdInv, NEW f \in Fds, conn' \in [Fds -> ConnRecords], \A g \in Fds \ {f} : conn'[g] = conn[g],
         conn'[f].state # "none", conn'[f].asked = <<>>, conn'[f].inbox = <<>>,
         epoll'[f] # NoHandler, \A g \in Fds \ {f} : epoll'[g] = epoll[g],
         at' # "gone" => at # "gone",
         \A u \in Active : task[u].fd # f => u \in Active' /\ task'[u] = task[u]
  PROVE  ConnInv'
<1>1. Answered(f, conn[f])'
  BY QuietAnswered
<1> QED
  BY <1>1, ConnChanges

\* Responses to a call
LEMMA ResponsesFacts ==
  ASSUME NEW c \in Calls
  PROVE  /\ Responses(c) \in Seq(Answers) /\ \A r \in Range(Responses(c)) : r.call = c
         /\ \A i \in 1..Len(Responses(c)) : Responses(c)[i].last => i = Len(Responses(c))
<1> DEFINE n == Parts[c]
<1>1. n \in Nat
  BY ClientAssumption
<1>2. Responses(c) = [i \in 1..n |-> [call |-> c, last |-> i = n]]
  BY DEF Responses
<1>3. \A i \in 1..n : [call |-> c, last |-> i = n] \in Answers
  BY DEF Answers
<1> HIDE DEF n
<1>4. Responses(c) \in [1..n -> Answers]
  BY <1>2, <1>3
<1>5. Responses(c) \in Seq(Answers) /\ Len(Responses(c)) = n
  BY <1>1, <1>4, SMTT(60)
<1>6. ASSUME NEW i \in 1..n
      PROVE  Responses(c)[i].call = c /\ (Responses(c)[i].last => i = n)
  <2>1. Responses(c)[i] = [call |-> c, last |-> i = n]
    BY <1>2
  <2>2. Responses(c)[i].call = c
    BY SMTT(60), <2>1
  <2> DEFINE b == i = n
  <2>3. Responses(c)[i] = [call |-> c, last |-> b]
    BY <2>1
  <2> HIDE DEF b
  <2>4. Responses(c)[i].last = b
    BY SMTT(60), <2>3
  <2> QED
    BY <2>2, <2>4 DEF b
<1> QED
  BY SMTT(60), <1>5, <1>6, RangeFacts

\* Rest of a sequence of answers
LEMMA AnswersTail ==
  ASSUME NEW s \in Seq(Answers), s # <<>>
  PROVE  /\ Tail(s) \in Seq(Answers) /\ Range(Tail(s)) \subseteq Range(s)
         /\ Head(s) \in Answers /\ Head(s) = s[1] /\ Head(s) \in Range(s)
         /\ Len(s) \in Nat /\ Len(s) > 0 /\ Len(Tail(s)) = Len(s) - 1
         /\ \A i \in 1..(Len(s) - 1) : Tail(s)[i] = s[i + 1]
<1>1. Len(s) \in Nat /\ Len(s) > 0
  BY RangeFacts
<1>2. /\ Tail(s) \in Seq(Answers) /\ Len(Tail(s)) = Len(s) - 1
      /\ \A i \in 1..(Len(s) - 1) : Tail(s)[i] = s[i + 1]
  BY SMTT(60), <1>1
<1>3. Head(s) = s[1]
  BY SMTT(60), <1>1
<1>4. 1 \in 1..Len(s) /\ \A i \in 1..(Len(s) - 1) : i + 1 \in 1..Len(s)
  BY SMTT(60), <1>1
<1>5. \A i \in 1..Len(s) : s[i] \in Range(s) /\ s[i] \in Answers
  BY RangeFacts
<1>6. \A i \in 1..Len(Tail(s)) : Tail(s)[i] \in Range(s)
  BY <1>2, <1>4, <1>5
<1>7. \A x \in Range(Tail(s)) : x \in Range(s)
  <2> DEFINE r == Tail(s)
  <2>1. r \in Seq(Answers) /\ \A i \in 1..Len(r) : r[i] \in Range(s)
    BY <1>2, <1>6
  <2> HIDE DEF r
  <2>2. \A x \in Range(r) : \E i \in 1..Len(r) : x = r[i]
    BY <2>1, RangeFacts
  <2>3. \A x \in Range(r) : x \in Range(s)
    BY <2>1, <2>2
  <2> QED
    BY <2>3 DEF r
<1> QED
  BY <1>1, <1>2, <1>3, <1>4, <1>5, <1>7

\* The connections when the request of task t has been sent, and when the first answer
\* on connection f has been read
Sent(t) == [conn EXCEPT ![task[t].fd].asked =
              IF conn[task[t].fd].state = "up" THEN @ \o Responses(task[t].call) ELSE @]

Rest(f) == [conn EXCEPT ![f].inbox = Tail(@)]

\* The request has been sent: the answers to it are due, and no others.
LEMMA ConnSends ==
  ASSUME ConnInv, FdInv, TaskInv, at # "gone", NEW t \in Active, task[t].state = "SEND",
         NEW f, f = task[t].fd,
         conn' = Sent(t), Active' = Active, epoll' = epoll, \A u \in Active \ {t} : task'[u] = task[u],
         task'[t].state = "RECV", task'[t].fd = task[t].fd, task'[t].call = task[t].call
  PROVE  ConnInv'
<1> DEFINE c == task[t].call
           s == IF conn[f].state = "up" THEN conn[f].asked \o Responses(c) ELSE conn[f].asked
<1>1. f \in Fds /\ c \in Calls /\ epoll[f] = TaskHandler(t) /\ \A u \in Active \ {t} : task[u].fd # f
  BY UsedFacts DEF TaskInv
<1>2. conn[f].asked = <<>> /\ conn[f].inbox = <<>>
  BY <1>1, QuietFacts
<1>3. conn[f].state # "none"
  BY <1>1, HandlerFacts DEF ConnInv
<1>4. conn' = WithAsked(conn, f, s) /\ conn \in [Fds -> ConnRecords]
  BY DEF ConnInv, Sent, WithAsked
<1>5. s = <<>> \/ s = Responses(c)
  <2>1. Responses(c) \in Seq(Answers)
    BY <1>1, ResponsesFacts
  <2>2. <<>> \o Responses(c) = Responses(c)
    BY SMTT(60), <2>1
  <2> QED
    BY <2>2, <1>2
<1>6. /\ s \in Seq(Answers) /\ \A r \in Range(s) : r.call = c
      /\ \A i \in 1..Len(s) : s[i].last => i = Len(s)
  <2>1. CASE s = <<>>
    <3>1. <<>> \in Seq(Answers) /\ Range(<<>>) = {}
      BY EmptyRange
    <3>2. 1..Len(<<>>) = {}
      BY SMTT(60)
    <3> QED
      BY <2>1, <3>1, <3>2
  <2>2. CASE s = Responses(c)
    BY ZenonT(60), <2>2, <1>1, ResponsesFacts
  <2> QED
    BY <2>1, <2>2, <1>5
<1> HIDE DEF s
<1>7. /\ conn' \in [Fds -> ConnRecords] /\ \A g \in Fds \ {f} : conn'[g] = conn[g]
      /\ conn'[f].state = conn[f].state /\ conn'[f].asked = s /\ conn'[f].inbox = <<>>
  BY SMTT(60), <1>1, <1>2, <1>4, <1>6, ConnAskedSet
<1> HIDE DEF c
<1>8. Answered(f, conn[f])'
  <2>1. Range(<<>>) = {}
    BY EmptyRange
  <2>2. 1..Len(<<>>) = {}
    BY SMTT(60)
  <2>3. \A r \in Range(conn'[f].asked) \cup Range(conn'[f].inbox) : r.call = task'[t].call
    BY <2>1, <1>6, <1>7 DEF c
  <2>4. t \in Active' /\ task'[t].fd = f /\ task'[t].state = "RECV"
    OBVIOUS
  <2>5. \A i \in 1..Len(conn'[f].asked) : conn'[f].asked[i].last => i = Len(conn'[f].asked)
    BY <1>6, <1>7
  <2>6. \A i \in 1..Len(conn'[f].inbox) :
          conn'[f].inbox[i].last => i = Len(conn'[f].inbox) /\ conn'[f].asked = <<>>
    BY <2>2, <1>7
  <2> QED
    BY <2>3, <2>4, <2>5, <2>6 DEF Answered
<1>9. /\ epoll'[f] # NoHandler
      /\ \A u \in Active : task[u].fd # f => u \in Active' /\ task'[u] = task[u]
  BY <1>1, HandlerFacts
<1> QED
  BY <1>1, <1>3, <1>7, <1>8, <1>9, ConnChanges

\* A response is read: what comes next is for the same task; nothing does when it was
\* the last.
LEMMA ResponseRead ==
  ASSUME ConnInv, FdInv, TaskInv, at # "gone", NEW t \in Active,
         NEW f, f = task[t].fd, conn[f].inbox # <<>>, NEW rest, rest = Rest(f)
  PROVE  /\ f \in Fds /\ rest \in [Fds -> ConnRecords] /\ \A g \in Fds \ {f} : rest[g] = conn[g]
         /\ rest[f].state = conn[f].state /\ rest[f].state # "none"
         /\ rest[f].asked = conn[f].asked /\ rest[f].inbox = Tail(conn[f].inbox)
         /\ Head(conn[f].inbox).last => rest[f].asked = <<>> /\ rest[f].inbox = <<>>
<1>1. f \in Fds /\ epoll[f] = TaskHandler(t)
  BY UsedFacts
<1>2. conn[f].state # "none"
  BY <1>1, HandlerFacts DEF ConnInv
<1> DEFINE b == conn[f].inbox
           s == Tail(b)
<1>3. b \in Seq(Answers) /\ b # <<>>
  BY <1>1, ConnParts DEF ConnInv
<1>4. s \in Seq(Answers) /\ Len(b) \in Nat /\ Len(b) > 0 /\ Len(s) = Len(b) - 1 /\ Head(b) = b[1]
  BY <1>3, AnswersTail
<1>5. rest = WithInbox(conn, f, s) /\ conn \in [Fds -> ConnRecords]
  BY DEF ConnInv, Rest, WithInbox
<1>6. \A i \in 1..Len(b) : b[i].last => i = Len(b) /\ conn[f].asked = <<>>
  BY <1>1 DEF ConnInv, Answered
<1> HIDE DEF b, s
<1>7. /\ rest \in [Fds -> ConnRecords] /\ \A g \in Fds \ {f} : rest[g] = conn[g]
      /\ rest[f].state = conn[f].state /\ rest[f].asked = conn[f].asked /\ rest[f].inbox = s
  BY SMTT(60), <1>1, <1>4, <1>5, ConnInboxSet
<1>8. Head(b).last => s = <<>> /\ conn[f].asked = <<>>
  <2> SUFFICES ASSUME Head(b).last PROVE s = <<>> /\ conn[f].asked = <<>>
    OBVIOUS
  <2>1. 1 \in 1..Len(b)
    BY SMTT(60), <1>4
  <2>2. Len(b) = 1 /\ conn[f].asked = <<>>
    BY <2>1, <1>4, <1>6
  <2>3. Len(s) = 0
    BY SMTT(60), <2>2, <1>4
  <2>4. ~(Len(s) > 0)
    BY SMTT(60), <2>3
  <2>5. s = <<>>
    BY <2>4, <1>4, RangeFacts
  <2> QED
    BY <2>2, <2>5
<1> QED
  BY <1>1, <1>2, <1>7, <1>8 DEF s, b

\* The task goes on receiving.
LEMMA ConnReceives ==
  ASSUME ConnInv, FdInv, TaskInv, at # "gone", NEW t \in Active, task[t].state = "RECV",
         NEW f, f = task[t].fd,
         conn[f].inbox # <<>>, conn' = Rest(f), ~Head(conn[f].inbox).last,
         Active' = Active, epoll' = epoll, task' = task
  PROVE  ConnInv'
<1> DEFINE b == conn[f].inbox
           s == Tail(b)
<1>1. f \in Fds /\ epoll[f] = TaskHandler(t) /\ \A u \in Active \ {t} : task[u].fd # f
  BY UsedFacts
<1>2. /\ conn' \in [Fds -> ConnRecords] /\ \A g \in Fds \ {f} : conn'[g] = conn[g]
      /\ conn'[f].state = conn[f].state /\ conn'[f].state # "none"
      /\ conn'[f].asked = conn[f].asked /\ conn'[f].inbox = s
  BY SMTT(60), ResponseRead
<1>3. b \in Seq(Answers) /\ b # <<>>
  BY <1>1, ConnParts DEF ConnInv
<1>4. Answered(f, conn[f])
  BY <1>1 DEF ConnInv
<1>5. /\ Range(s) \subseteq Range(b) /\ Len(b) \in Nat /\ Len(s) = Len(b) - 1
      /\ \A i \in 1..(Len(b) - 1) : s[i] = b[i + 1]
  <2> HIDE DEF b
  <2> QED
    BY <1>3, AnswersTail
<1>6. \A r \in Range(conn[f].asked) \cup Range(b) : r.call = task[t].call
  BY <1>1, <1>3, <1>4 DEF Answered
<1>7. \A i \in 1..Len(s) : s[i].last => i = Len(s) /\ conn[f].asked = <<>>
  <2>1. \A i \in 1..Len(b) : b[i].last => i = Len(b) /\ conn[f].asked = <<>>
    BY <1>4 DEF Answered
  <2> HIDE DEF s, b
  <2> SUFFICES ASSUME NEW i \in 1..Len(s), s[i].last
               PROVE  i = Len(s) /\ conn[f].asked = <<>>
    OBVIOUS
  <2>2. i \in 1..(Len(b) - 1) /\ i + 1 \in 1..Len(b)
    BY SMTT(60), <1>5
  <2>3. b[i + 1].last
    BY <2>2, <1>5
  <2>4. i + 1 = Len(b) /\ conn[f].asked = <<>>
    BY <2>1, <2>2, <2>3
  <2>5. i = Len(s)
    BY SMTT(60), <2>2, <2>4, <1>5
  <2> QED
    BY <2>4, <2>5
<1>8. \A i \in 1..Len(conn[f].asked) : conn[f].asked[i].last => i = Len(conn[f].asked)
  BY <1>4 DEF Answered
<1> HIDE DEF s, b
<1>9. Answered(f, conn[f])'
  <2>1. \A r \in Range(conn'[f].asked) \cup Range(conn'[f].inbox) : r.call = task[t].call
    BY <1>2, <1>5, <1>6
  <2>2. t \in Active' /\ task'[t].fd = f /\ task'[t].state = "RECV" /\ task'[t].call = task[t].call
    OBVIOUS
  <2>3. \A i \in 1..Len(conn'[f].asked) : conn'[f].asked[i].last => i = Len(conn'[f].asked)
    BY <1>2, <1>8
  <2>4. \A i \in 1..Len(conn'[f].inbox) :
          conn'[f].inbox[i].last => i = Len(conn'[f].inbox) /\ conn'[f].asked = <<>>
    BY <1>2, <1>7
  <2> QED
    BY <2>1, <2>2, <2>3, <2>4 DEF Answered
<1>10. epoll'[f] # NoHandler
  BY <1>1, HandlerFacts
<1> QED
  BY <1>1, <1>2, <1>9, <1>10, ConnChanges

\* What is due or has come on a connection is some of what was before.
LEMMA AnsweredStill ==
  ASSUME NEW f, Answered(f, conn[f]), task' = task, Active' = Active,
         conn'[f].asked # <<>> \/ conn'[f].inbox # <<>> => conn[f].asked # <<>> \/ conn[f].inbox # <<>>,
         Range(conn'[f].asked) \cup Range(conn'[f].inbox) \subseteq
           Range(conn[f].asked) \cup Range(conn[f].inbox),
         \A i \in 1..Len(conn'[f].asked) : conn'[f].asked[i].last => i = Len(conn'[f].asked),
         \A i \in 1..Len(conn'[f].inbox) :
           conn'[f].inbox[i].last => i = Len(conn'[f].inbox) /\ conn'[f].asked = <<>>
  PROVE  Answered(f, conn[f])'
<1> SUFFICES ASSUME conn'[f].asked # <<>> \/ conn'[f].inbox # <<>>
             PROVE  \E t \in Active' :
                      /\ task'[t].fd = f /\ task'[t].state = "RECV"
                      /\ \A r \in Range(conn'[f].asked) \cup Range(conn'[f].inbox) : r.call = task'[t].call
  BY DEF Answered
<1>1. PICK t \in Active : /\ task[t].fd = f /\ task[t].state = "RECV"
                          /\ \A r \in Range(conn[f].asked) \cup Range(conn[f].inbox) : r.call = task[t].call
  BY DEF Answered
<1> QED
  BY <1>1

\* A connection is made, refused or closed.
LEMMA ConnNetwork ==
  ASSUME ConnInv, NEW f \in Fds, Network(f)
  PROVE  ConnInv'
<1>1. task' = task /\ Active' = Active /\ epoll' = epoll /\ at' = at
  BY DEF Network, Active
<1>2. conn \in [Fds -> ConnRecords]
  BY DEF ConnInv
<1>3. /\ conn' \in [Fds -> ConnRecords] /\ \A g \in Fds \ {f} : conn'[g] = conn[g]
      /\ conn'[f].state # "none" /\ conn[f].state # "none" /\ conn'[f].inbox = conn[f].inbox
      /\ conn'[f].asked = conn[f].asked \/ conn'[f].asked = <<>>
  <2>1. CASE conn[f].state = "connecting" /\ \E s \in {"up", "closed"} : conn' = [conn EXCEPT ![f].state = s]
    <3>1. PICK s \in {"up", "closed"} : conn' = [conn EXCEPT ![f].state = s]
      BY <2>1
    <3>2. s \in ConnStates /\ s # "none" /\ conn' = WithState(conn, f, s)
      BY <3>1 DEF ConnStates, WithState
    <3>3. /\ conn' \in [Fds -> ConnRecords] /\ \A g \in Fds \ {f} : conn'[g] = conn[g]
          /\ conn'[f].state = s /\ conn'[f].asked = conn[f].asked /\ conn'[f].inbox = conn[f].inbox
      BY SMTT(60), <1>2, <3>2, ConnStateSet
    <3> QED
      BY <2>1, <3>2, <3>3
  <2>2. CASE conn[f].state = "up" /\ conn' = [conn EXCEPT ![f].state = "closed", ![f].asked = <<>>]
    <3> DEFINE d == "closed"
               e == <<>>
               net == WithState(conn, f, d)
    <3>1. conn' = WithAsked(net, f, e) /\ net = WithState(conn, f, d)
      BY <2>2 DEF WithAsked, WithState
    <3>2. d \in ConnStates /\ d # "none" /\ e \in Seq(Answers)
      BY EmptyRange DEF ConnStates
    <3> HIDE DEF net, d, e
    <3>3. /\ net \in [Fds -> ConnRecords] /\ \A g \in Fds \ {f} : net[g] = conn[g]
          /\ net[f].state = d /\ net[f].asked = conn[f].asked /\ net[f].inbox = conn[f].inbox
      BY SMTT(60), <1>2, <3>1, <3>2, ConnStateSet
    <3>4. /\ conn' \in [Fds -> ConnRecords] /\ \A g \in Fds \ {f} : conn'[g] = net[g]
          /\ conn'[f].state = net[f].state /\ conn'[f].asked = e /\ conn'[f].inbox = net[f].inbox
      BY SMTT(60), <3>1, <3>2, <3>3, ConnAskedSet
    <3> QED
      BY <2>2, <3>2, <3>3, <3>4 DEF e
  <2> QED
    BY <2>1, <2>2 DEF Network
<1>4. ASSUME at # "gone"
      PROVE  /\ conn'[f].state # "none" <=> epoll'[f] # NoHandler
             /\ conn'[f].state = "none" => conn'[f] = NoConn
             /\ Answered(f, conn[f])'
  <2>1. epoll'[f] # NoHandler
    BY <1>1, <1>3, <1>4 DEF ConnInv
  <2>2. Answered(f, conn[f])
    BY <1>4 DEF ConnInv
  <2>3. 1..Len(<<>>) = {} /\ Range(<<>>) = {}
    BY SMTT(60), EmptyRange
  <2>4. \A i \in 1..Len(conn'[f].asked) : conn'[f].asked[i].last => i = Len(conn'[f].asked)
    BY <2>2, <2>3, <1>3 DEF Answered
  <2>5. \A i \in 1..Len(conn'[f].inbox) :
          conn'[f].inbox[i].last => i = Len(conn'[f].inbox) /\ conn'[f].asked = <<>>
    BY <2>2, <1>3 DEF Answered
  <2>6. /\ conn'[f].asked # <<>> \/ conn'[f].inbox # <<>> => conn[f].asked # <<>> \/ conn[f].inbox # <<>>
        /\ Range(conn'[f].asked) \cup Range(conn'[f].inbox) \subseteq
             Range(conn[f].asked) \cup Range(conn[f].inbox)
    BY <2>3, <1>3
  <2>7. Answered(f, conn[f])'
    BY <2>2, <2>4, <2>5, <2>6, <1>1, AnsweredStill
  <2> QED
    BY <2>1, <2>7, <1>3
<1> QED
  BY <1>1, <1>3, <1>4, ConnChanges

\* An answer comes.
LEMMA ConnAnswer ==
  ASSUME ConnInv, NEW f \in Fds, Answer(f)
  PROVE  ConnInv'
<1>1. task' = task /\ Active' = Active /\ epoll' = epoll /\ at' = at
  BY DEF Answer, Active
<1> DEFINE a == conn[f].asked
           b == conn[f].inbox
           x == Head(a)
           b1 == Append(b, x)
           a1 == Tail(a)
           net == WithInbox(conn, f, b1)
<1>2. a # <<>> /\ conn' = WithAsked(net, f, a1) /\ net = WithInbox(conn, f, b1)
  <2>1. a # <<>> /\ conn' = [conn EXCEPT ![f].inbox = b1, ![f].asked = a1]
    BY DEF Answer
  <2>2. conn \in [Fds -> ConnRecords]
    BY DEF ConnInv
  <2>3. net[f].asked = a
    <3>1. b1 \in Seq(Answers)
      <4>1. a \in Seq(Answers) /\ b \in Seq(Answers)
        BY <2>2, ConnParts
      <4>2. x \in Answers
        BY <2>1, <4>1, AnswersTail
      <4> QED
        BY <4>1, <4>2, PushFacts
    <3> HIDE DEF b1
    <3> QED
      BY SMTT(60), <2>2, <3>1, ConnInboxSet
  <2>4. conn' = [net EXCEPT ![f].asked = Tail(@)]
    BY DEF Answer, WithInbox
  <2>5. conn' = [net EXCEPT ![f].asked = a1]
    <3> HIDE DEF net
    <3> QED
      BY <2>3, <2>4
  <2> QED
    BY <2>1, <2>5 DEF WithAsked
<1>3. conn \in [Fds -> ConnRecords] /\ a \in Seq(Answers) /\ b \in Seq(Answers)
  BY ConnParts DEF ConnInv
<1>4. /\ a1 \in Seq(Answers) /\ Range(a1) \subseteq Range(a)
      /\ x \in Answers /\ x = a[1] /\ x \in Range(a)
      /\ Len(a) \in Nat /\ Len(a) > 0 /\ Len(a1) = Len(a) - 1
      /\ \A i \in 1..(Len(a) - 1) : a1[i] = a[i + 1]
  BY <1>2, <1>3, AnswersTail
<1>5. /\ b1 \in Seq(Answers) /\ Len(b1) = Len(b) + 1 /\ Len(b) \in Nat
      /\ Range(b1) = Range(b) \cup {x}
      /\ b1[Len(b) + 1] = x /\ \A i \in 1..Len(b) : b1[i] = b[i]
  <2>1. b1 \in Seq(Answers) /\ Len(b1) = Len(b) + 1 /\ Range(b1) = Range(b) \cup {x} /\ Len(b) \in Nat
    BY SMTT(60), <1>3, <1>4, PushFacts, RangeFacts
  <2>2. b1[Len(b) + 1] = x /\ \A i \in 1..Len(b) : b1[i] = b[i]
    BY SMTT(60), <1>3, <1>4
  <2> QED
    BY <2>1, <2>2
<1> HIDE DEF a1, b1, net, x
<1>6. /\ conn' \in [Fds -> ConnRecords] /\ \A g \in Fds \ {f} : conn'[g] = conn[g]
      /\ conn'[f].state = conn[f].state /\ conn'[f].asked = a1 /\ conn'[f].inbox = b1
  <2>1. /\ net \in [Fds -> ConnRecords] /\ \A g \in Fds \ {f} : net[g] = conn[g]
        /\ net[f].state = conn[f].state /\ net[f].asked = conn[f].asked /\ net[f].inbox = b1
    BY SMTT(60), <1>2, <1>3, <1>5, ConnInboxSet
  <2>2. /\ conn' \in [Fds -> ConnRecords] /\ \A g \in Fds \ {f} : conn'[g] = net[g]
        /\ conn'[f].state = net[f].state /\ conn'[f].asked = a1 /\ conn'[f].inbox = net[f].inbox
    BY SMTT(60), <2>1, <1>2, <1>4, ConnAskedSet
  <2> QED
    BY <2>1, <2>2
<1>7. ASSUME at # "gone"
      PROVE  /\ conn'[f].state # "none" <=> epoll'[f] # NoHandler
             /\ conn'[f].state = "none" => conn'[f] = NoConn
             /\ Answered(f, conn[f])'
  <2>1. /\ conn[f].state # "none" <=> epoll[f] # NoHandler
        /\ conn[f].state = "none" => conn[f] = NoConn
        /\ Answered(f, conn[f])
    BY <1>7 DEF ConnInv
  <2>2. conn[f].state # "none"
    BY <2>1, <1>2, ConnParts
  <2>3. /\ \A i \in 1..Len(a) : a[i].last => i = Len(a)
        /\ \A i \in 1..Len(b) : ~b[i].last
    BY <2>1, <1>2 DEF Answered
  <2> HIDE DEF a, b
  <2>4. \A i \in 1..Len(a1) : a1[i].last => i = Len(a1)
    <3> SUFFICES ASSUME NEW i \in 1..Len(a1), a1[i].last PROVE i = Len(a1)
      OBVIOUS
    <3>1. i \in 1..(Len(a) - 1) /\ i + 1 \in 1..Len(a)
      BY SMTT(60), <1>4
    <3>2. i + 1 = Len(a)
      BY <3>1, <1>4, <2>3
    <3> QED
      BY SMTT(60), <3>1, <3>2, <1>4
  <2>5. \A i \in 1..Len(b1) : b1[i].last => i = Len(b1) /\ a1 = <<>>
    <3> SUFFICES ASSUME NEW i \in 1..Len(b1), b1[i].last PROVE i = Len(b1) /\ a1 = <<>>
      OBVIOUS
    <3>1. i \in 1..Len(b) \/ i = Len(b) + 1
      BY SMTT(60), <1>5
    <3>2. i = Len(b) + 1
      BY <3>1, <2>3, <1>5
    <3>3. a[1].last /\ 1 \in 1..Len(a)
      <4>1. 1 \in 1..Len(a)
        BY SMTT(60), <1>4
      <4> QED
        BY <4>1, <3>2, <1>4, <1>5
    <3>4. Len(a) = 1
      BY <3>3, <2>3
    <3>5. Len(a1) = 0
      BY SMTT(60), <3>4, <1>4
    <3>6. ~(Len(a1) > 0)
      BY SMTT(60), <3>5
    <3>7. a1 = <<>>
      BY <3>6, <1>4, RangeFacts
    <3> QED
      BY <3>2, <3>7, <1>5
  <2>6. /\ conn[f].asked # <<>> \/ conn[f].inbox # <<>>
        /\ Range(conn'[f].asked) \cup Range(conn'[f].inbox) \subseteq
             Range(conn[f].asked) \cup Range(conn[f].inbox)
    BY <1>2, <1>4, <1>5, <1>6 DEF a, b
  <2>7. Answered(f, conn[f])'
    BY <2>1, <2>4, <2>5, <2>6, <1>1, <1>6, AnsweredStill
  <2> QED
    BY <2>1, <2>2, <2>7, <1>1, <1>6
<1> QED
  BY <1>1, <1>6, <1>7, ConnChanges

-------------------------------------------------------------------------------
(* The events *)

\* No handler is called, or none that changes the epoll set.
LEMMA BatchStays ==
  ASSUME BatchInv, batch' \subseteq batch, epoll' = epoll, at' = at \/ batch' = {},
         pipe' \in BOOLEAN, m_exit' \in BOOLEAN
  PROVE  BatchInv'
BY DEF BatchInv

\* No event is left.
LEMMA BatchEmpty ==
  ASSUME batch' = {}, pipe' \in BOOLEAN, m_exit' \in BOOLEAN
  PROVE  BatchInv'
BY DEF BatchInv

\* The handler of an event may change the epoll set for the event's descriptor: no other
\* event is for it.
LEMMA BatchHandled ==
  ASSUME BatchInv, NEW e \in batch, batch' = batch \ {e}, at' = at, NEW f \in Fds,
         e = [handler |-> epoll[f], fd |-> f], \A g \in Fds \ {f} : epoll'[g] = epoll[g],
         pipe' \in BOOLEAN, m_exit' \in BOOLEAN
  PROVE  BatchInv'
<1> SUFFICES ASSUME NEW d \in batch, d # e, d # PipeReady
             PROVE  \E g \in Fds : d = [handler |-> epoll'[g], fd |-> g] /\ epoll'[g] # NoHandler
  BY DEF BatchInv, PipeReady
<1>1. PICK g \in Fds : d = [handler |-> epoll[g], fd |-> g] /\ epoll[g] # NoHandler
  BY DEF BatchInv
<1>2. g # f
  BY <1>1
<1> QED
  BY <1>1, <1>2

\* An event is for the pipe, for the task that uses the descriptor or for the monitor of
\* the connection kept.
LEMMA EventFacts ==
  ASSUME BatchInv, FdInv, NEW e \in batch
  PROVE  \/ e.handler.kind = "pipe"
         \/ \E t \in Active : /\ task[t].fd \in Fds /\ e = [handler |-> epoll[task[t].fd], fd |-> task[t].fd]
                              /\ e.handler.kind = "task" /\ e.handler.id = t
         \/ \E f \in Fds, h \in Handlers :
              /\ epoll[f] = MonitorHandler(h) /\ e = [handler |-> epoll[f], fd |-> f]
              /\ e.handler.kind = "monitor" /\ e.handler.id = h
<1>1. CASE e = PipeReady
  <2>1. PipeReady.handler.kind = "pipe"
    BY DEF PipeReady
  <2> QED
    BY <1>1, <2>1
<1>2. CASE e # PipeReady
  <2>1. PICK f \in Fds : e = [handler |-> epoll[f], fd |-> f] /\ epoll[f] # NoHandler
    BY <1>2 DEF BatchInv
  <2>2. e.handler = epoll[f]
    BY <2>1
  <2>3. epoll[f] \in EpollHandlers
    BY DEF FdInv, FdTypes
  <2>4. \/ \E t \in Tasks : epoll[f] = TaskHandler(t)
        \/ \E h \in Handlers : epoll[f] = MonitorHandler(h)
    BY <2>1, <2>3 DEF EpollHandlers
  <2>5. CASE \E t \in Tasks : epoll[f] = TaskHandler(t)
    <3>1. PICK t \in Tasks : epoll[f] = TaskHandler(t)
      BY <2>5
    <3>2. t \in Active /\ task[t].fd = f
      BY <3>1 DEF FdInv, FdTasks
    <3>3. e.handler.kind = "task" /\ e.handler.id = t
      BY <2>2, <3>1, HandlerFacts
    <3> QED
      BY <2>1, <3>2, <3>3
  <2>6. CASE \E h \in Handlers : epoll[f] = MonitorHandler(h)
    <3>1. PICK h \in Handlers : epoll[f] = MonitorHandler(h)
      BY <2>6
    <3>2. e.handler.kind = "monitor" /\ e.handler.id = h
      BY <2>2, <3>1, HandlerFacts
    <3> QED
      BY <2>1, <3>1, <3>2
  <2> QED
    BY <2>4, <2>5, <2>6
<1> QED
  BY <1>1, <1>2

\* epoll_wait returns events for the handlers that the epoll set has.
LEMMA BatchWaits ==
  ASSUME BatchInv, FdInv, Wait
  PROVE  BatchInv'
<1>1. /\ at' = IF m_exit THEN "exit" ELSE "events"
      /\ batch' = IF m_exit THEN {}
              ELSE {[handler |-> epoll[f], fd |-> f] : f \in {g \in Fds : ReadyFd(g)}}
                   \cup {[handler |-> [kind |-> "pipe", id |-> None], fd |-> None] : x \in {y \in {1} : pipe}}
      /\ epoll' = epoll /\ pipe' = pipe /\ m_exit' = m_exit
  BY DEF Wait
<1>2. pipe' \in BOOLEAN /\ m_exit' \in BOOLEAN
  BY <1>1 DEF BatchInv
<1>3. CASE m_exit
  BY <1>1, <1>2, <1>3, BatchEmpty
<1>4. CASE ~m_exit
  <2>1. at' = "events" /\ \A e \in batch' : e = PipeReady \/ \E f \in Fds : ReadyFd(f) /\ e = [handler |-> epoll[f], fd |-> f]
    BY <1>1, <1>4 DEF PipeReady
  <2>2. \A f \in Fds : ReadyFd(f) => epoll[f] # NoHandler
    BY HandlerFacts DEF ReadyFd
  <2>3. \A e \in batch' :
          e = PipeReady \/ \E f \in Fds : e = [handler |-> epoll'[f], fd |-> f] /\ epoll'[f] # NoHandler
    BY <2>1, <2>2, <1>1
  <2> QED
    BY <1>2, <2>1, <2>3 DEF BatchInv, PipeReady
<1> QED
  BY <1>3, <1>4

-------------------------------------------------------------------------------
(* The steps *)

\* The five parts of the invariant that are not about events
Parts5 == TaskInv /\ HeapInv /\ CallInv /\ FdInv /\ ConnInv

\* A task under way ends, with its callback: what it had is given back.
LEMMA TaskEnds ==
  ASSUME DataLaws, Parts5, at # "gone", at' = at, m_task_queue' = m_task_queue,
         NEW t \in Active, NEW f, f = task[t].fd, NEW normal \in BOOLEAN,
         NEW net \in [Fds -> ConnRecords], \A g \in Fds \ {f} : net[g] = conn[g],
         normal => net[f].state # "none" /\ net[f].asked = <<>> /\ net[f].inbox = <<>>,
         Process(t), terminate(t, normal, net)
  PROVE  Parts5' /\ f \in Fds /\ \A g \in Fds \ {f} : epoll'[g] = epoll[g]
<1>0. TaskInv /\ HeapInv /\ CallInv /\ FdInv /\ ConnInv
  BY DEF Parts5
<1>1. /\ heap' = reset(Erase(heap, expire, t), t) /\ expire' = [expire EXCEPT ![t] = 0]
      /\ task' = [task EXCEPT ![t] = Blank] /\ return_task(t)
      /\ IF normal THEN return_fd(AddrOf(t), f, net) ELSE CloseFd(f, net) /\ UNCHANGED pool
  BY DEF terminate
<1>2. HeapInv' /\ Active' = Active \ {t}
  BY <1>0, <1>1, HeapLeaves
<1>3. TaskInv' /\ Carriers' = Carriers \ {t} /\ \A u \in Tasks \ {t} : task'[u] = task[u]
  BY <1>0, <1>1, <1>2, TaskLeaves
<1>4. CallInv'
  <2>1. t \in Carriers /\ \A u \in Carriers \ {t} : u \in Tasks
    BY <1>0, RangeFacts DEF Carriers, TaskInv
  <2>2. at' \in Places /\ at' # "gone"
    BY <1>0 DEF CallInv
  <2>3. \A u \in Carriers \ {t} : task'[u].call = task[u].call
    BY <2>1, <1>3
  <2> QED
    BY <1>0, <1>3, <2>1, <2>2, <2>3, CallEnds
<1>5. f \in Fds /\ \A u \in Active \ {t} : u \in Tasks
  BY <1>0, UsedFacts DEF TaskInv
<1>6. \A u \in Active : task[u].fd # f => u \in Active' /\ task'[u] = task[u]
  BY <1>2, <1>3, <1>5
<1>7. CASE normal /\ Len(m_fds[AddrOf(t)]) < MaxConcurrent
  <2>1. return_fd(AddrOf(t), task[t].fd, net)
    BY <1>1, <1>7
  <2>2. FdInv' /\ conn' = net /\ epoll'[f] # NoHandler /\ \A g \in Fds \ {f} : epoll'[g] = epoll[g]
    BY <1>0, <1>2, <1>3, <1>7, <2>1, FdKept
  <2>3. conn' \in [Fds -> ConnRecords] /\ (\A g \in Fds \ {f} : conn'[g] = conn[g])
        /\ conn'[f].state # "none" /\ conn'[f].asked = <<>> /\ conn'[f].inbox = <<>>
    BY <1>7, <2>2
  <2>4. ConnInv'
    BY <1>0, <1>5, <1>6, <2>2, <2>3, ConnQuiet
  <2> QED
    BY <1>2, <1>3, <1>4, <1>5, <2>2, <2>4 DEF Parts5
<1>8. CASE ~(normal /\ Len(m_fds[AddrOf(t)]) < MaxConcurrent)
  <2>1. CloseFd(f, net) /\ m_fds' = m_fds /\ m_fd_info' = m_fd_info /\ monitor' = monitor
    BY <1>1, <1>8 DEF return_fd, pool
  <2>2. epoll' = [epoll EXCEPT ![task[t].fd] = NoHandler]
    BY <2>1 DEF CloseFd
  <2>3. FdInv'
    BY <1>0, <1>2, <1>3, <2>1, <2>2, FdCloses
  <2>4. ConnInv'
    BY <1>0, <1>5, <1>6, <2>1, ConnCloses
  <2>5. \A g \in Fds \ {f} : epoll'[g] = epoll[g]
    BY <1>0, <2>2 DEF FdInv, FdTypes
  <2> QED
    BY <1>2, <1>3, <1>4, <1>5, <2>3, <2>4, <2>5 DEF Parts5
<1> QED
  BY <1>7, <1>8

\* ERR_RETURN and a timeout
LEMMA TaskErrs ==
  ASSUME DataLaws, Parts5, at # "gone", at' = at, m_task_queue' = m_task_queue, NEW t \in Active, Fail(t)
  PROVE  Parts5' /\ task[t].fd \in Fds /\ \A g \in Fds \ {task[t].fd} : epoll'[g] = epoll[g]
<1>1. Process(t) /\ terminate(t, FALSE, conn)
  BY DEF Fail
<1>2. conn \in [Fds -> ConnRecords]
  BY DEF Parts5, ConnInv
<1> DEFINE f == task[t].fd
           n == FALSE
<1>3. n \in BOOLEAN /\ ~n /\ terminate(t, n, conn)
  BY <1>1
<1> HIDE DEF n
<1> QED
  BY <1>1, <1>2, <1>3, TaskEnds

\* Only the connections change.
LEMMA PartsStay ==
  ASSUME Parts5, UNCHANGED <<m_task_queue, m_task_pool, live, task, expire, heap, pool, epoll, call>>,
         at' \in Places, at' = "gone" <=> at = "gone"
  PROVE  /\ TaskInv' /\ HeapInv' /\ CallInv' /\ FdInv' /\ Active' = Active
         /\ ConnInv' => Parts5'
         /\ conn' = conn => Parts5'
<1>1. /\ m_task_queue' = m_task_queue /\ m_task_pool' = m_task_pool /\ live' = live /\ task' = task
      /\ expire' = expire /\ heap' = heap /\ epoll' = epoll /\ call' = call
      /\ m_fds' = m_fds /\ m_fd_info' = m_fd_info /\ monitor' = monitor
  BY DEF pool
<1>2. TaskInv /\ HeapInv /\ CallInv /\ FdInv /\ ConnInv
  BY DEF Parts5
<1>3. Active' = Active /\ Carriers' = Carriers
  BY <1>1 DEF Active, Carriers
<1>4. TaskInv'
  BY <1>1, <1>2, <1>3 DEF TaskInv
<1>5. HeapInv'
  BY <1>1, <1>2 DEF HeapInv
<1>6. CallInv'
  BY <1>1, <1>2, <1>3, CallsStay
<1>7. FdInv'
  BY <1>1, <1>2, <1>3, FdStays
<1>8. conn' = conn => ConnInv'
  BY <1>1, <1>2, <1>3, ConnStays
<1> QED
  BY <1>3, <1>4, <1>5, <1>6, <1>7, <1>8 DEF Parts5

\* A task under way goes on to the next state, with a new deadline.
LEMMA EnterStep ==
  ASSUME DataLaws, Parts5, NEW t \in Active, NEW s \in {"SEND", "RECV"}, NEW d \in Int, Enter(t, s, d),
         UNCHANGED <<m_task_queue, pool, epoll, m_task_pool, live, call>>, at' = at
  PROVE  /\ TaskInv' /\ HeapInv' /\ CallInv' /\ FdInv' /\ Active' = Active /\ epoll' = epoll
         /\ task'[t].state = s /\ task'[t].fd = task[t].fd /\ task'[t].call = task[t].call
         /\ \A u \in Active \ {t} : task'[u] = task[u]
<1>1. /\ m_task_queue' = m_task_queue /\ m_task_pool' = m_task_pool /\ live' = live
      /\ epoll' = epoll /\ call' = call
      /\ m_fds' = m_fds /\ m_fd_info' = m_fd_info /\ monitor' = monitor
  BY DEF pool
<1>2. TaskInv /\ HeapInv /\ CallInv /\ FdInv /\ ConnInv
  BY DEF Parts5
<1>3. /\ task' = [task EXCEPT ![t].state = s] /\ expire' = [expire EXCEPT ![t] = d]
      /\ heap' = Updown(heap, expire', t)
  BY DEF Enter
<1>4. HeapInv' /\ Active' = Active
  BY <1>2, <1>3, HeapChanges
<1>5. /\ TaskInv' /\ Carriers' = Carriers
      /\ task'[t].state = s /\ task'[t].fd = task[t].fd /\ task'[t].call = task[t].call
      /\ \A u \in Tasks \ {t} : task'[u] = task[u]
  BY <1>1, <1>2, <1>3, <1>4, TaskEnters
<1>6. Active \subseteq Tasks /\ Carriers \subseteq Tasks
  BY <1>2 DEF TaskInv
<1>7. CallInv'
  <2>1. \A u \in Carriers : task'[u].call = task[u].call
    BY <1>5, <1>6
  <2>2. at' \in Places
    BY <1>2 DEF CallInv
  <2> QED
    BY <1>1, <1>2, <1>5, <2>1, <2>2, CallsStay
<1>8. FdInv'
  <2>1. \A u \in Active : task'[u].fd = task[u].fd
    BY <1>5, <1>6
  <2> QED
    BY <1>1, <1>2, <1>4, <2>1, FdStays
<1> QED
  BY <1>1, <1>4, <1>5, <1>6, <1>7, <1>8

\* A task that was connected: nothing is due on the connection.
LEMMA ConnEnters ==
  ASSUME ConnInv, FdInv, TaskInv, at # "gone", at' = at, NEW t \in Active, task[t].state = "CONNECT",
         conn' = conn, epoll' = epoll, Active' = Active, \A u \in Active \ {t} : task'[u] = task[u]
  PROVE  ConnInv'
<1>1. PICK f : f = task[t].fd
  OBVIOUS
<1>2. /\ f \in Fds /\ epoll[f] = TaskHandler(t) /\ \A u \in Active \ {t} : task[u].fd # f
  BY <1>1, UsedFacts
<1>3. conn[f].asked = <<>> /\ conn[f].inbox = <<>>
  BY <1>2, QuietFacts
<1>4. conn[f].state # "none" /\ epoll[f] # NoHandler
  BY <1>2, HandlerFacts DEF ConnInv
<1>5. \A u \in Active : task[u].fd # f => u \in Active' /\ task'[u] = task[u]
  BY <1>1
<1>6. conn' \in [Fds -> ConnRecords]
  BY DEF ConnInv
<1> QED
  BY <1>2, <1>3, <1>4, <1>5, <1>6, ConnQuiet

\* What a handler of an event leaves of the epoll set
Others(f) == f \in Fds /\ \A g \in Fds \ {f} : epoll'[g] = epoll[g]

\* Task::handle_event of a task that connects
LEMMA ConnectedStep ==
  ASSUME DataLaws, Parts5, at = "events", at' = at, m_task_queue' = m_task_queue, NEW t \in Active, Connected(t)
  PROVE  Parts5' /\ Others(task[t].fd)
<1>0. TaskInv /\ HeapInv /\ CallInv /\ FdInv /\ ConnInv /\ task[t].fd \in Fds
  BY UsedFacts DEF Parts5
<1>1. CASE /\ Enter(t, "SEND", SendTimeout)
           /\ UNCHANGED <<pool, epoll, m_task_pool, live, conn, call>>
  <2>1. SendTimeout \in Int /\ "SEND" \in {"SEND", "RECV"}
    BY SMTT(60), ClientAssumption
  <2>2. UNCHANGED <<m_task_queue, pool, epoll, m_task_pool, live, call>> /\ conn' = conn
    BY <1>1
  <2>3. /\ TaskInv' /\ HeapInv' /\ CallInv' /\ FdInv' /\ Active' = Active /\ epoll' = epoll
        /\ \A u \in Active \ {t} : task'[u] = task[u]
    <3> DEFINE s == "SEND"
    <3>1. s \in {"SEND", "RECV"} /\ Enter(t, s, SendTimeout)
      BY <1>1
    <3> HIDE DEF s
    <3> QED
      BY <2>1, <2>2, <3>1, EnterStep
  <2>4. ConnInv'
    BY <1>0, <2>2, <2>3, ConnEnters DEF Connected
  <2> QED
    BY <1>0, <2>3, <2>4 DEF Parts5, Others
<1>2. CASE Fail(t)
  BY <1>2, TaskErrs DEF Others
<1> QED
  BY <1>1, <1>2 DEF Connected

\* Task::handle_event of a task that sends
LEMMA SendStep ==
  ASSUME DataLaws, Parts5, at = "events", at' = at, m_task_queue' = m_task_queue, NEW t \in Active, Send(t)
  PROVE  Parts5' /\ Others(task[t].fd)
<1>0. TaskInv /\ HeapInv /\ CallInv /\ FdInv /\ ConnInv /\ task[t].fd \in Fds /\ at' \in Places
  BY UsedFacts DEF Parts5, CallInv
<1>1. CASE UNCHANGED <<task, expire, heap, pool, epoll, m_task_pool, live, conn, call>>
  <2>1. UNCHANGED <<m_task_queue, m_task_pool, live, task, expire, heap, pool, epoll, call>> /\ conn' = conn /\ epoll' = epoll
    BY <1>1
  <2>2. Parts5'
    BY <1>0, <2>1, PartsStay
  <2> QED
    BY <1>0, <2>1, <2>2 DEF Others
<1>2. CASE /\ Enter(t, "RECV", RecvTimeout) /\ conn' = Sent(t)
           /\ UNCHANGED <<pool, epoll, m_task_pool, live, call>>
  <2>1. RecvTimeout \in Int
    BY SMTT(60), ClientAssumption
  <2>2. UNCHANGED <<m_task_queue, pool, epoll, m_task_pool, live, call>>
    BY <1>2
  <2>3. /\ TaskInv' /\ HeapInv' /\ CallInv' /\ FdInv' /\ Active' = Active /\ epoll' = epoll
        /\ task'[t].state = "RECV" /\ task'[t].fd = task[t].fd /\ task'[t].call = task[t].call
        /\ \A u \in Active \ {t} : task'[u] = task[u]
    <3> DEFINE s == "RECV"
    <3>1. s \in {"SEND", "RECV"} /\ Enter(t, s, RecvTimeout)
      BY <1>2
    <3> HIDE DEF s
    <3>2. /\ TaskInv' /\ HeapInv' /\ CallInv' /\ FdInv' /\ Active' = Active /\ epoll' = epoll
          /\ task'[t].state = s /\ task'[t].fd = task[t].fd /\ task'[t].call = task[t].call
          /\ \A u \in Active \ {t} : task'[u] = task[u]
      BY <2>1, <2>2, <3>1, EnterStep
    <3> QED
      BY <3>2 DEF s
  <2>4. task[t].state = "SEND" /\ at # "gone"
    BY DEF Send
  <2>5. PICK f : f = task[t].fd
    OBVIOUS
  <2>6. ConnInv'
    BY <1>0, <1>2, <2>3, <2>4, <2>5, ConnSends
  <2> QED
    BY <1>0, <2>3, <2>6 DEF Parts5, Others
<1>3. CASE Fail(t)
  BY <1>3, TaskErrs DEF Others
<1> QED
  BY <1>1, <1>2, <1>3 DEF Send, Sent

\* Task::handle_event of a task that receives
LEMMA ReceiveStep ==
  ASSUME DataLaws, Parts5, at = "events", at' = at, m_task_queue' = m_task_queue, NEW t \in Active, Receive(t)
  PROVE  Parts5' /\ Others(task[t].fd)
<1>0. TaskInv /\ HeapInv /\ CallInv /\ FdInv /\ ConnInv /\ task[t].fd \in Fds /\ at' \in Places
  BY UsedFacts DEF Parts5, CallInv
<1>1. PICK f : f = task[t].fd
  OBVIOUS
<1>2. CASE UNCHANGED <<task, expire, heap, pool, epoll, m_task_pool, live, conn, call>>
  <2>1. UNCHANGED <<m_task_queue, m_task_pool, live, task, expire, heap, pool, epoll, call>> /\ conn' = conn /\ epoll' = epoll
    BY <1>2
  <2>2. Parts5'
    BY <1>0, <2>1, PartsStay
  <2> QED
    BY <1>0, <2>1, <2>2 DEF Others
<1>3. CASE /\ conn[f].inbox # <<>> /\ Head(conn[f].inbox).last
           /\ Process(t) /\ terminate(t, TRUE, Rest(f))
  <2> DEFINE net == Rest(f)
             n == TRUE
  <2>1. /\ net \in [Fds -> ConnRecords] /\ \A g \in Fds \ {f} : net[g] = conn[g]
        /\ net[f].state # "none" /\ net[f].asked = <<>> /\ net[f].inbox = <<>>
    BY SMTT(60), <1>0, <1>1, <1>3, ResponseRead
  <2>2. n \in BOOLEAN /\ terminate(t, n, net)
    BY <1>3
  <2> HIDE DEF net, n
  <2>3. Parts5' /\ f \in Fds /\ \A g \in Fds \ {f} : epoll'[g] = epoll[g]
    BY SMTT(60), <1>1, <1>3, <2>1, <2>2, TaskEnds
  <2> QED
    BY <1>1, <2>3 DEF Others
<1>4. CASE /\ conn[f].inbox # <<>> /\ ~Head(conn[f].inbox).last /\ conn' = Rest(f)
           /\ UNCHANGED <<task, expire, heap, pool, epoll, m_task_pool, live, call>>
  <2>1. UNCHANGED <<m_task_queue, m_task_pool, live, task, expire, heap, pool, epoll, call>> /\ epoll' = epoll /\ task' = task
    BY <1>4
  <2>2. Active' = Active /\ (ConnInv' => Parts5')
    BY <1>0, <2>1, PartsStay
  <2>3. task[t].state = "RECV" /\ at # "gone"
    BY DEF Receive
  <2>4. ConnInv'
    BY <1>0, <1>1, <1>4, <2>1, <2>2, <2>3, ConnReceives
  <2> QED
    BY <1>0, <2>1, <2>2, <2>4 DEF Others
<1>5. CASE Fail(t)
  BY <1>5, TaskErrs DEF Others
<1> QED
  BY <1>1, <1>2, <1>3, <1>4, <1>5 DEF Receive, Rest

\* Task::handle_event
LEMMA TaskStep ==
  ASSUME DataLaws, Parts5, at = "events", at' = at, m_task_queue' = m_task_queue, NEW t \in Active, TaskEvent(t)
  PROVE  Parts5' /\ Others(task[t].fd) /\ pipe' = pipe
<1>0. TaskInv /\ CallInv /\ FdInv /\ task[t].fd \in Fds /\ at' \in Places
  BY UsedFacts DEF Parts5, CallInv
<1>1. CASE (Connected(t) \/ Send(t) \/ Receive(t)) /\ UNCHANGED pipe
  BY <1>1, ConnectedStep, SendStep, ReceiveStep
<1>2. CASE UNCHANGED <<task, expire, heap, pool, epoll, m_task_pool, live, conn, call, pipe>>
  <2>1. /\ UNCHANGED <<m_task_queue, m_task_pool, live, task, expire, heap, pool, epoll, call>>
        /\ conn' = conn /\ epoll' = epoll /\ pipe' = pipe
    BY <1>2
  <2>2. Parts5'
    BY <1>0, <2>1, PartsStay
  <2> QED
    BY <1>0, <2>1, <2>2 DEF Others
<1> QED
  BY <1>1, <1>2 DEF TaskEvent

\* MonitorServerCloseHandler::handle_event
LEMMA MonitorStep ==
  ASSUME DataLaws, Parts5, at = "events", at' = at, m_task_queue' = m_task_queue,
         NEW f \in Fds, NEW h \in Handlers, epoll[f] = MonitorHandler(h), MonitorEvent(h)
  PROVE  Parts5' /\ Others(f) /\ pipe' = pipe
<1>0. TaskInv /\ HeapInv /\ CallInv /\ FdInv /\ ConnInv /\ at' \in Places
  BY DEF Parts5, CallInv
<1>1. /\ task' = task /\ expire' = expire /\ heap' = heap /\ m_task_pool' = m_task_pool
      /\ live' = live /\ call' = call /\ pipe' = pipe
  BY DEF MonitorEvent
<1>2. Active' = Active /\ Carriers' = Carriers
  BY <1>1 DEF Active, Carriers
<1>3. FdInv' /\ conn' = [conn EXCEPT ![f] = NoConn] /\ epoll' = [epoll EXCEPT ![f] = NoHandler]
  BY <1>0, <1>2, FdMonitored
<1>4. CloseFd(f, conn)
  BY <1>3 DEF CloseFd
<1>5. conn \in [Fds -> ConnRecords]
  BY <1>0 DEF ConnInv
<1>6. ConnInv'
  BY <1>0, <1>1, <1>2, <1>4, <1>5, ConnCloses
<1>7. TaskInv'
  BY <1>0, <1>1, <1>2 DEF TaskInv
<1>8. HeapInv'
  BY <1>0, <1>1 DEF HeapInv
<1>9. CallInv'
  BY <1>0, <1>1, <1>2, CallsStay
<1>10. Others(f)
  <2>1. epoll \in [Fds -> EpollHandlers]
    BY <1>0 DEF FdInv, FdTypes
  <2>2. \A g \in Fds \ {f} : epoll'[g] = epoll[g]
    BY <1>3, <2>1
  <2> QED
    BY <2>2 DEF Others
<1> QED
  BY <1>1, <1>3, <1>6, <1>7, <1>8, <1>9, <1>10 DEF Parts5

\* handle_events: one event
LEMMA HandleEventStep ==
  ASSUME DataLaws, ClientInv, NEW e \in batch, HandleEvent(e)
  PROVE  ClientInv'
<1>0. Parts5 /\ BatchInv /\ TaskInv /\ CallInv /\ FdInv
  BY DEF ClientInv, Parts5
<1>1. /\ at = "events" /\ batch' = batch \ {e} /\ m_task_queue' = m_task_queue /\ at' = at
      /\ m_exit' = m_exit /\ m_exit' \in BOOLEAN /\ at' \in Places
  BY <1>0 DEF HandleEvent, BatchInv, CallInv
<1>2. CASE e.handler.kind = "pipe"
  <2>1. PipeEvent
    BY <1>2 DEF HandleEvent
  <2>2. /\ UNCHANGED <<m_task_queue, m_task_pool, live, task, expire, heap, pool, epoll, call>>
        /\ conn' = conn /\ epoll' = epoll /\ pipe' \in BOOLEAN
    BY <1>1, <2>1 DEF PipeEvent
  <2>3. Parts5'
    BY <1>0, <1>1, <2>2, PartsStay
  <2>4. BatchInv'
    BY <1>0, <1>1, <2>2, BatchStays
  <2> QED
    BY <2>3, <2>4 DEF ClientInv, Parts5
<1>3. ASSUME NEW t \in Active, task[t].fd \in Fds, e = [handler |-> epoll[task[t].fd], fd |-> task[t].fd],
             e.handler.kind = "task", e.handler.id = t
      PROVE  ClientInv'
  <2>1. TaskEvent(t)
    BY <1>3 DEF HandleEvent
  <2>2. Parts5' /\ Others(task[t].fd) /\ pipe' = pipe
    BY <1>0, <1>1, <2>1, TaskStep
  <2>3. pipe' \in BOOLEAN /\ \A g \in Fds \ {task[t].fd} : epoll'[g] = epoll[g]
    BY <1>0, <2>2 DEF BatchInv, Others
  <2>4. BatchInv'
    <3>1. PICK f \in Fds : f = task[t].fd
      BY <1>3
    <3>2. e = [handler |-> epoll[f], fd |-> f] /\ \A g \in Fds \ {f} : epoll'[g] = epoll[g]
      BY <1>3, <2>3, <3>1
    <3> QED
      BY <1>0, <1>1, <2>3, <3>2, BatchHandled
  <2> QED
    BY <2>2, <2>4 DEF ClientInv, Parts5
<1>4. ASSUME NEW f \in Fds, NEW h \in Handlers, epoll[f] = MonitorHandler(h),
             e = [handler |-> epoll[f], fd |-> f], e.handler.kind = "monitor", e.handler.id = h
      PROVE  ClientInv'
  <2>1. MonitorEvent(h)
    BY <1>4 DEF HandleEvent
  <2>2. Parts5' /\ Others(f) /\ pipe' = pipe
    BY <1>0, <1>1, <1>4, <2>1, MonitorStep
  <2>3. pipe' \in BOOLEAN /\ \A g \in Fds \ {f} : epoll'[g] = epoll[g]
    BY <1>0, <2>2 DEF BatchInv, Others
  <2>4. BatchInv'
    BY <1>0, <1>1, <1>4, <2>3, BatchHandled
  <2> QED
    BY <2>2, <2>4 DEF ClientInv, Parts5
<1> QED
  BY <1>0, <1>2, <1>3, <1>4, EventFacts

\* check_timeout: one turn
LEMMA TimeoutStep ==
  ASSUME DataLaws, ClientInv, check_timeout
  PROVE  ClientInv'
<1>0. Parts5 /\ BatchInv /\ TaskInv /\ HeapInv /\ CallInv /\ FdInv
  BY DEF ClientInv, Parts5
<1>1. /\ at = "events" /\ batch = {} /\ m_task_queue' = m_task_queue /\ batch' = {}
      /\ pipe' \in BOOLEAN /\ m_exit' \in BOOLEAN
  BY <1>0 DEF check_timeout, BatchInv
<1>2. BatchInv'
  BY <1>1, BatchEmpty
<1>3. CASE Expired /\ Fail(Front(heap)) /\ UNCHANGED at
  <2>1. Front(heap) \in Active
    <3>1. heap.size # 0
      BY SMTT(60), <1>3 DEF Expired
    <3>2. LawOfFront
      BY DEF DataLaws
    <3> QED
      BY <3>1, <3>2, <1>0 DEF LawOfFront, HeapInv, Active
  <2>2. Parts5'
    BY <1>0, <1>1, <1>3, <2>1, TaskErrs
  <2> QED
    BY <1>2, <2>2 DEF ClientInv, Parts5
<1>4. CASE /\ at' = "tasks"
           /\ UNCHANGED <<m_task_pool, live, task, expire, heap, pool, epoll, conn, call>>
  <2>1. UNCHANGED <<m_task_queue, m_task_pool, live, task, expire, heap, pool, epoll, call>> /\ conn' = conn
    BY <1>1, <1>4
  <2>2. at' \in Places /\ (at' = "gone" <=> at = "gone")
    BY <1>1, <1>4 DEF Places
  <2>3. Parts5'
    BY <1>0, <2>1, <2>2, PartsStay
  <2> QED
    BY <1>2, <2>3 DEF ClientInv, Parts5
<1> QED
  BY <1>3, <1>4 DEF check_timeout

\* A task has begun on a descriptor
Started(t, f) ==
  /\ TaskInv' /\ HeapInv' /\ CallInv' /\ Active' = Active \cup {t} /\ t \in Tasks \ Active
  /\ task'[t].fd = f /\ \A u \in Tasks \ {t} : task'[u] = task[u]
  /\ epoll' = [epoll EXCEPT ![f] = TaskHandler(t)]

\* A queued task is begun.
LEMMA BeginStep ==
  ASSUME DataLaws, Parts5, m_task_queue # <<>>, NEW t, t = Head(m_task_queue), m_task_queue' = Tail(m_task_queue),
         heap.size < MaxConcurrent, NEW f \in Fds, NEW s \in {"CONNECT", "SEND"}, NEW d \in Int,
         Begin(t, f, s, d), at' = at
  PROVE  Started(t, f)
<1>0. TaskInv /\ HeapInv /\ CallInv /\ at' \in Places
  BY DEF Parts5, CallInv
<1>1. /\ task' = [task EXCEPT ![t].state = s, ![t].fd = f]
      /\ epoll' = [epoll EXCEPT ![f] = TaskHandler(t)]
      /\ expire' = [expire EXCEPT ![t] = d] /\ heap' = Insert(heap, expire', t)
      /\ m_task_pool' = m_task_pool /\ live' = live /\ call' = call
  BY DEF Begin
<1>2. t \in Tasks /\ t \notin Active
  BY <1>0, HeadFacts
<1>3. HeapInv' /\ Active' = Active \cup {t}
  BY <1>0, <1>1, <1>2, HeapEnters
<1>4. /\ TaskInv' /\ Carriers' = Carriers /\ task'[t].fd = f /\ task'[t].call = task[t].call
      /\ \A u \in Tasks \ {t} : task'[u] = task[u]
  <2>1. task' = Begun(task, t, s, f) /\ m_task_pool' = m_task_pool /\ live' = live
    BY <1>1 DEF Begun
  <2>2. TaskInv /\ Active' = Active \cup {t}
    BY <1>0, <1>3
  <2> QED
    BY <2>1, <2>2, TaskBegins
<1>5. CallInv'
  <2>1. Carriers \subseteq Tasks
    BY <1>0 DEF TaskInv
  <2>2. \A u \in Carriers : task'[u].call = task[u].call
    BY <1>4, <2>1
  <2> QED
    BY <1>0, <1>1, <1>4, <2>2, CallsStay
<1> QED
  BY <1>1, <1>2, <1>3, <1>4, <1>5 DEF Started

\* init_task of a task for which a connection was kept
LEMMA TakeKeptStep ==
  ASSUME DataLaws, Parts5, CanTake, NEW t, t = Head(m_task_queue), m_task_queue' = Tail(m_task_queue),
         at = "tasks", at' = at, TakeKept(t)
  PROVE  Parts5'
<1>0. TaskInv /\ HeapInv /\ CallInv /\ FdInv /\ ConnInv
  BY DEF Parts5
<1>1. heap.size < MaxConcurrent /\ m_task_queue # <<>>
  BY DEF CanTake
<1>2. /\ t \in Tasks /\ t \notin Active /\ AddrOf(t) \in Addrs
  BY <1>0, <1>1, HeadFacts, AddrFacts
<1>3. PICK f : f = Top(m_fds[AddrOf(t)])
  OBVIOUS
<1>4. m_fds[AddrOf(t)] # <<>> /\ Begin(t, f, "SEND", SendTimeout) /\ conn' = conn
  BY <1>3 DEF TakeKept
<1>5. f \in Fds
  <2>1. m_fds[AddrOf(t)] \in Seq(Fds)
    BY <1>0, <1>2 DEF FdInv, FdTypes
  <2> QED
    BY <2>1, <1>3, <1>4, PopFacts
<1>6. /\ TaskInv' /\ HeapInv' /\ CallInv' /\ Active' = Active \cup {t}
      /\ task'[t].fd = f /\ \A u \in Tasks \ {t} : task'[u] = task[u]
  <2> DEFINE s == "SEND"
  <2>1. s \in {"CONNECT", "SEND"} /\ SendTimeout \in Int /\ Begin(t, f, s, SendTimeout)
    BY SMTT(60), <1>4, ClientAssumption
  <2> HIDE DEF s
  <2> QED
    BY SMTT(60), <1>1, <1>5, <2>1, BeginStep DEF Started
<1>7. FdInv' /\ m_fd_info[f] # <<>> /\ epoll' = [epoll EXCEPT ![f] = TaskHandler(t)]
  BY <1>0, <1>2, <1>3, <1>6, FdTaken
<1>8. epoll[f] = MonitorHandler(m_fd_info[f][2])
  BY <1>0, <1>5, <1>7 DEF FdInv, FdKnown
<1>9. \A u \in Active : task[u].fd # f /\ u \in Tasks \ {t}
  <2>1. \A u \in Active : epoll[task[u].fd] = TaskHandler(u)
    BY <1>0 DEF FdInv, FdTasks
  <2>2. Active \subseteq Tasks
    BY <1>0 DEF TaskInv
  <2>3. \A u : TaskHandler(u) # epoll[f]
    BY SMTT(60), <1>8, HandlerFacts
  <2> QED
    BY <1>2, <2>1, <2>2, <2>3
<1>10. conn[f].asked = <<>> /\ conn[f].inbox = <<>>
  BY <1>0, <1>5, <1>9, QuietFacts
<1>11. conn[f].state # "none" /\ conn \in [Fds -> ConnRecords]
  BY <1>0, <1>5, <1>8, HandlerFacts DEF ConnInv
<1>12. epoll'[f] = TaskHandler(t) /\ \A g \in Fds \ {f} : epoll'[g] = epoll[g]
  BY <1>0, <1>5, <1>7 DEF FdInv, FdTypes
<1>13. epoll'[f] # NoHandler
  BY <1>12, HandlerFacts
<1>14. \A u \in Active : task[u].fd # f => u \in Active' /\ task'[u] = task[u]
  BY <1>6, <1>9
<1>15. ConnInv'
  BY <1>0, <1>4, <1>5, <1>10, <1>11, <1>12, <1>13, <1>14, ConnQuiet
<1> QED
  BY <1>6, <1>7, <1>15 DEF Parts5

\* socket: a descriptor that is not open
LEMMA NewDescriptor ==
  ASSUME DataLaws, Fds \ Open # {}
  PROVE  Min(Fds \ Open) \in Fds /\ conn[Min(Fds \ Open)].state = "none"
<1> DEFINE X == Fds \ Open
<1>1. X \subseteq Nat /\ X # {}
  BY ClientAssumption
<1> HIDE DEF X
<1>2. Min(X) \in X
  BY <1>1, LeastIsThere
<1> QED
  BY <1>2 DEF X, Open

\* init_task of a task on a new connection
LEMMA NewConnectionStep ==
  ASSUME DataLaws, Parts5, CanTake, NEW t, t = Head(m_task_queue), m_task_queue' = Tail(m_task_queue),
         at = "tasks", at' = at, NEW f \in Fds, conn[f].state = "none",
         NEW c \in ConnStates, c # "none", conn' = WithState(conn, f, c),
         NEW s \in {"CONNECT", "SEND"}, NEW d \in Int, Begin(t, f, s, d), UNCHANGED pool
  PROVE  Parts5'
<1>0. TaskInv /\ HeapInv /\ CallInv /\ FdInv /\ ConnInv
  BY DEF Parts5
<1>1. heap.size < MaxConcurrent /\ m_task_queue # <<>>
  BY DEF CanTake
<1>2. epoll[f] = NoHandler /\ conn[f] = NoConn /\ conn \in [Fds -> ConnRecords]
  BY <1>0 DEF ConnInv
<1>3. /\ TaskInv' /\ HeapInv' /\ CallInv' /\ Active' = Active \cup {t} /\ t \in Tasks \ Active
      /\ task'[t].fd = f /\ \A u \in Tasks \ {t} : task'[u] = task[u]
      /\ epoll' = [epoll EXCEPT ![f] = TaskHandler(t)]
  <2>1. Started(t, f)
    BY <1>1, BeginStep
  <2> QED
    BY <2>1 DEF Started
<1>4. m_fds' = m_fds /\ m_fd_info' = m_fd_info /\ monitor' = monitor
  BY DEF pool
<1>5. FdInv'
  BY <1>0, <1>2, <1>3, <1>4, FdOpens
<1>6. /\ conn' \in [Fds -> ConnRecords] /\ \A g \in Fds \ {f} : conn'[g] = conn[g]
      /\ conn'[f].state = c /\ conn'[f].asked = conn[f].asked /\ conn'[f].inbox = conn[f].inbox
  BY SMTT(60), <1>2, ConnStateSet
<1>7. conn[f].asked = <<>> /\ conn[f].inbox = <<>>
  BY <1>2, ConnParts
<1>8. epoll'[f] = TaskHandler(t) /\ \A g \in Fds \ {f} : epoll'[g] = epoll[g]
  BY <1>0, <1>3 DEF FdInv, FdTypes
<1>9. epoll'[f] # NoHandler
  BY <1>8, HandlerFacts
<1>10. \A u \in Active : task[u].fd # f => u \in Active' /\ task'[u] = task[u]
  BY <1>0, <1>3 DEF TaskInv
<1>11. ConnInv'
  BY <1>0, <1>6, <1>7, <1>8, <1>9, <1>10, ConnQuiet
<1> QED
  BY <1>3, <1>5, <1>11 DEF Parts5

\* init_task of a task for which connect fails: it ends with its callback.
LEMMA NoConnectionStep ==
  ASSUME Parts5, CanTake, NEW t, t = Head(m_task_queue), m_task_queue' = Tail(m_task_queue),
         at = "tasks", at' = at, Process(t), task' = [task EXCEPT ![t] = Blank], return_task(t),
         UNCHANGED <<expire, heap, epoll, conn>>, UNCHANGED pool
  PROVE  Parts5'
<1>0. TaskInv /\ HeapInv /\ CallInv /\ FdInv /\ ConnInv
  BY DEF Parts5
<1>1. /\ m_task_queue # <<>> /\ expire' = expire /\ heap' = heap /\ epoll' = epoll /\ conn' = conn
      /\ m_fds' = m_fds /\ m_fd_info' = m_fd_info /\ monitor' = monitor
  BY DEF CanTake, pool
<1>2. Active' = Active
  BY <1>1 DEF Active
<1>3. /\ TaskInv' /\ Carriers' = Carriers \ {t} /\ t \in Carriers
      /\ \A u \in Tasks \ {t} : task'[u] = task[u]
  BY <1>0, <1>1, <1>2, TaskFails
<1>4. t \notin Active
  BY <1>0, <1>1, HeadFacts
<1>5. Active \subseteq Tasks /\ Carriers \subseteq Tasks
  BY <1>0 DEF TaskInv
<1>6. HeapInv'
  BY <1>0, <1>1 DEF HeapInv
<1>7. CallInv'
  <2>1. at # "gone" /\ at' # "gone" /\ at' \in Places
    BY DEF Places
  <2>2. \A u \in Carriers \ {t} : task'[u].call = task[u].call
    BY <1>3, <1>5
  <2> QED
    BY <1>0, <1>3, <2>1, <2>2, CallEnds
<1>8. \A u \in Active : task'[u] = task[u]
  BY <1>3, <1>4, <1>5
<1>9. FdInv'
  BY <1>0, <1>1, <1>2, <1>8, FdStays
<1>10. ConnInv'
  BY <1>0, <1>1, <1>2, <1>8, ConnStays
<1> QED
  BY <1>3, <1>6, <1>7, <1>9, <1>10 DEF Parts5

\* get_task and init_task
LEMMA InitTaskStep ==
  ASSUME DataLaws, ClientInv, init_task
  PROVE  ClientInv'
<1>0. Parts5 /\ BatchInv
  BY DEF ClientInv, Parts5
<1>1. /\ at = "tasks" /\ batch' = batch /\ batch' = {} /\ pipe' \in BOOLEAN /\ m_exit' \in BOOLEAN
  BY <1>0 DEF init_task, BatchInv
<1>2. BatchInv'
  BY <1>1, BatchEmpty
<1>3. PICK t : t = Head(m_task_queue)
  OBVIOUS
<1>4. CASE CanTake /\ m_task_queue' = Tail(m_task_queue) /\ (TakeKept(t) \/ Connect(t)) /\ UNCHANGED at
  <2>3. Parts5'
    <3>1. CASE TakeKept(t)
      BY <1>0, <1>1, <1>3, <1>4, <3>1, TakeKeptStep
    <3>2. CASE Connect(t)
      <4>1. PICK f : f = Min(Fds \ Open)
        OBVIOUS
      <4>2. CASE Fds \ Open # {} /\ conn' = WithState(conn, f, "up") /\ Begin(t, f, "SEND", SendTimeout) /\ UNCHANGED pool
        <5> DEFINE c == "up"
                   s == "SEND"
        <5>1. /\ c \in ConnStates /\ c # "none" /\ s \in {"CONNECT", "SEND"} /\ SendTimeout \in Int
              /\ conn' = WithState(conn, f, c) /\ Begin(t, f, s, SendTimeout)
          BY SMTT(60), <4>2, ClientAssumption DEF ConnStates
        <5>2. f \in Fds /\ conn[f].state = "none"
          BY <4>1, <4>2, NewDescriptor
        <5> HIDE DEF c, s
        <5> QED
          BY <1>0, <1>1, <1>3, <1>4, <4>2, <5>1, <5>2, NewConnectionStep
      <4>3. CASE Fds \ Open # {} /\ conn' = WithState(conn, f, "connecting") /\ Begin(t, f, "CONNECT", ConnTimeout) /\ UNCHANGED pool
        <5> DEFINE c == "connecting"
                   s == "CONNECT"
        <5>1. /\ c \in ConnStates /\ c # "none" /\ s \in {"CONNECT", "SEND"} /\ ConnTimeout \in Int
              /\ conn' = WithState(conn, f, c) /\ Begin(t, f, s, ConnTimeout)
          BY SMTT(60), <4>3, ClientAssumption DEF ConnStates
        <5>2. f \in Fds /\ conn[f].state = "none"
          BY <4>1, <4>3, NewDescriptor
        <5> HIDE DEF c, s
        <5> QED
          BY <1>0, <1>1, <1>3, <1>4, <4>3, <5>1, <5>2, NewConnectionStep
      <4>4. CASE /\ Process(t) /\ task' = [task EXCEPT ![t] = Blank] /\ return_task(t)
                 /\ UNCHANGED <<expire, heap, epoll, conn>> /\ UNCHANGED pool
        BY <1>0, <1>1, <1>3, <1>4, <4>4, NoConnectionStep
      <4> QED
        BY <3>2, <4>1, <4>2, <4>3, <4>4 DEF Connect, WithState
    <3> QED
      BY <1>4, <3>1, <3>2
  <2> QED
    BY <1>2, <2>3 DEF ClientInv, Parts5
<1>5. CASE /\ at' = "wait"
           /\ UNCHANGED <<m_task_queue, m_task_pool, live, task, expire, heap, pool, epoll, conn, call>>
  <2>1. UNCHANGED <<m_task_queue, m_task_pool, live, task, expire, heap, pool, epoll, call>> /\ conn' = conn
    BY <1>5
  <2>2. at' \in Places /\ (at' = "gone" <=> at = "gone")
    BY <1>1, <1>5 DEF Places
  <2>3. Parts5'
    BY <1>0, <2>1, <2>2, PartsStay
  <2> QED
    BY <1>2, <2>3 DEF ClientInv, Parts5
<1> QED
  BY <1>3, <1>4, <1>5 DEF init_task

\* Call
LEMMA CallStep ==
  ASSUME DataLaws, ClientInv, NEW c \in Calls, Call(c)
  PROVE  ClientInv'
<1>0. TaskInv /\ HeapInv /\ CallInv /\ FdInv /\ ConnInv /\ BatchInv
  BY DEF ClientInv
<1>1. /\ expire' = expire /\ heap' = heap /\ epoll' = epoll /\ batch' = batch /\ at' = at
      /\ m_exit' = m_exit /\ conn' = conn
      /\ m_fds' = m_fds /\ m_fd_info' = m_fd_info /\ monitor' = monitor
  BY DEF Call, pool
<1>2. pipe' \in BOOLEAN
  <2>1. pipe' = pipe \/ pipe' = TRUE
    BY DEF Call
  <2> QED
    BY <2>1, <1>0 DEF BatchInv
<1>3. m_exit' \in BOOLEAN
  BY <1>0, <1>1 DEF BatchInv
<1>4. Active' = Active
  BY <1>1 DEF Active
<1>5. TaskInv'
  BY <1>0, CallTasks
<1>6. \A u \in Active : task'[u] = task[u]
  <2>1. \A u \in Active : u \in Tasks /\ u \in Carriers
    BY <1>0 DEF TaskInv, Carriers
  <2> QED
    BY <2>1, <1>0, CallTasks
<1>7. HeapInv'
  BY <1>0, <1>1 DEF HeapInv
<1>8. CallInv'
  BY <1>0, CallCalls
<1>9. FdInv'
  BY <1>0, <1>1, <1>4, <1>6, FdStays
<1>10. ConnInv'
  BY <1>0, <1>1, <1>4, <1>6, ConnStays
<1>11. BatchInv'
  BY <1>0, <1>1, <1>2, <1>3, BatchStays
<1> QED
  BY <1>5, <1>7, <1>8, <1>9, <1>10, <1>11 DEF ClientInv

\* Nothing of the five parts changes.
LEMMA QuietStep ==
  ASSUME ClientInv, UNCHANGED <<m_task_queue, m_task_pool, live, task, expire, heap, pool, epoll, call>>,
         conn' = conn, at' \in Places, at' = "gone" <=> at = "gone", BatchInv'
  PROVE  ClientInv'
<1>1. Parts5
  BY DEF ClientInv, Parts5
<1>2. Parts5'
  BY <1>1, PartsStay
<1> QED
  BY <1>2 DEF ClientInv, Parts5

\* Stop
LEMMA StopStep ==
  ASSUME ClientInv, Stop
  PROVE  ClientInv'
<1>1. /\ UNCHANGED <<m_task_queue, m_task_pool, live, task, expire, heap, pool, epoll, call>>
      /\ conn' = conn /\ at' = at /\ batch' = batch /\ epoll' = epoll /\ pipe' \in BOOLEAN /\ m_exit' \in BOOLEAN
  BY DEF Stop
<1>2. BatchInv'
  BY <1>1, BatchStays DEF ClientInv
<1>3. at' \in Places
  BY <1>1 DEF ClientInv, CallInv
<1> QED
  BY <1>1, <1>2, <1>3, QuietStep

\* epoll_wait
LEMMA WaitStep ==
  ASSUME ClientInv, Wait
  PROVE  ClientInv'
<1>1. /\ UNCHANGED <<m_task_queue, m_task_pool, live, task, expire, heap, pool, epoll, call>>
      /\ conn' = conn /\ at = "wait" /\ at' \in {"exit", "events"}
  BY DEF Wait
<1>2. BatchInv'
  BY BatchWaits DEF ClientInv
<1>3. at' \in Places /\ (at' = "gone" <=> at = "gone")
  BY <1>1 DEF Places
<1> QED
  BY <1>1, <1>2, <1>3, QuietStep

\* The network
LEMMA NetworkStep ==
  ASSUME ClientInv, NEW f \in Fds, Network(f) \/ Answer(f)
  PROVE  ClientInv'
<1>1. /\ UNCHANGED <<m_task_queue, m_task_pool, live, task, expire, heap, pool, epoll, call>>
      /\ at' = at /\ batch' = batch /\ epoll' = epoll /\ pipe' = pipe /\ m_exit' = m_exit
  BY DEF Network, Answer
<1>2. BatchInv'
  <2>1. pipe' \in BOOLEAN /\ m_exit' \in BOOLEAN
    BY <1>1 DEF ClientInv, BatchInv
  <2> QED
    BY <1>1, <2>1, BatchStays DEF ClientInv
<1>3. at' \in Places
  BY <1>1 DEF ClientInv, CallInv
<1>4. ConnInv'
  BY ConnNetwork, ConnAnswer DEF ClientInv
<1>5. Parts5
  BY DEF ClientInv, Parts5
<1>6. Parts5'
  BY <1>1, <1>3, <1>4, <1>5, PartsStay
<1> QED
  BY <1>2, <1>6 DEF ClientInv, Parts5

\* The clock
LEMMA TickStep ==
  ASSUME DataLaws, ClientInv, Tick
  PROVE  ClientInv'
<1>0. TaskInv /\ HeapInv /\ CallInv /\ FdInv /\ ConnInv /\ BatchInv
  BY DEF ClientInv
<1>1. /\ m_task_queue' = m_task_queue /\ m_task_pool' = m_task_pool /\ live' = live /\ task' = task
      /\ epoll' = epoll /\ call' = call /\ conn' = conn
      /\ m_fds' = m_fds /\ m_fd_info' = m_fd_info /\ monitor' = monitor
      /\ at' = at /\ batch' = batch /\ pipe' = pipe /\ m_exit' = m_exit
  BY DEF Tick, pool
<1>2. HeapInv' /\ Active' = Active
  BY <1>0, HeapTicks
<1>3. Carriers' = Carriers
  BY <1>1, <1>2 DEF Carriers
<1>4. TaskInv'
  BY <1>0, <1>1, <1>2, <1>3 DEF TaskInv
<1>5. CallInv'
  <2>1. at' \in Places
    BY <1>0, <1>1 DEF CallInv
  <2> QED
    BY <1>0, <1>1, <1>3, <2>1, CallsStay
<1>6. FdInv'
  BY <1>0, <1>1, <1>2, FdStays
<1>7. ConnInv'
  BY <1>0, <1>1, <1>2, ConnStays
<1>8. BatchInv'
  <2>1. pipe' \in BOOLEAN /\ m_exit' \in BOOLEAN
    BY <1>0, <1>1 DEF BatchInv
  <2> QED
    BY <1>0, <1>1, <2>1, BatchStays
<1> QED
  BY <1>2, <1>4, <1>5, <1>6, <1>7, <1>8 DEF ClientInv

-------------------------------------------------------------------------------
(* A client that is new, and one that is destroyed *)

\* No task is under way or queued, no connection is kept.
Bare ==
  /\ m_task_queue = <<>> /\ m_task_pool = <<>>
  /\ task = [t \in Tasks |-> Blank]
  /\ expire = [t \in Tasks |-> 0] /\ heap = Empty(Tasks)
  /\ m_fds = [a \in Addrs |-> <<>>] /\ m_fd_info = [f \in Fds |-> <<>>]
  /\ monitor = [free |-> <<>>, fd |-> [h \in Handlers |-> None]]
  /\ epoll = [f \in Fds |-> NoHandler]

\* Such a client has tasks, heap and descriptors right.
LEMMA BareFacts ==
  LawOfEmpty /\ Bare /\ live \subseteq Tasks =>
    TaskInv /\ HeapInv /\ FdInv /\ Active = {} /\ Carriers = {}
<1> SUFFICES ASSUME LawOfEmpty, Bare, live \subseteq Tasks
             PROVE  TaskInv /\ HeapInv /\ FdInv /\ Active = {} /\ Carriers = {}
  OBVIOUS
<1>1. /\ m_task_queue = <<>> /\ m_task_pool = <<>>
      /\ task = [t \in Tasks |-> Blank]
      /\ expire = [t \in Tasks |-> 0] /\ heap = Empty(Tasks)
      /\ m_fds = [a \in Addrs |-> <<>>] /\ m_fd_info = [f \in Fds |-> <<>>]
      /\ monitor = [free |-> <<>>, fd |-> [h \in Handlers |-> None]]
      /\ epoll = [f \in Fds |-> NoHandler]
  BY DEF Bare
<1>2. /\ \A S : <<>> \in Seq(S) 
      /\ Range(<<>>) = {} /\ Distinct(<<>>) /\ Len(<<>>) = 0
  <2>1. Len(<<>>) = 0 /\ 1..0 = {} /\ \A S : <<>> \in Seq(S)
    BY SMTT(60)
  <2> QED
    BY <2>1, EmptyRange DEF Distinct
<1>5. HeapInv /\ Members(heap) = {}
  BY <1>1 DEF LawOfEmpty, HeapInv
<1>6. Active = {} /\ Carriers = {}
  BY <1>1, <1>2, <1>5 DEF Active, Carriers
<1>7. TaskInv
  <2>1. 0 <= TaskPoolLimit
    BY SMTT(60), ClientAssumption
  <2>2. task \in [Tasks -> TaskRecords] /\ \A t \in Tasks : task[t] = Blank
    BY <1>1, BlankFacts
  <2>3. Len(m_task_pool) <= TaskPoolLimit
    BY <2>1, <1>1, <1>2
  <2>4. /\ m_task_queue \in Seq(Tasks) /\ m_task_pool \in Seq(Tasks)
        /\ Distinct(m_task_queue) /\ Distinct(m_task_pool)
        /\ Range(m_task_queue) = {} /\ Range(m_task_pool) = {}
    BY <1>1, <1>2
  <2> QED
    BY <1>6, <2>2, <2>3, <2>4 DEF TaskInv
<1>8. FdInv
  <2>1. 0 <= MaxConcurrent
    BY SMTT(60), ClientAssumption
  <2>2. /\ m_fds \in [Addrs -> Seq(Fds)] /\ \A a \in Addrs : m_fds[a] = <<>>
    BY <1>1, <1>2
  <2>3. /\ m_fd_info \in [Fds -> {<<>>} \cup (Addrs \X Handlers)] /\ \A f \in Fds : m_fd_info[f] = <<>>
    BY <1>1
  <2>4. /\ epoll \in [Fds -> EpollHandlers] /\ \A f \in Fds : epoll[f] = NoHandler
    BY <1>1 DEF EpollHandlers
  <2>5. /\ monitor.free = <<>> /\ \A h \in Handlers : monitor.fd[h] = None
    BY <1>1
  <2>6. monitor \in [free : Seq(Handlers), fd : [Handlers -> Fds \cup {None}]]
    <3>1. <<>> \in Seq(Handlers) /\ [h \in Handlers |-> None] \in [Handlers -> Fds \cup {None}]
      BY <1>2
    <3> QED
      BY <1>1, <3>1
  <2>7. \A a \in Addrs : Distinct(m_fds[a]) /\ Len(m_fds[a]) <= MaxConcurrent /\ Range(m_fds[a]) = {}
    BY <2>1, <2>2, <1>2
  <2>8. Range(monitor.free) = {} /\ Distinct(monitor.free)
    BY <2>5, <1>2
  <2> QED
    BY <1>6, <2>2, <2>3, <2>4, <2>5, <2>6, <2>7, <2>8, HandlerFacts DEF FdInv, FdTypes, FdTasks, FdKnown, FdLists, FdMonitors, FdFree
<1> QED
  BY <1>5, <1>6, <1>7, <1>8

\* The initial states
LEMMA ClientInit ==
  ASSUME DataLaws
  PROVE  Init => ClientInv
<1> SUFFICES ASSUME Init PROVE ClientInv
  OBVIOUS
<1>1. Bare /\ live \subseteq Tasks
  BY DEF Init, Bare
<1>2. TaskInv /\ HeapInv /\ FdInv /\ Active = {} /\ Carriers = {}
  BY <1>1, BareFacts DEF DataLaws
<1>3. /\ batch = {} /\ at = "wait" /\ pipe = FALSE /\ m_exit = FALSE
      /\ conn = [f \in Fds |-> NoConn] /\ call = [c \in Calls |-> "idle"]
      /\ epoll = [f \in Fds |-> NoHandler]
  BY DEF Init
<1>4. CallInv
  <2>1. call \in [Calls -> Results] /\ at \in Places /\ \A c \in Calls : call[c] # "accepted"
    BY <1>3 DEF Results, Places
  <2> QED
    BY <2>1, <1>2 DEF CallInv
<1>5. ConnInv
  <2>1. conn \in [Fds -> ConnRecords] /\ \A f \in Fds : conn[f] = NoConn /\ epoll[f] = NoHandler
    BY <1>3, ConnParts
  <2>2. ASSUME NEW f \in Fds
        PROVE  /\ conn[f].state # "none" <=> epoll[f] # NoHandler
               /\ conn[f].state = "none" => conn[f] = NoConn
               /\ Answered(f, conn[f])
    <3>1. conn[f].state = "none" /\ conn[f].asked = <<>> /\ conn[f].inbox = <<>>
      BY <2>1, ConnParts
    <3>2. 1..Len(<<>>) = {}
      BY SMTT(60)
    <3> QED
      BY <2>1, <3>1, <3>2 DEF Answered
  <2> QED
    BY <2>1, <2>2 DEF ConnInv
<1>6. BatchInv
  BY <1>3 DEF BatchInv
<1> QED
  BY <1>2, <1>4, <1>5, <1>6 DEF ClientInv

\* The destructor
LEMMA DestroyStep ==
  ASSUME DataLaws, ClientInv, Destroy
  PROVE  ClientInv'
<1>0. TaskInv /\ CallInv /\ ConnInv /\ BatchInv
  BY DEF ClientInv
<1>1. Bare' /\ live' \subseteq Tasks
  <2>1. live' \subseteq live
    BY DEF Destroy
  <2>2. Bare'
    BY DEF Destroy, Bare
  <2> QED
    BY <1>0, <2>1, <2>2 DEF TaskInv
<1>2. (LawOfEmpty /\ Bare /\ live \subseteq Tasks =>
         TaskInv /\ HeapInv /\ FdInv /\ Active = {} /\ Carriers = {})'
  BY BareFacts, PTL
<1>2a. LawOfEmpty'
  BY DEF DataLaws
<1>3. TaskInv' /\ HeapInv' /\ FdInv' /\ Carriers' = {}
  BY <1>1, <1>2, <1>2a
<1>4. /\ at = "exit" /\ at' = "gone" /\ batch' = batch /\ m_exit' = m_exit /\ pipe' = FALSE
  BY DEF Destroy
<1>5. CallInv'
  <2>1. call' \in [Calls -> Results]
    <3>1. \A c \in Calls : call[c] \in Results /\ "dropped" \in Results
      BY <1>0 DEF CallInv, Results
    <3> QED
      BY <3>1 DEF Destroy
  <2>2. at' \in Places
    BY <1>4 DEF Places
  <2> QED
    BY <2>1, <2>2, <1>3, <1>4 DEF CallInv
<1>6. ConnInv'
  <2>1. conn' \in [Fds -> ConnRecords]
    <3>1. \A f \in Fds : conn[f] \in ConnRecords /\ NoConn \in ConnRecords
      BY <1>0, ConnParts DEF ConnInv
    <3>2. \A f \in Fds : conn'[f] \in ConnRecords
      BY <3>1 DEF Destroy
    <3> QED
      BY <3>2 DEF Destroy
  <2> QED
    BY <2>1, <1>4 DEF ConnInv
<1>7. BatchInv'
  <2>1. batch' = {} /\ pipe' \in BOOLEAN /\ m_exit' \in BOOLEAN
    BY <1>0, <1>4 DEF BatchInv
  <2> QED
    BY <2>1, BatchEmpty
<1> QED
  BY <1>3, <1>5, <1>6, <1>7 DEF ClientInv

\* Every step keeps the invariant.
LEMMA ClientStep ==
  ASSUME DataLaws
  PROVE  ClientInv /\ [Next]_vars => ClientInv'
<1> SUFFICES ASSUME ClientInv, [Next]_vars PROVE ClientInv'
  OBVIOUS
<1>1. ASSUME NEW c \in Calls, Call(c) PROVE ClientInv'
  BY <1>1, CallStep
<1>2. CASE Stop
  BY <1>2, StopStep
<1>3. CASE Wait
  BY <1>3, WaitStep
<1>4. ASSUME NEW e \in batch, HandleEvent(e) PROVE ClientInv'
  BY <1>4, HandleEventStep
<1>5. CASE check_timeout
  BY <1>5, TimeoutStep
<1>6. CASE init_task
  BY <1>6, InitTaskStep
<1>7. CASE Destroy
  BY <1>7, DestroyStep
<1>8. ASSUME NEW f \in Fds, Network(f) \/ Answer(f) PROVE ClientInv'
  BY <1>8, NetworkStep
<1>9. CASE Tick
  BY <1>9, TickStep
<1>10. CASE UNCHANGED vars
  <2>1. /\ UNCHANGED <<m_task_queue, m_task_pool, live, task, expire, heap, pool, epoll, call>>
        /\ conn' = conn /\ at' = at /\ batch' = batch /\ epoll' = epoll /\ pipe' = pipe /\ m_exit' = m_exit
    BY <1>10 DEF vars
  <2>2. at' \in Places /\ pipe' \in BOOLEAN /\ m_exit' \in BOOLEAN
    BY <2>1 DEF ClientInv, CallInv, BatchInv
  <2>3. BatchInv'
    BY <2>1, <2>2, BatchStays DEF ClientInv
  <2> QED
    BY <2>1, <2>2, <2>3, QuietStep
<1> QED
  BY <1>1, <1>2, <1>3, <1>4, <1>5, <1>6, <1>7, <1>8, <1>9, <1>10 DEF Next, run

-------------------------------------------------------------------------------
(* What the invariant says *)

\* The answers due and those that have come
LEMMA RangeOfBoth ==
  ASSUME NEW S, NEW a \in Seq(S), NEW b \in Seq(S)
  PROVE  Range(a \o b) \subseteq Range(a) \cup Range(b)
<1> DEFINE c == a \o b
           n == Len(a)
           k == Len(b)
<1>1. /\ n \in Nat /\ k \in Nat /\ c \in Seq(S) /\ Len(c) = n + k
      /\ \A i \in 1..(n + k) : c[i] = IF i <= n THEN a[i] ELSE b[i - n]
  BY SMTT(60)
<1>2. /\ \A i \in 1..n : a[i] \in Range(a)
      /\ \A i \in 1..k : b[i] \in Range(b)
  BY RangeFacts
<1>3. \A x \in Range(c) : \E i \in 1..Len(c) : x = c[i]
  <2> HIDE DEF c
  <2> QED
    BY <1>1, RangeFacts
<1> HIDE DEF c, n, k
<1>4. ASSUME NEW x \in Range(c) PROVE x \in Range(a) \cup Range(b)
  <2>1. PICK i \in 1..Len(c) : x = c[i]
    BY <1>3
  <2>2. i \in 1..n \/ (~(i <= n) /\ i - n \in 1..k)
    BY SMTT(60), <1>1
  <2>3. i \in 1..n => i <= n
    BY SMTT(60), <1>1
  <2>4. i \in 1..(n + k)
    BY <1>1
  <2> QED
    BY <2>1, <2>2, <2>3, <2>4, <1>1, <1>2
<1> QED
  BY <1>4 DEF c

\* The invariant has the types and the limits,
LEMMA InvTypes == ClientInv => TypeOK
<1> SUFFICES ASSUME ClientInv PROVE TypeOK
  OBVIOUS
<1>1. \A t \in Tasks : task[t].state \in {"INIT", "CONNECT", "SEND", "RECV"}
  BY DEF ClientInv, TaskInv, TaskRecords, States
<1>2. at \in {"wait", "events", "tasks", "exit", "gone"} /\ pipe \in BOOLEAN /\ m_exit \in BOOLEAN
  BY DEF ClientInv, CallInv, Places, BatchInv
<1>3. heap.size <= MaxConcurrent /\ Len(m_task_pool) <= TaskPoolLimit
  BY DEF ClientInv, HeapInv, GoodHeap, TaskInv
<1>4. \A a \in Addrs : Len(m_fds[a]) <= MaxConcurrent
  BY DEF ClientInv, FdInv, FdLists
<1> QED
  BY <1>1, <1>2, <1>3, <1>4 DEF TypeOK

\* ... tasks in the pool that nobody has,
LEMMA InvPool ==
  ASSUME DataLaws
  PROVE  ClientInv => PooledTasksAreFree
<1> SUFFICES ASSUME ClientInv PROVE PooledTasksAreFree
  OBVIOUS
<1>1. TaskInv
  BY DEF ClientInv
<1>2. m_task_pool \in Seq(Tasks) /\ Distinct(m_task_pool)
  BY <1>1 DEF TaskInv
<1>3. Cardinality(Range(m_task_pool)) = Len(m_task_pool)
  BY <1>2 DEF DataLaws, LawOfDistinct
<1>4. Range(m_task_pool) \subseteq Tasks
  BY <1>2, RangeFacts
<1>5. \A t \in Range(m_task_pool) : t \in live /\ t \notin Carriers /\ task[t] = Blank
  BY <1>1, <1>4 DEF TaskInv
<1> QED
  BY <1>3, <1>5 DEF PooledTasksAreFree, Carriers

\* ... the earliest deadline at the front,
LEMMA InvFront ==
  ASSUME DataLaws
  PROVE  ClientInv => FrontIsEarliest
<1> SUFFICES ASSUME ClientInv PROVE FrontIsEarliest
  OBVIOUS
<1>1. TaskInv /\ HeapInv
  BY DEF ClientInv
<1>2. LawOfFront
  BY DEF DataLaws
<1>3. \A t \in Active : expire[Front(heap)] <= expire[t] /\ At(heap, heap.index[t]) = t
  BY <1>1, <1>2 DEF LawOfFront, HeapInv, Active
<1>5. \A t \in Active : t \in Tasks /\ task[t].fd # None
  BY <1>1, ClientAssumption DEF TaskInv, None
<1>6. \A t \in Tasks \ Active : task[t].fd = None
  BY <1>1, BlankFacts DEF TaskInv, Carriers
<1>7. Active = {t \in Tasks : task[t].fd # None}
  BY <1>5, <1>6
<1> QED
  BY <1>3, <1>7 DEF FrontIsEarliest

\* ... one owner for every connection,
LEMMA InvOwners ==
  ASSUME DataLaws
  PROVE  ClientInv => ConnectionsOwnedOnce
<1> SUFFICES ASSUME ClientInv, at # "gone" PROVE ConnectionsOwnedOnce
  BY DEF ConnectionsOwnedOnce
<1>1. TaskInv /\ FdInv /\ ConnInv
  BY DEF ClientInv
<1>2. ASSUME NEW a \in Addrs
      PROVE  /\ Cardinality(Kept(a)) = Len(m_fds[a])
             /\ \A f \in Kept(a) : f \in Fds /\ m_fd_info[f] # <<>> /\ m_fd_info[f][1] = a
  <2>1. m_fds[a] \in Seq(Fds) /\ Distinct(m_fds[a])
    BY <1>1 DEF FdInv, FdTypes, FdLists
  <2>2. Cardinality(Range(m_fds[a])) = Len(m_fds[a]) /\ Range(m_fds[a]) \subseteq Fds
    BY <2>1, RangeFacts DEF DataLaws, LawOfDistinct
  <2> QED
    BY <2>2, <1>1 DEF Kept, FdInv, FdTypes, FdLists
<1>3. ASSUME NEW f \in Fds PROVE m_fd_info[f] # <<>> <=> f \in AllKept
  <2>1. CASE f \in AllKept
    <3>1. PICK a \in Addrs : f \in Kept(a)
      BY <2>1 DEF AllKept
    <3> QED
      BY <2>1, <3>1, <1>2
  <2>2. CASE m_fd_info[f] # <<>>
    <3>1. m_fd_info[f] \in Addrs \X Handlers
      BY <2>2, <1>1 DEF FdInv, FdTypes
    <3>2. m_fd_info[f][1] \in Addrs
      BY <3>1, InfoFacts
    <3>3. f \in Kept(m_fd_info[f][1])
      BY <2>2, <1>1 DEF FdInv, FdKnown, Kept
    <3> QED
      BY <2>2, <3>2, <3>3 DEF AllKept
  <2> QED
    BY <2>1, <2>2
<1>4. AllKept \subseteq Fds
  BY SMTT(60), <1>2 DEF AllKept
<1>5. \A t \in Active : /\ t \in Tasks /\ task[t].fd \in Fds /\ epoll[task[t].fd] = TaskHandler(t)
                        /\ m_fd_info[task[t].fd] = <<>>
  BY <1>1, UsedFacts
<1>6. Used \subseteq Fds /\ Used \cap AllKept = {}
  BY <1>3, <1>5 DEF Used
<1>7. Open = Used \cup AllKept
  <2>1. ASSUME NEW f \in Fds PROVE f \in Open <=> f \in Used \cup AllKept
    <3>1. f \in Open <=> epoll[f] # NoHandler
      BY <1>1 DEF Open, ConnInv
    <3>2. epoll[f] \in EpollHandlers
      BY <1>1 DEF FdInv, FdTypes
    <3>3. CASE f \in Used
      <4>1. PICK t \in Active : f = task[t].fd
        BY <3>3 DEF Used
      <4> QED
        BY SMTT(60), <3>1, <3>3, <4>1, <1>5, HandlerFacts
    <3>4. CASE f \in AllKept
      <4>1. m_fd_info[f] # <<>>
        BY <3>4, <1>3
      <4>2. epoll[f] = MonitorHandler(m_fd_info[f][2])
        BY <4>1, <1>1 DEF FdInv, FdKnown
      <4> QED
        BY SMTT(60), <3>1, <3>4, <4>2, HandlerFacts
    <3>5. CASE epoll[f] # NoHandler
      <4>1. CASE \E t \in Tasks : epoll[f] = TaskHandler(t)
        <5>1. \E t \in Active : task[t].fd = f
          BY <4>1, <1>1 DEF FdInv, FdTasks
        <5> QED
          BY <3>1, <3>5, <5>1 DEF Used
      <4>2. CASE \E h \in Handlers : epoll[f] = MonitorHandler(h)
        <5>1. m_fd_info[f] # <<>>
          BY <4>2, <1>1 DEF FdInv, FdMonitors
        <5> QED
          BY <3>1, <3>5, <5>1, <1>3
      <4> QED
        BY <3>2, <3>5, <4>1, <4>2 DEF EpollHandlers
    <3> QED
      BY <3>1, <3>3, <3>4, <3>5
  <2>2. Open \subseteq Fds
    BY DEF Open
  <2> QED
    BY <2>1, <2>2, <1>4, <1>6
<1>8. Cardinality(Used) = Cardinality(Active)
  <2> DEFINE m == [f \in Used |-> epoll[f].id]
  <2>1. LawOfUse
    BY DEF DataLaws
  <2>2. \A t \in Active : task[t].fd \in Used /\ epoll[task[t].fd].id = t
    BY <1>5, HandlerFacts DEF Used
  <2>3. \A f \in Used : \E t \in Active : f = task[t].fd
    BY DEF Used
  <2>4. \A f \in Used : epoll[f].id \in Active /\ task[epoll[f].id].fd = f
    BY SMTT(60), <2>2, <2>3
  <2>5. m \in [Used -> Active] /\ (\A f, g \in Used : m[f] = m[g] => f = g)
        /\ \A t \in Active : \E f \in Used : m[f] = t
    BY <2>2, <2>4
  <2> HIDE DEF m
  <2> QED
    BY SMTT(60), <2>1, <2>5, <1>6 DEF LawOfUse
<1>9. ASSUME NEW a \in Addrs, NEW f \in Kept(a)
      PROVE  /\ m_fd_info[f][1] = a
             /\ epoll[f] = MonitorHandler(m_fd_info[f][2]) /\ monitor.fd[m_fd_info[f][2]] = f
             /\ m_fd_info[f][2] \notin Range(monitor.free)
  <2>1. f \in Fds /\ m_fd_info[f] # <<>> /\ m_fd_info[f][1] = a
    BY <1>2
  <2> QED
    BY <2>1, <1>1 DEF FdInv, FdKnown
<1> QED
  BY <1>2, <1>3, <1>5, <1>6, <1>7, <1>8, <1>9 DEF ConnectionsOwnedOnce

\* ... and no event for a handler that is gone.
LEMMA InvEvents == ClientInv => NoStaleEvent
<1> SUFFICES ASSUME ClientInv, NEW e \in batch PROVE e.handler.kind = "pipe" \/ epoll[e.fd] = e.handler
  BY DEF NoStaleEvent
<1>1. e = PipeReady \/ \E f \in Fds : e = [handler |-> epoll[f], fd |-> f]
  BY DEF ClientInv, BatchInv
<1>2. PipeReady.handler.kind = "pipe"
  BY DEF PipeReady
<1>3. ASSUME NEW f \in Fds, e = [handler |-> epoll[f], fd |-> f] PROVE epoll[e.fd] = e.handler
  <2>1. e.fd = f /\ e.handler = epoll[f]
    BY <1>3
  <2> QED
    BY <2>1
<1> QED
  BY <1>1, <1>2, <1>3

\* A call has one carrier while it waits, and none before and after.
LEMMA InvCarriers ==
  ASSUME DataLaws
  PROVE  ClientInv => CalledBackOnce
<1> SUFFICES ASSUME ClientInv, NEW c \in Calls
             PROVE  /\ call[c] \in Results
                    /\ Cardinality({t \in Range(m_task_queue) \cup Active : task[t].call = c}) =
                         IF call[c] = "accepted" /\ at # "gone" THEN 1 ELSE 0
  BY DEF CalledBackOnce
<1>1. CallInv
  BY DEF ClientInv
<1> DEFINE C == {t \in Range(m_task_queue) \cup Active : task[t].call = c}
<1>2. C = {t \in Carriers : task[t].call = c}
  BY DEF Carriers
<1>3. call[c] \in Results
  BY <1>1 DEF CallInv
<1>4. CASE call[c] = "accepted" /\ at # "gone"
  <2>1. PICK t \in Carriers : task[t].call = c
    BY <1>1, <1>4 DEF CallInv
  <2>2. C = {t}
    BY SMTT(60), <1>1, <1>2, <2>1 DEF CallInv
  <2>3. Cardinality(C) = 1
    BY <2>2 DEF DataLaws, LawOfOne
  <2> QED
    BY <1>3, <1>4, <2>3
<1>5. CASE ~(call[c] = "accepted" /\ at # "gone")
  <2>1. C = {}
    BY <1>1, <1>2, <1>5 DEF CallInv
  <2>2. Cardinality(C) = 0
    BY <2>1 DEF DataLaws, LawOfOne
  <2> QED
    BY <1>3, <1>5, <2>2
<1> QED
  BY <1>4, <1>5

\* What a task reads is for its own call.
LEMMA InvResponses == ClientInv => OwnResponses
<1> SUFFICES ASSUME ClientInv, at # "gone", NEW f \in Open, NEW r \in Range(conn[f].asked \o conn[f].inbox)
             PROVE  \E t \in Active : task[t].fd = f /\ task[t].state = "RECV" /\ task[t].call = r.call
  BY DEF OwnResponses
<1>1. f \in Fds /\ ConnInv
  BY DEF Open, ClientInv
<1>2. conn[f].asked \in Seq(Answers) /\ conn[f].inbox \in Seq(Answers)
  BY <1>1, ConnParts DEF ConnInv
<1>3. r \in Range(conn[f].asked) \cup Range(conn[f].inbox)
  BY <1>2, RangeOfBoth
<1>4. conn[f].asked # <<>> \/ conn[f].inbox # <<>>
  <2>1. Range(<<>>) = {}
    BY EmptyRange
  <2> QED
    BY <1>3, <2>1
<1>5. Answered(f, conn[f])
  BY <1>1 DEF ConnInv
<1> QED
  BY <1>3, <1>4, <1>5 DEF Answered
================================================================================
