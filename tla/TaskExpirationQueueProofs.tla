---------------------- MODULE TaskExpirationQueueProofs -----------------------
(****************************************************************************)
(* TaskExpirationQueue keeps its heap for every set of tasks and times: the *)
(* earliest deadline is at the front and every m_queue_index is the place   *)
(* of its task.                                                             *)
(*                                                                          *)
(* upword and downward are loops.  What a loop does is proved by induction  *)
(* on its turns: the place where the order may fail moves towards the root  *)
(* or the leaves, the deadlines above and below it stay bridged, and the    *)
(* tasks in the queue stay the same.  Leaves are tried with Zenon, then     *)
(* with SMT; a leaf that only SMT proves says so.                           *)
(****************************************************************************)
EXTENDS TaskExpirationQueue, WellFoundedInduction, TLAPS

USE ZenonT(30), SMTT(60)

\* Induction over the numbers, for sets.
LEMMA Induction ==
  ASSUME NEW S, 0 \in S, \A n \in Nat : n \in S => n + 1 \in S
  PROVE  Nat \subseteq S
<1> DEFINE T == Nat \ S
           R == OpToRel(<, Nat)
<1> SUFFICES ASSUME T # {} PROVE FALSE
  OBVIOUS
<1>1. T \subseteq Nat /\ 0 \notin T /\ \A n \in Nat : n + 1 \in T => n \in T
  BY SMTT(60)
<1> HIDE DEF T
<1>2. PICK x \in T : \A y \in T : ~(<<y, x>> \in R)
  BY <1>1, WFMin, NatLessThanWellFounded
<1>3. \A y \in T : ~(y < x)
  BY <1>1, <1>2 DEF OpToRel
<1>4. x \in Nat /\ x # 0
  BY <1>1
<1>5. x - 1 \in Nat /\ (x - 1) + 1 = x /\ x - 1 < x
  BY SMTT(60), <1>4
<1> QED
  BY <1>1, <1>3, <1>5

\* The values that a loop whose body is s takes, turn by turn
Loops(f, s, x) == \A n \in Nat : f[n] = IF n = 0 THEN x ELSE s[f[n - 1]]

\* A loop whose body is s takes some values, turn by turn.
LEMMA LoopExists ==
  ASSUME NEW S, NEW s \in [S -> S], NEW x \in S
  PROVE  \E f \in [Nat -> S] : Loops(f, s, x)
<1> DEFINE Is(g, m) == \A n \in 0..m : g[n] = IF n = 0 THEN x ELSE s[g[n - 1]]
           Good == {m \in Nat : \E g \in [Nat -> S] : Is(g, m)}
<1>1. 0 \in Good
  <2> DEFINE g == [n \in Nat |-> x]
  <2>1. g \in [Nat -> S] /\ Is(g, 0)
    BY SMTT(60)
  <2> HIDE DEF g, Is
  <2> QED
    BY <2>1
<1>2. ASSUME NEW m \in Nat, m \in Good PROVE m + 1 \in Good
  <2>1. PICK g \in [Nat -> S] : Is(g, m)
    BY <1>2
  <2> DEFINE h == [n \in Nat |-> IF n = m + 1 THEN s[g[m]] ELSE g[n]]
  <2>2. h \in [Nat -> S]
    BY SMTT(60)
  <2>3. Is(h, m + 1)
    BY SMTT(60), <2>1
  <2> HIDE DEF h, Is
  <2> QED
    BY SMTT(60), <2>2, <2>3
<1>3. \A m \in Nat : m \in Good
  <2> HIDE DEF Good
  <2> QED
    BY <1>1, <1>2, Induction
<1> DEFINE G(m) == CHOOSE g \in [Nat -> S] : Is(g, m)
           f == [n \in Nat |-> G(n)[n]]
<1>4. \A m \in Nat : G(m) \in [Nat -> S] /\ Is(G(m), m)
  <2> HIDE DEF Is
  <2> QED
    BY <1>3
<1>5. ASSUME NEW m \in Nat, NEW g \in [Nat -> S], Is(g, m), NEW h \in [Nat -> S], NEW k \in Nat,
             Is(h, k), m <= k
      PROVE  g[m] = h[m]
  <2> DEFINE Same == {n \in Nat : n <= m => g[n] = h[n]}
  <2>1. 0 \in Same
    BY SMTT(60), <1>5
  <2>2. ASSUME NEW n \in Nat, n \in Same PROVE n + 1 \in Same
    BY SMTT(60), <2>2, <1>5
  <2> HIDE DEF Same
  <2>3. m \in Same
    BY <2>1, <2>2, Induction
  <2> QED
    BY SMTT(60), <2>3 DEF Same
<1>6. f \in [Nat -> S]
  <2> HIDE DEF G, Is
  <2> QED
    BY <1>4
<1>7. ASSUME NEW n \in Nat PROVE f[n] = IF n = 0 THEN x ELSE s[f[n - 1]]
  <2>1. CASE n = 0
    BY SMTT(60), <2>1, <1>4
  <2>2. CASE n # 0
    <3>1. n - 1 \in Nat /\ n - 1 <= n /\ n \in 0..n
      BY SMTT(60), <2>2
    <3>2. G(n)[n] = s[G(n)[n - 1]]
      <4> HIDE DEF G
      <4> QED
        BY <2>2, <3>1, <1>4
    <3>3. G(n - 1)[n - 1] = G(n)[n - 1]
      <4> HIDE DEF G, Is
      <4> QED
        BY <3>1, <1>4, <1>5
    <3> HIDE DEF G
    <3> QED
      BY <2>2, <3>1, <3>2, <3>3
  <2> QED
    BY <2>1, <2>2
<1> HIDE DEF f
<1>8. Loops(f, s, x)
  BY <1>7 DEF Loops
<1> QED
  BY <1>6, <1>8

\* The queues that Upword goes through, turn by turn
LoopsUp(f, q, e, t) ==
  /\ f[0] = q
  /\ \A n \in Nat : f[n + 1] = UpwordTurn(f[n], e, t)
  /\ Upword(q, e, t) = f[q.size]

\* upword ends where turning a task's way up q.size times ends.
LEMMA UpwordLoops ==
  ASSUME NEW S, NEW q \in S, NEW e, NEW t, \A z \in S : UpwordTurn(z, e, t) \in S
  PROVE  \E f \in [Nat -> S] : LoopsUp(f, q, e, t)
<1> DEFINE s == [z \in S |-> UpwordTurn(z, e, t)]
           Is(f) == f = [n \in Nat |-> IF n = 0 THEN q ELSE UpwordTurn(f[n - 1], e, t)]
           turn == CHOOSE f : Is(f)
<1>1. s \in [S -> S]
  OBVIOUS
<1>2. PICK f \in [Nat -> S] : Loops(f, s, q)
  <2> HIDE DEF s
  <2> QED
    BY <1>1, LoopExists
<1>3. \A n \in Nat : n # 0 => n - 1 \in Nat
  BY SMTT(60)
<1>4. \A n \in Nat : f[n] = IF n = 0 THEN q ELSE UpwordTurn(f[n - 1], e, t)
  BY <1>2, <1>3 DEF Loops
<1>5. Is(f)
  <2>1. f = [n \in Nat |-> f[n]]
    OBVIOUS
  <2> QED
    BY SMTT(60), <1>4, <2>1
<1>6. Is(turn)
  <2> HIDE DEF Is
  <2> QED
    BY <1>5
<1>7. Upword(q, e, t) = turn[q.size]
  BY DEF Upword
<1> HIDE DEF turn
<1>8. turn[0] = q /\ \A n \in Nat : turn[n + 1] = UpwordTurn(turn[n], e, t)
  <2>1. \A n \in Nat : turn[n] = IF n = 0 THEN q ELSE UpwordTurn(turn[n - 1], e, t)
    BY <1>6
  <2>2. 0 \in Nat /\ \A n \in Nat : n + 1 \in Nat /\ n + 1 # 0 /\ (n + 1) - 1 = n
    BY SMTT(60)
  <2> QED
    BY <2>1, <2>2
<1>9. turn \in [Nat -> S]
  <2> DEFINE Good == {n \in Nat : turn[n] \in S}
  <2>1. 0 \in Good /\ \A n \in Nat : n \in Good => n + 1 \in Good
    BY SMTT(60), <1>8
  <2>2. Nat \subseteq Good
    <3> HIDE DEF Good
    <3> QED
      BY <2>1, Induction
  <2>3. turn = [n \in Nat |-> turn[n]]
    BY <1>6
  <2> QED
    BY <2>2, <2>3
<1> HIDE DEF Is
<1>10. LoopsUp(turn, q, e, t)
  BY <1>7, <1>8 DEF LoopsUp
<1> QED
  BY <1>9, <1>10

\* The queues that Downward goes through, turn by turn
LoopsDown(f, q, e, t) ==
  /\ f[0] = q
  /\ \A n \in Nat : f[n + 1] = DownwardTurn(f[n], e, t)
  /\ Downward(q, e, t) = f[q.size]

\* The same of downward.
LEMMA DownwardLoops ==
  ASSUME NEW S, NEW q \in S, NEW e, NEW t, \A z \in S : DownwardTurn(z, e, t) \in S
  PROVE  \E f \in [Nat -> S] : LoopsDown(f, q, e, t)
<1> DEFINE s == [z \in S |-> DownwardTurn(z, e, t)]
           Is(f) == f = [n \in Nat |-> IF n = 0 THEN q ELSE DownwardTurn(f[n - 1], e, t)]
           turn == CHOOSE f : Is(f)
<1>1. s \in [S -> S]
  OBVIOUS
<1>2. PICK f \in [Nat -> S] : Loops(f, s, q)
  <2> HIDE DEF s
  <2> QED
    BY <1>1, LoopExists
<1>3. \A n \in Nat : n # 0 => n - 1 \in Nat
  BY SMTT(60)
<1>4. \A n \in Nat : f[n] = IF n = 0 THEN q ELSE DownwardTurn(f[n - 1], e, t)
  BY <1>2, <1>3 DEF Loops
<1>5. Is(f)
  <2>1. f = [n \in Nat |-> f[n]]
    OBVIOUS
  <2> QED
    BY SMTT(60), <1>4, <2>1
<1>6. Is(turn)
  <2> HIDE DEF Is
  <2> QED
    BY <1>5
<1>7. Downward(q, e, t) = turn[q.size]
  BY DEF Downward
<1> HIDE DEF turn
<1>8. turn[0] = q /\ \A n \in Nat : turn[n + 1] = DownwardTurn(turn[n], e, t)
  <2>1. \A n \in Nat : turn[n] = IF n = 0 THEN q ELSE DownwardTurn(turn[n - 1], e, t)
    BY <1>6
  <2>2. 0 \in Nat /\ \A n \in Nat : n + 1 \in Nat /\ n + 1 # 0 /\ (n + 1) - 1 = n
    BY SMTT(60)
  <2> QED
    BY <2>1, <2>2
<1>9. turn \in [Nat -> S]
  <2> DEFINE Good == {n \in Nat : turn[n] \in S}
  <2>1. 0 \in Good /\ \A n \in Nat : n \in Good => n + 1 \in Good
    BY SMTT(60), <1>8
  <2>2. Nat \subseteq Good
    <3> HIDE DEF Good
    <3> QED
      BY <2>1, Induction
  <2>3. turn = [n \in Nat |-> turn[n]]
    BY <1>6
  <2> QED
    BY <2>2, <2>3
<1> HIDE DEF Is
<1>10. LoopsDown(turn, q, e, t)
  BY <1>7, <1>8 DEF LoopsDown
<1> QED
  BY <1>9, <1>10
-------------------------------------------------------------------------------
\* The children of a position.
LEMMA ParentFacts ==
  /\ \A j \in Nat : j > 0 => Parent(j) \in Nat /\ Parent(j) < j
  /\ \A j \in Nat, i \in Nat : j > 0 => (Parent(j) = i <=> j = 2 * i + 1 \/ j = 2 * i + 2)
BY SMTT(60) DEF Parent

ChildrenOf(i) == {2 * i + 1, 2 * i + 2}

\* The children of the task at i are no earlier than its parent.
Bridged(q, e, i) ==
  i > 0 => \A j \in ChildrenOf(i) : j < q.size => e[At(q, Parent(i))] <= e[At(q, j)]

\* What a loop leaves alone: the tasks in the queue, the slots beyond it, the indexes of
\* other tasks.
SameQueue(q, z, T, m) ==
  /\ z \in Shaped(T, m)
  /\ z.size = q.size
  /\ Members(z) = Members(q)
  /\ \A k \in (q.size + 1)..m : z.tasks[k] = q.tasks[k]
  /\ \A u \in T \ Members(q) : z.index[u] = q.index[u]

\* A queue given by its three parts
Parts3(tasks, size, index) == [tasks |-> tasks, size |-> size, index |-> index]

\* Putting a task into a slot, part by part.
LEMMA PlaceParts ==
  ASSUME NEW tasks, NEW size, NEW index, NEW i, NEW t
  PROVE  Place(Parts3(tasks, size, index), i, t)
           = Parts3([tasks EXCEPT ![i + 1] = t], size, [index EXCEPT ![t] = i])
<1> DEFINE q == Parts3(tasks, size, index)
           p == [q EXCEPT !.tasks = [tasks EXCEPT ![i + 1] = t]]
<1>1. q.tasks = tasks /\ q.index = index
  BY DEF Parts3
<1>2. p = Parts3([tasks EXCEPT ![i + 1] = t], size, index)
  BY DEF Parts3
<1>3. [p EXCEPT !.index = [index EXCEPT ![t] = i]]
        = Parts3([tasks EXCEPT ![i + 1] = t], size, [index EXCEPT ![t] = i])
  <2> HIDE DEF p
  <2> QED
    BY <1>2 DEF Parts3
<1>4. Place(q, i, t) = [[q EXCEPT !.tasks[i + 1] = t] EXCEPT !.index[t] = i]
  BY DEF Place
<1>5. [q EXCEPT !.tasks[i + 1] = t] = p
  BY <1>1
<1>6. p.index = index
  BY <1>2 DEF Parts3
<1>7. [p EXCEPT !.index[t] = i] = [p EXCEPT !.index = [index EXCEPT ![t] = i]]
  BY <1>6
<1> QED
  BY <1>3, <1>4, <1>5, <1>7

\* The parts of a queue in its shape.
LEMMA ShapedParts ==
  ASSUME NEW T, NEW m \in Nat
  PROVE  \A q \in Shaped(T, m) :
           /\ q = Parts3(q.tasks, q.size, q.index)
           /\ q.tasks \in [1..m -> T] /\ q.size \in 0..m /\ q.index \in [T -> Int]
           /\ \A i \in 0..(q.size - 1) : q.index[q.tasks[i + 1]] = i
<1> DEFINE Records == [tasks : [1..m -> T], size : 0..m, index : [T -> Int]]
<1>1. \A q \in Records :
        /\ q = Parts3(q.tasks, q.size, q.index)
        /\ q.tasks \in [1..m -> T] /\ q.size \in 0..m /\ q.index \in [T -> Int]
  BY DEF Parts3
<1>2. Shaped(T, m) = {q \in Records : \A i \in 0..(q.size - 1) : q.index[q.tasks[i + 1]] = i}
  BY DEF Shaped
<1> HIDE DEF Records
<1> QED
  BY <1>1, <1>2

\* A queue put together from its parts.
LEMMA ShapedOf ==
  ASSUME NEW T, NEW m \in Nat, NEW tasks \in [1..m -> T], NEW size \in 0..m,
         NEW index \in [T -> Int], \A i \in 0..(size - 1) : index[tasks[i + 1]] = i
  PROVE  Parts3(tasks, size, index) \in Shaped(T, m)
BY DEF Parts3, Shaped

\* Two tasks change places: the others stay, and the two know where they are.
LEMMA SwapFacts ==
  ASSUME NEW T, NEW m \in Nat, NEW q \in Shaped(T, m),
         NEW i \in 0..(q.size - 1), NEW j \in 0..(q.size - 1), i # j,
         NEW r, r = Swap(q, i, j)
  PROVE  /\ SameQueue(q, r, T, m)
         /\ At(r, i) = At(q, j)
         /\ At(r, j) = At(q, i)
         /\ \A k \in 0..(m - 1) : k # i /\ k # j => At(r, k) = At(q, k)
         /\ r.index[At(q, i)] = j
<1> DEFINE a == q.tasks[i + 1]
           b == q.tasks[j + 1]
           tasks == [q.tasks EXCEPT ![i + 1] = b, ![j + 1] = a]
           index == [q.index EXCEPT ![b] = i, ![a] = j]
<1>1. /\ q.tasks \in [1..m -> T] /\ q.size \in 0..m /\ q.index \in [T -> Int]
      /\ q = Parts3(q.tasks, q.size, q.index)
      /\ \A k \in 0..(q.size - 1) : q.index[q.tasks[k + 1]] = k
  BY ShapedParts
<1>2. i + 1 \in 1..m /\ j + 1 \in 1..m /\ i + 1 # j + 1 /\ i \in Int /\ j \in Int
  BY SMTT(60), <1>1
<1>3. a \in T /\ b \in T /\ q.index[a] = i /\ q.index[b] = j /\ a # b
  BY <1>1, <1>2
<1>4. r = Parts3(tasks, q.size, index)
  <2>1. r = Place(Place(q, i, b), j, a)
    BY DEF Swap, At
  <2> HIDE DEF a, b
  <2>2. ASSUME NEW x, NEW y, NEW z, q = Parts3(x, y, z)
        PROVE  Place(q, i, b) = Parts3([x EXCEPT ![i + 1] = b], y, [z EXCEPT ![b] = i])
    BY SMTT(60), <2>2, PlaceParts
  <2>3. Place(q, i, b) = Parts3([q.tasks EXCEPT ![i + 1] = b], q.size, [q.index EXCEPT ![b] = i])
    BY <1>1, <2>2
  <2> QED
    BY SMTT(60), <2>1, <2>3, PlaceParts
<1>5. tasks \in [1..m -> T] /\ index \in [T -> Int]
  BY <1>1, <1>2, <1>3
<1>6. /\ tasks[i + 1] = b /\ tasks[j + 1] = a
      /\ \A k \in 1..m : k # i + 1 /\ k # j + 1 => tasks[k] = q.tasks[k]
  BY <1>1, <1>2
<1>7. index[a] = j /\ index[b] = i /\ \A u \in T : u # a /\ u # b => index[u] = q.index[u]
  BY <1>1, <1>3
<1> HIDE DEF tasks, index, a, b
<1>8. \A k \in 0..(q.size - 1) : k + 1 \in 1..m /\ k \in Int
  BY SMTT(60), <1>1
<1>9. \A k \in 0..(q.size - 1) : k # i /\ k # j => k + 1 # i + 1 /\ k + 1 # j + 1
  BY SMTT(60), <1>1
<1>10. ASSUME NEW k \in 0..(q.size - 1) PROVE index[tasks[k + 1]] = k
  <2>1. CASE k = i
    BY <2>1, <1>6, <1>7
  <2>2. CASE k = j
    BY <2>2, <1>6, <1>7
  <2>3. CASE k # i /\ k # j
    <3>1. tasks[k + 1] = q.tasks[k + 1] /\ q.tasks[k + 1] \in T /\ q.index[q.tasks[k + 1]] = k
      BY <2>3, <1>1, <1>6, <1>8, <1>9
    <3>2. q.tasks[k + 1] # a /\ q.tasks[k + 1] # b
      BY <2>3, <3>1, <1>3
    <3> QED
      BY <3>1, <3>2, <1>7
  <2> QED
    BY <2>1, <2>2, <2>3
<1>11. r \in Shaped(T, m)
  <2> HIDE DEF Shaped
  <2>1. \A k \in 0..(q.size - 1) : index[tasks[k + 1]] = k
    BY <1>10
  <2>2. q.size \in 0..m
    BY <1>1
  <2>3. tasks \in [1..m -> T] /\ index \in [T -> Int]
    BY <1>5
  <2>4. Parts3(tasks, q.size, index) \in Shaped(T, m)
    BY <2>1, <2>2, <2>3, ShapedOf
  <2> QED
    BY <2>4, <1>4
<1> r.tasks = tasks /\ r.size = q.size /\ r.index = index
  BY <1>4 DEF Parts3
<1>12. Members(r) = Members(q)
  <2>1. i + 1 \in 1..q.size /\ j + 1 \in 1..q.size /\ 1..q.size \subseteq 1..m
    BY SMTT(60), <1>1
  <2>2. Members(r) = {tasks[k] : k \in 1..q.size}
    BY <1>4 DEF Members
  <2>3. \A k \in 1..q.size : tasks[k] \in Members(q)
    BY <2>1, <1>6 DEF Members, a, b
  <2>4. \A k \in 1..q.size : q.tasks[k] \in {tasks[l] : l \in 1..q.size}
    BY <2>1, <1>6 DEF a, b
  <2> QED
    BY SMTT(60), <2>2, <2>3, <2>4 DEF Members
<1>13. \A k \in (q.size + 1)..m : r.tasks[k] = q.tasks[k]
  <2>1. \A k \in (q.size + 1)..m : k \in 1..m /\ k # i + 1 /\ k # j + 1
    BY SMTT(60), <1>1
  <2> QED
    BY <2>1, <1>4, <1>6
<1>14. a \in Members(q) /\ b \in Members(q)
  <2>1. i + 1 \in 1..q.size /\ j + 1 \in 1..q.size
    BY SMTT(60), <1>1
  <2> QED
    BY <2>1 DEF Members, a, b
<1>15. \A u \in T \ Members(q) : r.index[u] = q.index[u]
  BY <1>4, <1>7, <1>14
<1>16. \A k \in 0..(m - 1) : k # i /\ k # j => At(r, k) = At(q, k)
  <2>1. \A k \in 0..(m - 1) : k # i /\ k # j => k + 1 \in 1..m /\ k + 1 # i + 1 /\ k + 1 # j + 1
    BY SMTT(60)
  <2> QED
    BY <2>1, <1>4, <1>6 DEF At
<1> QED
  BY <1>4, <1>6, <1>7, <1>11, <1>12, <1>13, <1>15, <1>16 DEF SameQueue, At, a, b
\* A task queued is at the position that it knows.
LEMMA MemberFacts ==
  ASSUME NEW T, NEW m \in Nat, NEW q \in Shaped(T, m)
  PROVE  /\ q.size \in 0..m /\ q.size \in Nat
         /\ \A i \in 0..(q.size - 1) : At(q, i) \in Members(q) /\ q.index[At(q, i)] = i
         /\ Members(q) \subseteq T
         /\ \A t \in Members(q) : q.index[t] \in 0..(q.size - 1) /\ At(q, q.index[t]) = t
<1>1. /\ q.tasks \in [1..m -> T] /\ q.size \in 0..m
      /\ \A k \in 0..(q.size - 1) : q.index[q.tasks[k + 1]] = k
  BY ShapedParts
<1>2. \A i \in 0..(q.size - 1) : i + 1 \in 1..q.size
  BY SMTT(60), <1>1
<1>3. \A k \in 1..q.size : k \in 1..m /\ k - 1 \in 0..(q.size - 1) /\ (k - 1) + 1 = k
  BY SMTT(60), <1>1
<1>4. ASSUME NEW t \in Members(q)
      PROVE  t \in T /\ q.index[t] \in 0..(q.size - 1) /\ At(q, q.index[t]) = t
  <2>1. PICK k \in 1..q.size : t = q.tasks[k]
    BY DEF Members
  <2>2. q.index[t] = k - 1
    BY SMTT(60), <2>1, <1>1, <1>3
  <2> QED
    BY SMTT(60), <2>1, <2>2, <1>1, <1>3 DEF At
<1>5. q.size \in Nat
  BY SMTT(60), <1>1
<1> QED
  BY <1>1, <1>2, <1>4, <1>5 DEF Members, At

\* A turn of upword: the order may fail between the task and its parent only, and when
\* it does the task goes up.
LEMMA UpTurn ==
  ASSUME NEW T, NEW m \in Nat, NEW z \in Shaped(T, m), NEW e \in [T -> Int],
         NEW t \in Members(z), NEW i, i = z.index[t],
         OrderedBut(z, e, {i}), Bridged(z, e, i), NEW r, r = UpwordTurn(z, e, t)
  PROVE  /\ SameQueue(z, r, T, m)
         /\ OrderedBut(r, e, {r.index[t]})
         /\ Bridged(r, e, r.index[t])
         /\ Ordered(r, e) \/ r.index[t] < i
         /\ Ordered(z, e) => r = z
<1> DEFINE p == Parent(i)
<1>1. z.size \in 0..m /\ i \in 0..(z.size - 1) /\ At(z, i) = t
  BY SMTT(60), MemberFacts
<1>2. \A k \in 0..(z.size - 1) : e[At(z, k)] \in Int
  BY MemberFacts
<1>3. SameQueue(z, z, T, m)
  BY DEF SameQueue
<1>4. \A j \in 1..(z.size - 1) : Parent(j) \in 0..(z.size - 1) /\ Parent(j) < j /\ Parent(j) # j
  BY SMTT(60), <1>1, ParentFacts
<1>5. CASE ~(i > 0 /\ e[At(z, p)] > e[t])
  <2>1. r = z
    BY <1>5 DEF UpwordTurn
  <2>2. Ordered(z, e)
    <3> SUFFICES ASSUME NEW j \in 1..(z.size - 1) PROVE e[At(z, Parent(j))] <= e[At(z, j)]
      BY DEF Ordered, OrderedBut
    <3>1. CASE j = i
      <4>1. i > 0 /\ p \in 0..(z.size - 1) /\ e[At(z, p)] \in Int /\ e[t] \in Int
        BY SMTT(60), <1>1, <1>2, <1>4, <3>1
      <4>2. e[At(z, p)] <= e[t]
        BY SMTT(60), <4>1, <1>5
      <4> QED
        BY <4>2, <3>1, <1>1
    <3>2. CASE j # i
      BY <3>2 DEF OrderedBut
    <3> QED
      BY <3>1, <3>2
  <2> QED
    BY <1>3, <2>1, <2>2
<1>6. CASE i > 0 /\ e[At(z, p)] > e[t]
  <2>1. r = Swap(z, i, p)
    BY <1>6 DEF UpwordTurn
  <2>2. i \in 1..(z.size - 1) /\ p \in 0..(z.size - 1) /\ p < i /\ p # i
    BY SMTT(60), <1>1, <1>4, <1>6
  <2>3. /\ SameQueue(z, r, T, m)
        /\ At(r, i) = At(z, p) /\ At(r, p) = t
        /\ \A k \in 0..(m - 1) : k # i /\ k # p => At(r, k) = At(z, k)
        /\ r.index[t] = p
    BY SMTT(60), <2>1, <2>2, <1>1, SwapFacts
  <2>4. r.size = z.size
    BY <2>3 DEF SameQueue
  <2>5. \A k \in 0..(z.size - 1) : k \in 0..(m - 1)
    BY SMTT(60), <1>1
  <2>6. e[At(z, i)] \in Int /\ e[At(z, p)] \in Int /\ e[At(z, i)] < e[At(z, p)]
    BY SMTT(60), <1>1, <1>2, <1>6, <2>2
  <2> HIDE DEF p
  <2>7. \A j \in 1..(z.size - 1) : j # i => e[At(z, Parent(j))] <= e[At(z, j)]
    BY DEF OrderedBut
  <2>8. \A j \in 1..(z.size - 1) : Parent(j) = i => e[At(z, p)] <= e[At(z, j)]
    <3>1. \A j \in 1..(z.size - 1) : Parent(j) = i => j \in ChildrenOf(i) /\ j < z.size
      BY SMTT(60), ParentFacts, <1>1 DEF ChildrenOf
    <3> QED
      BY <3>1, <1>6 DEF Bridged, p
  <2>9. OrderedBut(r, e, {p})
    <3> SUFFICES ASSUME NEW j \in 1..(z.size - 1), j # p
                 PROVE  e[At(r, Parent(j))] <= e[At(r, j)]
      BY <2>4 DEF OrderedBut
    <3>0. j \in 0..(z.size - 1) /\ Parent(j) \in 0..(z.size - 1)
      BY SMTT(60), <1>4
    <3>1. CASE j = i
      <4>1. At(r, Parent(j)) = At(z, i) /\ At(r, j) = At(z, p)
        BY <3>1, <2>3, <1>1 DEF p
      <4> QED
        BY SMTT(60), <4>1, <2>6
    <3>2. CASE j # i /\ Parent(j) = i
      <4>1. At(r, Parent(j)) = At(z, p) /\ At(r, j) = At(z, j)
        BY <3>0, <3>2, <2>3, <2>5
      <4> QED
        BY <4>1, <2>8, <3>2
    <3>3. CASE j # i /\ Parent(j) = p
      <4>1. At(r, Parent(j)) = At(z, i) /\ At(r, j) = At(z, j)
        BY <3>0, <3>3, <2>3, <2>5, <1>1
      <4>2. e[At(z, p)] <= e[At(z, j)] /\ e[At(z, j)] \in Int
        BY <3>0, <3>3, <2>7, <1>2
      <4> QED
        BY SMTT(60), <4>1, <4>2, <2>6
    <3>4. CASE j # i /\ Parent(j) # i /\ Parent(j) # p
      BY <3>0, <3>4, <2>3, <2>5, <2>7
    <3> QED
      BY <3>1, <3>2, <3>3, <3>4
  <2>10. Bridged(r, e, p)
    <3> SUFFICES ASSUME p > 0, NEW j \in ChildrenOf(p), j < z.size
                 PROVE  e[At(r, Parent(p))] <= e[At(r, j)]
      BY <2>4 DEF Bridged
    <3>1. j \in 1..(z.size - 1) /\ j \in 0..(z.size - 1) /\ Parent(j) = p /\ j # p
      BY SMTT(60), ParentFacts, <2>2, <1>1 DEF ChildrenOf
    <3>2. /\ p \in 1..(z.size - 1) /\ Parent(p) \in 0..(z.size - 1)
          /\ Parent(p) # p /\ Parent(p) # i
      BY SMTT(60), <2>2, <1>1, <1>4
    <3>3. At(r, Parent(p)) = At(z, Parent(p)) /\ e[At(z, Parent(p))] \in Int
      BY <3>2, <2>3, <2>5, <1>2
    <3>4. e[At(z, Parent(p))] <= e[At(z, p)]
      BY <3>2, <2>2, <2>7
    <3>5. CASE j = i
      BY <3>3, <3>4, <3>5, <2>3
    <3>6. CASE j # i
      <4>1. At(r, j) = At(z, j) /\ e[At(z, j)] \in Int /\ e[At(z, p)] <= e[At(z, j)]
        BY <3>1, <3>6, <2>3, <2>5, <2>7, <1>2
      <4> QED
        BY SMTT(60), <3>3, <3>4, <4>1, <2>6
    <3> QED
      BY <3>5, <3>6
  <2>11. ~Ordered(z, e)
    <3>1. Ordered(z, e) => e[At(z, p)] <= e[At(z, i)]
      BY <2>2 DEF Ordered, OrderedBut, p
    <3> QED
      BY SMTT(60), <3>1, <2>6
  <2> QED
    BY <2>2, <2>3, <2>9, <2>10, <2>11
<1> QED
  BY <1>5, <1>6
\* A turn of downward: the order may fail between the task and its children only, and
\* when it does the task goes down.
LEMMA DownTurn ==
  ASSUME NEW T, NEW m \in Nat, NEW z \in Shaped(T, m), NEW e \in [T -> Int],
         NEW t \in Members(z), NEW i, i = z.index[t],
         OrderedBut(z, e, ChildrenOf(i)), Bridged(z, e, i), NEW r, r = DownwardTurn(z, e, t)
  PROVE  /\ SameQueue(z, r, T, m)
         /\ OrderedBut(r, e, ChildrenOf(r.index[t]))
         /\ Bridged(r, e, r.index[t])
         /\ Ordered(r, e) \/ r.index[t] > i
         /\ Ordered(z, e) => r = z
<1> DEFINE c == EarlierChild(z, e, i)
<1>1. z.size \in 0..m /\ i \in 0..(z.size - 1) /\ At(z, i) = t
  BY SMTT(60), MemberFacts
<1>2. \A k \in 0..(z.size - 1) : e[At(z, k)] \in Int
  BY MemberFacts
<1>3. SameQueue(z, z, T, m)
  BY DEF SameQueue
<1>4. \A j \in 1..(z.size - 1) : Parent(j) \in 0..(z.size - 1) /\ Parent(j) < j /\ Parent(j) # j
  BY SMTT(60), <1>1, ParentFacts
<1>5. \A j \in 1..(z.size - 1), k \in 0..(z.size - 1) : Parent(j) = k <=> j \in ChildrenOf(k)
  BY SMTT(60), <1>1, ParentFacts DEF ChildrenOf
<1>6. \A j \in 1..(z.size - 1) : j \in ChildrenOf(i) => i < z.size \div 2
  BY SMTT(60), <1>1 DEF ChildrenOf
<1>7. i < z.size \div 2 =>
        /\ c \in 1..(z.size - 1) /\ c \in ChildrenOf(i)
        /\ \A j \in 1..(z.size - 1) : j \in ChildrenOf(i) => e[At(z, c)] <= e[At(z, j)]
  <2> SUFFICES ASSUME i < z.size \div 2
               PROVE  /\ c \in 1..(z.size - 1) /\ c \in ChildrenOf(i)
                      /\ \A j \in 1..(z.size - 1) :
                           j \in ChildrenOf(i) => e[At(z, c)] <= e[At(z, j)]
    OBVIOUS
  <2> DEFINE lc == 2 * i + 1
             rc == 2 * i + 2
  <2>1. lc \in 1..(z.size - 1) /\ lc \in 0..(z.size - 1) /\ e[At(z, lc)] \in Int
    BY SMTT(60), <1>1, <1>2
  <2>2. rc < z.size => rc \in 1..(z.size - 1) /\ rc \in 0..(z.size - 1) /\ e[At(z, rc)] \in Int
    BY SMTT(60), <1>1, <1>2
  <2>3. c = IF rc < z.size /\ e[At(z, rc)] < e[At(z, lc)] THEN rc ELSE lc
    BY DEF EarlierChild
  <2>4. ChildrenOf(i) = {lc, rc}
    BY DEF ChildrenOf
  <2>5. \A j \in 1..(z.size - 1) : j = rc => rc < z.size
    BY SMTT(60), <1>1
  <2> HIDE DEF lc, rc, c
  <2>6. CASE rc < z.size /\ e[At(z, rc)] < e[At(z, lc)]
    <3>1. c = rc
      BY <2>3, <2>6
    <3>2. e[At(z, rc)] <= e[At(z, lc)] /\ e[At(z, rc)] <= e[At(z, rc)]
      BY SMTT(60), <2>1, <2>2, <2>6
    <3> QED
      BY <3>1, <3>2, <2>2, <2>4, <2>6
  <2>7. CASE ~(rc < z.size /\ e[At(z, rc)] < e[At(z, lc)])
    <3>1. c = lc
      BY <2>3, <2>7
    <3>2. e[At(z, lc)] <= e[At(z, lc)] /\ (rc < z.size => e[At(z, lc)] <= e[At(z, rc)])
      BY SMTT(60), <2>1, <2>2, <2>7
    <3> QED
      BY <3>1, <3>2, <2>1, <2>4, <2>5
  <2> QED
    BY <2>6, <2>7
<1> HIDE DEF c
<1>8. r = IF i < z.size \div 2 /\ e[At(z, c)] < e[t] THEN Swap(z, i, c) ELSE z
  BY DEF DownwardTurn, c
<1>9. \A j \in 1..(z.size - 1) : j \notin ChildrenOf(i) => e[At(z, Parent(j))] <= e[At(z, j)]
  BY DEF OrderedBut
<1>10. CASE ~(i < z.size \div 2 /\ e[At(z, c)] < e[t])
  <2>1. r = z
    BY <1>8, <1>10
  <2>2. Ordered(z, e)
    <3> SUFFICES ASSUME NEW j \in 1..(z.size - 1) PROVE e[At(z, Parent(j))] <= e[At(z, j)]
      BY DEF Ordered, OrderedBut
    <3>1. CASE j \in ChildrenOf(i)
      <4>1. /\ i < z.size \div 2 /\ Parent(j) = i /\ j \in 0..(z.size - 1) /\ c \in 0..(z.size - 1)
        BY SMTT(60), <1>1, <1>5, <1>6, <1>7, <3>1
      <4>2. e[At(z, j)] \in Int /\ e[At(z, c)] \in Int /\ e[t] \in Int
        BY <4>1, <1>1, <1>2
      <4>3. e[At(z, c)] <= e[At(z, j)]
        BY <4>1, <1>7, <3>1
      <4>4. ~(e[At(z, c)] < e[t])
        BY <4>1, <1>10
      <4>5. e[t] <= e[At(z, j)]
        BY SMTT(60), <4>2, <4>3, <4>4
      <4> QED
        BY <4>1, <4>5, <1>1
    <3>2. CASE j \notin ChildrenOf(i)
      BY <3>2, <1>9
    <3> QED
      BY <3>1, <3>2
  <2>3. OrderedBut(z, e, ChildrenOf(i))
    OBVIOUS
  <2> QED
    BY <1>3, <2>1, <2>2
<1>11. CASE i < z.size \div 2 /\ e[At(z, c)] < e[t]
  <2>1. r = Swap(z, i, c)
    BY <1>8, <1>11
  <2>2. c \in 1..(z.size - 1) /\ c \in 0..(z.size - 1) /\ c > i /\ c # i /\ Parent(c) = i
    BY SMTT(60), <1>1, <1>4, <1>5, <1>7, <1>11
  <2>3. /\ SameQueue(z, r, T, m)
        /\ At(r, i) = At(z, c) /\ At(r, c) = t
        /\ \A k \in 0..(m - 1) : k # i /\ k # c => At(r, k) = At(z, k)
        /\ r.index[t] = c
    BY SMTT(60), <2>1, <2>2, <1>1, SwapFacts
  <2>4. r.size = z.size
    BY <2>3 DEF SameQueue
  <2>5. \A k \in 0..(z.size - 1) : k \in 0..(m - 1)
    BY SMTT(60), <1>1
  <2>6. e[At(z, i)] \in Int /\ e[At(z, c)] \in Int /\ e[At(z, c)] < e[At(z, i)]
    BY SMTT(60), <1>1, <1>2, <1>11, <2>2
  <2>7. i > 0 => \A j \in 1..(z.size - 1) : j \in ChildrenOf(i) => e[At(z, Parent(i))] <= e[At(z, j)]
    <3>1. \A j \in 1..(z.size - 1) : j < z.size
      BY SMTT(60), <1>1
    <3> QED
      BY <3>1 DEF Bridged
  <2>8. OrderedBut(r, e, ChildrenOf(c))
    <3> SUFFICES ASSUME NEW j \in 1..(z.size - 1), j \notin ChildrenOf(c)
                 PROVE  e[At(r, Parent(j))] <= e[At(r, j)]
      BY <2>4 DEF OrderedBut
    <3>0. j \in 0..(z.size - 1) /\ Parent(j) \in 0..(z.size - 1) /\ Parent(j) # j /\ Parent(j) # c
      BY SMTT(60), <1>4, <1>5, <2>2
    <3>1. CASE j = c
      <4>1. At(r, Parent(j)) = At(z, c) /\ At(r, j) = At(z, i)
        BY <3>1, <2>2, <2>3, <1>1
      <4> QED
        BY SMTT(60), <4>1, <2>6
    <3>2. CASE j # c /\ Parent(j) = i
      <4>1. At(r, Parent(j)) = At(z, c) /\ At(r, j) = At(z, j)
        BY <3>0, <3>2, <2>3, <2>5
      <4>2. e[At(z, c)] <= e[At(z, j)]
        BY <3>2, <1>1, <1>5, <1>7, <1>11
      <4> QED
        BY <4>1, <4>2
    <3>3. CASE j = i
      <4>1. At(r, Parent(j)) = At(z, Parent(i)) /\ At(r, j) = At(z, c)
        BY <3>0, <3>3, <2>3, <2>5
      <4>2. i > 0
        BY SMTT(60), <3>3
      <4>3. e[At(z, Parent(i))] <= e[At(z, c)]
        BY <4>2, <2>2, <2>7, <1>7, <1>11
      <4> QED
        BY <4>1, <4>3
    <3>4. CASE j # i /\ j # c /\ Parent(j) # i
      <4>1. At(r, Parent(j)) = At(z, Parent(j)) /\ At(r, j) = At(z, j)
        BY <3>0, <3>4, <2>3, <2>5
      <4>2. j \notin ChildrenOf(i)
        BY <3>4, <1>1, <1>5
      <4> QED
        BY <4>1, <4>2, <1>9
    <3> QED
      BY <3>1, <3>2, <3>3, <3>4
  <2>9. Bridged(r, e, c)
    <3> SUFFICES ASSUME NEW j \in ChildrenOf(c), j < z.size
                 PROVE  e[At(r, Parent(c))] <= e[At(r, j)]
      BY <2>4 DEF Bridged
    <3>1. /\ j \in 1..(z.size - 1) /\ j \in 0..(z.size - 1) /\ Parent(j) = c
          /\ j # c /\ j # i /\ j \notin ChildrenOf(i)
      BY SMTT(60), ParentFacts, <2>2, <1>1 DEF ChildrenOf
    <3>2. At(r, j) = At(z, j) /\ At(r, Parent(c)) = At(z, c)
      BY <3>1, <2>2, <2>3, <2>5
    <3> QED
      BY <3>1, <3>2, <1>9
  <2>10. ~Ordered(z, e)
    <3>1. Ordered(z, e) => e[At(z, i)] <= e[At(z, c)]
      BY <2>2 DEF Ordered, OrderedBut
    <3> QED
      BY SMTT(60), <3>1, <2>6
  <2> QED
    BY <2>2, <2>3, <2>8, <2>9, <2>10
<1> QED
  BY <1>10, <1>11
\* Turns add up.
LEMMA SameQueueTwice ==
  ASSUME NEW T, NEW m, NEW q, NEW z, NEW r, SameQueue(q, z, T, m), SameQueue(z, r, T, m)
  PROVE  SameQueue(q, r, T, m)
BY DEF SameQueue

\* upword puts a queue in order whose order fails between a task and its parent.
LEMMA UpwordOrders ==
  ASSUME NEW T, NEW m \in Nat, NEW q \in Shaped(T, m), NEW e \in [T -> Int],
         NEW t \in Members(q), OrderedBut(q, e, {q.index[t]}), Bridged(q, e, q.index[t])
  PROVE  SameQueue(q, Upword(q, e, t), T, m) /\ Ordered(Upword(q, e, t), e)
<1> DEFINE S == {z \in Shaped(T, m) : /\ SameQueue(q, z, T, m)
                                      /\ OrderedBut(z, e, {z.index[t]})
                                      /\ Bridged(z, e, z.index[t])}
<1>1. q \in S
  BY DEF SameQueue
<1>2. \A z \in S : z \in Shaped(T, m) /\ t \in Members(z) /\ z.size = q.size
  BY DEF SameQueue
<1>3. ASSUME NEW z \in S
      PROVE  /\ UpwordTurn(z, e, t) \in S
             /\ Ordered(UpwordTurn(z, e, t), e) \/ UpwordTurn(z, e, t).index[t] < z.index[t]
             /\ Ordered(z, e) => UpwordTurn(z, e, t) = z
  <2>1. /\ SameQueue(z, UpwordTurn(z, e, t), T, m)
        /\ OrderedBut(UpwordTurn(z, e, t), e, {UpwordTurn(z, e, t).index[t]})
        /\ Bridged(UpwordTurn(z, e, t), e, UpwordTurn(z, e, t).index[t])
        /\ Ordered(UpwordTurn(z, e, t), e) \/ UpwordTurn(z, e, t).index[t] < z.index[t]
        /\ Ordered(z, e) => UpwordTurn(z, e, t) = z
    BY SMTT(60), <1>2, UpTurn
  <2>2. SameQueue(q, UpwordTurn(z, e, t), T, m)
    BY <2>1, SameQueueTwice
  <2>3. UpwordTurn(z, e, t) \in Shaped(T, m)
    BY <2>1 DEF SameQueue
  <2> QED
    BY <2>1, <2>2, <2>3
<1>4. \A z \in S : z.index[t] \in 0..(q.size - 1)
  BY <1>2, MemberFacts
<1>5. \A z \in S : SameQueue(q, z, T, m)
  OBVIOUS
<1> HIDE DEF S
<1>a. \A z \in S : UpwordTurn(z, e, t) \in S
  BY <1>3
<1>b. PICK f \in [Nat -> S] : LoopsUp(f, q, e, t)
  BY <1>1, <1>a, UpwordLoops
<1>6. /\ f[0] = q
      /\ \A n \in Nat : f[n + 1] = UpwordTurn(f[n], e, t)
      /\ Upword(q, e, t) = f[q.size]
  BY <1>b DEF LoopsUp
<1>7. q.size \in Nat
  BY MemberFacts
<1> DEFINE Good == {n \in Nat : Ordered(f[n], e) \/ f[n].index[t] <= q.size - 1 - n}
<1>8. 0 \in Good
  <2>1. f[0].index[t] <= q.size - 1 - 0
    BY SMTT(60), <1>1, <1>4, <1>6, <1>7
  <2> QED
    BY <2>1
<1>9. ASSUME NEW n \in Nat, n \in Good PROVE n + 1 \in Good
  <2>1. f[n] \in S /\ f[n + 1] \in S /\ n + 1 \in Nat
    BY SMTT(60)
  <2>2. f[n].index[t] \in Int /\ f[n + 1].index[t] \in Int
    BY SMTT(60), <2>1, <1>4
  <2>3. CASE Ordered(f[n], e)
    BY <2>1, <2>3, <1>3, <1>6
  <2>4. CASE ~Ordered(f[n], e)
    <3>1. f[n].index[t] <= q.size - 1 - n
      BY <2>4, <1>9
    <3>2. Ordered(f[n + 1], e) \/ f[n + 1].index[t] < f[n].index[t]
      BY <2>1, <1>3, <1>6
    <3>3. Ordered(f[n + 1], e) \/ f[n + 1].index[t] <= q.size - 1 - (n + 1)
      BY SMTT(60), <3>1, <3>2, <2>2, <1>7
    <3> QED
      BY <3>3, <2>1
  <2> QED
    BY <2>3, <2>4
<1>10. q.size \in Good
  <2> HIDE DEF Good
  <2> QED
    BY <1>7, <1>8, <1>9, Induction
<1>11. f[q.size] \in S
  BY <1>7
<1>12. Ordered(f[q.size], e)
  <2>1. f[q.size].index[t] \in 0..(q.size - 1)
    BY <1>4, <1>11
  <2>2. ~(f[q.size].index[t] <= q.size - 1 - q.size)
    BY SMTT(60), <1>7, <2>1
  <2> QED
    BY <1>10, <2>2
<1> QED
  BY <1>5, <1>6, <1>11, <1>12

\* downward puts a queue in order whose order fails between a task and its children.
LEMMA DownwardOrders ==
  ASSUME NEW T, NEW m \in Nat, NEW q \in Shaped(T, m), NEW e \in [T -> Int],
         NEW t \in Members(q), OrderedBut(q, e, ChildrenOf(q.index[t])), Bridged(q, e, q.index[t])
  PROVE  SameQueue(q, Downward(q, e, t), T, m) /\ Ordered(Downward(q, e, t), e)
<1> DEFINE S == {z \in Shaped(T, m) : /\ SameQueue(q, z, T, m)
                                      /\ OrderedBut(z, e, ChildrenOf(z.index[t]))
                                      /\ Bridged(z, e, z.index[t])}
<1>1. q \in S
  BY DEF SameQueue
<1>2. \A z \in S : z \in Shaped(T, m) /\ t \in Members(z) /\ z.size = q.size
  BY DEF SameQueue
<1>3. ASSUME NEW z \in S
      PROVE  /\ DownwardTurn(z, e, t) \in S
             /\ Ordered(DownwardTurn(z, e, t), e) \/ DownwardTurn(z, e, t).index[t] > z.index[t]
             /\ Ordered(z, e) => DownwardTurn(z, e, t) = z
  <2>1. /\ SameQueue(z, DownwardTurn(z, e, t), T, m)
        /\ OrderedBut(DownwardTurn(z, e, t), e, ChildrenOf(DownwardTurn(z, e, t).index[t]))
        /\ Bridged(DownwardTurn(z, e, t), e, DownwardTurn(z, e, t).index[t])
        /\ Ordered(DownwardTurn(z, e, t), e) \/ DownwardTurn(z, e, t).index[t] > z.index[t]
        /\ Ordered(z, e) => DownwardTurn(z, e, t) = z
    BY SMTT(60), <1>2, DownTurn
  <2>2. SameQueue(q, DownwardTurn(z, e, t), T, m)
    BY <2>1, SameQueueTwice
  <2>3. DownwardTurn(z, e, t) \in Shaped(T, m)
    BY <2>1 DEF SameQueue
  <2> QED
    BY <2>1, <2>2, <2>3
<1>4. \A z \in S : z.index[t] \in 0..(q.size - 1)
  BY <1>2, MemberFacts
<1>5. \A z \in S : SameQueue(q, z, T, m)
  OBVIOUS
<1> HIDE DEF S
<1>a. \A z \in S : DownwardTurn(z, e, t) \in S
  BY <1>3
<1>b. PICK f \in [Nat -> S] : LoopsDown(f, q, e, t)
  BY <1>1, <1>a, DownwardLoops
<1>6. /\ f[0] = q
      /\ \A n \in Nat : f[n + 1] = DownwardTurn(f[n], e, t)
      /\ Downward(q, e, t) = f[q.size]
  BY <1>b DEF LoopsDown
<1>7. q.size \in Nat
  BY MemberFacts
<1> DEFINE Good == {n \in Nat : Ordered(f[n], e) \/ f[n].index[t] >= n}
<1>8. 0 \in Good
  <2>1. f[0].index[t] >= 0
    BY SMTT(60), <1>1, <1>4, <1>6, <1>7
  <2> QED
    BY <2>1
<1>9. ASSUME NEW n \in Nat, n \in Good PROVE n + 1 \in Good
  <2>1. f[n] \in S /\ f[n + 1] \in S /\ n + 1 \in Nat
    BY SMTT(60)
  <2>2. f[n].index[t] \in Int /\ f[n + 1].index[t] \in Int
    BY SMTT(60), <2>1, <1>4
  <2>3. CASE Ordered(f[n], e)
    BY <2>1, <2>3, <1>3, <1>6
  <2>4. CASE ~Ordered(f[n], e)
    <3>1. f[n].index[t] >= n
      BY <2>4, <1>9
    <3>2. Ordered(f[n + 1], e) \/ f[n + 1].index[t] > f[n].index[t]
      BY <2>1, <1>3, <1>6
    <3>3. Ordered(f[n + 1], e) \/ f[n + 1].index[t] >= n + 1
      BY SMTT(60), <3>1, <3>2, <2>2, <1>7
    <3> QED
      BY <3>3, <2>1
  <2> QED
    BY <2>3, <2>4
<1>10. q.size \in Good
  <2> HIDE DEF Good
  <2> QED
    BY <1>7, <1>8, <1>9, Induction
<1>11. f[q.size] \in S
  BY <1>7
<1>12. Ordered(f[q.size], e)
  <2>1. f[q.size].index[t] \in 0..(q.size - 1)
    BY <1>4, <1>11
  <2>2. ~(f[q.size].index[t] >= q.size)
    BY SMTT(60), <1>7, <2>1
  <2> QED
    BY <1>10, <2>2
<1> QED
  BY <1>5, <1>6, <1>11, <1>12

\* downward of a task that the queue has no position for does nothing.
LEMMA DownwardStays ==
  ASSUME NEW q, NEW e, NEW t, q.size \in Nat, ~(q.index[t] < q.size \div 2)
  PROVE  Downward(q, e, t) = q
<1> DEFINE S == {q}
<1>1. q \in S /\ \A z \in S : z = q
  OBVIOUS
<1>2. DownwardTurn(q, e, t) = q
  BY DEF DownwardTurn
<1>3. \A z \in S : DownwardTurn(z, e, t) \in S
  BY <1>1, <1>2
<1> HIDE DEF S
<1>4. PICK f \in [Nat -> S] : LoopsDown(f, q, e, t)
  BY <1>1, <1>3, DownwardLoops
<1> QED
  BY <1>1, <1>4 DEF LoopsDown

\* updown puts a queue in order in which one task is out of order.
LEMMA UpdownOrders ==
  ASSUME NEW T, NEW m \in Nat, NEW q \in Shaped(T, m), NEW e \in [T -> Int],
         NEW t \in Members(q), NEW i, i = q.index[t],
         OrderedBut(q, e, {i} \cup ChildrenOf(i)), Bridged(q, e, i)
  PROVE  SameQueue(q, Updown(q, e, t), T, m) /\ Ordered(Updown(q, e, t), e)
<1>1. q.size \in 0..m /\ i \in 0..(q.size - 1) /\ At(q, i) = t
  BY SMTT(60), MemberFacts
<1>2. \A k \in 0..(q.size - 1) : e[At(q, k)] \in Int
  BY MemberFacts
<1>3. \A j \in (1..(q.size - 1)) \ ({i} \cup ChildrenOf(i)) : e[At(q, Parent(j))] <= e[At(q, j)]
  BY DEF OrderedBut
<1>4. \A j \in 1..(q.size - 1) : /\ j \in 0..(q.size - 1)
                                 /\ Parent(j) \in 0..(q.size - 1)
                                 /\ j \in ChildrenOf(i) => Parent(j) = i /\ j < q.size
  BY SMTT(60), <1>1, ParentFacts DEF ChildrenOf
<1>5. CASE i > 0 /\ e[t] < e[At(q, Parent(i))]
  <2>1. Updown(q, e, t) = Upword(q, e, t)
    BY <1>5 DEF Updown
  <2>2. OrderedBut(q, e, {i})
    <3> SUFFICES ASSUME NEW j \in 1..(q.size - 1), j # i
                 PROVE  e[At(q, Parent(j))] <= e[At(q, j)]
      BY DEF OrderedBut
    <3>1. CASE j \in ChildrenOf(i)
      <4>1. e[At(q, Parent(i))] <= e[At(q, j)] /\ At(q, Parent(j)) = t
        BY <3>1, <1>1, <1>4, <1>5 DEF Bridged
      <4>2. i \in 1..(q.size - 1)
        BY SMTT(60), <1>1, <1>5
      <4>3. e[At(q, Parent(i))] \in Int /\ e[At(q, j)] \in Int /\ e[t] \in Int
        BY <4>2, <1>1, <1>2, <1>4
      <4>4. e[t] <= e[At(q, j)]
        BY SMTT(60), <4>1, <4>3, <1>5
      <4> QED
        BY <4>1, <4>4
    <3>2. CASE j \notin ChildrenOf(i)
      BY <3>2, <1>3
    <3> QED
      BY <3>1, <3>2
  <2> QED
    BY <2>1, <2>2, UpwordOrders
<1>6. CASE ~(i > 0 /\ e[t] < e[At(q, Parent(i))])
  <2>1. Updown(q, e, t) = Downward(q, e, t)
    BY <1>6 DEF Updown
  <2>2. OrderedBut(q, e, ChildrenOf(i))
    <3> SUFFICES ASSUME NEW j \in 1..(q.size - 1), j \notin ChildrenOf(i)
                 PROVE  e[At(q, Parent(j))] <= e[At(q, j)]
      BY DEF OrderedBut
    <3>1. CASE j = i
      <4>1. i > 0 /\ e[At(q, Parent(i))] \in Int /\ e[t] \in Int
        BY SMTT(60), <3>1, <1>1, <1>2, <1>4
      <4>2. e[At(q, Parent(i))] <= e[t]
        BY SMTT(60), <4>1, <1>6
      <4> QED
        BY <3>1, <4>2, <1>1
    <3>2. CASE j # i
      BY <3>2, <1>3
    <3> QED
      BY <3>1, <3>2
  <2> QED
    BY <2>1, <2>2, DownwardOrders
<1> QED
  BY <1>5, <1>6
-------------------------------------------------------------------------------
\* check_timeout and get_epoll_wait_time look at the front only: no task in a queue in
\* order is earlier.
LEMMA NoneBeforeFront ==
  ASSUME NEW T, NEW q, NEW e \in [T -> Int], q.size \in Nat, Heap(q, T, e)
  PROVE  \A u \in Members(q) : e[Front(q)] <= e[u]
<1>1. q \in Shaped(T, q.size)
  BY DEF Heap
<1> DEFINE Good == {n \in Nat : \A k \in 0..(q.size - 1) : k <= n => e[At(q, 0)] <= e[At(q, k)]}
<1>2. \A k \in 0..(q.size - 1) : e[At(q, k)] \in Int
  BY <1>1, MemberFacts
<1>3. 0 \in Good
  <2> SUFFICES ASSUME NEW k \in 0..(q.size - 1), k <= 0 PROVE e[At(q, 0)] <= e[At(q, k)]
    OBVIOUS
  <2>1. k = 0
    BY SMTT(60)
  <2>2. e[At(q, k)] <= e[At(q, k)]
    BY SMTT(60), <1>2
  <2> QED
    BY <2>1, <2>2
<1>4. ASSUME NEW n \in Nat, n \in Good PROVE n + 1 \in Good
  <2> SUFFICES ASSUME NEW k \in 0..(q.size - 1), k <= n + 1 PROVE e[At(q, 0)] <= e[At(q, k)]
    BY SMTT(60)
  <2>1. CASE k <= n
    BY <2>1, <1>4
  <2>2. CASE ~(k <= n)
    <3>1. /\ k \in 1..(q.size - 1) /\ Parent(k) \in 0..(q.size - 1) /\ Parent(k) <= n
          /\ 0 \in 0..(q.size - 1)
      BY SMTT(60), <2>2, ParentFacts
    <3>2. e[At(q, 0)] <= e[At(q, Parent(k))]
      BY <3>1, <1>4
    <3>3. e[At(q, Parent(k))] <= e[At(q, k)]
      BY <3>1 DEF Heap, Ordered, OrderedBut
    <3>4. e[At(q, 0)] \in Int /\ e[At(q, Parent(k))] \in Int /\ e[At(q, k)] \in Int
      BY <3>1, <1>2
    <3> QED
      BY SMTT(60), <3>2, <3>3, <3>4
  <2> QED
    BY <2>1, <2>2
<1>5. \A n \in Nat : n \in Good
  <2> HIDE DEF Good
  <2> QED
    BY <1>3, <1>4, Induction
<1>6. \A k \in 0..(q.size - 1) : e[At(q, 0)] <= e[At(q, k)]
  <2>1. \A k \in 0..(q.size - 1) : k \in Nat /\ k <= k
    BY SMTT(60)
  <2> QED
    BY <1>5, <2>1
<1> QED
  BY SMTT(60), <1>1, <1>6, MemberFacts DEF Front

\* Insert: the task is in the queue, and the queue is in order.
LEMMA InsertFacts ==
  ASSUME NEW T, NEW q, NEW e \in [T -> Int], q.size \in Nat, Heap(q, T, e),
         NEW t \in T, t \notin Members(q), NEW r, r = Insert(q, e, t)
  PROVE  /\ r.size = q.size + 1 /\ r.size \in Nat
         /\ Heap(r, T, e)
         /\ Members(r) = Members(q) \cup {t}
         /\ \A u \in T \ Members(r) : r.index[u] = q.index[u]
<1> DEFINE n == q.size
           m == n + 1
           tasks == [k \in 1..m |-> IF k = m THEN t ELSE q.tasks[k]]
           index == [q.index EXCEPT ![t] = n]
           z == Parts3(tasks, m, index)
<1>1. /\ q \in Shaped(T, n)
      /\ q.tasks \in [1..n -> T] /\ q.index \in [T -> Int]
      /\ \A k \in 0..(n - 1) : q.index[q.tasks[k + 1]] = k
  <2>1. q \in Shaped(T, n)
    BY DEF Heap
  <2> QED
    BY <2>1, ShapedParts
<1>2. n \in Nat /\ m \in Nat /\ m \in 0..m /\ n \in Int
  BY SMTT(60)
<1>3. Append(q.tasks, t) = tasks
  BY SMTT(60), <1>1, <1>2
<1>4. r = Upword(z, e, t)
  BY <1>3 DEF Insert, Parts3
<1>5. \A k \in 1..n : k \in 1..m /\ k # m
  BY SMTT(60), <1>2
<1>6. \A k \in 1..m : k # m => k \in 1..n
  BY SMTT(60), <1>2
<1>7. m \in 1..m
  BY SMTT(60), <1>2
<1>8. tasks \in [1..m -> T] /\ index \in [T -> Int]
  BY <1>1, <1>2, <1>6
<1>9. tasks[m] = t /\ \A k \in 1..n : tasks[k] = q.tasks[k]
  BY <1>5, <1>7
<1>10. index[t] = n /\ \A u \in T : u # t => index[u] = q.index[u]
  BY <1>1
<1> HIDE DEF tasks, index
<1>11. \A k \in 0..(m - 1) : IF k = n THEN k + 1 = m ELSE k \in 0..(n - 1) /\ k + 1 \in 1..n
  BY SMTT(60), <1>2
<1>12. ASSUME NEW k \in 0..(m - 1) PROVE index[tasks[k + 1]] = k
  <2>1. CASE k = n
    BY <2>1, <1>9, <1>10, <1>11
  <2>2. CASE k # n
    <3>1. tasks[k + 1] = q.tasks[k + 1] /\ q.tasks[k + 1] \in T /\ q.index[q.tasks[k + 1]] = k
      BY <2>2, <1>1, <1>9, <1>11
    <3>2. q.tasks[k + 1] \in Members(q)
      BY <2>2, <1>11 DEF Members
    <3> QED
      BY <3>1, <3>2, <1>10
  <2> QED
    BY <2>1, <2>2
<1>13. z \in Shaped(T, m)
  BY <1>2, <1>8, <1>12, ShapedOf
<1>14. z.tasks = tasks /\ z.size = m /\ z.index = index
  BY DEF Parts3
<1> HIDE DEF z
<1>15. Members(z) = Members(q) \cup {t}
  <2>1. Members(z) = {tasks[k] : k \in 1..m}
    BY <1>14 DEF Members
  <2>2. \A k \in 1..m : tasks[k] \in Members(q) \cup {t}
    BY <1>6, <1>9 DEF Members
  <2>3. \A k \in 1..n : q.tasks[k] \in {tasks[l] : l \in 1..m}
    BY <1>5, <1>9
  <2>4. t \in {tasks[l] : l \in 1..m}
    BY <1>7, <1>9
  <2> QED
    BY ZenonT(60), <2>1, <2>2, <2>3, <2>4 DEF Members
<1>16. t \in Members(z) /\ z.index[t] = n
  BY <1>10, <1>14, <1>15
<1>17. OrderedBut(z, e, {n})
  <2> SUFFICES ASSUME NEW j \in 1..(m - 1), j # n PROVE e[At(z, Parent(j))] <= e[At(z, j)]
    BY <1>14 DEF OrderedBut
  <2>1. j \in 1..(n - 1) /\ j + 1 \in 1..n /\ Parent(j) + 1 \in 1..n
    BY SMTT(60), <1>2, ParentFacts
  <2>2. At(z, Parent(j)) = At(q, Parent(j)) /\ At(z, j) = At(q, j)
    BY <2>1, <1>9, <1>14 DEF At
  <2> QED
    BY <2>1, <2>2 DEF Heap, Ordered, OrderedBut
<1>18. Bridged(z, e, n)
  <2>1. \A j \in ChildrenOf(n) : ~(j < m)
    BY SMTT(60), <1>2 DEF ChildrenOf
  <2> QED
    BY <2>1, <1>14 DEF Bridged
<1>19. SameQueue(z, r, T, m) /\ Ordered(r, e)
  BY SMTT(60), <1>2, <1>4, <1>13, <1>16, <1>17, <1>18, UpwordOrders
<1>20. r.size = m /\ r \in Shaped(T, m) /\ Members(r) = Members(q) \cup {t}
  BY <1>14, <1>15, <1>19 DEF SameQueue
<1>21. \A u \in T \ Members(r) : r.index[u] = q.index[u]
  BY <1>10, <1>14, <1>15, <1>19, <1>20 DEF SameQueue
<1> QED
  BY <1>2, <1>19, <1>20, <1>21 DEF Heap

\* expire_time_change: the queue is in order by the new deadlines.
LEMMA ChangeFacts ==
  ASSUME NEW T, NEW q, NEW e0 \in [T -> Int], NEW e \in [T -> Int],
         q.size \in Nat, Heap(q, T, e0), NEW t \in Members(q),
         \A u \in T \ {t} : e[u] = e0[u], NEW r, r = Updown(q, e, t)
  PROVE  /\ r.size = q.size
         /\ Heap(r, T, e)
         /\ Members(r) = Members(q)
         /\ \A u \in T \ Members(r) : r.index[u] = q.index[u]
<1> DEFINE i == q.index[t]
<1>1. q \in Shaped(T, q.size)
  BY DEF Heap
<1>2. i \in 0..(q.size - 1) /\ At(q, i) = t
  BY SMTT(60), <1>1, MemberFacts
<1>3. \A k \in 0..(q.size - 1) : k # i => At(q, k) \in T \ {t} /\ e[At(q, k)] = e0[At(q, k)]
  BY SMTT(60), <1>1, <1>2, MemberFacts
<1>4. \A k \in 0..(q.size - 1) : e0[At(q, k)] \in Int
  BY <1>1, MemberFacts
<1>5. \A j \in 1..(q.size - 1) : /\ j \in 0..(q.size - 1) /\ Parent(j) \in 0..(q.size - 1)
                                 /\ Parent(j) # j
                                 /\ Parent(j) = i <=> j \in ChildrenOf(i)
  BY SMTT(60), <1>2, ParentFacts DEF ChildrenOf
<1>6. \A j \in 1..(q.size - 1) : e0[At(q, Parent(j))] <= e0[At(q, j)]
  BY DEF Heap, Ordered, OrderedBut
<1> HIDE DEF i
<1>7. OrderedBut(q, e, {i} \cup ChildrenOf(i))
  BY <1>3, <1>5, <1>6 DEF OrderedBut
<1>8. Bridged(q, e, i)
  <2> SUFFICES ASSUME i > 0, NEW j \in ChildrenOf(i), j < q.size
               PROVE  e[At(q, Parent(i))] <= e[At(q, j)]
    BY DEF Bridged
  <2>1. i \in 1..(q.size - 1) /\ j \in 1..(q.size - 1) /\ j # i
    BY SMTT(60), <1>2 DEF ChildrenOf
  <2>2. e0[At(q, Parent(i))] <= e0[At(q, i)] /\ e0[At(q, i)] <= e0[At(q, j)]
    BY <2>1, <1>5, <1>6
  <2>3. e[At(q, Parent(i))] = e0[At(q, Parent(i))] /\ e[At(q, j)] = e0[At(q, j)]
    BY <2>1, <1>3, <1>5
  <2>4. e0[At(q, Parent(i))] \in Int /\ e0[At(q, i)] \in Int /\ e0[At(q, j)] \in Int
    BY <2>1, <1>2, <1>4, <1>5
  <2> QED
    BY SMTT(60), <2>2, <2>3, <2>4
<1>9. SameQueue(q, r, T, q.size) /\ Ordered(r, e)
  BY <1>1, <1>7, <1>8, UpdownOrders DEF i
<1> QED
  BY <1>9 DEF SameQueue, Heap

\* The slot that erase read is cut off: nothing else changes.
LEMMA ShrunkFacts ==
  ASSUME NEW T, NEW m \in Nat, NEW z \in Shaped(T, m), NEW e, Ordered(z, e),
         NEW r, r = Shrunk(z)
  PROVE  /\ r.size = z.size /\ r.index = z.index
         /\ Members(r) = Members(z)
         /\ Heap(r, T, e)
<1> DEFINE n == z.size
           tasks == [k \in 1..n |-> z.tasks[k]]
<1>1. /\ z = Parts3(z.tasks, z.size, z.index)
      /\ z.tasks \in [1..m -> T] /\ n \in 0..m /\ z.index \in [T -> Int]
      /\ \A k \in 0..(n - 1) : z.index[z.tasks[k + 1]] = k
  BY ShapedParts
<1>2. n \in Nat /\ n \in 0..n /\ 1..n \subseteq 1..m
  BY SMTT(60), <1>1
<1>3. SubSeq(z.tasks, 1, n) = tasks
  BY SMTT(60), <1>1, <1>2
<1>4. r = Parts3(tasks, n, z.index)
  BY <1>1, <1>3 DEF Shrunk, Parts3
<1>5. tasks \in [1..n -> T] /\ \A k \in 1..n : tasks[k] = z.tasks[k]
  BY <1>1, <1>2
<1> HIDE DEF tasks
<1>6. r.tasks = tasks /\ r.size = n /\ r.index = z.index
  BY <1>4 DEF Parts3
<1>7. \A k \in 0..(n - 1) : k + 1 \in 1..n
  BY SMTT(60), <1>2
<1>8. \A k \in 0..(n - 1) : z.index[tasks[k + 1]] = k
  BY <1>1, <1>5, <1>7
<1>9. Parts3(tasks, n, z.index) \in Shaped(T, n)
  BY <1>1, <1>2, <1>5, <1>8, ShapedOf
<1>10. Members(r) = Members(z)
  BY <1>5, <1>6 DEF Members
<1>11. \A k \in 0..(n - 1) : At(r, k) = At(z, k)
  BY <1>5, <1>6, <1>7 DEF At
<1>12. Ordered(r, e)
  <2>1. \A j \in 1..(n - 1) : j \in 0..(n - 1) /\ Parent(j) \in 0..(n - 1)
    BY SMTT(60), <1>2, ParentFacts
  <2> QED
    BY <2>1, <1>6, <1>11 DEF Ordered, OrderedBut
<1> QED
  BY <1>4, <1>6, <1>9, <1>10, <1>12 DEF Heap

\* erase: the last task takes the place of the task erased, and the queue is in order
\* without it.  When the task erased is the last one, nothing moves.
LEMMA EraseFacts ==
  ASSUME NEW T, NEW q, NEW e \in [T -> Int], q.size \in Nat, Heap(q, T, e),
         NEW t \in Members(q), NEW r, r = Erase(q, e, t)
  PROVE  /\ r.size = q.size - 1 /\ r.size \in Nat
         /\ Heap(r, T, e)
         /\ Members(r) = Members(q) \ {t}
         /\ \A u \in T \ Members(q) : r.index[u] = q.index[u]
         /\ r.index \in [T -> Int]
<1> DEFINE n == q.size
           i == q.index[t]
           last == q.tasks[n]
           tasks == [q.tasks EXCEPT ![i + 1] = last]
           index == [q.index EXCEPT ![last] = i]
           z == Parts3(tasks, n - 1, index)
<1>1. q \in Shaped(T, n)
  BY DEF Heap
<1>2. /\ q = Parts3(q.tasks, n, q.index)
      /\ q.tasks \in [1..n -> T] /\ q.index \in [T -> Int]
      /\ \A k \in 0..(n - 1) : q.index[q.tasks[k + 1]] = k
  BY <1>1, ShapedParts
<1>3. i \in 0..(n - 1) /\ q.tasks[i + 1] = t /\ t \in T
  BY SMTT(60), <1>1, MemberFacts DEF At
<1>4. /\ n - 1 \in Nat /\ (n - 1) + 1 = n /\ n \in 1..n /\ n - 1 \in 0..n /\ n - 1 \in 0..(n - 1)
      /\ i + 1 \in 1..n /\ i \in Int
  BY SMTT(60), <1>3
<1>5. last \in T /\ q.index[last] = n - 1
  BY <1>2, <1>4
<1>6. [Place(q, i, At(q, q.size - 1)) EXCEPT !.size = @ - 1] = z
  <2>1. Place(q, i, last) = Parts3(tasks, n, index)
    BY SMTT(60), <1>2, PlaceParts
  <2>2. At(q, q.size - 1) = last
    BY <1>4 DEF At
  <2> HIDE DEF tasks, index
  <2>3. [Parts3(tasks, n, index) EXCEPT !.size = @ - 1] = z
    BY DEF Parts3
  <2> QED
    BY <2>1, <2>2, <2>3
<1>7. tasks \in [1..n -> T] /\ index \in [T -> Int]
  BY <1>2, <1>4, <1>5
<1>8. tasks[i + 1] = last /\ \A k \in 1..n : k # i + 1 => tasks[k] = q.tasks[k]
  BY <1>2, <1>4
<1>9. index[last] = i /\ \A u \in T : u # last => index[u] = q.index[u]
  BY <1>2, <1>5
<1>10. z.tasks = tasks /\ z.size = n - 1 /\ z.index = index
  BY DEF Parts3
<1>11. At(z, i) = last
  BY <1>8, <1>10 DEF At
<1>12. r = Shrunk(Updown(z, e, last))
  BY <1>6, <1>11 DEF Erase
<1> HIDE DEF tasks, index, last, i
<1>13. \A k \in 0..(n - 2) : /\ k \in 0..(n - 1) /\ k + 1 \in 1..n /\ k # n - 1
                             /\ k # i => k + 1 # i + 1
  BY SMTT(60), <1>3, <1>4
<1>14. ASSUME NEW k \in 0..((n - 1) - 1) PROVE index[tasks[k + 1]] = k
  <2>0. k \in 0..(n - 2)
    BY SMTT(60), <1>4
  <2>1. CASE k = i
    BY <2>1, <1>8, <1>9
  <2>2. CASE k # i
    <3>1. tasks[k + 1] = q.tasks[k + 1] /\ q.tasks[k + 1] \in T /\ q.index[q.tasks[k + 1]] = k
      BY <2>0, <2>2, <1>2, <1>8, <1>13
    <3>2. q.tasks[k + 1] # last
      BY <2>0, <3>1, <1>5, <1>13
    <3> QED
      BY <3>1, <3>2, <1>9
  <2> QED
    BY <2>1, <2>2
<1>15. z \in Shaped(T, n)
  BY <1>4, <1>7, <1>14, ShapedOf
<1> HIDE DEF z
<1>16. Members(z) = Members(q) \ {t}
  <2>1. Members(z) = {tasks[k] : k \in 1..(n - 1)}
    BY <1>10 DEF Members
  <2>2. \A k \in 1..n : k - 1 \in 0..(n - 1) /\ (k - 1) + 1 = k
    BY SMTT(60)
  <2>3. \A k \in 1..n, l \in 1..n : q.tasks[k] = q.tasks[l] => k = l
    <3> SUFFICES ASSUME NEW k \in 1..n, NEW l \in 1..n, q.tasks[k] = q.tasks[l] PROVE k = l
      OBVIOUS
    <3>1. k - 1 = l - 1
      BY SMTT(60), <2>2, <1>2
    <3> QED
      BY SMTT(60), <3>1
  <2>4. \A k \in 1..(n - 1) : k \in 1..n /\ k # n
    BY SMTT(60)
  <2>5. \A k \in 1..n : k # n => k \in 1..(n - 1)
    BY SMTT(60)
  <2>6. i + 1 = n => last = t
    BY <1>3 DEF last
  <2>7. \A k \in 1..(n - 1) : tasks[k] \in Members(q) \ {t}
    <3> SUFFICES ASSUME NEW k \in 1..(n - 1) PROVE tasks[k] \in Members(q) \ {t}
      OBVIOUS
    <3>1. CASE k = i + 1
      <4>1. tasks[k] = q.tasks[n] /\ n # i + 1
        BY <3>1, <2>4, <1>8 DEF last
      <4> QED
        BY <4>1, <2>3, <1>3, <1>4 DEF Members
    <3>2. CASE k # i + 1
      <4>1. tasks[k] = q.tasks[k] /\ k \in 1..n
        BY <3>2, <2>4, <1>8
      <4> QED
        BY <3>2, <4>1, <2>3, <1>3, <1>4 DEF Members
    <3> QED
      BY <3>1, <3>2
  <2>8. ASSUME NEW u \in Members(q) \ {t} PROVE u \in {tasks[k] : k \in 1..(n - 1)}
    <3>1. PICK k \in 1..n : u = q.tasks[k]
      BY DEF Members
    <3>2. k # i + 1
      BY <3>1, <1>3
    <3>3. CASE k = n
      <4>1. i + 1 \in 1..(n - 1) /\ tasks[i + 1] = u
        BY <3>1, <3>2, <3>3, <2>5, <1>4, <1>8 DEF last
      <4> QED
        BY <4>1
    <3>4. CASE k # n
      BY <3>1, <3>2, <3>4, <2>5, <1>8
    <3> QED
      BY <3>3, <3>4
  <2> QED
    BY <2>1, <2>7, <2>8
<1>17. \A u \in T \ Members(q) : z.index[u] = q.index[u]
  <2>1. last \in Members(q)
    BY <1>4 DEF Members, last
  <2> QED
    BY <2>1, <1>9, <1>10
<1>18. \A k \in 0..(n - 2) : k # i => At(z, k) = At(q, k)
  BY <1>8, <1>10, <1>13 DEF At
<1>19. \A j \in 1..(n - 1) : e[At(q, Parent(j))] <= e[At(q, j)]
  BY DEF Heap, Ordered, OrderedBut
<1>20. \A j \in 1..(n - 2) : /\ j \in 1..(n - 1) /\ j \in 0..(n - 2) /\ Parent(j) \in 0..(n - 2)
                             /\ Parent(j) # j
                             /\ Parent(j) = i <=> j \in ChildrenOf(i)
  BY SMTT(60), <1>3, ParentFacts DEF ChildrenOf
<1>21. (n - 1) - 1 = n - 2
  BY SMTT(60)
<1>22. OrderedBut(z, e, {i} \cup ChildrenOf(i))
  BY <1>10, <1>18, <1>19, <1>20, <1>21 DEF OrderedBut
<1> DEFINE y == Updown(z, e, last)
<1>23. SameQueue(z, y, T, n) /\ Ordered(y, e)
  <2>1. CASE i = n - 1
    <3>1. last = t /\ i + 1 = n
      BY <2>1, <1>3, <1>4 DEF last
    <3>2. i > 0 => ~(e[last] < e[At(z, Parent(i))])
      <4> SUFFICES ASSUME i > 0 PROVE ~(e[last] < e[At(z, Parent(i))])
        OBVIOUS
      <4>1. i \in 1..(n - 1) /\ Parent(i) \in 0..(n - 2) /\ Parent(i) # i /\ Parent(i) \in 0..(n - 1)
        BY SMTT(60), <1>3, <2>1, ParentFacts
      <4>2. At(z, Parent(i)) = At(q, Parent(i)) /\ At(q, i) = last
        BY <4>1, <3>1, <1>18 DEF At, last
      <4>3. e[At(q, Parent(i))] <= e[At(q, i)]
        BY <4>1, <1>19
      <4>4. e[At(q, Parent(i))] \in Int /\ e[At(q, i)] \in Int
        BY <4>1, <1>1, <1>3, MemberFacts
      <4> QED
        BY SMTT(60), <4>2, <4>3, <4>4
    <3>3. y = Downward(z, e, last)
      BY <3>2, <1>9, <1>10 DEF Updown
    <3>4. ~(z.index[last] < z.size \div 2) /\ z.size \in Nat
      BY SMTT(60), <2>1, <1>4, <1>9, <1>10
    <3>5. y = z
      BY <3>3, <3>4, DownwardStays
    <3>6. \A j \in 1..(n - 2) : j # i /\ j \notin ChildrenOf(i)
      BY SMTT(60), <2>1, <1>4 DEF ChildrenOf
    <3>7. Ordered(z, e)
      BY <3>6, <1>10, <1>21, <1>22 DEF Ordered, OrderedBut
    <3> QED
      BY <3>5, <3>7, <1>15 DEF SameQueue
  <2>2. CASE i # n - 1
    <3>1. i \in 0..(n - 2) /\ i + 1 # n
      BY SMTT(60), <2>2, <1>3
    <3>2. last \in Members(z)
      <4>1. i + 1 \in 1..(n - 1)
        BY SMTT(60), <3>1
      <4> QED
        BY <4>1, <1>8, <1>10 DEF Members
    <3>3. Bridged(z, e, i)
      <4> SUFFICES ASSUME i > 0, NEW j \in ChildrenOf(i), j < n - 1
                   PROVE  e[At(z, Parent(i))] <= e[At(z, j)]
        BY <1>10 DEF Bridged
      <4>1. i \in 1..(n - 2) /\ j \in 1..(n - 2) /\ j # i
        BY SMTT(60), <3>1 DEF ChildrenOf
      <4>2. e[At(q, Parent(i))] <= e[At(q, i)] /\ e[At(q, i)] <= e[At(q, j)]
        BY <4>1, <1>19, <1>20
      <4>3. At(z, Parent(i)) = At(q, Parent(i)) /\ At(z, j) = At(q, j)
        BY <4>1, <1>18, <1>20
      <4>4. /\ Parent(i) \in 0..(n - 1) /\ i \in 0..(n - 1) /\ j \in 0..(n - 1)
        BY <4>1, <1>13, <1>20
      <4>5. e[At(q, Parent(i))] \in Int /\ e[At(q, i)] \in Int /\ e[At(q, j)] \in Int
        BY <4>4, <1>1, MemberFacts
      <4> QED
        BY SMTT(60), <4>2, <4>3, <4>5
    <3> QED
      BY <3>2, <3>3, <1>9, <1>10, <1>15, <1>22, UpdownOrders
  <2> QED
    BY <2>1, <2>2
<1> HIDE DEF y
<1>24. y \in Shaped(T, n) /\ y.index \in [T -> Int]
  <2>1. y \in Shaped(T, n)
    BY <1>23 DEF SameQueue
  <2> QED
    BY <2>1, ShapedParts
<1>25. /\ r.size = y.size /\ r.index = y.index
       /\ Members(r) = Members(y)
       /\ Heap(r, T, e)
  BY <1>12, <1>23, <1>24, ShrunkFacts DEF y
<1> QED
  BY <1>4, <1>10, <1>16, <1>17, <1>23, <1>24, <1>25 DEF SameQueue

\* pop_front is erase of the front.
LEMMA PopFrontIsErase ==
  ASSUME NEW T, NEW q, NEW e \in [T -> Int], q.size \in Nat, q.size > 0, Heap(q, T, e)
  PROVE  PopFront(q, e) = Erase(q, e, Front(q)) /\ Front(q) \in Members(q)
<1> DEFINE moved == [Place(q, 0, At(q, q.size - 1)) EXCEPT !.size = @ - 1]
<1>1. q \in Shaped(T, q.size)
  BY DEF Heap
<1>2. 0 \in 0..(q.size - 1) /\ q.size - 1 \in 0..(q.size - 1)
  BY SMTT(60)
<1>3. q.index[Front(q)] = 0 /\ Front(q) \in Members(q)
  BY SMTT(60), <1>1, <1>2, MemberFacts DEF Front
<1>4. At(moved, 0) = At(q, q.size - 1) /\ moved.index[At(q, q.size - 1)] = 0
  <2> DEFINE last == At(q, q.size - 1)
             tasks == [q.tasks EXCEPT ![0 + 1] = last]
             index == [q.index EXCEPT ![last] = 0]
  <2>1. q = Parts3(q.tasks, q.size, q.index) /\ q.tasks \in [1..q.size -> T] /\ q.index \in [T -> Int]
    BY SMTT(60), <1>1, ShapedParts
  <2>2. Place(q, 0, last) = Parts3(tasks, q.size, index)
    BY SMTT(60), <2>1, PlaceParts
  <2>3. last \in T
    BY SMTT(60), <1>1, <1>2, MemberFacts
  <2>4. 0 + 1 \in 1..q.size
    BY SMTT(60), <1>2
  <2>5. tasks[0 + 1] = last /\ index[last] = 0
    BY <2>1, <2>3, <2>4
  <2> HIDE DEF tasks, index, last
  <2>6. moved.tasks = tasks /\ moved.index = index
    BY <2>2 DEF Parts3, last
  <2> QED
    BY <2>5, <2>6 DEF At, last
<1>5. Erase(q, e, Front(q)) = Shrunk(Updown(moved, e, At(moved, 0)))
  BY <1>3 DEF Erase
<1>6. PopFront(q, e) = Shrunk(Downward(moved, e, At(moved, 0)))
  BY DEF PopFront
<1> HIDE DEF moved
<1>7. moved.index[At(moved, 0)] = 0 /\ ~(0 > 0)
  BY SMTT(60), <1>4
<1>8. Updown(moved, e, At(moved, 0)) = Downward(moved, e, At(moved, 0))
  BY <1>7 DEF Updown
<1> QED
  BY <1>3, <1>5, <1>6, <1>8

\* Only the deadlines of the tasks queued count.
LEMMA OnlyMembersCount ==
  ASSUME NEW T, NEW q, NEW e, NEW d, q.size \in Nat, Heap(q, T, e),
         \A u \in Members(q) : d[u] = e[u]
  PROVE  Heap(q, T, d)
<1>1. q \in Shaped(T, q.size)
  BY DEF Heap
<1>2. \A j \in 1..(q.size - 1) : j \in 0..(q.size - 1) /\ Parent(j) \in 0..(q.size - 1)
  BY SMTT(60), ParentFacts
<1>3. \A k \in 0..(q.size - 1) : d[At(q, k)] = e[At(q, k)]
  BY <1>1, MemberFacts
<1> QED
  BY <1>1, <1>2, <1>3 DEF Heap, Ordered, OrderedBut

\* A task that left is forgotten.
LEMMA ResetFacts ==
  ASSUME NEW T, NEW q, NEW e, q.size \in Nat, Heap(q, T, e), NEW t \in T, t \notin Members(q),
         NEW r, r = reset(q, t)
  PROVE  /\ r.size = q.size /\ Members(r) = Members(q) /\ Heap(r, T, e)
         /\ r.index[t] = -1 /\ \A u \in T \ {t} : r.index[u] = q.index[u]
<1> DEFINE index == [q.index EXCEPT ![t] = -1]
<1>1. q \in Shaped(T, q.size)
  BY DEF Heap
<1>2. /\ q = Parts3(q.tasks, q.size, q.index) /\ q.size \in 0..q.size
      /\ q.tasks \in [1..q.size -> T] /\ q.index \in [T -> Int]
      /\ \A k \in 0..(q.size - 1) : q.index[q.tasks[k + 1]] = k
  BY <1>1, ShapedParts
<1>3. r = Parts3(q.tasks, q.size, index)
  BY <1>2 DEF Parts3, reset
<1>4. index \in [T -> Int] /\ index[t] = -1 /\ \A u \in T \ {t} : index[u] = q.index[u]
  BY SMTT(60), <1>2
<1>5. \A k \in 0..(q.size - 1) : q.tasks[k + 1] \in T \ {t}
  BY SMTT(60), <1>1, MemberFacts DEF At
<1>6. r.tasks = q.tasks /\ r.size = q.size /\ r.index = index
  BY <1>3 DEF Parts3
<1> HIDE DEF index
<1>7. \A k \in 0..(q.size - 1) : index[q.tasks[k + 1]] = k
  BY <1>2, <1>4, <1>5
<1>8. Parts3(q.tasks, q.size, index) \in Shaped(T, q.size)
  <2>1. q.tasks \in [1..q.size -> T] /\ q.size \in 0..q.size /\ index \in [T -> Int]
    BY <1>2, <1>4
  <2> QED
    BY <1>7, <2>1, ShapedOf
<1>9. Members(r) = Members(q) /\ Ordered(r, e)
  BY <1>6 DEF Members, Heap, Ordered, OrderedBut, At
<1> QED
  BY <1>3, <1>4, <1>6, <1>8, <1>9 DEF Heap, index

\* An empty queue is in order.
LEMMA EmptyFacts ==
  ASSUME NEW T, NEW e, NEW q, q = Empty(T)
  PROVE  /\ q.size = 0 /\ Heap(q, T, e) /\ Members(q) = {}
         /\ \A t \in T : q.index[t] = -1
<1>1. q = Parts3(<<>>, 0, [t \in T |-> -1])
  BY DEF Empty, Parts3
<1>2. q.size = 0 /\ q.tasks = <<>> /\ q.index = [t \in T |-> -1]
  BY <1>1 DEF Parts3
<1>3. 1..0 = {} /\ 0..(0 - 1) = {} /\ 1..(0 - 1) = {} /\ 0 \in 0..0
  BY SMTT(60)
<1>4. <<>> \in [1..0 -> T] /\ [t \in T |-> -1] \in [T -> Int]
  BY SMTT(60)
<1>5. Parts3(<<>>, 0, [t \in T |-> -1]) \in Shaped(T, 0)
  <2> DEFINE index == [t \in T |-> -1]
  <2>1. index \in [T -> Int]
    BY <1>4
  <2> HIDE DEF index
  <2>2. \A i \in 0..(0 - 1) : index[<<>>[i + 1]] = i
    BY <1>3
  <2>3. Parts3(<<>>, 0, index) \in Shaped(T, 0)
    BY <2>1, <2>2, <1>3, <1>4, ShapedOf
  <2> QED
    BY <2>3 DEF index
<1> QED
  BY <1>1, <1>2, <1>3, <1>5 DEF Heap, Ordered, OrderedBut, Members

-------------------------------------------------------------------------------
\* The inductive invariant of the queue of deadlines: the heap's order at every position,
\* which says more than that the front is the earliest.
QueueInv ==
  /\ deadline \in [QueuedTasks -> Int]
  /\ queue.size \in Nat
  /\ Heap(queue, QueuedTasks, deadline)
  /\ \A t \in QueuedTasks \ Members(queue) : queue.index[t] = -1 /\ deadline[t] = 0

\* Leaving the queue, by erase or by pop_front
LEMMA LeaveStep ==
  ASSUME QueueInv, NEW t \in Members(queue),
         queue' = reset(Erase(queue, deadline, t), t),
         deadline' = [deadline EXCEPT ![t] = 0]
  PROVE  QueueInv'
<1> DEFINE r == Erase(queue, deadline, t)
<1>0. queue \in Shaped(QueuedTasks, queue.size) /\ t \in QueuedTasks
  <2>1. queue \in Shaped(QueuedTasks, queue.size)
    BY DEF QueueInv, Heap
  <2> QED
    BY <2>1, MemberFacts DEF QueueInv
<1>1. /\ r.size \in Nat
      /\ Heap(r, QueuedTasks, deadline)
      /\ Members(r) = Members(queue) \ {t}
      /\ \A u \in QueuedTasks \ Members(queue) : r.index[u] = queue.index[u]
  BY SMTT(60), EraseFacts DEF QueueInv
<1>2. queue' = reset(r, t)
  OBVIOUS
<1> HIDE DEF r
<1>4. /\ queue'.size = r.size /\ Members(queue') = Members(r) /\ Heap(queue', QueuedTasks, deadline)
      /\ queue'.index[t] = -1 /\ \A u \in QueuedTasks \ {t} : queue'.index[u] = r.index[u]
  <2>1. t \in QueuedTasks /\ t \notin Members(r)
    BY <1>0, <1>1
  <2> QED
    BY SMTT(60), <2>1, <1>1, <1>2, ResetFacts
<1>5. /\ deadline' \in [QueuedTasks -> Int] /\ deadline'[t] = 0
      /\ \A u \in QueuedTasks \ {t} : deadline'[u] = deadline[u]
  BY SMTT(60), <1>0 DEF QueueInv
<1>6. Members(queue') \subseteq QueuedTasks \ {t}
  <2>1. Members(queue) \subseteq QueuedTasks
    BY <1>0, MemberFacts DEF QueueInv
  <2> QED
    BY <2>1, <1>1, <1>4
<1>7. Heap(queue', QueuedTasks, deadline')
  BY <1>1, <1>4, <1>5, <1>6, OnlyMembersCount
<1>8. \A u \in QueuedTasks \ Members(queue') : queue'.index[u] = -1 /\ deadline'[u] = 0
  BY <1>1, <1>4, <1>5 DEF QueueInv
<1> QED
  BY <1>1, <1>4, <1>5, <1>7, <1>8 DEF QueueInv, Members

\* Every operation of the queue keeps the invariant.
LEMMA QueueStep ==
  ASSUME QueueInv, [QueueNext]_queueVars
  PROVE  QueueInv'
<1>0. queue \in Shaped(QueuedTasks, queue.size) /\ Members(queue) \subseteq QueuedTasks
  <2>1. queue \in Shaped(QueuedTasks, queue.size)
    BY DEF QueueInv, Heap
  <2> QED
    BY <2>1, MemberFacts DEF QueueInv
<1>1. ASSUME NEW t \in QueuedTasks, NEW d \in Times, insert(t, d) PROVE QueueInv'
  <2>1. /\ deadline' \in [QueuedTasks -> Int]
        /\ \A u \in QueuedTasks \ {t} : deadline'[u] = deadline[u]
    BY SMTT(60), <1>1, TimesAssumption DEF QueueInv, insert
  <2>2. t \notin Members(queue) /\ queue' = Insert(queue, deadline', t)
    BY <1>1 DEF insert
  <2>3. Heap(queue, QueuedTasks, deadline')
    BY <2>1, <2>2, <1>0, OnlyMembersCount DEF QueueInv
  <2>4. /\ queue'.size \in Nat
        /\ Heap(queue', QueuedTasks, deadline')
        /\ Members(queue') = Members(queue) \cup {t}
        /\ \A u \in QueuedTasks \ Members(queue') : queue'.index[u] = queue.index[u]
    BY SMTT(60), <2>1, <2>2, <2>3, InsertFacts DEF QueueInv
  <2> QED
    BY <2>1, <2>4 DEF QueueInv, Members
<1>2. ASSUME NEW t \in QueuedTasks, NEW d \in Times, expire_time_change(t, d) PROVE QueueInv'
  <2>1. /\ deadline' \in [QueuedTasks -> Int]
        /\ \A u \in QueuedTasks \ {t} : deadline'[u] = deadline[u]
    BY SMTT(60), <1>2, TimesAssumption DEF QueueInv, expire_time_change
  <2>2. t \in Members(queue) /\ queue' = Updown(queue, deadline', t)
    BY <1>2 DEF expire_time_change
  <2>3. /\ queue'.size = queue.size
        /\ Heap(queue', QueuedTasks, deadline')
        /\ Members(queue') = Members(queue)
        /\ \A u \in QueuedTasks \ Members(queue') : queue'.index[u] = queue.index[u]
    BY SMTT(60), <2>1, <2>2, ChangeFacts DEF QueueInv
  <2> QED
    BY <2>1, <2>2, <2>3 DEF QueueInv, Members
<1>3. ASSUME NEW t \in QueuedTasks, erase(t) PROVE QueueInv'
  BY <1>3, LeaveStep DEF erase
<1>4. ASSUME pop_front PROVE QueueInv'
  <2>1. PopFront(queue, deadline) = Erase(queue, deadline, Front(queue)) /\ Front(queue) \in Members(queue)
    BY <1>4, PopFrontIsErase DEF pop_front, QueueInv
  <2> QED
    BY <2>1, <1>4, LeaveStep DEF pop_front
<1>5. ASSUME UNCHANGED queueVars PROVE QueueInv'
  BY <1>5 DEF queueVars, QueueInv, Members
<1> QED
  BY <1>1, <1>2, <1>3, <1>4, <1>5 DEF QueueNext

\* The invariant says that the queue is sound.
LEMMA QueueInvIsSound ==
  ASSUME QueueInv
  PROVE  HeapIsSound
<1>1. queue \in Shaped(QueuedTasks, queue.size)
  BY DEF QueueInv, Heap
<1>2. NoneIsEarlier
  BY NoneBeforeFront DEF QueueInv, NoneIsEarlier
<1>3. Len(queue.tasks) = queue.size
  <2>1. queue.tasks \in [1..queue.size -> QueuedTasks] /\ queue.size \in Nat
    BY <1>1, ShapedParts DEF QueueInv
  <2> QED
    BY SMTT(60), <2>1
<1>4. \A t \in Members(queue) : queue.index[t] \in 0..(queue.size - 1) /\ At(queue, queue.index[t]) = t
  BY <1>1, MemberFacts DEF QueueInv
<1> QED
  BY <1>2, <1>3, <1>4 DEF QueueInv, HeapIsSound, IndexIsPosition

\* The queue of deadlines is sound after any sequence of its operations, for any number
\* of tasks and any deadlines: the front is a task with the earliest deadline and every
\* m_queue_index is right.
THEOREM QueueIsSound == QueueSpec => []HeapIsSound
<1>1. QueueInit => QueueInv
  <2> SUFFICES ASSUME QueueInit PROVE QueueInv
    OBVIOUS
  <2>1. queue = Empty(QueuedTasks)
    BY DEF QueueInit
  <2>2. deadline \in [QueuedTasks -> Int] /\ \A t \in QueuedTasks : deadline[t] = 0
    BY SMTT(60) DEF QueueInit
  <2>3. /\ queue.size = 0 /\ Heap(queue, QueuedTasks, deadline)
        /\ \A t \in QueuedTasks : queue.index[t] = -1
    BY <2>1, EmptyFacts
  <2>4. queue.size \in Nat
    BY SMTT(60), <2>3
  <2> QED
    BY <2>2, <2>3, <2>4 DEF QueueInv
<1>2. QueueInv /\ [QueueNext]_queueVars => QueueInv'
  BY QueueStep
<1>3. QueueInv => HeapIsSound
  BY QueueInvIsSound
<1> QED
  BY <1>1, <1>2, <1>3, PTL DEF QueueSpec
===============================================================================
