--------------------------- MODULE ServicesProofs ---------------------------
(***************************************************************************)
(* What the runs check of ThreadWorker and of the components of Services   *)
(* on small instances, for every value of their constants.  Each part has  *)
(* an inductive invariant, a lemma for every step and a theorem.           *)
(***************************************************************************)
EXTENDS Services, ThreadWorker, Integers, Sequences, TLAPS

\* Leaves are tried with Zenon, then SMT; a leaf that only SMT proves says so.
USE ZenonT(30), SMTT(60)

-----------------------------------------------------------------------------
(* TextMinerResource.  A thread is in at most two getters, the inner one   *)
(* for the dictionary.  Who initialises a resource has its mutex, so its   *)
(* flag is not set by another, and an object is replaced only before its   *)
(* flag is set.                                                            *)

Pcs == {"flag", "lock", "init", "dict", "load", "unlock", "return"}
Inside == {"init", "dict", "load", "unlock"}
Mutexes == {"dict_manager_mutex_", "module_mutex_"}
Frames == [resource : Miner!Resources, pc : Pcs]

\* A getter is called by the user, or the dictionary's by an Init function.
ShapeOk(s) ==
    /\ s \in Seq(Frames)
    /\ Len(s) <= 2
    /\ Len(s) = 2 => /\ s[1].resource \in UponDict /\ s[1].pc = "dict"
                     /\ s[2].resource = Dict

\* A resource is initialised before its getter returns, and not before it is.
FrameOk(f, init) ==
    /\ f.pc \in {"init", "dict", "load"} => ~init[f.resource]
    /\ f.pc \in {"unlock", "return"} => init[f.resource]
    /\ f.pc = "dict" => f.resource \in UponDict

FramesOk(s, init) == \A i \in 1..Len(s) : FrameOk(s[i], init)

\* A thread with these frames has the mutex.
HasIn(s, m) ==
    \E i \in 1..Len(s) : Miner!MutexOf(s[i].resource) = m /\ s[i].pc \in Inside

\* A thread holds the mutexes of its frames, and no others.
StackInv ==
    /\ is_init \in [Miner!Resources -> BOOLEAN]
    /\ holder \in [Mutexes -> MinerThreads \cup {Miner!Nobody}]
    /\ stack \in [MinerThreads -> Seq(Frames)]
    /\ \A t \in MinerThreads : ShapeOk(stack[t]) /\ FramesOk(stack[t], is_init)
    /\ \A t \in MinerThreads, m \in Mutexes : holder[m] = t <=> HasIn(stack[t], m)

\* An initialised resource has a complete object, and whoever got an object
\* got the one that is kept.
DataInv ==
    /\ pointer \in [Miner!Resources -> Nat]
    /\ objects \in Nat
    /\ got \in [MinerThreads -> Miner!Resources \X Nat]
    /\ \A x \in Miner!Resources : is_init[x] => pointer[x] \in ready
    /\ \A t \in MinerThreads : got[t][2] # 0 => /\ is_init[got[t][1]]
                                                /\ got[t][2] = pointer[got[t][1]]

MinerInv == StackInv /\ DataInv

\* The depth of a stack.
LEMMA OneOrTwo ==
  ASSUME NEW n \in Nat, n <= 2, n # 0
  PROVE  (n = 1 \/ n = 2) /\ n \in 1..2 /\ n \in 1..n
OBVIOUS

\* A thread in TextMinerResource has the mutex of its innermost getter while
\* that initialises, and module_mutex_ while it asks for the dictionary.
LEMMA HasTop ==
  ASSUME NEW s, ShapeOk(s), Len(s) > 0, NEW m
  PROVE  HasIn(s, m) <=>
           \/ m = Miner!MutexOf(s[Len(s)].resource) /\ s[Len(s)].pc \in Inside
           \/ Len(s) = 2 /\ m = "module_mutex_"
<1>1. CASE Len(s) = 1
  BY <1>1 DEF HasIn
<1>2. CASE Len(s) = 2
  <2>1. s[1].pc \in Inside /\ Miner!MutexOf(s[1].resource) = "module_mutex_"
    BY <1>2, MinerAssumption DEF ShapeOk, Inside, Miner!MutexOf
  <2>2. HasIn(s, m) <=> \/ Miner!MutexOf(s[1].resource) = m /\ s[1].pc \in Inside
                        \/ Miner!MutexOf(s[2].resource) = m /\ s[2].pc \in Inside
    BY <1>2 DEF HasIn
  <2> QED
    BY <1>2, <2>1, <2>2
<1>3. Len(s) = 1 \/ Len(s) = 2
  <2>1. Len(s) \in Nat /\ Len(s) <= 2
    BY SMTT(60) DEF ShapeOk
  <2>2. Len(s) # 0
    BY <2>1
  <2> QED
    BY <2>1, <2>2, OneOrTwo
<1> QED
  BY <1>1, <1>2, <1>3

\* One thread's frames change, and perhaps the flags and mutexes it has to itself.
LEMMA StackMoves ==
  ASSUME StackInv, NEW t \in MinerThreads, NEW s,
         stack' = [stack EXCEPT ![t] = s],
         ShapeOk(s), FramesOk(s, is_init'),
         is_init' \in [Miner!Resources -> BOOLEAN],
         \A y \in Miner!Resources : is_init[y] => is_init'[y],
         \A y \in Miner!Resources :
            is_init'[y] /\ ~is_init[y] => holder[Miner!MutexOf(y)] = t,
         holder' \in [Mutexes -> MinerThreads \cup {Miner!Nobody}],
         \A m \in Mutexes : holder'[m] = t <=> HasIn(s, m),
         \A m \in Mutexes, u \in MinerThreads : u # t => (holder'[m] = u <=> holder[m] = u)
  PROVE  StackInv'
<1>1. /\ stack' \in [MinerThreads -> Seq(Frames)] /\ stack'[t] = s
      /\ \A u \in MinerThreads : u # t => stack'[u] = stack[u]
  BY SMTT(60) DEF StackInv, ShapeOk
<1>2. ASSUME NEW u \in MinerThreads, u # t PROVE FramesOk(stack[u], is_init')
  <2> SUFFICES ASSUME NEW i \in 1..Len(stack[u]) PROVE FrameOk(stack[u][i], is_init')
    BY DEF FramesOk
  <2> DEFINE f == stack[u][i]
  <2>1. f.resource \in Miner!Resources /\ FrameOk(f, is_init)
    <3>1. stack[u] \in Seq(Frames) /\ FramesOk(stack[u], is_init)
      BY DEF StackInv, ShapeOk
    <3>2. f \in Frames
      BY SMTT(60), <3>1
    <3> QED
      BY <3>1, <3>2 DEF FramesOk, Frames
  <2>2. ASSUME f.pc \in {"init", "dict", "load"} PROVE ~is_init'[f.resource]
    <3>1. HasIn(stack[u], Miner!MutexOf(f.resource)) /\ Miner!MutexOf(f.resource) \in Mutexes
      BY <2>2 DEF HasIn, Inside, Miner!MutexOf, Mutexes
    <3>2. holder[Miner!MutexOf(f.resource)] = u
      BY SMTT(60), <3>1 DEF StackInv
    <3> QED
      BY <1>2, <2>1, <2>2, <3>2 DEF FrameOk
  <2> HIDE DEF f
  <2>3. FrameOk(f, is_init')
    BY <2>1, <2>2 DEF FrameOk
  <2> QED
    BY <2>3 DEF f
<1>3. \A u \in MinerThreads : ShapeOk(stack'[u]) /\ FramesOk(stack'[u], is_init')
  BY <1>1, <1>2 DEF StackInv
<1>4. \A u \in MinerThreads, m \in Mutexes : holder'[m] = u <=> HasIn(stack'[u], m)
  BY SMTT(60), <1>1 DEF StackInv
<1> QED
  BY <1>1, <1>3, <1>4 DEF StackInv, ShapeOk, FramesOk, FrameOk, HasIn, Miner!MutexOf

\* The frames of a thread whose innermost getter goes on.
LEMMA TopMoves ==
  ASSUME StackInv, NEW t \in MinerThreads, stack[t] # <<>>, NEW pc \in Pcs
  PROVE  \E s :
           /\ Miner!Goto(t, pc) = [stack EXCEPT ![t] = s]
           /\ Miner!Goto(t, pc)[t] = s
           /\ ShapeOk(s) /\ Len(s) = Len(stack[t]) /\ Len(s) \in 1..2
           /\ s[Len(s)].resource = Miner!Top(t).resource /\ s[Len(s)].pc = pc
           /\ Len(s) = 2 => s[1] = stack[t][1]
<1> DEFINE old == stack[t]
           n == Len(old)
           f == [old[n] EXCEPT !.pc = pc]
           s == [old EXCEPT ![n] = f]
<1>1. old \in Seq(Frames) /\ n \in 1..2 /\ n \in 1..Len(old)
  <2>1. old \in Seq(Frames) /\ n <= 2
    BY DEF StackInv, ShapeOk
  <2>2. n \in Nat \ {0}
    BY SMTT(60), <2>1
  <2> QED
    BY <2>1, <2>2, OneOrTwo
<1>2. old[n] \in Frames
  BY SMTT(60), <1>1
<1>3. f \in Frames /\ f.resource = old[n].resource /\ f.pc = pc
  BY <1>2 DEF Frames
<1>4. Miner!Goto(t, pc) = [stack EXCEPT ![t] = s]
  BY DEF Miner!Goto
<1> HIDE DEF f
<1>5. /\ s \in Seq(Frames) /\ Len(s) = n /\ s[n] = f
      /\ n = 2 => s[1] = old[1]
  <2>1. /\ s \in Seq(Frames) /\ Len(s) = n
        /\ \A j \in 1..n : s[j] = IF j = n THEN f ELSE old[j]
    BY SMTT(60), <1>1, <1>3
  <2>2. n = 2 => 1 \in 1..n /\ 1 # n
    OBVIOUS
  <2> QED
    BY <1>1, <2>1, <2>2
<1>6. ShapeOk(s)
  BY SMTT(60), <1>1, <1>3, <1>5 DEF StackInv, ShapeOk
<1> HIDE DEF s
<1>7. Miner!Goto(t, pc)[t] = s
  BY <1>4 DEF StackInv
<1> QED
  BY <1>1, <1>3, <1>4, <1>5, <1>6, <1>7 DEF Miner!Top

\* A getter's mutex is held while it initialises, and by its thread.
LEMMA HoldsTop ==
  ASSUME StackInv, NEW t \in MinerThreads, stack[t] # <<>>
  PROVE  /\ Len(stack[t]) > 0
         /\ Miner!Top(t).resource \in Miner!Resources /\ Miner!Top(t).pc \in Pcs
         /\ Miner!MutexOf(Miner!Top(t).resource) \in Mutexes
         /\ FrameOk(Miner!Top(t), is_init)
         /\ Len(stack[t]) = 2 => /\ Miner!Top(t).resource = Dict
                                 /\ Miner!MutexOf(Miner!Top(t).resource) # "module_mutex_"
         /\ holder[Miner!MutexOf(Miner!Top(t).resource)] = t <=> Miner!Top(t).pc \in Inside
<1> DEFINE s == stack[t]
<1>1. ShapeOk(s) /\ FramesOk(s, is_init) /\ s \in Seq(Frames)
  BY DEF StackInv, ShapeOk
<1>2. Len(s) \in Nat /\ Len(s) # 0 /\ Len(s) <= 2
  BY SMTT(60), <1>1 DEF ShapeOk
<1>3. Len(s) \in 1..Len(s) /\ Len(s) > 0
  BY <1>2
<1>4. Miner!Top(t) \in Frames /\ FrameOk(Miner!Top(t), is_init)
  BY SMTT(60), <1>1, <1>3 DEF Miner!Top, FramesOk
<1>5. Len(s) = 2 => /\ Miner!Top(t).resource = Dict
                    /\ Miner!MutexOf(Miner!Top(t).resource) # "module_mutex_"
  BY <1>1 DEF Miner!Top, ShapeOk, Miner!MutexOf
<1>6. Miner!MutexOf(Miner!Top(t).resource) \in Mutexes
  BY DEF Miner!MutexOf, Mutexes
<1>7. holder[Miner!MutexOf(Miner!Top(t).resource)] = t <=>
         HasIn(s, Miner!MutexOf(Miner!Top(t).resource))
  BY <1>6 DEF StackInv
<1>8. HasIn(s, Miner!MutexOf(Miner!Top(t).resource)) <=> Miner!Top(t).pc \in Inside
  BY <1>1, <1>3, <1>5, HasTop DEF Miner!Top
<1> QED
  BY <1>3, <1>4, <1>5, <1>6, <1>7, <1>8 DEF Frames

\* The innermost getter of a thread goes on.
LEMMA TopStep ==
  ASSUME StackInv, NEW t \in MinerThreads, stack[t] # <<>>, NEW pc \in Pcs, NEW x,
         x = Miner!Top(t).resource,
         stack' = Miner!Goto(t, pc),
         is_init' \in [Miner!Resources -> BOOLEAN],
         \A y \in Miner!Resources : y # x => is_init'[y] = is_init[y],
         is_init[x] => is_init'[x],
         is_init'[x] /\ ~is_init[x] => Miner!Top(t).pc \in Inside,
         \A f : f.resource = x /\ f.pc = pc => FrameOk(f, is_init'),
         holder' \in [Mutexes -> MinerThreads \cup {Miner!Nobody}],
         \A m \in Mutexes : m # Miner!MutexOf(x) => holder'[m] = holder[m],
         holder'[Miner!MutexOf(x)] = t <=> pc \in Inside,
         \A u \in MinerThreads :
            u # t => (holder'[Miner!MutexOf(x)] = u <=> holder[Miner!MutexOf(x)] = u)
  PROVE  StackInv'
<1>1. PICK s : /\ stack' = [stack EXCEPT ![t] = s]
               /\ ShapeOk(s) /\ Len(s) = Len(stack[t]) /\ Len(s) \in 1..2
               /\ s[Len(s)].resource = x /\ s[Len(s)].pc = pc
               /\ Len(s) = 2 => s[1] = stack[t][1]
  BY SMTT(60), TopMoves
<1>2. Len(s) > 0 /\ ShapeOk(stack[t]) /\ Len(stack[t]) > 0 /\ (Len(s) = 1 \/ Len(s) = 2)
  BY SMTT(60), <1>1, HoldsTop DEF StackInv
<1>3. /\ x \in Miner!Resources /\ Miner!MutexOf(x) \in Mutexes
      /\ Len(s) = 2 => x = Dict /\ Miner!MutexOf(x) # "module_mutex_"
      /\ holder[Miner!MutexOf(x)] = t <=> Miner!Top(t).pc \in Inside
  BY SMTT(60), <1>1, HoldsTop
<1>4. FramesOk(s, is_init')
  <2>1. FrameOk(s[Len(s)], is_init')
    BY <1>1
  <2>2. CASE Len(s) = 1
    <3>1. \A i \in 1..Len(s) : i = Len(s)
      BY SMTT(60), <2>2
    <3> QED
      BY <2>1, <3>1 DEF FramesOk
  <2>3. CASE Len(s) = 2
    <3>1. /\ s[1].resource \in UponDict /\ s[1].pc = "dict" /\ s[1] = stack[t][1]
          /\ s[1].resource \in Miner!Resources
      BY <1>1, <2>3 DEF ShapeOk, Miner!Resources
    <3>2. FrameOk(s[1], is_init)
      <4>1. 1 \in 1..Len(stack[t])
        BY SMTT(60), <1>1, <2>3
      <4> QED
        BY <3>1, <4>1 DEF StackInv, FramesOk
    <3>3. s[1].resource # x
      BY SMTT(60), <1>3, <2>3, <3>1, MinerAssumption
    <3>4. is_init'[s[1].resource] = is_init[s[1].resource]
      BY <3>1, <3>3
    <3>5. FrameOk(s[1], is_init')
      BY <3>2, <3>4 DEF FrameOk
    <3>6. \A i \in 1..Len(s) : i = 1 \/ i = Len(s)
      BY SMTT(60), <2>3
    <3> QED
      BY <2>1, <3>5, <3>6 DEF FramesOk
  <2> QED
    BY <1>2, <2>2, <2>3
<1>5. ASSUME NEW m \in Mutexes PROVE holder'[m] = t <=> HasIn(s, m)
  <2>1. HasIn(s, m) <=>
           (m = Miner!MutexOf(x) /\ pc \in Inside) \/ (Len(s) = 2 /\ m = "module_mutex_")
    <3>1. HasIn(s, m) <=>
             \/ m = Miner!MutexOf(s[Len(s)].resource) /\ s[Len(s)].pc \in Inside
             \/ Len(s) = 2 /\ m = "module_mutex_"
      BY SMTT(60), <1>1, <1>2, HasTop
    <3> QED
      BY <1>1, <3>1
  <2>2. HasIn(stack[t], m) <=>
          \/ m = Miner!MutexOf(x) /\ Miner!Top(t).pc \in Inside
          \/ Len(s) = 2 /\ m = "module_mutex_"
    <3>1. HasIn(stack[t], m) <=>
             \/ /\ m = Miner!MutexOf(stack[t][Len(stack[t])].resource)
                /\ stack[t][Len(stack[t])].pc \in Inside
             \/ Len(stack[t]) = 2 /\ m = "module_mutex_"
      BY SMTT(60), <1>2, HasTop
    <3>2. Miner!Top(t) = stack[t][Len(stack[t])]
      BY DEF Miner!Top
    <3> QED
      BY <1>1, <3>1, <3>2
  <2>3. holder[m] = t <=> HasIn(stack[t], m)
    BY DEF StackInv
  <2> QED
    BY <1>3, <2>1, <2>2, <2>3
<1>6. \A y \in Miner!Resources : is_init[y] => is_init'[y]
  OBVIOUS
<1>7. \A y \in Miner!Resources : is_init'[y] /\ ~is_init[y] => holder[Miner!MutexOf(y)] = t
  BY <1>3
<1>8. \A m \in Mutexes, u \in MinerThreads : u # t => (holder'[m] = u <=> holder[m] = u)
  OBVIOUS
<1> QED
  BY <1>1, <1>4, <1>5, <1>6, <1>7, <1>8, StackMoves

\* The innermost getter of a thread returns.
LEMMA PopStep ==
  ASSUME StackInv, NEW t \in MinerThreads, stack[t] # <<>>, NEW x,
         x = Miner!Top(t).resource,
         stack' = [stack EXCEPT ![t] = SubSeq(@, 1, Len(@) - 1)],
         UNCHANGED is_init,
         holder' \in [Mutexes -> MinerThreads \cup {Miner!Nobody}],
         \A m \in Mutexes : m # Miner!MutexOf(x) => holder'[m] = holder[m],
         holder'[Miner!MutexOf(x)] # t,
         \A u \in MinerThreads :
            u # t => (holder'[Miner!MutexOf(x)] = u <=> holder[Miner!MutexOf(x)] = u)
  PROVE  StackInv'
<1> DEFINE old == stack[t]
           s == SubSeq(old, 1, Len(old) - 1)
<1>1. /\ ShapeOk(old) /\ FramesOk(old, is_init) /\ old \in Seq(Frames)
      /\ Len(old) = 1 \/ Len(old) = 2
  <2>1. ShapeOk(old) /\ FramesOk(old, is_init) /\ old \in Seq(Frames)
    BY DEF StackInv, ShapeOk
  <2>2. Len(old) \in Nat /\ Len(old) # 0 /\ Len(old) <= 2
    BY SMTT(60), <2>1 DEF ShapeOk
  <2> QED
    BY <2>1, <2>2, OneOrTwo
<1>2. stack' = [stack EXCEPT ![t] = s]
  OBVIOUS
<1>3. /\ is_init' \in [Miner!Resources -> BOOLEAN]
      /\ \A y \in Miner!Resources : is_init[y] => is_init'[y]
      /\ \A y \in Miner!Resources :
            is_init'[y] /\ ~is_init[y] => holder[Miner!MutexOf(y)] = t
  BY DEF StackInv
<1>4. \A m \in Mutexes, u \in MinerThreads : u # t => (holder'[m] = u <=> holder[m] = u)
  OBVIOUS
<1>5. CASE Len(old) = 1
  <2>1. s = <<>>
    BY SMTT(60), <1>5
  <2> HIDE DEF s
  <2>2. ShapeOk(s) /\ FramesOk(s, is_init') /\ \A m : ~HasIn(s, m)
    BY SMTT(60), <2>1 DEF ShapeOk, FramesOk, HasIn
  <2>3. ASSUME NEW m \in Mutexes PROVE holder'[m] # t
    <3>1. HasIn(old, m) => m = Miner!MutexOf(x)
      <4>1. Len(old) > 0 /\ Len(old) # 2
        BY SMTT(60), <1>5
      <4>2. Miner!Top(t) = old[Len(old)]
        BY DEF Miner!Top
      <4> HIDE DEF old
      <4> QED
        BY <1>1, <4>1, <4>2, HasTop
    <3>2. holder[m] = t <=> HasIn(old, m)
      BY DEF StackInv
    <3> QED
      BY <3>1, <3>2
  <2> QED
    BY <1>2, <1>3, <1>4, <2>2, <2>3, StackMoves
<1>6. CASE Len(old) = 2
  <2>1. s \in Seq(Frames) /\ Len(s) = 1 /\ s[1] = old[1]
    <3>1. \A i \in 1..1 : old[i] \in Frames
      BY SMTT(60), <1>1, <1>6
    <3>2. s = SubSeq(old, 1, 1)
      BY SMTT(60), <1>6
    <3> HIDE DEF s
    <3> QED
      BY SMTT(60), <3>1, <3>2
  <2> HIDE DEF s
  <2>2. s[1].resource \in UponDict /\ s[1].pc = "dict" /\ FrameOk(s[1], is_init)
    <3>1. 1 \in 1..Len(old)
      BY SMTT(60), <1>6
    <3> QED
      BY <1>1, <1>6, <2>1, <3>1 DEF ShapeOk, FramesOk
  <2>3. ShapeOk(s) /\ FramesOk(s, is_init')
    <3>1. \A i \in 1..Len(s) : i = 1
      BY SMTT(60), <2>1
    <3>2. FrameOk(s[1], is_init')
      BY <2>2
    <3>3. FramesOk(s, is_init')
      BY <3>1, <3>2 DEF FramesOk
    <3> QED
      BY SMTT(60), <2>1, <3>3 DEF ShapeOk
  <2>4. ASSUME NEW m \in Mutexes PROVE holder'[m] = t <=> HasIn(s, m)
    <3>1. HasIn(s, m) <=> m = "module_mutex_"
      <4>1. Miner!MutexOf(s[1].resource) = "module_mutex_" /\ s[1].pc \in Inside
        BY <2>2, MinerAssumption DEF Miner!MutexOf, Inside
      <4>2. Len(s) > 0 /\ Len(s) # 2
        BY SMTT(60), <2>1
      <4> QED
        BY <2>1, <2>3, <4>1, <4>2, HasTop
    <3>2. HasIn(old, m) <=>
             (m = Miner!MutexOf(x) /\ Miner!Top(t).pc \in Inside) \/ m = "module_mutex_"
      BY SMTT(60), <1>1, <1>6, HasTop DEF Miner!Top
    <3>3. Miner!MutexOf(x) # "module_mutex_"
      BY <1>6, HoldsTop
    <3>4. holder[m] = t <=> HasIn(old, m)
      BY DEF StackInv
    <3> QED
      BY <3>1, <3>2, <3>3, <3>4
  <2> QED
    BY <1>2, <1>3, <1>4, <2>3, <2>4, StackMoves
<1> QED
  BY <1>1, <1>5, <1>6

\* A getter that reads the flag without the lock returns only if it is set.
LEMMA ReadFlagInv ==
  ASSUME MinerInv, NEW t \in MinerThreads, Miner!ReadFlag(t)
  PROVE  MinerInv'
<1> DEFINE x == Miner!Top(t).resource
           pc == IF is_init[x] THEN "return" ELSE "lock"
<1>0. /\ StackInv /\ is_init' = is_init /\ is_init \in [Miner!Resources -> BOOLEAN]
      /\ holder \in [Mutexes -> MinerThreads \cup {Miner!Nobody}]
  BY DEF MinerInv, StackInv, Miner!ReadFlag
<1>1. /\ stack[t] # <<>> /\ Miner!Top(t).pc = "flag" /\ stack' = Miner!Goto(t, pc)
      /\ UNCHANGED <<is_init, pointer, ready, objects, holder, got>>
  BY DEF Miner!ReadFlag, Miner!At
<1>2. /\ pc \in Pcs /\ pc \notin Inside /\ (pc = "return" => is_init[x])
      /\ pc = "return" \/ pc = "lock"
  BY DEF Pcs, Inside
<1>3. holder[Miner!MutexOf(x)] # t
  BY <1>1, HoldsTop DEF MinerInv, Inside
<1> HIDE DEF pc
<1>4. \A f : f.resource = x /\ f.pc = pc => FrameOk(f, is_init')
  BY <1>1, <1>2 DEF FrameOk
<1>5. StackInv'
  BY <1>0, <1>1, <1>2, <1>3, <1>4, TopStep
<1>6. DataInv'
  BY <1>1 DEF MinerInv, DataInv
<1> QED
  BY <1>5, <1>6 DEF MinerInv

\* A getter takes the mutex of its resource and looks at the flag again.
LEMMA LockInv ==
  ASSUME MinerInv, NEW t \in MinerThreads, Miner!Lock(t)
  PROVE  MinerInv'
<1> DEFINE x == Miner!Top(t).resource
           pc == IF is_init[x] THEN "unlock" ELSE "init"
<1>0. /\ StackInv /\ is_init' = is_init /\ is_init \in [Miner!Resources -> BOOLEAN]
      /\ holder \in [Mutexes -> MinerThreads \cup {Miner!Nobody}]
  BY DEF MinerInv, StackInv, Miner!Lock
<1>1. /\ stack[t] # <<>> /\ stack' = Miner!Goto(t, pc) /\ holder[Miner!MutexOf(x)] = Miner!Nobody
      /\ holder' = [holder EXCEPT ![Miner!MutexOf(x)] = t]
      /\ UNCHANGED <<is_init, pointer, ready, objects, got>>
  BY DEF Miner!Lock, Miner!At, Miner!InitNeeded
<1>2. /\ pc \in Pcs /\ pc \in Inside /\ (pc = "unlock" => is_init[x])
      /\ (pc = "init" => ~is_init[x]) /\ (pc = "unlock" \/ pc = "init")
  BY DEF Pcs, Inside
<1>3. Miner!MutexOf(x) \in Mutexes
  BY <1>1, HoldsTop DEF MinerInv
<1> HIDE DEF pc
<1>4. \A f : f.resource = x /\ f.pc = pc => FrameOk(f, is_init')
  BY <1>1, <1>2 DEF FrameOk
<1>5. /\ holder' \in [Mutexes -> MinerThreads \cup {Miner!Nobody}]
      /\ holder'[Miner!MutexOf(x)] = t
      /\ \A m \in Mutexes : m # Miner!MutexOf(x) => holder'[m] = holder[m]
  BY <1>1, <1>3 DEF MinerInv, StackInv
<1>6. \A u \in MinerThreads :
         u # t => (holder'[Miner!MutexOf(x)] = u <=> holder[Miner!MutexOf(x)] = u)
  BY <1>1, <1>5, MinerAssumption DEF Miner!Nobody
<1>7. StackInv'
  BY SMTT(60), <1>0, <1>1, <1>2, <1>4, <1>5, <1>6, TopStep
<1>8. DataInv'
  BY <1>1 DEF MinerInv, DataInv
<1> QED
  BY <1>7, <1>8 DEF MinerInv

\* A getter gives the mutex back when the resource is initialised.
LEMMA UnlockMutexInv ==
  ASSUME MinerInv, NEW t \in MinerThreads, Miner!UnlockMutex(t)
  PROVE  MinerInv'
<1> DEFINE x == Miner!Top(t).resource
<1>0. /\ StackInv /\ is_init' = is_init /\ is_init \in [Miner!Resources -> BOOLEAN]
      /\ holder \in [Mutexes -> MinerThreads \cup {Miner!Nobody}]
  BY DEF MinerInv, StackInv, Miner!UnlockMutex
<1>1. /\ stack[t] # <<>> /\ Miner!Top(t).pc = "unlock" /\ stack' = Miner!Goto(t, "return")
      /\ holder' = [holder EXCEPT ![Miner!MutexOf(x)] = Miner!Nobody]
      /\ UNCHANGED <<is_init, pointer, ready, objects, got>>
  BY DEF Miner!UnlockMutex, Miner!At, Miner!Unlock
<1>2. /\ Miner!MutexOf(x) \in Mutexes /\ holder[Miner!MutexOf(x)] = t
      /\ FrameOk(Miner!Top(t), is_init)
  BY <1>1, HoldsTop DEF MinerInv, Inside
<1>3. is_init[x]
  BY <1>1, <1>2 DEF FrameOk
<1>4. \A f : f.resource = x /\ f.pc = "return" => FrameOk(f, is_init')
  BY <1>1, <1>3 DEF FrameOk
<1>5. /\ holder' \in [Mutexes -> MinerThreads \cup {Miner!Nobody}]
      /\ holder'[Miner!MutexOf(x)] = Miner!Nobody
      /\ \A m \in Mutexes : m # Miner!MutexOf(x) => holder'[m] = holder[m]
  BY <1>1, <1>2 DEF MinerInv, StackInv
<1>6. /\ holder'[Miner!MutexOf(x)] # t
      /\ \A u \in MinerThreads :
            u # t => (holder'[Miner!MutexOf(x)] = u <=> holder[Miner!MutexOf(x)] = u)
  BY <1>2, <1>5, MinerAssumption DEF Miner!Nobody
<1>7. "return" \in Pcs /\ "return" \notin Inside
  BY DEF Pcs, Inside
<1>8. StackInv'
  BY SMTT(60), <1>0, <1>1, <1>4, <1>5, <1>6, <1>7, TopStep
<1>9. DataInv'
  BY <1>1 DEF MinerInv, DataInv
<1> QED
  BY <1>8, <1>9 DEF MinerInv

\* A getter is called from outside.
LEMMA GetInv ==
  ASSUME MinerInv, NEW t \in MinerThreads, NEW x \in Miner!Resources, Miner!Get(t, x)
  PROVE  MinerInv'
<1> DEFINE s == <<Miner!Frame(x)>>
<1>1. /\ stack[t] = <<>> /\ stack' = [stack EXCEPT ![t] = s]
      /\ UNCHANGED <<is_init, pointer, ready, objects, holder, got>>
  BY DEF Miner!Get
<1>2. Miner!Frame(x) \in Frames /\ Miner!Frame(x).pc = "flag"
  BY DEF Miner!Frame, Frames, Pcs
<1>3. ShapeOk(s) /\ FramesOk(s, is_init') /\ \A m : ~HasIn(s, m)
  <2>1. s \in Seq(Frames) /\ Len(s) = 1 /\ s[1] = Miner!Frame(x)
    BY <1>2
  <2> HIDE DEF s
  <2>2. FrameOk(s[1], is_init') /\ s[1].pc \notin Inside
    BY <1>2, <2>1 DEF FrameOk, Inside
  <2>3. \A i \in 1..Len(s) : i = 1
    BY <2>1
  <2>4. ShapeOk(s)
    BY <2>1 DEF ShapeOk
  <2> QED
    BY <2>2, <2>3, <2>4 DEF FramesOk, HasIn
<1> HIDE DEF s
<1>4. \A m \in Mutexes : holder'[m] # t
  <2>1. \A m : ~HasIn(<<>>, m)
    BY DEF HasIn
  <2> QED
    BY SMTT(60), <1>1, <2>1 DEF MinerInv, StackInv
<1>5. /\ is_init' \in [Miner!Resources -> BOOLEAN]
      /\ \A y \in Miner!Resources : is_init[y] => is_init'[y]
      /\ \A y \in Miner!Resources :
            is_init'[y] /\ ~is_init[y] => holder[Miner!MutexOf(y)] = t
      /\ holder' \in [Mutexes -> MinerThreads \cup {Miner!Nobody}]
  BY <1>1 DEF MinerInv, StackInv
<1>6. \A m \in Mutexes, u \in MinerThreads : u # t => (holder'[m] = u <=> holder[m] = u)
  BY <1>1
<1>7. StackInv'
  BY <1>1, <1>3, <1>4, <1>5, <1>6, StackMoves DEF MinerInv
<1>8. DataInv'
  BY <1>1 DEF MinerInv, DataInv
<1> QED
  BY <1>7, <1>8 DEF MinerInv

\* A resource gets a new object only while it is not initialised, so nobody has the old one.
LEMMA DataMoves ==
  ASSUME DataInv, NEW x \in Miner!Resources, is_init \in [Miner!Resources -> BOOLEAN],
         ~is_init[x],
         pointer' \in [Miner!Resources -> Nat], objects' \in Nat, UNCHANGED got,
         \A y \in Miner!Resources :
            y # x => pointer'[y] = pointer[y] /\ is_init'[y] = is_init[y],
         ready \subseteq ready',
         is_init'[x] => pointer'[x] \in ready'
  PROVE  DataInv'
<1>1. \A y \in Miner!Resources : is_init'[y] => pointer'[y] \in ready'
  BY DEF DataInv
<1>2. ASSUME NEW t \in MinerThreads, got[t][2] # 0
      PROVE  is_init'[got[t][1]] /\ got[t][2] = pointer'[got[t][1]]
  <2>1. /\ got[t][1] \in Miner!Resources
        /\ is_init[got[t][1]] /\ got[t][2] = pointer[got[t][1]]
    BY <1>2 DEF DataInv
  <2> QED
    BY <2>1
<1> QED
  BY <1>1, <1>2 DEF DataInv

\* InitX creates the object, or asks for the dictionary first.
LEMMA InitBeginInv ==
  ASSUME MinerInv, NEW t \in MinerThreads, Miner!InitBegin(t)
  PROVE  MinerInv'
<1> DEFINE x == Miner!Top(t).resource
<1>0. /\ StackInv /\ is_init' = is_init /\ is_init \in [Miner!Resources -> BOOLEAN]
      /\ holder \in [Mutexes -> MinerThreads \cup {Miner!Nobody}]
  BY DEF MinerInv, StackInv, Miner!InitBegin
<1>1. /\ stack[t] # <<>> /\ Miner!Top(t).pc = "init"
      /\ UNCHANGED <<is_init, ready, holder, got>>
  BY DEF Miner!InitBegin, Miner!At
<1>2. /\ x \in Miner!Resources /\ Miner!MutexOf(x) \in Mutexes /\ FrameOk(Miner!Top(t), is_init)
      /\ holder[Miner!MutexOf(x)] = t /\ StackInv /\ DataInv
      /\ Len(stack[t]) = 2 => x = Dict
  BY <1>1, HoldsTop DEF MinerInv, Inside
<1>3. ~is_init[x] /\ is_init \in [Miner!Resources -> BOOLEAN]
  BY <1>1, <1>2 DEF FrameOk, StackInv
<1>4. CASE x \notin UponDict
  <2>1. /\ objects' = objects + 1 /\ pointer' = [pointer EXCEPT ![x] = objects']
        /\ stack' = Miner!Goto(t, "load")
    BY <1>4 DEF Miner!InitBegin
  <2>2. \A f : f.resource = x /\ f.pc = "load" => FrameOk(f, is_init')
    BY <1>1, <1>3 DEF FrameOk
  <2>3. "load" \in Pcs /\ "load" \in Inside
    BY DEF Pcs, Inside
  <2>4. StackInv'
    BY <1>0, <1>1, <1>2, <2>1, <2>2, <2>3, TopStep
  <2>5. /\ pointer' \in [Miner!Resources -> Nat] /\ objects' \in Nat
        /\ \A y \in Miner!Resources : y # x => pointer'[y] = pointer[y]
    BY SMTT(60), <1>2, <2>1 DEF DataInv
  <2>6. DataInv'
    BY <1>1, <1>2, <1>3, <2>5, DataMoves
  <2> QED
    BY <2>4, <2>6 DEF MinerInv
<1>5. CASE x \in UponDict
  <2>1. PICK g : /\ Miner!Goto(t, "dict")[t] = g
                 /\ ShapeOk(g) /\ Len(g) = Len(stack[t]) /\ Len(g) \in 1..2
                 /\ g[Len(g)].resource = x /\ g[Len(g)].pc = "dict"
    BY SMTT(60), <1>1, <1>2, TopMoves DEF Pcs
  <2>2. Len(g) = 1 /\ Len(stack[t]) = 1
    BY <1>2, <1>5, <2>1, MinerAssumption
  <2> DEFINE s == Append(g, Miner!Frame(Dict))
  <2>3. stack' = [stack EXCEPT ![t] = s] /\ UNCHANGED <<pointer, objects>>
    BY <1>5, <2>1 DEF Miner!InitBegin
  <2>4. /\ Miner!Frame(Dict) \in Frames
        /\ Miner!Frame(Dict).pc = "flag" /\ Miner!Frame(Dict).resource = Dict
    BY DEF Miner!Frame, Frames, Pcs, Miner!Resources
  <2>5. s \in Seq(Frames) /\ Len(s) = 2 /\ s[1] = g[1] /\ s[2] = Miner!Frame(Dict)
    <3>1. g \in Seq(Frames)
      BY <2>1 DEF ShapeOk
    <3>2. /\ s \in Seq(Frames) /\ Len(s) = Len(g) + 1
          /\ \A i \in 1..Len(g) : s[i] = g[i]
          /\ s[Len(g) + 1] = Miner!Frame(Dict)
      BY SMTT(60), <2>4, <3>1
    <3> HIDE DEF s
    <3> QED
      BY SMTT(60), <2>2, <3>2
  <2> HIDE DEF s
  <2>6. ShapeOk(s)
    BY SMTT(60), <1>5, <2>1, <2>2, <2>4, <2>5 DEF ShapeOk
  <2>7. FramesOk(s, is_init')
    <3>1. FrameOk(s[1], is_init') /\ FrameOk(s[2], is_init')
      BY <1>1, <1>3, <1>5, <2>1, <2>2, <2>4, <2>5 DEF FrameOk
    <3>2. \A i \in 1..Len(s) : i = 1 \/ i = 2
      BY <2>5
    <3> QED
      BY <3>1, <3>2 DEF FramesOk
  <2>8. ASSUME NEW m \in Mutexes PROVE holder'[m] = t <=> HasIn(s, m)
    <3>1. HasIn(s, m) <=> m = "module_mutex_"
      <4>1. Len(s) > 0 /\ s[Len(s)].pc \notin Inside
        BY <2>4, <2>5 DEF Inside
      <4>2. HasIn(s, m) <=>
              \/ m = Miner!MutexOf(s[Len(s)].resource) /\ s[Len(s)].pc \in Inside
              \/ Len(s) = 2 /\ m = "module_mutex_"
        BY <2>6, <4>1, HasTop
      <4> QED
        BY <2>5, <4>1, <4>2
    <3>2. HasIn(stack[t], m) <=> m = "module_mutex_"
      <4>1. Miner!MutexOf(x) = "module_mutex_" /\ Miner!Top(t).pc \in Inside
        BY <1>1, <1>5, MinerAssumption DEF Miner!MutexOf, Inside
      <4>2. Len(stack[t]) > 0 /\ Len(stack[t]) # 2
        BY <2>2
      <4>3. ShapeOk(stack[t])
        BY <1>2 DEF StackInv
      <4> QED
        BY <4>1, <4>2, <4>3, HasTop DEF Miner!Top
    <3> QED
      BY <1>1, <1>2, <3>1, <3>2 DEF StackInv
  <2>9. StackInv'
    <3>1. /\ is_init' \in [Miner!Resources -> BOOLEAN]
          /\ \A y \in Miner!Resources : is_init[y] => is_init'[y]
          /\ \A y \in Miner!Resources :
                is_init'[y] /\ ~is_init[y] => holder[Miner!MutexOf(y)] = t
          /\ holder' \in [Mutexes -> MinerThreads \cup {Miner!Nobody}]
      BY <1>1, <1>2 DEF StackInv
    <3>2. \A m \in Mutexes, u \in MinerThreads : u # t => (holder'[m] = u <=> holder[m] = u)
      BY <1>1
    <3> QED
      BY <1>2, <2>3, <2>6, <2>7, <2>8, <3>1, <3>2, StackMoves
  <2>10. DataInv'
    BY <1>1, <1>2, <2>3 DEF DataInv
  <2> QED
    BY <2>9, <2>10 DEF MinerInv
<1> QED
  BY <1>4, <1>5

\* The flag of the resource is set, with the object complete.
LEMMA FlagIsSet ==
  ASSUME MinerInv, NEW t \in MinerThreads, stack[t] # <<>>,
         Miner!Top(t).pc \in {"dict", "load"},
         stack' = Miner!Goto(t, "unlock"),
         is_init' = [is_init EXCEPT ![Miner!Top(t).resource] = TRUE],
         UNCHANGED <<holder, got>>,
         pointer' \in [Miner!Resources -> Nat], objects' \in Nat,
         \A y \in Miner!Resources : y # Miner!Top(t).resource => pointer'[y] = pointer[y],
         ready' = ready \cup {pointer'[Miner!Top(t).resource]}
  PROVE  MinerInv'
<1> DEFINE x == Miner!Top(t).resource
<1>2. /\ x \in Miner!Resources /\ Miner!MutexOf(x) \in Mutexes /\ FrameOk(Miner!Top(t), is_init)
      /\ holder[Miner!MutexOf(x)] = t /\ StackInv /\ DataInv /\ Miner!Top(t).pc \in Inside
  BY HoldsTop DEF MinerInv, Inside
<1>3. ~is_init[x] /\ is_init \in [Miner!Resources -> BOOLEAN]
  BY <1>2 DEF FrameOk, StackInv
<1>4. /\ is_init' \in [Miner!Resources -> BOOLEAN] /\ is_init'[x]
      /\ \A y \in Miner!Resources : y # x => is_init'[y] = is_init[y]
  BY <1>2, <1>3
<1>5. \A f : f.resource = x /\ f.pc = "unlock" => FrameOk(f, is_init')
  BY <1>4 DEF FrameOk
<1>6. "unlock" \in Pcs /\ "unlock" \in Inside
  BY DEF Pcs, Inside
<1>7. StackInv'
  <2>1. holder' = holder /\ holder \in [Mutexes -> MinerThreads \cup {Miner!Nobody}]
    BY <1>2 DEF StackInv
  <2>2. /\ \A m \in Mutexes : m # Miner!MutexOf(x) => holder'[m] = holder[m]
        /\ holder'[Miner!MutexOf(x)] = t <=> "unlock" \in Inside
        /\ \A u \in MinerThreads :
              u # t => (holder'[Miner!MutexOf(x)] = u <=> holder[Miner!MutexOf(x)] = u)
    BY <1>2, <1>6, <2>1
  <2>3. /\ is_init[x] => is_init'[x]
        /\ is_init'[x] /\ ~is_init[x] => Miner!Top(t).pc \in Inside
        /\ holder' \in [Mutexes -> MinerThreads \cup {Miner!Nobody}]
    BY <1>2, <1>4, <2>1
  <2> QED
    BY ZenonT(120), <1>2, <1>4, <1>5, <1>6, <2>2, <2>3, TopStep
<1>8. DataInv'
  BY <1>2, <1>3, <1>4, DataMoves
<1> QED
  BY <1>7, <1>8 DEF MinerInv

\* A resource is built upon the dictionary.
LEMMA UseDictInv ==
  ASSUME MinerInv, NEW t \in MinerThreads, Miner!UseDict(t)
  PROVE  MinerInv'
<1> DEFINE x == Miner!Top(t).resource
<1>1. stack[t] # <<>> /\ Miner!Top(t).pc = "dict" /\ UNCHANGED <<holder, got>>
  BY DEF Miner!UseDict, Miner!At
<1>2. CASE got[t][2] = 0
  <2>1. UNCHANGED <<is_init, pointer, ready, objects, stack>>
    BY <1>2 DEF Miner!UseDict
  <2> QED
    BY SMTT(60), <1>1, <2>1 DEF MinerInv, StackInv, DataInv, ShapeOk, FramesOk, FrameOk,
       HasIn, Miner!MutexOf
<1>3. CASE got[t][2] # 0
  <2>1. /\ objects' = objects + 1 /\ pointer' = [pointer EXCEPT ![x] = objects']
        /\ ready' = ready \cup {objects'} /\ stack' = Miner!Goto(t, "unlock")
        /\ is_init' = [is_init EXCEPT ![x] = TRUE]
    BY <1>3 DEF Miner!UseDict
  <2>2. x \in Miner!Resources /\ pointer \in [Miner!Resources -> Nat] /\ objects \in Nat
    BY <1>1, HoldsTop DEF MinerInv, DataInv
  <2>3. /\ pointer' \in [Miner!Resources -> Nat] /\ objects' \in Nat /\ pointer'[x] = objects'
        /\ \A y \in Miner!Resources : y # x => pointer'[y] = pointer[y]
    BY <2>1, <2>2
  <2> QED
    BY <1>1, <2>1, <2>3, FlagIsSet
<1> QED
  BY <1>2, <1>3

\* A getter returns NULL, or the object of an initialised resource.
LEMMA ReturnData ==
  ASSUME DataInv, NEW t \in MinerThreads, NEW x \in Miner!Resources, NEW o \in Nat,
         got' = [got EXCEPT ![t] = <<x, o>>],
         o # 0 => is_init[x] /\ o = pointer[x],
         UNCHANGED <<is_init, pointer, ready, objects>>
  PROVE  DataInv'
<1>1. /\ got' \in [MinerThreads -> Miner!Resources \X Nat] /\ got'[t] = <<x, o>>
      /\ \A u \in MinerThreads : u # t => got'[u] = got[u]
  BY DEF DataInv
<1>2. ASSUME NEW u \in MinerThreads, got'[u][2] # 0
      PROVE  is_init[got'[u][1]] /\ got'[u][2] = pointer[got'[u][1]]
  <2>1. CASE u = t
    BY <1>1, <1>2, <2>1
  <2>2. CASE u # t
    BY <1>1, <1>2, <2>2 DEF DataInv
  <2> QED
    BY <2>1, <2>2
<1> QED
  BY <1>1, <1>2 DEF DataInv

\* A model is loaded, or not.
LEMMA LoadInv ==
  ASSUME MinerInv, NEW t \in MinerThreads, Miner!Load(t)
  PROVE  MinerInv'
<1> DEFINE x == Miner!Top(t).resource
<1>1. stack[t] # <<>> /\ Miner!Top(t).pc = "load" /\ UNCHANGED <<pointer, objects>>
  BY DEF Miner!Load, Miner!At
<1>2. /\ x \in Miner!Resources /\ Miner!MutexOf(x) \in Mutexes /\ holder[Miner!MutexOf(x)] = t
      /\ StackInv /\ DataInv
  BY <1>1, HoldsTop DEF MinerInv, Inside
<1>3. CASE /\ ready' = ready \cup {pointer[x]}
           /\ is_init' = [is_init EXCEPT ![x] = TRUE]
           /\ stack' = Miner!Goto(t, "unlock")
           /\ UNCHANGED <<holder, got>>
  <2>1. /\ pointer' \in [Miner!Resources -> Nat] /\ objects' \in Nat
        /\ \A y \in Miner!Resources : y # x => pointer'[y] = pointer[y]
        /\ ready' = ready \cup {pointer'[x]}
    BY <1>1, <1>2, <1>3 DEF DataInv
  <2> QED
    BY <1>1, <1>3, <2>1, FlagIsSet
<1>4. CASE Miner!Unlock(x) /\ Miner!Return(t, 0) /\ UNCHANGED <<ready, is_init>>
  <2>1. /\ holder' = [holder EXCEPT ![Miner!MutexOf(x)] = Miner!Nobody]
        /\ got' = [got EXCEPT ![t] = <<x, 0>>]
        /\ stack' = [stack EXCEPT ![t] = SubSeq(@, 1, Len(@) - 1)]
    BY <1>4 DEF Miner!Unlock, Miner!Return
  <2>2. /\ holder' \in [Mutexes -> MinerThreads \cup {Miner!Nobody}]
        /\ holder'[Miner!MutexOf(x)] = Miner!Nobody
        /\ \A m \in Mutexes : m # Miner!MutexOf(x) => holder'[m] = holder[m]
    BY SMTT(60), <1>2, <2>1 DEF StackInv
  <2>3. /\ holder'[Miner!MutexOf(x)] # t
        /\ \A u \in MinerThreads :
              u # t => (holder'[Miner!MutexOf(x)] = u <=> holder[Miner!MutexOf(x)] = u)
    BY <1>2, <2>2, MinerAssumption DEF Miner!Nobody
  <2>4. StackInv'
    BY <1>1, <1>2, <1>4, <2>1, <2>2, <2>3, PopStep
  <2>5. DataInv'
    BY <1>1, <1>2, <1>4, <2>1, ReturnData
  <2> QED
    BY <2>4, <2>5 DEF MinerInv
<1> QED
  BY <1>3, <1>4 DEF Miner!Load

\* A getter returns the object of its resource.
LEMMA ReturnPointerInv ==
  ASSUME MinerInv, NEW t \in MinerThreads, Miner!ReturnPointer(t)
  PROVE  MinerInv'
<1> DEFINE x == Miner!Top(t).resource
<1>1. /\ stack[t] # <<>> /\ Miner!Top(t).pc = "return"
      /\ got' = [got EXCEPT ![t] = <<x, pointer[x]>>]
      /\ stack' = [stack EXCEPT ![t] = SubSeq(@, 1, Len(@) - 1)]
      /\ UNCHANGED <<is_init, pointer, ready, objects, holder>>
  BY DEF Miner!ReturnPointer, Miner!At, Miner!Return
<1>2. /\ x \in Miner!Resources /\ holder[Miner!MutexOf(x)] # t /\ is_init[x]
      /\ StackInv /\ DataInv /\ pointer[x] \in Nat
  BY <1>1, HoldsTop DEF MinerInv, Inside, FrameOk, DataInv
<1>3. holder' \in [Mutexes -> MinerThreads \cup {Miner!Nobody}]
  BY <1>1, <1>2 DEF StackInv
<1>4. StackInv'
  BY <1>1, <1>2, <1>3, PopStep
<1>5. DataInv'
  BY <1>1, <1>2, ReturnData
<1> QED
  BY <1>4, <1>5 DEF MinerInv

\* Every step of TextMinerResource keeps the invariant.
LEMMA MinerNextInv == MinerInv /\ [Miner!Next]_(Miner!vars) => MinerInv'
<1> SUFFICES ASSUME MinerInv, [Miner!Next]_(Miner!vars) PROVE MinerInv'
  OBVIOUS
<1>1. CASE UNCHANGED Miner!vars
  <2>1. StackInv'
    BY SMTT(60), <1>1 DEF Miner!vars, MinerInv, StackInv, ShapeOk, FramesOk, FrameOk, HasIn,
       Miner!MutexOf
  <2>2. DataInv'
    BY SMTT(60), <1>1 DEF Miner!vars, MinerInv, DataInv, HasIn, Miner!MutexOf
  <2> QED
    BY <2>1, <2>2 DEF MinerInv
<1>2. CASE Miner!Next
  BY <1>2, GetInv, ReadFlagInv, LockInv, InitBeginInv, UseDictInv, LoadInv, UnlockMutexInv,
     ReturnPointerInv DEF Miner!Next
<1> QED
  BY <1>1, <1>2

\* A thread that waits with a mutex has module_mutex_ and waits for the other,
\* so nobody waits for it in turn.
LEMMA NoCircle == MinerInv => Miner!NoCircularWait
<1> SUFFICES ASSUME MinerInv, NEW t \in MinerThreads, Miner!WaitsFor(t) \in MinerThreads
             PROVE  Miner!WaitsFor(t) # t /\ Miner!WaitsFor(Miner!WaitsFor(t)) # t
  BY DEF Miner!NoCircularWait
<1> DEFINE u == Miner!WaitsFor(t)
<1>1. /\ stack[t] # <<>> /\ Miner!Top(t).pc = "lock"
      /\ holder[Miner!MutexOf(Miner!Top(t).resource)] = u
  BY MinerAssumption DEF Miner!WaitsFor, Miner!At, Miner!Nobody
<1>2. u # t
  BY <1>1, HoldsTop DEF MinerInv, Inside
<1>3. ASSUME Miner!WaitsFor(u) = t PROVE FALSE
  <2>1. /\ stack[u] # <<>> /\ Miner!Top(u).pc = "lock"
        /\ holder[Miner!MutexOf(Miner!Top(u).resource)] = t
    BY <1>3, MinerAssumption DEF Miner!WaitsFor, Miner!At, Miner!Nobody
  <2>2. ASSUME NEW v \in MinerThreads, NEW m \in Mutexes, stack[v] # <<>>,
               Miner!Top(v).pc = "lock",
               holder[m] = v
        PROVE  m = "module_mutex_" /\ Miner!MutexOf(Miner!Top(v).resource) # "module_mutex_"
    <3>1. HasIn(stack[v], m) /\ ShapeOk(stack[v])
      BY <2>2 DEF MinerInv, StackInv
    <3>2. /\ Len(stack[v]) > 0 /\ Miner!Top(v).pc \notin Inside
          /\ Len(stack[v]) = 2 => Miner!MutexOf(Miner!Top(v).resource) # "module_mutex_"
      BY <2>2, HoldsTop DEF MinerInv, Inside
    <3> QED
      BY <3>1, <3>2, HasTop DEF Miner!Top
  <2>3. /\ Miner!MutexOf(Miner!Top(t).resource) \in Mutexes
        /\ Miner!MutexOf(Miner!Top(u).resource) \in Mutexes
    BY DEF Miner!MutexOf, Mutexes
  <2> HIDE DEF u
  <2>4. Miner!MutexOf(Miner!Top(u).resource) = "module_mutex_"
    BY <1>1, <2>1, <2>2, <2>3
  <2>5. Miner!MutexOf(Miner!Top(u).resource) # "module_mutex_"
    <3>1. u \in MinerThreads
      BY DEF u
    <3> QED
      BY <1>1, <2>1, <2>2, <2>3, <3>1
  <2> QED
    BY <2>4, <2>5
<1> QED
  BY <1>2, <1>3

\* For any threads and resources, TextMinerResource's getters return NULL or a
\* complete object that the resource keeps, though the flags are read without
\* the mutex, and no two threads wait for each other's mutex.
THEOREM ResourcesAreAlwaysComplete == Miner!Spec => []ResourcesAreComplete
<1>1. ASSUME Miner!Init PROVE MinerInv
  <2>1. StackInv
    <3>1. ShapeOk(<<>>) /\ FramesOk(<<>>, is_init) /\ \A m : ~HasIn(<<>>, m)
      BY DEF ShapeOk, FramesOk, HasIn
    <3>2. /\ is_init \in [Miner!Resources -> BOOLEAN]
          /\ stack = [t \in MinerThreads |-> <<>>]
          /\ holder = [m \in Mutexes |-> Miner!Nobody]
      BY <1>1 DEF Miner!Init, Mutexes
    <3> QED
      BY SMTT(60), <3>1, <3>2, MinerAssumption DEF StackInv, Miner!Nobody
  <2>2. DataInv
    BY <1>1 DEF Miner!Init, DataInv, Miner!Resources
  <2> QED
    BY <2>1, <2>2 DEF MinerInv
<1>2. MinerInv => ResourcesAreComplete
  <2>1. MinerInv => Miner!GotIsCurrent
    BY DEF MinerInv, DataInv, Miner!GotIsCurrent
  <2> QED
    BY <2>1, NoCircle DEF ResourcesAreComplete
<1> QED
  BY <1>1, <1>2, MinerNextInv, PTL DEF Miner!Spec

-----------------------------------------------------------------------------
(* ThreadSafeTable.  An operation in progress holds the lock in its mode,  *)
(* so one that erases is alone and every other iterator is valid; a value  *)
(* is in the table once, and no more after it has been handed out.         *)

TableNames == {"Find", "FindAndRemove", "Insert", "Remove", "Clear"}

TableOperations ==
    [name : TableNames \cup {"none"}, key : Keys \cup {None},
     at : {"idle", "locked", "found", "return"}, it : Nat \cup {None}]

TableTypes ==
    /\ holds \in [TableThreads -> {"none", "shared", "exclusive"}]
    /\ table_ \in [Keys -> Nat \cup {None}]
    /\ operation \in [TableThreads -> TableOperations]
    /\ inserts \in Nat
    /\ handed \in SUBSET (TableThreads \X Nat)

\* An operation in progress has the lock in its mode, and nobody shares an exclusive one.
LockIsHeld ==
    /\ \A t \in TableThreads :
         IF operation[t].at = "idle"
         THEN holds[t] = "none"
         ELSE /\ holds[t] = Table!Mode(operation[t].name)
              /\ operation[t].name \in TableNames /\ operation[t].key \in Keys
    /\ \A t, u \in TableThreads : t # u /\ holds[t] = "exclusive" => holds[u] = "none"

\* An iterator is that of the entry that is there.
IteratorIsValid ==
    \A t \in TableThreads :
        operation[t].at = "found" => operation[t].it = table_[operation[t].key]
                                     /\ operation[t].it # None

\* A value is in the table once, and not after it has been handed out.
ValuesAreUnique ==
    /\ \A k \in Keys : table_[k] # None => table_[k] <= inserts
    /\ \A k, l \in Keys : table_[k] # None /\ table_[k] = table_[l] => k = l
    /\ \A x \in handed : x[2] <= inserts /\ \A k \in Keys : table_[k] # x[2]

TableInv == TableTypes /\ LockIsHeld /\ IteratorIsValid /\ ValuesAreUnique /\ Table!HandedToOne

\* While an operation holds the lock exclusively, no other is in progress.
LEMMA AloneInside ==
  ASSUME TableInv, NEW t \in TableThreads, operation[t].at # "idle",
         operation[t].name # "Find"
  PROVE  \A u \in TableThreads : u # t => operation[u].at = "idle"
<1>1. holds[t] = "exclusive"
  BY DEF TableInv, LockIsHeld, Table!Mode
<1>2. ASSUME NEW u \in TableThreads, u # t, operation[u].at # "idle" PROVE FALSE
  <2>1. holds[u] = "none"
    BY <1>1, <1>2 DEF TableInv, LockIsHeld
  <2>2. holds[u] = Table!Mode(operation[u].name)
    BY <1>2 DEF TableInv, LockIsHeld
  <2> QED
    BY <2>1, <2>2 DEF Table!Mode
<1> QED
  BY <1>2

\* One operation advances to a place that is neither idle nor found.
LEMMA OperationEndsInv ==
  ASSUME TableInv, NEW t \in TableThreads, operation[t].at # "idle",
         operation' = [operation EXCEPT ![t].at = "return"], UNCHANGED holds
  PROVE  /\ operation' \in [TableThreads -> TableOperations]
         /\ operation'[t].at = "return"
         /\ operation'[t].name = operation[t].name /\ operation'[t].key = operation[t].key
         /\ \A u \in TableThreads : u # t => operation'[u] = operation[u]
         /\ LockIsHeld'
<1> DEFINE o == [operation[t] EXCEPT !.at = "return"]
<1>1. /\ o \in TableOperations /\ o.at = "return" /\ o.name = operation[t].name
      /\ o.key = operation[t].key
  BY DEF TableInv, TableTypes, TableOperations
<1>2. operation' = [operation EXCEPT ![t] = o]
  OBVIOUS
<1> HIDE DEF o
<1>3. /\ operation' \in [TableThreads -> TableOperations]
      /\ operation'[t] = o
      /\ \A u \in TableThreads : u # t => operation'[u] = operation[u]
  BY <1>1, <1>2 DEF TableInv, TableTypes
<1>4. LockIsHeld'
  BY SMTT(60), <1>1, <1>3 DEF TableInv, LockIsHeld, Table!Mode
<1> QED
  BY <1>1, <1>3, <1>4

\* An operation of ThreadSafeTable begins when it has the lock in its mode.
LEMMA TableCallInv ==
  ASSUME TableInv, NEW t \in TableThreads, NEW name \in TableNames, NEW key \in Keys,
         Table!Call(t, name, key)
  PROVE  TableInv'
<1> DEFINE o == [name |-> name, key |-> key, at |-> "locked", it |-> None]
<1>1. o \in TableOperations /\ o.at = "locked" /\ o.name = name /\ o.key = key
  BY DEF TableOperations
<1>2. operation' = [operation EXCEPT ![t] = o]
        /\ UNCHANGED <<table_, inserts, handed, dangling>>
  BY DEF Table!Call
<1> HIDE DEF o
<1>3. /\ operation' \in [TableThreads -> TableOperations]
      /\ operation'[t] = o
      /\ \A u \in TableThreads : u # t => operation'[u] = operation[u]
  BY <1>1, <1>2 DEF TableInv, TableTypes
<1>4. /\ holds[t] = "none" /\ holds' = [holds EXCEPT ![t] = Table!Mode(name)]
      /\ \A u \in TableThreads :
            u # t => holds[u] \in Table!shared_mutex_!Compatible(Table!Mode(name))
  BY DEF Table!Call, Table!shared_mutex_!Acquire, Table!shared_mutex_!Become,
     Table!shared_mutex_!OthersAllow
<1>5. Table!Mode(name) \in {"shared", "exclusive"}
  BY DEF Table!Mode
<1>6. /\ Table!Mode(name) = "exclusive" => \A u \in TableThreads :
                                              u # t => holds[u] = "none"
      /\ Table!Mode(name) = "shared" => \A u \in TableThreads :
                                           u # t => holds[u] # "exclusive"
  BY <1>4, <1>5 DEF Table!shared_mutex_!Compatible
<1>7. /\ holds' \in [TableThreads -> {"none", "shared", "exclusive"}]
      /\ holds'[t] = Table!Mode(name)
      /\ \A u \in TableThreads : u # t => holds'[u] = holds[u]
  BY <1>4, <1>5 DEF TableInv, TableTypes
<1>8. TableTypes'
  BY <1>2, <1>3, <1>7 DEF TableInv, TableTypes
<1>9. LockIsHeld'
  <2>1. ASSUME NEW u \in TableThreads
        PROVE  IF operation'[u].at = "idle" THEN holds'[u] = "none"
               ELSE /\ holds'[u] = Table!Mode(operation'[u].name)
                    /\ operation'[u].name \in TableNames /\ operation'[u].key \in Keys
    BY <1>1, <1>3, <1>7 DEF TableInv, LockIsHeld
  <2>2. ASSUME NEW u \in TableThreads, NEW v \in TableThreads, u # v,
               holds'[u] = "exclusive"
        PROVE  holds'[v] = "none"
    BY <1>5, <1>6, <1>7, <2>2 DEF TableInv, LockIsHeld
  <2> QED
    BY <2>1, <2>2 DEF LockIsHeld, Table!Mode
<1>10. IteratorIsValid'
  BY <1>1, <1>2, <1>3 DEF TableInv, IteratorIsValid
<1>11. ValuesAreUnique' /\ Table!HandedToOne'
  BY <1>2 DEF TableInv, ValuesAreUnique, Table!HandedToOne
<1> QED
  BY <1>8, <1>9, <1>10, <1>11 DEF TableInv

\* Find and FindAndRemove look the key up.
LEMMA FindEntryInv ==
  ASSUME TableInv, NEW t \in TableThreads, Table!FindEntry(t)
  PROVE  TableInv'
<1>0. /\ operation[t].at = "locked" /\ operation[t].key \in Keys
      /\ UNCHANGED <<holds, table_, inserts, handed, dangling>>
  BY DEF Table!FindEntry, Table!Return, TableInv, LockIsHeld
<1>1. ValuesAreUnique' /\ Table!HandedToOne'
  BY <1>0 DEF TableInv, ValuesAreUnique, Table!HandedToOne
<1>2. CASE table_[operation[t].key] = None
  <2>1. operation' = [operation EXCEPT ![t].at = "return"]
    BY <1>2 DEF Table!FindEntry, Table!Return
  <2> QED
    BY <1>0, <1>1, <2>1, OperationEndsInv DEF TableInv, TableTypes, IteratorIsValid
<1>3. CASE table_[operation[t].key] # None
  <2> DEFINE o == [operation[t] EXCEPT !.at = "found", !.it = table_[operation[t].key]]
  <2>1. /\ o \in TableOperations /\ o.at = "found" /\ o.it = table_[operation[t].key]
        /\ o.name = operation[t].name /\ o.key = operation[t].key
    BY <1>0 DEF TableInv, TableTypes, TableOperations
  <2>2. operation' = [operation EXCEPT ![t] = o]
    BY <1>3 DEF Table!FindEntry, TableInv, TableTypes
  <2> HIDE DEF o
  <2>3. /\ operation' \in [TableThreads -> TableOperations]
        /\ operation'[t] = o
        /\ \A u \in TableThreads : u # t => operation'[u] = operation[u]
    BY <2>1, <2>2 DEF TableInv, TableTypes
  <2>4. TableTypes'
    BY <1>0, <2>3 DEF TableInv, TableTypes
  <2>5. LockIsHeld'
    BY SMTT(60), <1>0, <2>1, <2>3 DEF TableInv, LockIsHeld, Table!Mode
  <2>6. IteratorIsValid'
    BY <1>0, <1>3, <2>1, <2>3 DEF TableInv, IteratorIsValid
  <2> QED
    BY <1>1, <2>4, <2>5, <2>6 DEF TableInv
<1> QED
  BY <1>2, <1>3

\* Find copies the value, FindAndRemove also erases the entry.
LEMMA UseEntryInv ==
  ASSUME TableInv, NEW t \in TableThreads, Table!UseEntry(t)
  PROVE  TableInv'
<1> DEFINE key == operation[t].key
           it == operation[t].it
<1>0. /\ operation[t].at = "found" /\ key \in Keys /\ it = table_[key] /\ it # None /\ it \in Nat
      /\ operation' = [operation EXCEPT ![t].at = "return"]
      /\ UNCHANGED <<holds, inserts>>
  BY SMTT(60) DEF Table!UseEntry, Table!Return, TableInv, LockIsHeld, IteratorIsValid,
     TableTypes
<1>1. ~dangling /\ ~dangling'
  BY <1>0 DEF Table!UseEntry, TableInv, Table!HandedToOne
<1>2. /\ operation' \in [TableThreads -> TableOperations] /\ operation'[t].at = "return"
      /\ \A u \in TableThreads : u # t => operation'[u] = operation[u]
      /\ LockIsHeld'
  BY <1>0, OperationEndsInv
<1>3. CASE operation[t].name # "FindAndRemove"
  <2>1. UNCHANGED <<table_, handed>>
    BY <1>3 DEF Table!UseEntry
  <2> QED
    BY SMTT(60), <1>0, <1>1, <1>2, <2>1 DEF TableInv, TableTypes, IteratorIsValid,
       ValuesAreUnique, Table!HandedToOne
<1>4. CASE operation[t].name = "FindAndRemove"
  <2>1. table_' = [table_ EXCEPT ![key] = None] /\ handed' = handed \cup {<<t, it>>}
    BY <1>4 DEF Table!UseEntry
  <2>2. \A u \in TableThreads : operation'[u].at # "found"
    BY <1>0, <1>2, <1>4, AloneInside
  <2>3. IteratorIsValid'
    BY <2>2 DEF IteratorIsValid
  <2>4. /\ table_' \in [Keys -> Nat \cup {None}] /\ table_'[key] = None
        /\ \A k \in Keys : k # key => table_'[k] = table_[k]
    BY <1>0, <2>1 DEF TableInv, TableTypes
  <2>5. TableTypes'
    BY SMTT(60), <1>0, <1>2, <2>1, <2>4 DEF TableInv, TableTypes
  <2>6. /\ \A x \in handed : x[2] # it
        /\ it <= inserts
        /\ \A k \in Keys : table_'[k] # it
    BY SMTT(60), <1>0, <2>4 DEF TableInv, ValuesAreUnique
  <2>7. ValuesAreUnique'
    <3>1. \A k \in Keys : table_'[k] = table_[k] \/ table_'[k] = None
      BY <2>4
    <3>2. \A k \in Keys : table_'[k] # None => table_'[k] <= inserts'
      BY <1>0, <3>1 DEF TableInv, ValuesAreUnique
    <3>3. \A k, l \in Keys : table_'[k] # None /\ table_'[k] = table_'[l] => k = l
      BY <3>1 DEF TableInv, ValuesAreUnique
    <3>4. ASSUME NEW x \in handed' PROVE x[2] <= inserts' /\ \A k \in Keys :
                                                                table_'[k] # x[2]
      <4>1. CASE x = <<t, it>>
        BY <1>0, <2>6, <4>1
      <4>2. CASE x \in handed
        <5>1. x[2] # None /\ x[2] <= inserts /\ \A k \in Keys : table_[k] # x[2]
          BY SMTT(60), <4>2, TableAssumption DEF TableInv, ValuesAreUnique, TableTypes
        <5> QED
          BY <1>0, <3>1, <5>1
      <4> QED
        BY <2>1, <4>1, <4>2
    <3> QED
      BY <3>2, <3>3, <3>4 DEF ValuesAreUnique
  <2>8. Table!HandedToOne'
    <3>1. ASSUME NEW x \in handed', NEW y \in handed', x[2] = y[2] PROVE x = y
      <4>1. <<t, it>>[2] = it
        OBVIOUS
      <4> QED
        BY <2>1, <2>6, <3>1, <4>1 DEF TableInv, Table!HandedToOne
    <3> QED
      BY <1>1, <3>1 DEF Table!HandedToOne
  <2> QED
    BY <1>2, <2>3, <2>5, <2>7, <2>8 DEF TableInv
<1> QED
  BY <1>3, <1>4

\* Insert, Remove and Clear change the table.
LEMMA TableChangeInv ==
  ASSUME TableInv, NEW t \in TableThreads, Table!Change(t)
  PROVE  TableInv'
<1> DEFINE key == operation[t].key
<1>0. /\ operation[t].at = "locked" /\ key \in Keys
      /\ operation[t].name \in {"Insert", "Remove", "Clear"}
      /\ operation' = [operation EXCEPT ![t].at = "return"]
      /\ UNCHANGED <<holds, handed, dangling>>
  BY DEF Table!Change, Table!Return, TableInv, LockIsHeld
<1>1. /\ operation' \in [TableThreads -> TableOperations] /\ operation'[t].at = "return"
      /\ \A u \in TableThreads : u # t => operation'[u] = operation[u]
      /\ LockIsHeld'
  BY <1>0, OperationEndsInv
<1>2. IteratorIsValid'
  <2>1. \A u \in TableThreads : operation'[u].at # "found"
    BY <1>0, <1>1, AloneInside
  <2> QED
    BY <2>1 DEF IteratorIsValid
<1>3. Table!HandedToOne'
  BY <1>0 DEF TableInv, Table!HandedToOne
<1>4. CASE inserts' = inserts + 1 /\ table_' = [table_ EXCEPT ![key] = inserts + 1]
  <2>1. /\ table_' \in [Keys -> Nat \cup {None}] /\ table_'[key] = inserts + 1
        /\ \A k \in Keys : k # key => table_'[k] = table_[k]
    BY SMTT(60), <1>0, <1>4 DEF TableInv, TableTypes
  <2>2. TableTypes'
    BY SMTT(60), <1>0, <1>1, <1>4, <2>1 DEF TableInv, TableTypes
  <2>3. \A k \in Keys : table_[k] # None => table_[k] \in Nat /\ table_[k] <= inserts
    BY DEF TableInv, TableTypes, ValuesAreUnique
  <2>4. \A k \in Keys : table_[k] # inserts + 1
    BY SMTT(60), <2>3, TableAssumption DEF TableInv, TableTypes
  <2>5. \A x \in handed : x[2] \in Nat /\ x[2] <= inserts
    BY DEF TableInv, TableTypes, ValuesAreUnique
  <2>6. \A k \in Keys : table_'[k] # None => table_'[k] <= inserts'
    BY SMTT(60), <1>4, <2>1, <2>3 DEF TableInv, TableTypes
  <2>7. \A k, l \in Keys : table_'[k] # None /\ table_'[k] = table_'[l] => k = l
    BY <2>1, <2>4 DEF TableInv, ValuesAreUnique
  <2>8. ASSUME NEW x \in handed' PROVE x[2] <= inserts' /\ \A k \in Keys : table_'[k] # x[2]
    <3>1. x \in handed /\ x[2] \in Nat /\ x[2] <= inserts /\ x[2] # inserts + 1
      BY SMTT(60), <1>0, <2>5 DEF TableInv, TableTypes
    <3>2. \A k \in Keys : table_[k] # x[2]
      BY <3>1 DEF TableInv, ValuesAreUnique
    <3>3. x[2] <= inserts'
      BY SMTT(60), <1>4, <3>1 DEF TableInv, TableTypes
    <3> QED
      BY <2>1, <3>1, <3>2, <3>3
  <2> QED
    BY <1>1, <1>2, <1>3, <2>2, <2>6, <2>7, <2>8 DEF TableInv, ValuesAreUnique
<1>5. CASE /\ inserts' = inserts
           /\ \/ table_' = [table_ EXCEPT ![key] = None]
              \/ table_' = [k \in Keys |-> None]
  <2>1. /\ table_' \in [Keys -> Nat \cup {None}]
        /\ \A k \in Keys : table_'[k] = None \/ table_'[k] = table_[k]
    BY <1>0, <1>5 DEF TableInv, TableTypes
  <2>2. TableTypes'
    BY <1>0, <1>1, <1>5, <2>1 DEF TableInv, TableTypes
  <2>3. \A x \in handed : x[2] # None
    BY TableAssumption DEF TableInv, TableTypes
  <2>4. ValuesAreUnique'
    BY SMTT(60), <1>0, <1>5, <2>1, <2>3 DEF TableInv, ValuesAreUnique
  <2> QED
    BY <1>1, <1>2, <1>3, <2>2, <2>4 DEF TableInv
<1> QED
  BY <1>4, <1>5 DEF Table!Change

\* An operation gives the lock back.
LEMMA TableUnlockInv ==
  ASSUME TableInv, NEW t \in TableThreads, Table!Unlock(t)
  PROVE  TableInv'
<1>1. Table!Idle \in TableOperations /\ Table!Idle.at = "idle"
  BY DEF Table!Idle, TableOperations
<1>2. /\ operation' = [operation EXCEPT ![t] = Table!Idle]
      /\ holds' = [holds EXCEPT ![t] = "none"]
      /\ UNCHANGED <<table_, inserts, handed, dangling>>
  BY DEF Table!Unlock, Table!shared_mutex_!Release, Table!shared_mutex_!Become
<1>3. TableTypes'
  BY <1>1, <1>2 DEF TableInv, TableTypes
<1>4. LockIsHeld'
  BY <1>1, <1>2 DEF TableInv, TableTypes, LockIsHeld, Table!Mode
<1>5. IteratorIsValid'
  BY <1>1, <1>2 DEF TableInv, TableTypes, IteratorIsValid
<1>6. ValuesAreUnique' /\ Table!HandedToOne'
  BY <1>2 DEF TableInv, ValuesAreUnique, Table!HandedToOne
<1> QED
  BY <1>3, <1>4, <1>5, <1>6 DEF TableInv

\* Every step of ThreadSafeTable keeps the invariant.
LEMMA TableNextInv == TableInv /\ [Table!Next]_(Table!vars) => TableInv'
<1> SUFFICES ASSUME TableInv, [Table!Next]_(Table!vars) PROVE TableInv'
  OBVIOUS
<1>1. CASE UNCHANGED Table!vars
  BY <1>1 DEF Table!vars, TableInv, TableTypes, LockIsHeld, IteratorIsValid,
     ValuesAreUnique,
              Table!HandedToOne, Table!Mode
<1>2. CASE Table!Next
  BY <1>2, TableCallInv, FindEntryInv, UseEntryInv, TableChangeInv, TableUnlockInv
     DEF Table!Next, TableNames
<1> QED
  BY <1>1, <1>2

\* For any threads and keys, FindAndRemove of ThreadSafeTable hands a value to
\* one caller only, and no operation uses an entry that another has erased.
THEOREM HandedToOneAlways == Table!Spec => []HandedToOne
<1>1. ASSUME Table!Init PROVE TableInv
  <2>1. Table!Idle \in TableOperations /\ Table!Idle.at = "idle"
    BY DEF Table!Idle, TableOperations
  <2>2. TableTypes
    BY <1>1, <2>1 DEF Table!Init, Table!shared_mutex_!Init, TableTypes
  <2>3. LockIsHeld /\ IteratorIsValid
    BY <1>1, <2>1 DEF Table!Init, Table!shared_mutex_!Init, LockIsHeld, IteratorIsValid
  <2>4. ValuesAreUnique /\ Table!HandedToOne
    BY <1>1 DEF Table!Init, ValuesAreUnique, Table!HandedToOne
  <2> QED
    BY <2>2, <2>3, <2>4 DEF TableInv
<1>2. TableInv => HandedToOne
  BY DEF TableInv, HandedToOne
<1> QED
  BY <1>1, <1>2, TableNextInv, PTL DEF Table!Spec

-----------------------------------------------------------------------------
(* ZkAdaptor.  Two facts are needed beside the properties: what the        *)
(* callback has stored is true of the session until that is over, and what *)
(* WaitConnected has returned likewise.                                    *)

Sessions == {"none", "CONNECTING", "CONNECTED", "EXPIRED"}
UserPlaces == {"idle", "state", "wait", "connected", "add_auth", "authed_event"}

AdaptorTypes ==
    /\ session \in Sessions
    /\ events \in Nat
    /\ signaled \in BOOLEAN
    /\ user \in [at : UserPlaces, timeout : Adaptor!Timeouts, add_auth : BOOLEAN]
    /\ ret \in [code : {"ZOK", "error"}, add_auth : BOOLEAN]
    /\ callback \in {"none", "pending", "run"}
    /\ auth_ret \in {"ZOK", "error"}
    /\ authorised \in BOOLEAN

\* A success the callback has stored is the session's authorisation, unless
\* the session has expired since.
AcceptedByServer ==
    callback = "run" /\ auth_ret = "ZOK" => authorised \/ session = "EXPIRED"

\* As OkMeansAuthorised, for as long as the thread is not in WaitConnected: a
\* session that was authorised stays so until it is over for good.
OkStays ==
    ret.code = "ZOK" /\ ret.add_auth /\ user.at = "idle" =>
        authorised \/ session \in {"EXPIRED", "none"}

AdaptorInv ==
    /\ AdaptorTypes /\ AcceptedByServer /\ OkStays
    /\ Adaptor!NoCallbackAfterReturn /\ Adaptor!NoConnectMissed

\* The thread in WaitConnected goes to another place in it.
LEMMA UserTypes ==
  ASSUME AdaptorInv, NEW p \in UserPlaces
  PROVE  /\ [user EXCEPT !.at = p] \in
              [at : UserPlaces, timeout : Adaptor!Timeouts, add_auth : BOOLEAN]
         /\ [user EXCEPT !.at = p].at = p
BY DEF AdaptorInv, AdaptorTypes

\* WaitConnected returns, and keeps for the record what was asked of it.
LEMMA ReturnTypes ==
  ASSUME AdaptorInv, NEW code \in {"ZOK", "error"}, Adaptor!Return(code)
  PROVE  /\ user' \in [at : UserPlaces, timeout : Adaptor!Timeouts, add_auth : BOOLEAN]
         /\ user'.at = "idle"
         /\ ret' \in [code : {"ZOK", "error"}, add_auth : BOOLEAN]
         /\ ret'.code = code /\ ret'.add_auth = user.add_auth
BY DEF AdaptorInv, AdaptorTypes, Adaptor!Return, Adaptor!Idle, UserPlaces, Adaptor!Timeouts

\* WaitConnected begins, with a new handle if there is none.
LEMMA WaitConnectedInv ==
  ASSUME AdaptorInv, NEW timeout \in Adaptor!Timeouts, Adaptor!WaitConnected(timeout)
  PROVE  AdaptorInv'
<1> DEFINE auth == session = "none" /\ credential # "none"
<1>1. user' = [at |-> "state", timeout |-> timeout, add_auth |-> auth] /\ auth \in BOOLEAN
  BY DEF Adaptor!WaitConnected
<1> HIDE DEF auth
<1>2. /\ user' \in [at : UserPlaces, timeout : Adaptor!Timeouts, add_auth : BOOLEAN]
      /\ user'.at = "state"
  BY <1>1 DEF UserPlaces
<1>3. /\ user.at = "idle" /\ session' \in Sessions
      /\ session = "EXPIRED" => session' = "EXPIRED"
      /\ UNCHANGED <<events, signaled, ret, callback, auth_ret, authorised>>
  BY DEF Adaptor!WaitConnected, AdaptorInv, AdaptorTypes, Sessions
<1> QED
  BY <1>2, <1>3 DEF AdaptorInv, AdaptorTypes, Adaptor!NoCallbackAfterReturn,
     Adaptor!NoConnectMissed, AcceptedByServer, OkStays

\* WaitConnected fails, while no callback of zoo_add_auth is under way.
LEMMA UserFailsInv ==
  ASSUME AdaptorInv, Adaptor!Return("error"),
         UNCHANGED <<session, events, signaled, auth_ret, authorised>>,
         callback' = callback, callback = "none"
  PROVE  AdaptorInv'
BY ReturnTypes DEF AdaptorInv, AdaptorTypes, Adaptor!NoCallbackAfterReturn,
   Adaptor!NoConnectMissed, AcceptedByServer, OkStays

\* A step within WaitConnected; the wait begins only while there is no
\* connection, and only AddAuth leaves a callback behind.
LEMMA UserMovesInv ==
  ASSUME AdaptorInv, NEW p \in UserPlaces \ {"idle"}, user' = [user EXCEPT !.at = p],
         user.at # "authed_event",
         p = "wait" => session # "CONNECTED",
         p = "authed_event" \/ callback' = callback,
         callback' \in {"none", "pending"},
         UNCHANGED <<session, events, ret, auth_ret, authorised>>, signaled' \in BOOLEAN
  PROVE  AdaptorInv'
<1>1. user' \in [at : UserPlaces, timeout : Adaptor!Timeouts, add_auth : BOOLEAN] /\ user'.at = p
  BY UserTypes
<1> QED
  BY <1>1 DEF AdaptorInv, AdaptorTypes, Adaptor!NoCallbackAfterReturn,
     Adaptor!NoConnectMissed, AcceptedByServer, OkStays

\* The steps of WaitConnected up to the wait for the authorisation.
LEMMA UserStepsInv ==
  ASSUME AdaptorInv,
         Adaptor!State \/ Adaptor!Wait \/ Adaptor!Connected \/ Adaptor!AddAuth \/ Adaptor!InitFails
  PROVE  AdaptorInv'
<1>0. user.at # "authed_event" => callback = "none"
  BY DEF AdaptorInv, AdaptorTypes, Adaptor!NoCallbackAfterReturn
<1>1. CASE Adaptor!InitFails
  BY <1>0, <1>1, UserFailsInv DEF Adaptor!InitFails
<1>2. CASE Adaptor!State
  <2>1. user.at = "state"
          /\ UNCHANGED <<session, events, signaled, callback, auth_ret, authorised>>
    BY <1>2 DEF Adaptor!State
  <2>2. CASE session = "CONNECTED"
    <3>1. user' = [user EXCEPT !.at = "connected"] /\ UNCHANGED ret
      BY <1>2, <2>2 DEF Adaptor!State
    <3> QED
      BY <1>0, <2>1, <3>1, UserMovesInv DEF UserPlaces, AdaptorInv, AdaptorTypes
  <2>3. CASE session # "CONNECTED" /\ user.timeout = "at once"
    BY <1>0, <1>2, <2>1, <2>3, UserFailsInv DEF Adaptor!State
  <2>4. CASE session # "CONNECTED" /\ user.timeout # "at once"
    <3>1. user' = [user EXCEPT !.at = "wait"] /\ UNCHANGED ret
      BY <1>2, <2>4 DEF Adaptor!State
    <3> QED
      BY <1>0, <2>1, <2>4, <3>1, UserMovesInv DEF UserPlaces, AdaptorInv, AdaptorTypes
  <2> QED
    BY <2>2, <2>3, <2>4
<1>3. CASE Adaptor!Wait
  <2>1. /\ user.at = "wait" /\ user' = [user EXCEPT !.at = "connected"] /\ signaled' = FALSE
        /\ UNCHANGED <<session, events, ret, callback, auth_ret, authorised>>
    BY <1>3 DEF Adaptor!Wait
  <2> QED
    BY <1>0, <2>1, UserMovesInv DEF UserPlaces
<1>4. CASE Adaptor!Connected
  <2>1. /\ user.at = "connected"
        /\ UNCHANGED <<session, events, signaled, auth_ret, authorised, callback>>
    BY <1>4 DEF Adaptor!Connected
  <2>2. CASE Adaptor!Return("error")
    BY <1>0, <2>1, <2>2, UserFailsInv
  <2>3. CASE ~user.add_auth /\ Adaptor!Return("ZOK")
    BY <1>0, <2>1, <2>3, ReturnTypes
    DEF AdaptorInv, AdaptorTypes, Adaptor!NoCallbackAfterReturn, Adaptor!NoConnectMissed,
       AcceptedByServer, OkStays
  <2>4. CASE user' = [user EXCEPT !.at = "add_auth"] /\ UNCHANGED ret
    BY <1>0, <2>1, <2>4, UserMovesInv DEF UserPlaces, AdaptorInv, AdaptorTypes
  <2> QED
    BY <1>4, <2>2, <2>3, <2>4 DEF Adaptor!Connected
<1>5. CASE Adaptor!AddAuth
  <2>1. user.at = "add_auth"
          /\ UNCHANGED <<session, events, signaled, auth_ret, authorised>>
    BY <1>5 DEF Adaptor!AddAuth
  <2>2. CASE Adaptor!Return("error") /\ UNCHANGED callback
    BY <1>0, <2>1, <2>2, UserFailsInv
  <2>3. CASE callback' = "pending" /\ user' = [user EXCEPT !.at = "authed_event"]
          /\ UNCHANGED ret
    BY <1>0, <2>1, <2>3, UserMovesInv DEF UserPlaces, AdaptorInv, AdaptorTypes
  <2> QED
    BY <1>5, <2>2, <2>3 DEF Adaptor!AddAuth
<1> QED
  BY <1>1, <1>2, <1>3, <1>4, <1>5

\* AddAuth returns what the callback has stored.
LEMMA AuthorisationInv ==
  ASSUME AdaptorInv, Adaptor!AuthEventSet \/ Adaptor!AuthTimeout \/ Adaptor!UserCloses
  PROVE  AdaptorInv'
<1>1. CASE Adaptor!AuthEventSet
  <2>1. /\ callback = "run" /\ callback' = "none" /\ Adaptor!Return(auth_ret)
        /\ UNCHANGED <<session, events, signaled, auth_ret, authorised>>
    BY <1>1 DEF Adaptor!AuthEventSet, Adaptor!AuthEvent
  <2>2. auth_ret \in {"ZOK", "error"}
    BY DEF AdaptorInv, AdaptorTypes
  <2> QED
    BY <2>1, <2>2, ReturnTypes
    DEF AdaptorInv, AdaptorTypes, Adaptor!NoCallbackAfterReturn, Adaptor!NoConnectMissed,
       AcceptedByServer, OkStays
<1>2. CASE Adaptor!AuthTimeout
  <2>1. /\ callback' = "none" /\ session' = "none" /\ events' = 0 /\ authorised' = FALSE
        /\ Adaptor!Return("error") /\ UNCHANGED <<signaled, auth_ret>>
    BY <1>2 DEF Adaptor!AuthTimeout, Adaptor!Close
  <2> QED
    BY <2>1, ReturnTypes
    DEF AdaptorInv, AdaptorTypes, Adaptor!NoCallbackAfterReturn, Adaptor!NoConnectMissed,
       AcceptedByServer, OkStays, Sessions
<1>3. CASE Adaptor!UserCloses
  BY <1>3 DEF Adaptor!UserCloses, Adaptor!Close, AdaptorInv, AdaptorTypes,
     Adaptor!NoCallbackAfterReturn, Adaptor!NoConnectMissed, AcceptedByServer, OkStays,
     Sessions
<1> QED
  BY <1>1, <1>2, <1>3

\* What ZooKeeper's threads do: the session is connected, lost or expires,
\* the watcher is called, or AddAuth's callback.
LEMMA SessionChangesInv ==
  ASSUME AdaptorInv,
         \/ Adaptor!Connect \/ Adaptor!Lose \/ Adaptor!Expire \/ Adaptor!GlobalWatcher
         \/ \E rc \in {"ZOK", "error"} : Adaptor!PassAndSet(rc)
  PROVE  AdaptorInv'
<1> USE DEF AdaptorInv, AdaptorTypes, Adaptor!NoCallbackAfterReturn,
Adaptor!NoConnectMissed, AcceptedByServer, OkStays
<1>1. CASE Adaptor!Connect
  BY SMTT(60), <1>1 DEF Adaptor!Connect, Adaptor!Change, Sessions
<1>2. CASE Adaptor!Lose
  BY <1>2 DEF Adaptor!Lose, Adaptor!Change, Sessions
<1>3. CASE Adaptor!Expire
  BY <1>3 DEF Adaptor!Expire, Adaptor!Change, Sessions
<1>4. CASE Adaptor!GlobalWatcher
  BY SMTT(60), <1>4 DEF Adaptor!GlobalWatcher
<1>5. ASSUME NEW rc \in {"ZOK", "error"}, Adaptor!PassAndSet(rc) PROVE AdaptorInv'
  <2>1. authorised' \in BOOLEAN /\ (rc = "ZOK" => authorised') /\ (authorised => authorised')
    BY <1>5 DEF Adaptor!PassAndSet
  <2>2. /\ callback = "pending" /\ callback' = "run" /\ auth_ret' = rc
        /\ UNCHANGED <<session, events, signaled, user, ret>>
    BY <1>5 DEF Adaptor!PassAndSet
  <2> QED
    BY <2>1, <2>2
<1> QED
  BY <1>1, <1>2, <1>3, <1>4, <1>5

\* Every step of ZkAdaptor keeps the invariant.
LEMMA AdaptorNextInv == AdaptorInv /\ [Adaptor!Next]_(Adaptor!vars) => AdaptorInv'
<1> SUFFICES ASSUME AdaptorInv, [Adaptor!Next]_(Adaptor!vars) PROVE AdaptorInv'
  OBVIOUS
<1>1. CASE UNCHANGED Adaptor!vars
  BY <1>1 DEF Adaptor!vars, AdaptorInv, AdaptorTypes, Adaptor!NoCallbackAfterReturn,
     Adaptor!NoConnectMissed, AcceptedByServer, OkStays
<1>2. CASE Adaptor!Next
  BY <1>2, WaitConnectedInv, UserStepsInv, AuthorisationInv, SessionChangesInv
     DEF Adaptor!Next
<1> QED
  BY <1>1, <1>2

\* However connections, losses, expiries, timeouts and callbacks of ZkAdaptor
\* are ordered, and for any number of them, WaitConnected sleeps through no
\* connection, returns ZOK only for an authorised session, and AddAuth's
\* callback runs only while AddAuth waits for it.
THEOREM SessionIsAlwaysSound == Adaptor!Spec => []SessionIsSound
<1>1. ASSUME Adaptor!Init PROVE AdaptorInv
  <2>1. AdaptorTypes /\ user.at = "idle"
    BY <1>1 DEF Adaptor!Init, AdaptorTypes, Sessions, UserPlaces, Adaptor!Timeouts,
       Adaptor!Idle
  <2> QED
    BY <1>1, <2>1 DEF Adaptor!Init, AdaptorInv, Adaptor!NoCallbackAfterReturn,
       Adaptor!NoConnectMissed, AcceptedByServer, OkStays
<1>2. AdaptorInv => SessionIsSound
  BY DEF AdaptorInv, OkStays, Adaptor!OkMeansAuthorised, SessionIsSound
<1> QED
  BY <1>1, <1>2, AdaptorNextInv, PTL DEF Adaptor!Spec

-----------------------------------------------------------------------------
(* ZkAcl.  A client that writes with the version it knows has known it     *)
(* before it read the list, so if that is still the server's when the      *)
(* write arrives, the list has not been written since, with whatever       *)
(* version: what was read is what the server has.                          *)

AclCalls == [at : {"idle", "AddAcl", "RemoveAcl"}, item : Items \cup {OpenAcl},
          acl_version : Int, acls : SUBSET (Items \cup {OpenAcl})]

\* The versions are numbers, and none that is known is newer than the server's.
VersionsAreOld ==
    /\ aversion \in Nat
    /\ client \in [Clients -> AclCalls]
    /\ known \in [Clients -> Nat]
    /\ zk_acl \in SUBSET (Items \cup {OpenAcl})
    /\ \A c \in Clients : known[c] <= aversion

\* A call of a client that knows the server's version holds the list it has.
ReadIsCurrent ==
    \A c \in Clients :
        client[c].at # "idle" /\ known[c] = aversion => client[c].acls = zk_acl

AclInv == VersionsAreOld /\ ReadIsCurrent

\* No client holds a list or a version at the start.
LEMMA AclInitInv == Acl!Init => AclInv
BY SMTT(60) DEF Acl!Init, AclInv, VersionsAreOld, ReadIsCurrent, Acl!NoCall, AclCalls

\* Learning the version is for clients without a call in progress.
LEMMA GetAclVersionInv ==
  ASSUME AclInv, NEW c \in Clients, Acl!GetAclVersion(c)
  PROVE  AclInv'
BY DEF Acl!GetAclVersion, AclInv, VersionsAreOld, ReadIsCurrent

\* A call begins with the list of this moment, whatever version it is given.
LEMMA AclCallInv ==
  ASSUME AclInv, NEW c \in Clients, NEW op \in {"AddAcl", "RemoveAcl"},
         NEW item \in Items \cup {OpenAcl}, NEW version \in Acl!Versions,
         Acl!Call(c, op, item, version)
  PROVE  AclInv'
<1> DEFINE new == [at |-> op, item |-> item, acl_version |-> version,
                   acls |-> zk_acl]
<1>1. new \in AclCalls /\ new.acls = zk_acl
  BY SMTT(60) DEF AclInv, VersionsAreOld, AclCalls, Acl!Versions
<1>2. /\ client' = [client EXCEPT ![c] = new]
      /\ UNCHANGED <<zk_acl, aversion, known>>
  BY DEF Acl!Call
<1> HIDE DEF new
<1>3. VersionsAreOld'
  BY <1>1, <1>2 DEF AclInv, VersionsAreOld
<1>4. ReadIsCurrent'
  BY <1>1, <1>2 DEF AclInv, VersionsAreOld, ReadIsCurrent
<1> QED
  BY <1>3, <1>4 DEF AclInv

\* An accepted write outdates what every other client knows; a refused or lost
\* one only ends the call.
LEMMA SetAclsDoneInv ==
  ASSUME AclInv, NEW c \in Clients, Acl!SetAclsDone(c)
  PROVE  AclInv'
<1>0. Acl!NoCall \in AclCalls /\ Acl!NoCall.at = "idle"
  BY DEF Acl!NoCall, AclCalls
<1>1. /\ client' = [client EXCEPT ![c] = Acl!NoCall]
      /\ UNCHANGED known
  BY DEF Acl!SetAclsDone
<1>2. CASE UNCHANGED <<zk_acl, aversion>>
  BY SMTT(60), <1>0, <1>1, <1>2 DEF AclInv, VersionsAreOld, ReadIsCurrent
<1>3. CASE zk_acl' = Acl!SetAcls(c) /\ aversion' = aversion + 1
  <2>1. zk_acl' \in SUBSET (Items \cup {OpenAcl})
    BY <1>3 DEF Acl!SetAcls, Acl!Written, Acl!Edited, AclInv, VersionsAreOld, AclCalls
  <2>2. VersionsAreOld'
    BY SMTT(60), <1>0, <1>1, <1>3, <2>1 DEF AclInv, VersionsAreOld
  <2>3. \A d \in Clients : known'[d] # aversion'
    BY SMTT(60), <1>1, <1>3 DEF AclInv, VersionsAreOld
  <2> QED
    BY <2>2, <2>3 DEF AclInv, ReadIsCurrent
<1> QED
  BY <1>2, <1>3 DEF Acl!SetAclsDone

\* Every step keeps the invariant.
LEMMA AclNextInv == AclInv /\ [Acl!Next]_(Acl!vars) => AclInv'
<1> SUFFICES ASSUME AclInv, [Acl!Next]_(Acl!vars) PROVE AclInv'
  OBVIOUS
<1>1. CASE UNCHANGED Acl!vars
  BY <1>1 DEF Acl!vars, AclInv, VersionsAreOld, ReadIsCurrent
<1>2. CASE Acl!Next
  BY <1>2, GetAclVersionInv, AclCallInv, SetAclsDoneInv DEF Acl!Next
<1> QED
  BY <1>1, <1>2

\* The write of a client that knows the server's version edits what the server has.
LEMMA KnownVersionEdits ==
  ASSUME AclInv, Acl!Next, NEW c \in Clients, Acl!Writes(c), client[c].acl_version = known[c]
  PROVE  zk_acl' = Acl!Written(Acl!Edited(zk_acl, client[c]))
<1>1. ASSUME NEW d \in Clients, Acl!SetAclsDone(d), aversion' # aversion
      PROVE  zk_acl' = Acl!Written(Acl!Edited(zk_acl, client[c]))
  <2>1. /\ Acl!Accepted(d) /\ zk_acl' = Acl!SetAcls(d)
        /\ client' = [client EXCEPT ![d] = Acl!NoCall]
    BY <1>1 DEF Acl!SetAclsDone
  <2>2. c = d
    BY <2>1 DEF Acl!Writes, AclInv, VersionsAreOld
  <2>3. known[c] \in Nat /\ known[c] = aversion
    BY <2>1, <2>2 DEF Acl!Accepted, AclInv, VersionsAreOld
  <2>4. client[c].acls = zk_acl
    BY <2>3 DEF Acl!Writes, AclInv, ReadIsCurrent
  <2> QED
    BY <2>1, <2>2, <2>4 DEF Acl!SetAcls
<1>2. \E d \in Clients : Acl!SetAclsDone(d) /\ aversion' # aversion
  BY DEF Acl!Next, Acl!Writes, Acl!GetAclVersion, Acl!Call
<1> QED
  BY <1>1, <1>2

\* Whatever clients add to and remove from an access list at the same time, with
\* whatever versions, -1 included, and whatever answers are lost: a write with the
\* version its caller got from GetAcls overwrites no edit of another client.
THEOREM KnownVersionNeverLosesEdits == Acl!Spec => KnownVersionLosesNothing
<1> DEFINE Kept == \A c \in Clients :
                     Acl!Writes(c) /\ client[c].acl_version = known[c]
                       => zk_acl' = Acl!Written(Acl!Edited(zk_acl, client[c]))
<1>1. AclInv /\ [Acl!Next]_(Acl!vars) => [Kept]_(Acl!vars)
  BY KnownVersionEdits
<1>2. [][Kept]_(Acl!vars) => KnownVersionLosesNothing
  BY DEF KnownVersionLosesNothing, Acl!KnownVersionLosesNothing
<1> QED
  BY AclInitInv, AclNextInv, <1>1, <1>2, PTL DEF Acl!Spec

-----------------------------------------------------------------------------
(* ThreadWorker for any number of callers and tasks: tasks run once and in *)
(* order, nothing is left when the worker has stopped, every queued task   *)
(* is announced, and the worker implements Executor.                       *)
(*                                                                         *)
(* Three facts carry the argument: the vector being run is empty outside   *)
(* the loop that runs it, so that the exchange of the two vectors keeps    *)
(* the order; after the second exchange nothing is pushed any more, for    *)
(* shutdown_ stays set until the next Start, which needs the thread gone;  *)
(* and the push that announces is that of the first task in the vector.    *)

\* Who is in Start holds mutex_ alone, and there is no thread yet.
StartAlone ==
  /\ worker # "none" => running
  /\ \A c \in Controllers :
       at[c] \in {"start", "create"} => running /\ worker = "none"
  /\ \A c, d \in Controllers :
       {at[c], at[d]} \subseteq {"start", "create", "stop"} => c = d

\* run_task_ is empty but in the loop that runs it.
RunsOnlyInLoop == worker \notin {"run", "run_last"} => run_task = <<>>

\* What is known when the thread is about to leave, and when it has left.
Drains ==
  /\ worker \in {"take_last", "run_last"} => shutdown
  /\ worker = "run_last" => push_task = <<>>
  /\ worker = "leave" /\ ~failed => shutdown /\ push_task = <<>>
  /\ ~running /\ ~failed => shutdown /\ push_task = <<>>

\* The task that has been pushed on an empty vector announces the vector.
FirstAnnounces ==
  push_task # <<>> =>
    event \/ push_task[1] \in notifying \/ worker \in {"take", "take_last"} \/ missed

\* No task is accepted twice.
AcceptedOnce == \A i, j \in 1..Len(accepted) : accepted[i] = accepted[j] => i = j

Inv ==
  /\ TypeOK /\ StartAlone /\ RunsOnlyInLoop /\ Drains
  /\ TasksInOrder /\ FirstAnnounces /\ AcceptedOnce

--------------------------------------------------------------------------------
(* Sequences *)

\* Sequences with the same elements are the same.
LEMMA SameElements ==
  ASSUME NEW S, NEW a \in Seq(S), NEW b \in Seq(S), Len(a) = Len(b),
         \A i \in 1..Len(a) : a[i] = b[i]
  PROVE  a = b
BY SMTT(60)

\* The elements of one sequence after another
LEMMA ConcatFacts ==
  ASSUME NEW S, NEW a \in Seq(S), NEW b \in Seq(S)
  PROVE  /\ a \o b \in Seq(S) /\ Len(a \o b) = Len(a) + Len(b)
         /\ \A i \in 1..Len(a) : (a \o b)[i] = a[i]
         /\ \A i \in 1..Len(b) : (a \o b)[Len(a) + i] = b[i]
BY SMTT(60)

\* Nothing before or after a sequence
LEMMA ConcatNothing ==
  ASSUME NEW S, NEW a \in Seq(S)
  PROVE  a \o <<>> = a /\ <<>> \o a = a
BY SMTT(60)

\* push_back, as concatenation
LEMMA AppendFacts ==
  ASSUME NEW S, NEW a \in Seq(S), NEW x \in S
  PROVE  Append(a, x) = a \o <<x>>
BY SMTT(60)

\* Three sequences after each other
LEMMA ConcatTwice ==
  ASSUME NEW S, NEW a \in Seq(S), NEW b \in Seq(S), NEW c \in Seq(S)
  PROVE  (a \o b) \o c = a \o (b \o c)
BY SMTT(60)

\* A task pushed comes last.
LEMMA PushLast ==
  \A S : \A a, b, c \in Seq(S), x \in S : a \o b \o Append(c, x) = Append(a \o b \o c, x)
<1> SUFFICES ASSUME NEW S, NEW a \in Seq(S), NEW b \in Seq(S), NEW c \in Seq(S), NEW x \in S
             PROVE  a \o b \o Append(c, x) = Append(a \o b \o c, x)
  BY Zenon
<1>1. a \o b \in Seq(S) /\ <<x>> \in Seq(S) /\ a \o b \o c \in Seq(S)
  BY SMTT(60)
<1>2. Append(c, x) = c \o <<x>> /\ Append(a \o b \o c, x) = (a \o b \o c) \o <<x>>
  BY <1>1, AppendFacts
<1> QED
  BY SMTT(60), <1>1, <1>2, ConcatTwice

\* The head of what is to be run goes to the end of what has been run.
LEMMA RunHead ==
  ASSUME NEW S, NEW a \in Seq(S), NEW b \in Seq(S), b # <<>>
  PROVE  Append(a, Head(b)) \o Tail(b) = a \o b
<1>1. Head(b) \in S /\ Tail(b) \in Seq(S) /\ <<Head(b)>> \in Seq(S)
  BY SMTT(60)
<1>2. Append(a, Head(b)) = a \o <<Head(b)>>
  BY <1>1, AppendFacts
<1>3. <<Head(b)>> \o Tail(b) = b
  <2>1. <<Head(b)>> \o Tail(b) \in Seq(S) /\ Len(<<Head(b)>> \o Tail(b)) = 1 + Len(Tail(b))
    BY SMTT(60), <1>1
  <2>2. \A i \in 1..Len(b) : (<<Head(b)>> \o Tail(b))[i] = b[i]
    BY SMTT(60), <1>1
  <2> QED
    BY SMTT(60), <1>1, <2>1, <2>2, SameElements
<1> QED
  BY SMTT(60), <1>1, <1>2, <1>3, ConcatTwice

\* The elements after an Append.
LEMMA ElementsAppend ==
  ASSUME NEW S, NEW a \in Seq(S), NEW x \in S
  PROVE  Elements(Append(a, x)) = Elements(a) \cup {x}
BY SMTT(60) DEF Elements

--------------------------------------------------------------------------------
(* The steps *)

\* Nothing is queued and nobody calls.
LEMMA InitInv == Init => Inv
<1> SUFFICES ASSUME Init PROVE Inv
  OBVIOUS
<1>1. <<>> \in Seq(Tasks) /\ <<>> \o <<>> = <<>>
  BY SMTT(60), ConcatNothing
<1>2. TypeOK
  BY <1>1 DEF Init, TypeOK, Places
<1>3. StartAlone /\ RunsOnlyInLoop /\ Drains /\ FirstAnnounces
  BY DEF Init, StartAlone, RunsOnlyInLoop, Drains, FirstAnnounces
<1>4. TasksInOrder /\ AcceptedOnce
  BY SMTT(60), <1>1 DEF Init, TasksInOrder, AcceptedOnce
<1> QED
  BY <1>2, <1>3, <1>4 DEF Inv

\* Steps that leave the two vectors and what has been run alone keep the order.
LEMMA SameTasks ==
  ASSUME Inv, UNCHANGED tasks
  PROVE  TasksInOrder' /\ AcceptedOnce'
BY SMTT(60) DEF Inv, tasks, TasksInOrder, AcceptedOnce

\* Nothing happens.
LEMMA SameState ==
  ASSUME Inv, UNCHANGED vars
  PROVE  Inv'
<1> USE DEF vars, flags, tasks, fd
<1>1. TypeOK'
  BY DEF Inv, TypeOK
<1>2. StartAlone'
  BY DEF Inv, StartAlone
<1>3. RunsOnlyInLoop' /\ Drains' /\ FirstAnnounces'
  BY DEF Inv, RunsOnlyInLoop, Drains, FirstAnnounces
<1> QED
  BY <1>1, <1>2, <1>3, SameTasks DEF Inv

\* A caller that leaves mutex_, or waits for the thread to end.
LEMMA LeavesMutex ==
  ASSUME StartAlone, NEW c \in Controllers, NEW p, p \notin {"start", "create", "stop"},
         \A d \in Controllers : at'[d] = IF d = c THEN p ELSE at[d],
         running' = running, worker' = worker
  PROVE  StartAlone'
<1>1. \A d \in Controllers : at'[d] \in {"start", "create", "stop"} => at'[d] = at[d]
  OBVIOUS
<1>2. ASSUME NEW d \in Controllers, at'[d] \in {"start", "create"}
      PROVE  running' /\ worker' = "none"
  BY <1>1, <1>2 DEF StartAlone
<1>3. ASSUME NEW d \in Controllers, NEW e \in Controllers,
             {at'[d], at'[e]} \subseteq {"start", "create", "stop"}
      PROVE  d = e
  <2>1. at'[d] = at[d] /\ at'[e] = at[e]
    BY <1>1, <1>3
  <2>2. {at[d], at[e]} \subseteq {"start", "create", "stop"}
    BY <1>3, <2>1
  <2> QED
    BY <2>2 DEF StartAlone
<1> QED
  BY <1>2, <1>3 DEF StartAlone

\* PushTask: the task becomes the last, and the thread is not on its way out.
LEMMA PushTaskInv ==
  ASSUME Inv, NEW t \in Tasks, PushTask(t)
  PROVE  Inv'
<1>1. CASE UNCHANGED vars
  BY <1>1, SameState
<1>2. CASE /\ running /\ ~shutdown
           /\ t \notin Elements(accepted)
           /\ push_task' = Append(push_task, t)
           /\ accepted' = Append(accepted, t)
           /\ notifying' = IF push_task = <<>> THEN notifying \cup {t} ELSE notifying
           /\ UNCHANGED <<flags, run_task, done, fd, worker, at, missed, failed>>
  <2>1. TypeOK'
    BY SMTT(60), <1>2 DEF Inv, TypeOK, flags, fd
  <2>2. StartAlone' /\ RunsOnlyInLoop'
    BY <1>2 DEF Inv, TypeOK, StartAlone, RunsOnlyInLoop, flags, fd
  <2>3. Drains'
    BY <1>2 DEF Inv, TypeOK, Drains, flags, fd
  <2>4. TasksInOrder'
    <3>0. /\ done \in Seq(Tasks) /\ run_task \in Seq(Tasks) /\ push_task \in Seq(Tasks)
          /\ t \in Tasks
      BY <1>2 DEF Inv, TypeOK
    <3>1. done \o run_task \o Append(push_task, t) = Append(done \o run_task \o push_task, t)
      BY SMTT(60), <3>0, PushLast
    <3> QED
      BY <1>2, <3>1 DEF Inv, TasksInOrder
  <2>5. FirstAnnounces'
    <3>1. CASE push_task = <<>>
      <4>0. push_task' = Append(<<>>, t)
        BY <1>2, <3>1
      <4>1. push_task'[1] = t
        BY SMTT(60), <4>0
      <4> QED
        BY <1>2, <3>1, <4>1 DEF FirstAnnounces
    <3>2. CASE push_task # <<>>
      <4>1. push_task'[1] = push_task[1]
        <5>1. push_task \in Seq(Tasks) /\ push_task' = Append(push_task, t)
          BY <1>2 DEF Inv, TypeOK
        <5> QED
          BY SMTT(60), <3>2, <5>1
      <4> QED
        BY <1>2, <3>2, <4>1 DEF Inv, FirstAnnounces, fd
    <3> QED
      BY <3>1, <3>2
  <2>6. AcceptedOnce'
    BY SMTT(60), <1>2 DEF Inv, TypeOK, AcceptedOnce,
       Elements
  <2> QED
    BY <2>1, <2>2, <2>3, <2>4, <2>5, <2>6 DEF Inv
<1> QED
  BY <1>1, <1>2 DEF PushTask

\* The write after a PushTask: it is seen, or missed.
LEMMA PushNotifyInv ==
  ASSUME Inv, NEW t \in Tasks, PushNotify(t)
  PROVE  Inv'
<1>1. TypeOK' /\ StartAlone' /\ RunsOnlyInLoop' /\ Drains'
  BY DEF PushNotify, NewTaskNotify, Inv, TypeOK, StartAlone, RunsOnlyInLoop, Drains, flags, tasks
<1>2. FirstAnnounces'
  <2> SUFFICES ASSUME push_task # <<>>, push_task[1] \in notifying, t = push_task[1]
               PROVE  event' \/ missed'
    BY DEF PushNotify, NewTaskNotify, Inv, TypeOK, FirstAnnounces, flags, tasks
  <2>1. t \in Elements(push_task)
    BY SMTT(60) DEF Inv, TypeOK, Elements
  <2> QED
    BY <2>1 DEF PushNotify, NewTaskNotify
<1> QED
  BY <1>1, <1>2, SameTasks DEF PushNotify, Inv

\* Start: the CHECKs are those of an executor that has nothing left to do.
LEMMA StartInv ==
  ASSUME Inv, NEW c \in Controllers,
         StartBegin(c) \/ StartOpens(c) \/ StartThread(c) \/ StartFails(c)
  PROVE  Inv'
<1> USE DEF flags, tasks, fd, Goto
<1>0. UNCHANGED tasks
  BY DEF StartBegin, StartOpens, StartThread, StartFails
<1>1. CASE StartBegin(c)
  BY <1>0, <1>1, SameTasks DEF StartBegin, Inv, TypeOK, Places, StartAlone, RunsOnlyInLoop, Drains,
              FirstAnnounces, Free
<1>2. CASE StartOpens(c)
  <2>1. TypeOK'
    BY <1>2 DEF StartOpens, LoseEvent, Inv, TypeOK
  <2>2. StartAlone'
    <3>1. \A d \in Controllers : at'[d] = IF d = c THEN "create" ELSE at[d]
      BY <1>2 DEF StartOpens, Inv, TypeOK
    <3> QED
      BY SMTT(60), <1>2, <3>1 DEF StartOpens, Inv, StartAlone
  <2>3. RunsOnlyInLoop' /\ Drains' /\ FirstAnnounces'
    BY <1>2 DEF StartOpens, LoseEvent, Inv, RunsOnlyInLoop, Drains, FirstAnnounces
  <2> QED
    BY <1>0, <2>1, <2>2, <2>3, SameTasks DEF Inv
<1>3. CASE StartThread(c)
  BY SMTT(60), <1>0, <1>3, SameTasks DEF StartThread, Inv, TypeOK, Places, StartAlone,
     RunsOnlyInLoop, Drains, FirstAnnounces
<1>4. CASE StartFails(c)
  BY ZenonT(60), <1>0, <1>4, SameTasks DEF StartFails, LoseEvent, Inv, TypeOK, Places,
     StartAlone, RunsOnlyInLoop, Drains, FirstAnnounces
<1> QED
  BY <1>1, <1>2, <1>3, <1>4

\* Stop: the request, the write and the end.
LEMMA StopInv ==
  ASSUME Inv, NEW c \in Controllers, StopRequest(c) \/ StopNotify(c) \/ StopEnd(c)
  PROVE  Inv'
<1> USE DEF flags, tasks, fd
<1>0. UNCHANGED tasks
  BY DEF StopRequest, StopNotify, StopEnd
<1>1. TasksInOrder' /\ AcceptedOnce'
  BY <1>0, SameTasks
<1>2. CASE StopRequest(c)
  <2>1. TypeOK'
    BY <1>2 DEF StopRequest, Goto, Inv, TypeOK
  <2>2. StartAlone'
    <3>1. \A d \in Controllers : at'[d] = IF d = c THEN "stop" ELSE at[d]
      BY <1>2 DEF StopRequest, Goto, Inv, TypeOK
    <3>2. \A d \in Controllers : at[d] \notin {"start", "create", "stop"}
      BY <1>2 DEF StopRequest, Free
    <3> QED
      BY <1>2, <3>1, <3>2 DEF StopRequest, Inv, StartAlone
  <2>3. RunsOnlyInLoop' /\ Drains' /\ FirstAnnounces'
    BY <1>2 DEF StopRequest, Inv, RunsOnlyInLoop, Drains, FirstAnnounces
  <2> QED
    BY <1>1, <2>1, <2>2, <2>3 DEF Inv
<1>3. CASE StopNotify(c)
  <2>1. TypeOK'
    BY <1>3 DEF StopNotify, NewTaskNotify, Goto, Inv, TypeOK
  <2>2. StartAlone'
    <3>1. \A d \in Controllers : at'[d] = IF d = c THEN "stop_wait" ELSE at[d]
      BY <1>3 DEF StopNotify, Goto, Inv, TypeOK
    <3> QED
      BY <1>3, <3>1, LeavesMutex DEF StopNotify, Inv
  <2>3. RunsOnlyInLoop' /\ Drains' /\ FirstAnnounces'
    BY <1>3 DEF StopNotify, NewTaskNotify, Inv, RunsOnlyInLoop, Drains, FirstAnnounces
  <2> QED
    BY <1>1, <2>1, <2>2, <2>3 DEF Inv
<1>4. CASE StopEnd(c)
  <2>1. TypeOK'
    BY <1>4 DEF StopEnd, LoseEvent, Goto, Inv, TypeOK
  <2>2. StartAlone'
    <3>1. \A d \in Controllers : at'[d] = IF d = c THEN "idle" ELSE at[d]
      BY <1>4 DEF StopEnd, Goto, Inv, TypeOK
    <3> QED
      BY <1>4, <3>1, LeavesMutex DEF StopEnd, Inv
  <2>3. RunsOnlyInLoop' /\ Drains' /\ FirstAnnounces'
    BY <1>4 DEF StopEnd, LoseEvent, Inv, RunsOnlyInLoop, Drains, FirstAnnounces
  <2> QED
    BY <1>1, <2>1, <2>2, <2>3 DEF Inv
<1> QED
  BY <1>2, <1>3, <1>4

\* The thread waits for an event, or gives up.
LEMMA WaitInv ==
  ASSUME Inv, WaitEvent \/ WaitFails
  PROVE  Inv'
<1> USE DEF flags, tasks, fd
<1>1. CASE WaitEvent
  BY <1>1, SameTasks DEF WaitEvent, Inv, TypeOK, Places, StartAlone, RunsOnlyInLoop, Drains, FirstAnnounces
<1>2. CASE WaitFails
  BY <1>2, SameTasks DEF WaitFails, Inv, TypeOK, Places, StartAlone, RunsOnlyInLoop, Drains, FirstAnnounces
<1> QED
  BY <1>1, <1>2

\* The exchange of the vectors: the one taken away is empty.
LEMMA TakeTasksInv ==
  ASSUME Inv, TakeTasks
  PROVE  Inv'
<1>1. run_task = <<>> /\ push_task' = <<>> /\ run_task' = push_task
  BY DEF TakeTasks, Inv, RunsOnlyInLoop
<1>2. TypeOK' /\ StartAlone' /\ RunsOnlyInLoop' /\ Drains' /\ FirstAnnounces'
  BY <1>1 DEF TakeTasks, flags, fd, Inv, TypeOK, Places, StartAlone, RunsOnlyInLoop, Drains,
              FirstAnnounces
<1>3. done \o <<>> = done /\ done \o push_task \in Seq(Tasks)
  BY SMTT(60), ConcatNothing DEF Inv, TypeOK
<1>4. done \o push_task \o <<>> = done \o push_task
  BY <1>3, ConcatNothing
<1>5. TasksInOrder' /\ AcceptedOnce'
  BY SMTT(60), <1>1, <1>3, <1>4 DEF TakeTasks, Inv, TasksInOrder, AcceptedOnce
<1> QED
  BY <1>2, <1>5 DEF Inv

\* A task runs: the first of those taken.
LEMMA RunTaskInv ==
  ASSUME Inv, RunTask
  PROVE  Inv'
<1>1. Head(run_task) \in Tasks /\ Tail(run_task) \in Seq(Tasks)
  BY SMTT(60) DEF RunTask, Inv, TypeOK
<1>2. TypeOK'
  BY SMTT(60), <1>1 DEF RunTask, flags, fd, Inv, TypeOK
<1>3. StartAlone' /\ RunsOnlyInLoop' /\ Drains' /\ FirstAnnounces' /\ AcceptedOnce'
  BY DEF RunTask, flags, fd, Inv, TypeOK, StartAlone, RunsOnlyInLoop, Drains, FirstAnnounces,
         AcceptedOnce
<1>4. TasksInOrder'
  BY RunHead DEF RunTask, Inv, TypeOK, TasksInOrder
<1> QED
  BY <1>2, <1>3, <1>4 DEF Inv

\* The thread goes on waiting, takes what is left, or leaves.
LEMMA AfterTasksInv ==
  ASSUME Inv, AfterTasks \/ Leave
  PROVE  Inv'
<1> USE DEF flags, tasks, fd
<1>1. CASE AfterTasks
  BY <1>1, SameTasks DEF AfterTasks, Inv, TypeOK, Places, StartAlone, RunsOnlyInLoop, Drains, FirstAnnounces
<1>2. CASE Leave
  BY <1>2, SameTasks DEF Leave, Inv, TypeOK, Places, StartAlone, RunsOnlyInLoop, Drains, FirstAnnounces,
              Free
<1> QED
  BY <1>1, <1>2

\* Every step keeps the invariant.
LEMMA NextInv == Inv /\ [Next]_vars => Inv'
<1> SUFFICES ASSUME Inv, [Next]_vars PROVE Inv'
  OBVIOUS
<1>1. CASE UNCHANGED vars
  BY <1>1, SameState
<1>2. ASSUME NEW t \in Tasks, PushTask(t) \/ PushNotify(t) PROVE Inv'
  BY <1>2, PushTaskInv, PushNotifyInv
<1>3. ASSUME NEW c \in Controllers,
             StartBegin(c) \/ StartFails(c) \/ StopRequest(c) \/ Resume(c)
      PROVE  Inv'
  BY <1>3, StartInv, StopInv DEF Resume
<1>4. CASE Run \/ WaitFails
  BY <1>4, WaitInv, TakeTasksInv, RunTaskInv, AfterTasksInv DEF Run
<1> QED
  BY <1>1, <1>2, <1>3, <1>4 DEF Next

--------------------------------------------------------------------------------
(* What the invariant says *)

\* Without a thread both vectors are empty, unless a system call has failed.
LEMMA NothingLeft ==
  ASSUME Inv, worker = "none", push_task = <<>>
  PROVE  done = accepted
BY ConcatNothing DEF Inv, TypeOK, RunsOnlyInLoop, TasksInOrder

\* The invariant implies what the worker promises.
LEMMA InvImplies == Inv => WorkerIsSound
<1> SUFFICES ASSUME Inv PROVE WorkerIsSound
  OBVIOUS
<1>1. StoppedMeansDrained
  BY NothingLeft DEF Inv, StartAlone, Drains, StoppedMeansDrained
<1>2. QueuedIsAnnounced
  BY DEF Inv, FirstAnnounces, QueuedIsAnnounced
<1> QED
  BY <1>1, <1>2 DEF Inv, WorkerIsSound

\* threadworker.cc, for any callers and tasks: what PushTask accepted is what has run, what
\* is being run and what is queued, in this order; no task stays queued without an event
\* that is set or about to be, except behind a write that met no descriptor; and when the
\* thread is gone every task has run, unless a system call failed.
THEOREM WorkerIsAlwaysSound == Spec => []WorkerIsSound
BY InitInv, NextInv, InvImplies, PTL DEF Spec

--------------------------------------------------------------------------------
(* ThreadWorker implements Executor *)

\* A task about to run has been accepted and has not run before.
LEMMA HeadIsNew ==
  ASSUME Inv, run_task # <<>>
  PROVE  /\ Head(run_task) \in Tasks
         /\ Head(run_task) \in Elements(accepted) \ Elements(done)
<1> DEFINE n == Len(done) + 1
<1>1. /\ Len(done) \in Nat /\ Len(run_task) \in Nat \ {0} /\ Len(push_task) \in Nat
      /\ Head(run_task) = run_task[1] /\ Head(run_task) \in Tasks
  BY SMTT(60) DEF Inv, TypeOK
<1>2. /\ done \o run_task \in Seq(Tasks)
      /\ Len(done \o run_task) = Len(done) + Len(run_task)
      /\ \A i \in 1..Len(done) + Len(run_task) :
           (done \o run_task)[i] = IF i <= Len(done) THEN done[i] ELSE run_task[i - Len(done)]
  BY SMTT(60) DEF Inv, TypeOK
<1>3. /\ Len(accepted) = Len(done) + Len(run_task) + Len(push_task)
      /\ \A i \in 1..Len(done) + Len(run_task) : accepted[i] = (done \o run_task)[i]
  BY SMTT(60), <1>1, <1>2 DEF Inv, TypeOK, TasksInOrder
<1>4. n \in 1..Len(accepted) /\ accepted[n] = Head(run_task)
  BY SMTT(60), <1>1, <1>2, <1>3
<1>5. \A i \in 1..Len(done) : i \in 1..Len(accepted) /\ accepted[i] = done[i] /\ i # n
  BY SMTT(60), <1>1, <1>2, <1>3
<1> HIDE DEF n
<1>6. Head(run_task) \in Elements(accepted)
  BY <1>4 DEF Elements
<1>7. Head(run_task) \notin Elements(done)
  BY <1>4, <1>5 DEF Elements, Inv, AcceptedOnce
<1> QED
  BY <1>1, <1>6, <1>7

\* Every step of the worker is a step of an executor or changes nothing it shows.
LEMMA StepRefines == Inv /\ [Next]_vars => [AsExecutor!Next]_(AsExecutor!vars)
<1> SUFFICES ASSUME Inv, [Next]_vars PROVE [AsExecutor!Next]_(AsExecutor!vars)
  OBVIOUS
<1> USE DEF flags, tasks, fd
<1>1. CASE UNCHANGED <<running, shutdown, accepted, done>>
  BY <1>1 DEF AsExecutor!vars
<1>2. ASSUME NEW t \in Tasks, PushTask(t) PROVE [AsExecutor!Next]_(AsExecutor!vars)
  <2>1. CASE UNCHANGED vars
    BY <1>1, <2>1 DEF vars
  <2>2. CASE ~UNCHANGED vars
    <3>1. /\ running /\ ~shutdown /\ t \notin Elements(accepted)
          /\ accepted' = Append(accepted, t)
          /\ UNCHANGED <<running, shutdown, done>>
      BY <1>2, <2>2 DEF PushTask
    <3>2. Elements(accepted)' = Elements(accepted) \cup {t}
      BY SMTT(60), <3>1, ElementsAppend DEF Inv, TypeOK
    <3>3. AsExecutor!PushTask(t)
      BY <3>1, <3>2 DEF AsExecutor!PushTask
    <3> QED
      BY <3>3 DEF AsExecutor!Next
  <2> QED
    BY <2>1, <2>2
<1>3. ASSUME NEW c \in Controllers, StartBegin(c) PROVE [AsExecutor!Next]_(AsExecutor!vars)
  <2>1. done = accepted
    BY <1>3, NothingLeft DEF StartBegin, Inv, StartAlone
  <2>2. AsExecutor!Start
    BY <1>3, <2>1 DEF StartBegin, AsExecutor!Start
  <2> QED
    BY <2>2 DEF AsExecutor!Next
<1>4. ASSUME NEW c \in Controllers, StopRequest(c) PROVE [AsExecutor!Next]_(AsExecutor!vars)
  <2>1. CASE shutdown
    BY <1>4, <2>1 DEF StopRequest, Inv, TypeOK, AsExecutor!vars
  <2>2. CASE ~shutdown
    <3>1. AsExecutor!Stop
      BY <1>4, <2>2 DEF StopRequest, AsExecutor!Stop
    <3> QED
      BY <3>1 DEF AsExecutor!Next
  <2> QED
    BY <2>1, <2>2
<1>5. CASE RunTask
  <2>1. Elements(done)' = Elements(done) \cup {Head(run_task)}
    BY SMTT(60), <1>5, HeadIsNew, ElementsAppend DEF RunTask, Inv, TypeOK
  <2>2. AsExecutor!Run(Head(run_task))
    BY <1>5, <2>1, HeadIsNew DEF RunTask, AsExecutor!Run
  <2> QED
    BY <1>5, <2>2, HeadIsNew DEF RunTask, AsExecutor!Next
<1>6. CASE Leave
  <2>1. CASE shutdown
    BY <1>6, <2>1 DEF Leave, AsExecutor!vars
  <2>2. CASE ~shutdown
    <3>1. AsExecutor!Stop
      BY <1>6, <2>2 DEF Leave, Inv, StartAlone, AsExecutor!Stop
    <3> QED
      BY <3>1 DEF AsExecutor!Next
  <2> QED
    BY <2>1, <2>2
<1>7. ASSUME NEW t \in Tasks, PushNotify(t) PROVE [AsExecutor!Next]_(AsExecutor!vars)
  BY <1>1, <1>7 DEF PushNotify
<1>8. ASSUME NEW c \in Controllers,
             StartFails(c) \/ StartOpens(c) \/ StartThread(c) \/ StopNotify(c) \/ StopEnd(c)
      PROVE  [AsExecutor!Next]_(AsExecutor!vars)
  BY <1>1, <1>8 DEF StartFails, StartOpens, StartThread, StopNotify, StopEnd
<1>9. CASE WaitEvent \/ WaitFails \/ TakeTasks \/ AfterTasks \/ UNCHANGED vars
  BY <1>1, <1>9 DEF WaitEvent, WaitFails, TakeTasks, AfterTasks, vars
<1> QED
  BY <1>2, <1>3, <1>4, <1>5, <1>6, <1>7, <1>8, <1>9 DEF Next, Resume, Run

\* threadworker.cc does what Executor promises, for any callers and tasks.
THEOREM WorkerIsExecutor == Spec => ImplementsExecutor
<1>1. Init => AsExecutor!Init
  BY SMTT(60) DEF Init, AsExecutor!Init, Elements
<1> QED
  BY <1>1, InitInv, NextInv, StepRefines, PTL DEF Spec, ImplementsExecutor, AsExecutor!Spec
=============================================================================
