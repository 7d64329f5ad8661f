------------------------- MODULE ZkLeaderSelectionProofs -------------------------
(***************************************************************************)
(* The election is sound for any number of candidates and nodes.  A        *)
(* candidate finds its node the smallest before it watches it, and stays   *)
(* the smallest, since numbers only grow and nobody gets a node while a    *)
(* thread of the last election is still about.  And a candidate that waits *)
(* has seen the node it watches there when it asked for the watch.         *)
(***************************************************************************)
EXTENDS ZkLeaderSelection, WellFoundedInduction, TLAPS

USE ZenonT(30), SMTT(60)

Places == {"idle", "connect", "create", "check", "watch", "win", "fail",
           "run_ok", "run_failed", "expire"}

Types ==
  /\ TypeOK
  /\ events \in [Candidates -> Seq({"node", "myself", "expired"})]
  /\ pc \in [Candidates -> [ThreadNames -> Places]]
  /\ target \in [Candidates -> [ThreadNames -> Nat]]

\* A candidate without a handle has nothing: no watch, event, node or callback.
Handle(c) ==
  zh[c] = "null" => /\ watch[c] = 0 /\ events[c] = <<>> /\ myself[c] = 0
                    /\ ~done[c] /\ ~on_expired[c]

\* Until Proposals has its node, the thread of the ZooKeeper client can only have heard
\* that the session is gone.
Connecting(c) ==
  /\ pc[c]["app"] = "connect" =>
       /\ ~done[c] /\ ~on_expired[c] /\ zh[c] # "null"
       /\ pc[c]["zk"] \in {"idle", "expire"}
  /\ pc[c]["app"] \in {"connect", "create"} =>
       /\ pc[c]["zk"] \in {"idle", "expire", "fail", "run_failed"}
       /\ told[c] # "leader" /\ watch[c] = 0 /\ events[c] \in Seq({"expired"})

\* The thread that runs done_ has taken it.
Running(c) ==
  \A h \in ThreadNames : pc[c][h] \in {"run_ok", "run_failed"} => ~done[c]

\* A thread on its way to the victory, or past it, has no node before its own.
Winning(c, h) ==
  \/ pc[c][h] \in {"win", "run_ok"}
  \/ pc[c][h] = "watch" /\ target[c][h] = myself[c]

Leads(c) ==
  told[c] = "leader" \/ (\E h \in ThreadNames : Winning(c, h)) => Smaller(myself[c]) = {}

\* An election in progress is somebody's business.
Watched(c) ==
  done[c] /\ zh[c] = "live" =>
    \/ pc[c]["app"] # "idle" \/ pc[c]["zk"] # "idle"
    \/ watch[c] \in nodes \/ events[c] # <<>>

Sound(c) == Handle(c) /\ Connecting(c) /\ Running(c) /\ Leads(c) /\ Watched(c)

Inv == Types /\ \A c \in Candidates : Sound(c)

--------------------------------------------------------------------------------
(* Lemmas *)

\* A set of numbers that has a bound has a biggest one: CheckLeader, which looks for the
\* node before its own, finds one.
LEMMA BiggestIsThere ==
  ASSUME NEW S \in SUBSET Nat, S # {}, NEW n \in Nat, \A m \in S : m < n
  PROVE  Biggest(S) \in S
<1> DEFINE T == {n - m : m \in S}
           R == OpToRel(<, Nat)
<1>1. \A m \in S : n - m \in Nat /\ n - m \in T
  BY SMTT(60)
<1>2. T \subseteq Nat /\ T # {}
  BY <1>1
<1>3. PICK x \in T : \A y \in T : ~(<<y, x>> \in R)
  <2> HIDE DEF T
  <2> QED
    BY <1>2, WFMin, NatLessThanWellFounded
<1>4. \A y \in T : ~(y < x)
  <2> HIDE DEF T
  <2> QED
    BY <1>2, <1>3 DEF OpToRel
<1>5. PICK m \in S : x = n - m
  BY DEF T
<1>6. \A k \in S : k <= m
  <2> SUFFICES ASSUME NEW k \in S PROVE k <= m
    OBVIOUS
  <2>1. n - k \in T /\ k \in Nat /\ m \in Nat
    BY <1>1
  <2>2. ~(n - k < n - m)
    BY <2>1, <1>4, <1>5
  <2> QED
    BY <2>1, <2>2
<1> QED
  BY <1>6 DEF Biggest

\* Goto moves one thread of one candidate.
LEMMA GotoMoves ==
  ASSUME Types, NEW c \in Candidates, NEW h \in ThreadNames, NEW place \in Places,
         Goto(c, h, place)
  PROVE  /\ pc' \in [Candidates -> [ThreadNames -> Places]]
         /\ pc'[c][h] = place
         /\ \A d \in Candidates, g \in ThreadNames :
              d # c \/ g # h => pc'[d][g] = pc[d][g]
<1>1. /\ pc \in [Candidates -> [ThreadNames -> Places]]
      /\ pc' = [pc EXCEPT ![c] = [pc[c] EXCEPT ![h] = place]]
  BY DEF Types, Goto
<1> DEFINE row == [pc[c] EXCEPT ![h] = place]
<1>2. /\ row \in [ThreadNames -> Places] /\ row[h] = place
      /\ \A g \in ThreadNames : g # h => row[g] = pc[c][g]
  BY <1>1
<1>3. pc' = [pc EXCEPT ![c] = row]
  BY <1>1
<1> HIDE DEF row
<1> QED
  BY <1>1, <1>2, <1>3

\* No node has the number 0.
LEMMA NoNodeZero ==
  ASSUME Types
  PROVE  0 \notin nodes /\ Smaller(0) = {} /\ last \in Nat /\ nodes \subseteq Nat
<1>1. nodes \subseteq 1..last /\ last \in 0..MaxNode
  BY DEF Types, TypeOK
<1>2. last \in Nat /\ nodes \subseteq Nat /\ 0 \notin nodes
  BY <1>1, MaxNodeAssumption
<1>3. \A m \in nodes : ~(m < 0)
  BY <1>2
<1> QED
  BY <1>2, <1>3 DEF Smaller

\* When nodes go, the candidates that watch them have an event, and the others nothing new.
LEMMA Removed ==
  ASSUME Types, NEW gone, NEW Closed, RemoveNodes(gone, Closed)
  PROVE  /\ nodes' \subseteq nodes /\ last' = last
         /\ watch' \in [Candidates -> 0..last']
         /\ events' \in [Candidates -> Seq({"node", "myself", "expired"})]
         /\ \A d \in Candidates :
              /\ d \in Closed => watch'[d] = 0 /\ events'[d] = <<>>
              /\ d \notin Closed /\ watch[d] = 0 => watch'[d] = 0 /\ events'[d] = events[d]
              /\ d \notin Closed /\ (watch[d] \in nodes \/ events[d] # <<>>) =>
                   watch'[d] \in nodes' \/ events'[d] # <<>>
<1>0. 0 \notin nodes /\ last \in Nat
  BY NoNodeZero
<1>1. nodes' \subseteq nodes /\ last' = last
  BY DEF RemoveNodes
<1>2. watch' \in [Candidates -> 0..last']
  BY SMTT(60), <1>0 DEF RemoveNodes, Types, TypeOK
<1>3. events' \in [Candidates -> Seq({"node", "myself", "expired"})]
  <2> SUFFICES ASSUME NEW d \in Candidates
               PROVE  events'[d] \in Seq({"node", "myself", "expired"})
    BY DEF RemoveNodes
  <2>1. events[d] \in Seq({"node", "myself", "expired"})
    BY DEF Types
  <2> QED
    BY <2>1 DEF RemoveNodes
<1>4. ASSUME NEW d \in Candidates, d \in Closed
      PROVE  watch'[d] = 0 /\ events'[d] = <<>>
  BY <1>4 DEF RemoveNodes
<1>5. ASSUME NEW d \in Candidates, d \notin Closed, watch[d] = 0
      PROVE  watch'[d] = 0 /\ events'[d] = events[d]
  BY <1>0, <1>5 DEF RemoveNodes
<1>6. ASSUME NEW d \in Candidates, d \notin Closed, watch[d] \in nodes \/ events[d] # <<>>
      PROVE  watch'[d] \in nodes' \/ events'[d] # <<>>
  <2>1. events[d] \in Seq({"node", "myself", "expired"})
    BY DEF Types
  <2>2. CASE watch[d] \in gone \cap nodes
    BY <1>6, <2>1, <2>2 DEF RemoveNodes
  <2>3. CASE watch[d] \notin gone \cap nodes
    BY <1>6, <2>3 DEF RemoveNodes
  <2> QED
    BY <2>2, <2>3
<1> QED
  BY <1>1, <1>2, <1>3, <1>4, <1>5, <1>6

\* What the candidate itself does, or hears, is as before.
Same(d) ==
  /\ zh'[d] = "null" <=> zh[d] = "null"
  /\ zh'[d] = "live" => zh[d] = "live"
  /\ myself'[d] = myself[d] /\ done'[d] = done[d] /\ on_expired'[d] = on_expired[d]
  /\ \A h \in ThreadNames : pc'[d][h] = pc[d][h] /\ target'[d][h] = target[d][h]
  /\ told'[d] = told[d]

\* Its watch is kept, or has become an event.
WatchKept(d) ==
  /\ watch[d] = 0 => watch'[d] = 0
  /\ zh[d] = "null" => events'[d] = events[d]
  /\ watch[d] = 0 /\ events[d] \in Seq({"expired"}) => events'[d] \in Seq({"expired"})
  /\ watch[d] \in nodes \/ events[d] # <<>> => watch'[d] \in nodes' \/ events'[d] # <<>>

\* New nodes are behind all others.
NodesGrow == \A n \in 0..last : Smaller(n) = {} => Smaller(n)' = {}

\* A step of others.
LEMMA OthersSound ==
  ASSUME Inv, NEW d \in Candidates, Same(d), WatchKept(d), NodesGrow
  PROVE  Sound(d)'
<1>0. Sound(d) /\ myself[d] \in 0..last /\ "app" \in ThreadNames /\ "zk" \in ThreadNames
  BY DEF Inv, Types, TypeOK, ThreadNames
<1>1. Handle(d)'
  BY <1>0 DEF Sound, Handle, Same, WatchKept
<1>2. Connecting(d)'
  BY <1>0 DEF Sound, Connecting, Same, WatchKept
<1>3. Running(d)'
  BY <1>0 DEF Sound, Running, Same
<1>4. Leads(d)'
  <2>1. Smaller(myself[d]) = {} => Smaller(myself[d])' = {}
    BY <1>0 DEF NodesGrow, Smaller, Same
  <2>2. \A h \in ThreadNames : Winning(d, h)' <=> Winning(d, h)
    BY DEF Winning, Same
  <2> QED
    BY <1>0, <2>1, <2>2 DEF Sound, Leads, Same
<1>5. Watched(d)'
  BY <1>0 DEF Sound, Watched, Same, WatchKept
<1> QED
  BY <1>1, <1>2, <1>3, <1>4, <1>5 DEF Sound

\* Nodes that go make no node bigger than it was.
LEMMA RemovedGrow ==
  ASSUME NEW gone, NEW Closed, RemoveNodes(gone, Closed)
  PROVE  NodesGrow
BY DEF RemoveNodes, NodesGrow, Smaller

\* A handle that stays open keeps its watch, or has the event.
LEMMA RemovedKept ==
  ASSUME Inv, NEW gone, NEW Closed, RemoveNodes(gone, Closed), NEW d \in Candidates,
         d \notin Closed
  PROVE  WatchKept(d)
<1>1. zh[d] = "null" => watch[d] = 0
  BY DEF Inv, Sound, Handle
<1> QED
  BY <1>1, Removed DEF WatchKept, Inv

--------------------------------------------------------------------------------
(* The steps *)

\* The server ends a session or drops a node, and the client hears of it.
LEMMA ServerStepInv ==
  ASSUME Inv,
         \/ \E c \in Candidates : ExpireSession(c) \/ HearExpired(c)
         \/ \E n \in nodes : DropNode(n) \/ DeleteNode(n)
  PROVE  Inv'
<1>1. ASSUME NEW c \in Candidates, ExpireSession(c) PROVE Inv'
  <2>1. RemoveNodes({myself[c]}, {})
    BY <1>1 DEF ExpireSession
  <2>2. Types'
    BY ZenonT(60), <1>1, <2>1, Removed, NoNodeZero DEF ExpireSession, Inv, Types,
       TypeOK, threads
  <2>3. ASSUME NEW d \in Candidates PROVE Sound(d)'
    <3>1. Same(d)
      BY <1>1 DEF ExpireSession, Same, Inv, Types, TypeOK, threads
    <3> QED
      BY <2>1, <3>1, OthersSound, RemovedGrow, RemovedKept
  <2> QED
    BY <2>2, <2>3 DEF Inv
<1>2. ASSUME NEW c \in Candidates, HearExpired(c) PROVE Inv'
  <2>1. /\ events \in [Candidates -> Seq({"node", "myself", "expired"})]
        /\ events' = [events EXCEPT ![c] = Append(@, "expired")]
    BY <1>2 DEF HearExpired, Inv, Types
  <2>2. Types'
    <3>1. events' \in [Candidates -> Seq({"node", "myself", "expired"})]
      BY SMTT(60), <2>1
    <3> QED
      BY <1>2, <3>1 DEF HearExpired, Inv, Types, TypeOK, threads
  <2>3. ASSUME NEW d \in Candidates PROVE Sound(d)'
    <3>1. Same(d)
      BY <1>2 DEF HearExpired, Same, Inv, Types, TypeOK, threads
    <3>2. WatchKept(d)
      <4>1. CASE d = c
        <5>1. events'[d] = Append(events[d], "expired") /\ events'[d] # <<>>
          BY <2>1, <4>1
        <5>2. events[d] \in Seq({"expired"}) => events'[d] \in Seq({"expired"})
          BY <5>1
        <5> QED
          BY <1>2, <4>1, <5>1, <5>2 DEF HearExpired, WatchKept
      <4>2. CASE d # c
        BY <1>2, <2>1, <4>2 DEF HearExpired, WatchKept
      <4> QED
        BY <4>1, <4>2
    <3>3. NodesGrow
      BY <1>2 DEF HearExpired, NodesGrow, Smaller
    <3> QED
      BY <3>1, <3>2, <3>3, OthersSound
  <2> QED
    BY <2>2, <2>3 DEF Inv
<1>3. ASSUME NEW n \in nodes, DropNode(n) \/ DeleteNode(n) PROVE Inv'
  <2>1. RemoveNodes({n}, {}) /\ UNCHANGED <<client, threads, told, crashed>>
    BY <1>3 DEF DropNode, DeleteNode
  <2>2. Types'
    BY ZenonT(60), <2>1, Removed, NoNodeZero DEF Inv, Types, TypeOK, client, threads
  <2>3. ASSUME NEW d \in Candidates PROVE Sound(d)'
    <3>1. Same(d)
      BY <2>1 DEF Same, client, threads
    <3> QED
      BY <2>1, <3>1, OthersSound, RemovedGrow, RemovedKept
  <2> QED
    BY <2>2, <2>3 DEF Inv
<1> QED
  BY <1>1, <1>2, <1>3

\* The handle is closed and what belongs to it forgotten, in Reset or when the process
\* ends.
LEMMA ClosedInv ==
  ASSUME Inv, NEW c \in Candidates, NEW gone, RemoveNodes(gone, {c}),
         zh' = [zh EXCEPT ![c] = "null"],
         done' = [done EXCEPT ![c] = FALSE],
         on_expired' = [on_expired EXCEPT ![c] = FALSE],
         myself' = [myself EXCEPT ![c] = 0],
         NEW t \in {"nothing", "leader", "expired"}, told' = [told EXCEPT ![c] = t],
         pc' \in [Candidates -> [ThreadNames -> Places]],
         target' \in [Candidates -> [ThreadNames -> Nat]],
         \A d \in Candidates \ {c}, h \in ThreadNames :
           pc'[d][h] = pc[d][h] /\ target'[d][h] = target[d][h],
         pc'[c]["app"] # "connect",
         pc'[c]["app"] = "create" =>
           t # "leader" /\ pc'[c]["zk"] \in {"idle", "expire", "fail", "run_failed"}
  PROVE  Inv'
<1>0. /\ nodes' \subseteq nodes /\ last' = last /\ last \in Nat
      /\ watch' \in [Candidates -> 0..last']
      /\ events' \in [Candidates -> Seq({"node", "myself", "expired"})]
      /\ watch'[c] = 0 /\ events'[c] = <<>>
  BY Removed, NoNodeZero DEF Inv
<1>1. Types'
  BY <1>0 DEF Inv, Types, TypeOK
<1>2. Sound(c)'
  <2>1. /\ zh'[c] = "null" /\ ~done'[c] /\ ~on_expired'[c] /\ myself'[c] = 0
        /\ told'[c] = t
    BY DEF Inv, Types, TypeOK
  <2>2. Handle(c)' /\ Running(c)' /\ Watched(c)'
    BY <1>0, <2>1 DEF Handle, Running, Watched
  <2>3. Connecting(c)'
    <3>1. events'[c] \in Seq({"expired"})
      BY SMTT(60), <1>0
    <3> QED
      BY <1>0, <2>1, <3>1 DEF Connecting
  <2>4. Leads(c)'
    <3>1. Smaller(0)' = {}
      BY <1>1, <1>0, NoNodeZero DEF Inv, Smaller
    <3> QED
      BY <2>1, <3>1 DEF Leads, Smaller
  <2> QED
    BY <2>2, <2>3, <2>4 DEF Sound
<1>3. ASSUME NEW d \in Candidates, d # c PROVE Sound(d)'
  <2>1. Same(d)
    BY <1>3 DEF Same, Inv, Types, TypeOK
  <2> QED
    BY SMTT(60), <1>3, <2>1, OthersSound, RemovedGrow, RemovedKept
<1> QED
  BY <1>1, <1>2, <1>3 DEF Inv

\* Reset leaves the other threads where they are.
LEMMA ResetInv ==
  ASSUME Inv, NEW c \in Candidates, NEW h \in ThreadNames, Reset(c), Goto(c, h, "idle"),
         UNCHANGED target,
         NEW t \in {"nothing", "leader", "expired"}, told' = [told EXCEPT ![c] = t],
         h = "zk" => pc[c]["app"] # "connect" /\ (pc[c]["app"] = "create" => t # "leader")
  PROVE  Inv'
<1>1. PICK gone : RemoveNodes(gone, {c})
  BY DEF Reset
<1>2. /\ pc' \in [Candidates -> [ThreadNames -> Places]]
      /\ pc'[c][h] = "idle"
      /\ \A d \in Candidates, g \in ThreadNames : d # c \/ g # h => pc'[d][g] = pc[d][g]
  BY GotoMoves DEF Inv, Places
<1>3. target' \in [Candidates -> [ThreadNames -> Nat]]
  BY DEF Inv, Types
<1>4. h = "app" \/ h = "zk"
  BY DEF ThreadNames
<1>5. pc'[c]["app"] # "connect"
  BY <1>2, <1>4 DEF ThreadNames
<1>6. pc'[c]["app"] = "create" =>
        t # "leader" /\ pc'[c]["zk"] \in {"idle", "expire", "fail", "run_failed"}
  BY <1>2, <1>4 DEF ThreadNames
<1>7. \A d \in Candidates \ {c}, g \in ThreadNames :
        pc'[d][g] = pc[d][g] /\ target'[d][g] = target[d][g]
  BY <1>2
<1> QED
  BY <1>1, <1>2, <1>3, <1>5, <1>6, <1>7, ClosedInv DEF Reset

\* A CHECK that fails ends the process.
LEMMA CrashInv ==
  ASSUME Inv, NEW c \in Candidates, Crash(c)
  PROVE  Inv'
<1>1. /\ pc' = [pc EXCEPT ![c] = [h \in ThreadNames |-> "idle"]]
      /\ target' = [target EXCEPT ![c] = [h \in ThreadNames |-> 0]]
      /\ pc \in [Candidates -> [ThreadNames -> Places]]
      /\ target \in [Candidates -> [ThreadNames -> Nat]]
  BY DEF Crash, Inv, Types
<1>2. [h \in ThreadNames |-> "idle"] \in [ThreadNames -> Places]
  BY DEF Places
<1>3. [h \in ThreadNames |-> 0] \in [ThreadNames -> Nat]
  OBVIOUS
<1>4. pc' \in [Candidates -> [ThreadNames -> Places]]
  BY <1>1, <1>2
<1>5. target' \in [Candidates -> [ThreadNames -> Nat]]
  BY <1>1, <1>3
<1>6. pc'[c]["app"] = "idle"
  BY <1>1 DEF ThreadNames
<1>7. \A d \in Candidates \ {c}, h \in ThreadNames :
        pc'[d][h] = pc[d][h] /\ target'[d][h] = target[d][h]
  BY <1>1
<1> QED
  BY <1>4, <1>5, <1>6, <1>7, ClosedInv DEF Crash

\* Calls that fail, the loss of the session that the application is told of, and the
\* end of the leader's object: everything is given up.
LEMMA GivesUpInv ==
  ASSUME Inv, NEW c \in Candidates,
         \/ ConnectFails(c) \/ Destroy(c) \/ CallExpiredSessionRun(c)
         \/ \E h \in ThreadNames : RunDone(c, h) /\ pc[c][h] = "run_failed"
  PROVE  Inv'
<1>0. /\ told \in [Candidates -> {"nothing", "leader", "expired"}]
      /\ Connecting(c)
  BY DEF Inv, Types, TypeOK, Sound
<1>a. told' = told => told' = [told EXCEPT ![c] = told[c]]
  BY <1>0
<1>b. told[c] \in {"nothing", "leader", "expired"}
  BY <1>0
<1>1. ASSUME ConnectFails(c) PROVE Inv'
  <2>1. Reset(c) /\ Goto(c, "app", "idle") /\ UNCHANGED <<target, told>>
    BY <1>1 DEF ConnectFails
  <2> QED
    BY <1>a, <1>b, <2>1, ResetInv DEF ThreadNames
<1>2. ASSUME Destroy(c) PROVE Inv'
  <2>1. Reset(c) /\ UNCHANGED threads /\ told' = [told EXCEPT ![c] = "nothing"]
    BY <1>2 DEF Destroy
  <2>2. pc[c]["app"] = "idle" /\ pc[c]["zk"] = "idle"
    BY <1>2 DEF Destroy, ThreadNames
  <2>3. Goto(c, "app", "idle")
    BY <2>1, <2>2 DEF Goto, threads, Inv, Types, ThreadNames
  <2> QED
    BY <2>1, <2>3, ResetInv DEF ThreadNames, threads
<1>3. ASSUME CallExpiredSessionRun(c) PROVE Inv'
  <2>1. CASE Crash(c)
    BY <2>1, CrashInv
  <2>2. CASE ~Crash(c)
    <3>1. /\ Reset(c) /\ Goto(c, "zk", "idle") /\ UNCHANGED target
          /\ told' = [told EXCEPT ![c] = "expired"] /\ on_expired[c]
      BY <1>3, <2>2 DEF CallExpiredSessionRun
    <3>2. pc[c]["app"] # "connect"
      BY <1>0, <3>1 DEF Connecting
    <3> QED
      BY <3>1, <3>2, ResetInv DEF ThreadNames
  <2> QED
    BY <2>1, <2>2
<1>4. ASSUME NEW h \in ThreadNames, RunDone(c, h), pc[c][h] = "run_failed" PROVE Inv'
  <2>1. Reset(c) /\ Goto(c, h, "idle") /\ UNCHANGED <<target, told>>
    BY <1>4 DEF RunDone
  <2>2. h = "zk" =>
          pc[c]["app"] # "connect" /\ (pc[c]["app"] = "create" => told[c] # "leader")
    BY <1>0, <1>4 DEF Connecting
  <2> QED
    BY <1>a, <1>b, <2>1, <2>2, ResetInv
<1> QED
  BY <1>1, <1>2, <1>3, <1>4

\* Steps in which ZooKeeper has no part.
LEMMA ServerUnchanged ==
  ASSUME UNCHANGED server
  PROVE  NodesGrow /\ \A d \in Candidates : WatchKept(d)
BY DEF server, NodesGrow, Smaller, WatchKept

\* Proposals gets its handle when no thread of the last election is left.
LEMMA ConnectInv ==
  ASSUME Inv, NEW c \in Candidates, Connect(c)
  PROVE  Inv'
<1>0. /\ pc' \in [Candidates -> [ThreadNames -> Places]]
      /\ pc'[c]["app"] = "connect"
      /\ \A d \in Candidates, g \in ThreadNames : d # c \/ g # "app" => pc'[d][g] = pc[d][g]
  BY GotoMoves DEF Connect, Inv, Places, ThreadNames
<1>1. Types'
  BY <1>0 DEF Connect, Inv, Types, TypeOK, server
<1>2. Sound(c)'
  <2>1. /\ zh'[c] = "live" /\ told'[c] = "nothing" /\ pc'[c]["zk"] = "idle"
        /\ UNCHANGED <<watch, events, done, on_expired>>
    BY <1>0 DEF Connect, Inv, Types, TypeOK, server, ThreadNames
  <2>2. watch[c] = 0 /\ events[c] = <<>> /\ ~done[c] /\ ~on_expired[c]
    BY DEF Connect, Inv, Sound, Handle
  <2>3. Handle(c)' /\ Running(c)' /\ Watched(c)'
    BY <1>0, <2>1, <2>2 DEF Handle, Running, Watched
  <2>4. Connecting(c)'
    <3>1. events'[c] \in Seq({"expired"})
      BY <2>1, <2>2
    <3> QED
      BY <1>0, <2>1, <2>2, <3>1 DEF Connecting
  <2>5. Leads(c)'
    BY <1>0, <2>1 DEF Leads, Winning, ThreadNames
  <2> QED
    BY <2>3, <2>4, <2>5 DEF Sound
<1>3. ASSUME NEW d \in Candidates, d # c PROVE Sound(d)'
  <2>1. Same(d)
    BY <1>0, <1>3 DEF Connect, Same, Inv, Types, TypeOK
  <2> QED
    BY <2>1, OthersSound, ServerUnchanged DEF Connect
<1> QED
  BY <1>1, <1>2, <1>3 DEF Inv

\* done_ is set while no thread runs it.
LEMMA PrepareContextInv ==
  ASSUME Inv, NEW c \in Candidates, PrepareContext(c)
  PROVE  Inv'
<1>0. /\ pc' \in [Candidates -> [ThreadNames -> Places]]
      /\ pc'[c]["app"] = "create"
      /\ \A d \in Candidates, g \in ThreadNames : d # c \/ g # "app" => pc'[d][g] = pc[d][g]
  BY GotoMoves DEF PrepareContext, Inv, Places, ThreadNames
<1>1. Types'
  BY <1>0 DEF PrepareContext, Inv, Types, TypeOK, server
<1>2. Sound(c)'
  <2>1. Connecting(c) /\ pc[c]["app"] = "connect"
    BY DEF PrepareContext, Inv, Sound
  <2>2. UNCHANGED <<watch, events, zh, told>> /\ pc'[c]["zk"] = pc[c]["zk"]
    BY <1>0 DEF PrepareContext, server, ThreadNames
  <2>3. Handle(c)' /\ Watched(c)' /\ Connecting(c)'
    BY <1>0, <2>1, <2>2 DEF Handle, Watched, Connecting
  <2>4. Running(c)' /\ Leads(c)'
    BY <1>0, <2>1, <2>2 DEF Running, Leads, Winning, Connecting, ThreadNames
  <2> QED
    BY <2>3, <2>4 DEF Sound
<1>3. ASSUME NEW d \in Candidates, d # c PROVE Sound(d)'
  <2>1. Same(d)
    BY <1>0, <1>3 DEF PrepareContext, Same, Inv, Types, TypeOK
  <2> QED
    BY <2>1, OthersSound, ServerUnchanged DEF PrepareContext
<1> QED
  BY <1>1, <1>2, <1>3 DEF Inv

\* The node that zoo_create makes is the last of all.
LEMMA CallProposalsInv ==
  ASSUME Inv, NEW c \in Candidates, CallProposals(c)
  PROVE  Inv'
<1>0. PICK place \in {"check", "fail"} : Goto(c, "app", place)
  BY DEF CallProposals
<1>1. /\ pc' \in [Candidates -> [ThreadNames -> Places]]
      /\ pc'[c]["app"] = place
      /\ \A d \in Candidates, g \in ThreadNames : d # c \/ g # "app" => pc'[d][g] = pc[d][g]
  BY <1>0, GotoMoves DEF Inv, Places, ThreadNames
<1>2. /\ last \in Nat /\ nodes \subseteq 1..last /\ last <= MaxNode
      /\ watch \in [Candidates -> 0..last] /\ myself \in [Candidates -> 0..last]
  BY SMTT(60), NoNodeZero, MaxNodeAssumption DEF Inv, Types, TypeOK
<1>3. \/ UNCHANGED <<nodes, last, myself>>
      \/ /\ zh[c] = "live" /\ last < MaxNode /\ last' = last + 1
         /\ nodes' = nodes \cup {last + 1}
         /\ myself' = myself \/ myself' = [myself EXCEPT ![c] = last + 1]
  BY DEF CallProposals
<1>4. /\ nodes' \subseteq 1..last' /\ last' \in 0..MaxNode /\ nodes \subseteq nodes'
      /\ watch \in [Candidates -> 0..last'] /\ myself' \in [Candidates -> 0..last']
  <2>1. last' \in {last, last + 1} /\ last' \in 0..MaxNode
    BY SMTT(60), <1>2, <1>3, MaxNodeAssumption
  <2>2. nodes' \subseteq 1..last' /\ nodes \subseteq nodes'
    <3>1. (\A n \in 1..last : n \in 1..last') /\ (last' = last + 1 => last + 1 \in 1..last')
      BY <1>2, <2>1
    <3>2. nodes' = nodes \/ (nodes' = nodes \cup {last + 1} /\ last' = last + 1)
      BY <1>3
    <3> QED
      BY <1>2, <3>1, <3>2
  <2>3. \A n \in 0..last : n \in 0..last'
    BY <1>2, <2>1
  <2>4. watch \in [Candidates -> 0..last']
    BY <1>2, <2>3
  <2>5. myself' \in [Candidates -> 0..last']
    BY SMTT(60), <1>2, <1>3, <2>3
  <2> QED
    BY <2>1, <2>2, <2>4, <2>5
<1>5. UNCHANGED <<watch, events, zh, done, on_expired, target, told, crashed>>
  BY DEF CallProposals
<1>6. Types'
  BY <1>1, <1>4, <1>5 DEF Inv, Types, TypeOK
<1>7. NodesGrow
  BY SMTT(60), <1>2, <1>3 DEF NodesGrow, Smaller
<1>8. Sound(c)'
  <2>1. Connecting(c) /\ pc[c]["app"] = "create" /\ Handle(c) /\ Running(c)
    BY DEF CallProposals, Inv, Sound
  <2>2. Handle(c)' /\ Watched(c)' /\ Connecting(c)'
    BY <1>1, <1>3, <1>5, <2>1 DEF Handle, Watched, Connecting
  <2>3. Running(c)' /\ Leads(c)'
    <3>1. \A h \in ThreadNames : pc'[c][h] \notin {"win", "run_ok", "watch"}
      BY <1>0, <1>1, <2>1 DEF Connecting, ThreadNames
    <3>2. \A h \in ThreadNames : pc'[c][h] = "run_failed" => pc[c][h] = "run_failed"
      BY <1>0, <1>1 DEF ThreadNames
    <3> QED
      BY <1>5, <2>1, <3>1, <3>2 DEF Running, Leads, Winning, Connecting
  <2> QED
    BY <2>2, <2>3 DEF Sound
<1>9. ASSUME NEW d \in Candidates, d # c PROVE Sound(d)'
  <2>1. Same(d)
    BY <1>1, <1>2, <1>3, <1>5, <1>9 DEF Same
  <2>2. WatchKept(d)
    BY <1>4, <1>5 DEF WatchKept
  <2> QED
    BY <1>7, <2>1, <2>2, OthersSound
<1> QED
  BY <1>6, <1>8, <1>9 DEF Inv

\* A thread in CheckLeader: no other is in Proposals before it.
LEMMA CheckSound ==
  ASSUME Inv, NEW c \in Candidates, NEW h \in ThreadNames, pc[c][h] \in {"check", "watch"},
         UNCHANGED <<client, told>>, NodesGrow,
         NEW place \in {"check", "watch", "win", "fail", "idle"}, Goto(c, h, place),
         \A g \in ThreadNames : g # h => target'[c][g] = target[c][g],
         zh[c] = "null" => watch'[c] = 0 /\ events'[c] = <<>>,
         place = "idle" => watch'[c] \in nodes',
         Winning(c, h)' => Smaller(myself[c])' = {}
  PROVE  Sound(c)'
<1>0. pc'[c][h] = place /\ \A g \in ThreadNames : g # h => pc'[c][g] = pc[c][g]
  BY SMTT(60), GotoMoves DEF Inv, Places
<1>1. /\ Handle(c) /\ Connecting(c) /\ Running(c) /\ Leads(c)
      /\ myself[c] \in 0..last
  BY DEF Inv, Sound, Types, TypeOK
<1>2. pc'[c]["app"] \notin {"connect", "create"}
  BY <1>0, <1>1 DEF Connecting, ThreadNames
<1>3. Handle(c)' /\ Connecting(c)'
  BY <1>1, <1>2 DEF Handle, Connecting, client
<1>4. Running(c)'
  BY <1>0, <1>1 DEF Running, client
<1>5. Leads(c)'
  <2>1. Smaller(myself[c]) = {} => Smaller(myself[c])' = {}
    BY <1>1 DEF NodesGrow, Smaller, client
  <2>2. \A g \in ThreadNames : g # h => (Winning(c, g)' <=> Winning(c, g))
    BY <1>0 DEF Winning, client
  <2> QED
    BY <1>1, <2>1, <2>2 DEF Leads
<1>6. Watched(c)'
  <2>1. place # "idle" => pc'[c]["app"] # "idle" \/ pc'[c]["zk"] # "idle"
    BY <1>0 DEF ThreadNames
  <2> QED
    BY <2>1 DEF Watched
<1> QED
  BY <1>3, <1>4, <1>5, <1>6 DEF Sound

\* target is assigned for one thread.
LEMMA TargetMoves ==
  ASSUME Types, NEW c \in Candidates, NEW h \in ThreadNames, NEW n \in Nat,
         target' = [target EXCEPT ![c][h] = n]
  PROVE  /\ target' \in [Candidates -> [ThreadNames -> Nat]]
         /\ target'[c][h] = n
         /\ \A d \in Candidates, g \in ThreadNames :
              d # c \/ g # h => target'[d][g] = target[d][g]
<1>1. /\ target \in [Candidates -> [ThreadNames -> Nat]]
      /\ target' = [target EXCEPT ![c] = [target[c] EXCEPT ![h] = n]]
  BY DEF Types
<1> DEFINE row == [target[c] EXCEPT ![h] = n]
<1>2. /\ row \in [ThreadNames -> Nat] /\ row[h] = n
      /\ \A g \in ThreadNames : g # h => row[g] = target[c][g]
  BY <1>1
<1>3. target' = [target EXCEPT ![c] = row]
  BY <1>1
<1> HIDE DEF row
<1> QED
  BY <1>1, <1>2, <1>3

\* The node to watch is one's own only if none is before it.
LEMMA WatchTargetIs ==
  ASSUME Types, NEW n \in 0..last
  PROVE  WatchTarget(n) \in Nat /\ (WatchTarget(n) = n => Smaller(n) = {})
<1>1. n \in Nat /\ Smaller(n) \in SUBSET Nat /\ \A m \in Smaller(n) : m < n
  BY NoNodeZero DEF Smaller
<1>2. CASE Smaller(n) = {}
  BY <1>1, <1>2 DEF WatchTarget
<1>3. CASE Smaller(n) # {}
  <2>1. Biggest(Smaller(n)) \in Smaller(n)
    BY <1>1, <1>3, BiggestIsThere
  <2>2. Biggest(Smaller(n)) \in Nat /\ Biggest(Smaller(n)) # n
    BY <1>1, <2>1
  <2> QED
    BY <1>3, <2>2 DEF WatchTarget
<1> QED
  BY <1>2, <1>3

\* zoo_get_children: what the thread is to watch, or the failure.
LEMMA GetChildrenInv ==
  ASSUME Inv, NEW c \in Candidates, NEW h \in ThreadNames, GetChildren(c, h)
  PROVE  Inv'
<1>0. Types /\ myself[c] \in 0..last /\ UNCHANGED <<client, told, crashed>>
  BY DEF Inv, Types, TypeOK, GetChildren
<1>1. ASSUME myself[c] \in nodes, UNCHANGED server, Goto(c, h, "watch"),
             target' = [target EXCEPT ![c][h] = WatchTarget(myself[c])]
      PROVE  Inv'
  <2>1. /\ target' \in [Candidates -> [ThreadNames -> Nat]]
        /\ target'[c][h] = WatchTarget(myself[c])
        /\ \A d \in Candidates, g \in ThreadNames :
             d # c \/ g # h => target'[d][g] = target[d][g]
    <3>1. WatchTarget(myself[c]) \in Nat
      BY <1>0, WatchTargetIs
    <3> QED
      BY ZenonT(60), <1>0, <1>1, <3>1, TargetMoves
  <2>2. /\ pc' \in [Candidates -> [ThreadNames -> Places]]
        /\ pc'[c][h] = "watch"
        /\ \A d \in Candidates, g \in ThreadNames : d # c \/ g # h => pc'[d][g] = pc[d][g]
    BY <1>0, <1>1, GotoMoves DEF Places
  <2>3. Types'
    BY <1>0, <1>1, <2>1, <2>2 DEF Types, TypeOK, server, client
  <2>4. Sound(c)'
    <3>1. Winning(c, h)' => Smaller(myself[c])' = {}
      BY <1>0, <1>1, <2>1, <2>2, WatchTargetIs DEF Winning, Smaller, client, server
    <3>2. zh[c] = "null" => watch'[c] = 0 /\ events'[c] = <<>>
      BY <1>1 DEF Inv, Sound, Handle, server
    <3>3. pc[c][h] \in {"check", "watch"}
      BY DEF GetChildren
    <3> QED
      BY <1>0, <1>1, <2>1, <3>1, <3>2, <3>3, CheckSound, ServerUnchanged
  <2>5. ASSUME NEW d \in Candidates, d # c PROVE Sound(d)'
    <3>1. Same(d)
      BY <1>0, <2>1, <2>2, <2>5 DEF Same, client
    <3> QED
      BY <1>1, <3>1, OthersSound, ServerUnchanged
  <2> QED
    BY <2>3, <2>4, <2>5 DEF Inv
<1>2. ASSUME NEW gone, RemoveNodes(gone, {}) \/ UNCHANGED server, Goto(c, h, "fail"),
             UNCHANGED target
      PROVE  Inv'
  <2>1. /\ pc' \in [Candidates -> [ThreadNames -> Places]]
        /\ pc'[c][h] = "fail"
        /\ \A d \in Candidates, g \in ThreadNames : d # c \/ g # h => pc'[d][g] = pc[d][g]
    BY <1>0, <1>2, GotoMoves DEF Places
  <2>2. NodesGrow /\ \A d \in Candidates : WatchKept(d)
    BY <1>2, ServerUnchanged, RemovedGrow, RemovedKept
  <2>3. Types'
    <3>1. CASE RemoveNodes(gone, {})
      BY <1>0, <1>2, <2>1, <3>1, Removed DEF Types, TypeOK, client
    <3>2. CASE UNCHANGED server
      BY <1>0, <1>2, <2>1, <3>2 DEF Types, TypeOK, client, server
    <3> QED
      BY <1>2, <3>1, <3>2
  <2>4. Sound(c)'
    <3>1. ~Winning(c, h)'
      BY <2>1 DEF Winning
    <3>2. zh[c] = "null" => watch'[c] = 0 /\ events'[c] = <<>>
      BY <2>2 DEF Inv, Sound, Handle, WatchKept
    <3>3. pc[c][h] \in {"check", "watch"}
      BY DEF GetChildren
    <3> QED
      BY <1>0, <1>2, <2>2, <3>1, <3>2, <3>3, CheckSound
  <2>5. ASSUME NEW d \in Candidates, d # c PROVE Sound(d)'
    <3>1. Same(d)
      BY <1>0, <1>2, <2>1, <2>5 DEF Same, client
    <3> QED
      BY <2>2, <3>1, OthersSound
  <2> QED
    BY <2>3, <2>4, <2>5 DEF Inv
<1> QED
  BY <1>1, <1>2 DEF GetChildren, ZooDelete

\* zoo_wexists: the watch is set on a node that is there.
LEMMA WatchNodeInv ==
  ASSUME Inv, NEW c \in Candidates, NEW h \in ThreadNames, WatchNode(c, h)
  PROVE  Inv'
<1> DEFINE n == target[c][h]
<1>0. /\ Types /\ UNCHANGED <<client, told, crashed>> /\ pc[c][h] = "watch"
      /\ target' = [target EXCEPT ![c][h] = 0]
      /\ Handle(c) /\ Leads(c) /\ myself[c] \in 0..last /\ last \in Nat
  BY NoNodeZero DEF Inv, Types, TypeOK, WatchNode, Sound
<1>1. /\ target' \in [Candidates -> [ThreadNames -> Nat]]
      /\ target'[c][h] = 0
      /\ \A d \in Candidates, g \in ThreadNames :
           d # c \/ g # h => target'[d][g] = target[d][g]
  BY ZenonT(60), <1>0, TargetMoves
<1>2. ASSUME NEW place \in {"win", "idle", "check", "fail"}, Goto(c, h, place),
             NodesGrow, \A d \in Candidates : d # c => WatchKept(d),
             TypeOK', events' \in [Candidates -> Seq({"node", "myself", "expired"})],
             zh[c] = "null" => watch'[c] = 0 /\ events'[c] = <<>>,
             place = "win" => n = myself[c], place = "idle" => watch'[c] \in nodes'
      PROVE  Inv'
  <2>1. /\ pc' \in [Candidates -> [ThreadNames -> Places]]
        /\ pc'[c][h] = place
        /\ \A d \in Candidates, g \in ThreadNames : d # c \/ g # h => pc'[d][g] = pc[d][g]
    BY SMTT(60), <1>0, <1>2, GotoMoves DEF Places
  <2>2. Types'
    BY <1>1, <1>2, <2>1 DEF Types
  <2>3. Sound(c)'
    <3>1. Winning(c, h)' => Smaller(myself[c])' = {}
      <4>1. Winning(c, h)' => Winning(c, h)
        BY <1>0, <1>2, <2>1 DEF Winning
      <4>2. Smaller(myself[c]) = {} => Smaller(myself[c])' = {}
        BY <1>0, <1>2 DEF NodesGrow, Smaller, client
      <4> QED
        BY <1>0, <4>1, <4>2 DEF Leads
    <3> QED
      BY SMTT(60), <1>0, <1>1, <1>2, <3>1, CheckSound
  <2>4. ASSUME NEW d \in Candidates, d # c PROVE Sound(d)'
    <3>1. Same(d)
      BY SMTT(60), <1>0, <1>1, <2>1, <2>4 DEF Same, client
    <3> QED
      BY <1>2, <2>4, <3>1, OthersSound
  <2> QED
    BY <2>2, <2>3, <2>4 DEF Inv
<1>3. ASSUME zh[c] = "live", n \in nodes, watch' = [watch EXCEPT ![c] = n],
             UNCHANGED <<nodes, last, events>>,
             Goto(c, h, IF n = myself[c] THEN "win" ELSE "idle")
      PROVE  Inv'
  <2>1. NodesGrow /\ \A d \in Candidates : d # c => WatchKept(d)
    BY <1>0, <1>3 DEF NodesGrow, Smaller, WatchKept, Types, TypeOK
  <2>2. watch'[c] = n /\ watch' \in [Candidates -> 0..last']
    BY SMTT(60), <1>0, <1>3 DEF Types, TypeOK
  <2>3. TypeOK' /\ events' \in [Candidates -> Seq({"node", "myself", "expired"})]
    BY <1>0, <1>3, <2>2 DEF Types, TypeOK, client
  <2> QED
    BY <1>2, <1>3, <2>1, <2>2, <2>3
<1>4. ASSUME UNCHANGED server, Goto(c, h, "check") PROVE Inv'
  <2>1. TypeOK' /\ events' \in [Candidates -> Seq({"node", "myself", "expired"})]
    BY <1>0, <1>4 DEF Types, TypeOK, client, server
  <2>2. zh[c] = "null" => watch'[c] = 0 /\ events'[c] = <<>>
    BY <1>0, <1>4 DEF Handle, server
  <2> QED
    BY <1>2, <1>4, <2>1, <2>2, ServerUnchanged
<1>5. ASSUME NEW gone, RemoveNodes(gone, {}), Goto(c, h, "fail") PROVE Inv'
  <2>1. NodesGrow /\ \A d \in Candidates : WatchKept(d)
    BY <1>5, RemovedGrow, RemovedKept
  <2>2. TypeOK' /\ events' \in [Candidates -> Seq({"node", "myself", "expired"})]
    BY <1>0, <1>5, Removed DEF Types, TypeOK, client
  <2>3. zh[c] = "null" => watch'[c] = 0 /\ events'[c] = <<>>
    BY <1>0, <2>1 DEF Handle, WatchKept
  <2> QED
    BY <1>2, <1>5, <2>1, <2>2, <2>3
<1> QED
  BY <1>3, <1>4, <1>5 DEF WatchNode, ZooDelete

\* CallDoneRun takes done_ for its thread, RunDone tells the application.
LEMMA DoneInv ==
  ASSUME Inv, NEW c \in Candidates, NEW h \in ThreadNames,
         CallDoneRun(c, h) \/ (RunDone(c, h) /\ pc[c][h] = "run_ok")
  PROVE  Inv'
<1>0. /\ Types /\ Handle(c) /\ Connecting(c) /\ Running(c) /\ Leads(c)
      /\ pc[c]["app"] \in Places /\ pc[c]["zk"] \in Places
  BY DEF Inv, Sound, Types, ThreadNames
<1>1. ASSUME CallDoneRun(c, h), done[c] PROVE Inv'
  <2> DEFINE place == IF pc[c][h] = "win" THEN "run_ok" ELSE "run_failed"
  <2>1. /\ pc[c][h] \in {"win", "fail"} /\ done' = [done EXCEPT ![c] = FALSE]
        /\ Goto(c, h, place) /\ place \in Places
        /\ UNCHANGED <<server, zh, myself, on_expired, target, told, crashed>>
    BY <1>1 DEF CallDoneRun, Places
  <2>2. /\ pc' \in [Candidates -> [ThreadNames -> Places]]
        /\ pc'[c][h] = place
        /\ \A d \in Candidates, g \in ThreadNames : d # c \/ g # h => pc'[d][g] = pc[d][g]
    BY SMTT(60), <1>0, <2>1, GotoMoves
  <2>3. Types'
    BY <1>0, <2>1, <2>2 DEF Types, TypeOK, server
  <2>4. ~done'[c]
    BY <1>0, <2>1 DEF Types, TypeOK
  <2>5. Handle(c)' /\ Running(c)' /\ Watched(c)'
    BY <1>0, <2>1, <2>4 DEF Handle, Running, Watched, server
  <2>6. Connecting(c)'
    <3>1. CASE h = "app"
      BY <2>2, <3>1 DEF Connecting
    <3>2. CASE h = "zk"
      BY <1>0, <2>1, <2>2, <3>2 DEF Connecting, ThreadNames, server
    <3> QED
      BY <3>1, <3>2 DEF ThreadNames
  <2>7. Leads(c)'
    <3>1. \A g \in ThreadNames : Winning(c, g)' => Winning(c, g)
      BY <2>1, <2>2 DEF Winning
    <3>2. Smaller(myself[c])' = Smaller(myself[c])
      BY <2>1 DEF Smaller, server
    <3> QED
      BY <1>0, <2>1, <3>1, <3>2 DEF Leads
  <2>8. ASSUME NEW d \in Candidates, d # c PROVE Sound(d)'
    <3>1. Same(d)
      BY <1>0, <2>1, <2>2, <2>8 DEF Same, Types, TypeOK
    <3> QED
      BY <2>1, <3>1, OthersSound, ServerUnchanged
  <2> QED
    BY <2>3, <2>5, <2>6, <2>7, <2>8 DEF Inv, Sound
<1>2. ASSUME CallDoneRun(c, h), ~done[c] PROVE Inv'
  BY <1>2, CrashInv DEF CallDoneRun
<1>3. ASSUME RunDone(c, h), pc[c][h] = "run_ok" PROVE Inv'
  <2>1. /\ Goto(c, h, "idle") /\ told' = [told EXCEPT ![c] = "leader"]
        /\ UNCHANGED <<server, client, target, crashed>>
    BY <1>3 DEF RunDone
  <2>2. /\ pc' \in [Candidates -> [ThreadNames -> Places]]
        /\ pc'[c][h] = "idle"
        /\ \A d \in Candidates, g \in ThreadNames : d # c \/ g # h => pc'[d][g] = pc[d][g]
    BY <1>0, <2>1, GotoMoves DEF Places
  <2>3. Types'
    BY <1>0, <2>1, <2>2 DEF Types, TypeOK, server, client
  <2>4. ~done[c] /\ pc[c]["app"] \notin {"connect", "create"}
    BY <1>0, <1>3 DEF Running, Connecting, ThreadNames
  <2>5. Handle(c)' /\ Running(c)' /\ Watched(c)'
    BY <1>0, <2>1, <2>4 DEF Handle, Running, Watched, server, client
  <2>6. Connecting(c)'
    BY <2>2, <2>4 DEF Connecting, ThreadNames
  <2>7. Leads(c)'
    <3>1. Smaller(myself[c]) = {}
      BY <1>0, <1>3 DEF Leads, Winning
    <3> QED
      BY <2>1, <3>1 DEF Leads, Smaller, server, client
  <2>8. ASSUME NEW d \in Candidates, d # c PROVE Sound(d)'
    <3>1. Same(d)
      BY <1>0, <2>1, <2>2, <2>8 DEF Same, Types, TypeOK, client
    <3> QED
      BY <2>1, <3>1, OthersSound, ServerUnchanged
  <2> QED
    BY <2>3, <2>5, <2>6, <2>7, <2>8 DEF Inv, Sound
<1> QED
  BY <1>1, <1>2, <1>3

\* The watchers: before Proposals has a node the session can only be lost.
LEMMA CallWatcherInv ==
  ASSUME Inv, NEW c \in Candidates, CallWatcher(c)
  PROVE  Inv'
<1>0. /\ Types /\ Handle(c) /\ Connecting(c) /\ Running(c) /\ Leads(c)
      /\ events[c] \in Seq({"node", "myself", "expired"}) /\ events[c] # <<>>
  BY DEF Inv, Sound, Types, CallWatcher
<1> DEFINE e == Head(events[c])
           place == CASE e = "node" -> "check"
                      [] e = "myself" -> "expire"
                      [] e = "expired" -> IF done[c] THEN "fail" ELSE "expire"
<1>1. e \in {"node", "myself", "expired"}
      /\ Tail(events[c]) \in Seq({"node", "myself", "expired"})
  BY <1>0
<1>2. place \in {"check", "expire", "fail"} /\ (e = "expired" => place # "check")
      /\ (~done[c] /\ e = "expired" => place = "expire")
  BY <1>1
<1>3. /\ Goto(c, "zk", place) /\ pc[c]["zk"] = "idle"
      /\ events' = [events EXCEPT ![c] = Tail(@)]
      /\ UNCHANGED <<nodes, last, watch, client, target, told, crashed>>
  BY DEF CallWatcher
<1> HIDE DEF place
<1>4. /\ pc' \in [Candidates -> [ThreadNames -> Places]]
      /\ pc'[c]["zk"] = place /\ pc'[c]["app"] = pc[c]["app"]
      /\ \A d \in Candidates, g \in ThreadNames : d # c => pc'[d][g] = pc[d][g]
  <2>1. place \in Places
    BY <1>2 DEF Places
  <2> QED
    BY SMTT(60), <1>0, <1>3, <2>1, GotoMoves DEF ThreadNames
<1>5. Types'
  BY <1>0, <1>1, <1>3, <1>4 DEF Types, TypeOK, client
<1>6. events'[c] = Tail(events[c]) /\ \A d \in Candidates : d # c => events'[d] = events[d]
  BY <1>0, <1>3 DEF Types
<1>7. Handle(c)' /\ Running(c)' /\ Watched(c)'
  BY <1>0, <1>2, <1>3, <1>4 DEF Handle, Running, Watched, client, ThreadNames
<1>8. Connecting(c)'
  <2>1. events[c] \in Seq({"expired"}) =>
          e = "expired" /\ Tail(events[c]) \in Seq({"expired"})
    BY <1>0
  <2> QED
    BY <1>0, <1>2, <1>3, <1>4, <1>6, <2>1 DEF Connecting, client
<1>9. Leads(c)'
  <2>1. \A g \in ThreadNames : Winning(c, g)' => Winning(c, g)
    BY <1>2, <1>3, <1>4 DEF Winning, client, ThreadNames
  <2> QED
    BY <1>0, <1>3, <2>1 DEF Leads, Smaller, client
<1>10. ASSUME NEW d \in Candidates, d # c PROVE Sound(d)'
  <2>1. Same(d)
    BY <1>3, <1>4, <1>10 DEF Same, client
  <2>2. NodesGrow /\ WatchKept(d)
    BY <1>3, <1>6, <1>10 DEF NodesGrow, Smaller, WatchKept
  <2> QED
    BY <2>1, <2>2, OthersSound
<1> QED
  BY <1>5, <1>7, <1>8, <1>9, <1>10 DEF Inv, Sound

--------------------------------------------------------------------------------
(* The theorem *)

\* There is no election at the start.
LEMMA InitInv == Init => Inv
<1> SUFFICES ASSUME Init PROVE Inv
  OBVIOUS
<1>1. Types
  BY MaxNodeAssumption DEF Init, Types, TypeOK, Places
<1>2. ASSUME NEW c \in Candidates PROVE Sound(c)
  BY DEF Init, Sound, Handle, Connecting, Running, Leads, Winning, Watched, ThreadNames
<1> QED
  BY <1>1, <1>2 DEF Inv

\* Every step keeps the invariant.
LEMMA NextInv == Inv /\ [Next]_vars => Inv'
<1> SUFFICES ASSUME Inv, [Next]_vars PROVE Inv'
  OBVIOUS
<1>1. CASE UNCHANGED vars
  <2>1. Types'
    BY <1>1 DEF vars, server, client, threads, Inv, Types, TypeOK
  <2>2. ASSUME NEW d \in Candidates PROVE Sound(d)'
    BY <1>1, OthersSound, ServerUnchanged DEF Same, vars, client, threads
  <2> QED
    BY <2>1, <2>2 DEF Inv
<1>2. ASSUME NEW c \in Candidates, Elect(c) PROVE Inv'
  <2>1. ASSUME NEW h \in ThreadNames, Thread(c, h) PROVE Inv'
    <3>1. RunDone(c, h) => pc[c][h] = "run_ok" \/ pc[c][h] = "run_failed"
      BY DEF RunDone
    <3> QED
      BY <2>1, <3>1, GetChildrenInv, WatchNodeInv, DoneInv, GivesUpInv DEF Thread
  <2> QED
    BY <1>2, <2>1, PrepareContextInv, CallProposalsInv, GivesUpInv, CallWatcherInv DEF Elect
<1>3. ASSUME NEW c \in Candidates, Connect(c) \/ Destroy(c) PROVE Inv'
  BY <1>3, ConnectInv, GivesUpInv
<1> QED
  BY <1>1, <1>2, <1>3, ServerStepInv DEF Next

\* Each node is that of one candidate.
OwnNodes ==
  \A c, d \in Candidates : c # d /\ myself[c] # 0 => myself[d] # myself[c]

\* zoo_create gives a number that nobody has had, and otherwise numbers are only forgotten.
LEMMA NextOwnNodes == Inv /\ OwnNodes /\ [Next]_vars => OwnNodes'
<1> SUFFICES ASSUME Inv, OwnNodes, [Next]_vars PROVE OwnNodes'
  OBVIOUS
<1>0. myself \in [Candidates -> 0..last] /\ last \in Nat
  BY NoNodeZero DEF Inv, Types, TypeOK
<1>1. \/ UNCHANGED myself
      \/ \E c \in Candidates, n \in {0, last + 1} : myself' = [myself EXCEPT ![c] = n]
  <2>1. ASSUME NEW c \in Candidates, Elect(c) \/ Connect(c) \/ Destroy(c)
        PROVE  \/ UNCHANGED myself
               \/ \E n \in {0, last + 1} : myself' = [myself EXCEPT ![c] = n]
    <3>1. CASE PrepareContext(c) \/ CallProposals(c) \/ ConnectFails(c) \/ Connect(c)
      BY <3>1 DEF PrepareContext, CallProposals, ConnectFails, Connect, Reset
    <3>2. CASE CallWatcher(c) \/ CallExpiredSessionRun(c) \/ Destroy(c)
      BY <3>2 DEF CallWatcher, CallExpiredSessionRun, Destroy, Reset, Crash, client
    <3>3. ASSUME NEW h \in ThreadNames, GetChildren(c, h) \/ WatchNode(c, h)
          PROVE  UNCHANGED myself
      BY <3>3 DEF GetChildren, WatchNode, client
    <3>4. ASSUME NEW h \in ThreadNames, CallDoneRun(c, h) \/ RunDone(c, h)
          PROVE  UNCHANGED myself \/ myself' = [myself EXCEPT ![c] = 0]
      BY <3>4 DEF CallDoneRun, RunDone, Reset, Crash, client
    <3> QED
      BY <2>1, <3>1, <3>2, <3>3, <3>4 DEF Elect, Thread
  <2>2. ASSUME NEW c \in Candidates, ExpireSession(c) \/ HearExpired(c)
        PROVE  UNCHANGED myself
    BY <2>2 DEF ExpireSession, HearExpired
  <2>3. ASSUME NEW n \in nodes, DropNode(n) \/ DeleteNode(n) PROVE UNCHANGED myself
    BY <2>3 DEF DropNode, DeleteNode, client
  <2>4. CASE UNCHANGED vars
    BY <2>4 DEF vars, client
  <2> QED
    BY <2>1, <2>2, <2>3, <2>4 DEF Next
<1>2. CASE UNCHANGED myself
  BY <1>2 DEF OwnNodes
<1>3. ASSUME NEW c \in Candidates, NEW n \in {0, last + 1},
             myself' = [myself EXCEPT ![c] = n]
      PROVE  OwnNodes'
  <2>1. myself'[c] = n /\ \A d \in Candidates : d # c => myself'[d] = myself[d]
    BY <1>0, <1>3
  <2>2. \A d \in Candidates : myself[d] # last + 1
    BY <1>0
  <2> QED
    BY <2>1, <2>2 DEF OwnNodes
<1> QED
  BY <1>1, <1>2, <1>3

\* For any number of candidates, lost sessions and lost replies: at most one candidate
\* leads, as far as the server still knows it, and has the smallest node; and one that
\* waits for its watcher watches a node that is there or has the event.
THEOREM ElectionIsAlwaysSound == Spec => []ElectionIsSound
<1>1. Inv /\ OwnNodes => ElectionIsSound
  <2> SUFFICES ASSUME Inv, OwnNodes PROVE ElectionIsSound
    OBVIOUS
  <2>1. TypeOK /\ LeaderIsSmallest
    BY DEF Inv, Types, Sound, Leads, LeaderIsSmallest, Leading
  <2>3. OneLeader
    <3> SUFFICES ASSUME NEW c \in Candidates, NEW d \in Candidates, Leading(c), Leading(d)
                 PROVE  c = d
      BY DEF OneLeader
    <3>1. myself[c] \in nodes /\ myself[d] \in nodes /\ nodes \subseteq Nat /\ 0 \notin nodes
      BY NoNodeZero DEF Leading, Inv
    <3>2. ~(myself[c] < myself[d]) /\ ~(myself[d] < myself[c])
      <4>1. Smaller(myself[c]) = {} /\ Smaller(myself[d]) = {}
        BY <2>1 DEF LeaderIsSmallest
      <4>2. \A m, n : m \in nodes /\ m < n => m \in Smaller(n)
        BY DEF Smaller
      <4> QED
        BY <3>1, <4>1, <4>2
    <3>3. myself[c] = myself[d] /\ myself[c] # 0
      <4>1. myself[c] \in Nat /\ myself[d] \in Nat /\ myself[c] # 0
        BY <3>1
      <4>2. \A m, n \in Nat : ~(m < n) /\ ~(n < m) => m = n
        BY SMT
      <4> QED
        BY <3>2, <4>1, <4>2
    <3> QED
      BY <3>3 DEF OwnNodes
  <2>2. NoMissedDeletion
    BY DEF Inv, Sound, Watched, NoMissedDeletion, Waiting, ThreadNames
  <2> QED
    BY <2>1, <2>2, <2>3 DEF ElectionIsSound
<1>2. Init => OwnNodes
  BY DEF Init, OwnNodes
<1> QED
  BY <1>1, <1>2, InitInv, NextInv, NextOwnNodes, PTL DEF Spec
================================================================================
