--------------------------- MODULE ZkLeaderSelection ---------------------------
(****************************************************************************)
(* common/zookeeper/zk_leader_election.cpp.  Each candidate is a process    *)
(* with a ZkLeaderSelection: Proposals runs on a thread of the application  *)
(* ("app") and the watchers on the thread of the ZooKeeper client ("zk"),   *)
(* with no lock between them, and both run CheckLeader and the callbacks.   *)
(*                                                                          *)
(* ZooKeeper is external and modelled from how it is used: sequential       *)
(* ephemeral nodes, which are their numbers here; one-shot watches whose    *)
(* events arrive in order and later; sessions that the server may end long  *)
(* before the client hears of it; calls that may fail at any time; a closed *)
(* handle, which delivers nothing more.  A node that is left behind (a lost *)
(* reply, a lost close, a crash) stays until the server drops its session.  *)
(****************************************************************************)
EXTENDS Naturals, Sequences

CONSTANTS
  Candidates,
  MaxNode        \* bound on the nodes ever created

ASSUME MaxNodeAssumption == MaxNode \in Nat

VARIABLES
  nodes, last,   \* the children of the election path, and the last one created
  zh,            \* the handle: "null", "live", "expired" (by the server), or "heard" of it
  watch,         \* the node each candidate watches, 0 if none
  events,        \* what its watchers have yet to be called with
  myself,        \* node_name_, 0 before zoo_create
  done,          \* done_ is set
  on_expired,    \* on_expired_session_event_ is set
  pc, target,    \* of each thread of each candidate; target is CheckLeader's watch
  told,          \* what the application knows: "nothing", "leader" or "expired"
  crashed        \* a CHECK failed

server == <<nodes, last, watch, events>>
client == <<zh, myself, done, on_expired>>
threads == <<pc, target>>
vars == <<server, client, threads, told, crashed>>

ThreadNames == {"app", "zk"}
Goto(c, h, place) == pc' = [pc EXCEPT ![c][h] = place]
Smaller(n) == {m \in nodes : m < n}
Biggest(S) == CHOOSE m \in S : \A k \in S : k <= m

--------------------------------------------------------------------------------
(* ZooKeeper *)

\* Nodes go away: those who watch them get an event.  A handle in Closed forgets
\* its watch and its events.
RemoveNodes(gone, Closed) ==
  /\ nodes' = nodes \ gone
  /\ watch' = [d \in Candidates |-> IF d \in Closed \/ watch[d] \in gone \cap nodes THEN 0 ELSE watch[d]]
  /\ events' = [d \in Candidates |->
       IF d \in Closed THEN <<>>
       ELSE IF watch[d] \in gone \cap nodes
         THEN Append(events[d], IF watch[d] = myself[d] THEN "myself" ELSE "node")
         ELSE events[d]]
  /\ UNCHANGED last

\* The server ends a session.
ExpireSession(c) ==
  /\ zh[c] = "live"
  /\ zh' = [zh EXCEPT ![c] = "expired"]
  /\ RemoveNodes({myself[c]}, {})
  /\ UNCHANGED <<myself, done, on_expired, threads, told, crashed>>

\* The client hears of it.
HearExpired(c) ==
  /\ zh[c] = "expired"
  /\ zh' = [zh EXCEPT ![c] = "heard"]
  /\ events' = [events EXCEPT ![c] = Append(@, "expired")]
  /\ UNCHANGED <<nodes, last, watch, myself, done, on_expired, threads, told, crashed>>

Owned(n) == \E c \in Candidates : zh[c] = "live" /\ myself[c] = n

\* A node left behind goes away, or an administrator deletes any node.
DropNode(n) ==
  /\ n \in nodes
  /\ ~Owned(n)
  /\ RemoveNodes({n}, {})
  /\ UNCHANGED <<client, threads, told, crashed>>

DeleteNode(n) ==
  /\ n \in nodes
  /\ Owned(n)
  /\ RemoveNodes({n}, {})
  /\ UNCHANGED <<client, threads, told, crashed>>

\* zoo_delete of one's node, which may fail.
ZooDelete(c) ==
  \E gone \in {{}, {myself[c]}} : (gone # {} => zh[c] = "live") /\ RemoveNodes(gone, {})

--------------------------------------------------------------------------------
(* Reset and the callbacks *)

\* The close may not reach the server.  node_name_ is of no use until it is assigned
\* again: calls on a closed handle fail.
Reset(c) ==
  /\ \E gone \in {{}, {myself[c]}} : RemoveNodes(gone, {c})
  /\ zh' = [zh EXCEPT ![c] = "null"]
  /\ done' = [done EXCEPT ![c] = FALSE]
  /\ on_expired' = [on_expired EXCEPT ![c] = FALSE]
  /\ myself' = [myself EXCEPT ![c] = 0]

\* The process ends; its node stays behind.
Crash(c) ==
  /\ crashed' = [crashed EXCEPT ![c] = TRUE]
  /\ zh' = [zh EXCEPT ![c] = "null"]
  /\ myself' = [myself EXCEPT ![c] = 0]
  /\ done' = [done EXCEPT ![c] = FALSE]
  /\ on_expired' = [on_expired EXCEPT ![c] = FALSE]
  /\ pc' = [pc EXCEPT ![c] = [h \in ThreadNames |-> "idle"]]
  /\ target' = [target EXCEPT ![c] = [h \in ThreadNames |-> 0]]
  /\ told' = [told EXCEPT ![c] = "nothing"]
  /\ RemoveNodes({}, {c})

\* CallDoneRun takes done_, then does the rest.
CallDoneRun(c, h) ==
  /\ pc[c][h] \in {"win", "fail"}
  /\ IF done[c]
     THEN /\ done' = [done EXCEPT ![c] = FALSE]
          /\ Goto(c, h, IF pc[c][h] = "win" THEN "run_ok" ELSE "run_failed")
          /\ UNCHANGED <<server, zh, myself, on_expired, target, told, crashed>>
     ELSE Crash(c)

RunDone(c, h) ==
  /\ Goto(c, h, "idle")
  /\ \/ /\ pc[c][h] = "run_ok"
        /\ told' = [told EXCEPT ![c] = "leader"]
        /\ UNCHANGED <<server, client>>
     \/ /\ pc[c][h] = "run_failed"
        /\ Reset(c)
        /\ UNCHANGED told
  /\ UNCHANGED <<target, crashed>>

CallExpiredSessionRun(c) ==
  /\ pc[c]["zk"] = "expire"
  /\ IF ~done[c] /\ on_expired[c]
     THEN /\ Reset(c)
          /\ told' = [told EXCEPT ![c] = "expired"]
          /\ Goto(c, "zk", "idle")
          /\ UNCHANGED <<target, crashed>>
     ELSE Crash(c)

--------------------------------------------------------------------------------
(* Proposals *)

\* Until the session is there and authorised; a failure resets and returns.  The last
\* zookeeper_close has waited for the callback that was running.
Connect(c) ==
  /\ pc[c] = [h \in ThreadNames |-> "idle"]
  /\ zh[c] = "null"
  /\ zh' = [zh EXCEPT ![c] = "live"]
  /\ told' = [told EXCEPT ![c] = "nothing"]
  /\ Goto(c, "app", "connect")
  /\ UNCHANGED <<server, myself, done, on_expired, target, crashed>>

ConnectFails(c) ==
  /\ pc[c]["app"] = "connect"
  /\ Reset(c)
  /\ Goto(c, "app", "idle")
  /\ UNCHANGED <<target, told, crashed>>

PrepareContext(c) ==
  /\ pc[c]["app"] = "connect"
  /\ done' = [done EXCEPT ![c] = TRUE]
  /\ on_expired' = [on_expired EXCEPT ![c] = TRUE]
  /\ Goto(c, "app", "create")
  /\ UNCHANGED <<server, zh, myself, target, told, crashed>>

\* zoo_create, which may also create the node and lose the reply.
CallProposals(c) ==
  /\ pc[c]["app"] = "create"
  /\ \/ /\ zh[c] = "live" /\ last < MaxNode
        /\ last' = last + 1
        /\ nodes' = nodes \cup {last'}
        /\ \/ /\ myself' = [myself EXCEPT ![c] = last']
              /\ Goto(c, "app", "check")
           \/ /\ Goto(c, "app", "fail")
              /\ UNCHANGED myself
     \/ /\ Goto(c, "app", "fail")
        /\ UNCHANGED <<nodes, last, myself>>
  /\ UNCHANGED <<watch, events, zh, done, on_expired, target, told, crashed>>

--------------------------------------------------------------------------------
(* CheckLeader, on either thread *)

\* The leader watches itself, another the one before it.
WatchTarget(n) == IF Smaller(n) = {} THEN n ELSE Biggest(Smaller(n))

GetChildren(c, h) ==
  /\ pc[c][h] = "check"
  /\ \/ /\ zh[c] = "live"
        /\ IF myself[c] \in nodes
           THEN target' = [target EXCEPT ![c][h] = WatchTarget(myself[c])] /\ Goto(c, h, "watch")
           ELSE Goto(c, h, "fail") /\ UNCHANGED target
        /\ UNCHANGED server
     \/ ZooDelete(c) /\ Goto(c, h, "fail") /\ UNCHANGED target
  /\ UNCHANGED <<client, told, crashed>>

\* Variant: ZNONODE is taken for a watch that will fire
WatchNodeOnce(c, h) ==
  /\ pc[c][h] = "watch"
  /\ zh[c] = "live"
  /\ watch' = [watch EXCEPT ![c] = target[c][h]]
  /\ Goto(c, h, IF target[c][h] = myself[c] THEN "win" ELSE "idle")
  /\ target' = [target EXCEPT ![c][h] = 0]
  /\ UNCHANGED <<nodes, last, events, client, told, crashed>>

\* Variant: zoo_wexists is called until it succeeds
WatchNodeRetries(c, h) ==
  /\ pc[c][h] = "watch"
  /\ LET n == target[c][h] IN
       IF zh[c] = "live" /\ n \in nodes
       THEN /\ watch' = [watch EXCEPT ![c] = n]
            /\ Goto(c, h, IF n = myself[c] THEN "win" ELSE "idle")
            /\ target' = [target EXCEPT ![c][h] = 0]
            /\ UNCHANGED <<nodes, last, events, client, told, crashed>>
       ELSE UNCHANGED vars

\* zoo_wexists.  Without its node (ZNONODE) a leader fails and another looks again.
WatchNode(c, h) ==
  /\ pc[c][h] = "watch"
  /\ LET n == target[c][h] IN
       \/ /\ zh[c] = "live" /\ n \in nodes
          /\ watch' = [watch EXCEPT ![c] = n]
          /\ Goto(c, h, IF n = myself[c] THEN "win" ELSE "idle")
          /\ UNCHANGED <<nodes, last, events>>
       \/ /\ zh[c] = "live" /\ n \notin nodes /\ n # myself[c]
          /\ Goto(c, h, "check")
          /\ UNCHANGED server
       \/ /\ ZooDelete(c)
          /\ Goto(c, h, "fail")
  /\ target' = [target EXCEPT ![c][h] = 0]
  /\ UNCHANGED <<client, told, crashed>>

--------------------------------------------------------------------------------
(* The watchers *)

\* ZkNodeWatcher, ZkMyselfWatcher and ZkGlobalWatcher
CallWatcher(c) ==
  /\ pc[c]["zk"] = "idle"
  /\ events[c] # <<>>
  /\ events' = [events EXCEPT ![c] = Tail(@)]
  /\ Goto(c, "zk", CASE Head(events[c]) = "node" -> "check"
                     [] Head(events[c]) = "myself" -> "expire"
                     [] Head(events[c]) = "expired" -> IF done[c] THEN "fail" ELSE "expire")
  /\ UNCHANGED <<nodes, last, watch, client, target, told, crashed>>

\* The leader deletes the object, when no callback runs.
Destroy(c) ==
  /\ pc[c] = [h \in ThreadNames |-> "idle"]
  /\ told[c] = "leader"
  /\ Reset(c)
  /\ told' = [told EXCEPT ![c] = "nothing"]
  /\ UNCHANGED <<threads, crashed>>

--------------------------------------------------------------------------------
Init ==
  /\ nodes = {} /\ last = 0
  /\ zh = [c \in Candidates |-> "null"]
  /\ watch = [c \in Candidates |-> 0]
  /\ events = [c \in Candidates |-> <<>>]
  /\ myself = [c \in Candidates |-> 0]
  /\ done = [c \in Candidates |-> FALSE]
  /\ on_expired = [c \in Candidates |-> FALSE]
  /\ pc = [c \in Candidates |-> [h \in ThreadNames |-> "idle"]]
  /\ target = [c \in Candidates |-> [h \in ThreadNames |-> 0]]
  /\ told = [c \in Candidates |-> "nothing"]
  /\ crashed = [c \in Candidates |-> FALSE]

Thread(c, h) == GetChildren(c, h) \/ WatchNode(c, h) \/ CallDoneRun(c, h) \/ RunDone(c, h)

Elect(c) ==
  \/ PrepareContext(c) \/ CallProposals(c) \/ ConnectFails(c)
  \/ \E h \in ThreadNames : Thread(c, h)
  \/ CallWatcher(c) \/ CallExpiredSessionRun(c)

Next ==
  \/ \E c \in Candidates :
       /\ ~crashed[c]
       /\ Elect(c) \/ Connect(c) \/ Destroy(c) \/ ExpireSession(c) \/ HearExpired(c)
  \/ \E n \in nodes : DropNode(n) \/ DeleteNode(n)

Spec == Init /\ [][Next]_vars

\* Threads go on, and the client hears that its session is gone when it reconnects.
FairSpec ==
  /\ Spec
  /\ \A c \in Candidates, h \in ThreadNames : WF_vars(~crashed[c] /\ Thread(c, h))
  /\ \A c \in Candidates :
       /\ WF_vars(~crashed[c] /\ (CallWatcher(c) \/ CallExpiredSessionRun(c)))
       /\ WF_vars(~crashed[c] /\ HearExpired(c))

--------------------------------------------------------------------------------
(* Properties *)

\* Types; no candidate's node number is beyond the last one given.
TypeOK ==
  /\ nodes \subseteq 1..last /\ last \in 0..MaxNode
  /\ zh \in [Candidates -> {"null", "live", "expired", "heard"}]
  /\ watch \in [Candidates -> 0..last]
  /\ myself \in [Candidates -> 0..last]
  /\ done \in [Candidates -> BOOLEAN] /\ on_expired \in [Candidates -> BOOLEAN]
  /\ told \in [Candidates -> {"nothing", "leader", "expired"}]

\* Told to lead, and not yet disowned by the server.
Leading(c) == told[c] = "leader" /\ zh[c] = "live" /\ myself[c] \in nodes

\* A candidate that leads has the smallest node, and no two lead at the same time.
LeaderIsSmallest == \A c \in Candidates : Leading(c) => Smaller(myself[c]) = {}

OneLeader == \A c, d \in Candidates : Leading(c) /\ Leading(d) => c = d

\* An election that is left to a watcher: no thread works on it.
Waiting(c) ==
  /\ done[c] /\ zh[c] = "live"
  /\ pc[c] = [h \in ThreadNames |-> "idle"]

\* It watches a node that is there, or has its event: no deletion goes unnoticed between
\* zoo_get_children and zoo_wexists.
NoMissedDeletion ==
  \A c \in Candidates : Waiting(c) => watch[c] \in nodes \/ events[c] # <<>>

\* One at most leads, with the smallest node, and who does not is told when that may have
\* changed.
ElectionIsSound == TypeOK /\ LeaderIsSmallest /\ OneLeader /\ NoMissedDeletion

\* When no smaller node is left an election ends, one way or the other.
ElectionEnds ==
  \A c \in Candidates :
    done[c] /\ pc[c]["app"] = "idle" /\ Smaller(myself[c]) = {} ~> ~done[c]

\* CHECK(done_), CHECK(!done_) and CHECK(on_expired_session_event_)
\* (zk_leader_election.cpp:341,355-356) hold.
ChecksHold == \A c \in Candidates : ~crashed[c]
================================================================================
