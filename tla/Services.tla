------------------------------- MODULE Services -------------------------------
(***************************************************************************)
(* The components built upon the library's locks and events, and the       *)
(* access lists of ZooKeeper, whose properties are proved for every value  *)
(* of their constants.  Each is an instance with variables of its own.     *)
(* MCComponents runs them; ServicesProofs has the proofs.                  *)
(***************************************************************************)
EXTENDS Naturals

CONSTANTS
    MaxEvents,                               \* ZkAdaptor
    Clients, Items, OpenAcl, MaxVersion,     \* ZkAcl
    MinerThreads, Dict, Loaded, UponDict,    \* TextMinerResource
    MaxObjects, MaxGets,
    TableThreads, Keys, MaxInserts, None     \* ThreadSafeTable

\* The dictionary manager is not built upon itself, and the empty mutex is
\* held by no thread.
ASSUME MinerAssumption == Dict \notin UponDict /\ "nobody" \notin MinerThreads

\* end() is no value.
ASSUME TableAssumption == None \notin Nat

VARIABLES
    credential, session, events, signaled, user, ret, callback, auth_ret,
    authorised, changes,
    zk_acl, aversion, client, known,
    is_init, pointer, ready, objects, holder, stack, got, gets, crashed,
    holds, table_, operation, inserts, handed, dangling

Adaptor == INSTANCE ZkAdaptor

Acl == INSTANCE ZkAcl

Miner == INSTANCE TextMinerResource WITH Threads <- MinerThreads

Table == INSTANCE ThreadSafeTable WITH Threads <- TableThreads

-------------------------------------------------------------------------------
\* WaitConnected does not sleep through a connection, and returns ZOK only
\* after the authorisation it has asked for; AddAuth's callback never finds
\* the frame it writes to gone.
SessionIsSound ==
    /\ Adaptor!NoCallbackAfterReturn
    /\ Adaptor!NoConnectMissed
    /\ Adaptor!OkMeansAuthorised

\* AddAcl and RemoveAcl with the version got from GetAcls lose no edit of
\* another client.
KnownVersionLosesNothing == Acl!KnownVersionLosesNothing

\* TextMinerResource's getters return complete objects that stay, and its two
\* mutexes are never waited for in a circle.
ResourcesAreComplete == Miner!GotIsCurrent /\ Miner!NoCircularWait

\* ThreadSafeTable's FindAndRemove hands a value to one caller only.
HandedToOne == Table!HandedToOne
===============================================================================
