------------------------------- MODULE ZkAcl --------------------------------
(***************************************************************************)
(* The access list of a ZooKeeper node as common/zookeeper/zk_adaptor.cpp  *)
(* edits it: AddAcl and RemoveAcl read the list, change it and write it    *)
(* back with the version their caller gives: one it got from GetAcls, any  *)
(* other, or -1, for which the server compares nothing and which the       *)
(* scripts in zookeeper/tools pass.  Several clients edit the same node;   *)
(* an answer may be lost.                                                  *)
(***************************************************************************)
EXTENDS Integers

CONSTANTS
    Clients,
    Items,        \* AclItems: a scheme and an id
    OpenAcl,      \* ZOO_OPEN_ACL_UNSAFE, the list without restriction
    MaxVersion    \* bound: the version of the list

VARIABLES
    zk_acl,       \* the server's list, and its version
    aversion,
    client,       \* client -> the call in progress and what it has read
    known         \* client -> the version it got from GetAcls

vars == <<zk_acl, aversion, client, known>>

Versions == -1..MaxVersion

NoCall == [at |-> "idle", item |-> OpenAcl, acl_version |-> 0, acls |-> {}]

-----------------------------------------------------------------------------
\* SetAcls writes ZOO_OPEN_ACL_UNSAFE for an empty list.
Written(acls) == IF acls = {} THEN {OpenAcl} ELSE acls

Edited(acls, call) ==
    IF call.at = "AddAcl" THEN acls \cup {call.item} ELSE acls \ {call.item}

\* The user of the adaptor learns the version with GetAcls.
GetAclVersion(c) ==
    /\ client[c].at = "idle"
    /\ known[c] # aversion
    /\ known' = [known EXCEPT ![c] = aversion]
    /\ UNCHANGED <<zk_acl, aversion, client>>

\* AddAcl or RemoveAcl with some version: GetAcls, here without asking for the
\* list's own, may fail, and then so does the call.
Call(c, op, item, version) ==
    /\ client[c].at = "idle"
    /\ client' = [client EXCEPT ![c] =
                    [at |-> op, item |-> item, acl_version |-> version,
                     acls |-> zk_acl]]
    /\ UNCHANGED <<zk_acl, aversion, known>>

\* Variant: the server is told to take any version.
AcceptedAlways(c) == TRUE

\* zoo_set_acl with acl_version: ZBADVERSION unless it is the current one or -1.
Accepted(c) == client[c].acl_version \in {-1, aversion}

SetAcls(c) == Written(Edited(client[c].acls, client[c]))

\* The rest of the call.  The request may be lost, and the answer; the
\* caller then knows as little as after ZBADVERSION and reads again.
SetAclsDone(c) ==
    /\ client[c].at # "idle"
    /\ client' = [client EXCEPT ![c] = NoCall]
    /\ \/ /\ Accepted(c)
          /\ aversion < MaxVersion
          /\ zk_acl' = SetAcls(c)
          /\ aversion' = aversion + 1
       \/ UNCHANGED <<zk_acl, aversion>>
    /\ UNCHANGED known

-----------------------------------------------------------------------------
Init ==
    /\ zk_acl = {OpenAcl}
    /\ aversion = 0
    /\ client = [c \in Clients |-> NoCall]
    /\ known = [c \in Clients |-> 0]

Next ==
    \E c \in Clients :
        \/ GetAclVersion(c)
        \/ \E op \in {"AddAcl", "RemoveAcl"}, item \in Items \cup {OpenAcl},
              version \in Versions :
             Call(c, op, item, version)
        \/ SetAclsDone(c)

Spec == Init /\ [][Next]_vars

-----------------------------------------------------------------------------
\* client c's call ends with a write the server has accepted.
Writes(c) ==
    /\ client[c].at # "idle" /\ client[c]'.at = "idle"
    /\ aversion' # aversion

\* A write with the version its caller got from GetAcls before the call loses
\* no edit of another client, although AddAcl reads the list a second time and
\* others write before, between and after the two reads, some with -1: what is
\* accepted is the edit of the list as it is at that moment.
KnownVersionLosesNothing ==
    [][\A c \in Clients :
         Writes(c) /\ client[c].acl_version = known[c]
           => zk_acl' = Written(Edited(zk_acl, client[c]))]_vars
=============================================================================
