---------------------------- MODULE MCComponents -----------------------------
(***************************************************************************)
(* The self-contained components, checked side by side: a behaviour takes  *)
(* steps of the one component chosen at the start, so that their           *)
(* state spaces add up and do not multiply.  The properties are those of   *)
(* the components' modules; the ones that are proved as well are stated in *)
(* Components, Services and TaskExpirationQueue.                           *)
(***************************************************************************)
EXTENDS Components, Services, TaskExpirationQueue

CONSTANTS
    NoBound, none         \* no bound of a range; no object of a list

\* The least end of an interval.
MCLow == -1

VARIABLES
    part,
    check_success_route, state_creators, transitions, default_transitions,
    started, current_state, step, task, ran, done,
    m_modules, m_depends, initialized, at_exit, todo, program, alive,
    map, lru_list, now, touched,
    file, buffer, m_record_size, codec, call, writing, closed, accepted, calls,
    faults, reader, out,
    bits, ones, built, matrix, wat, array,
    documents, feature_offset, wavelet_tree, query, results, answer,
    base, links, damaged, content,
    m_map, m_length_map

Machine == INSTANCE StateMachine
             WITH States <- 1..2, MaxTransitions <- 3, MaxRan <- 3

Manager == INSTANCE ModuleManager WITH Modules <- 1..3

Cache == INSTANCE MemoryCache
           WITH Keys <- 1..4, capacity <- 2, life_cycle <- 2, MaxTime <- 4

Records == INSTANCE RecordIO
             WITH MaxRecords <- 3, MaxFaults <- 1, kMaxRecordSize <- 3,
                  RecordBuffer <- 3, SizeBuffer <- 4, ManySizes <- 1

\* A writer with a codec, in a file with a fault.
CodecRecords == INSTANCE RecordIO
                  WITH MaxRecords <- 2, MaxFaults <- 1, kMaxRecordSize <- 3,
                       RecordBuffer <- 3, SizeBuffer <- 4, ManySizes <- 1

\* One record more than the size buffer holds, and no faults.
ManyRecords == INSTANCE RecordIO
                 WITH MaxRecords <- 4, MaxFaults <- 0, kMaxRecordSize <- 3,
                      RecordBuffer <- 3, SizeBuffer <- 4, ManySizes <- 1

Indexes == INSTANCE WaveletIndexes
             WITH BLOCK_BITNUM <- 8, TABLE_INTERVAL <- 2, Word <- 2^16,
                  BitLengths <- {3, 8, 24}, MaxMinority <- 1,
                  Numbers <- {0, 3, 5}, MaxLength <- 3

Token(id, weight) == [id |-> id, weight |-> weight]

Retrievaler == INSTANCE SimilarityRetrievaler
                 WITH BLOCK_BITNUM <- 8, TABLE_INTERVAL <- 2, Word <- 2^16,
                      IdField <- 1, NumField <- 2,
                      IdLists <- {<<>>, <<1>>, <<2, 1>>}, Nums <- {3, 4},
                      MaxDocuments <- 2,
                      Tokens <- {<<Token(1, 1), Token(2, 1)>>,
                                 <<Token(2, 2), Token(1, 1)>>,
                                 <<Token(3, 1), Token(1, 1)>>,
                                 <<Token(1, 2), Token(2, -1)>>,
                                 <<Token(2, -1), Token(1, 1)>>},
                      Thresholds <- 0..2,
                      Bounds <- {<<NoBound, 3>>, <<3, NoBound>>, <<4, 4>>}

List == INSTANCE IntrusiveList
          WITH Objects <- {10, 20}, Lists <- {0, 5}, Bases <- {0, 100},
               Temp <- 7000, MaxDamage <- 2, NULL <- none

Prefixes == INSTANCE PrefixMap
              WITH Prefixes <- {<<>>, <<1>>, <<1, 2>>, <<2, 2>>, <<1, 2, 1>>,
                                <<1, 2, 2>>},
                   Queries <- UNION {[1..n -> 1..2] : n \in 0..4}

machineVars == <<check_success_route, state_creators, transitions,
                 default_transitions, started, current_state, step, task, ran,
                 done>>
managerVars == <<m_modules, m_depends, initialized, at_exit, todo, program,
                 alive>>
cacheVars == <<map, lru_list, now, touched>>
adaptorVars == <<credential, session, events, signaled, user, ret, callback,
                 auth_ret, authorised, changes>>
aclVars == <<zk_acl, aversion, client, known>>
recordVars == <<file, buffer, m_record_size, codec, call, writing, closed,
                accepted, calls, faults, reader, out>>
minerVars == <<is_init, pointer, ready, objects, holder, stack, got, gets,
               crashed>>
indexVars == <<bits, ones, built, matrix, wat, array>>
retrievalVars == <<documents, feature_offset, wavelet_tree, query, results,
                   answer>>
statsVars == <<counting, mean, history>>
intervalVars == <<this, last>>
listVars == <<base, links, damaged, content>>
eventVars == <<kind, m_signaled, waiter, sets, waits, released>>
blockerVars == <<count_, blocked, reached, changes_>>
barrierVars == <<left_, runner, decremented, done_runs, deleted, misused>>
tableVars == <<holds, table_, operation, inserts, handed, dangling>>
prefixVars == <<m_map, m_length_map>>

vars == <<part, queueVars, machineVars, managerVars, cacheVars, adaptorVars,
          aclVars, recordVars, minerVars, indexVars, retrievalVars,
          statsVars, intervalVars, listVars, eventVars, blockerVars,
          barrierVars, tableVars, prefixVars>>

-----------------------------------------------------------------------------
Init ==
    /\ part \in {"queue", "machine", "manager", "cache", "adaptor", "acl",
                 "records", "many_records", "miner", "indexes", "retrieval",
                 "stats", "interval", "list", "event", "blocker", "barrier",
                 "table", "prefix"}
    /\ QueueInit
    /\ Machine!Init /\ (part # "machine" => check_success_route)
    /\ Manager!Init
    /\ Cache!Init
    /\ Adaptor!Init /\ (part # "adaptor" => credential = "none")
    /\ Acl!Init
    /\ Records!Init
    /\ (part # "records" => ~codec /\ reader = <<>>)
    /\ Miner!Init
    /\ Indexes!Init
    /\ Retrievaler!Init
    /\ Stats!Init
    /\ Intervals!Init
    /\ List!Init /\ (part # "list" => base = 0)
    /\ Event!Init /\ (part # "event" => kind = "auto" /\ ~m_signaled)
    /\ Blocker!Init /\ (part # "blocker" => count_ = 0)
    /\ Barrier!Init
    /\ Table!Init
    /\ Prefixes!Init

DeadlinesNext ==
    /\ part = "queue" /\ QueueNext
    /\ UNCHANGED <<part, machineVars, managerVars, cacheVars, adaptorVars,
                   aclVars, recordVars, minerVars, indexVars, retrievalVars,
                   statsVars, intervalVars, listVars, eventVars, blockerVars,
                   barrierVars, tableVars, prefixVars>>

MachineNext ==
    /\ part = "machine" /\ Machine!Next
    /\ UNCHANGED <<part, queueVars, managerVars, cacheVars, adaptorVars,
                   aclVars, recordVars, minerVars, indexVars, retrievalVars,
                   statsVars, intervalVars, listVars, eventVars, blockerVars,
                   barrierVars, tableVars, prefixVars>>

ManagerNext ==
    /\ part = "manager" /\ Manager!Next
    /\ UNCHANGED <<part, queueVars, machineVars, cacheVars, adaptorVars,
                   aclVars, recordVars, minerVars, indexVars, retrievalVars,
                   statsVars, intervalVars, listVars, eventVars, blockerVars,
                   barrierVars, tableVars, prefixVars>>

CacheNext ==
    /\ part = "cache" /\ Cache!Next
    /\ UNCHANGED <<part, queueVars, machineVars, managerVars, adaptorVars,
                   aclVars, recordVars, minerVars, indexVars, retrievalVars,
                   statsVars, intervalVars, listVars, eventVars, blockerVars,
                   barrierVars, tableVars, prefixVars>>

AdaptorNext ==
    /\ part = "adaptor" /\ Adaptor!Next
    /\ UNCHANGED <<part, queueVars, machineVars, managerVars, cacheVars,
                   aclVars, recordVars, minerVars, indexVars, retrievalVars,
                   statsVars, intervalVars, listVars, eventVars, blockerVars,
                   barrierVars, tableVars, prefixVars>>

AclNext ==
    /\ part = "acl" /\ Acl!Next
    /\ UNCHANGED <<part, queueVars, machineVars, managerVars, cacheVars,
                   adaptorVars, recordVars, minerVars, indexVars,
                   retrievalVars, statsVars, intervalVars, listVars,
                   eventVars, blockerVars, barrierVars, tableVars, prefixVars>>

RecordsNext ==
    /\ \/ part = "records" /\ ~codec /\ Records!Next
       \/ part = "records" /\ codec /\ CodecRecords!Next
       \/ part = "many_records" /\ ManyRecords!Next
    /\ UNCHANGED <<part, queueVars, machineVars, managerVars, cacheVars,
                   adaptorVars, aclVars, minerVars, indexVars, retrievalVars,
                   statsVars, intervalVars, listVars, eventVars, blockerVars,
                   barrierVars, tableVars, prefixVars>>

MinerNext ==
    /\ part = "miner" /\ Miner!Next
    /\ UNCHANGED <<part, queueVars, machineVars, managerVars, cacheVars,
                   adaptorVars, aclVars, recordVars, indexVars,
                   retrievalVars, statsVars, intervalVars, listVars,
                   eventVars, blockerVars, barrierVars, tableVars, prefixVars>>

IndexesNext ==
    /\ part = "indexes" /\ Indexes!Next
    /\ UNCHANGED <<part, queueVars, machineVars, managerVars, cacheVars,
                   adaptorVars, aclVars, recordVars, minerVars,
                   retrievalVars, statsVars, intervalVars, listVars,
                   eventVars, blockerVars, barrierVars, tableVars, prefixVars>>

RetrievalNext ==
    /\ part = "retrieval" /\ Retrievaler!Next
    /\ UNCHANGED <<part, queueVars, machineVars, managerVars, cacheVars,
                   adaptorVars, aclVars, recordVars, minerVars, indexVars,
                   statsVars, intervalVars, listVars, eventVars, blockerVars,
                   barrierVars, tableVars, prefixVars>>

StatsNext ==
    /\ part = "stats" /\ Stats!Next
    /\ UNCHANGED <<part, queueVars, machineVars, managerVars, cacheVars,
                   adaptorVars, aclVars, recordVars, minerVars, indexVars,
                   retrievalVars, intervalVars, listVars, eventVars,
                   blockerVars, barrierVars, tableVars, prefixVars>>

IntervalsNext ==
    /\ part = "interval" /\ Intervals!Next
    /\ UNCHANGED <<part, queueVars, machineVars, managerVars, cacheVars,
                   adaptorVars, aclVars, recordVars, minerVars, indexVars,
                   retrievalVars, statsVars, listVars, eventVars,
                   blockerVars, barrierVars, tableVars, prefixVars>>

ListNext ==
    /\ part = "list" /\ List!Next
    /\ UNCHANGED <<part, queueVars, machineVars, managerVars, cacheVars,
                   adaptorVars, aclVars, recordVars, minerVars, indexVars,
                   retrievalVars, statsVars, intervalVars, eventVars,
                   blockerVars, barrierVars, tableVars, prefixVars>>

EventNext ==
    /\ part = "event" /\ Event!Next
    /\ UNCHANGED <<part, queueVars, machineVars, managerVars, cacheVars,
                   adaptorVars, aclVars, recordVars, minerVars, indexVars,
                   retrievalVars, statsVars, intervalVars, listVars,
                   blockerVars, barrierVars, tableVars, prefixVars>>

BlockerNext ==
    /\ part = "blocker" /\ Blocker!Next
    /\ UNCHANGED <<part, queueVars, machineVars, managerVars, cacheVars,
                   adaptorVars, aclVars, recordVars, minerVars, indexVars,
                   retrievalVars, statsVars, intervalVars, listVars,
                   eventVars, barrierVars, tableVars, prefixVars>>

BarrierNext ==
    /\ part = "barrier" /\ Barrier!Next
    /\ UNCHANGED <<part, queueVars, machineVars, managerVars, cacheVars,
                   adaptorVars, aclVars, recordVars, minerVars, indexVars,
                   retrievalVars, statsVars, intervalVars, listVars,
                   eventVars, blockerVars, tableVars, prefixVars>>

TableNext ==
    /\ part = "table" /\ Table!Next
    /\ UNCHANGED <<part, queueVars, machineVars, managerVars, cacheVars,
                   adaptorVars, aclVars, recordVars, minerVars, indexVars,
                   retrievalVars, statsVars, intervalVars, listVars,
                   eventVars, blockerVars, barrierVars, prefixVars>>

PrefixesNext ==
    /\ part = "prefix" /\ Prefixes!Next
    /\ UNCHANGED <<part, queueVars, machineVars, managerVars, cacheVars,
                   adaptorVars, aclVars, recordVars, minerVars, indexVars,
                   retrievalVars, statsVars, intervalVars, listVars,
                   eventVars, blockerVars, barrierVars, tableVars>>

Next ==
    \/ DeadlinesNext \/ MachineNext \/ ManagerNext \/ CacheNext
    \/ AdaptorNext \/ AclNext \/ RecordsNext \/ MinerNext \/ IndexesNext \/ RetrievalNext
    \/ StatsNext \/ IntervalsNext \/ ListNext \/ EventNext \/ BlockerNext
    \/ BarrierNext \/ TableNext \/ PrefixesNext

Spec == Init /\ [][Next]_vars

-----------------------------------------------------------------------------
\* StateMachine runs only states that have a creator; Start lets it run only
\* if success after success reaches kStateEnd, and then it does (unless the
\* check is switched off); the final closure runs once, and nothing after it.
MachineIsSound ==
    part = "machine" =>
        /\ Machine!StateIsFound
        /\ Machine!SuccessReachesEnd
        /\ Machine!DoneOnce

\* Modules are constructed once, after those they depend on, and destroyed
\* before them; the sort fails exactly on a cyclic dependency.
ModulesInOrder ==
    part = "manager" =>
        /\ Manager!DependenciesOutlive
        /\ Manager!ConstructedOnce
        /\ Manager!SortFindsCycles

\* MemoryCache's list and map hold the same keys, no more than capacity, and
\* what it discards is the key that has been unused for longest.
CacheIsSound == part = "cache" => Cache!ListIsMap /\ Cache!KeepsTheLastUsed

\* RecordWriter's buffers stay within the sizes they are flushed at, and a
\* RecordReader returns the records in order, each at most once.
RecordsInOrder ==
    part \in {"records", "many_records"} => Records!TypeOK /\ Records!InOrderOnce

\* Every block that is whole in the file is read, whatever surrounds it, and
\* what a RecordReader reports as skipped is what was damaged.
OnlyDamageIsSkipped ==
    part \in {"records", "many_records"} =>
        /\ Records!EveryIntactBlockIsRead
        /\ Records!SkippedIsTheDamage



\* SimilarityRetrievaler's descent gives up no document it should keep.
CandidatesAreFound == part = "retrieval" => Retrievaler!CandidatesAreFound

\* The rings of CountingStats and MeanStats hold what was added in each
\* second, and totals, counts, means and extremes of recent seconds agree.
StatsAreExact ==
    part = "stats" =>
        /\ Stats!RingIsHistory
        /\ Stats!RecentIsExact
        /\ Stats!TotalIsSum

\* An intrusive_list is linked as it was filled, also at another address, and
\* a damaged link never leads a walk out of its list or back.
ListIsSound == part = "list" => List!LinksAreContent /\ List!WalkStays

\* PrefixMap knows the lengths of its strings, and no others, and finds the
\* longest prefix of a string.
PrefixIsFound ==
    part = "prefix" => Prefixes!LengthsAreCounted /\ Prefixes!FindsTheLongest
=============================================================================
