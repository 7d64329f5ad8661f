------------------------ MODULE SimilarityRetrievaler ------------------------
(****************************************************************************)
(* retrieval/fuzzy/wavelet/similarity_retrievaler: documents are indexed    *)
(* once, and queries answered from the index.  The postings of every field  *)
(* and id lie one after the other in an array that a WaveletTree holds.     *)
(* A document has fields of ids and fields with a number; numbers are given *)
(* in halves, so that 3 stands for 1.5.  Weights are integers, and may be   *)
(* negative.                                                                *)
(****************************************************************************)
EXTENDS Integers, Sequences, FiniteSets

CONSTANTS
    BLOCK_BITNUM, TABLE_INTERVAL, Word,
    IdField, NumField,    \* ids of the fields; no document has any other
    IdLists, Nums,        \* the values of the two fields
    MaxDocuments,
    Tokens, Thresholds,   \* queries of ids
    Bounds,               \* <<lower, upper>> of a query of numbers, in halves
    NoBound

VARIABLES
    documents,            \* what Build was given
    feature_offset,       \* by field: begin, end, and the offsets by id
    wavelet_tree,
    query, results,       \* the last query, and what it has found
    answer                \* what Retrieval returned

vars == <<documents, feature_offset, wavelet_tree, query, results, answer>>

Ext == INSTANCE SequencesExt
M == INSTANCE WaveletMatrix
T == INSTANCE WaveletTree

NoQuery == <<>>

Init ==
    /\ documents = <<>> /\ feature_offset = <<>> /\ wavelet_tree = M!Fresh
    /\ query = NoQuery /\ results = <<>> /\ answer = FALSE

-----------------------------------------------------------------------------
\* uint64_t(field.num()), and a bound as a key of the map
Truncated(num) == num \div 2

\* BuildFiled: the ids under which a field of a document is posted.
BuildFiled(field) ==
    CASE field.type = "TYPE_NUM" -> <<Truncated(field.num)>>
      [] field.type = "TYPE_ID"  -> field.id

\* BuildDocument for each: every posting, in the order it is made.
BuildDocuments(docs) ==
    LET Of(doc, field) ==
          [k \in DOMAIN BuildFiled(field) |->
             [field |-> field.field_id, id |-> BuildFiled(field)[k], docid |-> doc.index]]
    IN  Ext!FlattenSeq([d \in DOMAIN docs |->
          Ext!FlattenSeq([f \in DOMAIN docs[d].field |-> Of(docs[d], docs[d].field[f])])])

Less(a, b) == a.field < b.field \/ (a.field = b.field /\ a.id < b.id)

\* BuildFieldOffset for each field: the maps are walked in the order of their keys.
Postings(all) ==
    LET Before(j, i) == Less(all[j], all[i]) \/ (~Less(all[i], all[j]) /\ j < i)
        Place(i) == 1 + Cardinality({j \in DOMAIN all : Before(j, i)})
    IN  [k \in DOMAIN all |-> all[CHOOSE i \in DOMAIN all : Place(i) = k].docid]

FeatureOffset(all) ==
    LET Count(P(_)) == Cardinality({i \in DOMAIN all : P(all[i])})
        Fields == {all[i].field : i \in DOMAIN all}
        Ids(f) == {all[i].id : i \in {j \in DOMAIN all : all[j].field = f}}
    IN  [f \in Fields |->
           [begin |-> Count(LAMBDA e : e.field < f), end |-> Count(LAMBDA e : e.field <= f),
            map |-> [i \in Ids(f) |->
              [begin |-> Count(LAMBDA e : Less(e, [field |-> f, id |-> i])),
               end |-> Count(LAMBDA e : ~Less([field |-> f, id |-> i], e))]]]]

\* Build, BuildWavletTree: once, see WaveletMatrix!Clear.
Build(docs) ==
    /\ documents = <<>>
    /\ documents' = docs
    /\ \E all \in {BuildDocuments(docs)} : \E postings \in {Postings(all)} :
         /\ feature_offset' = FeatureOffset(all)
         /\ wavelet_tree' = M!Init(postings)
    /\ UNCHANGED <<query, results, answer>>

\* A token that no document has is left out.
BuildIdFieldPattern(offset, id_query) ==
    LET found == SelectSeq(id_query.token, LAMBDA t : t.id \in DOMAIN offset.map)
    IN  [k \in DOMAIN found |->
           [begin |-> offset.map[found[k].id].begin, end |-> offset.map[found[k].id].end,
            weight |-> found[k].weight]]

\* lower_bound is the first id that is not less, upper_bound the first that is more; the
\* range ends behind the latter.  A lower bound above every id is outside the map.
BuildRangeFieldPattern(offset, range_query) ==
    LET ids == DOMAIN offset.map
        Key(bound) == IF bound = NoBound THEN 0 ELSE Truncated(bound)
        lower == {i \in ids : i >= Key(range_query.lower)}
        upper == {i \in ids : i > Key(range_query.upper)}
    IN  <<[begin |-> IF lower # ids /\ range_query.lower # NoBound
                       THEN offset.map[M!Min(lower)].begin ELSE offset.begin,
           end |-> IF upper # {} /\ range_query.upper # NoBound
                     THEN offset.map[M!Min(upper)].end ELSE offset.end,
           weight |-> 1]>>

BuildFieldPattern(field_query) ==
    LET offset == feature_offset[field_query.field_id]
    IN  CASE field_query.type = "FIELD_QUERY_ID" ->
               [ranges |-> BuildIdFieldPattern(offset, field_query), thres |-> field_query.thres]
          [] field_query.type = "FIELD_QUERY_RANGE" ->
               [ranges |-> BuildRangeFieldPattern(offset, field_query), thres |-> 1]

Known(q) == \A f \in DOMAIN q : q[f].field_id \in DOMAIN feature_offset

\* The lower bound is not above every number (the code reads past the map's end).
InRange(q) ==
    \A f \in DOMAIN q :
      (q[f].type = "FIELD_QUERY_RANGE" /\ q[f].lower # NoBound) =>
        \E i \in DOMAIN feature_offset[q[f].field_id].map : i >= Truncated(q[f].lower)

\* A field that no document has ends the call: here CHECK is the macro of
\* framework/common/base_functor.h, which returns false.
Retrieval(q) ==
    /\ query = NoQuery /\ (Known(q) => InRange(q))
    /\ query' = q /\ answer' = Known(q)
    /\ IF Known(q)
         THEN \E pattern \in {[f \in DOMAIN q |-> BuildFieldPattern(q[f])]} :
                results' = T!Retrieval(wavelet_tree, pattern)
         ELSE UNCHANGED results
    /\ UNCHANGED <<documents, feature_offset, wavelet_tree>>

\* The caller has the results, and may query again.
Answered ==
    /\ query # NoQuery
    /\ query' = NoQuery /\ results' = <<>> /\ answer' = FALSE
    /\ UNCHANGED <<documents, feature_offset, wavelet_tree>>

-----------------------------------------------------------------------------
DocumentFields(ids, num) ==
    <<[type |-> "TYPE_ID", field_id |-> IdField, id |-> ids],
      [type |-> "TYPE_NUM", field_id |-> NumField, num |-> num]>>

\* Documents are numbered from 1.
Documents ==
    UNION {{[d \in 1..n |-> [index |-> d, field |-> DocumentFields(c[d][1], c[d][2])]] :
              c \in [1..n -> IdLists \X Nums]} : n \in 1..MaxDocuments}

IdQueries ==
    {[type |-> "FIELD_QUERY_ID", field_id |-> IdField, token |-> t, thres |-> h] :
       t \in Tokens, h \in Thresholds}
RangeQueries ==
    {[type |-> "FIELD_QUERY_RANGE", field_id |-> NumField, lower |-> b[1], upper |-> b[2]] :
       b \in Bounds}
Queries ==
    {<<q>> : q \in IdQueries \cup RangeQueries} \cup {<<i, r>> : i \in IdQueries, r \in RangeQueries}

Next ==
    \/ \E docs \in Documents : Build(docs)
    \/ \E q \in Queries : Retrieval(q)
    \/ Answered

Spec == Init /\ [][Next]_vars

-----------------------------------------------------------------------------
IdsOf(doc) == {doc.field[1].id[k] : k \in DOMAIN doc.field[1].id}
NumOf(doc) == doc.field[2].num

\* The weight of the tokens, known to the index, that a document does not have.
\* Tokens of negative weight do not count: where one runs out, its weight is given
\* back, but the branch may have been given up before, at a higher level or for a
\* range that stands earlier in the query.
Missed(doc, field_query) ==
    M!MapThenSumSet(LAMBDA k : field_query.token[k].weight,
      {k \in DOMAIN field_query.token :
         /\ field_query.token[k].weight > 0
         /\ field_query.token[k].id \in DOMAIN feature_offset[IdField].map
         /\ field_query.token[k].id \notin IdsOf(doc)})

\* The weights of a field's tokens reach its threshold.
CanReach(field_query) ==
    field_query.thres <=
      M!MapThenSumSet(LAMBDA k : field_query.token[k].weight,
        {k \in DOMAIN field_query.token :
           field_query.token[k].id \in DOMAIN feature_offset[IdField].map})

\* The descent through the postings gives up no document it should keep.  A document
\* in the bounds, which misses tokens of no more weight than RetrievalEachLevel is told
\* that it may (so one that has all of positive weight in particular), is among the
\* results, whatever the order of the tokens and whatever negative weights stand among
\* them; and the results come once each, in ascending order.
CandidatesAreFound ==
    answer =>
      /\ \A i, j \in DOMAIN results : i < j => results[i] < results[j]
      /\ \A d \in DOMAIN documents :
           (\A f \in DOMAIN query :
              IF query[f].type = "FIELD_QUERY_ID"
                THEN CanReach(query[f]) /\ Missed(documents[d], query[f]) <= query[f].thres
                ELSE /\ query[f].lower # NoBound => query[f].lower <= NumOf(documents[d])
                     /\ query[f].upper # NoBound => NumOf(documents[d]) <= query[f].upper)
             => \E i \in DOMAIN results : results[i] = documents[d].index
=============================================================================
