----------------------------- MODULE WaveletTree -----------------------------
(****************************************************************************)
(* retrieval/fuzzy/wavelet/wavelet_tree: weighted retrieval on a            *)
(* WaveletMatrix of postings.  A query has fields, a field ranges of        *)
(* postings, each with a weight.  All ranges are followed down the matrix   *)
(* at once; a branch is given up when the ranges that are empty in it weigh *)
(* more than the field may miss.  Weights are integers here.                *)
(****************************************************************************)
EXTENDS Integers, Sequences

CONSTANTS BLOCK_BITNUM, TABLE_INTERVAL, Word

M == INSTANCE WaveletMatrix

\* Ranges of postings, a field, and what SatisfyCondition keeps for the zeros and the ones:
\* `has` tells the sides that are alive, `ranges` and `thres` are their results.
Ranges == Seq([begin : Nat, end : Nat, weight : Int])
Field  == [ranges : Ranges, thres : Int]
Sides  == [ranges : [{0, 1} -> Ranges], thres : [{0, 1} -> Int],
           has : [{0, 1} -> BOOLEAN], returned : BOOLEAN]

\* Variant: the ranges of the ones are not moved behind the zeros.
PartUnmoved(m, level, range, bit) ==
    LET Rank(pos) == M!Bits!Rank(m.bit_arrays[level], bit, pos)
    IN  [range EXCEPT !.begin = Rank(@), !.end = Rank(@)]

\* The part of a range with that bit, at the next level.
Part(m, level, range, bit) ==
    [range EXCEPT !.begin = M!Down(m, level, bit, @), !.end = M!Down(m, level, bit, @)]

\* What one range does to one side.  A side that runs out when the other is given up
\* already ends the loop, and stays alive.
Side(st, range, part, bit) ==
    LET left == st.thres[bit] - range.weight
    IN  IF st.returned \/ ~st.has[bit] THEN st
        ELSE IF part.begin < part.end THEN [st EXCEPT !.ranges[bit] = Append(@, part)]
        ELSE IF left >= 0 THEN [st EXCEPT !.thres[bit] = left]
        ELSE IF st.has[1 - bit] THEN [st EXCEPT !.thres[bit] = left, !.has[bit] = FALSE]
        ELSE [st EXCEPT !.thres[bit] = left, !.returned = TRUE]

SatisfyCondition(m, level, field, has) ==
    LET Loop[k \in Nat, bit \in {0, 1}, st \in Sides] ==
          IF k > Len(field.ranges) THEN st
          ELSE Loop[IF bit = 0 THEN k ELSE k + 1, 1 - bit,
                    Side(st, field.ranges[k], Part(m, level, field.ranges[k], bit), bit)]
    IN  Loop[1, 0, [ranges |-> [bit \in {0, 1} |-> <<>>],
                    thres |-> [bit \in {0, 1} |-> field.thres],
                    has |-> has, returned |-> FALSE]]

\* The fields one after another, each given the sides that are alive; then the zeros, then
\* the ones, one level down.
RetrievalEachLevel(m, query, level, symbol) ==
    LET Kept(next, st) ==
          [bit \in {0, 1} |->
             IF st.has[bit]
               THEN Append(next[bit], [ranges |-> st.ranges[bit], thres |-> st.thres[bit]])
               ELSE next[bit]]
        Fields[q \in Seq(Field), i \in Nat, f \in Nat,
               has \in [{0, 1} -> BOOLEAN], next \in [{0, 1} -> Seq(Field)]] ==
          LET st == SatisfyCondition(m, i, q[f], has)
          IN  IF f > Len(q) \/ (~has[0] /\ ~has[1]) THEN [has |-> has, next |-> next]
              ELSE Fields[q, i, f + 1, st.has, Kept(next, st)]
        Descend[q \in Seq(Field), i \in Nat, sym \in Nat] ==
          LET last == Fields[q, i, 1, [bit \in {0, 1} |-> TRUE], [bit \in {0, 1} |-> <<>>]]
              Below(bit) ==
                IF last.has[bit]
                  THEN Descend[last.next[bit], i + 1,
                               sym + bit * 2^(m.alphabet_bit_num - i - 1)]
                  ELSE <<>>
          IN  IF i = m.alphabet_bit_num THEN <<sym>> ELSE Below(0) \o Below(1)
    IN  Descend[query, level, symbol]

\* The loop works on a copy of each field: what a field may miss stays its thres.
Retrieval(m, query) ==
    LET Sum[f \in 0..Len(query)] ==       \* over all the fields so far
          IF f = 0 THEN 0
          ELSE Sum[f - 1] + M!MapThenSumSet(LAMBDA k : query[f].ranges[k].weight,
                                            DOMAIN query[f].ranges)
    IN  IF \E f \in DOMAIN query : query[f].thres > Sum[f] THEN <<>>
        ELSE RetrievalEachLevel(m, query, 0, 0)
=============================================================================
