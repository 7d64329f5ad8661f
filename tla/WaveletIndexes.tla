---------------------------- MODULE WaveletIndexes ---------------------------
(***************************************************************************)
(* The index structures of retrieval/fuzzy/wavelet in use: a BitArray that *)
(* is filled bit by bit, and an array of numbers held by a WaveletMatrix   *)
(* and by a WatArray.  The queries are const; the properties compare them  *)
(* with their definitions on the array.                                    *)
(***************************************************************************)
EXTENDS Integers, Sequences, FiniteSetsExt

CONSTANTS
    BLOCK_BITNUM, TABLE_INTERVAL, Word,
    BitLengths,      \* lengths of the bit array
    MaxMinority,     \* bound: set bits, or bits left out among them
    Numbers,         \* the numbers of an array
    MaxLength        \* bound on its length

VARIABLES
    bits, ones, built,         \* a BitArray; the positions set; Build was last
    matrix, wat, array         \* the two indexes, and the array they hold

vars == <<bits, ones, built, matrix, wat, array>>

B == INSTANCE BitArray
M == INSTANCE WaveletMatrix
W == INSTANCE WatArray

NOTFOUND == B!NOTFOUND

Init ==
    /\ bits = B!EmptyBits /\ ones = {} /\ built = FALSE
    /\ matrix = M!Fresh /\ wat = W!Fresh /\ array = <<>>

-----------------------------------------------------------------------------
InitBits(length) ==
    /\ bits = B!EmptyBits
    /\ bits' = B!InitBits(length) /\ ones' = {} /\ built' = FALSE
    /\ UNCHANGED <<matrix, wat, array>>

\* The order in which bits are set makes no difference; here it is from left to right.
SetBit(pos) ==
    /\ pos < bits.length /\ ~built /\ \A p \in ones : p < pos
    /\ Min({Cardinality(ones), pos - Cardinality(ones)}) <= MaxMinority
    /\ bits' = B!SetBits(bits, {pos}) /\ ones' = ones \cup {pos}
    /\ UNCHANGED <<built, matrix, wat, array>>

BuildBits ==
    /\ ~built /\ bits # B!EmptyBits
    /\ bits' = B!Build(bits) /\ built' = TRUE
    /\ UNCHANGED <<ones, matrix, wat, array>>

\* Save, and Load into another object.
ReloadBits ==
    /\ built
    /\ bits' = B!LoadBits(B!SaveBits(bits))
    /\ UNCHANGED <<ones, built, matrix, wat, array>>

ClearBits ==
    /\ bits' = B!EmptyBits /\ ones' = {} /\ built' = FALSE
    /\ UNCHANGED <<matrix, wat, array>>

\* A WaveletMatrix is given an array once: see Clear.
InitIndexes(a) ==
    /\ matrix = M!Fresh
    /\ matrix' = M!Init(a) /\ wat' = W!Init(a) /\ array' = a
    /\ UNCHANGED <<bits, ones, built>>

ClearIndexes ==
    /\ matrix' = M!Clear(matrix) /\ wat' = W!Fresh /\ array' = <<>>
    /\ UNCHANGED <<bits, ones, built>>

\* Save, and Load into other objects.
ReloadIndexes ==
    /\ matrix # M!Fresh
    /\ matrix' = M!Load(M!Save(matrix)) /\ wat' = W!Load(W!Save(wat))
    /\ UNCHANGED <<bits, ones, built, array>>

Arrays == UNION {[1..n -> Numbers] : n \in 0..MaxLength}

\* The bit array and the indexes are independent: one of the two is in use.
Next ==
    \/ /\ matrix = M!Fresh
       /\ \/ \E length \in BitLengths : InitBits(length)
          \/ \E pos \in 0..Max(BitLengths) : SetBit(pos)
          \/ BuildBits \/ ReloadBits \/ ClearBits
    \/ /\ bits = B!EmptyBits
       /\ \/ \E a \in Arrays : InitIndexes(a)
          \/ ClearIndexes \/ ReloadIndexes

Spec == Init /\ [][Next]_vars

-----------------------------------------------------------------------------
\* The rank-th position of a set, ranks counted from 1.
Nth(S, rank) == CHOOSE p \in S : Cardinality({o \in S : o <= p}) = rank

\* Rank counts the bits before a position and Select is its inverse, whatever blocks
\* and tables the bits fall into, as built and as loaded (Rank, Select, Lookup).
BitsAreExact ==
    built =>
      LET Where(bit) == {p \in 0..bits.length - 1 : (p \in ones) = (bit = 1)}
      IN  \A bit \in {0, 1} :
            /\ \A pos \in 0..bits.length :
                 B!Rank(bits, bit, pos) = Cardinality({p \in Where(bit) : p < pos})
            /\ \A rank \in 1..Cardinality(Where(bit)) :
                 B!Select(bits, bit, rank) = Nth(Where(bit), rank)
            /\ B!Select(bits, bit, Cardinality(Where(bit)) + 1) = NOTFOUND
            /\ \A pos \in Where(bit) : B!Lookup(bits, pos) = bit

\* Positions from b to before e with a number that is c.
At(c, b, e) == {p \in b..e - 1 : array[p + 1] = c}
In(S, b, e) == {p \in b..e - 1 : array[p + 1] \in S}

Length == Len(array)
AlphabetNum == M!GetAlphabetNum(array)

\* The numbers from b to before e that are c, less and more.
Counts(c, b, e) ==
    [rank |-> Cardinality(At(c, b, e)), less |-> Cardinality(In(0..c - 1, b, e)),
     more |-> Cardinality(In(c + 1..AlphabetNum, b, e))]

\* k numbers from b to before e are less than this one, or equal and before it.
IsKth(p, k, b, e) ==
    Cardinality({o \in b..e - 1 : \/ array[o + 1] < array[p + 1]
                                  \/ array[o + 1] = array[p + 1] /\ o < p}) = k

\* A WaveletMatrix answers as the array would, as built and as loaded.  SelectFromPos
\* inverts Rank: it is the end of the shortest range from `pos` that holds c `rank`
\* times.  QuantileRange finds the k-th smallest number, and where it stands when equal
\* numbers are in the order of their positions.  (The header has other words for both:
\* see SelectIsAsDocumented and README.)  The tables of a one-letter alphabet
\* (alphabet_bit_num_ = 0) have no last level, so Rank, Select and QuantileRange have no
\* meaning there; ranks are those the array has, from 1.
MatrixIsArray ==
    /\ \A pos \in 0..Length :
         M!Lookup(matrix, pos) = IF pos < Length THEN array[pos + 1] ELSE NOTFOUND
    /\ \A c \in 0..AlphabetNum - 1, b \in 0..Length - 1, e \in 0..Length :
         /\ M!RankAll(matrix, c, b, e) = Counts(c, b, e)
         /\ \A max_c \in c + 1..AlphabetNum - 1 :
              M!FreqRange(matrix, c, max_c, b, e) = Cardinality(In(c..max_c - 1, b, e))
    /\ AlphabetNum > 1 =>
         /\ \A c \in 0..AlphabetNum - 1 :
              /\ \A pos \in 0..Length : M!Rank(matrix, c, pos) = Cardinality(At(c, 0, pos))
              /\ \A pos \in 0..Length - 1 :
                   \A rank \in 1..Cardinality(At(c, pos, Length)) :
                     M!SelectFromPos(matrix, c, pos, rank) =
                       Min({e \in pos..Length : Cardinality(At(c, pos, e)) = rank})
         /\ \A b \in 0..Length, e \in 0..Length : \A k \in 0..e - b - 1 :
              \A q \in {M!QuantileRange(matrix, b, e, k)} :
                q.pos \in b..e - 1 /\ q.val = array[q.pos + 1] /\ IsKth(q.pos, k, b, e)

\* Select is, in the words of wavelet_matrix.h:92-97 (and of wat_array.h:111-116), the
\* position of the (rank+1)-th occurrence.  WaveletMatrix::Select goes up from the rank-th
\* and adds one at every level: what it returns is the position behind that one.
SelectIsAsDocumented ==
    AlphabetNum > 1 =>
      \A c \in 0..AlphabetNum - 1 : \A rank \in 1..Cardinality(At(c, 0, Length)) - 1 :
        M!Select(matrix, c, rank) = Nth(At(c, 0, Length), rank + 1)

\* A WatArray answers as the array would, as built and as loaded.  Select finds the
\* rank-th occurrence, where the header promises the (rank+1)-th, and its check of the
\* rank takes the last for one too many.  QuantileRange looks the position up with
\* Select: the smallest position of its number in the range, as the header says, but
\* NOTFOUND if that is the number's last in the whole array.
WatIsArray ==
    /\ \A pos \in 0..Length :
         W!Lookup(wat, pos) = IF pos < Length THEN array[pos + 1] ELSE NOTFOUND
    /\ \A c \in 0..AlphabetNum - 1 :
         /\ \A pos \in 0..Length : W!RankAll(wat, c, pos) = Counts(c, 0, pos)
         /\ W!Freq(wat, c) = Cardinality(At(c, 0, Length))
         /\ \A rank \in 1..Cardinality(At(c, 0, Length)) - 1 :
              W!Select(wat, c, rank) = Nth(At(c, 0, Length), rank)
         /\ \A max_c \in c..AlphabetNum :
              W!FreqSum(wat, c, max_c) = Cardinality(In(c..max_c - 1, 0, Length))
    /\ \A b \in 0..Length, e \in 0..Length : \A k \in 0..e - b - 1 :
         \A q \in {W!QuantileRange(wat, b, e, k)} :
           /\ \E p \in b..e - 1 : array[p + 1] = q.val /\ IsKth(p, k, b, e)
           /\ \E first \in {Min(At(q.val, b, e))} :
                q.pos = IF At(q.val, first + 1, Length) = {} THEN NOTFOUND ELSE first

\* The lists of a range (ListModeRange, ListMinRange, ListMaxRange) hold each number of
\* the range between min_c and max_c once, with its frequency, in the order asked for,
\* and stop at `num`: best-first expansion never passes over a better number.
ListsAreOrdered ==
    \A b \in 0..Length, e \in 0..Length, min_c \in 0..AlphabetNum :
      \A max_c \in min_c + 1..AlphabetNum, num \in 0..3 :
        LET wanted == {array[p + 1] : p \in In(min_c..max_c - 1, b, e)}
            Freq(c) == Cardinality(At(c, b, e))
            Lists(res, Before(_, _)) ==
              /\ Len(res) = Min({num, Cardinality(wanted)})
              /\ \A i \in DOMAIN res : res[i].c \in wanted /\ res[i].freq = Freq(res[i].c)
              /\ \A i, j \in DOMAIN res : i < j => res[i].c # res[j].c
              /\ \A i \in DOMAIN res :
                   \A c \in wanted \ {res[j].c : j \in 1..i} : Before(res[i].c, c)
        IN  AlphabetNum > 1 =>
              /\ Lists(W!ListModeRange(wat, min_c, max_c, b, e, num),
                       LAMBDA x, y : Freq(x) >= Freq(y))
              /\ Lists(W!ListMinRange(wat, min_c, max_c, b, e, num), LAMBDA x, y : x < y)
              /\ Lists(W!ListMaxRange(wat, min_c, max_c, b, e, num), LAMBDA x, y : x > y)
=============================================================================
