---------------------------- MODULE WaveletMatrix ----------------------------
(***************************************************************************)
(* retrieval/fuzzy/wavelet/wavelet_matrix: an array of numbers as one bit  *)
(* array per bit of the alphabet, most significant bit first.  Level i + 1 *)
(* holds the numbers of level i stably sorted by their i-th bit;           *)
(* node_begin_pos[i] tells where the numbers with a given prefix of i + 1  *)
(* bits begin there, by the prefix read backwards.  Objects are records.   *)
(***************************************************************************)
EXTENDS Integers, Sequences, FiniteSetsExt

CONSTANTS BLOCK_BITNUM, TABLE_INTERVAL, Word

Bits == INSTANCE BitArray

NOTFOUND == Bits!NOTFOUND

\* uint64_t subtraction
Minus(a, b) == (a - b) % Word

\* The i-th bit of c, of `bits` bits, from the most significant.
BitOf(c, i, bits) == (c \div 2^(bits - i - 1)) % 2

Fresh == [alphabet_num |-> 0, alphabet_bit_num |-> 0, length |-> 0, bit_arrays |-> <<>>,
          node_begin_pos |-> <<>>, zero_counts |-> <<>>, bit_reverse_table |-> <<>>]

\* The tables are left behind.
Clear(m) ==
    [m EXCEPT !.bit_arrays = <<>>, !.alphabet_num = 0, !.alphabet_bit_num = 0, !.length = 0]

GetAlphabetNum(array) ==
    IF array = <<>> THEN 0 ELSE 1 + Max({array[j] : j \in DOMAIN array})

Log2(x) == IF x = 0 THEN 0 ELSE Min({b \in 0..x : 2^b > x - 1})

\* bit_reverse_table_[k], of numbers of `bits` bits
Reversed[bits \in Nat, k \in Nat] ==
    LET i == Max({b \in 0..bits - 1 : 2^b <= k})
    IN  IF k = 0 THEN 0 ELSE Reversed[bits, k - 2^i] + 2^(bits - i - 1)

SetBitReverseTable(bits) == [k \in 0..2^bits - 1 |-> Reversed[bits, k]]

\* get_reversed_first_bits: the first i of the `bits` bits of x, backwards.
FirstBits(x, bits, i) == Reversed[bits, x - (x % 2^(bits - i))]

\* node_begin_pos_[i]: the counts of the nodes, summed up.
NodeBeginPos(array, bits, i) ==
    LET Node(j) == FirstBits(array[j], bits, i) + BitOf(array[j], i, bits) * 2^i
    IN  [n \in 0..2^(i + 1) |-> Cardinality({j \in DOMAIN array : Node(j) + 1 <= n})]

\* bit_arrays_[i]: the numbers go to their nodes in the order of the array.
Level(array, bits, i) ==
    LET Node(j) == FirstBits(array[j], bits, i)
        \* prev_begin_pos[subscript]++
        Place(j) ==
          (IF i = 0 THEN 0 ELSE NodeBeginPos(array, bits, i - 1)[Node(j)])
            + Cardinality({k \in 1..j - 1 : Node(k) = Node(j)})
        ones == {Place(j) : j \in {k \in DOMAIN array : BitOf(array[k], i, bits) = 1}}
    IN  Bits!Build(Bits!SetBits(Bits!InitBits(Len(array)), ones))

\* Init and SetArray, of an object that is new.
Init(array) ==
    LET Set[num \in Nat, bits \in Nat] ==
          [alphabet_num |-> num, alphabet_bit_num |-> bits, length |-> Len(array),
           bit_arrays |-> [i \in 0..bits - 1 |-> Level(array, bits, i)],
           node_begin_pos |-> [i \in 0..bits - 1 |-> NodeBeginPos(array, bits, i)],
           zero_counts |-> [i \in 0..bits - 1 |-> NodeBeginPos(array, bits, i)[2^i]],
           bit_reverse_table |-> SetBitReverseTable(bits)]
    IN  IF array = <<>> THEN Fresh
        ELSE Set[GetAlphabetNum(array), Log2(GetAlphabetNum(array))]

\* Where position `pos` of level i is at the next level, if its bit is `bit`.
Down(m, i, bit, pos) ==
    Bits!Rank(m.bit_arrays[i], bit, pos) + (IF bit = 1 THEN m.zero_counts[i] ELSE 0)

Lookup(m, pos) ==
    LET Walk[i \in Nat, index \in Nat, c \in Nat] ==
          LET bit == Bits!Lookup(m.bit_arrays[i], index)
          IN  IF i = m.alphabet_bit_num THEN c
              ELSE Walk[i + 1, Down(m, i, bit, index), 2 * c + bit]
    IN  IF pos >= m.length THEN NOTFOUND ELSE Walk[0, pos, 0]

\* The loop of Rank and SelectFromPos: `pos`, followed down for the number c.
Follow(m, c, pos) ==
    LET Walk[i \in Nat, index \in Nat] ==
          IF i = m.alphabet_bit_num THEN index
          ELSE Walk[i + 1, Down(m, i, BitOf(c, i, m.alphabet_bit_num), index)]
    IN  Walk[0, pos]

\* Where the occurrences of c begin below the last level.
BeginOf(m, c) == m.node_begin_pos[m.alphabet_bit_num - 1][m.bit_reverse_table[c]]

Rank(m, c, pos) ==
    IF c >= m.alphabet_num \/ pos > m.length
      THEN NOTFOUND
      ELSE Minus(Follow(m, c, pos), BeginOf(m, c))

Freq(m, c) == Rank(m, c, m.length)

FreqSum(m, min_c, max_c) == MapThenSumSet(LAMBDA c : Freq(m, c), min_c..max_c - 1) % Word

\* A range on the way down: the node it is in, whether it began at the first and ended
\* at the last position, and the results of RankAll and of QuantileRange so far.
Ranges == [begin : Nat, end : Nat, node : Nat, from_zero : BOOLEAN, to_end : BOOLEAN,
           less : Nat, more : Nat, k : Nat, val : Nat]

Whole(m, begin_pos, end_pos, k) ==
    [begin |-> begin_pos, end |-> end_pos, node |-> 0, from_zero |-> begin_pos = 0,
     to_end |-> end_pos = m.length, less |-> 0, more |-> 0, k |-> k, val |-> 0]

\* Where the zeros of a range of level i are at the next, by the tables where they tell.
BeginZero(m, i, at) ==
    IF at.from_zero THEN m.node_begin_pos[i][at.node]
                    ELSE Bits!Rank(m.bit_arrays[i], 0, at.begin)
EndZero(m, i, at) ==
    IF at.to_end THEN m.node_begin_pos[i][at.node + 1]
                 ELSE Bits!Rank(m.bit_arrays[i], 0, at.end)
ZeroBits(m, i, at) == EndZero(m, i, at) - BeginZero(m, i, at)

\* The numbers of the range with that bit, one level down.
Child(m, i, at, bit) ==
    [at EXCEPT
       !.begin = IF bit = 1 THEN @ + m.zero_counts[i] - BeginZero(m, i, at) ELSE BeginZero(m, i, at),
       !.end   = IF bit = 1 THEN @ + m.zero_counts[i] - EndZero(m, i, at) ELSE EndZero(m, i, at),
       !.node  = @ + bit * 2^i,
       !.less  = IF bit = 1 THEN @ + ZeroBits(m, i, at) ELSE @,
       !.more  = IF bit = 0 THEN @ + at.end - at.begin - ZeroBits(m, i, at) ELSE @]

\* How many numbers of A[begin_pos .. end_pos) are c, less and more.
RankAll(m, c, begin_pos, end_pos) ==
    LET Walk[i \in Nat, at \in Ranges] ==
          IF i = m.alphabet_bit_num
            THEN [rank |-> at.end - at.begin, less |-> at.less, more |-> at.more]
            ELSE Walk[i + 1, Child(m, i, at, BitOf(c, i, m.alphabet_bit_num))]
    IN  IF c >= m.alphabet_num \/ begin_pos >= m.length \/ end_pos > m.length
          THEN [rank |-> NOTFOUND, less |-> NOTFOUND, more |-> NOTFOUND]
        ELSE IF begin_pos >= end_pos THEN [rank |-> 0, less |-> 0, more |-> 0]
        ELSE Walk[0, Whole(m, begin_pos, end_pos, 0)]

RankLessThan(m, c, pos) == RankAll(m, c, 0, pos).less
RankMoreThan(m, c, pos) == RankAll(m, c, 0, pos).more

FreqRange(m, min_c, max_c, begin_pos, end_pos) ==
    IF \/ min_c >= m.alphabet_num \/ max_c <= min_c
       \/ end_pos > m.length \/ begin_pos >= end_pos
      THEN 0
      ELSE Minus(RankAll(m, max_c, begin_pos, end_pos).less,
                 RankAll(m, min_c, begin_pos, end_pos).less)

\* One more than the position of the rank-th c at or after `pos`, ranks counted
\* from 1.  Bits!Select finds nothing as NOTFOUND, which + 1 makes 0.
SelectFromPos(m, c, pos, rank) ==
    LET Bit(i) == BitOf(c, i, m.alphabet_bit_num)
        InLevel(i, index) == Minus(index, IF Bit(i) = 1 THEN m.zero_counts[i] ELSE 0)
        Up[i \in Int, index \in Nat] ==
          IF i < 0 THEN index
          ELSE Up[i - 1, (Bits!Select(m.bit_arrays[i], Bit(i), InLevel(i, index)) + 1) % Word]
    IN  IF c >= m.alphabet_num \/ pos >= m.length THEN NOTFOUND
        ELSE Up[m.alphabet_bit_num - 1,
                (IF pos = 0 THEN BeginOf(m, c) ELSE Follow(m, c, pos)) + rank]

Select(m, c, rank) == SelectFromPos(m, c, 0, rank)

\* One level of QuantileRange: the k-th smallest is among the zeros or the ones.
QuantileStep(m, i, at) ==
    LET bit == IF at.k < ZeroBits(m, i, at) THEN 0 ELSE 1
    IN  [Child(m, i, at, bit) EXCEPT !.val = 2 * @ + bit, !.k = @ - bit * ZeroBits(m, i, at)]

\* The k-th smallest number of A[begin_pos .. end_pos), k from 0, and its position.
QuantileRange(m, begin_pos, end_pos, k) ==
    LET Walk[i \in Nat, at \in Ranges] ==
          LET rank == at.begin + at.k - BeginOf(m, at.val) + 1
          IN  IF i = m.alphabet_bit_num
                THEN [pos |-> Minus(Select(m, at.val, rank), 1), val |-> at.val]
                ELSE Walk[i + 1, QuantileStep(m, i, at)]
    IN  IF end_pos > m.length \/ begin_pos >= end_pos \/ k >= end_pos - begin_pos
          THEN [pos |-> NOTFOUND, val |-> NOTFOUND]
          ELSE Walk[0, Whole(m, begin_pos, end_pos, k)]

MaxRange(m, begin_pos, end_pos) ==
    QuantileRange(m, begin_pos, end_pos, Minus(end_pos - begin_pos, 1))
MinRange(m, begin_pos, end_pos) == QuantileRange(m, begin_pos, end_pos, 0)

Save(m) ==
    [alphabet_num |-> m.alphabet_num, length |-> m.length,
     bit_arrays |-> [i \in DOMAIN m.bit_arrays |-> Bits!SaveBits(m.bit_arrays[i])],
     node_begin_pos |-> [i \in DOMAIN m.bit_arrays |-> m.node_begin_pos[i]]]

\* Everything the object held is replaced.
Load(file) ==
    LET bits == Log2(file.alphabet_num)
    IN  [alphabet_num |-> file.alphabet_num, alphabet_bit_num |-> bits,
         length |-> file.length,
         bit_arrays |-> [i \in 0..bits - 1 |-> Bits!LoadBits(file.bit_arrays[i])],
         node_begin_pos |-> file.node_begin_pos,
         zero_counts |-> [i \in 0..bits - 1 |-> file.node_begin_pos[i][2^i]],
         bit_reverse_table |-> SetBitReverseTable(bits)]
=============================================================================
