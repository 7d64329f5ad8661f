------------------------------ MODULE WatArray ------------------------------
(****************************************************************************)
(* retrieval/fuzzy/wavelet/wat_array: an array of numbers as a wavelet      *)
(* tree, level by level.  Level i holds the i-th bits of the numbers, those *)
(* with the same first i bits together, in the order of their prefixes;     *)
(* occs has a one before the occurrences of every number.  Objects are      *)
(* records.                                                                 *)
(****************************************************************************)
EXTENDS Integers, Sequences, FiniteSetsExt

CONSTANTS BLOCK_BITNUM, TABLE_INTERVAL, Word

Bits == INSTANCE BitArray

NOTFOUND == Bits!NOTFOUND

Minus(a, b) == (a - b) % Word

Fresh == [alphabet_num |-> 0, alphabet_bit_num |-> 0, length |-> 0,
          bit_arrays |-> <<>>, occs |-> Bits!EmptyBits]

GetAlphabetNum(array) ==
    IF array = <<>> THEN 0 ELSE 1 + Max({array[j] : j \in DOMAIN array})

Log2(x) == IF x = 0 THEN 0 ELSE Min({b \in 0..x : 2^b > x - 1})

\* The first len of the bits of x, and its bit at pos from either end.
PrefixCode(x, len, bits) == x \div 2^(bits - len)
GetMSB(x, pos, len) == (x \div 2^(len - pos - 1)) % 2
GetLSB(x, pos) == (x \div 2^pos) % 2


SetOccs(array, num) ==
    LET Before(c) == Cardinality({j \in DOMAIN array : array[j] < c}) + c
    IN  Bits!Build(Bits!SetBits(Bits!InitBits(Len(array) + num + 1),
                                {Before(c) : c \in 0..num}))

\* GetBegPoses: where the numbers with a prefix of i bits begin at level i.
BegPos(array, bits, i, prefix) ==
    Cardinality({j \in DOMAIN array : PrefixCode(array[j], i, bits) < prefix})

\* bit_arrays_[i]
SetArray(array, bits, i) ==
    LET Prefix(j) == PrefixCode(array[j], i, bits)
        Place(j) == BegPos(array, bits, i, Prefix(j))
                      + Cardinality({k \in 1..j - 1 : Prefix(k) = Prefix(j)})
        ones == {Place(j) : j \in {k \in DOMAIN array : GetMSB(array[k], i, bits) = 1}}
    IN  Bits!Build(Bits!SetBits(Bits!InitBits(Len(array)), ones))

\* Init clears the object first: nothing of what it held remains.
Init(array) ==
    LET Set[num \in Nat, bits \in Nat] ==
          [alphabet_num |-> num, alphabet_bit_num |-> bits, length |-> Len(array),
           bit_arrays |-> [i \in 0..bits - 1 |-> SetArray(array, bits, i)],
           occs |-> SetOccs(array, num)]
    IN  Set[GetAlphabetNum(array), Log2(GetAlphabetNum(array))]

\* A node of the tree: it is beg..end of level `depth`, its numbers begin with the bits of
\* prefix_char, and from..to is the range of interest in it.  The numbers beside it are
\* counted in less and more; k is that of QuantileRange.
Nodes == [beg : Nat, end : Nat, from : Nat, to : Nat, depth : Nat, prefix_char : Nat,
          less : Nat, more : Nat, k : Nat]

Root(w, from, to, k) ==
    [beg |-> 0, end |-> w.length, from |-> from, to |-> to, depth |-> 0, prefix_char |-> 0,
     less |-> 0, more |-> 0, k |-> k]

Width(at) == at.to - at.from

\* The child for the bit, with the part of the range that is in it.
Child(w, at, bit) ==
    LET Has(b, pos) == Bits!Rank(w.bit_arrays[at.depth], b, pos)
        boundary == at.beg + Has(0, at.end) - Has(0, at.beg)
        first == IF bit = 0 THEN at.beg ELSE boundary
        Into(pos) == first + Has(bit, pos) - Has(bit, at.beg)
        beside == Has(1 - bit, at.to) - Has(1 - bit, at.from)
    IN  [at EXCEPT !.beg = first, !.end = IF bit = 0 THEN boundary ELSE @,
                   !.from = Into(@), !.to = Into(@),
                   !.depth = @ + 1, !.prefix_char = 2 * @ + bit,
                   !.less = IF bit = 1 THEN @ + beside ELSE @,
                   !.more = IF bit = 0 THEN @ + beside ELSE @]

Lookup(w, pos) ==
    LET Walk[at \in Nodes] ==
          IF at.depth = w.alphabet_bit_num THEN at.prefix_char
          ELSE Walk[Child(w, at, Bits!Lookup(w.bit_arrays[at.depth], at.from))]
    IN  IF pos >= w.length THEN NOTFOUND ELSE Walk[Root(w, pos, pos, 0)]

\* How many numbers of A[0 .. pos) are c, less and more.
RankAll(w, c, pos) ==
    LET Walk[at \in Nodes] ==
          IF at.depth = w.alphabet_bit_num \/ at.beg >= at.end
            THEN [rank |-> Width(at), less |-> at.less, more |-> at.more]
            ELSE Walk[Child(w, at, GetMSB(c, at.depth, w.alphabet_bit_num))]
    IN  IF c >= w.alphabet_num
          THEN [rank |-> NOTFOUND, less |-> NOTFOUND, more |-> NOTFOUND]
          ELSE Walk[Root(w, 0, Min({pos, w.length}), 0)]

Rank(w, c, pos) == RankAll(w, c, pos).rank
RankLessThan(w, c, pos) == RankAll(w, c, pos).less
RankMoreThan(w, c, pos) == RankAll(w, c, pos).more

FreqRange(w, min_c, max_c, begin_pos, end_pos) ==
    IF \/ min_c >= w.alphabet_num \/ max_c <= min_c
       \/ end_pos > w.length \/ begin_pos > end_pos
      THEN 0
      ELSE ( RankLessThan(w, max_c, end_pos) - RankLessThan(w, min_c, end_pos)
             - RankLessThan(w, max_c, begin_pos) + RankLessThan(w, min_c, begin_pos)) % Word

Freq(w, c) ==
    IF c >= w.alphabet_num
      THEN NOTFOUND
      ELSE Bits!Select(w.occs, 1, c + 2) - Bits!Select(w.occs, 1, c + 1) - 1

FreqSum(w, min_c, max_c) ==
    IF max_c > w.alphabet_num \/ min_c > max_c
      THEN NOTFOUND
      ELSE Bits!Select(w.occs, 1, max_c + 1) - Bits!Select(w.occs, 1, min_c + 1)
             - (max_c - min_c)

\* The position of the rank-th c, ranks counted from 1; the last is never found.
Select(w, c, rank) ==
    LET bits == w.alphabet_bit_num
        BegNode(i) == Bits!Select(w.occs, 1, c - (c % 2^(i + 1)) + 1) - (c - (c % 2^(i + 1)))
        InLevel(ba, bit, beg_node, r) ==
          Bits!Select(ba, bit, Bits!Rank(ba, bit, beg_node) + r) - beg_node + 1
        Up[i \in Nat, r \in Nat] ==
          IF i = bits THEN r
          ELSE Up[i + 1, InLevel(w.bit_arrays[bits - i - 1], GetLSB(c, i), BegNode(i), r)]
    IN  IF c >= w.alphabet_num \/ rank >= Freq(w, c) THEN NOTFOUND ELSE Up[0, rank] - 1

\* The k-th smallest number of A[begin_pos .. end_pos), k from 0, and where Select
\* finds its first occurrence in the range.
QuantileRange(w, begin_pos, end_pos, k) ==
    LET Walk[at \in Nodes] ==
          LET zeros == Width(Child(w, at, 0))
          IN  IF at.depth = w.alphabet_bit_num
                THEN [pos |-> Select(w, at.prefix_char, at.from - at.beg + 1),
                      val |-> at.prefix_char]
              ELSE IF zeros > at.k THEN Walk[Child(w, at, 0)]
              ELSE Walk[[Child(w, at, 1) EXCEPT !.k = @ - zeros]]
    IN  IF end_pos > w.length \/ begin_pos >= end_pos
          THEN [pos |-> NOTFOUND, val |-> NOTFOUND]
          ELSE Walk[Root(w, begin_pos, end_pos, k)]

MaxRange(w, begin_pos, end_pos) ==
    QuantileRange(w, begin_pos, end_pos, Minus(end_pos - begin_pos, 1))
MinRange(w, begin_pos, end_pos) == QuantileRange(w, begin_pos, end_pos, 0)

\* Some number with that prefix is in min_c .. max_c - 1.
CheckPrefix(w, prefix, depth, min_c, max_c) ==
    /\ PrefixCode(min_c, depth, w.alphabet_bit_num) <= prefix
    /\ PrefixCode(Minus(max_c, 1), depth, w.alphabet_bit_num) >= prefix

\* The children of a node that have a part of its range.
ExpandNode(w, min_c, max_c, qon) ==
    {child \in {Child(w, qon, bit) : bit \in {0, 1}} :
       /\ Width(child) > 0
       /\ CheckPrefix(w, child.prefix_char, child.depth, min_c, max_c)}

\* Whether node a comes after node b.
ListModeComparator(a, b) ==
    IF Width(a) # Width(b) THEN Width(a) < Width(b)
    ELSE IF a.depth # b.depth THEN a.depth < b.depth
    ELSE a.from > b.from

ListMinComparator(a, b) ==
    IF a.depth # b.depth THEN a.depth < b.depth ELSE a.beg > b.beg

ListMaxComparator(a, b) ==
    IF a.depth # b.depth THEN a.depth < b.depth ELSE a.beg < b.beg

\* ListRange: nodes are expanded best first; those of the last level are results.
ListRange(w, by, min_c, max_c, beg_pos, end_pos, num) ==
    LET After(a, b) == CASE by = "mode" -> ListModeComparator(a, b)
                         [] by = "min"  -> ListMinComparator(a, b)
                         [] by = "max"  -> ListMaxComparator(a, b)
        Top(qons) == CHOOSE q \in qons : \A o \in qons \ {q} : After(o, q)
        \* `top` is what is popped next, or nothing
        Loop[qons \in SUBSET Nodes, top \in SUBSET Nodes, res \in Seq([c : Nat, freq : Nat])] ==
          LET qon == CHOOSE q \in top : TRUE
          IN  IF top = {}
                THEN IF Len(res) >= num \/ qons = {} THEN res
                     ELSE Loop[qons, {Top(qons)}, res]
              ELSE IF qon.depth >= w.alphabet_bit_num
                THEN Loop[qons \ top, {}, Append(res, [c |-> qon.prefix_char, freq |-> Width(qon)])]
                ELSE Loop[(qons \ top) \cup ExpandNode(w, min_c, max_c, qon), {}, res]
    IN  IF end_pos > w.length \/ beg_pos >= end_pos THEN <<>>
        ELSE Loop[{Root(w, beg_pos, end_pos, 0)}, {}, <<>>]

ListModeRange(w, min_c, max_c, beg_pos, end_pos, num) ==
    ListRange(w, "mode", min_c, max_c, beg_pos, end_pos, num)
ListMinRange(w, min_c, max_c, beg_pos, end_pos, num) ==
    ListRange(w, "min", min_c, max_c, beg_pos, end_pos, num)
ListMaxRange(w, min_c, max_c, beg_pos, end_pos, num) ==
    ListRange(w, "max", min_c, max_c, beg_pos, end_pos, num)

Save(w) ==
    [alphabet_num |-> w.alphabet_num, length |-> w.length,
     bit_arrays |-> [i \in DOMAIN w.bit_arrays |-> Bits!SaveBits(w.bit_arrays[i])],
     occs |-> Bits!SaveBits(w.occs)]

Load(file) ==
    LET bits == Log2(file.alphabet_num)
    IN  [alphabet_num |-> file.alphabet_num, alphabet_bit_num |-> bits, length |-> file.length,
         bit_arrays |-> [i \in 0..bits - 1 |-> Bits!LoadBits(file.bit_arrays[i])],
         occs |-> Bits!LoadBits(file.occs)]
=============================================================================
