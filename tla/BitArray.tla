------------------------------ MODULE BitArray ------------------------------
(***************************************************************************)
(* retrieval/fuzzy/wavelet/bit_array: a bit vector cut into blocks, with   *)
(* the number of ones before every TABLE_INTERVAL-th block in a table, so  *)
(* that rank and select look at few blocks.  An object is a record; a      *)
(* block is the set of the positions of its ones, a vector a function on   *)
(* 0..n-1.  In the code BLOCK_BITNUM is 64, TABLE_INTERVAL 4 and Word      *)
(* 2^64.                                                                   *)
(***************************************************************************)
EXTENDS Integers, FiniteSetsExt

CONSTANTS BLOCK_BITNUM, TABLE_INTERVAL, Word

NOTFOUND == Word - 1

Size(vector) == Cardinality(DOMAIN vector)

\* An array that is constructed without a size, or cleared.
EmptyBits == [length |-> 0, one_num |-> 0, bit_blocks |-> <<>>, rank_tables |-> <<>>]

\* Every caller gives Init an empty array.
InitBits(length) ==
    [EmptyBits EXCEPT
       !.length = length,
       !.bit_blocks = [b \in 0..(length + BLOCK_BITNUM - 1) \div BLOCK_BITNUM - 1 |-> {}]]

\* SetBit(1, pos) for every one of the positions; a bit that is 0 is left alone.
SetBits(ba, positions) ==
    [ba EXCEPT !.bit_blocks = [b \in DOMAIN @ |->
       @[b] \cup {pos % BLOCK_BITNUM : pos \in {p \in positions : p \div BLOCK_BITNUM = b}}]]

PopCount(x) == Cardinality(x)

PopCountMask(x, offset) == Cardinality(x \cap 0..offset - 1)

\* Of `num` bits of which `one_num` are ones, those that are `bit`.
GetBitNum(one_num, num, bit) == IF bit = 1 THEN one_num ELSE num - one_num

Build(ba) ==
    LET blocks == Size(ba.bit_blocks)
        OnesBefore(b) ==
          MapThenSumSet(LAMBDA i : PopCount(ba.bit_blocks[i]), 0..b - 1)
        last == (blocks + TABLE_INTERVAL - 1) \div TABLE_INTERVAL
    IN  [ba EXCEPT
           !.one_num = OnesBefore(blocks),
           !.rank_tables = [t \in 0..last |->
              OnesBefore(IF t = last THEN blocks ELSE t * TABLE_INTERVAL)]]


\* With pos = length at the end of a block the code fetches the block after
\* the last, of which an empty mask keeps nothing.
RankOne(ba, pos) ==
    LET block_ind == pos \div BLOCK_BITNUM
        table_ind == block_ind \div TABLE_INTERVAL
        offset == pos % BLOCK_BITNUM
    IN  ba.rank_tables[table_ind]
          + MapThenSumSet(LAMBDA i : PopCount(ba.bit_blocks[i]),
                          table_ind * TABLE_INTERVAL..block_ind - 1)
          + (IF offset = 0 THEN 0 ELSE PopCountMask(ba.bit_blocks[block_ind], offset))

Rank(ba, bit, pos) ==
    IF pos > ba.length THEN NOTFOUND ELSE GetBitNum(RankOne(ba, pos), pos, bit)

\* The block with the rank-th `bit`, and the rank that is left within it: a
\* binary search in the tables, then block by block.
SelectOutBlock(ba, bit, rank) ==
    LET Search[left \in Nat, right \in Nat] ==
          LET mid == (left + right) \div 2
              length == BLOCK_BITNUM * TABLE_INTERVAL * mid
          IN  IF left >= right THEN left
              ELSE IF GetBitNum(ba.rank_tables[mid], length, bit) < rank
                     THEN Search[mid + 1, right]
                     ELSE Search[left, mid]
        Scan[block_pos \in Nat, left \in Nat] ==
          LET next == GetBitNum(PopCount(ba.bit_blocks[block_pos]), BLOCK_BITNUM, bit)
          IN  IF block_pos >= Size(ba.bit_blocks) \/ left <= next
                THEN [block_pos |-> block_pos, rank |-> left]
                ELSE Scan[block_pos + 1, left - next]
        Start[table_ind \in Int] ==
          LET first == Max({table_ind, 0}) * TABLE_INTERVAL
          IN  Scan[first, rank - GetBitNum(ba.rank_tables[Max({table_ind, 0})],
                                           first * BLOCK_BITNUM, bit)]
    IN  Start[Search[0, Size(ba.rank_tables)] - 1]

\* The position of the rank-th one of a block: by bytes, then halving.  The words x1,
\* x2 and x3 of the code hold the number of ones of each pair, nibble and byte.
SelectInBlock(x, rank) ==
    LET Ones(pos, width) == Cardinality(x \cap pos..pos + width - 1)
        Halve[width \in Nat, pos \in Nat, left \in Nat] ==
          IF width = 0 THEN pos
          ELSE IF left > Ones(pos, width)
                 THEN Halve[width \div 2, pos + width, left - Ones(pos, width)]
                 ELSE Halve[width \div 2, pos, left]
        Byte[pos \in Nat, left \in Nat] ==
          IF left <= Ones(pos, 8) THEN Halve[4, pos, left]
          ELSE Byte[pos + 8, left - Ones(pos, 8)]
    IN  Byte[0, rank]

\* The position of the rank-th `bit`, counted from 1.
Select(ba, bit, rank) ==
    LET Found[block_pos \in Nat, left \in Nat] ==
          LET ones == ba.bit_blocks[block_pos]
              block == IF bit = 1 THEN ones ELSE (0..BLOCK_BITNUM - 1) \ ones
          IN  block_pos * BLOCK_BITNUM + SelectInBlock(block, left)
        out == SelectOutBlock(ba, bit, rank)
    IN  IF rank > GetBitNum(ba.one_num, ba.length, bit) THEN NOTFOUND
        ELSE Found[out.block_pos, out.rank]

Lookup(ba, pos) ==
    IF pos % BLOCK_BITNUM \in ba.bit_blocks[pos \div BLOCK_BITNUM] THEN 1 ELSE 0

\* Save writes the length and the blocks; the tables are built again.
SaveBits(ba) == [length |-> ba.length, bit_blocks |-> ba.bit_blocks]

LoadBits(file) == Build([InitBits(file.length) EXCEPT !.bit_blocks = file.bit_blocks])
=============================================================================
