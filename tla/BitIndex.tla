------------------------------ MODULE BitIndex ------------------------------
(***************************************************************************)
(* Bit arrays (src/src/structure/bitarray.rs) and the index that gives     *)
(* them rank and select (src/src/structure/bitindex.rs).  A block is a     *)
(* word, a superblock a number of blocks.  For each superblock the index   *)
(* holds the ones up to its end, for each block those from its start to    *)
(* the end of its superblock; both are log arrays, taken here as the       *)
(* numbers they hold.                                                      *)
(***************************************************************************)
EXTENDS LogArray, FiniteSets, SequencesExt

CONSTANTS
    SBlock,     \* SBLOCK_SIZE, blocks per superblock, 52 in the code
    None        \* None in the code

ASSUME SBlockAssumption == SBlock \in Nat \ {0}

\* BitArrayFileBuilder
NewBitArray == [file |-> <<>>, current |-> 0, count |-> 0]

\* Mutant: a word that was written is not cleared.
BitPushKeeps(b, bit) ==
    LET full == IF bit = 1 THEN Or(b.current, Shr(Pow2[Word - 1], b.count % Word))
                ELSE b.current
    IN  [b EXCEPT !.file = IF (b.count + 1) % Word = 0 THEN Append(@, full) ELSE @,
                  !.current = full, !.count = @ + 1]

BitPush(b, bit) ==
    LET full == IF bit = 1 THEN Or(b.current, Shr(Pow2[Word - 1], b.count % Word))
                ELSE b.current IN
    IF (b.count + 1) % Word = 0
    THEN [file |-> Append(b.file, full), current |-> 0, count |-> b.count + 1]
    ELSE [b EXCEPT !.current = full, !.count = @ + 1]

\* push_all
BitPushAll(b, bits) ==
    LET push[i \in 0..Len(bits)] == IF i = 0 THEN b ELSE BitPush(push[i - 1], bits[i])
    IN  push[Len(bits)]

BitFinalize(b) ==
    [len |-> b.count,
     words |-> IF b.count % Word = 0 THEN b.file ELSE Append(b.file, b.current)]

\* BitArray::get, and BitIter on one word
BitOf(word, i) == Shr(word, Word - 1 - i) % 2
Get(a, index) == BitOf(At(a.words, index \div Word), index % Word)

\* bitarray_stream_bits: the bits of all the words, cut off at the length
StreamBits(a) == [i \in 1..a.len |-> BitOf(a.words[(i - 1) \div Word + 1], (i - 1) % Word)]

CountOnes(word) == Cardinality({i \in 0..(Word - 1) : BitOf(word, i) = 1})

-----------------------------------------------------------------------------
Sum(s) ==
    LET upto[i \in 0..Len(s)] == IF i = 0 THEN 0 ELSE upto[i - 1] + s[i] IN upto[Len(s)]

\* build_bitindex, in chunks of SBlock words
BuildBitIndex(a) ==
    LET n == Len(a.words)
        ones(i) == CountOnes(At(a.words, i))
        sblocks == (n + SBlock - 1) \div SBlock
        end(s) == IF (s + 1) * SBlock <= n THEN (s + 1) * SBlock ELSE n
        range(i, j) == Sum([k \in 1..(j - i) |-> ones(i + k - 1)])
    IN  [array   |-> a,
         blocks  |-> [i \in 1..n |-> range(i - 1, end((i - 1) \div SBlock))],
         sblocks |-> [s \in 1..sblocks |-> range(0, end(s - 1))]]

\* Mutant: the shift is one short, the bit at the index is not counted.
Rank1Exclusive(ix, index) ==
    LET block == index \div Word IN
    At(ix.sblocks, block \div SBlock) - At(ix.blocks, block)
        + CountOnes(Shr(At(ix.array.words, block), Word - (index % Word)))

\* The ones up to and including the index
Rank1(ix, index) ==
    LET block == index \div Word IN
    At(ix.sblocks, block \div SBlock) - At(ix.blocks, block)
        + CountOnes(Shr(At(ix.array.words, block), Word - 1 - (index % Word)))

Rank0(ix, index) == 1 + index - Rank1(ix, index)

Rank1FromRange(ix, start, end) ==
    IF start = end THEN 0
    ELSE Rank1(ix, end - 1) - IF start # 0 THEN Rank1(ix, start - 1) ELSE 0

Rank0FromRange(ix, start, end) ==
    IF start = end THEN 0
    ELSE Rank0(ix, end - 1) - IF start # 0 THEN Rank0(ix, start - 1) ELSE 0

-----------------------------------------------------------------------------
(***************************************************************************)
(* Select.  The two searches by halving, for the superblock whose end has  *)
(* the rank and for the last block of it that starts before the rank.  The *)
(* ranks they compare are those of ones or of zeros; for zeros the missing *)
(* blocks of the last superblock count as if they were there.              *)
(***************************************************************************)
SBlockRank(ix, bit, s) ==
    IF bit = 1 THEN At(ix.sblocks, s) ELSE (1 + s) * SBlock * Word - At(ix.sblocks, s)

BlockRank(ix, bit, b) ==
    IF bit = 1 THEN At(ix.blocks, b) ELSE (SBlock - (b % SBlock)) * Word - At(ix.blocks, b)

\* select1_sblock, select0_sblock
SelectSBlock(ix, bit, rank) ==
    LET last == Len(ix.sblocks) - 1
        search[r \in (0..last) \X (0..last)] ==
            LET start == r[1]
                end == r[2]
                mid == (start + end) \div 2
            IN  IF start = end THEN mid
                ELSE IF SBlockRank(ix, bit, mid) < rank THEN search[<<mid + 1, end>>]
                ELSE search[<<start, mid>>]
    IN  search[<<0, last>>]

\* select1_block, select0_block
SelectBlock(ix, bit, sblock, subrank) ==
    LET first == sblock * SBlock
        full == first + SBlock - 1
        last == IF full > Len(ix.blocks) - 1 THEN Len(ix.blocks) - 1 ELSE full
        search[r \in (first..last) \X (first..last)] ==
            LET start == r[1]
                end == r[2]
                mid == (start + end + 1) \div 2
            IN  IF start = end THEN mid
                ELSE IF BlockRank(ix, bit, mid) > subrank THEN search[<<mid, end>>]
                ELSE search[<<start, mid - 1>>]
    IN  search[<<first, last>>]

\* select1, select0.  The rank is at least 1.
Select(ix, bit, rank) ==
    LET sblock == SelectSBlock(ix, bit, rank)
        sblockRank == SBlockRank(ix, bit, sblock)
        block == SelectBlock(ix, bit, sblock, sblockRank - rank)
        rankInBlock == rank - (sblockRank - BlockRank(ix, bit, block))
        word == At(ix.array.words, block)
        hits == {i \in 0..(Word - 1) :
                    /\ BitOf(word, i) = bit
                    /\ Cardinality({j \in 0..i : BitOf(word, j) = bit}) = rankInBlock}
    IN  IF sblockRank < rank \/ hits = {} THEN None
        ELSE block * Word + CHOOSE i \in hits : TRUE

\* select1_from_range, select0_from_range.  The subrank is at least 1: the case
\* the code makes of 0 is not used by it.
SelectFromRange(ix, bit, subrank, start, end) ==
    LET before == IF start = 0 THEN 0
                  ELSE IF bit = 1 THEN Rank1(ix, start - 1) ELSE Rank0(ix, start - 1)
        result == Select(ix, bit, before + subrank)
    IN  IF result = None \/ result < start \/ result >= end THEN None ELSE result
=============================================================================
