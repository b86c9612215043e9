---------------------------- MODULE AdjacencyList ----------------------------
(***************************************************************************)
(* Adjacency lists (src/src/structure/adjacencylist.rs): pairs of ids in   *)
(* ascending order, kept as the right-hand sides in a log array and, in a  *)
(* bit index of the same length, a 1 at the last pair of each left-hand    *)
(* side.  A left-hand side without pairs has one entry, 0.                 *)
(*                                                                         *)
(* The builder is the state machine; a finished list is then only read.    *)
(***************************************************************************)
EXTENDS WaveletTree

CONSTANTS
    Width,      \* the width the builder is made with
    MaxLeft,    \* bound: the left-hand sides are 1..MaxLeft
    MaxRight    \* bound: the right-hand sides are 1..MaxRight

ASSUME WidthAssumption == Width \in 1..Word
ASSUME BoundsAssumption == MaxLeft \in Nat /\ MaxRight \in Nat

VARIABLES
    nums,       \* AdjacencyListBuilder::nums
    bits,       \* AdjacencyListBuilder::bitarray, one entry behind nums
    lastLeft,   \* AdjacencyListBuilder::last_left
    lastRight,  \* AdjacencyListBuilder::last_right
    list,       \* the finished list, None while it is being built
    pairs       \* history: the pairs pushed

vars == <<nums, bits, lastLeft, lastRight, list, pairs>>

Ones(n) == [i \in 1..n |-> 1]

Init ==
    /\ nums = NewLogArray(Width)
    /\ bits = NewBitArray
    /\ lastLeft = 0
    /\ lastRight = 0
    /\ list = None
    /\ pairs = <<>>

-----------------------------------------------------------------------------
\* Mutant: a first pair that leaves a hole writes as many bits as a later one.
ClosingBitsNoLag(left) ==
    IF left = lastLeft THEN <<0>> ELSE IF left = 1 THEN <<>> ELSE Ones(left - lastLeft)

\* The bits that a pair settles: that the previous one was not the last of its
\* left-hand side, or that it was and that each of the skipped ones has ended.
ClosingBits(left) ==
    LET skip == left - lastLeft IN
    IF skip = 0 THEN <<0>> ELSE Ones(IF lastLeft = 0 THEN skip - 1 ELSE skip)

\* The entries of the skipped left-hand sides
Holes(left) == IF left = lastLeft THEN 0 ELSE left - lastLeft - 1

\* push panics for a pair that is not in order and fails for a number that does
\* not fit (LogArrayFileBuilder::push); neither leaves a builder to go on with.
Push(left, right) ==
    /\ list = None
    /\ left > lastLeft \/ (left = lastLeft /\ right > lastRight)
    /\ Fits(nums, right)
    /\ bits' = BitPushAll(bits, ClosingBits(left))
    /\ nums' = LogPush(LogPushZeros(nums, Holes(left)), right)
    /\ lastLeft' = left
    /\ lastRight' = right
    /\ pairs' = Append(pairs, <<left, right>>)
    /\ UNCHANGED list

\* finalize pushes the bit that is still due, writes both arrays out and builds
\* the index of the bits.
Finalize ==
    /\ list = None
    /\ bits' = IF nums.count # 0 THEN BitPush(bits, 1) ELSE bits
    /\ list' = [nums |-> LogFinalize(nums), bits |-> BuildBitIndex(BitFinalize(bits'))]
    /\ UNCHANGED <<nums, lastLeft, lastRight, pairs>>

Next ==
    \/ \E left \in 1..MaxLeft, right \in 1..MaxRight : Push(left, right)
    \/ Finalize

Spec == Init /\ [][Next]_vars

-----------------------------------------------------------------------------
(***************************************************************************)
(* Reading a finished list.                                                *)
(***************************************************************************)
RightCount(l) == l.bits.array.len

LeftCount(l) == IF RightCount(l) = 0 THEN 0 ELSE Rank1(l.bits, RightCount(l) - 1)

OffsetFor(l, index) == IF index = 1 THEN 0 ELSE Select(l.bits, 1, index - 1) + 1

\* Mutant: the bit at the position is counted too, so that the last pair of a
\* left-hand side is given to the next one.
LeftAtPosInclusive(l, pos) == 1 + Rank1(l.bits, pos)

\* left_at_pos, and the left-hand side of pair_at_pos
LeftAtPos(l, pos) == 1 + IF pos = 0 THEN 0 ELSE Rank1(l.bits, pos - 1)

\* get, for an index in 1..LeftCount(l)
GetList(l, index) ==
    LET start == OffsetFor(l, index)
        end == Select(l.bits, 1, index)
    IN  Slice(l.nums, start, end - start + 1)

\* Pairs read one after the other, the left-hand side counted up at each 1 and
\* the entries of holes left out.
CountingPairs(bitSeq, numSeq) ==
    LET read[n \in 0..Len(bitSeq)] ==
            IF n = 0 THEN [left |-> 1, out |-> <<>>]
            ELSE LET r == read[n - 1] IN
                 [left |-> IF bitSeq[n] = 1 THEN r.left + 1 ELSE r.left,
                  out |-> IF numSeq[n] = 0 THEN r.out ELSE Append(r.out, <<r.left, numSeq[n]>>)]
    IN  read[Len(bitSeq)].out

\* AdjacencyListIterator
ListPairs(l) ==
    CountingPairs([i \in 1..RightCount(l) |-> Get(l.bits.array, i - 1)],
                  [i \in 1..RightCount(l) |-> Entry(l.nums, i - 1)])

\* adjacency_list_stream_pairs, on the files of the list
StreamPairs(l) == CountingPairs(StreamBits(l.bits.array), StreamEntries(l.nums))

-----------------------------------------------------------------------------
(***************************************************************************)
(* Properties.  The reference is the history of pairs.                     *)
(***************************************************************************)
\* The entries that the pairs call for: each pair, and before the first one of a
\* left-hand side one entry <<hole, 0>> for every left-hand side that was left out.
EntriesOf(ps) ==
    LET before(i) == IF i = 1 THEN 0 ELSE ps[i - 1][1]
        holes(i) == IF ps[i][1] = before(i) THEN 0 ELSE ps[i][1] - before(i) - 1
        upto[i \in 0..Len(ps)] ==
            IF i = 0 THEN <<>>
            ELSE upto[i - 1] \o Append([k \in 1..holes(i) |-> <<before(i) + k, 0>>], ps[i])
    IN  upto[Len(ps)]

\* The numbers of the entries
Numbers(es) == [i \in 1..Len(es) |-> es[i][2]]

Built == list # None

(***************************************************************************)
(* The two builders agree at every moment: the words written and the bits  *)
(* of the current word account for the entries pushed, and the bits lag    *)
(* behind the numbers by the one entry whose bit is not yet known          *)
(* (AdjacencyListBuilder::push, finalize).                                 *)
(***************************************************************************)
TypeOK ==
    /\ lastLeft \in 0..MaxLeft /\ lastRight \in 0..MaxRight
    /\ nums.current \in 0..(Pow2[Word] - 1) /\ bits.current \in 0..(Pow2[Word] - 1)
    /\ Len(nums.file) * Word + nums.offset = nums.count * Width
    /\ nums.offset \in 0..(Word - 1)
    /\ Len(bits.file) = bits.count \div Word
    /\ nums.count = bits.count + IF Built \/ nums.count = 0 THEN 0 ELSE 1

-----------------------------------------------------------------------------
\* The word with an index, the unfinished one after those that were written
WordAt(file, current, k) == IF k < Len(file) THEN At(file, k) ELSE current

\* A number v of w bits begins at a bit: within a word, or its high bits at the end
\* of one word and its low bits at the start of the next.
NumberAt(w, file, current, bit, v) ==
    LET offset == bit % Word
        low == offset + w - Word
        word(i) == WordAt(file, current, bit \div Word + i)
    IN  IF offset + w <= Word
        THEN Shr(word(0), Word - offset - w) % Pow2[w] = v
        ELSE /\ word(0) % Pow2[Word - offset] = Shr(v, low)
             /\ Shr(word(1), Word - low) = v % Pow2[low]

\* The words hold the numbers vs, one after the other, and nothing behind them.
Packed(w, file, current, offset, vs) ==
    LET words == 0..(Pow2[Word] - 1) IN
    /\ file \in Seq(words) /\ current \in words /\ offset \in 0..(Word - 1)
    /\ vs \in Seq(0..(Pow2[w] - 1))
    /\ Len(file) * Word + offset = Len(vs) * w
    /\ current % Pow2[Word - offset] = 0
    /\ \A i \in 1..Len(vs) : NumberAt(w, file, current, (i - 1) * w, vs[i])

\* The bit of an entry: whether it is the last one of its left-hand side
Mark(es, i) == IF i = Len(es) \/ es[i + 1][1] # es[i][1] THEN 1 ELSE 0

(***************************************************************************)
(* The words that the two builders have written and those they are filling *)
(* hold exactly the numbers of the entries and the bits that are settled,  *)
(* with room for the next; the left-hand sides of the entries go up one by *)
(* one from 1 to the last one pushed (LogArrayFileBuilder::push,           *)
(* BitArrayFileBuilder::push, AdjacencyListBuilder::push).                 *)
(***************************************************************************)
BuilderInv ==
    LET es == EntriesOf(pairs) IN
    /\ nums.width = Width /\ nums.count = Len(es)
    /\ Packed(Width, nums.file, nums.current, nums.offset, Numbers(es))
    /\ Packed(1, bits.file, bits.current, bits.count % Word,
              [i \in 1..bits.count |-> Mark(es, i)])
    /\ es # <<>> => es[1][1] = 1 /\ es[Len(es)] = <<lastLeft, lastRight>>
    /\ \A i \in 2..Len(es) : es[i][1] - es[i - 1][1] \in {0, 1}

(***************************************************************************)
(* What LogArrayFileBuilder wrote, numbers across word boundaries included,*)
(* has the size that parse validates and reads back the same by index and  *)
(* as a stream of words.                                                   *)
(***************************************************************************)
LogArrayReadsBack ==
    Built => /\ ValidSize(list.nums)
             /\ Iter(list.nums) = Numbers(EntriesOf(pairs))
             /\ StreamEntries(list.nums) = Numbers(EntriesOf(pairs))

(***************************************************************************)
(* rank1 and rank0 count the bits up to an index, select1 and select0 find *)
(* the bit of each rank that there is, across blocks and superblocks, the  *)
(* last ones partly filled; select1 finds no bit past the last one.        *)
(***************************************************************************)
RankAndSelect ==
    Built =>
        LET ix == list.bits
            bit == StreamBits(ix.array)
            upto(b, i) == {j \in 1..i : bit[j] = b}
            all(b) == upto(b, Len(bit))
        IN  /\ \A i \in DOMAIN bit : /\ Get(ix.array, i - 1) = bit[i]
                                     /\ Rank1(ix, i - 1) = Cardinality(upto(1, i))
                                     /\ Rank0(ix, i - 1) = Cardinality(upto(0, i))
            /\ \A b \in {0, 1} : \A i \in all(b) :
                   Select(ix, b, Cardinality(upto(b, i))) = i - 1
            /\ bit # <<>> => Select(ix, 1, Cardinality(all(1)) + 1) = None

(***************************************************************************)
(* The iterator over a finished list and the stream over its files give    *)
(* back the pairs that were pushed and no others, however long the holes   *)
(* between them: the bits that were written one entry late close each      *)
(* left-hand side where it ends.  get gives each left-hand side its own    *)
(* entries, and left_at_pos agrees on where they are                       *)
(* (AdjacencyListBuilder::push, AdjacencyListIterator,                     *)
(* adjacency_list_stream_pairs, offset_for, get, left_at_pos).             *)
(***************************************************************************)
ListReadsBack ==
    Built =>
        LET es == EntriesOf(pairs)
            of(left) == {i \in 1..Len(es) : es[i][1] = left}
        IN  /\ ListPairs(list) = pairs /\ StreamPairs(list) = pairs
            /\ LeftCount(list) = lastLeft /\ RightCount(list) = Len(es)
            /\ \A left \in 1..lastLeft :
                   LET start == OffsetFor(list, left)
                       slice == GetList(list, left)
                   IN  /\ of(left) = (start + 1)..(start + slice.len)
                       /\ Iter(slice) = [k \in 1..slice.len |-> es[start + k][2]]
            /\ \A i \in 1..Len(es) : LeftAtPos(list, i - 1) = es[i][1]

(***************************************************************************)
(* The wavelet tree that is built over the right-hand sides                *)
(* (build_wavelet_tree_from_logarray) decodes to them, and lookup gives    *)
(* for each number of the alphabet exactly its positions, in order.        *)
(***************************************************************************)
WaveletReadsBack ==
    Built =>
        LET tree == BuildWaveletTreeFromLogArray(list.nums)
            numbers == Numbers(EntriesOf(pairs))
            places(n) == {i \in 0..(Len(numbers) - 1) : At(numbers, i) = n}
        IN  /\ TreeLen(tree) = Len(numbers)
            /\ \A i \in 0..(Len(numbers) - 1) : DecodeOne(tree, i) = At(numbers, i)
            /\ \A n \in 0..2^Width :
                   LET slices == Lookup(tree, n) IN
                   IF places(n) = {} THEN slices = None
                   ELSE /\ LookupLen(tree, slices) = Cardinality(places(n))
                        /\ [i \in 1..Cardinality(places(n)) |-> LookupEntry(tree, slices, i - 1)]
                               = SetToSortSeq(places(n), <)
=============================================================================
