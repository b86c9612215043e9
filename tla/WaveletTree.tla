---------------------------- MODULE WaveletTree ----------------------------
(***************************************************************************)
(* Wavelet trees (src/src/structure/wavelettree.rs): a sequence of numbers *)
(* stored bit by bit, highest first.  Each layer holds one bit of every    *)
(* number, in the order of the bits above it, so that the numbers of one   *)
(* fragment of the alphabet are next to each other.                        *)
(***************************************************************************)
EXTENDS BitIndex

\* create_fragments: the fragments of all the layers, as parts of the alphabet
Fragments(width) ==
    FlattenSeq([i \in 1..width |->
        LET increment == 2^(width - i + 1) IN
        [j \in 1..2^(i - 1) |-> [start |-> (j - 1) * increment, end |-> j * increment]]])

\* push_to_fragments: where a number goes in each layer
FragmentIndexes(num, width) ==
    {num \div 2^(i + 1) + 2^(width - i - 1) - 1 : i \in 0..(width - 1)}

\* Mutant: the middle of the fragment goes to the lower half.
FragmentBitsHalf(f, index, nums, width) ==
    LET here(num) == index \in FragmentIndexes(num, width) /\ num >= f.start /\ num < f.end
        mine == SelectSeq(nums, here)
    IN  [i \in DOMAIN mine |-> IF mine[i] > (f.start + f.end) \div 2 THEN 1 ELSE 0]

\* FragmentBuilder::push for each of the numbers
FragmentBits(f, index, nums, width) ==
    LET here(num) == index \in FragmentIndexes(num, width) /\ num >= f.start /\ num < f.end
        mine == SelectSeq(nums, here)
    IN  [i \in DOMAIN mine |-> IF mine[i] >= (f.start + f.end) \div 2 THEN 1 ELSE 0]

\* build_wavelet_tree_from_iter
BuildWaveletTree(width, nums) ==
    LET fs == Fragments(width)
        bits == FlattenSeq([k \in DOMAIN fs |-> FragmentBits(fs[k], k - 1, nums, width)])
    IN  [layers |-> width,
         bits |-> BuildBitIndex(BitFinalize(BitPushAll(NewBitArray, bits)))]

\* build_wavelet_tree_from_logarray
BuildWaveletTreeFromLogArray(a) == BuildWaveletTree(a.width, Iter(a))

TreeLen(tree) == IF tree.layers = 0 THEN 0 ELSE tree.bits.array.len \div tree.layers

\* decode_one: the loop over the layers, with the part of the alphabet, the part
\* of the layer and the place in it
DecodeOne(tree, index) ==
    LET len == TreeLen(tree)
        ix == tree.bits
        at[i \in 0..tree.layers] ==
            IF i = 0 THEN [lo |-> 0, hi |-> 2^tree.layers, start |-> 0, end |-> len, offset |-> index]
            ELSE LET d == at[i - 1]
                     from == (i - 1) * len + d.start
                     to == (i - 1) * len + d.end
                     here == from + d.offset
                 IN  IF Get(ix.array, here) = 1
                     THEN [d EXCEPT !.lo = (d.lo + d.hi) \div 2,
                                    !.offset = Rank1FromRange(ix, from, here + 1) - 1,
                                    !.start = @ + Rank0FromRange(ix, from, to)]
                     ELSE [d EXCEPT !.hi = (d.lo + d.hi) \div 2,
                                    !.offset = Rank0FromRange(ix, from, here + 1) - 1,
                                    !.end = @ - Rank1FromRange(ix, from, to)]
    IN  at[tree.layers].lo

\* lookup: the slices of the layers in which the entry is, oldest first, None
\* when it is nowhere
Lookup(tree, entry) ==
    LET len == TreeLen(tree)
        ix == tree.bits
        at[i \in 0..tree.layers] ==
            IF i = 0 THEN [lo |-> 0, hi |-> 2^tree.layers, start |-> 0, end |-> len, slices |-> <<>>]
            ELSE LET d == at[i - 1] IN
                 IF d = None THEN None
                 ELSE LET from == (i - 1) * len + d.start
                          to == (i - 1) * len + d.end
                          upper == entry >= (d.lo + d.hi) \div 2
                          slices == Append(d.slices, <<IF upper THEN 1 ELSE 0, from, to>>)
                          half == 2^(tree.layers - i)
                          next == IF upper
                                  THEN [d EXCEPT !.slices = slices, !.lo = @ + half,
                                                 !.start = @ + Rank0FromRange(ix, from, to)]
                                  ELSE [d EXCEPT !.slices = slices, !.hi = @ - half,
                                                 !.end = @ - Rank1FromRange(ix, from, to)]
                      IN  IF next.start = next.end THEN None ELSE next
        found == at[tree.layers]
    IN  IF tree.layers = 0 \/ entry >= 2^tree.layers \/ found = None THEN None
        ELSE found.slices

\* WaveletLookup::len
LookupLen(tree, slices) ==
    LET s == Last(slices) IN
    IF s[1] = 1 THEN Rank1FromRange(tree.bits, s[2], s[3]) ELSE Rank0FromRange(tree.bits, s[2], s[3])

\* WaveletLookup::entry: from the lowest layer back to the position in the whole
LookupEntry(tree, slices, index) ==
    FoldRight(LAMBDA s, result : SelectFromRange(tree.bits, s[1], result, s[2], s[3]) - s[2] + 1,
              slices, index + 1) - 1
=============================================================================
