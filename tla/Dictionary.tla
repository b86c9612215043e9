----------------------------- MODULE Dictionary -----------------------------
(***************************************************************************)
(* Plain front-coded dictionaries (src/src/structure/pfc.rs) and the       *)
(* variable-byte numbers in them (src/src/structure/vbyte.rs).             *)
(*                                                                         *)
(* A string is a sequence of bytes other than 0.  Strings are written in   *)
(* blocks: the first of a block in full, each other one as the length of   *)
(* the prefix it shares with the one before it, and the rest; a 0 ends     *)
(* each.  Ids and positions in a file count from 0.                        *)
(***************************************************************************)
EXTENDS Integers, Sequences, SequencesExt

CONSTANTS
    BlockSize,  \* BLOCK_SIZE, 8 in the code
    VBits       \* the bits of a number that a byte holds, 7 in the code

ASSUME DictionaryAssumption == BlockSize \in Nat \ {0} /\ VBits \in Nat \ {0}

\* None, of an id or a position, and of a string
NotFound == -1
NoString == <<>>

-----------------------------------------------------------------------------
\* find_common_prefix
CommonPrefix(a, b) ==
    LET common[k \in Nat] ==
            IF k < Len(a) /\ k < Len(b) /\ a[k + 1] = b[k + 1] THEN common[k + 1] ELSE k
    IN  common[0]

\* The order of slices of bytes
LexLess(a, b) ==
    LET c == CommonPrefix(a, b) IN c < Len(b) /\ (c = Len(a) \/ a[c + 1] < b[c + 1])

\* A set in order
SortedBy(S, Less(_, _)) ==
    [i \in 1..Cardinality(S) |-> CHOOSE x \in S : Cardinality({y \in S : Less(y, x)}) = i - 1]

\* A set of strings, or of tuples of numbers, in order
Ascending(S) == SortedBy(S, LexLess)

\* Two strings in parts: the first part of one as far as that of the other goes, and
\* what comes after it
FirstPart(parts, other) == SubSeq(Head(parts), 1, Min({Len(Head(parts)), Len(Head(other))}))
AfterPart(parts, other) ==
    IF Len(Head(parts)) <= Len(Head(other)) THEN Tail(parts)
    ELSE <<SubSeq(Head(parts), Len(Head(other)) + 1, Len(Head(parts)))>> \o Tail(parts)

\* Ord for PfcDictEntry: the strings are compared as far as the shorter of the first
\* parts goes, then on from there.  That short strings are joined to one part before
\* (optimize) is left out.
EntryLess(entry, other) ==
    LET less[p \in Seq(Seq(Nat)), q \in Seq(Seq(Nat))] ==
            /\ q # <<>>
            /\ \/ p = <<>>
               \/ LexLess(FirstPart(p, q), FirstPart(q, p))
               \/ FirstPart(p, q) = FirstPart(q, p) /\ less[AfterPart(p, q), AfterPart(q, p)]
    IN  less[entry, other]

\* sorted_iterator: of the sequences that have entries left, from place p on, the
\* first with the least
LeastEntry(seqs, p, live) ==
    Min({i \in live : \A j \in live : ~EntryLess(seqs[j][p[j] + 1], seqs[i][p[i] + 1])})

\* The places <<sequence, index>> of all entries in the order in which they are taken
SortedPlaces(seqs) ==
    LET live(p) == {i \in DOMAIN seqs : p[i] < Len(seqs[i])}
        merged[p \in [DOMAIN seqs -> Nat]] ==
            LET take(i) == <<<<i, p[i] + 1>>>> \o merged[[p EXCEPT ![i] = @ + 1]]
            IN  IF live(p) = {} THEN <<>> ELSE take(LeastEntry(seqs, p, live(p)))
    IN  merged[[i \in DOMAIN seqs |-> 0]]

TakeWhile(s, Test(_)) ==
    SubSeq(s, 1, (CHOOSE k \in 1..(Len(s) + 1) :
                    /\ k = Len(s) + 1 \/ ~Test(s[k])
                    /\ \A i \in 1..(k - 1) : Test(s[i])) - 1)

-----------------------------------------------------------------------------
(***************************************************************************)
(* Variable-byte numbers: the low bits first, the last byte marked by its  *)
(* highest bit.  A byte that is not the last may be 0.                     *)
(***************************************************************************)
Mark == 2^VBits

VByteEncode(num) ==
    LET encode[n \in Nat] ==
            IF n >= Mark THEN <<n % Mark>> \o encode[n \div Mark] ELSE <<n + Mark>>
    IN  encode[num]

\* decode, from a place in a file
VByteDecode(bytes, at) ==
    LET number[i \in Nat] ==
            LET b == bytes[i + 1] IN
            IF b >= Mark THEN [num |-> b - Mark, end |-> i + 1]
            ELSE [num |-> b + Mark * number[i + 1].num, end |-> number[i + 1].end]
    IN  number[at]

-----------------------------------------------------------------------------
(***************************************************************************)
(* PfcDictFileBuilder.  The blocks are followed by padding and by the      *)
(* number of strings, which begins with zeros: one 0 stands for them.      *)
(***************************************************************************)
NewDictionary == [file |-> <<>>, index |-> <<>>, count |-> 0, last |-> NoString]

\* add_bytes
AddBytes(b, bytes) ==
    LET starts == b.count % BlockSize = 0
        common == CommonPrefix(b.last, bytes)
    IN  [file |-> b.file \o IF starts THEN Append(bytes, 0)
                            ELSE VByteEncode(common) \o Append(SubSeq(bytes, common + 1, Len(bytes)), 0),
         index |-> IF starts /\ b.count # 0 THEN Append(b.index, Len(b.file)) ELSE b.index,
         count |-> b.count + 1,
         last |-> bytes]

\* finalize, as PfcDict::parse finds it
FinalizeDictionary(b) == [blocks |-> Append(b.file, 0), offsets |-> b.index, count |-> b.count]

\* add_all and add_all_entries, and finalize
BuildDictionary(strings) ==
    LET after[i \in Nat] == IF i = 0 THEN NewDictionary ELSE AddBytes(after[i - 1], strings[i])
    IN  FinalizeDictionary(after[Len(strings)])

-----------------------------------------------------------------------------
(***************************************************************************)
(* Reading a block.                                                        *)
(***************************************************************************)
EndOfString(bytes, at) ==
    LET end[i \in Nat] == IF bytes[i + 1] = 0 THEN i ELSE end[i + 1] IN end[at]

BlockStart(d, block) == IF block = 0 THEN 0 ELSE d.offsets[block]

\* PfcBlock::head
BlockHead(d, block) ==
    LET start == BlockStart(d, block) IN
    SubSeq(d.blocks, start + 1, EndOfString(d.blocks, start))

\* PfcBlockEntryIterator: the first n entries of a block.  The first one is read
\* whatever n is.
BlockEntries(d, block, n) ==
    LET read(at, common) ==
            LET end == EndOfString(d.blocks, at)
            IN  [common |-> common, suffix |-> SubSeq(d.blocks, at + 1, end), next |-> end + 1]
        entry[k \in Nat] ==
            IF k = 1 THEN read(BlockStart(d, block), 0)
            ELSE LET v == VByteDecode(d.blocks, entry[k - 1].next) IN read(v.end, v.num)
    IN  [k \in 1..(IF n = 0 THEN 1 ELSE n) |-> entry[k]]

\* PfcBlockIterator: each string is the prefix of the one before it and a suffix.
BlockStrings(entries) ==
    LET string[k \in Nat] ==
            IF k = 1 THEN entries[1].suffix
            ELSE SubSeq(string[k - 1], 1, entries[k].common) \o entries[k].suffix
    IN  [k \in DOMAIN entries |-> string[k]]

\* PfcDictEntryIterator: the parts that make up the prefix are kept, the last of
\* them cut short.
KeptParts(parts, common) ==
    LET before(i) == Len(FlattenSeq(SubSeq(parts, 1, i - 1)))
        end == IF common = 0 THEN 0
               ELSE CHOOSE i \in DOMAIN parts : before(i) < common /\ common <= before(i) + Len(parts[i])
    IN  [i \in 1..end |-> IF i = end THEN SubSeq(parts[i], 1, common - before(i)) ELSE parts[i]]

DictEntries(entries) ==
    LET parts[k \in Nat] ==
            IF k = 0 THEN <<>>
            ELSE Append(KeptParts(parts[k - 1], entries[k].common), entries[k].suffix)
    IN  [k \in DOMAIN entries |-> parts[k]]

\* PfcDictEntry::to_bytes, and what buf_eq compares
ToBytes(entry) == FlattenSeq(entry)

\* Mutant: an entry contributes the prefix that the next one shares.
EntryByNextPrefix(entries, k) ==
    LET take(i) == IF i = 0 THEN 0 ELSE entries[i + 1].common
        part(i) == SubSeq(entries[i].suffix, 1, take(i) - take(i - 1))
    IN  FlattenSeq([i \in 1..(k - 1) |-> part(i)]) \o entries[k].suffix

\* PfcBlock::entry: how much each entry contributes follows from the least prefix
\* that any later one shares.
EntryAt(entries, k) ==
    LET take(i) == IF i = 0 THEN 0
                   ELSE LET later == {entries[j].common : j \in (i + 1)..k}
                        IN  CHOOSE c \in later : \A x \in later : c <= x
        part(i) == SubSeq(entries[i].suffix, 1, take(i) - take(i - 1))
    IN  FlattenSeq([i \in 1..(k - 1) |-> part(i)]) \o entries[k].suffix

-----------------------------------------------------------------------------
(***************************************************************************)
(* Reading a dictionary.                                                   *)
(***************************************************************************)
DictLen(d) == d.count

\* calculate_block_offset_index, entry and get
DictGet(d, ix) ==
    IF ix >= d.count THEN NoString
    ELSE LET k == (ix % BlockSize) + 1 IN EntryAt(BlockEntries(d, ix \div BlockSize, k), k)

\* How many strings a block holds: the last one may not be full.
InBlock(d, block) ==
    LET remainder == d.count - block * BlockSize
    IN  IF remainder >= BlockSize THEN BlockSize ELSE remainder

\* PfcDictBlockIterator: the entries of each block
Blocks(d) ==
    IF d.count = 0 THEN <<>>
    ELSE [b \in 1..(Len(d.offsets) + 1) |-> BlockEntries(d, b - 1, InBlock(d, b - 1))]

\* The strings and the entries, in parts, of all blocks
DictStrings(d) == FlattenSeq([b \in DOMAIN Blocks(d) |-> BlockStrings(Blocks(d)[b])])
AllEntries(d) == FlattenSeq([b \in DOMAIN Blocks(d) |-> DictEntries(Blocks(d)[b])])

\* The binary search of PfcDict::id over the heads of the blocks: the block with
\* that head, or the one the string should be in, NotFound before the first one
FindBlock(d, s) ==
    LET search[min \in Nat, max \in Nat] ==
            LET mid == (min + max) \div 2
                head == BlockHead(d, mid)
            IN  IF min > max THEN [block |-> max, head |-> FALSE]
                ELSE IF s = head THEN [block |-> mid, head |-> TRUE]
                ELSE IF LexLess(head, s) THEN search[mid + 1, max]
                ELSE IF mid = 0 THEN [block |-> NotFound, head |-> FALSE]
                ELSE search[min, mid - 1]
    IN  search[0, Len(d.offsets)]

\* The scan of a block, whose entries are given
IdInBlock(entries, block, s) ==
    LET at == {k \in DOMAIN entries : ToBytes(entries[k]) = s}
    IN  IF at = {} THEN NotFound ELSE block * BlockSize + (CHOOSE k \in at : \A j \in at : k <= j) - 1

IdFrom(d, s, found) ==
    CASE found.block = NotFound -> NotFound
      [] found.block # NotFound /\ found.head -> found.block * BlockSize
      [] OTHER -> IdInBlock(DictEntries(BlockEntries(d, found.block, InBlock(d, found.block))), found.block, s)

\* PfcDict::id
DictId(d, s) == IdFrom(d, s, FindBlock(d, s))

\* merge_dictionaries
MergeDictionaries(ds) ==
    LET entries == [i \in DOMAIN ds |-> AllEntries(ds[i])]
        taken(places) == [m \in DOMAIN places |-> ToBytes(entries[places[m][1]][places[m][2]])]
    IN  BuildDictionary(taken(SortedPlaces(entries)))
=============================================================================
