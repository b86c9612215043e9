------------------------------ MODULE LogArray ------------------------------
(***************************************************************************)
(* Log arrays (src/src/structure/logarray.rs): numbers of a fixed width    *)
(* packed in words, most significant bit first, so that a number may       *)
(* straddle two words.  The length and width of the control word are       *)
(* fields of the array.  Arrays are indexed from 0, as in the code.        *)
(***************************************************************************)
EXTENDS Naturals, Sequences

CONSTANT Word       \* bits per word, 64 in the code

ASSUME WordAssumption == Word \in Nat \ {0}

At(s, i) == s[i + 1]

\* The powers of two
Pow2[k \in 0..Word] == IF k = 0 THEN 1 ELSE 2 * Pow2[k - 1]

\* <<, >> and | on words
Shl(x, k) == (x * Pow2[k]) % Pow2[Word]
Shr(x, k) == x \div Pow2[k]

Or(x, y) ==
    LET bit(k) == IF Shr(x, k) % 2 = 1 \/ Shr(y, k) % 2 = 1 THEN 1 ELSE 0
        low[k \in 0..Word] == IF k = 0 THEN 0 ELSE low[k - 1] + Pow2[k - 1] * bit(k - 1)
    IN  low[Word]

-----------------------------------------------------------------------------
\* LogArrayFileBuilder
NewLogArray(width) ==
    [width |-> width, file |-> <<>>, current |-> 0, offset |-> 0, count |-> 0]

\* push refuses a value that does not fit
Fits(b, val) == val < Pow2[b.width]

\* Mutant: the low bits of a number that straddles two words are dropped.
LogPushTruncated(b, val) ==
    LET full == Or(b.current, Shr(Shl(val, Word - b.width), b.offset))
        offset == b.offset + b.width
        pushed == [b EXCEPT !.count = @ + 1]
    IN  IF offset < Word
        THEN [pushed EXCEPT !.current = full, !.offset = offset]
        ELSE [pushed EXCEPT !.file = Append(@, full), !.current = 0, !.offset = offset - Word]

LogPush(b, val) ==
    LET full == Or(b.current, Shr(Shl(val, Word - b.width), b.offset))
        offset == b.offset + b.width
        pushed == [b EXCEPT !.count = @ + 1]
    IN  IF offset < Word
        THEN [pushed EXCEPT !.current = full, !.offset = offset]
        ELSE [pushed EXCEPT !.file = Append(@, full),
                            !.offset = offset - Word,
                            !.current = IF offset = Word THEN 0
                                        ELSE Shl(val, Word - (offset - Word))]

\* n times push(0)
LogPushZeros(b, n) ==
    LET push[i \in 0..n] == IF i = 0 THEN b ELSE LogPush(push[i - 1], 0) IN push[n]

LogFinalize(b) ==
    [first |-> 0, len |-> b.count, width |-> b.width,
     words |-> IF (b.count * b.width) % Word = 0 THEN b.file ELSE Append(b.file, b.current)]

-----------------------------------------------------------------------------
\* LogArray::parse: the size that validate_len_and_width expects, control word
\* included
ValidSize(a) == Len(a.words) + 1 = (a.len * a.width + 2 * Word - 1) \div Word

\* The number that begins at an offset of the first word and goes on in the
\* second.
Straddling(first, second, offset, width) ==
    LET secondWidth == width - (Word - offset)
    IN  Or(Shl(Shr(Shl(first, offset), offset), secondWidth), Shr(second, Word - secondWidth))

Entry(a, index) ==
    LET bit == a.width * (a.first + index)
        word == bit \div Word
        offset == bit % Word
    IN  IF offset + a.width <= Word
        THEN Shr(Shl(At(a.words, word), offset), Word - a.width)
        ELSE Straddling(At(a.words, word), At(a.words, word + 1), offset, a.width)

Slice(a, offset, len) == [a EXCEPT !.first = @ + offset, !.len = len]

\* LogArrayIterator
Iter(a) == [i \in 1..a.len |-> Entry(a, i - 1)]

\* logarray_stream_entries: LogArrayDecoder reads the words one after the other,
\* with the last one read and the offset in it as its state.
StreamEntries(a) ==
    LET decode[n \in 0..a.len] ==
            IF n = 0 THEN [out |-> <<>>, current |-> 0, offset |-> Word, read |-> 0]
            ELSE LET d == decode[n - 1]
                     next == At(a.words, d.read)
                 IN  IF d.offset + a.width <= Word
                     THEN [d EXCEPT !.out = Append(@, Shr(Shl(d.current, d.offset), Word - a.width)),
                                    !.offset = @ + a.width]
                     ELSE [out |-> Append(d.out,
                                     IF d.offset = Word THEN Shr(next, Word - a.width)
                                     ELSE Straddling(d.current, next, d.offset, a.width)),
                           current |-> next,
                           offset |-> IF d.offset = Word THEN a.width
                                      ELSE a.width - (Word - d.offset),
                           read |-> d.read + 1]
    IN  decode[a.len].out
=============================================================================
