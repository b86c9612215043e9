---------------------------- MODULE TripleFiles ----------------------------
(***************************************************************************)
(* The files of a set of triples, as layers keep them for what they add    *)
(* and what they remove, with the iterators over them                      *)
(* (src/src/layer/builder.rs and src/src/layer/internal/).                 *)
(*                                                                         *)
(* A triple is <<s, p, o>>, three ids that count from 1.  An adjacency     *)
(* list is a sequence of pairs <<left, num>>; a left with nothing to its   *)
(* right has the pair <<left, 0>>.  Modules BitIndex, LogArray and         *)
(* AdjacencyList show that the stored bits read back as such pairs.        *)
(* Positions in a list count from 0.                                       *)
(***************************************************************************)
EXTENDS Dictionary

\* The number, the left and the bit at a position: the bit ends a left
NumAt(list, pos) == list[pos + 1][2]
LeftAt(list, pos) == list[pos + 1][1]
BitAt(list, pos) == pos + 1 = Len(list) \/ LeftAt(list, pos + 1) # LeftAt(list, pos)
LeftCount(list) == IF list = <<>> THEN 0 ELSE Last(list)[1]
OffsetFor(list, left) == Cardinality({i \in DOMAIN list : list[i][1] < left})

\* AdjacencyListBuilder::push: what it refuses, and the pairs it adds
PushInOrder(list, left, num) ==
    \/ left > LeftCount(list)
    \/ left = LeftCount(list) /\ num > Last(list)[2]
Push(list, left, num) ==
    LET holes == left - LeftCount(list) - 1 IN
    list \o [k \in 1..holes |-> <<LeftCount(list) + k, 0>>] \o <<<<left, num>>>>

-----------------------------------------------------------------------------
(***************************************************************************)
(* TripleFileBuilder.  A base layer has a place for every subject and      *)
(* object; a child has lists of those in use (sparse).  ok is FALSE once   *)
(* the code has panicked.                                                  *)
(***************************************************************************)
NewTripleFiles(sparse) ==
    [sparse |-> sparse, subjects |-> <<>>, objects |-> <<>>, sp |-> <<>>, spo |-> <<>>, ops |-> <<>>,
     lastSubject |-> 0, lastPredicate |-> 0, ok |-> TRUE]

\* add_triple
AddTriple(f, t) ==
    LET samePair == f.lastSubject = t[1] /\ f.lastPredicate = t[2]
        subjects == IF f.sparse /\ ~samePair /\ t[1] # f.lastSubject
                    THEN Append(f.subjects, t[1]) ELSE f.subjects
        mapped == IF f.sparse THEN Len(subjects) ELSE t[1]
        sp == IF samePair THEN f.sp ELSE Push(f.sp, mapped, t[2])
        inOrder == /\ f.ok /\ t[1] >= f.lastSubject
                   /\ samePair \/ PushInOrder(f.sp, mapped, t[2])
                   /\ PushInOrder(f.spo, Len(sp), t[3])
    IN  IF 0 \in {t[1], t[2], t[3]} THEN f
        ELSE IF ~inOrder THEN [f EXCEPT !.ok = FALSE]
        ELSE [f EXCEPT !.subjects = subjects, !.sp = sp, !.spo = Push(@, Len(sp), t[3]),
                       !.lastSubject = t[1], !.lastPredicate = t[2]]

\* build_object_index: from each object to the subject-predicate pairs it is with
BuildObjectIndex(f) ==
    LET pairs == SelectSeq(f.spo, LAMBDA e : e[2] # 0)
        add(b, pair) ==
            LET seen == b.objects # <<>> /\ Last(b.objects) = pair[1]
                objects == IF seen THEN b.objects ELSE Append(b.objects, pair[1])
            IN  [objects |-> objects,
                 ops |-> Push(b.ops, IF f.sparse THEN Len(objects) ELSE pair[1], pair[2])]
        index == FoldLeft(add, [objects |-> <<>>, ops |-> <<>>],
                          Ascending({<<pairs[i][2], pairs[i][1]>> : i \in DOMAIN pairs}))
        written(ix) == [f EXCEPT !.ops = ix.ops, !.objects = IF f.sparse THEN ix.objects ELSE <<>>]
    IN  written(index)

\* add_id_triples, finalize and build_indexes
BuildTripleFiles(sparse, triples) ==
    LET after[i \in Nat] ==
            IF i = 0 THEN NewTripleFiles(sparse) ELSE AddTriple(after[i - 1], triples[i])
    IN  BuildObjectIndex(after[Len(triples)])

\* build_predicate_index and its lookup: the positions of a predicate
PredicatePositions(f, predicate) ==
    SelectSeq([i \in DOMAIN f.sp |-> i - 1], LAMBDA pos : NumAt(f.sp, pos) = predicate)

\* internal_triple_layer_addition_count and _removal_count
TripleCount(f) == Len(f.spo) - Len(PredicatePositions(f, 0))

-----------------------------------------------------------------------------
(***************************************************************************)
(* Seeking.                                                                *)
(***************************************************************************)
\* MonotonicLogArray::nearest_index_of: the binary search
NearestIndexOf(array, element) ==
    LET search[min \in Nat, max \in Nat] ==
            LET mid == (min + max) \div 2
                entry == array[mid + 1]
            IN  IF min > max THEN ((min + max) \div 2) + 1
                ELSE IF element = entry THEN mid
                ELSE IF element > entry THEN search[mid + 1, max]
                ELSE IF mid = 0 THEN 0
                ELSE search[min, mid - 1]
    IN  IF array = <<>> THEN 0 ELSE search[0, Len(array) - 1]

\* index_of
IndexOf(array, element) ==
    LET checked(index) ==
            IF index >= Len(array) \/ array[index + 1] # element THEN NotFound ELSE index
    IN  checked(NearestIndexOf(array, element))

Start == [s |-> 0, sp |-> 0, spo |-> 0]

\* seek_subject_ref
SeekSubject(f, subject) ==
    LET s == IF f.sparse THEN NearestIndexOf(f.subjects, subject) ELSE subject - 1
        sp == OffsetFor(f.sp, s + 1)
    IN  IF subject = 0 THEN Start
        ELSE IF s >= LeftCount(f.sp) THEN [s |-> s, sp |-> Len(f.sp), spo |-> Len(f.spo)]
        ELSE [s |-> s, sp |-> sp, spo |-> OffsetFor(f.spo, sp + 1)]

\* Mutant: the search for the predicate goes on into the next subject.
SeekSubjectPredicateOn(f, subject, predicate) ==
    LET at == SeekSubject(f, subject)
        move[sp \in Nat] ==
            IF sp < Len(f.sp) /\ NumAt(f.sp, sp) < predicate THEN move[sp + 1] ELSE sp
        sp == move[at.sp]
    IN  [s |-> at.s, sp |-> sp, spo |-> OffsetFor(f.spo, sp + 1)]

\* seek_subject_predicate_ref: within the subject to the predicate, or past it
SeekSubjectPredicate(f, subject, predicate) ==
    LET pair(s, sp) == [s |-> s, sp |-> sp, spo |-> OffsetFor(f.spo, sp + 1)]
        within(at) ==
            LET move[pos \in Nat] ==
                    IF NumAt(f.sp, pos) >= predicate THEN pair(at.s, pos)
                    ELSE IF BitAt(f.sp, pos) THEN pair(at.s + 1, pos + 1)
                    ELSE move[pos + 1]
            IN  IF predicate = 0 \/ subject = 0 \/ at.s >= LeftCount(f.sp) THEN at ELSE move[at.sp]
    IN  within(SeekSubject(f, subject))

\* seek_s_p_pos
SeekPair(f, pos) == [s |-> LeftAt(f.sp, pos) - 1, sp |-> pos, spo |-> OffsetFor(f.spo, pos + 1)]

-----------------------------------------------------------------------------
(***************************************************************************)
(* Iterating.                                                              *)
(***************************************************************************)
\* InternalLayerTripleSubjectIterator, from where it was sought to
SubjectIterator(f, from) ==
    LET next[s \in Nat, sp \in Nat, spo \in Nat] ==
            IF spo >= Len(f.spo) THEN <<>>
            ELSE LET subject == IF f.sparse THEN f.subjects[s + 1] ELSE s + 1
                     s2 == IF BitAt(f.sp, sp) THEN s + 1 ELSE s
                     t == <<subject, NumAt(f.sp, sp), NumAt(f.spo, spo)>>
                 IN  IF t[2] = 0 THEN next[s2, sp + 1, spo + 1]
                     ELSE (IF t[3] = 0 THEN <<>> ELSE <<t>>)
                          \o IF BitAt(f.spo, spo) THEN next[s2, sp + 1, spo + 1] ELSE next[s, sp, spo + 1]
    IN  next[from.s, from.sp, from.spo]

\* InternalLayerTriplePredicateIterator: at each position of the predicate, the
\* triples up to the next subject or predicate
PredicateIterator(f, predicate) ==
    LET positions == PredicatePositions(f, predicate)
        at(pos) == LET found == SubjectIterator(f, SeekPair(f, pos))
                   IN  TakeWhile(found, LAMBDA t : t[1] = found[1][1] /\ t[2] = found[1][2])
    IN  FlattenSeq([i \in DOMAIN positions |-> at(positions[i])])

\* seek_object_ref and InternalLayerTripleObjectIterator
ObjectIterator(f, object) ==
    LET o == IF object = 0 THEN 0
             ELSE IF f.sparse THEN NearestIndexOf(f.objects, object) ELSE object - 1
        next[at \in Nat, pos \in Nat] ==
            IF pos >= Len(f.ops) THEN <<>>
            ELSE LET pair == f.sp[NumAt(f.ops, pos)]
                     t == <<IF f.sparse THEN f.subjects[pair[1]] ELSE pair[1], pair[2],
                            IF f.sparse THEN f.objects[at + 1] ELSE at + 1>>
                     rest == next[IF BitAt(f.ops, pos) THEN at + 1 ELSE at, pos + 1]
                 IN  IF NumAt(f.ops, pos) = 0 THEN rest ELSE <<t>> \o rest
    IN  next[o, IF o >= LeftCount(f.ops) THEN Len(f.ops) ELSE OffsetFor(f.ops, o + 1)]

\* layer_triple_exists: the subject, then its predicates, then their objects
TripleIn(f, t) ==
    LET subject == IF f.sparse THEN IndexOf(f.subjects, t[1])
                   ELSE IF t[1] > LeftCount(f.sp) THEN NotFound ELSE t[1] - 1
        scan(list, left, num) ==
            LET find[pos \in Nat] ==
                    IF NumAt(list, pos) = num THEN pos
                    ELSE IF BitAt(list, pos) THEN NotFound ELSE find[pos + 1]
            IN  IF left = NotFound THEN NotFound ELSE find[OffsetFor(list, left + 1)]
    IN  /\ 0 \notin {t[1], t[2], t[3]}
        /\ scan(f.spo, scan(f.sp, subject, t[2]), t[3]) # NotFound

\* BaseTripleStream and ChildTripleStream, over the pairs that are not holes
TripleStream(f) ==
    LET sps == SelectSeq(f.sp, LAMBDA e : e[2] # 0)
        spos == SelectSeq(f.spo, LAMBDA e : e[2] # 0)
        subject(left) == IF f.sparse THEN f.subjects[left] ELSE left
        next[i \in Nat, k \in Nat, last \in Nat] ==
            IF i = Len(spos) THEN <<>>
            ELSE LET m == IF spos[i + 1][1] > last THEN k + 1 ELSE k
                 IN  <<<<subject(sps[m][1]), sps[m][2], spos[i + 1][2]>>>> \o next[i + 1, m, spos[i + 1][1]]
    IN  next[0, 0, 0]

-----------------------------------------------------------------------------
(***************************************************************************)
(* Stacks: what each layer adds and removes, newest layer first.           *)
(***************************************************************************)
Least(S) == CHOOSE x \in S : \A y \in S : x <= y
ByObject(t) == <<t[3], t[1], t[2]>>
TripleLess(t, u) ==
    \/ t[1] < u[1]
    \/ t[1] = u[1] /\ (t[2] < u[2] \/ (t[2] = u[2] /\ t[3] < u[3]))

\* The order in which iterators give triples: by "subject" or by "object"
Before(order, t, u) == IF order = "object" THEN TripleLess(ByObject(t), ByObject(u)) ELSE TripleLess(t, u)

\* Which of the sequences has the least head: the newest of them, 0 when all of
\* them are at their end
LeastHead(seqs, order) ==
    LET live == {i \in DOMAIN seqs : seqs[i] # <<>>}
        least == {i \in live : \A j \in live : ~Before(order, Head(seqs[j]), Head(seqs[i]))}
    IN  IF live = {} THEN 0 ELSE Least(least)

\* What iterators have yet to give, and that after one of them was moved on
Iterators == Seq(Seq(Nat \X Nat \X Nat))
MoveOn(seqs, i) == [seqs EXCEPT ![i] = Tail(@)]

\* InternalTripleSubjectIterator, and those by predicate and by object: a triple
\* is left out when a layer newer than the one that adds it removes it next
StackTriples(adds, rems, order) ==
    LET next[as \in Iterators, rs \in Iterators] ==
            LET take(pick) ==
                    LET t == Head(as[pick])
                        removing == {i \in 1..(pick - 1) : rs[i] # <<>> /\ Head(rs[i]) = t}
                    IN  IF pick = 0 THEN <<>>
                        ELSE IF removing = {} THEN <<t>> \o next[MoveOn(as, pick), rs]
                        ELSE next[MoveOn(as, pick), MoveOn(rs, Least(removing))]
            IN  take(LeastHead(as, order))
    IN  next[adds, rems]

\* InternalTripleStackIterator: the additions and the removals of a stack, those
\* of one triple cancelling each other
StackChanges(adds, rems) ==
    LET next[as \in Iterators, rs \in Iterators] ==
            LET take(a, r) ==
                    LET add == Head(as[a])
                        rem == Head(rs[r])
                    IN  IF a = 0 /\ r = 0 THEN <<>>
                        ELSE IF r = 0 \/ (a # 0 /\ TripleLess(add, rem))
                        THEN <<[change |-> "addition", triple |-> add]>> \o next[MoveOn(as, a), rs]
                        ELSE IF a = 0 \/ TripleLess(rem, add)
                        THEN <<[change |-> "removal", triple |-> rem]>> \o next[as, MoveOn(rs, r)]
                        ELSE next[MoveOn(as, a), MoveOn(rs, r)]
            IN  take(LeastHead(as, "subject"), LeastHead(rs, "subject"))
    IN  next[adds, rems]
=============================================================================
