--------------------------- MODULE LayerContents ---------------------------
(***************************************************************************)
(* What a chain of layers holds: dictionaries, ids, id maps, additions and *)
(* removals (src/src/layer/), how the builder of a layer turns the strings *)
(* of its triples into ids, how rollups rewrite the layers below them      *)
(* (src/src/storage/delta.rs), and the queries of Layer and LayerStore.    *)
(*                                                                         *)
(* Module LayerStore has the steps in which files are written and loaded;  *)
(* here an operation is one step, and what counts is the data.  Layer i of *)
(* the chain is the child of layer i - 1, layer 1 is a base layer.         *)
(***************************************************************************)
EXTENDS TripleFiles

CONSTANTS
    Universe,       \* the triples in play: [s, p, o], o being [kind, str]
    MaxLayers,      \* bound: layers in the chain
    MaxChanges,     \* bound: triples asked for or not to be in a layer, by its place
    MixedMaps       \* whether a rollup is rolled up when construct_idmaps mixes
                    \* up its two id maps (see Unmixed)

\* The strings of the triples.  An empty string is left out: a dictionary without
\* strings finds it.
NodeStrings == {t.s : t \in Universe} \cup {t.o.str : t \in {u \in Universe : u.o.kind = "node"}}
PredicateStrings == {t.p : t \in Universe}
ValueStrings == {t.o.str : t \in {u \in Universe : u.o.kind = "value"}}

ASSUME LayerContentsAssumption ==
    /\ MaxLayers \in Nat /\ MaxChanges \in [1..MaxLayers -> Nat]
    /\ MixedMaps \in BOOLEAN
    /\ NoString \notin NodeStrings \cup PredicateStrings \cup ValueStrings

VARIABLES
    chain,      \* the layers: per place, the files of the layer
    rolled,     \* per layer, <<>> or its rollup and the layer that is on, 0 for none
    truth       \* history: per layer, the triples its builders were asked for

vars == <<chain, rolled, truth>>

(***************************************************************************)
(* The files of a layer: three dictionaries, the id maps of a rollup (<<>> *)
(* when there are none), what it adds and what it removes.                 *)
(***************************************************************************)
LayerFiles(nodes, preds, vals, nv, pm, pos, neg) ==
    [nodes |-> nodes, preds |-> preds, vals |-> vals, nv |-> nv, pm |-> pm, pos |-> pos, neg |-> neg]

NoTriples(sparse) == BuildTripleFiles(sparse, <<>>)

(***************************************************************************)
(* An InternalLayer is the stack of its own data and that of the immediate *)
(* parents, newest first.                                                  *)
(***************************************************************************)
BaseLayer(name, data) == <<[name |-> name, data |-> data]>>
ChildLayer(name, data, parent) == BaseLayer(name, data) \o parent

\* get_layer: a rollup goes by the name of the layer it stands for.
Stack(i) ==
    LET load[k \in Nat] ==
            LET data == IF rolled[k] = <<>> THEN chain[k] ELSE rolled[k][1].data
                parent == IF rolled[k] = <<>> THEN k - 1 ELSE rolled[k][1].on
            IN  IF k = 0 THEN <<>>
                ELSE IF parent = 0 THEN BaseLayer(k, data) ELSE ChildLayer(k, data, load[parent])
    IN  load[i]

\* The same without the rollups
PlainStack(i) == [k \in 1..i |-> [name |-> i + 1 - k, data |-> chain[i + 1 - k]]]

Below(stack, k) == SubSeq(stack, k + 1, Len(stack))

-----------------------------------------------------------------------------
(***************************************************************************)
(* Id maps: the outer ids, in the order of the inner ones.  An outer id    *)
(* within the map that it does not have makes outer_to_inner panic: that   *)
(* is NotFound.                                                            *)
(***************************************************************************)
InnerToOuter(map, id) == IF id >= Len(map) THEN id ELSE map[id + 1]
OuterToInner(map, id) ==
    IF id >= Len(map) THEN id
    ELSE IF \E i \in DOMAIN map : map[i] = id THEN (CHOOSE i \in DOMAIN map : map[i] = id) - 1
    ELSE NotFound

-----------------------------------------------------------------------------
(***************************************************************************)
(* Ids and strings of a layer in memory (impl Layer for InternalLayer).    *)
(***************************************************************************)
Total(counts) == FoldSeq(LAMBDA c, sum : c + sum, 0, counts)

\* How many ids each layer has of its own
NodeValueCounts(stack) ==
    [k \in DOMAIN stack |-> DictLen(stack[k].data.nodes) + DictLen(stack[k].data.vals)]
PredicateCounts(stack) == [k \in DOMAIN stack |-> DictLen(stack[k].data.preds)]

NodeValueCount(stack) == Total(NodeValueCounts(stack))
PredicateCount(stack) == Total(PredicateCounts(stack))

\* all_counts
AllCounts(stack) == [nodes |-> Total([k \in DOMAIN stack |-> DictLen(stack[k].data.nodes)]),
                     preds |-> PredicateCount(stack),
                     vals |-> Total([k \in DOMAIN stack |-> DictLen(stack[k].data.vals)])]

\* The id of a string, 0 for none: that of the newest layer that has it, after
\* all the ids of the layers below.  found is what each layer finds.
NewestId(found, counts) ==
    LET has == {k \in DOMAIN found : found[k] # NotFound} IN
    IF has = {} THEN 0
    ELSE 1 + found[Least(has)] + Total(Below(counts, Least(has)))

\* What a layer finds in a dictionary whose strings come after skip others
OuterId(map, id, skip) == IF id = NotFound THEN NotFound ELSE InnerToOuter(map, id + skip)

\* subject_id and object_node_id
SubjectId(stack, string) ==
    NewestId([k \in DOMAIN stack |-> OuterId(stack[k].data.nv, DictId(stack[k].data.nodes, string), 0)],
             NodeValueCounts(stack))

\* object_value_id
ObjectValueId(stack, string) ==
    NewestId([k \in DOMAIN stack |-> OuterId(stack[k].data.nv, DictId(stack[k].data.vals, string),
                                             DictLen(stack[k].data.nodes))],
             NodeValueCounts(stack))

\* predicate_id
PredicateId(stack, string) ==
    NewestId([k \in DOMAIN stack |-> OuterId(stack[k].data.pm, DictId(stack[k].data.preds, string), 0)],
             PredicateCounts(stack))

ObjectId(stack, o) == IF o.kind = "node" THEN SubjectId(stack, o.str) ELSE ObjectValueId(stack, o.str)

\* Which layer of the stack an id belongs to
LayerOfId(counts, id) ==
    Least({k \in DOMAIN counts : k = Len(counts) \/ id - 1 >= Total(Below(counts, k))})

\* id_subject, id_predicate and id_object
IdPredicate(stack, id) ==
    LET k == LayerOfId(PredicateCounts(stack), id)
        inner == OuterToInner(stack[k].data.pm, id - 1 - PredicateCount(Below(stack, k)))
    IN  IF id = 0 \/ inner = NotFound THEN NoString ELSE DictGet(stack[k].data.preds, inner)

IdSubject(stack, id) ==
    LET k == LayerOfId(NodeValueCounts(stack), id)
        inner == OuterToInner(stack[k].data.nv, id - 1 - NodeValueCount(Below(stack, k)))
    IN  IF id = 0 \/ inner = NotFound THEN NoString ELSE DictGet(stack[k].data.nodes, inner)

IdObject(stack, id) ==
    LET k == LayerOfId(NodeValueCounts(stack), id)
        d == stack[k].data
        inner == OuterToInner(d.nv, id - 1 - NodeValueCount(Below(stack, k)))
        nodes == DictLen(d.nodes)
    IN  IF id = 0 \/ inner = NotFound THEN [kind |-> "none", str |-> NoString]
        ELSE IF inner >= nodes THEN [kind |-> "value", str |-> DictGet(d.vals, inner - nodes)]
        ELSE [kind |-> "node", str |-> DictGet(d.nodes, inner)]

\* string_triple_to_id and id_triple_to_string
TripleId(stack, t) == <<SubjectId(stack, t.s), PredicateId(stack, t.p), ObjectId(stack, t.o)>>
TripleString(stack, t) ==
    [s |-> IdSubject(stack, t[1]), p |-> IdPredicate(stack, t[2]), o |-> IdObject(stack, t[3])]

-----------------------------------------------------------------------------
(***************************************************************************)
(* The queries of a layer in memory.                                       *)
(***************************************************************************)
\* internal_triple_additions and internal_triple_removals, of each layer
Adds(stack) == [k \in DOMAIN stack |-> stack[k].data.pos]
Rems(stack) == [k \in DOMAIN stack |-> stack[k].data.neg]

Read(files, Iterate(_)) == [k \in DOMAIN files |-> Iterate(files[k])]
Merged(stack, Iterate(_), order) ==
    StackTriples(Read(Adds(stack), Iterate), Read(Rems(stack), Iterate), order)

AllTriples(stack) == Merged(stack, LAMBDA f : SubjectIterator(f, Start), "subject")

TriplesS(stack, s) ==
    TakeWhile(Merged(stack, LAMBDA f : SubjectIterator(f, SeekSubject(f, s)), "subject"),
              LAMBDA t : t[1] = s)

TriplesSP(stack, s, p) ==
    TakeWhile(Merged(stack, LAMBDA f : SubjectIterator(f, SeekSubjectPredicate(f, s, p)), "subject"),
              LAMBDA t : t[1] = s /\ t[2] = p)

TriplesP(stack, p) == Merged(stack, LAMBDA f : PredicateIterator(f, p), "subject")

TriplesO(stack, o) ==
    TakeWhile(Merged(stack, LAMBDA f : ObjectIterator(f, o), "object"), LAMBDA t : t[3] = o)

\* triple_exists: the newest layer that adds or removes the triple decides
TripleExists(stack, t) ==
    LET adds == {k \in DOMAIN stack : TripleIn(stack[k].data.pos, t)}
        rems == {k \in DOMAIN stack : TripleIn(stack[k].data.neg, t)}
    IN  0 \notin {t[1], t[2], t[3]} /\ \E k \in adds : \A j \in rems : k <= j

\* triple_addition_count and triple_removal_count
AdditionCount(stack) == Total([k \in DOMAIN stack |-> TripleCount(stack[k].data.pos)])
RemovalCount(stack) == Total([k \in DOMAIN stack |-> TripleCount(stack[k].data.neg)])

-----------------------------------------------------------------------------
(***************************************************************************)
(* Building a layer (SimpleLayerBuilder::commit).  What was asked for is   *)
(* resolved against the parent as far as that knows the strings; an id is  *)
(* 0 where it does not.  An id triple of the caller is one with all of its *)
(* parts resolved.                                                         *)
(***************************************************************************)
Part(id, kind, str) == IF id = 0 THEN [id |-> 0, kind |-> kind, str |-> str]
                                 ELSE [id |-> id, kind |-> "id", str |-> NoString]

\* string_triple_to_partially_resolved, to_unresolved for the empty stack
PartiallyResolved(stack, t) ==
    [s |-> Part(SubjectId(stack, t.s), "node", t.s),
     p |-> Part(PredicateId(stack, t.p), "predicate", t.p),
     o |-> Part(ObjectId(stack, t.o), t.o.kind, t.o.str)]

IsResolved(t) == \A x \in {t.s, t.p, t.o} : x.kind = "id"

\* Ord for PossiblyResolved and ObjectType, and for PartiallyResolvedTriple
PartLess(x, y) ==
    \/ x.kind # "id" /\ y.kind = "id"
    \/ x.kind = "node" /\ y.kind = "value"
    \/ x.kind = y.kind /\ IF x.kind = "id" THEN x.id < y.id ELSE LexLess(x.str, y.str)

PartialLess(t, u) ==
    \/ PartLess(t.s, u.s)
    \/ t.s = u.s /\ (PartLess(t.p, u.p) \/ (t.p = u.p /\ PartLess(t.o, u.o)))

\* A triple that the rest of the code takes for none
ZeroTriple == LET zero == [id |-> 0, kind |-> "id", str |-> NoString]
              IN  [s |-> zero, p |-> zero, o |-> zero]

\* collect_unresolved_strings, sorted
Unresolved(triples, kind) ==
    LET parts == UNION {{t.s, t.p, t.o} : t \in ToSet(triples)}
    IN  Ascending({x.str : x \in {y \in parts : y.kind = kind}})

\* resolve_with: new ids follow those of the parent, nodes before values
ResolveWith(counts, nodes, preds, vals, t) ==
    LET offset == counts.nodes + counts.vals
        place(strings, str) == CHOOSE i \in DOMAIN strings : strings[i] = str
        id(x) == CASE x.kind = "id" -> x.id
                   [] x.kind = "node" -> place(nodes, x.str) + offset
                   [] x.kind = "value" -> place(vals, x.str) + offset + Len(nodes)
                   [] x.kind = "predicate" -> place(preds, x.str) + counts.preds
    IN  <<id(t.s), id(t.p), id(t.o)>>

\* Mutant: a removal that is before an addition is not passed over.
EquivalentsNotPassed(additions, removals) ==
    LET walk[a \in Nat, r \in Nat] ==
            IF a > Len(additions) \/ r > Len(removals) THEN {}
            ELSE IF removals[r] = additions[a] THEN {<<a, r>>} \cup walk[a + 1, r + 1]
            ELSE walk[a + 1, r]
    IN  walk[1, 1]

\* zero_equivalents: a walk over both lists, at each addition up to the first removal
\* that is not before it.  The places of those that are equal
Equivalents(additions, removals) ==
    LET walk[a \in Nat, r \in Nat] ==
            IF a > Len(additions) \/ r > Len(removals) THEN {}
            ELSE IF PartialLess(removals[r], additions[a]) THEN walk[a, r + 1]
            ELSE IF removals[r] = additions[a] THEN {<<a, r>>} \cup walk[a + 1, r + 1]
            ELSE walk[a + 1, r]
    IN  walk[1, 1]

\* What is asked for and asked not to be is crossed off in both lists.
ZeroAt(triples, places) == [i \in DOMAIN triples |-> IF i \in places THEN ZeroTriple ELSE triples[i]]

\* Mutant: the additions are not sorted again once they are resolved.
TriplesUnsorted(ids) == ids

SortedTriples(ids) == SortSeq(ids, TripleLess)

\* ChildLayerFileBuilder::add_nodes and the like: strings that the parent knows are
\* skipped
NewNodes(stack, nodes) == SelectSeq(nodes, LAMBDA x : SubjectId(stack, x) = 0)
NewPredicates(stack, preds) == SelectSeq(preds, LAMBDA x : PredicateId(stack, x) = 0)
NewValues(stack, vals) == SelectSeq(vals, LAMBDA x : ObjectValueId(stack, x) = 0)

\* ChildLayerFileBuilderPhase2::add_id_triples and remove_id_triples
NewAdditions(stack, triples) == SelectSeq(triples, LAMBDA t : ~TripleExists(stack, t))
KnownRemovals(stack, triples) == SelectSeq(triples, LAMBDA t : TripleExists(stack, t))

\* BaseLayerFileBuilder
BuildBaseLayer(nodes, preds, vals, triples) ==
    LayerFiles(BuildDictionary(nodes), BuildDictionary(preds), BuildDictionary(vals), <<>>, <<>>,
               BuildTripleFiles(FALSE, triples), NoTriples(TRUE))

\* ChildLayerFileBuilder
BuildChildLayer(stack, nodes, preds, vals, triples, gone) ==
    LayerFiles(BuildDictionary(NewNodes(stack, nodes)),
               BuildDictionary(NewPredicates(stack, preds)),
               BuildDictionary(NewValues(stack, vals)), <<>>, <<>>,
               BuildTripleFiles(TRUE, NewAdditions(stack, triples)),
               BuildTripleFiles(TRUE, KnownRemovals(stack, gone)))

\* commit, the additions and removals being resolved as far as the parent knows them
\* and in order.  What is in both is crossed off, and so are removals of what the
\* parent does not know.  Once all ids are known the additions are sorted again;
\* removals stay in the order they have, and a base layer has none.
CommitResolved(stack, asked, unasked) ==
    LET equal == Equivalents(asked, unasked)
        additions == ZeroAt(asked, {m[1] : m \in equal})
        removals == ZeroAt(unasked, {m[2] : m \in equal}
                                        \cup {i \in DOMAIN unasked : ~IsResolved(unasked[i])})
        nodes == Unresolved(additions, "node")
        preds == Unresolved(additions, "predicate")
        vals == Unresolved(additions, "value")
        resolved(t) == ResolveWith(AllCounts(stack), nodes, preds, vals, t)
        triples == SortedTriples([i \in DOMAIN additions |-> resolved(additions[i])])
        gone == [i \in DOMAIN removals |-> resolved(removals[i])]
    IN  IF stack = <<>> THEN BuildBaseLayer(nodes, preds, vals, triples)
        ELSE BuildChildLayer(stack, nodes, preds, vals, triples, gone)

\* Sorted and without duplicates
BuildLayer(stack, adds, rems) ==
    LET partial(triples) == SortedBy({PartiallyResolved(stack, t) : t \in triples}, PartialLess)
    IN  CommitResolved(stack, partial(adds), partial(rems))

-----------------------------------------------------------------------------
(***************************************************************************)
(* Rollups.                                                                *)
(***************************************************************************)
\* construct_idmaps_from_structures, for one or two dictionaries of each layer
\* (oldest first): the ids of their strings in the order of the strings.  Per layer,
\* dicts[k] are the dictionaries, maps[k] is the id map, and counts[k] how many ids
\* there are before those of the next layer.
OuterIds(dicts, maps, counts) ==
    LET skip(k, j) == IF j = 1 THEN 0 ELSE DictLen(dicts[k][1])
        id(k, j, i) == InnerToOuter(maps[k], i - 1 + skip(k, j)) + Total(SubSeq(counts, 1, k - 1))
        places(j) == SortedPlaces([k \in DOMAIN dicts |-> AllEntries(dicts[k][j])])
        ids(all, j) == [m \in DOMAIN all |-> id(all[m][1], j, all[m][2])]
    IN  FlattenSeq([j \in DOMAIN dicts[1] |-> ids(places(j), j)])

\* Mutant: only the nodes of a layer count for the ids of the next one.
NodeValueIdMapByNodes(layers) ==
    OuterIds([k \in DOMAIN layers |-> <<layers[k].nodes, layers[k].vals>>],
             [k \in DOMAIN layers |-> layers[k].nv],
             [k \in DOMAIN layers |-> DictLen(layers[k].nodes)])

NodeValueIdMap(layers) ==
    OuterIds([k \in DOMAIN layers |-> <<layers[k].nodes, layers[k].vals>>],
             [k \in DOMAIN layers |-> layers[k].nv],
             [k \in DOMAIN layers |-> DictLen(layers[k].nodes) + DictLen(layers[k].vals)])

\* construct_idmaps_from_layers and dictionary_rollup_upto hand over the id maps of
\* the nodes and values for those of the predicates.
PredicateIdMap(layers) ==
    OuterIds([k \in DOMAIN layers |-> <<layers[k].preds>>],
             [k \in DOMAIN layers |-> layers[k].nv],
             [k \in DOMAIN layers |-> DictLen(layers[k].preds)])

\* The wavelet tree builder has no place for an id beyond the width it is given:
\* it panics, and the rollup fails.
Fits(map, count) == \A i \in DOMAIN map : \E w \in 0..count : 2^w >= count + 1 /\ 2^w < 2 * (count + 1) /\ map[i] < 2^w

\* immediate_layers and immediate_layers_upto
OldestFirst(stack) == [k \in DOMAIN stack |-> stack[Len(stack) + 1 - k].data]

\* dictionary_rollup and the like, with the triples given
RollupFiles(stack, pos, neg) ==
    LET layers == OldestFirst(stack)
        merged(Dict(_)) == MergeDictionaries([k \in DOMAIN layers |-> Dict(layers[k])])
    IN  LayerFiles(merged(LAMBDA d : d.nodes), merged(LAMBDA d : d.preds), merged(LAMBDA d : d.vals),
                   NodeValueIdMap(layers), PredicateIdMap(layers), pos, neg)

\* delta_rollup
DeltaRollup(stack) ==
    RollupFiles(stack, BuildTripleFiles(FALSE, AllTriples(stack)), NoTriples(TRUE))

\* InternalTripleStackIterator::from_layer_stack, filtered: the triples that the
\* layers of a stack add, or remove, taken together
ChangesOf(stack, change) ==
    LET read(f) == SubjectIterator(f, Start)
        changes == SelectSeq(StackChanges(Read(Adds(stack), read), Read(Rems(stack), read)),
                             LAMBDA c : c.change = change)
    IN  [i \in DOMAIN changes |-> changes[i].triple]

\* delta_rollup_upto and imprecise_delta_rollup_upto, with the layer that is kept
\* in the stack: the part of the stack above it is rolled up
DeltaRollupUpto(stack) ==
    RollupFiles(stack, BuildTripleFiles(TRUE, ChangesOf(stack, "addition")),
                       BuildTripleFiles(TRUE, ChangesOf(stack, "removal")))

\* Whether taking the one id map for the other makes no difference
Unmixed(stack) ==
    \A k \in DOMAIN stack : \A i \in 0..(DictLen(stack[k].data.preds) - 1) :
        InnerToOuter(stack[k].data.nv, i) = InnerToOuter(stack[k].data.pm, i)

-----------------------------------------------------------------------------
(***************************************************************************)
(* The queries of LayerStore about what layer i itself changed, which a    *)
(* rollup in memory cannot answer.  cached says whether the layer is in    *)
(* the cache.                                                              *)
(***************************************************************************)
\* is_rollup of the layer that is loaded
IsRollup(i) == rolled[i] # <<>>

\* Mutant: a rollup in the cache answers as well.
UsesCachedRollup(i, cached) == cached

\* CachedLayerStore: a layer in the cache answers, unless it is a rollup
UsesCached(i, cached) == cached /\ ~IsRollup(i)

\* triple_addition_files and triple_removal_files: a base layer removes nothing
FileAdditions(i) == chain[i].pos
FileRemovals(i) == IF i = 1 THEN NoTriples(TRUE) ELSE chain[i].neg

LayerAdditions(i, cached) == IF UsesCached(i, cached) THEN Stack(i)[1].data.pos ELSE FileAdditions(i)
LayerRemovals(i, cached) == IF UsesCached(i, cached) THEN Stack(i)[1].data.neg ELSE FileRemovals(i)

\* triple_additions_s and the like, of the additions or of the removals
ChangesS(f, s) == TakeWhile(SubjectIterator(f, SeekSubject(f, s)), LAMBDA t : t[1] = s)
ChangesSP(f, s, p) ==
    TakeWhile(SubjectIterator(f, SeekSubjectPredicate(f, s, p)), LAMBDA t : t[1] = s /\ t[2] = p)
ChangesP(f, p) == PredicateIterator(f, p)
ChangesO(f, o) == TakeWhile(ObjectIterator(f, o), LAMBDA t : t[3] = o)
ChangeExists(f, t) == TripleIn(f, t)

-----------------------------------------------------------------------------
(***************************************************************************)
(* What StoreLayerBuilder::apply_delta and apply_diff and                  *)
(* StoreLayer::squash ask a builder for, as strings.                       *)
(***************************************************************************)
Strings(stack, triples) == {TripleString(stack, t) : t \in ToSet(triples)}

\* string_triple_exists
StringTripleExists(stack, t) == TripleExists(stack, TripleId(stack, t))

DeltaRequests(m) ==
    LET strings(f) == Strings(Stack(m), SubjectIterator(f, Start))
    IN  [adds |-> strings(LayerAdditions(m, TRUE)), rems |-> strings(LayerRemovals(m, TRUE))]

MissingIn(this, other) == {t \in Strings(other, AllTriples(other)) : ~StringTripleExists(this, t)}
DiffRequests(this, other) == [adds |-> MissingIn(this, other), rems |-> MissingIn(other, this)]

-----------------------------------------------------------------------------
Init == chain = <<>> /\ rolled = <<>> /\ truth = <<>>

\* A builder on the newest layer commits what it was asked for.
Build(requests, meant) ==
    /\ Len(chain) < MaxLayers
    /\ chain' = Append(chain, BuildLayer(Stack(Len(chain)), requests.adds, requests.rems))
    /\ rolled' = Append(rolled, <<>>)
    /\ truth' = Append(truth, meant)

Old(i) == IF i = 1 THEN {} ELSE truth[i - 1]

\* Store::create_base_layer or StoreLayer::open_write, the requests, commit.  A
\* triple both added and removed stays as it was.
Commit(adds, rems) ==
    LET n == Len(chain) IN
    /\ n < MaxLayers /\ Cardinality(adds \cup rems) <= MaxChanges[n + 1]
    /\ Build([adds |-> adds, rems |-> rems], (Old(n + 1) \ (rems \ adds)) \cup (adds \ rems))

\* open_write, apply_delta and commit: what layer m changed is done again
ApplyDelta(m) ==
    Build(DeltaRequests(m), (truth[Len(chain)] \ (Old(m) \ truth[m])) \cup (truth[m] \ Old(m)))

\* open_write, apply_diff and commit: back to what layer m holds
ApplyDiff(m) ==
    Build(DiffRequests(Stack(Len(chain)), Stack(m)), truth[m])

\* StoreLayer::squash of the newest layer; that of an older one is the same as
\* before the newer ones were there.  The chain is continued from the new base layer.
Squash ==
    LET n == Len(chain) IN
    /\ n > 0 /\ Cardinality(truth[n]) <= MaxChanges[1]      \* bound
    /\ chain' = <<BuildLayer(<<>>, Strings(Stack(n), AllTriples(Stack(n))), {})>>
    /\ rolled' = <<<<>>>>
    /\ truth' = <<truth[n]>>

Register(i, data, on) ==
    /\ Fits(data.nv, DictLen(data.nodes) + DictLen(data.vals))
    /\ Fits(data.pm, DictLen(data.preds))
    /\ rolled' = [rolled EXCEPT ![i] = <<[data |-> data, on |-> on]>>]
    /\ UNCHANGED <<chain, truth>>

\* StoreLayer::rollup.  A base layer is its own rollup; a rollup without a parent
\* is not replaced.
Rollup(i) ==
    /\ i > 1
    /\ rolled[i] # <<>> => rolled[i][1].on # 0
    /\ MixedMaps \/ Unmixed(Stack(i))
    /\ Register(i, DeltaRollup(Stack(i)), 0)

\* Mutant: a layer is rolled up to its own parent.
RollupUptoParent(i, k) ==
    LET stack == Stack(i)
        above == SubSeq(stack, 1, k - 1)
    IN  /\ k \in DOMAIN stack /\ stack[k].name # i
        /\ rolled[i] # <<>> => rolled[i][1].on \notin {0, stack[k].name}
        /\ MixedMaps \/ Unmixed(above)
        /\ Register(i, DeltaRollupUpto(above), stack[k].name)

\* StoreLayer::rollup_upto and imprecise_rollup_upto, to a layer that the loaded
\* stack holds
RollupUpto(i, k) ==
    LET stack == Stack(i)
        above == SubSeq(stack, 1, k - 1)
    IN  /\ k \in DOMAIN stack /\ stack[k].name \notin {i, i - 1}
        /\ rolled[i] # <<>> => rolled[i][1].on \notin {0, stack[k].name}
        /\ MixedMaps \/ Unmixed(above)
        /\ Register(i, DeltaRollupUpto(above), stack[k].name)

Next ==
    \/ \E adds, rems \in SUBSET Universe : Commit(adds, rems)
    \/ \E m \in DOMAIN chain : ApplyDelta(m) \/ ApplyDiff(m)
    \/ Squash
    \/ \E i \in DOMAIN chain : Rollup(i)
    \/ \E i \in DOMAIN chain, k \in 2..MaxLayers : RollupUpto(i, k)

Spec == Init /\ [][Next]_vars

-----------------------------------------------------------------------------
Increasing(s, Less(_, _)) == \A k \in 1..(Len(s) - 1) : Less(s[k], s[k + 1])

Rollups == {i \in DOMAIN rolled : rolled[i] # <<>>}
AllFiles == {chain[i] : i \in DOMAIN chain} \cup {rolled[i][1].data : i \in Rollups}

\* Every layer has a place for a rollup and the triples that are meant; a rollup is
\* on a layer below the one it stands for, and ids stay within the counts.
TypeOK ==
    /\ Len(rolled) = Len(chain) /\ Len(chain) <= MaxLayers
    /\ truth \in Seq(SUBSET Universe) /\ Len(truth) = Len(chain)
    /\ \A i \in Rollups : rolled[i][1].on \in 0..(i - 2)
    /\ \A i \in DOMAIN chain : \A t \in ToSet(AllTriples(Stack(i))) :
        /\ {t[1], t[3]} \subseteq 1..NodeValueCount(Stack(i))
        /\ t[2] \in 1..PredicateCount(Stack(i))

\* No builder is handed triples out of order, which would make it panic: neither
\* the sets of a commit nor the merged iterators of a rollup.
NoPanic == \A d \in AllFiles : d.pos.ok /\ d.neg.ok

\* Dictionaries, those that rollups merge too, give back the strings they were
\* built from in order, by position and by search, and find no others, at the
\* boundaries of blocks as well.
DictionariesReadBack ==
    \A d \in UNION {{<<f.nodes, NodeStrings>>, <<f.preds, PredicateStrings>>, <<f.vals, ValueStrings>>} :
                        f \in AllFiles} :
        LET strings == DictStrings(d[1]) IN
        /\ Increasing(strings, LexLess) /\ Len(strings) = DictLen(d[1])
        /\ strings = [k \in DOMAIN AllEntries(d[1]) |-> ToBytes(AllEntries(d[1])[k])]
        /\ \A k \in DOMAIN strings : DictGet(d[1], k - 1) = strings[k] /\ DictId(d[1], strings[k]) = k - 1
        /\ \A string \in d[2] \ ToSet(strings) : DictId(d[1], string) = NotFound
        /\ DictGet(d[1], Len(strings)) = NoString

\* A layer as it is loaded, through whatever rollups there are, has exactly the
\* triples its builders were asked for: as strings, in order and once each from
\* triples(), one by one from triple_exists, and in number.
LayersReadBack ==
    \A i \in DOMAIN chain :
        LET stack == Stack(i)
            triples == AllTriples(stack)
        IN  /\ Increasing(triples, TripleLess)
            /\ Strings(stack, triples) = truth[i]
            /\ \A t \in Universe : StringTripleExists(stack, t) <=> t \in truth[i]
            /\ AdditionCount(stack) - RemovalCount(stack) = Cardinality(truth[i])

\* The queries by subject, by subject and predicate, by predicate and by object
\* give what filtering all triples gives, in the same order, for ids that are
\* there, that are not, and that are past the last one.
QueriesAgree ==
    \A i \in DOMAIN chain :
        LET stack == Stack(i)
            triples == AllTriples(stack)
            ids == 1..(NodeValueCount(stack) + 1)
            preds == 1..(PredicateCount(stack) + 1)
        IN  /\ \A s \in ids :
                /\ TriplesS(stack, s) = SelectSeq(triples, LAMBDA t : t[1] = s)
                /\ \A p \in preds :
                    TriplesSP(stack, s, p) = SelectSeq(triples, LAMBDA t : t[1] = s /\ t[2] = p)
            /\ \A p \in preds : TriplesP(stack, p) = SelectSeq(triples, LAMBDA t : t[2] = p)
            /\ \A o \in ids : TriplesO(stack, o) = SelectSeq(triples, LAMBDA t : t[3] = o)

\* A string keeps its id: in every later layer and when layers are rolled up, though
\* the dictionaries of a rollup are in another order.  From the id the string comes
\* back, and no two strings share one.
IdsAreStable ==
    \A i \in DOMAIN chain :
        LET stack == Stack(i)
            plain == PlainStack(i)
            count == NodeValueCount(stack)
        IN  /\ \A x \in NodeStrings :
                LET id == SubjectId(stack, x) IN
                /\ id = SubjectId(plain, x)
                /\ id # 0 => IdSubject(stack, id) = x /\ IdObject(stack, id) = [kind |-> "node", str |-> x]
                /\ i > 1 => SubjectId(Stack(i - 1), x) \in {0, id}
            /\ \A x \in ValueStrings :
                LET id == ObjectValueId(stack, x) IN
                /\ id = ObjectValueId(plain, x)
                /\ id # 0 => IdObject(stack, id) = [kind |-> "value", str |-> x] /\ IdSubject(stack, id) = NoString
            /\ \A x \in PredicateStrings :
                LET id == PredicateId(stack, x) IN
                /\ id = PredicateId(plain, x)
                /\ id # 0 => IdPredicate(stack, id) = x
            /\ IdSubject(stack, count + 1) = NoString /\ IdObject(stack, count + 1).str = NoString

\* The queries about what one layer changed, from the cache or from files, give the
\* difference to the layer before it, whatever rollup the layer has.  The changes
\* from one layer of a loaded stack to the top are the difference of those, whatever
\* was added and removed again in between and whatever part of it was rolled up before.
ChangesReadBack ==
    \A i \in DOMAIN chain :
        LET plain == PlainStack(i)
            strings(triples) == Strings(plain, triples)
            agree(f, expected) ==
                LET all == SubjectIterator(f, Start) IN
                /\ strings(all) = expected /\ TripleCount(f) = Cardinality(expected)
                /\ TripleStream(f) = all
                /\ \A t \in Universe : ChangeExists(f, TripleId(plain, t)) <=> t \in expected
                /\ \A s \in 1..(NodeValueCount(plain) + 1) :
                    /\ ChangesS(f, s) = SelectSeq(all, LAMBDA t : t[1] = s)
                    /\ ChangesO(f, s) = SelectSeq(all, LAMBDA t : t[3] = s)
                    /\ \A p \in 1..PredicateCount(plain) :
                        ChangesSP(f, s, p) = SelectSeq(all, LAMBDA t : t[1] = s /\ t[2] = p)
                /\ \A p \in 1..PredicateCount(plain) : ChangesP(f, p) = SelectSeq(all, LAMBDA t : t[2] = p)
        IN  /\ \A f \in {LayerAdditions(i, cached) : cached \in BOOLEAN} : agree(f, truth[i] \ Old(i))
            /\ \A f \in {LayerRemovals(i, cached) : cached \in BOOLEAN} : agree(f, Old(i) \ truth[i])
            /\ \A k \in 2..Len(Stack(i)) :
                LET above == SubSeq(Stack(i), 1, k - 1)
                    below == truth[Stack(i)[k].name]
                IN  /\ strings(ChangesOf(above, "addition")) = truth[i] \ below
                    /\ strings(ChangesOf(above, "removal")) = below \ truth[i]
=============================================================================
