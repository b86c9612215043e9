# terminus-store: TLA+ models

terminus-store keeps graphs as chains of immutable *layers* (each one the
triples it adds to and removes from its parent) and, per graph, one mutable
*label* that names the head layer. Everything that can go wrong between
concurrent users goes wrong in two places: at the labels, which are read,
checked and written in separate steps, and at the layer store, whose layers can
be replaced by *rollups* while others load them. One half of the models is about
these. The other half is about data: what a layer holds, from the strings a
builder is given to the triples a query returns, through dictionaries, ids, id
maps, removals and rollups; and the packed structures under it, where the hard
part is arithmetic at word and block boundaries. Paths below are relative to the
repository (`src/storage/layer.rs` is `src/src/storage/layer.rs` in `PROJECT.json`).

## Inventory

| component | state | operations | talks to | what is hard |
|---|---|---|---|---|
| Named graphs, `store/mod.rs` | none; a graph's name | `create`, `open`, `delete`, `head`, `head_version`, `set_head`, `force_set_head`, `force_set_head_version` | label store, `layer_is_ancestor_of` | a decision on a label that was read one await earlier |
| Labels and `MemoryLabelStore`, `storage/label.rs`, `memory.rs` | name to (layer, version) under an `RwLock` | create, get, set (compare version), delete | – | a version number can come back after delete and create |
| `DirectoryLabelStore`, file locks, `storage/directory.rs`, `locking.rs` | one file per label | the same, by open, `flock`, read, truncate, write, sync, unlink | file system | the file is visible before it is locked; it is rewritten in place; `delete_label` takes no lock; power failures |
| Layer store, `storage/layer.rs`, `directory.rs` | one directory per layer: parent file, own triples, rollup file | `get_layer`, `create_base_layer`, `create_child_layer`, `rollup`, `rollup_upto`, `imprecise_rollup_upto`, `register_rollup`, ancestry queries | layer cache, builders | loading follows parent and rollup files over many awaits while rollups appear |
| Layer cache, `storage/cache.rs` | name to weak reference | look up, insert, invalidate | layer store | entries die at any time; a load that is under way fills in what was just invalidated |
| Contents of rollups, `storage/delta.rs` | none | `delta_rollup`, `delta_rollup_upto`, the imprecise variant, `safe_upto_bound` | iterators, dictionaries, id maps | half of the changes come from layers in memory, half from disk |
| Builders, `layer/simple_builder.rs`, `builder.rs`, `internal/base.rs`, `internal/child.rs` | requested additions and removals | `add_*`, `remove_*`, `commit` | layer files | net changes against the parent; ids across layers |
| Layers in memory, `layer/internal/*`, `layer/layer.rs` | the files of a layer and its parent | `triple_exists`, `triples*`, ids to values, counts | structures | layers on layers, rollups under a borrowed name |
| Id maps, `layer/id_map.rs` | a permutation | inner to outer ids and back | dictionaries | rollups of rollups; nodes and values share ids |
| Structures, `structure/*` | bit arrays and bit index, log arrays, wavelet tree, adjacency list, front-coded dictionaries, vbyte | build, look up, rank, select | – | block and word boundaries; searches that end before the first or after the last |
| Packs, `storage/pack.rs` | – | export and import layers | layer store | partial imports; layers that exist already; rollups that are not in the pack |
| Files, `storage/file.rs`, synchronous wrapper `store/sync.rs`, logging | – | plumbing | – | – |

What makes each part correct:

* **Named graphs**: a head moves only as the operation allows, judged at the
  moment it moves; no update is silently lost.
* **Label stores**: to its callers, each call is one indivisible step, whatever
  the files look like meanwhile; what was confirmed survives a crash; nobody
  waits forever.
* **Layer store, cache, rollups**: a layer always reads as what was committed
  under its name, however it was loaded; a registered rollup is complete and
  equivalent to its layer; loading terminates.
* **Structures**: rank, select and the encodings agree with their definitions;
  what was pushed is read back the same by every way of reading it.
* **Builders, layers, id maps**: what was added can be enumerated and looked up
  by each of the iterators; an id means the same string for ever; a rollup
  changes neither; no builder panics on what another part hands it.
* **Packs**: an imported layer reads as the exported one, and one imported in part
  does not read at all; an import, complete or not, does no harm to what is there.

## Modules

| module | models | based on |
|---|---|---|
| `Labels` | `Label`; the label operations as functions on one label | – |
| `LabelStore` | abstract specification: the `LabelStore` trait for one label, every operation indivisible. `MemoryLabelStore` is this machine because of its `RwLock` | `Labels` |
| `NamedGraph` | clients of one graph over that label | `LabelStore` |
| `NamedGraph_proofs` | theorems about `NamedGraph` | `NamedGraph`, `TLAPS` |
| `DirectoryLabelStore` | the directory label store, one action per file operation; refines `LabelStore` | `Labels` |
| `DirectoryLabelStore_proofs` | theorems about `DirectoryLabelStore` | `DirectoryLabelStore`, `TLAPS` |
| `LabelLinearizability` | a monitor that keeps every sequential explanation of the results returned | `DirectoryLabelStore` |
| `LabelLinearizability_proofs` | theorem: there always is an explanation | `LabelLinearizability`, `DirectoryLabelStore_proofs` |
| `LayerStore` | directories, loaded layers, cache, builders, rollups | – |
| `LayerInvariants` | the inductive invariants of `LayerStore` | `LayerStore` |
| `LayerLoading_proofs` | lemmas: ancestors, stacks of layers and their triples, what a load computes | `LayerInvariants`, `TLAPS` |
| `LayerStore_proofs` | theorems about `LayerStore`: types, immutability, contents | `LayerLoading_proofs` |
| `LayerPaths_proofs` | theorem about the loads that fail | `LayerStore_proofs` |
| `Packs` | export, and import into another store | `LayerStore` |
| `Packs_proofs` | theorems about `Packs` | `Packs`, `LayerStore_proofs` |
| `Dictionary` | vbyte; front-coded dictionaries: building, reading, search, merging | – |
| `TripleFiles` | the files of a set of triples; the iterators over one such set and over a stack of them | `Dictionary` |
| `LayerContents` | ids, builders, rollups and queries of a chain of layers | `TripleFiles` |
| `LogArray` | log arrays: builder, access by index, stream decoder | – |
| `BitIndex` | bit arrays; the index with rank and select | `LogArray` |
| `WaveletTree` | building, decoding, lookup | `BitIndex` |
| `AdjacencyList` | the builder as a state machine, the finished list and its readers | `WaveletTree` |
| `AdjacencyList_proofs` | theorems about `AdjacencyList`, and through it about `LogArray` and `BitIndex` | `AdjacencyList`, `TLAPS` |
| `MC*` | instances for TLC | |

### Labels and named graphs

A store keeps a label per name and no operation touches two, so one label stands
for the store. The constant `Backend` selects how `set_label_option` compares:
`MemoryLabelStore` by version, `DirectoryLabelStore` by whole label.

`NamedGraph`: `label` is the store; per client `pc`, `call`, `seen` (the label
the call under way read), `known` (what `head_version` returned last), `ret`.
The three operations that move a head are two steps: `BeginSet` is `get_label`
and the check, `FinishSet` is `set_label` and the return value. Layers are
immutable and a rollup keeps the parent of its layer, so the ancestry test is
part of the first step. Bound: `MaxVersion`, above which no write starts.

### The directory label store

`dir` is the directory entry, `file` the contents per inode, `durable` what a
power failure can leave of each, `acked` a history of confirmed versions. A task
goes through one action per file operation: `CreateStat`, `CreateOpen`,
`CreateLock`, `CreateWrite`, `CreateSync`; `GetOpen`, `GetLock`, `GetRead`;
`SetOpen`, `SetLock`, `SetRead`, `SetTruncate`, `SetWrite`, `SetSync`;
`DeleteUnlink`. Locks are not a variable: who holds one follows from where the
tasks are, because a lock is taken by one step and dropped with the file at the
return. A `set_label` gets a label the task received earlier, as in the code.

The label is written by one action. A part of a label never passes
`get_label_from_data` (the second line must be there, and be empty only in a
file of two newlines, or have forty hex digits), so `Empty` stands for every
unfinished file. After a crash a file holds any contents it had since its last
sync. Directory entries are durable at once: nothing in the code syncs the
directory, and the models assume a file system that keeps the entry of a file
that was itself synced.

Bounds: `Inodes` (how often the label is created in a behaviour) and
`MaxVersion`.

### The layer store

`disk` holds per name the directory: its state, parent file, triples added and
removed, rollup file (none, created and empty, or a name). A layer in memory is
a stack of frames, newest first, each with the name it goes by and the directory
its data came from; a `RollupLayer` is a frame in which these differ. `task` is
what each caller is doing, `truth` a history of the triples a client meant to
commit under a name, computed from the requests and not from the files.

`LoadStep` is one turn of the loop of `get_layer_with_cache`; when the search
ends it also loads the layers found and fills the cache. `Commit`,
`PerformRollup`, `PerformRollupUpto`, `RollAll`, `RollUpto`, `Register`,
`WriteRollup` and `Invalidate` follow the order of the awaits in
`LayerStore::rollup` and `CachedLayerStore::register_rollup`. `Evict` is the
death of a weak reference, and the removal of a live entry by a lookup that saw
a dead one (`cache.rs:60`). The files of one new layer are written in one step:
their name is random and not known to anyone before the builder returns it, and
a crash before leaves the directory in state `open`.

Bound: `Names`, the directories a behaviour can create.

`Packs` adds a second store, `other`, into which layers are imported. An import
makes the directories of all layers asked for in one step (`StartImport`), takes
up the layers of the pack in the order the export gave them (`NextLayer`), and
opens (`OpenFile`) and writes (`WriteFile`) the files of each one by one, in the
order of the pack: the dictionaries, the parent file of a child layer, the lists.
It may stop between any two of these steps and be tried again, with the same
layers or others. `files` says how much of each file the other store has, and
`Readable` what `get_layer` needs of them: a layer of which files are missing or
cut short has a directory, and loading it fails. That a file cut short is refused
matters only for the last file of a layer, since files after any other are
missing; the last are log arrays, whose length is checked when they are loaded
(`structure/logarray.rs`). `File` puts the dictionaries in one group and the
lists in another. Bounds: imports come one after the other; and the first store
is at rest once one has begun: the files in a pack are complete and do not
change, so later steps of the first store cannot matter.

### What layers hold

`LayerStore` has every step in which files are written and loaded but sees a
layer as a set of triples. `LayerContents` is the complement: an operation is one
step, and a layer is its files: three dictionaries, two id maps, the triple files
of what it adds and of what it removes. `chain` has the layers, `rolled` the
rollup of each, `truth` the triples its builders were asked for, as strings.

`Commit` is `SimpleLayerBuilder::commit` with requests of any kind;
`ApplyDelta`, `ApplyDiff` and `Squash` are those of `store/mod.rs`; `Rollup` and
`RollupUpto` are `delta_rollup` and `delta_rollup_upto` with the layer that is
kept in the loaded stack (the part of `delta_rollup_upto` that goes to disk past
an earlier rollup is in `LayerStore`). Everything else is an operator named after
the function it models: `BuildLayer` (resolving strings, sorting the requests by
what is resolved of them, new ids, sorting again), `Equivalents` (the walk of
`zero_equivalents` over two sorted sequences, which crosses off contrary
requests), `SortedTriples` (the second sort, once all ids are known), `SubjectId`, `IdObject` and the like, `OuterIds` (id
maps), `TriplesS`, `TriplesSP`, `TriplesP`, `TriplesO` (queries), `ChangesOf`.

Under it, `TripleFiles` has the three adjacency lists and the iterators that seek
and step in them, position by position: the search for a subject in the
`MonotonicLogArray` of a child layer, the two loops that move to a predicate,
the merging of layers with their removals, the cancelling of changes, the
streams. An adjacency list is a sequence of pairs there; that the bits stored
read back as such pairs is what `AdjacencyList` shows. `Dictionary` has strings
as sequences of bytes and works on the encoded file: blocks, common prefixes,
vbyte lengths, the search over block heads and the scan within a block. Entries
rebuilt by the stream readers are lists of parts, compared and merged part by part as
in `Ord for PfcDictEntry` (`EntryLess`); `optimize`, which joins the parts of an
entry and does not change what it spells, is left out.

Bounds: `Universe` (the triples), `MaxLayers`, `MaxChanges` (triples that
a commit has requests about, by the place of the layer: each may be asked to be
added, removed or both; a squash starts a new chain when its result is as small as
a base layer of the bound). `MixedMaps` says whether a rollup of rollups is made
when the id maps that the code mixes up differ (see `rollup_ids` below).

### The structures

Structures are pure: a builder that takes values one by one and, once finished,
something to read. `LogArray`, `BitIndex` and `WaveletTree` are operators on
records that have the fields of the code's structs; `AdjacencyList` is the
machine that drives them all: `Push` and `Finalize` are the two operations of
its builder, `pairs` the history of what was pushed. Its numbers are in a log
array, its boundaries in a bit index, and a layer builds its wavelet tree over
such numbers (`layer/builder.rs:360`). The loops of the code are recursive
functions here, of one number, or of the pair of bounds for the two halving
searches of `select`.

Words have `Word` bits and superblocks `SBlock` words (64 and 52 in the code).
Shifts and the bitwise or are those of the code, with bits lost at `2^Word`; a
control word is represented by the length and width it encodes. The block and
superblock ranks are kept as numbers and not packed a second time. `Select` is
`select1` and `select0` in one; ranks start at 1 (the code has a special case for
0 that nothing uses), and for zeros only ranks that exist are asked for: past
them `select0` counts missing blocks as zeros and may return a position beyond
the array.

Bounds: `MaxLeft` and `MaxRight`.

## Runs

| run | instance | shows |
|---|---|---|
| `named_graph_directory` | 2 clients, a fork of 3 layers, versions to 2, deletion | `HeadMovesForward`, `VersionIsChecked`: the checks hold at the moment of the write |
| `named_graph_memory` | memory backend, versions to 3, no deletion | `NoLostUpdate`, `OptimisticUpdate`, `HeadMovesForward`: comparing versions is enough |
| `named_graph_return` | directory backend | violation of `TrueMeansUpdated`, see below |
| `directory_labels` | 3 tasks, 2 files | `ImplementsLabelStore` (refinement), `Linearizable`, `EmptyOnlyWhileCreating` |
| `directory_labels_crash` | 2 tasks, 2 files, versions to 2, crashes | `ConfirmedSurvives`, `ConfirmedVersionsIncrease`, `LocksAreReleased`, `CallsReturn` |
| `layer_build` | 2 tasks, 3 directories from an empty store, 1 triple, crashes; then imports of packs into another store, file by file, in part, repeated and stopped anywhere | `LayersReadBack`, `CompleteLayersNeverChange` over everything clients can build; `PackedLayersReadBack`: a layer loads from the other store exactly when it and its ancestors are imported, and then as committed; `ImportKeepsLayers`; the inductive invariants `ContentInv` and `PackInv` |
| `layer_rollup` | 2 tasks roll up a chain of 3 layers, every history of a triple, 2 rollups, crashes | `LayersReadBack`, `RollupsAreEquivalent` under concurrent rollups of the same and of different layers |
| `layer_live` | 2 tasks load, build on, squash and roll up a chain of 3, crashes | `CallsReturn`, `FailsOnlyOnEmptyRollup`; the inductive invariant `PathInv`, with two tasks |
| `layer_rollup_four` | 1 task, chain of 4 | violation of `RollupsAreEquivalent`, see below |
| `adjacency_list` | words of 3 bits, superblocks of 2 words, numbers of 2 bits; all ascending lists of pairs in 1..4 by 1..3 | `LogArrayReadsBack`, `RankAndSelect`, `ListReadsBack`, `WaveletReadsBack` against the pairs pushed; the invariant `BuilderInv` of the words under construction |
| `triples` | chains of up to 3 layers over 5 triples, blocks of 3 strings, 1 bit per vbyte | `NoPanic`, `DictionariesReadBack`, `IdsAreStable`, `QueriesAgree`, `ChangesReadBack`, `LayersReadBack`: by every query, through every rollup, the layers hold what was asked for |
| `rollup_ids` | the same, with rollups of rollups whose id maps differ | violation of `LayersReadBack`, see below |

Why the bounds are enough. The races on a label are between two parties; a third
client or task adds the one that deletes or creates in between. Two files are
what it takes to unlink a label others have open and create it anew. A rollup of
a chain of three steps over one layer, which is the least for it to differ from
the layer; two spare names allow two rollups, of one layer or of two, so that a
rollup is made of rollups. One triple is enough for the contents because nothing
relates two triples: additions and removals are counted triple by triple.
`layer_live` has no triples: where a load goes depends on names and files alone.
In `adjacency_list` a word of 3 bits holds one and a half numbers of 2 bits, so
that numbers begin at, straddle and end at word boundaries; twelve entries are
four words and two superblocks, twenty-four bits of a wavelet tree eight words
and four superblocks, so that the searches take several turns, with full and
partly filled blocks at the end, and there are holes before, between and after
the pairs.

In `layer_build` three directories are a base layer, a child and a rollup of it, or three
layers; an import of the child stops before, inside and between each of its files.

In `triples` five node strings in blocks of three give dictionaries with a block
that is full, one that is not, and two blocks, the second with one string or two,
with strings sought that are not there before, between and after the heads; one
bit per vbyte byte makes lengths of several bytes. The strings of later layers sort before, between and after those of the
base layer and share prefixes; a string is both a node and a value; a subject is
the object of another triple. Requests about two triples in each of two layers and about one in
the third, contrary requests about the same triple among them, let a triple be added, removed and added again, be removed when it is
not there, and leave layers that have only removals or nothing. Three layers are
what it takes for a rollup that keeps a layer, and for a rollup over it.

Symmetry is used in runs without liveness only, over tasks, files and unused
names, none of which is ordered or distinguished.

Deadlock is checked in the passing runs of the stores: a client can always make
another call, or the bounds leave it one that fails. `adjacency_list` and
`triples` are not checked for it: a finished list is not changed any more, and a
chain of three layers that are all rolled up is as far as the bounds go.

### Fairness

`WF(Step(t))` for every task, in `directory_labels_crash` and `layer_live`: the
executor polls a task whose I/O is complete. Nothing is assumed of calls (a
client may never call again), of crashes or of evictions. Weak fairness suffices
for the lock steps because `CallsReturn` of `DirectoryLabelStore` speaks of
behaviours in which new calls cease; `flock` does not promise a waiting task its
turn otherwise. In `LayerStore` no step waits for another task, so a call
returns unconditionally.

### Disagreements between code and documentation

* `named_graph_return`: `force_set_head_version` (and `set_head`) return `true`
  when `set_label` reported, by `Ok(None)`, that another client wrote in between
  (`store/mod.rs:751`, `717`); the documentation promises `false`
  (`store/mod.rs:737`). Updates are not lost; the caller is misinformed.
* `layer_rollup_four`: `layer_changes_upto` reads, for each layer on its way, the
  changes of the layer it started from (`storage/layer.rs:391`: `name`, not
  `current`). It takes an earlier rollup that reaches past `upto` and two layers
  between: hence a chain of four. Chains of three are equivalent (`layer_rollup`).
* `rollup_ids`: `construct_idmaps_from_layers` collects `node_value_id_map()` for
  the id maps of the predicates too (`layer/id_map.rs:191`, and likewise
  `storage/delta.rs:198`). A layer without a rollup has neither and nothing
  happens. When a layer that is rolled up is loaded through a rollup whose nodes
  were permuted, the predicates of the new rollup get wrong ids: a layer rolled
  up to its grandparent and then rolled up completely reads back with other
  predicates. In `triples` such rollups are left out.

### Known limits of the code, without a run

Met while modelling; the properties above are stated so as to hold beside them.

* Memory backend, with deletion: a graph deleted and created anew has old
  version numbers, and a `set_head` that read the old label takes effect on the
  new one (`storage/memory.rs:323`). `HeadMovesForward` and the theorems assume
  the directory backend or no deletion.
* `create_label` makes the file visible before it is locked and written
  (`storage/locking.rs:163`): a concurrent `get_label` or `set_label` can fail
  with `InvalidData`. The monitor treats such calls as without effect.
* A crash between truncate and write (`storage/directory.rs:364`) or between
  creation and write leaves a label every call but `delete_label` refuses.
  `ConfirmedSurvives` says what remains if the file is readable.
* A rollup file is created first and written later (`storage/layer.rs:756`); a
  load in between, or after a crash in between, fails. `FailsOnlyOnEmptyRollup`
  says that this is the only way a load of a committed layer fails.
* `imprecise_rollup_upto` writes the changes above the bound although the new
  layer is a child of `upto` (`storage/delta.rs:307`): over an earlier rollup
  that reaches past `upto` it loses changes. It takes part in `layer_live` only.
* `rollup_upto` of a layer whose registered rollup is complete (no parent file)
  fails with `NotFound` (`storage/layer.rs:2014`), and panics when the safe bound
  is the layer itself. Both are error returns of the model.
* `calculate_width` (`structure/util.rs:172`) computes in `f32`. For a size of
  2^21, and more of them from 2^22 on, it returns one bit too few and the log
  array refuses the largest id. The models take the width as given.
* A load that looked for a rollup before it was registered puts the layer without
  it in the cache after `register_rollup` has dropped it (`storage/cache.rs:341`).
  The layer reads correctly (`LayersReadBack`); the rollup is not used until the
  entry dies.
* `PfcDict::id` of an empty dictionary finds the empty string (`structure/pfc.rs:588`: the
  head of a block that is not there is empty). The empty string is left out of
  `LayerContents` by assumption.
* `triples_p(0)` on a base layer with holes gives the holes as triples; queries
  are for ids from 1 on, as everywhere in the code.
* An import makes directories for layers that the pack does not hold
  (`storage/pack.rs:71`), where the documentation says they are ignored
  (`storage/pack.rs:32`): the directory then exists and `get_layer` fails, where
  it gives no layer for a name that has none (`PackedLayersReadBack` says only that
  the layer does not load). An import that stopped leaves the same. In the
  memory store, making a directory that exists empties it
  (`storage/memory.rs:201`); `ImportKeepsLayers` is about directory stores, and
  its mutant is the memory store's way.
* `CachedLayerStore::get_predicate_count` asks the inner store for the count of
  values (`storage/cache.rs:214`).
* `labels()` opens the names it lists relative to the working directory, and
  `layers()` meets prefix directories; listings are not modelled.

## Proofs

`NamedGraph_proofs` proves, for every set of clients, forest of layers and bound:

* `TypeCorrect`;
* `SetHeadMovesForward` (directory backend, or no deletion);
* `ForceSetHeadChecksVersion` (both backends, deletion included);
* `NoUpdateIsLost` and `HeadVersionIsCompareAndSwap` (no deletion).

The inductive invariant is `IndInv`. The type invariant does not carry these
properties: they speak of the label at the write, the checks were made on the
label at the read. `CheckedOnSeen` carries the check to the write; it remains to
be shown that the label replaced is the one that was read. The directory backend
compares labels and nothing more is needed. The memory backend compares versions
and needs `VersionIdentifies`: a label someone holds is no newer than the
current one, and equal to it if the versions are equal. It is inductive because
each write raises the version by one, and fails with deletion. `AdvanceStep`
puts this together once; each theorem is then a few steps. The theorems are action
properties, so they are proved of `[Next]_vars` under `IndInv`.

`DirectoryLabelStore_proofs` proves, for every set of tasks, files and layers:

* `TypeCorrect` and `LocksAreExclusive`;
* `NoTornRead` (no crashes): `EmptyOnlyWhileCreating`;
* `ConfirmedWritesSurvive` and `ConfirmedWritesIncrease`, crashes included;
* `DirectoryImplementsLabelStore` (no crashes): the refinement of `LabelStore`.

The inductive invariant is `IndInv` of `DirectoryLabelStore`. `LocksExclude` is
inductive by itself but does not say what is in a file. `WritersAreAlone` does
(a writer finds what it left), and needs two reasons: for a writer with a lock,
`LocksExclude`; for a `create_label` that waits for its lock and has none,
`CreatorsAreAlone`, which holds because its file was `Unused` when it was made
(`FilesAreOpen`: nobody had it open) and because an update goes past `SetRead`
only on a file that parses. `ConfirmedIsOld` relates `acked`, `durable`, the file
and the updates under way: the label an update started from was in the file, so
it is no older than what was confirmed, and nobody else confirms meanwhile.
`EmptyHasWriter` gives `NoTornRead` and fails with crashes, as does the
refinement: a crash can put an older label back, or leave none.

In the refinement the label is, while a `set_label` has the file truncated, the
label that it replaces (`AbsLabel`, a `CHOOSE` over the tasks, unique by
`LocksExclude`). `StepRefines` has the five steps that matter: `CreateOpen`
(a new empty file is still no label), `CreateWrite` (is `Create`), `SetTruncate`
(no change), `SetWrite` (is `Set`), `DeleteUnlink` (is `Delete`).

Both invariants were checked with TLC, with and without crashes, before they
were proved.

`LabelLinearizability_proofs` proves `LabelStoreIsLinearizable`: `Linearizable`
without crashes, for every finite set of tasks (the monitor counts them) and
every set of files and layers. With crashes there is nothing to state: a call
that a crash cuts off returns nothing.

The difficulty is `delete_label`, which takes no lock. A call on a file that is
already unlinked gets its result from that file, so it has to take effect before
the unlinking, at a moment when nobody could know its result: it depends on who
gets the lock first. No single explanation can be kept along; the refinement of
`LabelStore` above does not give one either, since it says nothing about results.
The invariant `MonitorInv` therefore says that *every* explanation that still fits
the files is among those of the monitor (`AllExplained`). An explanation fits
(`Explains`) when its label is the one the directory entry leads to, with the
update under way that has compared labels; when each `create_label` and
`set_label_option` past that point has its result; and when, for each unlinked
file, the calls that have it open and have not read it yet can be put into an
order (`Ordered`) that gives those of them that have taken effect their results.
The proof goes backwards over each step: from an explanation that fits after the
step it finds one that fits before it, from which the monitor reaches the first.

* A call that goes on without effect, or returns what the label is now: the same
  explanation (`Quiet`, `RefusedStep`, `ReturnsNow`).
* `CreateOpen`, and `SetRead` on the file of the label: the explanation before the
  call took effect (`CreateStep`, `CompareStep`).
* `GetRead` and `SetRead` on an unlinked file: the call goes first in the order
  (`ReadStep`, `OrderedFirst`).
* `DeleteUnlink`: the calls of the order have not taken effect; the monitor lets
  them, one after the other, and then the deletion (`UnlinkStep`, `InOrder`).

That the monitor's rounds are enough (`ReachedClosed`) is an induction over the
calls that have taken effect. At the end, every state has an explanation that
fits (`SomethingExplains`, from `EmptyHasWriter`), so the monitor has one.
`MonitorInv` itself is no invariant of a run: it quantifies over all orders.

### The layer store

`LayerStore_proofs`, `LayerPaths_proofs` and `Packs_proofs` prove, for every set
of names, triples and tasks, with and without crashes:

| theorem | states | for |
|---|---|---|
| `Structure` | `CoreInv(FALSE)` | all operations |
| `TypeCorrect` | `TypeOK` | all operations |
| `CompleteLayersStay` | `CompleteLayersNeverChange` | all operations |
| `OnlyEmptyRollupsFail` | `FailsOnlyOnEmptyRollup` | all operations |
| `PathInvariant` | `PathInv` | all operations |
| `ReadsFollowRollups` | `LayersReadBack` | all operations, while `RollupsAreEquivalent` |
| `RollupsEquivalent`, `LayersReadBackAlways` | `RollupsAreEquivalent`, `LayersReadBack` | no `rollup_upto`, no `imprecise_rollup_upto` |
| `ContentInvariantAlways` | `ContentInv` | no `rollup_upto`, no `imprecise_rollup_upto` |
| `PacksKeepStore` | `PackSpec => Spec` | all operations |
| `ImportsKeepLayers` | `ImportKeepsLayers` | all operations |
| `PackInvariant` | `PackInv` | all operations |
| `PacksFollowRollups` | `PackedLayersReadBack` | all operations, while `RollupsAreEquivalent` |
| `PackedLayersReadBackAlways` | `PackedLayersReadBack` | no `rollup_upto`, no `imprecise_rollup_upto` |

Why the operations are split. `RollupsAreEquivalent` is false with `rollup_upto`
(run `layer_rollup_four`) and with the imprecise variant (known limits), so no
theorem can claim it of all operations. What can be said of all of them is where
the damage can come from: `ReadsFollowRollups` says that stale loads, the cache,
crashes and concurrent rollups never make a layer read wrong by themselves; only
a rollup that is wrong on disk does. `rollup` writes none
(`RollupsEquivalent`).

*The invariant.* `LayersReadBack` speaks of the layers tasks and cache hold now;
it is not inductive, because what they will hold depends on what a load has
found so far and on the files. `CoreInv(b)` has, in this order: types; what a
directory may look like (`DirectoryInv`: only committed layers are parents or
have rollup files, and a rollup file names something complete); that the parent
files make no circle (`WellFounded`); that the triples committed under a name
are those of its directory on top of the triples of its parent (`ValuesFit`);
that each cached layer is the one it is cached as (`Fits`); what each call
relies on where it is (`CallInv`, with `LoadFits` for `layers_to_load`: each
entry is the parent of what is loaded for the one before, and an entry that has
a rollup has one that was right when it was found and still is); and that no two
tasks write one directory (`OwnInv`). With `b` false all that mentions triples
is left out; this part is inductive by itself. With `b` true it is inductive
while `RollupsFit` holds, the only thing a load takes on trust from disk.

*Steps of others.* All steps have one property, `Keeps`: what is complete stays
as it is, and what exists keeps its parent. `KeepsFits`, `KeepsLoad` and
`KeepsCall` carry everything a task relies on over the steps of others, once for
all; each action then has a lemma of its own (`CommitInv`, `RollAllInv`, ...),
which shows the invariant of the task that moves, and `Keeps`. It makes
`CompleteLayersStay` one step at the end.

*Recursion.* `Ancestry`, `StacksOn` and `OtherStack` are recursive functions.
That they are what their equations say is proved: a solution exists because the
parent files make no circle (`ChainExists`, `AncestryExists`) or because the
index goes down (`StacksExist`), and the function is a `CHOOSE` of such a
solution. Induction is by least counterexample (`LeastNat`, or `WellFounded`
itself), which needs no induction theorem with an operator as its parameter.
`StacksFit` is the induction over a load, `StoredValue` the one over ancestors.

*Without the upto operations*, `LayerInv` adds `RollupsFit` and `RollCall`: a
rollup that is being written has no parent, and one that is about to be named by
a rollup file has the triples of its layer. They follow from `Fits` of the layer
in memory, which the invariant already has.

*Loads that fail.* That no load meets a missing directory follows from
`CoreInv(FALSE)`. That it ends at an *ancestor* when it fails needs `PathInv`:
every entry of `layers_to_load` is an ancestor of the layer asked for (`Above`,
stated by sets closed under the parent files and shown to be `Ancestry` in
`AboveIsAncestry`), and what stands in for a layer leads back to an ancestor of
it (`Continues`). For rollups up to a layer this rests on
`retrieve_layer_stack_names_upto` failing when that layer is no ancestor; a
version that does not breaks `PathInv` (its mutant).

*Packs.* `PackInv` relates the two stores, directory by directory and file by file
(`FilesInv`): there is no rollup file; a file exists only when the ones before it in
the pack are whole; a whole file holds what the first store has. So a directory is
readable exactly when all files of its layer are whole: one that was only begun may
have its parent file already, but then lacks its lists. A load follows the parent
files; as long as it meets whole directories it goes through `Ancestry`, and it
fails at the first that is not whole. That gives both halves of
`PackedLayersReadBack`; the contents are then those of the first store.

`ContentInv` (`CoreInv(TRUE)` with `RollupsFit`), `PackInv` and `PathInv` are
invariants of the runs `layer_build` and `layer_live`. `ContentInv` holds there,
`rollup_upto` included, because chains within the bounds are too short for the
defect of `layer_rollup_four`.

### The structures

`AdjacencyList_proofs` proves, for words of any length, superblocks of any
number of words, numbers of any width up to a word, and lists of any length:

| theorem | states |
|---|---|
| `TypeInvariant` | `TypeOK`: the words written account for the entries; the bits are one behind |
| `BuilderInvariant` | `BuilderInv`: the words hold exactly the numbers and the settled bits |
| `LogArrayInvariant` | `LogArrayReadsBack`: by index and as a stream |
| `RankInvariant` | `RankAndSelect`: `rank1`, `rank0`, `select1`, `select0` are counting |
| `ListReadsBackInvariant` | `ListReadsBack`: iterator, stream, `get`, `left_at_pos` and the counts |

*The invariant* is `ListInv`. What is read from a finished list says nothing
about the words of an unfinished one, so it speaks of these: `Packed` says that
the words written and the current one hold a sequence of numbers, each within a
word or across two (`NumberAt`), and zeros behind the last. One push keeps it
(`PackPush` and the lemmas on shifts and or before it: or is addition where
the bits are zero, and what is shifted out of a word is what the next begins
with). `ListInv` has this for both arrays, with the entries that the pairs call
for and the marks of those that are settled; one `Push` is a number of holes and
one entry on the one side, and the bits of the entries before on the other.

*Reading.* A number by index takes the words that `NumberAt` names. The stream
decoders keep a word and how much of it is used; their loop invariant is that
position.

*Rank and select.* The ranks kept per block and superblock are shown to be
counts of bits in a range (`SBlockRankIs`, `BlockRankIs`), the rank in a word a
count of its bits, and counts of adjacent ranges add up (`RankIs`). Each halving
search of `select` finds the first place at which a count that only grows
reaches what is looked for (`SearchFinds`); that a rank that exists is in exactly
one superblock, block and place makes `Select` right (`SelectIs`), and that
none is found past the last makes it `None` (`SelectNone`). `OffsetFor` and
`GetList` are then facts about marks: the mark of rank n is the last entry of the
n-th left-hand side, because left-hand sides go up one by one, holes included.

*Recursion.* As with the layer store, that each recursive function is what its
equation says is proved first, and induction is by sets of numbers that have 0
and the successor of each of theirs.

### Assumptions, and what is not proved

Assumptions: the named `ASSUME`s of `Labels`, `NamedGraph`,
`DirectoryLabelStore`, `LabelLinearizability`, `LayerStore`, `LogArray`,
`BitIndex` and `AdjacencyList` (the sentinels are not values, constants have
their types, the tasks are finitely many, a word has a bit, a superblock a word,
and a number fits a word), all evaluated by the runs. The theorems of
`AdjacencyList_proofs` have the hypothesis `NoneIsNoList`, that the sentinel is
not a finished list; it quantifies over all values, so it is stated there and not
as an `ASSUME`. The hypothesis
`Ops \cap UptoOps = {}` of the theorems marked above is satisfied by a client
that uses `rollup` only, which is how a layer is rolled up completely.

Only model-checked:

* liveness (`CallsReturn`, `LocksAreReleased`), which is out of the prover's reach;
* `RollupsAreEquivalent` with `rollup_upto`, on chains short enough for it to hold;
* `WaveletReadsBack`: its rank and select are the ones proved right above, but
  what its layers hold, a stable sort by ever more bits of the numbers, is a
  statement about concatenated and filtered sequences of every length;
* `LayerContents` with `TripleFiles` and `Dictionary`: recursion over lists and
  strings of every length, in several arguments at once, which the prover has no
  notation for.

## Not modelled

* Files and memory-backed files (`storage/file.rs`), the synchronous wrapper
  (`store/sync.rs`), logging: no decisions of their own. `storage/new_memory.rs`
  and `structure/mapped_dict.rs` are not part of the build.
* Listings (`labels()`, `layers()`), counts per layer of `LayerStore`, and
  `pack_layer_parents`, which change nothing; the encoding of packs (a library).
* `PfcDecoder`, which nothing uses; the errors of vbyte and log arrays for files
  that the code did not write.
* `calculate_width`: it takes the rounding of floating-point numbers.

## Plan

1. *Done*: `Labels`, `LabelStore`, `NamedGraph` with proofs;
   `DirectoryLabelStore` with proofs, `LabelLinearizability`; `LayerStore`;
   `LogArray`, `BitIndex`, `WaveletTree`, `AdjacencyList`; `Dictionary`,
   `TripleFiles`, `LayerContents`; `Packs`.
2. *Done*: proofs of the invariants of `LayerStore` and `Packs`.
3. *Done*: proof of `Linearizable`.
4. *Done*: proofs about the `AdjacencyList` builder, log arrays, rank and select,
   and what a finished list reads back as.
5. Left: the same for wavelet trees and for dictionaries.
