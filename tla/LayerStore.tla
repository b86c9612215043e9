----------------------------- MODULE LayerStore -----------------------------
(***************************************************************************)
(* The layer store: layers on disk (src/src/storage/layer.rs over          *)
(* DirectoryLayerStore), the layers loaded in memory, the cache that       *)
(* shares them (src/src/storage/cache.rs), and the rollups of              *)
(* src/src/storage/delta.rs, as StoreLayer and StoreLayerBuilder           *)
(* (src/src/store/mod.rs) call them.                                       *)
(*                                                                         *)
(* Triples are opaque; ids, dictionaries and id maps are left out.  A      *)
(* layer's own files are written once and are not read by name before the  *)
(* builder is done, so the writing of all of them is one step; the rollup  *)
(* file is the one file that appears later and that others read meanwhile. *)
(***************************************************************************)
EXTENDS Naturals, Sequences, FiniteSets, SequencesExt

CONSTANTS
    Names,      \* bound: names that create_directory may pick
    Triples,
    Tasks,
    None,       \* no parent, no rollup, no layer
    Empty,      \* a rollup file that has been created and not written
    Ops,        \* the operations that clients call
    Crashes     \* whether the process may crash and restart

AllOps == {"get", "base", "child", "squash", "rollup", "rollup_upto", "imprecise_rollup_upto"}

ASSUME LayerStoreAssumption ==
    /\ None \notin Names /\ Empty \notin Names /\ None # Empty
    /\ \A S \in SUBSET Triples : S # None
    /\ Ops \subseteq AllOps
    /\ Crashes \in BOOLEAN

VARIABLES
    disk,       \* per name, the directory of the layer
    cache,      \* LockingHashMapLayerCache: the loaded layers by name
    task,       \* what each task is doing
    truth       \* history: per name, the triples committed under it, None if none were

vars == <<disk, cache, task, truth>>

(***************************************************************************)
(* A directory: absent, open (created, its files not complete) or done;    *)
(* the parent file, the triples added and removed, the rollup file.        *)
(***************************************************************************)
Directory == [state  : {"absent", "open", "done"},
              parent : Names \cup {None},
              add    : SUBSET Triples,
              rem    : SUBSET Triples,
              rollup : Names \cup {None, Empty}]

NoDirectory == [state |-> "absent", parent |-> None, add |-> {}, rem |-> {}, rollup |-> None]

(***************************************************************************)
(* An InternalLayer in memory is the stack it gives access to through      *)
(* immediate_parent, newest first.  Of each member: name(), the directory  *)
(* its data was loaded from (another one than its name for a RollupLayer)  *)
(* and parent_name().                                                      *)
(***************************************************************************)
Frame == [name : Names, data : Names, parent : Names \cup {None}]
IsStack(l) == l \in Seq(Frame) /\ l # <<>>

(***************************************************************************)
(* layers_to_load of get_layer_with_cache: a name, or a name with the      *)
(* rollup to load in its place.                                            *)
(***************************************************************************)
Plain(n) == [name |-> n, rollup |-> None, parent |-> None]
Instead(n, r, p) == [name |-> n, rollup |-> r, parent |-> p]
Source(e) == IF e.rollup = None THEN e.name ELSE e.rollup

Idle == [pc |-> "idle", op |-> "none", name |-> None, upto |-> None, load |-> <<>>,
         layer |-> None, new |-> None, res |-> "none"]

Init ==
    /\ disk = [n \in Names |-> NoDirectory]
    /\ cache = [n \in Names |-> None]
    /\ task = [t \in Tasks |-> Idle]
    /\ truth = [n \in Names |-> None]

-----------------------------------------------------------------------------
(***************************************************************************)
(* What a stack of directories, newest first, amounts to.                  *)
(***************************************************************************)
Holds(dirs, x) ==
    \E i \in DOMAIN dirs :
        /\ x \in disk[dirs[i]].add
        /\ \A j \in 1..(i - 1) : x \notin disk[dirs[j]].rem

DirsOf(l) == [i \in DOMAIN l |-> l[i].data]

\* Layer::triples
Content(l) == {x \in Triples : Holds(DirsOf(l), x)}

\* The names from n back to the base layer, by the parent files.
Ancestry(n) ==
    LET back[m \in Names] ==
            <<m>> \o IF disk[m].parent = None THEN <<>> ELSE back[disk[m].parent]
    IN  back[n]

StoredContent(n) == {x \in Triples : Holds(Ancestry(n), x)}

-----------------------------------------------------------------------------
(***************************************************************************)
(* Calls.  Every operation but create_base_layer starts by loading the     *)
(* layer it is called on: StoreLayer::rollup and its variants get_layer    *)
(* their own name, open_write gets the parent of the new layer, the layer  *)
(* that squash copies was loaded by its caller.                            *)
(***************************************************************************)
\* The bound on names: every call under way that may make a directory still can.
NamesLeft ==
    Cardinality({n \in Names : disk[n].state = "absent"})
        > Cardinality({t \in Tasks : task[t].pc # "idle" /\ task[t].op # "get"
                                                       /\ task[t].new = None})

\* Mutant: layers_to_load starts out empty.
StartLoadEmpty(t, op, n, upto) ==
    /\ op \in Ops
    /\ op # "get" => NamesLeft
    /\ task[t].pc = "idle"
    /\ task' = [task EXCEPT ![t] = [Idle EXCEPT !.pc = "load", !.op = op, !.name = n,
                                                !.upto = upto]]
    /\ UNCHANGED <<disk, cache, truth>>

StartLoad(t, op, n, upto) ==
    /\ op \in Ops
    /\ op # "get" => NamesLeft
    /\ task[t].pc = "idle"
    /\ task' = [task EXCEPT ![t] = [Idle EXCEPT !.pc = "load", !.op = op, !.name = n,
                                                !.upto = upto, !.load = <<Plain(n)>>]]
    /\ UNCHANGED <<disk, cache, truth>>

\* A StoreLayer is had of a layer that a builder committed; the names of rollups
\* are not given out.
Committed(n) == truth[n] # None

\* Store::get_layer_from_id, StoreLayer::parent, NamedGraph::head
CallGet(t) ==
    \E n \in Names : (Committed(n) \/ disk[n].state # "done") /\ StartLoad(t, "get", n, None)

\* StoreLayer::open_write
CallChild(t) == \E n \in Names : Committed(n) /\ StartLoad(t, "child", n, None)

\* StoreLayer::squash
CallSquash(t) == \E n \in Names : Committed(n) /\ StartLoad(t, "squash", n, None)

\* StoreLayer::rollup
CallRollup(t) == \E n \in Names : Committed(n) /\ StartLoad(t, "rollup", n, None)

\* StoreLayer::rollup_upto and imprecise_rollup_upto
CallRollupUpto(t) ==
    \E n, upto \in Names, op \in {"rollup_upto", "imprecise_rollup_upto"} :
        Committed(n) /\ Committed(upto) /\ StartLoad(t, op, n, upto)

\* The call has its result; the next step of the task hands it to the caller.
Return(t, res) == task' = [task EXCEPT ![t].pc = "return", ![t].res = res, ![t].load = <<>>]

HandOver(t) ==
    /\ task[t].pc = "return"
    /\ task' = [task EXCEPT ![t] = Idle]
    /\ UNCHANGED <<disk, cache, truth>>

-----------------------------------------------------------------------------
(***************************************************************************)
(* get_layer_with_cache.  The loop looks at the last of layers_to_load: if *)
(* it is in the cache the search is over, if it has a rollup that takes    *)
(* its place, else its parent is looked at next.  The layers found are     *)
(* then loaded on top of each other and put in the cache.                  *)
(***************************************************************************)

\* imprecise_rollup_upto loads the layer to roll up to without the cache.
UsesCache(t) == ~(task[t].op = "imprecise_rollup_upto" /\ task[t].pc = "load_upto")

Cached(t, n) == IF UsesCache(t) THEN cache[n] ELSE None

\* Put the data of the entry on top of the stack below it: the layer as loaded
\* and, for a rollup, the RollupLayer that bears the name of the original.
Loaded(e, below) ==
    <<[name |-> Source(e), data |-> Source(e),
       parent |-> IF below = <<>> THEN None ELSE Head(below).name]>> \o below

\* Mutant: a rollup goes by its own name and parent.
RenameNot(e, l) == l

Rename(e, l) ==
    IF e.rollup = None THEN l
    ELSE <<[name |-> e.name, data |-> Head(l).data, parent |-> e.parent]>> \o Tail(l)

\* The stacks that loading the entries (oldest last) on an ancestor gives, from
\* the bottom up; <<>> is no ancestor.
StacksOn(entries, ancestor) ==
    LET k == Len(entries)
        up[i \in 0..k] == IF i = 0 THEN ancestor
                          ELSE LET e == entries[k + 1 - i] IN Rename(e, Loaded(e, up[i - 1]))
    IN  up

\* What is in the cache afterwards, when the first n of them could be loaded.
CacheAfter(entries, ancestor, n) ==
    LET up == StacksOn(entries, ancestor)
        k == Len(entries)
        entry(i) == entries[k + 1 - i]
    IN  [m \in Names |->
            IF \E i \in 1..n : entry(i).name = m
            THEN up[CHOOSE i \in 1..n : entry(i).name = m]
            ELSE IF \E i \in 1..n : entry(i).rollup = m
            THEN LET i == CHOOSE i \in 1..n : entry(i).rollup = m
                 IN  Loaded(entry(i), up[i - 1])
            ELSE cache[m]]

\* Load the entries; files that are not there yet make the load fail.
LoadAll(t, entries, ancestor) ==
    LET k == Len(entries)
        complete(n) == \A i \in (k + 1 - n)..k : disk[Source(entries[i])].state = "done"
        loadable == CHOOSE n \in 0..k : complete(n) /\ (n = k \/ ~complete(n + 1))
    IN  /\ cache' = IF UsesCache(t) THEN CacheAfter(entries, ancestor, loadable) ELSE cache
        /\ \/ loadable < k /\ Return(t, "err")
           \/ /\ loadable = k
              /\ task' = [task EXCEPT
                    ![t].load = <<>>,
                    ![t].layer = IF task[t].pc = "load" THEN StacksOn(entries, ancestor)[k] ELSE @,
                    ![t].pc = CASE task[t].op = "get" \/ task[t].new # None -> "return"
                                [] task[t].op \in {"child", "squash"} \/ task[t].pc = "load_upto" -> "create"
                                [] OTHER -> "perform"]

\* Mutant: wait for a rollup file that is being written.
LoopsOnly(n) == disk[n].rollup = n

\* read_rollup_file finds less than two lines, or the panic on a layer that is its
\* own rollup
BadRollup(n) == disk[n].rollup \in {Empty, n}

LoadStep(t) ==
    LET load == task[t].load
        e == Last(load)
        current == Source(e)
        dir == disk[current]
    IN  /\ task[t].pc \in {"load", "load_upto"}
        /\ \/ /\ Cached(t, current) # None
              /\ LoadAll(t, Front(load), Rename(e, cache[current]))
           \/ /\ Cached(t, current) = None
              /\ dir.state = "absent"
              /\ Return(t, "not_found")
              /\ UNCHANGED cache
           \/ /\ Cached(t, current) = None
              /\ BadRollup(current)
              /\ Return(t, "err")
              /\ UNCHANGED cache
           \/ /\ Cached(t, current) = None
              /\ dir.rollup \in Names \ {current}
              /\ task' = [task EXCEPT ![t].load =
                            Append(Front(load), Instead(current, dir.rollup, dir.parent))]
              /\ UNCHANGED cache
           \/ /\ Cached(t, current) = None
              /\ dir.rollup = None /\ dir.parent # None
              /\ task' = [task EXCEPT ![t].load = Append(load, Plain(dir.parent))]
              /\ UNCHANGED cache
           \/ /\ Cached(t, current) = None
              /\ dir.state # "absent" /\ dir.rollup = None /\ dir.parent = None
              /\ LoadAll(t, load, <<>>)
        /\ UNCHANGED <<disk, truth>>

-----------------------------------------------------------------------------
(***************************************************************************)
(* Building a layer.  create_base_layer and create_child_layer make the    *)
(* directory and its parent file; commit writes the rest and loads the new *)
(* layer.                                                                  *)
(***************************************************************************)

\* Mutant: a directory that is there is used again.
CreateDirectoryAnew(n, parent) ==
    disk' = [disk EXCEPT ![n] = [NoDirectory EXCEPT !.state = "open", !.parent = parent]]

\* create_directory picks a random name that is not in use.
CreateDirectory(n, parent) ==
    /\ disk[n].state = "absent"
    /\ disk' = [disk EXCEPT ![n] = [NoDirectory EXCEPT !.state = "open", !.parent = parent]]

\* Store::create_base_layer
CallBase(t) ==
    /\ "base" \in Ops /\ NamesLeft
    /\ task[t].pc = "idle"
    /\ \E n \in Names :
        /\ CreateDirectory(n, None)
        /\ task' = [task EXCEPT ![t] = [Idle EXCEPT !.pc = "build", !.op = "base", !.new = n]]
    /\ UNCHANGED <<cache, truth>>

\* create_child_layer_files_with_cache, for a new layer and for a rollup, and
\* the create_base_layer of squash (whose upto is None)
CreateChild(t) ==
    /\ task[t].pc = "create"
    /\ \E n \in Names :
        /\ CreateDirectory(n, IF task[t].op = "child" THEN task[t].name ELSE task[t].upto)
        /\ task' = [task EXCEPT
                ![t].new = n,
                ![t].pc = IF task[t].op \in {"child", "squash"} THEN "build" ELSE "roll"]
    /\ UNCHANGED <<cache, truth>>

\* What the builder of t was asked to add and to remove: anything or, by squash,
\* the triples of the layer.
Requests(t) ==
    IF task[t].op = "squash" THEN {[add |-> Content(task[t].layer), rem |-> {}]}
                             ELSE [add : SUBSET Triples, rem : SUBSET Triples]

\* StoreLayerBuilder::commit.  A triple that is added and removed is dropped from
\* both; a base layer drops removals, a child layer the additions its parent has
\* and the removals it has not.
Commit(t) ==
    /\ task[t].pc = "build"
    /\ \E req \in Requests(t) :
        LET n == task[t].new
            adds == req.add \ req.rem
            rems == req.rem \ req.add
            old == IF task[t].op = "child" THEN Content(task[t].layer) ELSE {}
            meant == CASE task[t].op = "child" -> (truth[task[t].name] \ rems) \cup adds
                       [] task[t].op = "squash" -> truth[task[t].name]
                       [] task[t].op = "base" -> adds
        IN  /\ disk' = [disk EXCEPT ![n].state = "done",
                                    ![n].add = adds \ old,
                                    ![n].rem = rems \cap old]
            /\ truth' = [truth EXCEPT ![n] = meant]
            /\ task' = [task EXCEPT ![t].pc = "load", ![t].name = n, ![t].load = <<Plain(n)>>,
                                    ![t].layer = None]
    /\ UNCHANGED cache

-----------------------------------------------------------------------------
(***************************************************************************)
(* Rollups.  perform_rollup and perform_rollup_upto write a new directory, *)
(* or find that there is nothing to do or that an equivalent rollup is     *)
(* registered; register_rollup writes the rollup file and drops the layer  *)
(* from the cache.                                                         *)
(***************************************************************************)
Top(t) == Head(task[t].layer)

Registers(t, n) == task' = [task EXCEPT ![t].new = n, ![t].pc = "register"]

PerformRollup(t) ==
    LET r == disk[Top(t).name].rollup IN
    /\ task[t].pc = "perform" /\ task[t].op = "rollup"
    /\ \/ /\ Top(t).parent = None
          /\ Registers(t, Top(t).name)
          /\ UNCHANGED disk
       \/ /\ Top(t).parent # None /\ r = Empty
          /\ Return(t, "err")
          /\ UNCHANGED disk
       \/ /\ Top(t).parent # None /\ r \in Names /\ disk[r].parent = None
          /\ Registers(t, r)
          /\ UNCHANGED disk
       \/ /\ Top(t).parent # None
          /\ r = None \/ (r \in Names /\ disk[r].parent # None)
          /\ \E n \in Names :
                /\ CreateDirectory(n, None)
                /\ task' = [task EXCEPT ![t].new = n, ![t].pc = "roll"]
    /\ UNCHANGED <<cache, truth>>

\* The rollup that is registered already is read back by its parent file: one
\* without a parent is an error.
PerformRollupUpto(t) ==
    LET r == disk[Top(t).name].rollup
        pointless == task[t].upto \in {Top(t).name, Top(t).parent}
    IN
    /\ task[t].pc = "perform" /\ task[t].op # "rollup"
    /\ \/ pointless /\ Registers(t, Top(t).name)
       \/ /\ ~pointless
          /\ r = Empty \/ (r \in Names /\ disk[r].parent = None)
          /\ Return(t, "err")
       \/ /\ ~pointless /\ r \in Names /\ disk[r].parent = task[t].upto
          /\ Registers(t, r)
       \/ /\ ~pointless
          /\ r = None \/ (r \in Names /\ disk[r].parent \notin {None, task[t].upto})
          /\ task' = [task EXCEPT ![t].pc = "load_upto", ![t].load = <<Plain(task[t].upto)>>]
    /\ UNCHANGED <<disk, cache, truth>>

\* Mutant: only the layer's own additions are written.
RollTop(t) ==
    /\ task[t].pc = "roll" /\ task[t].op = "rollup"
    /\ disk' = [disk EXCEPT ![task[t].new].state = "done",
                            ![task[t].new].add = disk[Top(t).data].add]
    /\ task' = [task EXCEPT ![t].pc = "register"]
    /\ UNCHANGED <<cache, truth>>

\* Mutant: the rollup is registered before its files are complete.
RollUnfinished(t) ==
    /\ task[t].pc = "roll" /\ task[t].op = "rollup"
    /\ task' = [task EXCEPT ![t].pc = "register"]
    /\ UNCHANGED <<disk, cache, truth>>

\* delta_rollup: the triples of the layer in memory
RollAll(t) ==
    /\ task[t].pc = "roll" /\ task[t].op = "rollup"
    /\ disk' = [disk EXCEPT ![task[t].new].state = "done",
                            ![task[t].new].add = Content(task[t].layer)]
    /\ task' = [task EXCEPT ![t].pc = "register"]
    /\ UNCHANGED <<cache, truth>>

\* Mutant: when upto is not found, the names of all ancestors.
NamesUptoAll(n, upto) ==
    LET a == Ancestry(n) IN
    SubSeq(a, 1, (CHOOSE i \in 2..(Len(a) + 1) : i = Len(a) + 1 \/ a[i] = upto) - 1)

\* retrieve_layer_stack_names_upto: the names by the parent files from n back to,
\* and without, upto; <<>> when upto is not found.
NamesUpto(n, upto) ==
    LET a == Ancestry(n) IN
    IF \E i \in 2..Len(a) : a[i] = upto
    THEN SubSeq(a, 1, (CHOOSE i \in 2..Len(a) : a[i] = upto) - 1)
    ELSE <<>>

\* safe_upto_bound: how deep the stack in memory follows the layers on disk.
\* An earlier rollup in the stack may step over upto.
SafeDepth(l, upto) ==
    LET onDisk == {NamesUpto(Head(l).name, upto)[i] : i \in DOMAIN NamesUpto(Head(l).name, upto)}
    IN  CHOOSE d \in 1..Len(l) :
            /\ \A i \in 2..d : l[i].name \in onDisk
            /\ d = Len(l) \/ l[d + 1].name \notin onDisk

SafeUptoBound(l, upto) ==
    LET d == SafeDepth(l, upto) IN
    IF d < Len(l) /\ l[d + 1].name = upto THEN upto ELSE l[d].name

\* InternalTripleStackIterator::from_layer_stack: the members above the bound
MemoryChanges(l, bound) ==
    SubSeq(DirsOf(l), 1, (CHOOSE i \in DOMAIN l : l[i].name = bound) - 1)

\* layer_changes_upto walks from the bound to upto and takes, at each layer it
\* passes, the changes of the one it started from.
DiskChanges(bound, upto) ==
    IF bound = upto THEN <<>>
    ELSE [i \in DOMAIN NamesUpto(bound, upto) |-> bound]

\* InternalTripleStackIterator::next: additions and removals of the same triple
\* cancel out one by one.
Count(dirs, x, field) ==
    Cardinality({i \in DOMAIN dirs : x \in IF field = "add" THEN disk[dirs[i]].add
                                                           ELSE disk[dirs[i]].rem})

\* Mutant: removals are not set off against additions.
SurplusAdded(dirs, x, n) == Count(dirs, x, "add") = n

\* How many more directories add the triple than remove it is n.
Surplus(dirs, x, n) == Count(dirs, x, "add") = Count(dirs, x, "rem") + n
Deficit(dirs, x, n) == Count(dirs, x, "rem") = Count(dirs, x, "add") + n

\* delta_rollup_upto and imprecise_delta_rollup_upto.  They fail when upto is no
\* ancestor, and panic when the bound is the layer itself or when a change is
\* left over twice (AdjacencyListBuilder::push).
RollUpto(t) ==
    LET l == task[t].layer
        upto == task[t].upto
        bound == SafeUptoBound(l, upto)
        changes == MemoryChanges(l, bound)
                    \o IF task[t].op = "rollup_upto" THEN DiskChanges(bound, upto) ELSE <<>>
        fails == \/ NamesUpto(Top(t).name, upto) = <<>>
                 \/ bound = Top(t).name
                 \/ \E x \in Triples, n \in 2..Len(changes) :
                        Surplus(changes, x, n) \/ Deficit(changes, x, n)
    IN
    /\ task[t].pc = "roll" /\ task[t].op # "rollup"
    /\ \/ fails /\ Return(t, "err") /\ UNCHANGED disk
       \/ /\ ~fails
          /\ disk' = [disk EXCEPT
                        ![task[t].new].state = "done",
                        ![task[t].new].add = {x \in Triples : Surplus(changes, x, 1)},
                        ![task[t].new].rem = {x \in Triples : Deficit(changes, x, 1)}]
          /\ task' = [task EXCEPT ![t].pc = "register"]
    /\ UNCHANGED <<cache, truth>>

\* write_rollup_file: opening the file creates it, the contents come later.
\* A layer is not registered as its own rollup.
Register(t) ==
    LET n == Top(t).name IN
    /\ task[t].pc = "register"
    /\ \/ /\ task[t].new = n
          /\ task' = [task EXCEPT ![t].pc = "invalidate"]
          /\ UNCHANGED disk
       \/ /\ task[t].new # n
          /\ disk' = [disk EXCEPT ![n].rollup = IF @ = None THEN Empty ELSE @]
          /\ task' = [task EXCEPT ![t].pc = "write_rollup"]
    /\ UNCHANGED <<cache, truth>>

WriteRollup(t) ==
    /\ task[t].pc = "write_rollup"
    /\ disk' = [disk EXCEPT ![Top(t).name].rollup = task[t].new]
    /\ task' = [task EXCEPT ![t].pc = "invalidate"]
    /\ UNCHANGED <<cache, truth>>

\* CachedLayerStore::register_rollup drops the layer from the cache.
Invalidate(t) ==
    /\ task[t].pc = "invalidate"
    /\ cache' = [cache EXCEPT ![Top(t).name] = None]
    /\ Return(t, "ok")
    /\ UNCHANGED <<disk, truth>>

-----------------------------------------------------------------------------
\* The cache holds weak references: an entry dies with the last client that
\* uses the layer, or is removed by a lookup that saw a dead predecessor of it.
Evict ==
    /\ \E n \in Names : cache[n] # None /\ cache' = [cache EXCEPT ![n] = None]
    /\ UNCHANGED <<disk, task, truth>>

Crash ==
    /\ Crashes
    /\ task' = [t \in Tasks |-> Idle]
    /\ cache' = [n \in Names |-> None]
    /\ UNCHANGED <<disk, truth>>

Step(t) ==
    \/ HandOver(t) \/ LoadStep(t) \/ CreateChild(t) \/ Commit(t)
    \/ PerformRollup(t) \/ PerformRollupUpto(t) \/ RollAll(t) \/ RollUpto(t)
    \/ Register(t) \/ WriteRollup(t) \/ Invalidate(t)

Call(t) ==
    \/ CallGet(t) \/ CallBase(t) \/ CallChild(t) \/ CallSquash(t)
    \/ CallRollup(t) \/ CallRollupUpto(t)

Next == Evict \/ Crash \/ \E t \in Tasks : Call(t) \/ Step(t)

Spec == Init /\ [][Next]_vars

\* A task that can go on is polled again; nothing it does waits for another.
FairSpec == Spec /\ \A t \in Tasks : WF_vars(Step(t))

-----------------------------------------------------------------------------
TypeOK ==
    /\ disk \in [Names -> Directory]
    /\ \A n \in Names : cache[n] = None \/ IsStack(cache[n])
    /\ \A t \in Tasks :
        /\ task[t].layer = None \/ IsStack(task[t].layer)
        /\ task[t].pc \in {"load", "load_upto"} => task[t].load # <<>>
    /\ truth \in [Names -> (SUBSET Triples) \cup {None}]

\* What a client may expect of the layer it asked for by name, or that commit
\* returned to it: the name, the parent, and the triples.
Reads(n, l) ==
    /\ Head(l).name = n
    /\ Head(l).parent = disk[n].parent
    /\ Content(l) = IF Committed(n) THEN truth[n] ELSE StoredContent(n)

\* Every layer in memory, in the cache or in the hands of a task, has the name,
\* the history and exactly the triples that were committed, whichever of its
\* ancestors were rolled up, cached or evicted before and while it was loaded.
LayersReadBack ==
    /\ \A n \in Names : cache[n] # None => Reads(n, cache[n])
    /\ \A t \in Tasks : task[t].layer # None => Reads(task[t].name, task[t].layer)

\* A rollup file names a complete layer that holds the same triples as the layer
\* it stands in for: also after a crash, and between the steps of two rollups of
\* one layer.
RollupsAreEquivalent ==
    \A n, r \in Names : disk[n].rollup = r =>
        disk[r].state = "done" /\ StoredContent(r) = truth[n]

\* The files of a layer or rollup that is complete never change again, but for the
\* rollup file, and neither does what was committed under its name: names are not
\* used twice and tasks do not write each other's directories.
CompleteLayersNeverChange ==
    [][\A n \in Names : disk[n].state = "done" =>
          /\ disk'[n] = [disk[n] EXCEPT !.rollup = disk'[n].rollup]
          /\ truth'[n] = truth[n]]_vars

\* Every call returns: the search of get_layer_with_cache for something to load
\* does not go round in circles through rollup and parent files.
CallsReturn == \A t \in Tasks : task[t].pc # "idle" ~> task[t].pc = "idle"

\* A layer that was committed fails to load for one reason only: it or one of its
\* ancestors has a rollup file that was created and not written yet, or never
\* after a crash.  A load under way survives everything else others do.
FailsOnlyOnEmptyRollup ==
    [][\A t \in Tasks :
          /\ task[t].op = "get" /\ Committed(task[t].name)
          /\ task[t].pc = "load" /\ task'[t].pc = "return" /\ task'[t].res # "none"
          => \E i \in DOMAIN Ancestry(task[t].name) :
                disk[Ancestry(task[t].name)[i]].rollup = Empty]_vars
=============================================================================
