--------------------------- MODULE LayerInvariants ---------------------------
(***************************************************************************)
(* The inductive invariants of LayerStore, in two strengths: CoreInv(FALSE) *)
(* is about names, parents and files that are complete and holds whatever  *)
(* the rollups contain; CoreInv(TRUE) adds the triples, which are right as *)
(* long as RollupsFit holds of the rollup files.                           *)
(***************************************************************************)
EXTENDS LayerStore

Stacks == Seq(Frame) \ {<<>>}
Entry == [name : Names, rollup : Names \cup {None}, parent : Names \cup {None}]

UptoOps == {"rollup_upto", "imprecise_rollup_upto"}
RollupOps == {"rollup"} \cup UptoOps
BuildOps == {"child", "squash"}
PCs == {"idle", "load", "load_upto", "perform", "create", "build", "roll", "register",
        "write_rollup", "invalidate", "return"}

TaskState == [pc : PCs, op : AllOps \cup {"none"}, name : Names \cup {None},
              upto : Names \cup {None}, load : Seq(Entry), layer : {None} \cup Stacks,
              new : Names \cup {None}, res : {"none", "ok", "err", "not_found"}]

TypeInv ==
    /\ disk \in [Names -> Directory]
    /\ cache \in [Names -> {None} \cup Stacks]
    /\ task \in [Tasks -> TaskState]
    /\ truth \in [Names -> {None} \cup SUBSET Triples]

-----------------------------------------------------------------------------
\* A complete directory that is no layer of its own: a rollup.
Rolled(r) == disk[r].state = "done" /\ ~Committed(r)

\* Only a builder's commit makes a layer that others have as their parent or that
\* can be rolled up; what a rollup file names is complete.
DirectoryInv ==
    \A n \in Names :
        /\ disk[n].state = "absent" => disk[n] = NoDirectory
        /\ disk[n].state = "open" => disk[n].add = {} /\ disk[n].rem = {}
        /\ Committed(n) => disk[n].state = "done"
        /\ disk[n].parent # None => Committed(disk[n].parent)
        /\ disk[n].rollup # None => Committed(n)
        /\ disk[n].rollup \in Names => Rolled(disk[n].rollup)

\* The parent files make no circle: every set of names has one whose parent is
\* outside of it.
Parent == [n \in Names |-> disk[n].parent]
WellFounded(par) == \A S \in SUBSET Names : S # {} => \E n \in S : par[n] \notin S

\* The triples of the directory n on top of the layer that is its parent.
OwnValue(n) == IF disk[n].parent = None THEN disk[n].add
               ELSE (truth[disk[n].parent] \ disk[n].rem) \cup disk[n].add

ValuesFit(b) == b => \A n \in Names : Committed(n) => truth[n] = OwnValue(n)
RollupsFit(b) ==
    b => \A n \in Names : disk[n].rollup \in Names => OwnValue(disk[n].rollup) = truth[n]

-----------------------------------------------------------------------------
\* The stack l is the layer n in memory.
Named(n, l) ==
    /\ l \in Stacks
    /\ n \in Names /\ disk[n].state = "done"
    /\ Head(l).name = n /\ Head(l).parent = disk[n].parent
    /\ \A i \in 1..Len(l) : disk[l[i].data].state = "done"

Fits(b, n, l) == Named(n, l) /\ (b => Content(l) = OwnValue(n))

\* A member of layers_to_load, and all of them: each is the parent of what is to
\* be loaded for the one before.
EntryFits(b, e) ==
    e.rollup # None =>
        /\ Committed(e.name) /\ Rolled(e.rollup) /\ e.parent = disk[e.name].parent
        /\ b => OwnValue(e.rollup) = truth[e.name]

LoadFits(b, load) ==
    /\ load \in Seq(Entry) /\ load # <<>>
    /\ \A i \in 1..Len(load) : EntryFits(b, load[i])
    /\ \A i \in 1..(Len(load) - 1) : disk[Source(load[i])].parent = load[i + 1].name

HasLayer(c) ==
    \/ c.layer # None
    \/ c.pc \in {"perform", "load_upto", "create", "roll", "register", "write_rollup", "invalidate"}
    \/ c.pc = "build" /\ c.op # "base"

\* A directory that is being written.
Builds(c) == c.pc \in {"build", "roll"}

\* A task whose state is c.
CallInv(b, c) ==
    /\ c.op \in BuildOps \cup RollupOps => c.name \in Names /\ Committed(c.name)
    /\ c.op \in UptoOps => c.upto \in Names /\ Committed(c.upto)
    /\ c.op \notin UptoOps => c.upto = None
    /\ c.pc \in {"load", "load_upto"} =>
        LoadFits(b, c.load) /\ c.load[1].name = IF c.pc = "load" THEN c.name ELSE c.upto
    /\ HasLayer(c) => Fits(b, c.name, c.layer)
    /\ c.pc = "load" => c.op \in {"get"} \cup BuildOps \cup RollupOps \/ c.new # None
    /\ c.pc = "load_upto" => c.op \in UptoOps
    /\ c.pc = "create" => c.op \in BuildOps \cup UptoOps
    /\ c.pc = "build" =>
        /\ c.op \in {"base"} \cup BuildOps
        /\ disk[c.new].parent = IF c.op = "child" THEN c.name ELSE None
    /\ Builds(c) => c.new \in Names /\ disk[c.new].state = "open"
    /\ c.pc \in {"perform", "roll", "register", "write_rollup", "invalidate"} => c.op \in RollupOps
    /\ c.pc = "register" => c.new \in Names /\ (c.new = c.name \/ Rolled(c.new))
    /\ c.pc = "write_rollup" => c.new \in Names /\ Rolled(c.new)

\* Two tasks never write one directory.
OwnInv ==
    \A t, u \in Tasks : t # u /\ Builds(task[t]) /\ Builds(task[u]) => task[t].new # task[u].new

CoreInv(b) ==
    /\ TypeInv /\ DirectoryInv /\ WellFounded(Parent)
    /\ ValuesFit(b)
    /\ \A n \in Names : cache[n] # None => Fits(b, n, cache[n])
    /\ \A t \in Tasks : CallInv(b, task[t])
    /\ OwnInv

\* Every layer in memory and on disk has the triples that were committed, and every
\* rollup file names a rollup with the triples of its layer.
ContentInv == CoreInv(TRUE) /\ RollupsFit(TRUE)

\* Without rollup_upto and imprecise_rollup_upto: what is written for a rollup has
\* no parent and holds the triples of the layer.
RollCall(c) ==
    /\ c.op \notin UptoOps
    /\ c.pc = "roll" => disk[c.new].parent = None
    /\ c.pc \in {"register", "write_rollup"} /\ c.new # c.name => OwnValue(c.new) = truth[c.name]

LayerInv == CoreInv(TRUE) /\ RollupsFit(TRUE) /\ \A t \in Tasks : RollCall(task[t])

-----------------------------------------------------------------------------
\* p is n or an ancestor of it by the parent files.
Closed(S) == \A m \in S : disk[m].parent \in S \cup {None}
Above(p, n) == \A S \in SUBSET Names : n \in S /\ Closed(S) => p \in S

\* What is below the rollup r is nothing, or an ancestor of n.
Continues(r, n) == disk[r].parent = None \/ Above(disk[r].parent, n)

\* All that is looked at for a layer are its ancestors, and what stands in for them
\* leads back to ancestors again.
PathCall(c) ==
    /\ c.pc # "return" => c.res = "none"
    /\ c.pc = "roll" => disk[c.new].parent = IF c.op = "rollup" THEN None ELSE c.upto
    /\ c.pc \in {"register", "write_rollup"} /\ c.new # c.name => Continues(c.new, c.name)
    /\ c.pc = "load" =>
        \A i \in 1..Len(c.load) :
            /\ Above(c.load[i].name, c.name)
            /\ c.load[i].rollup # None => Continues(c.load[i].rollup, c.load[i].name)

PathInv ==
    /\ \A n \in Names : disk[n].rollup \in Names => Continues(disk[n].rollup, n)
    /\ \A t \in Tasks : PathCall(task[t])
=============================================================================
