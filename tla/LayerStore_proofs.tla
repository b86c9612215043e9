------------------------- MODULE LayerStore_proofs -------------------------
(***************************************************************************)
(* The invariants of LayerStore: CoreInv is kept by every step, LayerInv when *)
(* no rollup goes up to a given layer only, and what follows from them.    *)
(***************************************************************************)
EXTENDS LayerLoading_proofs

\* What no step may undo.
Keeps ==
    \A n \in Names :
        /\ disk[n].state # "absent" => disk'[n].parent = disk[n].parent
        /\ disk[n].state = "done" => /\ disk'[n].state = "done"
                                     /\ disk'[n].add = disk[n].add
                                     /\ disk'[n].rem = disk[n].rem
                                     /\ truth'[n] = truth[n]

\* What is committed, rolled up or in memory stays so.
LEMMA KeepsNamed ==
  ASSUME TypeInv, DirectoryInv, Keeps
  PROVE  /\ \A n \in Names : Committed(n) => Committed(n)'
         /\ \A n \in Names : Rolled(n) => Rolled(n)'
         /\ \A n, l : Named(n, l) => Named(n, l)'
<1>1. \A n \in Names : Committed(n) => Committed(n)'
  BY DEF Keeps, DirectoryInv, Committed
<1>2. \A n \in Names : Rolled(n) => Rolled(n)'
  BY DEF Keeps, Rolled, Committed
<1>3. ASSUME NEW n, NEW l, Named(n, l) PROVE Named(n, l)'
  <2>1. \A i \in 1..Len(l) : l[i] \in Frame
    BY <1>3 DEF Named, Stacks
  <2>2. \A i \in 1..Len(l) : l[i].data \in Names
    BY <2>1 DEF Frame
  <2> QED BY <1>3, <2>2 DEF Named, Keeps
<1> QED BY <1>1, <1>2, <1>3

\* The triples of what is complete stay the same.
LEMMA KeepsValues ==
  ASSUME TypeInv, DirectoryInv, Keeps
  PROVE  /\ \A n \in Names : disk[n].state = "done" => OwnValue(n)' = OwnValue(n)
         /\ \A n, l : Named(n, l) => Content(l)' = Content(l)
<1>1. ASSUME NEW n \in Names, disk[n].state = "done" PROVE OwnValue(n)' = OwnValue(n)
  <2>1. disk[n].parent # None => disk[n].parent \in Names /\ disk[disk[n].parent].state = "done"
    BY DEF TypeInv, Directory, DirectoryInv
  <2>2. /\ disk'[n].parent = disk[n].parent /\ disk'[n].add = disk[n].add
        /\ disk'[n].rem = disk[n].rem
        /\ disk[n].parent # None => truth'[disk[n].parent] = truth[disk[n].parent]
    BY <1>1, <2>1 DEF Keeps
  <2> QED BY <2>2 DEF OwnValue
<1>2. ASSUME NEW n, NEW l, Named(n, l) PROVE Content(l)' = Content(l)
  <2> DEFINE dirs == DirsOf(l)
  <2>1. /\ dirs \in Seq(Names) /\ Len(dirs) = Len(l)
        /\ \A i \in 1..Len(l) : dirs[i] = l[i].data
    BY <1>2, DirsOfStack DEF Named, Stacks
  <2>2. Content(l) = {x \in Triples : HoldsIn(disk, dirs, x)}
    BY DEF Content, Holds, HoldsIn
  <2>3. Content(l)' = {x \in Triples : HoldsIn(disk', dirs, x)}
    BY DEF Content, Holds, HoldsIn, DirsOf
  <2> HIDE DEF dirs
  <2>4. \A i \in DOMAIN dirs :
          disk[dirs[i]].add = disk'[dirs[i]].add /\ disk[dirs[i]].rem = disk'[dirs[i]].rem
    BY <1>2, <2>1 DEF Named, Keeps
  <2>5. \A x : HoldsIn(disk, dirs, x) <=> HoldsIn(disk', dirs, x)
    BY <2>1, <2>4, HoldsSame
  <2> QED BY <2>2, <2>3, <2>5
<1> QED BY <1>1, <1>2

\* A layer in memory goes on to be right while others write files.
LEMMA KeepsFits ==
  ASSUME TypeInv, DirectoryInv, Keeps, NEW b
  PROVE  \A n, l : Fits(b, n, l) => Fits(b, n, l)'
<1> SUFFICES ASSUME NEW n, NEW l, Fits(b, n, l) PROVE Fits(b, n, l)'
  OBVIOUS
<1>1. Named(n, l) /\ Named(n, l)'
  BY KeepsNamed DEF Fits
<1>2. n \in Names /\ disk[n].state = "done"
  BY <1>1 DEF Named
<1>3. Content(l)' = Content(l) /\ OwnValue(n)' = OwnValue(n)
  BY <1>1, <1>2, KeepsValues
<1> QED BY <1>1, <1>3 DEF Fits

\* An entry of layers_to_load goes on to be right, although a newer rollup may have
\* taken the place of the one it names.
LEMMA KeepsEntry ==
  ASSUME TypeInv, DirectoryInv, Keeps, NEW b, NEW e \in Entry, EntryFits(b, e)
  PROVE  EntryFits(b, e)'
<1> SUFFICES ASSUME e.rollup # None
             PROVE  /\ Committed(e.name)' /\ Rolled(e.rollup)'
                    /\ e.parent = disk'[e.name].parent
                    /\ b => OwnValue(e.rollup)' = truth'[e.name]
  BY DEF EntryFits
<1>1. e.name \in Names /\ e.rollup \in Names
  BY DEF Entry
<1>2. /\ Committed(e.name) /\ Rolled(e.rollup) /\ e.parent = disk[e.name].parent
      /\ b => OwnValue(e.rollup) = truth[e.name]
  BY DEF EntryFits
<1>3. disk[e.name].state = "done" /\ disk[e.rollup].state = "done"
  BY <1>1, <1>2 DEF DirectoryInv, Rolled
<1>4. Committed(e.name)' /\ Rolled(e.rollup)'
  BY <1>1, <1>2, KeepsNamed
<1>5. disk'[e.name].parent = disk[e.name].parent /\ truth'[e.name] = truth[e.name]
  BY <1>1, <1>3 DEF Keeps
<1>6. OwnValue(e.rollup)' = OwnValue(e.rollup)
  BY <1>1, <1>3, KeepsValues
<1> QED BY <1>2, <1>4, <1>5, <1>6

\* The same for all of layers_to_load.
LEMMA KeepsLoad ==
  ASSUME TypeInv, DirectoryInv, Keeps, NEW b, NEW load, LoadFits(b, load)
  PROVE  LoadFits(b, load)'
<1>1. load \in Seq(Entry) /\ load # <<>>
  BY DEF LoadFits
<1>2. \A i \in 1..Len(load) :
        load[i] \in Entry /\ Source(load[i]) \in Names /\ load[i].name # None
  <2>1. \A i \in 1..Len(load) : load[i] \in Entry
    BY <1>1
  <2> QED BY <2>1, LayerStoreAssumption DEF Source, Entry
<1>3. \A i \in 1..Len(load) : EntryFits(b, load[i])'
  BY <1>2, KeepsEntry DEF LoadFits
<1>4. ASSUME NEW i \in 1..(Len(load) - 1) PROVE disk'[Source(load[i])].parent = load[i + 1].name
  <2>1. i \in 1..Len(load) /\ i + 1 \in 1..Len(load)
    BY <1>1
  <2>2. disk[Source(load[i])].parent = load[i + 1].name
    BY DEF LoadFits
  <2>3. disk[Source(load[i])].state # "absent"
    BY <2>1, <2>2, <1>2 DEF DirectoryInv, NoDirectory
  <2> QED BY <2>1, <2>2, <2>3, <1>2 DEF Keeps
<1> QED BY <1>1, <1>3, <1>4 DEF LoadFits, Source

\* What a call relies on goes on to hold while others write files, as long as they
\* leave alone the directory it is writing.
LEMMA KeepsCall ==
  ASSUME TypeInv, DirectoryInv, Keeps, NEW b, NEW c \in TaskState, CallInv(b, c),
         Builds(c) => disk'[c.new] = disk[c.new]
  PROVE  CallInv(b, c)'
<1>1. \A n \in Names : Committed(n) => Committed(n)'
  BY KeepsNamed
<1>2. \A n \in Names : Rolled(n) => Rolled(n)'
  BY KeepsNamed
<1>3. \A n, l : Fits(b, n, l) => Fits(b, n, l)'
  BY KeepsFits
<1>4. \A load : LoadFits(b, load) => LoadFits(b, load)'
  BY KeepsLoad
<1> QED BY <1>1, <1>2, <1>3, <1>4 DEF CallInv, HasLayer, Builds

\* What a step of one task has to do for the invariant to be kept.
LEMMA StepInv ==
  ASSUME NEW b, CoreInv(b), NEW t \in Tasks, Keeps,
         TypeInv', DirectoryInv', WellFounded(Parent)', ValuesFit(b)',
         \A n \in Names : cache'[n] \in {None, cache[n]} \/ Fits(b, n, cache[n])',
         \A u \in Tasks \ {t} : /\ task'[u] = task[u]
                                /\ Builds(task[u]) => disk'[task[u].new] = disk[task[u].new],
         CallInv(b, task[t])',
         Builds(task[t])' => \/ Builds(task[t]) /\ task'[t].new = task[t].new
                             \/ task'[t].new \in Names /\ disk[task'[t].new].state = "absent"
  PROVE  CoreInv(b)'
<1>1. TypeInv /\ DirectoryInv
  BY DEF CoreInv
<1>2. \A n \in Names : cache'[n] # None => Fits(b, n, cache[n])'
  <2>1. \A n, l : Fits(b, n, l) => Fits(b, n, l)'
    BY <1>1, KeepsFits
  <2>2. ASSUME NEW n \in Names, cache'[n] = cache[n], cache'[n] # None
        PROVE  Fits(b, n, cache[n])'
    <3>1. Fits(b, n, cache[n])
      BY <2>2 DEF CoreInv
    <3>2. ASSUME NEW l, l = cache[n] PROVE Fits(b, n, cache[n])'
      BY <3>1, <3>2, <2>1, <2>2
    <3> QED BY <3>2
  <2> QED BY <2>2
<1>3. ASSUME NEW u \in Tasks PROVE CallInv(b, task[u])'
  <2>1. CASE u = t
    BY <2>1
  <2>2. CASE u # t
    <3>1. task'[u] = task[u] /\ task[u] \in TaskState /\ CallInv(b, task[u])
      BY <2>2, <1>1 DEF CoreInv, TypeInv
    <3>2. ASSUME NEW c, c = task[u] PROVE CallInv(b, task[u])'
      BY <3>1, <3>2, <1>1, <2>2, KeepsCall
    <3> QED BY <3>2
  <2> QED BY <2>1, <2>2
<1>4. OwnInv'
  <2>1. \A u \in Tasks : Builds(task[u]) =>
          task[u].new \in Names /\ disk[task[u].new].state = "open"
    BY DEF CoreInv, CallInv
  <2>2. OwnInv
    BY DEF CoreInv
  <2>3. ASSUME NEW u \in Tasks \ {t}, Builds(task[u])', Builds(task[t])'
        PROVE  task'[t].new # task'[u].new
    <3>1. task'[u] = task[u] /\ Builds(task[u])
      BY <2>3 DEF Builds
    <3> QED BY <2>1, <2>2, <2>3, <3>1 DEF OwnInv
  <2>4. ASSUME NEW u \in Tasks \ {t}, NEW w \in Tasks \ {t}, u # w, Builds(task[u])',
               Builds(task[w])'
        PROVE  task'[u].new # task'[w].new
    BY <2>2, <2>4 DEF OwnInv, Builds
  <2> QED BY <2>3, <2>4 DEF OwnInv
<1> QED BY <1>2, <1>3, <1>4 DEF CoreInv

\* The same for a step that writes no file.
LEMMA QuietInv ==
  ASSUME NEW b, CoreInv(b), NEW t \in Tasks, UNCHANGED <<disk, truth>>, NEW c \in TaskState,
         task' = [task EXCEPT ![t] = c], CallInv(b, c),
         Builds(c) => Builds(task[t]) /\ c.new = task[t].new,
         cache' \in [Names -> {None} \cup Stacks],
         \A n \in Names : cache'[n] \in {None, cache[n]} \/ Fits(b, n, cache'[n])
  PROVE  CoreInv(b)' /\ Keeps
<1>1. TypeInv /\ DirectoryInv /\ WellFounded(Parent) /\ ValuesFit(b)
  BY DEF CoreInv
<1>2. Keeps
  BY DEF Keeps
<1>3. TypeInv'
  BY <1>1 DEF TypeInv
<1>4. DirectoryInv' /\ WellFounded(Parent)' /\ ValuesFit(b)'
  BY <1>1 DEF DirectoryInv, Committed, Rolled, WellFounded, Parent, ValuesFit, OwnValue
<1>5. task'[t] = c /\ \A u \in Tasks \ {t} : task'[u] = task[u]
  BY <1>1 DEF TypeInv
<1>6. \A n, l : Fits(b, n, l) => Fits(b, n, l)'
  BY <1>1, <1>2, KeepsFits
<1>7. \A n \in Names : cache'[n] \in {None, cache[n]} \/ Fits(b, n, cache[n])'
  <2>1. ASSUME NEW n \in Names, NEW l, l = cache'[n], Fits(b, n, l) PROVE Fits(b, n, cache[n])'
    BY <2>1, <1>6
  <2> QED BY <2>1
<1>8. CallInv(b, c)'
  BY <1>1, <1>2, KeepsCall
<1>9. CallInv(b, task[t])'
  BY <1>5, <1>8
<1>10. Builds(task[t])' => Builds(task[t]) /\ task'[t].new = task[t].new
  BY <1>5 DEF Builds
<1>11. \A u \in Tasks \ {t} : /\ task'[u] = task[u]
                              /\ Builds(task[u]) => disk'[task[u].new] = disk[task[u].new]
  BY <1>5
<1> QED BY <1>2, <1>3, <1>4, <1>7, <1>9, <1>10, <1>11, StepInv

\* get_layer begins with the layer alone.
LEMMA PlainLoad ==
  ASSUME NEW b, NEW n \in Names
  PROVE  LoadFits(b, <<Plain(n)>>) /\ <<Plain(n)>>[1].name = n
<1> DEFINE e == Plain(n)
<1>1. e \in Entry /\ e.rollup = None /\ e.name = n
  BY DEF Plain, Entry
<1> HIDE DEF e
<1>2. EntryFits(b, e)
  BY <1>1 DEF EntryFits
<1>3. <<e>> \in Seq(Entry) /\ <<e>> # <<>> /\ Len(<<e>>) = 1 /\ <<e>>[1] = e /\ 1..(1 - 1) = {}
  BY <1>1
<1>4. LoadFits(b, <<e>>)
  BY <1>2, <1>3 DEF LoadFits
<1> QED BY <1>1, <1>3, <1>4 DEF e

\* A call that begins with get_layer keeps the invariant.
LEMMA StartLoadInv ==
  ASSUME NEW b, CoreInv(b), NEW t \in Tasks, NEW op \in AllOps \ {"base"}, NEW n \in Names,
         NEW upto \in Names \cup {None}, op # "get" => Committed(n),
         IF op \in UptoOps THEN upto \in Names /\ Committed(upto) ELSE upto = None,
         StartLoad(t, op, n, upto)
  PROVE  CoreInv(b)' /\ Keeps
<1> DEFINE c == [Idle EXCEPT !.pc = "load", !.op = op, !.name = n, !.upto = upto,
                             !.load = <<Plain(n)>>]
           load == <<Plain(n)>>
<1>1. LoadFits(b, load) /\ load[1].name = n /\ load \in Seq(Entry)
  BY PlainLoad DEF LoadFits
<1> HIDE DEF load
<1>2. /\ c.pc = "load" /\ c.op = op /\ c.name = n /\ c.upto = upto /\ c.load = load
      /\ c.layer = None /\ c.new = None /\ c \in TaskState
  BY <1>1 DEF Idle, TaskState, PCs, load
<1>3. task' = [task EXCEPT ![t] = c] /\ UNCHANGED <<disk, cache, truth>>
  BY DEF StartLoad
<1> HIDE DEF c
<1>4. CallInv(b, c)
  BY <1>1, <1>2 DEF CallInv, HasLayer, Builds, AllOps, BuildOps, RollupOps, UptoOps
<1>5. cache \in [Names -> {None} \cup Stacks]
  BY DEF CoreInv, TypeInv
<1>6. ~Builds(c)
  BY <1>2 DEF Builds
<1> QED BY <1>2, <1>3, <1>4, <1>5, <1>6, QuietInv

\* The end of a call keeps the invariant.
LEMMA ReturnInv ==
  ASSUME NEW b, CoreInv(b), NEW t \in Tasks, NEW res \in {"ok", "err", "not_found"},
         Return(t, res), UNCHANGED <<disk, truth>>,
         cache' \in [Names -> {None} \cup Stacks],
         \A n \in Names : cache'[n] \in {None, cache[n]} \/ Fits(b, n, cache'[n])
  PROVE  CoreInv(b)' /\ Keeps
<1> DEFINE c == [task[t] EXCEPT !.pc = "return", !.res = res, !.load = <<>>]
<1>1. task[t] \in TaskState /\ CallInv(b, task[t])
  BY DEF CoreInv, TypeInv
<1>2. /\ c.pc = "return" /\ c.op = task[t].op /\ c.name = task[t].name /\ c.upto = task[t].upto
      /\ c.layer = task[t].layer /\ c.new = task[t].new /\ c \in TaskState
  <2>1. <<>> \in Seq(Entry)
    OBVIOUS
  <2> QED BY <1>1, <2>1 DEF TaskState, PCs
<1>3. task' = [task EXCEPT ![t] = c]
  BY <1>1 DEF Return, CoreInv, TypeInv, TaskState
<1> HIDE DEF c
<1>4. CallInv(b, c) /\ ~Builds(c)
  BY <1>1, <1>2 DEF CallInv, HasLayer, Builds
<1> QED BY <1>2, <1>3, <1>4, QuietInv

\* Taking the result of a call keeps the invariant.
LEMMA HandOverInv ==
  ASSUME NEW b, CoreInv(b), NEW t \in Tasks, HandOver(t)
  PROVE  CoreInv(b)' /\ Keeps
<1>1. Idle \in TaskState
  BY DEF Idle, TaskState, PCs
<1>2. CallInv(b, Idle) /\ ~Builds(Idle)
  BY DEF Idle, CallInv, HasLayer, Builds, BuildOps, RollupOps, UptoOps
<1>3. task' = [task EXCEPT ![t] = Idle] /\ UNCHANGED <<disk, cache, truth>>
  BY DEF HandOver
<1>4. cache \in [Names -> {None} \cup Stacks]
  BY DEF CoreInv, TypeInv
<1> QED BY <1>1, <1>2, <1>3, <1>4, QuietInv

\* A step of get_layer keeps the invariant: of CoreInv(TRUE), if the rollup files
\* it follows stand for the same triples.
LEMMA LoadStepInv ==
  ASSUME NEW b \in BOOLEAN, CoreInv(b), RollupsFit(b), NEW t \in Tasks, LoadStep(t)
  PROVE  CoreInv(b)' /\ Keeps
<1> DEFINE c0 == task[t]
           first == c0.load[1].name
<1>1. /\ TypeInv /\ DirectoryInv /\ ValuesFit(b)
      /\ \A n \in Names : cache[n] # None => Fits(b, n, cache[n])
      /\ c0 \in TaskState /\ CallInv(b, c0)
  BY DEF CoreInv, TypeInv
<1>2. c0.pc \in {"load", "load_upto"} /\ UNCHANGED <<disk, truth>>
  BY DEF LoadStep
<1>3. LoadFits(b, c0.load) /\ first = (IF c0.pc = "load" THEN c0.name ELSE c0.upto)
  BY <1>1, <1>2 DEF CallInv
<1>4. /\ CacheFits(b)
      /\ \/ \E res \in {"err", "not_found"} : Return(t, res)
         \/ \E load : /\ LoadFits(b, load) /\ load[1].name = first
                      /\ task' = [task EXCEPT ![t].load = load]
         \/ \E l : Fits(b, first, l) /\ LoadsTo(t, l)
  BY <1>1, <1>3, LoadStepFits
<1>5. /\ cache' \in [Names -> {None} \cup Stacks]
      /\ \A n \in Names : cache'[n] \in {None, cache[n]} \/ Fits(b, n, cache'[n])
  BY <1>4 DEF CacheFits
<1>6. CASE \E res \in {"err", "not_found"} : Return(t, res)
  BY <1>2, <1>5, <1>6, ReturnInv
<1>7. ASSUME NEW load, LoadFits(b, load), load[1].name = first,
             task' = [task EXCEPT ![t].load = load]
      PROVE  CoreInv(b)' /\ Keeps
  <2> DEFINE c == [c0 EXCEPT !.load = load]
  <2>1. load \in Seq(Entry)
    BY <1>7 DEF LoadFits
  <2>2. /\ c.pc = c0.pc /\ c.op = c0.op /\ c.name = c0.name /\ c.upto = c0.upto /\ c.load = load
        /\ c.layer = c0.layer /\ c.new = c0.new /\ c \in TaskState
    BY <1>1, <2>1 DEF TaskState
  <2>3. task' = [task EXCEPT ![t] = c]
    BY <1>7
  <2> HIDE DEF c
  <2>4. CallInv(b, c) /\ ~Builds(c)
    BY <1>1, <1>2, <1>3, <1>7, <2>2 DEF CallInv, HasLayer, Builds
  <2> QED BY <1>2, <1>5, <2>2, <2>3, <2>4, QuietInv
<1>8. ASSUME NEW l, Fits(b, first, l), LoadsTo(t, l) PROVE CoreInv(b)' /\ Keeps
  <2> DEFINE layer == IF c0.pc = "load" THEN l ELSE c0.layer
             pc == CASE c0.op = "get" \/ c0.new # None -> "return"
                     [] c0.op \in {"child", "squash"} \/ c0.pc = "load_upto" -> "create"
                     [] OTHER -> "perform"
             c == [c0 EXCEPT !.load = <<>>, !.layer = layer, !.pc = pc]
  <2>1. l \in Stacks
    BY <1>8 DEF Fits, Named
  <2>2. layer \in {None} \cup Stacks
    BY <1>1, <2>1 DEF TaskState
  <2>3. \/ pc = "return"
        \/ pc = "create" /\ c0.op \in BuildOps \cup UptoOps
        \/ pc = "perform" /\ c0.op \in RollupOps
    BY <1>1, <1>2 DEF CallInv, BuildOps, UptoOps, RollupOps
  <2>4. Fits(b, c0.name, layer)
    BY <1>1, <1>2, <1>3, <1>8 DEF CallInv, HasLayer
  <2> HIDE DEF pc, layer
  <2>5. /\ c.pc = pc /\ c.op = c0.op /\ c.name = c0.name /\ c.upto = c0.upto /\ c.load = <<>>
        /\ c.layer = layer /\ c.new = c0.new /\ c \in TaskState
    <3>1. <<>> \in Seq(Entry) /\ pc \in PCs
      BY <2>3 DEF PCs
    <3> QED BY <1>1, <2>2, <3>1 DEF TaskState
  <2>6. task' = [task EXCEPT ![t] = c]
    <3>1. task' = [task EXCEPT ![t].load = <<>>, ![t].layer = layer, ![t].pc = pc]
      <4>1. task' = [task EXCEPT ![t].load = <<>>,
                                 ![t].layer = IF c0.pc = "load" THEN l ELSE @, ![t].pc = pc]
        BY <1>8 DEF LoadsTo, pc
      <4> QED BY <1>1, <4>1 DEF layer, TypeInv, TaskState
    <3> QED BY <3>1
  <2> HIDE DEF c
  <2>7. CallInv(b, c) /\ ~Builds(c)
    BY <1>1, <2>3, <2>4, <2>5 DEF CallInv, HasLayer, Builds
  <2> QED BY <1>2, <1>5, <2>5, <2>6, <2>7, QuietInv
<1> QED BY <1>4, <1>6, <1>7, <1>8

\* create_directory touches no directory that is there, and the new one makes no
\* circle of parents.
LEMMA CreateKeeps ==
  ASSUME NEW b, CoreInv(b), NEW n \in Names, NEW parent \in Names \cup {None},
         parent # None => Committed(parent), CreateDirectory(n, parent), truth' = truth
  PROVE  /\ Keeps /\ disk' \in [Names -> Directory]
         /\ DirectoryInv' /\ WellFounded(Parent)' /\ ValuesFit(b)'
         /\ disk[n].state = "absent" /\ disk'[n].state = "open" /\ disk'[n].parent = parent
         /\ \A m \in Names \ {n} : disk'[m] = disk[m]
<1>1. TypeInv /\ DirectoryInv /\ WellFounded(Parent) /\ ValuesFit(b)
  BY DEF CoreInv
<1> DEFINE d == [NoDirectory EXCEPT !.state = "open", !.parent = parent]
<1>2. /\ d \in Directory /\ d.state = "open" /\ d.parent = parent /\ d.add = {} /\ d.rem = {}
      /\ d.rollup = None
  BY DEF NoDirectory, Directory
<1>3. disk[n].state = "absent" /\ disk' = [disk EXCEPT ![n] = d]
  BY DEF CreateDirectory
<1> HIDE DEF d
<1>4. /\ disk' \in [Names -> Directory] /\ disk'[n] = d
      /\ \A m \in Names \ {n} : disk'[m] = disk[m]
  BY <1>1, <1>2, <1>3 DEF TypeInv
<1>5. ~Committed(n) /\ \A m \in Names : disk[m].parent # n
  BY <1>1, <1>3, LayerStoreAssumption DEF DirectoryInv
<1>6. Keeps
  BY <1>3, <1>4 DEF Keeps
<1>7. DirectoryInv'
  <2>1. \A m \in Names : Committed(m)' <=> Committed(m)
    BY DEF Committed
  <2>2. \A m \in Names : Rolled(m) => Rolled(m)'
    BY <1>1, <1>6, KeepsNamed
  <2>3. ASSUME NEW m \in Names \ {n}
        PROVE  /\ disk'[m].state = "absent" => disk'[m] = NoDirectory
               /\ disk'[m].state = "open" => disk'[m].add = {} /\ disk'[m].rem = {}
               /\ Committed(m)' => disk'[m].state = "done"
               /\ disk'[m].parent # None => Committed(disk[m].parent)'
               /\ disk'[m].rollup # None => Committed(m)'
               /\ disk'[m].rollup \in Names => Rolled(disk[m].rollup)'
    <3>1. disk'[m] = disk[m]
      BY <1>4
    <3>2. Committed(m)' <=> Committed(m)
      BY <2>1
    <3>3. disk[m].parent # None => Committed(disk[m].parent)'
      BY <1>1, <3>1 DEF DirectoryInv, Committed
    <3>4. disk[m].rollup \in Names => Rolled(disk[m].rollup)'
      BY <1>1, <2>2, <3>1 DEF DirectoryInv
    <3> QED BY <1>1, <3>1, <3>2, <3>3, <3>4 DEF DirectoryInv
  <2>4. parent # None => Committed(disk[n].parent)'
    BY <1>2, <1>4 DEF Committed
  <2> QED BY <1>2, <1>4, <1>5, <2>1, <2>3, <2>4, LayerStoreAssumption DEF DirectoryInv
<1>8. WellFounded(Parent)'
  <2>1. \A m \in Names : Parent[m] = disk[m].parent /\ Parent'[m] = disk'[m].parent
    BY DEF Parent
  <2> SUFFICES ASSUME NEW S \in SUBSET Names, S # {} PROVE \E m \in S : Parent'[m] \notin S
    BY DEF WellFounded
  <2>2. CASE S = {n}
    <3>1. parent \notin S
      BY <2>2, <1>5, LayerStoreAssumption
    <3> QED BY <2>1, <2>2, <3>1, <1>2, <1>4
  <2>3. CASE S # {n}
    <3>1. S \ {n} # {} /\ S \ {n} \in SUBSET Names
      BY <2>3
    <3>2. PICK m \in S \ {n} : Parent[m] \notin S \ {n}
      BY <1>1, <3>1 DEF WellFounded
    <3>3. Parent[m] # n /\ Parent'[m] = Parent[m]
      BY <2>1, <1>4, <1>5
    <3> QED BY <3>2, <3>3
  <2> QED BY <2>2, <2>3
<1>9. ValuesFit(b)'
  <2> SUFFICES ASSUME b, NEW m \in Names, Committed(m)' PROVE truth'[m] = OwnValue(m)'
    BY DEF ValuesFit
  <2>1. Committed(m) /\ disk[m].state = "done"
    BY <1>1 DEF Committed, DirectoryInv
  <2>2. OwnValue(m)' = OwnValue(m)
    BY <2>1, <1>1, <1>6, KeepsValues
  <2> QED BY <2>1, <2>2, <1>1 DEF ValuesFit
<1> QED BY <1>2, <1>3, <1>4, <1>6, <1>7, <1>8, <1>9

\* A task that creates a directory keeps the invariant, and is the only one to
\* write that directory.
LEMMA CreateInv ==
  ASSUME NEW b, CoreInv(b), NEW t \in Tasks, NEW n \in Names, NEW parent \in Names \cup {None},
         parent # None => Committed(parent), CreateDirectory(n, parent),
         UNCHANGED <<cache, truth>>,
         NEW c \in TaskState, task' = [task EXCEPT ![t] = c], Builds(c), c.new = n,
         CallInv(b, c)'
  PROVE  CoreInv(b)' /\ Keeps
<1>1. TypeInv
  BY DEF CoreInv
<1>2. /\ Keeps /\ disk' \in [Names -> Directory]
      /\ DirectoryInv' /\ WellFounded(Parent)' /\ ValuesFit(b)'
      /\ disk[n].state = "absent" /\ \A m \in Names \ {n} : disk'[m] = disk[m]
  BY CreateKeeps
<1>3. TypeInv'
  BY <1>1, <1>2 DEF TypeInv
<1>4. task'[t] = c /\ \A u \in Tasks \ {t} : task'[u] = task[u]
  BY <1>1 DEF TypeInv
<1>5. CallInv(b, task[t])'
  BY <1>4
<1>6. \A u \in Tasks : Builds(task[u]) => task[u].new \in Names \ {n}
  BY <1>2 DEF CoreInv, CallInv
<1>7. \A u \in Tasks \ {t} : /\ task'[u] = task[u]
                             /\ Builds(task[u]) => disk'[task[u].new] = disk[task[u].new]
  BY <1>2, <1>4, <1>6
<1>8. task'[t].new \in Names /\ disk[task'[t].new].state = "absent"
  BY <1>2, <1>4
<1>9. \A m \in Names : cache'[m] \in {None, cache[m]}
  OBVIOUS
<1> QED BY <1>2, <1>3, <1>5, <1>7, <1>8, <1>9, StepInv

\* create_base_layer keeps the invariant.
LEMMA CallBaseInv ==
  ASSUME NEW b, CoreInv(b), NEW t \in Tasks, CallBase(t)
  PROVE  CoreInv(b)' /\ Keeps
<1>1. PICK n \in Names :
        /\ CreateDirectory(n, None)
        /\ task' = [task EXCEPT ![t] = [Idle EXCEPT !.pc = "build", !.op = "base", !.new = n]]
  BY DEF CallBase
<1>2. UNCHANGED <<cache, truth>>
  BY DEF CallBase
<1> DEFINE c == [Idle EXCEPT !.pc = "build", !.op = "base", !.new = n]
<1>3. /\ c \in TaskState /\ c.pc = "build" /\ c.op = "base" /\ c.new = n /\ c.layer = None
      /\ c.upto = None
  <2>1. <<>> \in Seq(Entry)
    OBVIOUS
  <2> QED BY <2>1 DEF Idle, TaskState, PCs, AllOps
<1>4. task' = [task EXCEPT ![t] = c]
  BY <1>1
<1> HIDE DEF c
<1>5. disk'[n].state = "open" /\ disk'[n].parent = None
  BY <1>1, <1>2, CreateKeeps
<1>6. CallInv(b, c)' /\ Builds(c)
  BY <1>3, <1>5 DEF CallInv, HasLayer, Builds, BuildOps, RollupOps, UptoOps
<1> QED BY <1>1, <1>2, <1>3, <1>4, <1>6, CreateInv

\* Creating the directory of a child, of a squashed layer or of a rollup keeps the
\* invariant.
LEMMA CreateChildInv ==
  ASSUME NEW b, CoreInv(b), NEW t \in Tasks, CreateChild(t)
  PROVE  CoreInv(b)' /\ Keeps
<1> SUFFICES ASSUME NEW c0, c0 = task[t] PROVE CoreInv(b)' /\ Keeps
  OBVIOUS
<1>1. TypeInv /\ DirectoryInv /\ c0 \in TaskState /\ CallInv(b, c0)
  BY DEF CoreInv, TypeInv
<1> SUFFICES ASSUME NEW parent, parent = (IF c0.op = "child" THEN c0.name ELSE c0.upto),
                    NEW pc, pc = (IF c0.op \in {"child", "squash"} THEN "build" ELSE "roll")
             PROVE  CoreInv(b)' /\ Keeps
  OBVIOUS
<1>2. c0.pc = "create" /\ UNCHANGED <<cache, truth>>
  BY DEF CreateChild
<1>3. PICK n \in Names : /\ CreateDirectory(n, parent)
                         /\ task' = [task EXCEPT ![t].new = n, ![t].pc = pc]
  BY DEF CreateChild
<1>4. parent \in Names \cup {None} /\ (parent # None => Committed(parent))
  BY <1>1, <1>2 DEF CallInv, TaskState, BuildOps, UptoOps
<1>5. disk'[n].state = "open" /\ disk'[n].parent = parent /\ Keeps
  BY <1>2, <1>3, <1>4, CreateKeeps
<1> DEFINE c == [c0 EXCEPT !.new = n, !.pc = pc]
<1>6. /\ c \in TaskState /\ c.pc = pc /\ c.op = c0.op /\ c.name = c0.name /\ c.new = n
      /\ c.layer = c0.layer /\ c.upto = c0.upto /\ c.load = c0.load
  <2>1. pc \in PCs
    BY DEF PCs
  <2> QED BY <1>1, <2>1 DEF TaskState
<1>7. task' = [task EXCEPT ![t] = c]
  BY <1>3
<1> HIDE DEF c
<1>8. \A m \in Names : Committed(m) => Committed(m)'
  BY <1>1, <1>5, KeepsNamed
<1>9. Fits(b, c.name, c.layer)'
  <2>1. Fits(b, c.name, c.layer)
    BY <1>1, <1>2, <1>6 DEF CallInv, HasLayer
  <2> QED BY <2>1, <1>1, <1>5, KeepsFits
<1>10. CallInv(b, c)' /\ Builds(c)
  BY <1>1, <1>2, <1>5, <1>6, <1>8, <1>9
     DEF CallInv, HasLayer, Builds, BuildOps, RollupOps, UptoOps
<1> QED BY <1>2, <1>3, <1>4, <1>6, <1>7, <1>10, CreateInv

\* The layer that a call has loaded has the name and the parent of its files.
LEMMA TopOf ==
  ASSUME NEW b, CoreInv(b), NEW t \in Tasks, NEW c, c = task[t], HasLayer(c)
  PROVE  /\ c.name \in Names /\ disk[c.name].state = "done"
         /\ Top(t).name = c.name /\ Top(t).parent = disk[c.name].parent
         /\ Fits(b, c.name, c.layer)
<1>1. CallInv(b, c)
  BY DEF CoreInv
<1>2. Fits(b, c.name, c.layer)
  BY <1>1 DEF CallInv
<1> QED BY <1>2 DEF Fits, Named, Top

\* A call that goes on to write the rollup file keeps the invariant.
LEMMA RegistersInv ==
  ASSUME NEW b, CoreInv(b), NEW t \in Tasks, NEW c0, c0 = task[t], c0.op \in RollupOps,
         HasLayer(c0),
         NEW n \in Names, n = c0.name \/ Rolled(n), Registers(t, n),
         UNCHANGED <<disk, cache, truth>>
  PROVE  CoreInv(b)' /\ Keeps
<1>1. TypeInv /\ c0 \in TaskState /\ CallInv(b, c0) /\ cache \in [Names -> {None} \cup Stacks]
  BY DEF CoreInv, TypeInv
<1> DEFINE c == [c0 EXCEPT !.new = n, !.pc = "register"]
<1>2. /\ c \in TaskState /\ c.pc = "register" /\ c.op = c0.op /\ c.name = c0.name /\ c.new = n
      /\ c.layer = c0.layer /\ c.upto = c0.upto /\ c.load = c0.load
  BY <1>1 DEF TaskState, PCs
<1>3. task' = [task EXCEPT ![t] = c]
  BY DEF Registers
<1> HIDE DEF c
<1>4. CallInv(b, c) /\ ~Builds(c)
  BY <1>1, <1>2 DEF CallInv, HasLayer, Builds
<1> QED BY <1>1, <1>2, <1>3, <1>4, QuietInv

\* rollup keeps the invariant, also when the layer is a base layer already.
LEMMA PerformRollupInv ==
  ASSUME NEW b, CoreInv(b), NEW t \in Tasks, PerformRollup(t)
  PROVE  CoreInv(b)' /\ Keeps
<1> SUFFICES ASSUME NEW c0, c0 = task[t] PROVE CoreInv(b)' /\ Keeps
  OBVIOUS
<1>1. /\ TypeInv /\ DirectoryInv /\ c0 \in TaskState /\ CallInv(b, c0)
      /\ cache \in [Names -> {None} \cup Stacks]
  BY DEF CoreInv, TypeInv
<1>2. c0.pc = "perform" /\ c0.op = "rollup" /\ UNCHANGED <<cache, truth>>
  BY DEF PerformRollup
<1>3. HasLayer(c0) /\ c0.op \in RollupOps
  BY <1>2 DEF HasLayer, RollupOps
<1>4. c0.name \in Names /\ Top(t).name = c0.name
  BY <1>3, TopOf
<1> SUFFICES ASSUME NEW r, r = disk[c0.name].rollup PROVE CoreInv(b)' /\ Keeps
  OBVIOUS
<1>5. r \in Names => Rolled(r)
  BY <1>1, <1>4 DEF DirectoryInv
<1>6. \/ Registers(t, c0.name) /\ UNCHANGED disk
      \/ Return(t, "err") /\ UNCHANGED disk
      \/ r \in Names /\ Registers(t, r) /\ UNCHANGED disk
      \/ \E n \in Names : /\ CreateDirectory(n, None)
                          /\ task' = [task EXCEPT ![t].new = n, ![t].pc = "roll"]
  BY <1>4 DEF PerformRollup
<1>7. CASE Registers(t, c0.name) /\ UNCHANGED disk
  BY <1>2, <1>3, <1>4, <1>7, RegistersInv
<1>8. CASE Return(t, "err") /\ UNCHANGED disk
  BY <1>1, <1>2, <1>8, ReturnInv
<1>9. CASE r \in Names /\ Registers(t, r) /\ UNCHANGED disk
  BY <1>2, <1>3, <1>5, <1>9, RegistersInv
<1>10. ASSUME NEW n \in Names, CreateDirectory(n, None),
              task' = [task EXCEPT ![t].new = n, ![t].pc = "roll"]
       PROVE  CoreInv(b)' /\ Keeps
  <2> DEFINE c == [c0 EXCEPT !.new = n, !.pc = "roll"]
  <2>1. /\ c \in TaskState /\ c.pc = "roll" /\ c.op = "rollup" /\ c.name = c0.name /\ c.new = n
        /\ c.layer = c0.layer /\ c.upto = c0.upto /\ c.load = c0.load
    BY <1>1, <1>2 DEF TaskState, PCs
  <2>2. task' = [task EXCEPT ![t] = c]
    BY <1>10
  <2> HIDE DEF c
  <2>3. disk'[n].state = "open" /\ Keeps
    BY <1>2, <1>10, CreateKeeps
  <2>4. \A m \in Names : Committed(m) => Committed(m)'
    BY <1>1, <2>3, KeepsNamed
  <2>5. Fits(b, c.name, c.layer)'
    <3>1. Fits(b, c.name, c.layer)
      BY <1>3, <2>1, TopOf
    <3> QED BY <3>1, <1>1, <2>3, KeepsFits
  <2>6. CallInv(b, c)' /\ Builds(c)
    BY <1>1, <1>2, <2>1, <2>3, <2>4, <2>5
       DEF CallInv, HasLayer, Builds, BuildOps, RollupOps, UptoOps
  <2> QED BY <1>2, <1>10, <2>1, <2>2, <2>6, CreateInv
<1> QED BY <1>6, <1>7, <1>8, <1>9, <1>10

\* rollup_upto and imprecise_rollup_upto keep the invariant up to the layer they
\* stop at.
LEMMA PerformRollupUptoInv ==
  ASSUME NEW b, CoreInv(b), NEW t \in Tasks, PerformRollupUpto(t)
  PROVE  CoreInv(b)' /\ Keeps
<1> SUFFICES ASSUME NEW c0, c0 = task[t] PROVE CoreInv(b)' /\ Keeps
  OBVIOUS
<1>1. /\ TypeInv /\ DirectoryInv /\ c0 \in TaskState /\ CallInv(b, c0)
      /\ cache \in [Names -> {None} \cup Stacks]
  BY DEF CoreInv, TypeInv
<1>2. c0.pc = "perform" /\ c0.op # "rollup" /\ UNCHANGED <<disk, cache, truth>>
  BY DEF PerformRollupUpto
<1>3. HasLayer(c0) /\ c0.op \in RollupOps /\ c0.op \in UptoOps
  BY <1>1, <1>2 DEF HasLayer, RollupOps, CallInv
<1>4. c0.name \in Names /\ Top(t).name = c0.name /\ c0.upto \in Names
  BY <1>1, <1>3, TopOf DEF CallInv
<1> SUFFICES ASSUME NEW r, r = disk[c0.name].rollup PROVE CoreInv(b)' /\ Keeps
  OBVIOUS
<1>5. r \in Names => Rolled(r)
  BY <1>1, <1>4 DEF DirectoryInv
<1>6. \/ Registers(t, c0.name)
      \/ Return(t, "err")
      \/ r \in Names /\ Registers(t, r)
      \/ task' = [task EXCEPT ![t].pc = "load_upto", ![t].load = <<Plain(c0.upto)>>]
  BY <1>4 DEF PerformRollupUpto
<1>7. CASE Registers(t, c0.name)
  BY <1>2, <1>3, <1>4, <1>7, RegistersInv
<1>8. CASE Return(t, "err")
  BY <1>1, <1>2, <1>8, ReturnInv
<1>9. CASE r \in Names /\ Registers(t, r)
  BY <1>2, <1>3, <1>5, <1>9, RegistersInv
<1>10. CASE task' = [task EXCEPT ![t].pc = "load_upto", ![t].load = <<Plain(c0.upto)>>]
  <2> SUFFICES ASSUME NEW load, load = <<Plain(c0.upto)>> PROVE CoreInv(b)' /\ Keeps
    OBVIOUS
  <2>1. LoadFits(b, load) /\ load[1].name = c0.upto /\ load \in Seq(Entry)
    BY <1>4, PlainLoad DEF LoadFits
  <2> DEFINE c == [c0 EXCEPT !.pc = "load_upto", !.load = load]
  <2>2. /\ c \in TaskState /\ c.pc = "load_upto" /\ c.op = c0.op /\ c.name = c0.name
        /\ c.new = c0.new
        /\ c.layer = c0.layer /\ c.upto = c0.upto /\ c.load = load
    BY <1>1, <2>1 DEF TaskState, PCs
  <2>3. task' = [task EXCEPT ![t] = c]
    BY <1>10
  <2> HIDE DEF c
  <2>4. CallInv(b, c) /\ ~Builds(c)
    BY <1>1, <1>2, <1>3, <2>1, <2>2 DEF CallInv, HasLayer, Builds
  <2> QED BY <1>1, <1>2, <2>2, <2>3, <2>4, QuietInv
<1> QED BY <1>6, <1>7, <1>8, <1>9, <1>10

\* the files of an open directory are complete
Finishes(n) ==
    /\ disk[n].state = "open" /\ disk' \in [Names -> Directory]
    /\ disk'[n].state = "done" /\ disk'[n].parent = disk[n].parent
    /\ disk'[n].rollup = disk[n].rollup
    /\ truth' \in [Names -> {None} \cup SUBSET Triples]
    /\ \A m \in Names \ {n} : disk'[m] = disk[m] /\ truth'[m] = truth[m]

\* A directory that becomes complete disturbs no other.
LEMMA FinishKeeps ==
  ASSUME NEW b, CoreInv(b), NEW n \in Names, Finishes(n),
         b /\ truth'[n] # None => truth'[n] = OwnValue(n)'
  PROVE  Keeps /\ DirectoryInv' /\ WellFounded(Parent)' /\ ValuesFit(b)'
<1>1. TypeInv /\ DirectoryInv /\ WellFounded(Parent) /\ ValuesFit(b)
  BY DEF CoreInv
<1>2. Keeps
  BY <1>1 DEF Keeps, Finishes
<1>3. \A m \in Names : disk'[m].parent = disk[m].parent /\ disk'[m].rollup = disk[m].rollup
  BY DEF Finishes
<1>4. DirectoryInv'
  <2>1. \A m \in Names : Committed(m) => Committed(m)'
    BY <1>1, <1>2, KeepsNamed
  <2>2. \A m \in Names : Rolled(m) => Rolled(m)'
    BY <1>1, <1>2, KeepsNamed
  <2>3. \A m \in Names : disk'[m].parent # None => Committed(disk[m].parent)'
    BY <1>1, <1>3, <2>1 DEF DirectoryInv, TypeInv, Directory
  <2>4. \A m \in Names : disk'[m].rollup \in Names => Rolled(disk[m].rollup)'
    BY <1>1, <1>3, <2>2 DEF DirectoryInv
  <2>5. \A m \in Names : disk'[m].rollup # None => Committed(m)'
    BY <1>1, <1>3, <2>1 DEF DirectoryInv
  <2>6. \A m \in Names : /\ disk'[m].state = "absent" => disk'[m] = NoDirectory
                         /\ disk'[m].state = "open" => disk'[m].add = {} /\ disk'[m].rem = {}
                         /\ Committed(m)' => disk'[m].state = "done"
    BY <1>1 DEF DirectoryInv, Finishes, Committed
  <2> QED BY <2>3, <2>4, <2>5, <2>6 DEF DirectoryInv
<1>5. WellFounded(Parent)'
  <2>1. Parent' = Parent
    BY <1>3 DEF Parent
  <2> QED BY <1>1, <2>1 DEF WellFounded
<1>6. ValuesFit(b)'
  <2> SUFFICES ASSUME b, NEW m \in Names, Committed(m)' PROVE truth'[m] = OwnValue(m)'
    BY DEF ValuesFit
  <2>1. CASE m = n
    BY <2>1 DEF Committed
  <2>2. CASE m # n
    <3>1. Committed(m) /\ disk[m].state = "done" /\ truth'[m] = truth[m]
      BY <2>2, <1>1 DEF Committed, DirectoryInv, Finishes
    <3>2. OwnValue(m)' = OwnValue(m)
      BY <3>1, <1>1, <1>2, KeepsValues
    <3> QED BY <3>1, <3>2, <1>1 DEF ValuesFit
  <2> QED BY <2>1, <2>2
<1> QED BY <1>2, <1>4, <1>5, <1>6

\* The task that completes a directory keeps the invariant.
LEMMA FinishInv ==
  ASSUME NEW b, CoreInv(b), NEW t \in Tasks, Builds(task[t]), NEW n \in Names, n = task[t].new,
         Finishes(n), b /\ truth'[n] # None => truth'[n] = OwnValue(n)',
         NEW c \in TaskState, task' = [task EXCEPT ![t] = c], ~Builds(c), CallInv(b, c)',
         cache' = cache
  PROVE  CoreInv(b)' /\ Keeps
<1>1. TypeInv /\ OwnInv
  BY DEF CoreInv
<1>2. Keeps /\ DirectoryInv' /\ WellFounded(Parent)' /\ ValuesFit(b)'
  BY FinishKeeps
<1>3. TypeInv'
  BY <1>1 DEF TypeInv, Finishes
<1>4. task'[t] = c /\ \A u \in Tasks \ {t} : task'[u] = task[u]
  BY <1>1 DEF TypeInv
<1>5. CallInv(b, task[t])' /\ ~Builds(task[t])'
  BY <1>4 DEF Builds
<1>6. ASSUME NEW u \in Tasks \ {t}
      PROVE  task'[u] = task[u] /\ (Builds(task[u]) => disk'[task[u].new] = disk[task[u].new])
  <2>1. Builds(task[u]) => task[u].new \in Names \ {n}
    BY <1>1 DEF OwnInv, CoreInv, CallInv
  <2> QED BY <1>4, <2>1 DEF Finishes
<1>7. \A m \in Names : cache'[m] \in {None, cache[m]}
  OBVIOUS
<1> QED BY <1>2, <1>3, <1>5, <1>6, <1>7, StepInv

\* commit completes the directory with the triples that were asked for: the
\* additions that the parent lacks and the removals that it has.
LEMMA CommitFinishes ==
  ASSUME NEW b, CoreInv(b), NEW t \in Tasks, NEW c0, c0 = task[t], Commit(t)
  PROVE  /\ c0.pc = "build" /\ c0.new \in Names /\ cache' = cache
         /\ Finishes(c0.new)
         /\ truth'[c0.new] # None
         /\ b => truth'[c0.new] = OwnValue(c0.new)'
         /\ task' = [task EXCEPT ![t].pc = "load", ![t].name = c0.new,
                                 ![t].load = <<Plain(c0.new)>>,
                                 ![t].layer = None]
<1>1. TypeInv /\ DirectoryInv /\ c0 \in TaskState /\ CallInv(b, c0) /\ ValuesFit(b)
  BY DEF CoreInv, TypeInv
<1>2. c0.pc = "build" /\ cache' = cache
  BY DEF Commit
<1> SUFFICES ASSUME NEW n, n = c0.new PROVE
         /\ n \in Names /\ Finishes(n) /\ truth'[n] # None /\ (b => truth'[n] = OwnValue(n)')
         /\ task' = [task EXCEPT ![t].pc = "load", ![t].name = n, ![t].load = <<Plain(n)>>,
                                 ![t].layer = None]
  BY <1>2
<1>3. /\ n \in Names /\ disk[n].state = "open" /\ c0.op \in {"base"} \cup BuildOps
      /\ disk[n].parent = IF c0.op = "child" THEN c0.name ELSE None
  BY <1>1, <1>2 DEF CallInv, Builds
<1> DEFINE held == Content(c0.layer)
<1>4. held \in SUBSET Triples
  BY DEF Content
<1>5. c0.op # "base" => /\ c0.name \in Names /\ c0.name # n /\ truth[c0.name] \in SUBSET Triples
                        /\ b => held = truth[c0.name]
  <2> SUFFICES ASSUME c0.op # "base"
               PROVE  /\ c0.name \in Names /\ c0.name # n /\ truth[c0.name] \in SUBSET Triples
                      /\ b => held = truth[c0.name]
    OBVIOUS
  <2>1. c0.name \in Names /\ Committed(c0.name)
    BY <1>1, <1>3 DEF CallInv
  <2>2. Fits(b, c0.name, c0.layer)
    BY <1>1, <1>2 DEF CallInv, HasLayer
  <2> QED BY <1>1, <1>3, <2>1, <2>2 DEF Fits, ValuesFit, DirectoryInv, TypeInv, Committed
<1> HIDE DEF held
<1> DEFINE adds(req) == req.add \ req.rem
           rems(req) == req.rem \ req.add
           old == IF c0.op = "child" THEN held ELSE {}
           meant(req) == CASE c0.op = "child" -> (truth[c0.name] \ rems(req)) \cup adds(req)
                           [] c0.op = "squash" -> truth[c0.name]
                           [] c0.op = "base" -> adds(req)
<1>6. PICK req \in Requests(t) :
        /\ disk' = [disk EXCEPT ![n].state = "done", ![n].add = adds(req) \ old,
                                ![n].rem = rems(req) \cap old]
        /\ truth' = [truth EXCEPT ![n] = meant(req)]
        /\ task' = [task EXCEPT ![t].pc = "load", ![t].name = n, ![t].load = <<Plain(n)>>,
                                ![t].layer = None]
  BY DEF Commit, held
<1>7. /\ req.add \in SUBSET Triples /\ req.rem \in SUBSET Triples
      /\ c0.op = "squash" => req.add = held /\ req.rem = {}
  <2>1. CASE c0.op = "squash"
    BY <2>1, <1>4 DEF Requests, held
  <2>2. CASE c0.op # "squash"
    BY <2>2 DEF Requests
  <2> QED BY <2>1, <2>2
<1>8. meant(req) \in SUBSET Triples
  BY <1>3, <1>5, <1>7 DEF BuildOps
<1>9. /\ disk' \in [Names -> Directory] /\ disk'[n].state = "done"
      /\ disk'[n].parent = disk[n].parent /\ disk'[n].rollup = disk[n].rollup
      /\ disk'[n].add = adds(req) \ old /\ disk'[n].rem = rems(req) \cap old
      /\ \A m \in Names \ {n} : disk'[m] = disk[m]
  <2>1. /\ disk \in [Names -> Directory] /\ adds(req) \ old \in SUBSET Triples
        /\ rems(req) \cap old \in SUBSET Triples
    BY <1>1, <1>7 DEF TypeInv
  <2> HIDE DEF adds, rems, old
  <2> DEFINE x == adds(req) \ old  y == rems(req) \cap old
             d == [disk[n] EXCEPT !.state = "done", !.add = x, !.rem = y]
  <2> HIDE DEF x, y
  <2>2. n \in Names /\ disk[n] \in Directory /\ x \in SUBSET Triples /\ y \in SUBSET Triples
    BY <2>1, <1>3 DEF x, y
  <2>3. /\ d \in Directory /\ d.state = "done" /\ d.add = x /\ d.rem = y
        /\ d.parent = disk[n].parent /\ d.rollup = disk[n].rollup
    BY <2>2 DEF Directory
  <2>4. disk' = [disk EXCEPT ![n] = d]
    BY <2>1, <2>2, <1>6 DEF x, y
  <2> HIDE DEF d
  <2> QED BY <2>1, <2>2, <2>3, <2>4 DEF x, y
<1>10. /\ truth' \in [Names -> {None} \cup SUBSET Triples] /\ truth'[n] = meant(req)
       /\ \A m \in Names \ {n} : truth'[m] = truth[m]
  BY <1>1, <1>3, <1>6, <1>8 DEF TypeInv
<1>11. truth'[n] # None
  BY <1>8, <1>10, LayerStoreAssumption
<1>12. Finishes(n)
  BY <1>3, <1>9, <1>10 DEF Finishes
<1>13. ASSUME b PROVE truth'[n] = OwnValue(n)'
  <2>1. CASE c0.op = "child"
    <3>1. truth'[c0.name] = truth[c0.name] /\ held = truth[c0.name] /\ c0.name # None
      BY <2>1, <1>5, <1>10, <1>13, LayerStoreAssumption
    <3>2. OwnValue(n)' = (held \ (rems(req) \cap held)) \cup (adds(req) \ held)
      BY <2>1, <1>3, <1>9, <3>1 DEF OwnValue
    <3>3. meant(req) = (held \ rems(req)) \cup adds(req)
      BY <2>1, <3>1
    <3> QED BY <3>2, <3>3, <1>10
  <2>2. CASE c0.op = "squash"
    BY <2>2, <1>3, <1>5, <1>7, <1>9, <1>10, <1>13 DEF OwnValue
  <2>3. CASE c0.op = "base"
    BY <2>3, <1>3, <1>7, <1>9, <1>10 DEF OwnValue
  <2> QED BY <1>3, <2>1, <2>2, <2>3 DEF BuildOps
<1> QED BY <1>3, <1>6, <1>11, <1>12, <1>13

\* commit keeps the invariant.
LEMMA CommitInv ==
  ASSUME NEW b, CoreInv(b), NEW t \in Tasks, Commit(t)
  PROVE  CoreInv(b)' /\ Keeps
<1> SUFFICES ASSUME NEW c0, c0 = task[t] PROVE CoreInv(b)' /\ Keeps
  OBVIOUS
<1>1. TypeInv /\ DirectoryInv /\ c0 \in TaskState /\ CallInv(b, c0)
  BY DEF CoreInv, TypeInv
<1> SUFFICES ASSUME NEW n, n = c0.new, NEW load, load = <<Plain(n)>> PROVE CoreInv(b)' /\ Keeps
  OBVIOUS
<1>2. /\ c0.pc = "build" /\ n \in Names /\ cache' = cache /\ Finishes(n)
      /\ truth'[n] # None /\ (b => truth'[n] = OwnValue(n)')
      /\ task' = [task EXCEPT ![t].pc = "load", ![t].name = n, ![t].load = load, ![t].layer = None]
  BY CommitFinishes
<1>3. LoadFits(b, load) /\ load[1].name = n /\ load \in Seq(Entry)
  BY <1>2, PlainLoad DEF LoadFits
<1> DEFINE c == [c0 EXCEPT !.pc = "load", !.name = n, !.load = load, !.layer = None]
<1>4. /\ c \in TaskState /\ c.pc = "load" /\ c.op = c0.op /\ c.name = n /\ c.new = n
      /\ c.layer = None /\ c.upto = c0.upto /\ c.load = load
  BY <1>1, <1>2, <1>3 DEF TaskState, PCs
<1>5. task' = [task EXCEPT ![t] = c]
  BY <1>2
<1> HIDE DEF c
<1>6. Keeps
  BY <1>2, FinishKeeps
<1>7. LoadFits(b, load)'
  BY <1>1, <1>3, <1>6, KeepsLoad
<1>8. CallInv(b, c)' /\ ~Builds(c)
  BY <1>1, <1>2, <1>3, <1>4, <1>7, LayerStoreAssumption
     DEF CallInv, HasLayer, Builds, BuildOps, RollupOps, UptoOps, Committed
<1>9. Builds(task[t])
  BY <1>2 DEF Builds
<1> QED BY <1>2, <1>4, <1>5, <1>8, <1>9, FinishInv

\* A rollup that becomes complete keeps the invariant.
LEMMA RolledInv ==
  ASSUME NEW b, CoreInv(b), NEW t \in Tasks, NEW c0, c0 = task[t], c0.pc = "roll",
         Finishes(c0.new), UNCHANGED <<cache, truth>>,
         task' = [task EXCEPT ![t].pc = "register"]
  PROVE  CoreInv(b)' /\ Keeps
<1>1. TypeInv /\ DirectoryInv /\ c0 \in TaskState /\ CallInv(b, c0)
  BY DEF CoreInv, TypeInv
<1>2. c0.op \in RollupOps /\ c0.new \in Names /\ disk[c0.new].state = "open"
  BY <1>1 DEF CallInv, Builds
<1>3. truth'[c0.new] = None
  BY <1>1, <1>2 DEF DirectoryInv, Committed
<1>4. Keeps
  BY <1>2, <1>3, FinishKeeps
<1>5. Rolled(c0.new)'
  BY <1>3 DEF Rolled, Finishes, Committed
<1> DEFINE c == [c0 EXCEPT !.pc = "register"]
<1>6. /\ c \in TaskState /\ c.pc = "register" /\ c.op = c0.op /\ c.name = c0.name
      /\ c.new = c0.new
      /\ c.layer = c0.layer /\ c.upto = c0.upto /\ c.load = c0.load
  BY <1>1 DEF TaskState, PCs
<1>7. task' = [task EXCEPT ![t] = c]
  OBVIOUS
<1> HIDE DEF c
<1>8. \A m \in Names : Committed(m) => Committed(m)'
  BY <1>1, <1>4, KeepsNamed
<1>9. Fits(b, c.name, c.layer)'
  <2>1. Fits(b, c.name, c.layer)
    BY <1>1, <1>6 DEF CallInv, HasLayer
  <2> QED BY <2>1, <1>1, <1>4, KeepsFits
<1>10. CallInv(b, c)' /\ ~Builds(c)
  BY <1>1, <1>2, <1>5, <1>6, <1>8, <1>9 DEF CallInv, HasLayer, Builds
<1>11. Builds(task[t])
  BY DEF Builds
<1> QED BY <1>2, <1>3, <1>6, <1>7, <1>10, <1>11, FinishInv

\* rollup writes all triples of the layer in memory.
LEMMA RollAllFinishes ==
  ASSUME NEW b, CoreInv(b), NEW t \in Tasks, RollAll(t), NEW c0, c0 = task[t]
  PROVE  /\ c0.pc = "roll" /\ c0.op = "rollup" /\ UNCHANGED <<cache, truth>>
         /\ task' = [task EXCEPT ![t].pc = "register"]
         /\ Finishes(c0.new) /\ disk'[c0.new].add = Content(c0.layer)
<1>1. TypeInv /\ c0 \in TaskState /\ CallInv(b, c0)
  BY DEF CoreInv, TypeInv
<1>2. /\ c0.pc = "roll" /\ c0.op = "rollup" /\ UNCHANGED <<cache, truth>>
      /\ task' = [task EXCEPT ![t].pc = "register"]
  BY DEF RollAll
<1>3. c0.new \in Names /\ disk[c0.new].state = "open"
  BY <1>1, <1>2 DEF CallInv, Builds
<1> DEFINE held == Content(c0.layer)
<1>4. held \in SUBSET Triples
  BY DEF Content
<1>5. disk' = [disk EXCEPT ![c0.new].state = "done", ![c0.new].add = held]
  BY DEF RollAll
<1> HIDE DEF held
<1>6. Finishes(c0.new) /\ disk'[c0.new].add = held
  BY <1>1, <1>2, <1>3, <1>4, <1>5 DEF Finishes, TypeInv, Directory
<1> QED BY <1>2, <1>6 DEF held

\* Writing the files of a rollup keeps the invariant.
LEMMA RollAllInv ==
  ASSUME NEW b, CoreInv(b), NEW t \in Tasks, RollAll(t)
  PROVE  CoreInv(b)' /\ Keeps
<1> SUFFICES ASSUME NEW c0, c0 = task[t] PROVE CoreInv(b)' /\ Keeps
  OBVIOUS
<1>1. /\ c0.pc = "roll" /\ UNCHANGED <<cache, truth>> /\ Finishes(c0.new)
      /\ task' = [task EXCEPT ![t].pc = "register"]
  BY RollAllFinishes
<1> QED BY <1>1, RolledInv

\* Writing the files of a rollup up to some layer keeps the invariant: of the triples
\* it claims nothing until a rollup file names them.
LEMMA RollUptoInv ==
  ASSUME NEW b, CoreInv(b), NEW t \in Tasks, RollUpto(t)
  PROVE  CoreInv(b)' /\ Keeps
<1> SUFFICES ASSUME NEW c0, c0 = task[t] PROVE CoreInv(b)' /\ Keeps
  OBVIOUS
<1>1. TypeInv /\ c0 \in TaskState /\ CallInv(b, c0) /\ cache \in [Names -> {None} \cup Stacks]
  BY DEF CoreInv, TypeInv
<1>2. c0.pc = "roll" /\ UNCHANGED <<cache, truth>>
  BY DEF RollUpto
<1>3. c0.new \in Names /\ disk[c0.new].state = "open"
  BY <1>1, <1>2 DEF CallInv, Builds
<1>4. \/ Return(t, "err") /\ UNCHANGED disk
      \/ \E add, rem \in SUBSET Triples :
            /\ disk' = [disk EXCEPT ![c0.new].state = "done",
                                    ![c0.new].add = add, ![c0.new].rem = rem]
            /\ task' = [task EXCEPT ![t].pc = "register"]
  <2> DEFINE bound == SafeUptoBound(c0.layer, c0.upto)
             changes == MemoryChanges(c0.layer, bound)
                        \o IF c0.op = "rollup_upto" THEN DiskChanges(bound, c0.upto) ELSE <<>>
             add == {x \in Triples : Surplus(changes, x, 1)}
             rem == {x \in Triples : Deficit(changes, x, 1)}
  <2>1. \/ Return(t, "err") /\ UNCHANGED disk
        \/ /\ disk' = [disk EXCEPT ![c0.new].state = "done",
                                   ![c0.new].add = add, ![c0.new].rem = rem]
           /\ task' = [task EXCEPT ![t].pc = "register"]
    BY DEF RollUpto
  <2>2. add \in SUBSET Triples /\ rem \in SUBSET Triples
    OBVIOUS
  <2> HIDE DEF add, rem
  <2> QED BY <2>1, <2>2
<1>5. CASE Return(t, "err") /\ UNCHANGED disk
  BY <1>1, <1>2, <1>5, ReturnInv
<1>6. ASSUME NEW add \in SUBSET Triples, NEW rem \in SUBSET Triples,
             disk' = [disk EXCEPT ![c0.new].state = "done",
                                  ![c0.new].add = add, ![c0.new].rem = rem],
             task' = [task EXCEPT ![t].pc = "register"]
      PROVE  CoreInv(b)' /\ Keeps
  <2>1. Finishes(c0.new)
    BY <1>1, <1>2, <1>3, <1>6 DEF Finishes, TypeInv, Directory
  <2> QED BY <1>2, <1>6, <2>1, RolledInv
<1> QED BY <1>4, <1>5, <1>6

\* A rollup file may be written at any time: calls that found the one before go on
\* with a rollup that is still there.
LEMMA RollupFileInv ==
  ASSUME NEW b, CoreInv(b), NEW t \in Tasks, NEW c0, c0 = task[t],
         NEW n \in Names, Committed(n), NEW r \in Names \cup {None, Empty},
         r \in Names => Rolled(r),
         disk' = [disk EXCEPT ![n].rollup = r], UNCHANGED <<cache, truth>>,
         c0.pc \in {"register", "write_rollup"},
         NEW pc \in {"write_rollup", "invalidate"},
         pc = "write_rollup" => c0.new \in Names /\ Rolled(c0.new),
         task' = [task EXCEPT ![t].pc = pc]
  PROVE  CoreInv(b)' /\ Keeps
<1>1. /\ TypeInv /\ DirectoryInv /\ WellFounded(Parent) /\ ValuesFit(b)
      /\ c0 \in TaskState /\ CallInv(b, c0)
  BY DEF CoreInv, TypeInv
<1>2. /\ disk' \in [Names -> Directory]
      /\ \A m \in Names : /\ disk'[m].state = disk[m].state /\ disk'[m].parent = disk[m].parent
                          /\ disk'[m].add = disk[m].add /\ disk'[m].rem = disk[m].rem
                          /\ disk'[m].rollup = IF m = n THEN r ELSE disk[m].rollup
                          /\ m # n => disk'[m] = disk[m]
  BY <1>1 DEF TypeInv, Directory
<1>3. Keeps
  BY <1>2 DEF Keeps
<1>4. \A m \in Names : Committed(m) => Committed(m)'
  BY <1>1, <1>3, KeepsNamed
<1>5. \A m \in Names : Rolled(m) => Rolled(m)'
  BY <1>1, <1>3, KeepsNamed
<1>6. DirectoryInv'
  <2>1. disk[n].state = "done"
    BY <1>1 DEF DirectoryInv
  <2>2. \A m \in Names : disk'[m].parent # None => Committed(disk[m].parent)'
    BY <1>1, <1>2, <1>4 DEF DirectoryInv, TypeInv, Directory
  <2>3. \A m \in Names : disk'[m].rollup \in Names => Rolled(disk[m].rollup)'
    BY <1>1, <1>2, <1>5 DEF DirectoryInv
  <2>4. \A m \in Names : disk'[m].rollup # None => Committed(m)'
    BY <1>1, <1>2, <1>4 DEF DirectoryInv
  <2>5. \A m \in Names : /\ disk'[m].state = "absent" => disk'[m] = NoDirectory
                         /\ disk'[m].state = "open" => disk'[m].add = {} /\ disk'[m].rem = {}
                         /\ Committed(m)' => disk'[m].state = "done"
    BY <1>1, <1>2, <2>1 DEF DirectoryInv, Committed
  <2> QED BY <2>2, <2>3, <2>4, <2>5 DEF DirectoryInv
<1>7. WellFounded(Parent)'
  <2>1. Parent' = Parent
    BY <1>2 DEF Parent
  <2> QED BY <1>1, <2>1 DEF WellFounded
<1>8. ValuesFit(b)'
  <2> SUFFICES ASSUME b, NEW m \in Names, Committed(m)' PROVE truth'[m] = OwnValue(m)'
    BY DEF ValuesFit
  <2>1. Committed(m) /\ disk[m].state = "done"
    BY <1>1 DEF Committed, DirectoryInv
  <2>2. OwnValue(m)' = OwnValue(m)
    BY <2>1, <1>1, <1>3, KeepsValues
  <2> QED BY <2>1, <2>2, <1>1 DEF ValuesFit
<1> DEFINE c == [c0 EXCEPT !.pc = pc]
<1>9. /\ c \in TaskState /\ c.pc = pc /\ c.op = c0.op /\ c.name = c0.name /\ c.new = c0.new
      /\ c.layer = c0.layer /\ c.upto = c0.upto /\ c.load = c0.load
  <2>1. pc \in PCs
    BY DEF PCs
  <2> QED BY <1>1, <2>1 DEF TaskState
<1>10. task' = [task EXCEPT ![t] = c]
  OBVIOUS
<1> HIDE DEF c
<1>11. Fits(b, c.name, c.layer)'
  <2>1. Fits(b, c.name, c.layer)
    BY <1>1, <1>9 DEF CallInv, HasLayer
  <2> QED BY <2>1, <1>1, <1>3, KeepsFits
<1>12. CallInv(b, c)' /\ ~Builds(c)
  BY <1>1, <1>4, <1>5, <1>9, <1>11 DEF CallInv, HasLayer, Builds
<1>13. TypeInv'
  BY <1>1, <1>2, <1>9, <1>10 DEF TypeInv
<1>14. task'[t] = c /\ \A u \in Tasks \ {t} : task'[u] = task[u]
  BY <1>1, <1>10 DEF TypeInv
<1>15. CallInv(b, task[t])' /\ ~Builds(task[t])'
  BY <1>12, <1>14 DEF Builds
<1>16. ASSUME NEW u \in Tasks \ {t}
       PROVE  task'[u] = task[u] /\ (Builds(task[u]) => disk'[task[u].new] = disk[task[u].new])
  <2>1. Builds(task[u]) => task[u].new \in Names \ {n}
    BY <1>1 DEF DirectoryInv, CoreInv, CallInv
  <2> QED BY <1>2, <1>14, <2>1
<1>17. \A m \in Names : cache'[m] \in {None, cache[m]}
  OBVIOUS
<1> QED BY <1>3, <1>6, <1>7, <1>8, <1>13, <1>15, <1>16, <1>17, StepInv

\* Creating the rollup file keeps the invariant, although it is empty then.
LEMMA RegisterInv ==
  ASSUME NEW b, CoreInv(b), NEW t \in Tasks, Register(t)
  PROVE  CoreInv(b)' /\ Keeps
<1> SUFFICES ASSUME NEW c0, c0 = task[t] PROVE CoreInv(b)' /\ Keeps
  OBVIOUS
<1>1. /\ TypeInv /\ DirectoryInv /\ c0 \in TaskState /\ CallInv(b, c0)
      /\ cache \in [Names -> {None} \cup Stacks]
  BY DEF CoreInv, TypeInv
<1>2. c0.pc = "register" /\ UNCHANGED <<cache, truth>>
  BY DEF Register
<1>3. Top(t).name = c0.name
  BY <1>2, TopOf DEF HasLayer
<1>4. c0.op \in RollupOps /\ c0.name \in Names /\ Committed(c0.name)
      /\ c0.new \in Names /\ (c0.new = c0.name \/ Rolled(c0.new))
  BY <1>1, <1>2 DEF CallInv
<1>5. \/ task' = [task EXCEPT ![t].pc = "invalidate"] /\ UNCHANGED disk
      \/ /\ c0.new # c0.name
         /\ disk' = [disk EXCEPT ![c0.name].rollup = IF @ = None THEN Empty ELSE @]
         /\ task' = [task EXCEPT ![t].pc = "write_rollup"]
  BY <1>3 DEF Register
<1>6. CASE task' = [task EXCEPT ![t].pc = "invalidate"] /\ UNCHANGED disk
  <2> DEFINE c == [c0 EXCEPT !.pc = "invalidate"]
  <2>1. /\ c \in TaskState /\ c.pc = "invalidate" /\ c.op = c0.op /\ c.name = c0.name
        /\ c.new = c0.new
        /\ c.layer = c0.layer /\ c.upto = c0.upto /\ c.load = c0.load
    BY <1>1 DEF TaskState, PCs
  <2>2. task' = [task EXCEPT ![t] = c]
    BY <1>6
  <2> HIDE DEF c
  <2>3. CallInv(b, c) /\ ~Builds(c)
    BY <1>1, <1>2, <2>1 DEF CallInv, HasLayer, Builds
  <2> QED BY <1>1, <1>2, <1>6, <2>1, <2>2, <2>3, QuietInv
<1>7. CASE /\ c0.new # c0.name
           /\ disk' = [disk EXCEPT ![c0.name].rollup = IF @ = None THEN Empty ELSE @]
           /\ task' = [task EXCEPT ![t].pc = "write_rollup"]
  <2> DEFINE r == IF disk[c0.name].rollup = None THEN Empty ELSE disk[c0.name].rollup
  <2>1. r \in Names \cup {None, Empty} /\ (r \in Names => Rolled(r))
    BY <1>1, <1>4, LayerStoreAssumption DEF TypeInv, Directory, DirectoryInv
  <2>2. disk' = [disk EXCEPT ![c0.name].rollup = r]
    BY <1>7
  <2> HIDE DEF r
  <2> QED BY <1>2, <1>4, <1>7, <2>1, <2>2, RollupFileInv
<1> QED BY <1>5, <1>6, <1>7

\* Writing the name into the rollup file keeps the invariant.
LEMMA WriteRollupInv ==
  ASSUME NEW b, CoreInv(b), NEW t \in Tasks, WriteRollup(t)
  PROVE  CoreInv(b)' /\ Keeps
<1> SUFFICES ASSUME NEW c0, c0 = task[t] PROVE CoreInv(b)' /\ Keeps
  OBVIOUS
<1>1. CallInv(b, c0)
  BY DEF CoreInv
<1>2. /\ c0.pc = "write_rollup" /\ UNCHANGED <<cache, truth>>
      /\ task' = [task EXCEPT ![t].pc = "invalidate"]
  BY DEF WriteRollup
<1>3. Top(t).name = c0.name
  BY <1>2, TopOf DEF HasLayer
<1>4. c0.name \in Names /\ Committed(c0.name) /\ c0.new \in Names /\ Rolled(c0.new)
  BY <1>1, <1>2 DEF CallInv
<1>5. disk' = [disk EXCEPT ![c0.name].rollup = c0.new]
  BY <1>3 DEF WriteRollup
<1> QED BY <1>2, <1>4, <1>5, RollupFileInv

\* Dropping the cached layer after a rollup keeps the invariant.
LEMMA InvalidateInv ==
  ASSUME NEW b, CoreInv(b), NEW t \in Tasks, Invalidate(t)
  PROVE  CoreInv(b)' /\ Keeps
<1>1. cache \in [Names -> {None} \cup Stacks]
  BY DEF CoreInv, TypeInv
<1>2. /\ cache' = [cache EXCEPT ![Top(t).name] = None] /\ Return(t, "ok")
      /\ UNCHANGED <<disk, truth>>
  BY DEF Invalidate
<1>3. /\ cache' \in [Names -> {None} \cup Stacks]
      /\ \A n \in Names : cache'[n] \in {None, cache[n]}
  BY <1>1, <1>2
<1> QED BY <1>2, <1>3, ReturnInv

-----------------------------------------------------------------------------

\* Every call keeps the invariant as it begins.
LEMMA CallsInv ==
  ASSUME NEW b, CoreInv(b), NEW t \in Tasks, Call(t)
  PROVE  CoreInv(b)' /\ Keeps
<1>1. CASE CallGet(t)
  <2>1. PICK n \in Names : StartLoad(t, "get", n, None)
    BY <1>1 DEF CallGet
  <2>2. "get" \in AllOps \ {"base"} /\ "get" \notin UptoOps
    BY DEF AllOps, UptoOps
  <2> QED BY <2>1, <2>2, StartLoadInv
<1>2. CASE CallBase(t)
  BY <1>2, CallBaseInv
<1>3. ASSUME NEW op \in {"child", "squash", "rollup"}, NEW n \in Names, Committed(n),
             StartLoad(t, op, n, None)
      PROVE  CoreInv(b)' /\ Keeps
  <2>1. op \in AllOps \ {"base"} /\ op \notin UptoOps
    BY DEF AllOps, UptoOps
  <2> QED BY <1>3, <2>1, StartLoadInv
<1>4. CASE CallChild(t) \/ CallSquash(t) \/ CallRollup(t)
  BY <1>3, <1>4 DEF CallChild, CallSquash, CallRollup
<1>5. CASE CallRollupUpto(t)
  <2>1. PICK n, upto \in Names, op \in UptoOps :
            Committed(n) /\ Committed(upto) /\ StartLoad(t, op, n, upto)
    BY <1>5 DEF CallRollupUpto, UptoOps
  <2>2. op \in AllOps \ {"base"}
    BY DEF AllOps, UptoOps
  <2> QED BY <2>1, <2>2, StartLoadInv
<1> QED BY <1>1, <1>2, <1>4, <1>5 DEF Call

\* Every step of a call keeps the invariant.
LEMMA StepsInv ==
  ASSUME NEW b \in BOOLEAN, CoreInv(b), RollupsFit(b), NEW t \in Tasks, Step(t)
  PROVE  CoreInv(b)' /\ Keeps
BY HandOverInv, LoadStepInv, CreateChildInv, CommitInv, PerformRollupInv, PerformRollupUptoInv,
   RollAllInv, RollUptoInv, RegisterInv, WriteRollupInv, InvalidateInv DEF Step

\* Eviction from the cache, which holds weak references, and a crash keep the
\* invariant.
LEMMA IdleInv ==
  ASSUME NEW b, CoreInv(b), UNCHANGED <<disk, truth>>,
         cache' \in [Names -> {None} \cup Stacks],
         \A n \in Names : cache'[n] \in {None, cache[n]},
         task' \in [Tasks -> TaskState], \A t \in Tasks : task'[t] \in {Idle, task[t]}
  PROVE  CoreInv(b)' /\ Keeps
<1>1. TypeInv /\ DirectoryInv /\ WellFounded(Parent) /\ ValuesFit(b)
  BY DEF CoreInv
<1>2. Keeps
  BY DEF Keeps
<1>3. TypeInv' /\ DirectoryInv' /\ WellFounded(Parent)' /\ ValuesFit(b)'
  BY <1>1 DEF TypeInv, DirectoryInv, Committed, Rolled, WellFounded, Parent, ValuesFit, OwnValue
<1>4. ASSUME NEW n \in Names, cache'[n] # None PROVE Fits(b, n, cache[n])'
  <2>1. ASSUME NEW l, l = cache[n] PROVE Fits(b, n, cache[n])'
    <3>1. Fits(b, n, l) /\ cache'[n] = l
      BY <1>4, <2>1 DEF CoreInv
    <3> QED BY <1>1, <1>2, <3>1, KeepsFits
  <2> QED BY <2>1
<1>5. ASSUME NEW t \in Tasks PROVE CallInv(b, task[t])'
  <2>1. CallInv(b, Idle)'
    BY DEF Idle, CallInv, HasLayer, Builds, BuildOps, RollupOps, UptoOps
  <2>2. ASSUME NEW c, c = task[t], task'[t] = c PROVE CallInv(b, task[t])'
    <3>1. c \in TaskState /\ CallInv(b, c)
      BY <2>2 DEF CoreInv, TypeInv
    <3>2. CallInv(b, c)'
      BY <1>1, <1>2, <3>1, KeepsCall
    <3> QED BY <2>2, <3>2
  <2> QED BY <2>1, <2>2
<1>6. OwnInv'
  <2>1. ~Builds(Idle)
    BY DEF Builds, Idle
  <2>2. \A t \in Tasks : Builds(task[t])' => task'[t] = task[t]
    BY <2>1 DEF Builds
  <2>3. \A t \in Tasks : Builds(task[t])' => Builds(task[t])
    BY <2>2 DEF Builds
  <2> QED BY <2>2, <2>3 DEF OwnInv, CoreInv
<1> QED BY <1>2, <1>3, <1>4, <1>5, <1>6 DEF CoreInv

\* The invariant is inductive: CoreInv(FALSE) on its own, CoreInv(TRUE) while the
\* rollup files stand for the triples of their layers.
LEMMA NextInv ==
  ASSUME NEW b \in BOOLEAN, CoreInv(b), RollupsFit(b), [Next]_vars
  PROVE  CoreInv(b)' /\ Keeps
<1>1. cache \in [Names -> {None} \cup Stacks] /\ task \in [Tasks -> TaskState]
  BY DEF CoreInv, TypeInv
<1>2. CASE Evict
  <2>1. PICK n \in Names : cache' = [cache EXCEPT ![n] = None]
    BY <1>2 DEF Evict
  <2>2. UNCHANGED <<disk, task, truth>>
    BY <1>2 DEF Evict
  <2> QED BY <1>1, <2>1, <2>2, IdleInv
<1>3. CASE Crash
  <2>1. Idle \in TaskState
    BY DEF Idle, TaskState, PCs
  <2> QED BY <1>1, <1>3, <2>1, IdleInv DEF Crash
<1>4. CASE UNCHANGED vars
  BY <1>1, <1>4, IdleInv DEF vars
<1>5. CASE \E t \in Tasks : Call(t) \/ Step(t)
  BY <1>5, CallsInv, StepsInv
<1> QED BY <1>2, <1>3, <1>4, <1>5 DEF Next

\* An empty store has the invariant.
LEMMA InitInv ==
  ASSUME Init, NEW b
  PROVE  CoreInv(b)
<1>1. TypeInv
  BY DEF Init, TypeInv, NoDirectory, Directory, Idle, TaskState, PCs
<1>2. \A n \in Names : disk[n] = NoDirectory /\ ~Committed(n) /\ cache[n] = None
  BY DEF Init, Committed
<1>3. DirectoryInv
  BY <1>2, LayerStoreAssumption DEF DirectoryInv, NoDirectory
<1>4. WellFounded(Parent)
  BY <1>2, LayerStoreAssumption DEF WellFounded, Parent, NoDirectory
<1>5. ValuesFit(b)
  BY <1>2 DEF ValuesFit
<1>6. \A t \in Tasks : CallInv(b, task[t])
  BY DEF Init, Idle, CallInv, HasLayer, Builds, BuildOps, RollupOps, UptoOps
<1>7. OwnInv
  BY DEF Init, Idle, OwnInv, Builds
<1> QED BY <1>1, <1>2, <1>3, <1>4, <1>5, <1>6, <1>7 DEF CoreInv

\* The triples of a directory on top of its parent are triples.
LEMMA OwnValueType ==
  ASSUME NEW b, CoreInv(b), NEW n \in Names
  PROVE  /\ OwnValue(n) \in SUBSET Triples
         /\ disk[n].parent # None => disk[n].parent \in Names /\ Committed(disk[n].parent)
<1>1. disk[n] \in Directory /\ truth \in [Names -> {None} \cup SUBSET Triples] /\ DirectoryInv
  BY DEF CoreInv, TypeInv
<1>2. disk[n].parent # None => disk[n].parent \in Names /\ Committed(disk[n].parent)
  BY <1>1 DEF Directory, DirectoryInv
<1>3. disk[n].parent # None => truth[disk[n].parent] \in SUBSET Triples
  BY <1>1, <1>2 DEF Committed
<1> QED BY <1>1, <1>2, <1>3 DEF OwnValue, Directory

\* The triples of the ancestors on disk are those of the directory on top of its
\* parent: why a layer's own files and its parent's commit are enough to know.
LEMMA StoredValue ==
  ASSUME CoreInv(TRUE)
  PROVE  \A n \in Names : StoredContent(n) = OwnValue(n)
<1>1. /\ TypeInv /\ DirectoryInv /\ WellFounded(Parent) /\ ValuesFit(TRUE)
      /\ disk \in [Names -> Directory]
  BY DEF CoreInv, TypeInv
<1>2. \A n \in Names :
           /\ Ancestry(n) \in Seq(Names)
           /\ Ancestry(n) = <<n>> \o IF disk[n].parent = None THEN <<>>
                                    ELSE Ancestry(disk[n].parent)
  BY <1>1, LayerStoreAssumption, AncestryDef
<1>3. \A n \in Names : StoredContent(n) = {x \in Triples : HoldsIn(disk, Ancestry(n), x)}
  BY DEF StoredContent, Holds, HoldsIn
<1> DEFINE S == {n \in Names : StoredContent(n) # OwnValue(n)}
<1> SUFFICES ASSUME S # {} PROVE FALSE
  OBVIOUS
<1>4. PICK n \in S : Parent[n] \notin S
  BY <1>1 DEF WellFounded
<1> SUFFICES ASSUME NEW p, p = disk[n].parent,
                    NEW rest, rest = (IF p = None THEN <<>> ELSE Ancestry(p)),
                    NEW dirs, dirs = Ancestry(n)
             PROVE  FALSE
  OBVIOUS
<1>5. n \in Names /\ Parent[n] = p /\ (p # None => p \in Names /\ Committed(p))
  BY OwnValueType DEF Parent
<1>6. rest \in Seq(Names) /\ dirs \in Seq(Names) /\ dirs = <<n>> \o rest
  <2>1. rest \in Seq(Names)
    <3>1. CASE p = None
      BY <3>1
    <3>2. CASE p # None
      BY <3>2, <1>2, <1>5
    <3> QED BY <3>1, <3>2
  <2>2. dirs \in Seq(Names) /\ dirs = <<n>> \o rest
    BY <1>2, <1>5, Zenon
  <2> QED BY <2>1, <2>2
<1>7. Len(dirs) = Len(rest) + 1 /\ dirs[1] = n /\ \A i \in 2..Len(dirs) : dirs[i] = rest[i - 1]
  BY <1>5, <1>6, InFront
<1>8. \A x : HoldsIn(disk, dirs, x) <=>
               (x \in disk[n].add \/ (x \notin disk[n].rem /\ HoldsIn(disk, rest, x)))
  BY <1>6, <1>7, HoldsOnTop
<1>9. disk[n].add \in SUBSET Triples
  BY <1>1, <1>5 DEF Directory
<1>10. CASE p = None
  <2>1. \A x : ~HoldsIn(disk, rest, x)
    BY <1>10, HoldsNowhere
  <2> QED BY <1>3, <1>5, <1>8, <1>9, <1>10, <2>1 DEF OwnValue
<1>11. CASE p # None
  <2>1. truth[p] = {x \in Triples : HoldsIn(disk, rest, x)}
    BY <1>1, <1>3, <1>4, <1>5, <1>11 DEF ValuesFit
  <2>2. OwnValue(n) = (truth[p] \ disk[n].rem) \cup disk[n].add
    BY <1>11 DEF OwnValue
  <2>3. \A x : x \in StoredContent(n) <=> x \in OwnValue(n)
    BY <1>3, <1>5, <1>8, <1>9, <2>1, <2>2
  <2>4. StoredContent(n) = OwnValue(n)
    BY <2>3
  <2> QED BY <2>4
<1> QED BY <1>10, <1>11

\* The invariant has what LayersReadBack claims.
LEMMA ReadBack ==
  ASSUME CoreInv(TRUE)
  PROVE  LayersReadBack
<1>1. ASSUME NEW n, NEW l, Fits(TRUE, n, l) PROVE Reads(n, l)
  <2>1. /\ n \in Names /\ Head(l).name = n /\ Head(l).parent = disk[n].parent
        /\ Content(l) = OwnValue(n)
    BY <1>1 DEF Fits, Named
  <2>2. Committed(n) => truth[n] = OwnValue(n)
    BY <2>1 DEF CoreInv, ValuesFit
  <2>3. StoredContent(n) = OwnValue(n)
    BY <2>1, StoredValue
  <2> QED BY <2>1, <2>2, <2>3 DEF Reads
<1>2. \A n \in Names : cache[n] # None => Fits(TRUE, n, cache[n])
  BY DEF CoreInv
<1>3. \A t \in Tasks : task[t].layer # None => Fits(TRUE, task[t].name, task[t].layer)
  BY DEF CoreInv, CallInv, HasLayer
<1> QED BY <1>1, <1>2, <1>3 DEF LayersReadBack

\* RollupsFit is RollupsAreEquivalent in terms of the directory alone.
LEMMA EquivalentFit ==
  ASSUME CoreInv(TRUE)
  PROVE  RollupsAreEquivalent <=> RollupsFit(TRUE)
<1>1. \A r \in Names : StoredContent(r) = OwnValue(r)
  BY StoredValue
<1>2. \A n \in Names : disk[n].rollup \in Names => disk[disk[n].rollup].state = "done"
  BY DEF CoreInv, DirectoryInv, Rolled
<1> QED BY <1>1, <1>2 DEF RollupsAreEquivalent, RollupsFit

-----------------------------------------------------------------------------

\* Whatever the rollups contain: names are used once, what is complete has complete
\* ancestors, the parent files make no circle, no two tasks write one directory, and
\* every layer in memory, in the cache and in layers_to_load is the one it says.
THEOREM Structure == Spec => []CoreInv(FALSE)
<1>1. Init => CoreInv(FALSE)
  BY InitInv
<1>2. CoreInv(FALSE) /\ [Next]_vars => CoreInv(FALSE)'
  <2>1. RollupsFit(FALSE)
    BY DEF RollupsFit
  <2> QED BY <2>1, NextInv
<1> QED BY <1>1, <1>2, PTL DEF Spec

\* TypeOK holds for all sets of names, triples, tasks and operations.
THEOREM TypeCorrect == Spec => []TypeOK
<1>1. CoreInv(FALSE) => TypeOK
  <2> SUFFICES ASSUME CoreInv(FALSE) PROVE TypeOK
    OBVIOUS
  <2>1. TypeInv /\ \A t \in Tasks : CallInv(FALSE, task[t])
    BY DEF CoreInv
  <2>2. \A l \in Stacks : IsStack(l)
    BY DEF Stacks, IsStack
  <2>3. \A n \in Names : cache[n] = None \/ IsStack(cache[n])
    BY <2>1, <2>2 DEF TypeInv
  <2>4. \A t \in Tasks : task[t].layer = None \/ IsStack(task[t].layer)
    BY <2>1, <2>2 DEF TypeInv, TaskState
  <2>5. \A t \in Tasks : task[t].pc \in {"load", "load_upto"} => task[t].load # <<>>
    BY <2>1 DEF CallInv, LoadFits
  <2> QED BY <2>1, <2>3, <2>4, <2>5 DEF TypeOK, TypeInv
<1> QED BY <1>1, Structure, PTL

\* No interleaving of builds, rollups, loads and crashes changes a layer or a rollup
\* once its files are complete (directory.rs and layer.rs write each file once).
THEOREM CompleteLayersStay == Spec => CompleteLayersNeverChange
<1>1. CoreInv(FALSE) /\ CoreInv(FALSE)' /\ [Next]_vars =>
        [\A n \in Names : disk[n].state = "done" =>
          /\ disk'[n] = [disk[n] EXCEPT !.rollup = disk'[n].rollup]
          /\ truth'[n] = truth[n]]_vars
  <2> SUFFICES ASSUME CoreInv(FALSE), CoreInv(FALSE)', [Next]_vars, NEW n \in Names,
                      disk[n].state = "done"
               PROVE  /\ disk'[n] = [disk[n] EXCEPT !.rollup = disk'[n].rollup]
                      /\ truth'[n] = truth[n]
    OBVIOUS
  <2>1. Keeps
    <3>1. RollupsFit(FALSE)
      BY DEF RollupsFit
    <3> QED BY <3>1, NextInv
  <2>2. disk[n] \in Directory /\ disk'[n] \in Directory
    BY DEF CoreInv, TypeInv
  <2> QED BY <2>1, <2>2 DEF Keeps, Directory
<1> QED BY <1>1, Structure, PTL DEF Spec, CompleteLayersNeverChange

\* While the rollup files stand for the triples of their layers, all of the
\* invariant holds.
LEMMA ContentInvariant == Spec /\ []RollupsAreEquivalent => []CoreInv(TRUE)
<1>1. Init => CoreInv(TRUE)
  BY InitInv
<1>2. CoreInv(TRUE) /\ RollupsAreEquivalent /\ [Next]_vars => CoreInv(TRUE)'
  BY EquivalentFit, NextInv
<1> QED BY <1>1, <1>2, PTL DEF Spec

\* Layers read back as they were committed as long as every rollup file names a
\* rollup with the triples of its layer: with all operations, and whatever the cache
\* holds and the calls had begun before a rollup, LayersReadBack can only fail by
\* rollups that are wrong on disk.
THEOREM ReadsFollowRollups == Spec /\ []RollupsAreEquivalent => []LayersReadBack
<1>1. CoreInv(TRUE) => LayersReadBack
  BY ReadBack
<1> QED BY <1>1, ContentInvariant, PTL

\* A step that leaves the rollup files alone, or empties one, keeps RollupsFit.
LEMMA RollupsKept ==
  ASSUME NEW b, CoreInv(b), RollupsFit(b), Keeps,
         \A n \in Names : disk'[n].rollup \in {disk[n].rollup, None, Empty}
  PROVE  RollupsFit(b)'
<1> SUFFICES ASSUME b, NEW n \in Names, disk'[n].rollup \in Names
             PROVE  OwnValue(disk[n].rollup)' = truth'[n]
  BY DEF RollupsFit
<1> SUFFICES ASSUME NEW r, r = disk[n].rollup PROVE OwnValue(disk[n].rollup)' = truth'[n]
  OBVIOUS
<1>1. TypeInv /\ DirectoryInv
  BY DEF CoreInv
<1>2. r \in Names /\ disk'[n].rollup = r
  BY LayerStoreAssumption
<1>3. OwnValue(r) = truth[n]
  BY <1>2 DEF RollupsFit
<1>4. disk[r].state = "done" /\ disk[n].state = "done"
  BY <1>1, <1>2, LayerStoreAssumption DEF DirectoryInv, Rolled
<1>5. OwnValue(r)' = OwnValue(r)
  BY <1>1, <1>2, <1>4, KeepsValues
<1>6. truth'[n] = truth[n]
  BY <1>4 DEF Keeps
<1> QED BY <1>2, <1>3, <1>5, <1>6

\* What a call that writes a rollup relies on goes on to hold.
LEMMA RollCallKept ==
  ASSUME TypeInv, DirectoryInv, Keeps, NEW c \in TaskState, CallInv(TRUE, c), RollCall(c)
  PROVE  RollCall(c)'
<1>1. c.pc = "roll" => disk'[c.new].parent = None
  BY DEF CallInv, Builds, RollCall, Keeps
<1>2. ASSUME c.pc \in {"register", "write_rollup"}, c.new # c.name
      PROVE  OwnValue(c.new)' = truth'[c.name]
  <2>1. c.new \in Names /\ disk[c.new].state = "done" /\ OwnValue(c.new) = truth[c.name]
    BY <1>2 DEF CallInv, Rolled, RollCall
  <2>2. c.name \in Names /\ disk[c.name].state = "done"
    BY <1>2 DEF CallInv, DirectoryInv
  <2>3. OwnValue(c.new)' = OwnValue(c.new)
    BY <2>1, KeepsValues
  <2> QED BY <2>1, <2>2, <2>3 DEF Keeps
<1> QED BY <1>1, <1>2 DEF RollCall

\* What a step of one task has to do for LayerInv to be kept.
LEMMA RollStep ==
  ASSUME LayerInv, CoreInv(TRUE)', Keeps, NEW t \in Tasks,
         \A u \in Tasks \ {t} : task'[u] = task[u], RollCall(task[t])',
         \A n \in Names : disk'[n].rollup \in {disk[n].rollup, None, Empty}
  PROVE  LayerInv'
<1>1. /\ TypeInv /\ DirectoryInv /\ CoreInv(TRUE) /\ RollupsFit(TRUE)
      /\ \A u \in Tasks : task[u] \in TaskState /\ CallInv(TRUE, task[u]) /\ RollCall(task[u])
  BY DEF LayerInv, CoreInv, TypeInv
<1>2. RollupsFit(TRUE)'
  BY <1>1, RollupsKept
<1>3. ASSUME NEW u \in Tasks \ {t} PROVE RollCall(task[u])'
  <2>1. ASSUME NEW c, c = task[u] PROVE RollCall(task[u])'
    <3>1. task'[u] = c
      BY <2>1
    <3>2. c \in TaskState /\ CallInv(TRUE, c) /\ RollCall(c)
      BY <1>1, <2>1
    <3>3. RollCall(c)'
      BY <1>1, <3>2, RollCallKept
    <3> QED BY <3>1, <3>3
  <2> QED BY <2>1
<1> QED BY <1>2, <1>3 DEF LayerInv

\* The same for a step that is not part of writing a rollup.
LEMMA OtherRollStep ==
  ASSUME LayerInv, CoreInv(TRUE)', Keeps, NEW t \in Tasks,
         \A u \in Tasks \ {t} : task'[u] = task[u],
         task'[t].op \notin UptoOps, task'[t].pc \notin {"roll", "register", "write_rollup"},
         \A n \in Names : disk'[n].rollup \in {disk[n].rollup, None, Empty}
  PROVE  LayerInv'
<1>1. RollCall(task[t])'
  BY DEF RollCall
<1> QED BY <1>1, RollStep

\* Every call keeps LayerInv as it begins.
LEMMA RollCalls ==
  ASSUME Ops \cap UptoOps = {}, LayerInv, CoreInv(TRUE)', Keeps, NEW t \in Tasks, Call(t)
  PROVE  LayerInv'
<1>1. task \in [Tasks -> TaskState] /\ disk \in [Names -> Directory]
  BY DEF LayerInv, CoreInv, TypeInv
<1>2. ASSUME NEW op, NEW n, NEW upto, StartLoad(t, op, n, upto) PROVE LayerInv'
  <2>1. /\ op \notin UptoOps /\ UNCHANGED disk
        /\ task' = [task EXCEPT ![t] = [Idle EXCEPT !.pc = "load", !.op = op, !.name = n,
                                                !.upto = upto, !.load = <<Plain(n)>>]]
    BY <1>2 DEF StartLoad
  <2>2. /\ task'[t].op = op /\ task'[t].pc = "load"
        /\ \A u \in Tasks \ {t} : task'[u] = task[u]
    BY <1>1, <2>1 DEF Idle
  <2> QED BY <2>1, <2>2, OtherRollStep
<1>3. CASE CallBase(t)
  <2>1. PICK n \in Names :
        /\ CreateDirectory(n, None)
        /\ task' = [task EXCEPT ![t] = [Idle EXCEPT !.pc = "build", !.op = "base", !.new = n]]
    BY <1>3 DEF CallBase
  <2>2. /\ task'[t].op = "base" /\ task'[t].pc = "build"
        /\ \A u \in Tasks \ {t} : task'[u] = task[u]
    BY <1>1, <2>1 DEF Idle
  <2>3. \A m \in Names : disk'[m].rollup \in {disk[m].rollup, None}
    BY <1>1, <2>1 DEF CreateDirectory, NoDirectory
  <2>4. "base" \notin UptoOps
    BY DEF UptoOps
  <2> QED BY <2>2, <2>3, <2>4, OtherRollStep
<1> QED BY <1>2, <1>3 DEF Call, CallGet, CallChild, CallSquash, CallRollup, CallRollupUpto

\* The steps of a call other than those that write and register a rollup keep
\* LayerInv.
LEMMA RollOtherSteps ==
  ASSUME LayerInv, CoreInv(TRUE)', Keeps, NEW t \in Tasks,
         \/ HandOver(t) \/ LoadStep(t) \/ CreateChild(t) \/ Commit(t)
         \/ PerformRollupUpto(t) \/ RollUpto(t) \/ Invalidate(t)
  PROVE  LayerInv'
<1> SUFFICES ASSUME NEW c0, c0 = task[t] PROVE LayerInv'
  OBVIOUS
<1>1. /\ task \in [Tasks -> TaskState] /\ disk \in [Names -> Directory] /\ c0 \in TaskState
      /\ CoreInv(TRUE) /\ TypeInv /\ DirectoryInv /\ ValuesFit(TRUE) /\ RollupsFit(TRUE)
      /\ \A n \in Names : cache[n] # None => Fits(TRUE, n, cache[n])
      /\ CallInv(TRUE, c0) /\ RollCall(c0) /\ c0.op \notin UptoOps
  BY DEF LayerInv, CoreInv, TypeInv, RollCall
<1>2. ASSUME NEW res, Return(t, res), UNCHANGED disk PROVE LayerInv'
  <2>1. /\ task'[t].op = c0.op /\ task'[t].pc = "return"
        /\ \A u \in Tasks \ {t} : task'[u] = task[u]
    BY <1>1, <1>2 DEF Return, TaskState
  <2> QED BY <1>1, <1>2, <2>1, OtherRollStep
<1>3. CASE HandOver(t)
  <2>1. task' = [task EXCEPT ![t] = Idle] /\ UNCHANGED disk
    BY <1>3 DEF HandOver
  <2>2. /\ task'[t].op = "none" /\ task'[t].pc = "idle" /\ "none" \notin UptoOps
        /\ \A u \in Tasks \ {t} : task'[u] = task[u]
    BY <1>1, <2>1 DEF Idle, UptoOps
  <2> QED BY <2>1, <2>2, OtherRollStep
<1>4. CASE LoadStep(t)
  <2>1. c0.pc \in {"load", "load_upto"} /\ UNCHANGED disk
    BY <1>4 DEF LoadStep
  <2>2. LoadFits(TRUE, c0.load)
    BY <1>1, <2>1 DEF CallInv
  <2>3. \/ \E res \in {"err", "not_found"} : Return(t, res)
        \/ \E load : task' = [task EXCEPT ![t].load = load]
        \/ \E l : LoadsTo(t, l)
    <3>1. LoadFits(TRUE, task[t].load)
      BY <2>2
    <3> QED BY <1>1, <1>4, <3>1, LoadStepFits
  <2>4. ASSUME NEW load, task' = [task EXCEPT ![t].load = load] PROVE LayerInv'
    <3>1. /\ task'[t].op = c0.op /\ task'[t].pc = c0.pc
          /\ \A u \in Tasks \ {t} : task'[u] = task[u]
      BY <1>1, <2>4 DEF TaskState
    <3> QED BY <1>1, <2>1, <3>1, OtherRollStep
  <2>5. ASSUME NEW l, LoadsTo(t, l) PROVE LayerInv'
    <3>1. /\ task'[t].op = c0.op /\ task'[t].pc \in {"return", "create", "perform"}
          /\ \A u \in Tasks \ {t} : task'[u] = task[u]
      BY <1>1, <2>5 DEF TaskState, LoadsTo
    <3> QED BY <1>1, <2>1, <3>1, OtherRollStep
  <2> QED BY <1>2, <2>1, <2>3, <2>4, <2>5
<1>5. CASE CreateChild(t)
  <2>1. c0.op \in {"child", "squash"}
    BY <1>1, <1>5 DEF CreateChild, CallInv, BuildOps
  <2>2. PICK n \in Names : /\ \E parent : CreateDirectory(n, parent)
                           /\ task' = [task EXCEPT ![t].new = n, ![t].pc = "build"]
    BY <1>5, <2>1 DEF CreateChild
  <2>3. \A m \in Names : disk'[m].rollup \in {disk[m].rollup, None}
    BY <1>1, <2>2 DEF CreateDirectory, NoDirectory
  <2>4. /\ task'[t].op = c0.op /\ task'[t].pc = "build"
        /\ \A u \in Tasks \ {t} : task'[u] = task[u]
    BY <1>1, <2>2 DEF TaskState
  <2> QED BY <1>1, <2>3, <2>4, OtherRollStep
<1>6. CASE Commit(t)
  <2>1. /\ Finishes(c0.new)
        /\ task' = [task EXCEPT ![t].pc = "load", ![t].name = c0.new, ![t].load = <<Plain(c0.new)>>,
                                 ![t].layer = None]
    BY <1>1, <1>6, CommitFinishes
  <2>2. task'[t].op = c0.op /\ task'[t].pc = "load" /\ \A u \in Tasks \ {t} : task'[u] = task[u]
    BY <1>1, <2>1 DEF TaskState
  <2>3. \A m \in Names : disk'[m].rollup = disk[m].rollup
    BY <2>1 DEF Finishes
  <2> QED BY <1>1, <2>2, <2>3, OtherRollStep
<1>7. CASE PerformRollupUpto(t) \/ RollUpto(t)
  BY <1>1, <1>7 DEF PerformRollupUpto, RollUpto, CallInv, RollupOps
<1>8. CASE Invalidate(t)
  BY <1>2, <1>8 DEF Invalidate
<1> QED BY <1>3, <1>4, <1>5, <1>6, <1>7, <1>8

\* rollup starts with a directory that has no parent.
LEMMA RollPerform ==
  ASSUME LayerInv, CoreInv(TRUE)', Keeps, NEW t \in Tasks, PerformRollup(t)
  PROVE  LayerInv'
<1> SUFFICES ASSUME NEW c0, c0 = task[t] PROVE LayerInv'
  OBVIOUS
<1>1. /\ task \in [Tasks -> TaskState] /\ disk \in [Names -> Directory] /\ c0 \in TaskState
      /\ CoreInv(TRUE) /\ TypeInv /\ DirectoryInv /\ RollupsFit(TRUE)
      /\ CallInv(TRUE, c0) /\ RollCall(c0) /\ c0.op \notin UptoOps
  BY DEF LayerInv, CoreInv, TypeInv, RollCall
<1>2. c0.pc = "perform" /\ HasLayer(c0) /\ truth' = truth
  BY DEF PerformRollup, HasLayer
<1>3. c0.name \in Names /\ Top(t).name = c0.name
  BY <1>1, <1>2, TopOf
<1> SUFFICES ASSUME NEW r, r = disk[c0.name].rollup PROVE LayerInv'
  OBVIOUS
<1>4. \/ Registers(t, c0.name) /\ UNCHANGED disk
      \/ Return(t, "err") /\ UNCHANGED disk
      \/ r \in Names /\ Registers(t, r) /\ UNCHANGED disk
      \/ \E n \in Names : /\ CreateDirectory(n, None)
                          /\ task' = [task EXCEPT ![t].new = n, ![t].pc = "roll"]
  BY <1>3 DEF PerformRollup
<1>5. CASE Return(t, "err") /\ UNCHANGED disk
  <2>1. /\ task'[t].op = c0.op /\ task'[t].pc = "return"
        /\ \A u \in Tasks \ {t} : task'[u] = task[u]
    BY <1>1, <1>5 DEF Return, TaskState
  <2> QED BY <1>1, <1>5, <2>1, OtherRollStep
<1>6. ASSUME NEW n \in Names, n = c0.name \/ n = r, Registers(t, n), UNCHANGED disk
      PROVE  LayerInv'
  <2>1. /\ task'[t].op = c0.op /\ task'[t].pc = "register" /\ task'[t].new = n
        /\ task'[t].name = c0.name
        /\ \A u \in Tasks \ {t} : task'[u] = task[u]
    BY <1>1, <1>6 DEF Registers, TaskState
  <2>2. n # c0.name => OwnValue(n) = truth[c0.name]
    BY <1>1, <1>3, <1>6 DEF RollupsFit
  <2>3. OwnValue(n)' = OwnValue(n)
    BY <1>2, <1>6 DEF OwnValue
  <2>4. RollCall(task[t])'
    BY <1>1, <1>2, <2>1, <2>2, <2>3 DEF RollCall
  <2> QED BY <1>6, <2>1, <2>4, RollStep
<1>7. ASSUME NEW n \in Names, CreateDirectory(n, None),
             task' = [task EXCEPT ![t].new = n, ![t].pc = "roll"]
      PROVE  LayerInv'
  <2>1. /\ task'[t].op = c0.op /\ task'[t].pc = "roll" /\ task'[t].new = n
        /\ \A u \in Tasks \ {t} : task'[u] = task[u]
    BY <1>1, <1>7 DEF TaskState
  <2>2. disk'[n].parent = None /\ \A m \in Names : disk'[m].rollup \in {disk[m].rollup, None}
    BY <1>1, <1>7 DEF CreateDirectory, NoDirectory
  <2>3. RollCall(task[t])'
    BY <1>1, <2>1, <2>2 DEF RollCall
  <2> QED BY <2>1, <2>2, <2>3, RollStep
<1> QED BY <1>3, <1>4, <1>5, <1>6, <1>7

\* rollup writes the triples of the layer, which the layer in memory has.
LEMMA RollWrites ==
  ASSUME LayerInv, CoreInv(TRUE)', Keeps, NEW t \in Tasks, RollAll(t)
  PROVE  LayerInv'
<1> SUFFICES ASSUME NEW c0, c0 = task[t] PROVE LayerInv'
  OBVIOUS
<1>1. /\ task \in [Tasks -> TaskState] /\ disk \in [Names -> Directory] /\ c0 \in TaskState
      /\ CoreInv(TRUE) /\ TypeInv /\ DirectoryInv /\ ValuesFit(TRUE)
      /\ CallInv(TRUE, c0) /\ RollCall(c0) /\ c0.op \notin UptoOps
  BY DEF LayerInv, CoreInv, TypeInv, RollCall
<1> SUFFICES ASSUME NEW n, n = c0.new PROVE LayerInv'
  OBVIOUS
<1>2. /\ c0.pc = "roll" /\ truth' = truth /\ task' = [task EXCEPT ![t].pc = "register"]
      /\ Finishes(n) /\ disk'[n].add = Content(c0.layer)
  BY <1>1, RollAllFinishes
<1>3. /\ n \in Names /\ disk[n].parent = None /\ Fits(TRUE, c0.name, c0.layer)
      /\ c0.name \in Names /\ Committed(c0.name)
  BY <1>1, <1>2 DEF CallInv, Builds, HasLayer, RollCall
<1>4. Content(c0.layer) = truth[c0.name]
  BY <1>1, <1>3 DEF Fits, ValuesFit
<1>5. OwnValue(n)' = truth[c0.name]
  BY <1>2, <1>3, <1>4 DEF OwnValue, Finishes
<1>6. /\ task'[t].op = c0.op /\ task'[t].pc = "register" /\ task'[t].new = n
      /\ task'[t].name = c0.name
      /\ \A u \in Tasks \ {t} : task'[u] = task[u]
  BY <1>1, <1>2 DEF TaskState
<1>7. RollCall(task[t])'
  BY <1>1, <1>2, <1>5, <1>6 DEF RollCall
<1>8. \A m \in Names : disk'[m].rollup = disk[m].rollup
  BY <1>2 DEF Finishes
<1> QED BY <1>6, <1>7, <1>8, RollStep

\* The rollup file names a rollup with the triples of the layer.
LEMMA RollRegisters ==
  ASSUME LayerInv, CoreInv(TRUE)', Keeps, NEW t \in Tasks, Register(t) \/ WriteRollup(t)
  PROVE  LayerInv'
<1> SUFFICES ASSUME NEW c0, c0 = task[t] PROVE LayerInv'
  OBVIOUS
<1>1. /\ task \in [Tasks -> TaskState] /\ disk \in [Names -> Directory] /\ c0 \in TaskState
      /\ CoreInv(TRUE) /\ TypeInv /\ DirectoryInv /\ RollupsFit(TRUE)
      /\ CallInv(TRUE, c0) /\ RollCall(c0) /\ c0.op \notin UptoOps
  BY DEF LayerInv, CoreInv, TypeInv, RollCall
<1>2. c0.pc \in {"register", "write_rollup"} /\ HasLayer(c0) /\ truth' = truth
  BY DEF Register, WriteRollup, HasLayer
<1>3. c0.name \in Names /\ Top(t).name = c0.name
  BY <1>1, <1>2, TopOf
<1>4. CASE Register(t)
  <2>1. PICK pc \in {"invalidate", "write_rollup"} : task' = [task EXCEPT ![t].pc = pc]
    BY <1>4 DEF Register
  <2>2. \A m \in Names : disk'[m].rollup \in {disk[m].rollup, Empty}
    BY <1>1, <1>3, <1>4 DEF Register, Directory
  <2>3. RollCall(c0)'
    BY <1>1, RollCallKept
  <2>4. /\ task'[t].op = c0.op /\ task'[t].pc = pc /\ task'[t].new = c0.new
        /\ task'[t].name = c0.name
        /\ \A u \in Tasks \ {t} : task'[u] = task[u]
    BY <1>1, <2>1 DEF TaskState
  <2>5. c0.pc = "register"
    BY <1>4 DEF Register
  <2>6. RollCall(task[t])'
    BY <1>1, <2>3, <2>4, <2>5 DEF RollCall
  <2> QED BY <2>2, <2>4, <2>6, RollStep
<1>5. CASE WriteRollup(t)
  <2> SUFFICES ASSUME NEW n, n = c0.name, NEW r, r = c0.new PROVE LayerInv'
    OBVIOUS
  <2>1. disk' = [disk EXCEPT ![n].rollup = r] /\ task' = [task EXCEPT ![t].pc = "invalidate"]
    BY <1>3, <1>5 DEF WriteRollup
  <2>2. c0.pc = "write_rollup" /\ n \in Names /\ r \in Names /\ Rolled(r) /\ Committed(n)
    BY <1>1, <1>3, <1>5 DEF WriteRollup, CallInv
  <2>3. OwnValue(r) = truth[n]
    <3>1. r # n
      BY <2>2 DEF Rolled
    <3> QED BY <1>1, <2>2, <3>1 DEF RollCall
  <2>4. OwnValue(r)' = OwnValue(r)
    BY <1>1, <2>2, KeepsValues DEF Rolled
  <2>5. disk'[n].rollup = r /\ \A m \in Names \ {n} : disk'[m] = disk[m]
    BY <1>1, <2>1, <2>2 DEF Directory
  <2>6. ASSUME NEW m \in Names, disk'[m].rollup \in Names
        PROVE  OwnValue(disk[m].rollup)' = truth'[m]
    <3>1. CASE m = n
      BY <3>1, <1>2, <2>3, <2>4, <2>5
    <3>2. CASE m # n
      <4> SUFFICES ASSUME NEW q, q = disk[m].rollup PROVE OwnValue(disk[m].rollup)' = truth'[m]
        OBVIOUS
      <4>1. /\ disk'[m].rollup = q /\ q \in Names /\ disk[q].state = "done"
            /\ OwnValue(q) = truth[m]
        BY <1>1, <2>5, <2>6, <3>2 DEF DirectoryInv, Rolled, RollupsFit
      <4>2. OwnValue(q)' = OwnValue(q)
        BY <1>1, <4>1, KeepsValues
      <4> QED BY <1>2, <4>1, <4>2
    <3> QED BY <3>1, <3>2
  <2>7. RollupsFit(TRUE)'
    BY <2>6 DEF RollupsFit
  <2>8. /\ task'[t].op = c0.op /\ task'[t].pc = "invalidate"
        /\ \A u \in Tasks \ {t} : task'[u] = task[u]
    BY <1>1, <2>1 DEF TaskState
  <2>9. ASSUME NEW u \in Tasks PROVE RollCall(task[u])'
    <3>1. CASE u = t
      BY <3>1, <1>1, <2>8 DEF RollCall
    <3>2. CASE u # t
      <4>1. ASSUME NEW c, c = task[u] PROVE RollCall(task[u])'
        <5>1. task'[u] = c
          BY <4>1, <2>8, <3>2
        <5>2. c \in TaskState /\ CallInv(TRUE, c) /\ RollCall(c)
          BY <4>1 DEF LayerInv, CoreInv, TypeInv
        <5>3. RollCall(c)'
          BY <1>1, <5>2, RollCallKept
        <5> QED BY <5>1, <5>3
      <4> QED BY <4>1
    <3> QED BY <3>1, <3>2
  <2> QED BY <2>7, <2>9 DEF LayerInv
<1> QED BY <1>4, <1>5

\* LayerInv is inductive when no rollup goes up to a given layer only.
LEMMA LayerInvNext ==
  ASSUME Ops \cap UptoOps = {}, LayerInv, [Next]_vars
  PROVE  LayerInv'
<1>1. CoreInv(TRUE)' /\ Keeps
  BY NextInv DEF LayerInv
<1>2. ASSUME NEW t \in Tasks, Call(t) PROVE LayerInv'
  BY <1>1, <1>2, RollCalls
<1>3. ASSUME NEW t \in Tasks, Step(t) PROVE LayerInv'
  BY <1>1, <1>3, RollOtherSteps, RollPerform, RollWrites, RollRegisters DEF Step
<1>4. CASE Evict \/ Crash \/ UNCHANGED vars
  <2>1. UNCHANGED <<disk, truth>> /\ \A t \in Tasks : task'[t] \in {Idle, task[t]}
    BY <1>4 DEF Evict, Crash, vars
  <2>2. RollupsFit(TRUE)'
    BY <1>1, <2>1, RollupsKept DEF LayerInv
  <2>3. ASSUME NEW t \in Tasks PROVE RollCall(task[t])'
    <3>1. RollCall(task[t])
      BY DEF LayerInv
    <3>2. CASE task'[t] = Idle
      BY <3>2 DEF RollCall, Idle, UptoOps
    <3>3. CASE task'[t] = task[t]
      BY <3>1, <3>3, <2>1 DEF RollCall, OwnValue
    <3> QED BY <2>1, <3>2, <3>3
  <2> QED BY <1>1, <2>2, <2>3 DEF LayerInv
<1> QED BY <1>2, <1>3, <1>4 DEF Next

-----------------------------------------------------------------------------

\* LayerInv holds when no rollup goes up to a given layer only.
LEMMA InvariantWithoutUpto ==
  ASSUME Ops \cap UptoOps = {}
  PROVE  Spec => []LayerInv
<1>1. Init => LayerInv
  <2> SUFFICES ASSUME Init PROVE LayerInv
    OBVIOUS
  <2>1. RollupsFit(TRUE)
    BY LayerStoreAssumption DEF Init, RollupsFit, NoDirectory
  <2>2. \A t \in Tasks : RollCall(task[t])
    BY DEF Init, RollCall, Idle, UptoOps
  <2> QED BY <2>1, <2>2, InitInv DEF LayerInv
<1>2. LayerInv /\ [Next]_vars => LayerInv'
  BY LayerInvNext
<1> QED BY <1>1, <1>2, PTL DEF Spec

\* RollupsAreEquivalent for any number of layers, rollups of rollups, tasks and
\* crashes, when all rollups are made by rollup: those of rollup_upto are not
\* equivalent in general (run layer_rollup_four).
THEOREM RollupsEquivalent ==
  ASSUME Ops \cap UptoOps = {}
  PROVE  Spec => []RollupsAreEquivalent
<1>1. LayerInv => RollupsAreEquivalent
  BY EquivalentFit DEF LayerInv
<1> QED BY <1>1, InvariantWithoutUpto, PTL

\* Every layer in the cache, in the hands of a task and on disk has the triples that
\* were committed, and every rollup file names a rollup with the triples of its layer,
\* when all rollups are made by rollup.
THEOREM ContentInvariantAlways ==
  ASSUME Ops \cap UptoOps = {}
  PROVE  Spec => []ContentInv
<1>1. LayerInv => ContentInv
  BY DEF LayerInv, ContentInv
<1> QED BY <1>1, InvariantWithoutUpto, PTL

\* Every layer reads back as it was committed, through the cache, a rollup or neither,
\* when all rollups are made by rollup.
THEOREM LayersReadBackAlways ==
  ASSUME Ops \cap UptoOps = {}
  PROVE  Spec => []LayersReadBack
<1>1. LayerInv => LayersReadBack
  BY ReadBack DEF LayerInv
<1> QED BY <1>1, InvariantWithoutUpto, PTL
=============================================================================
