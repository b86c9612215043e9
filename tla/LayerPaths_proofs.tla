------------------------- MODULE LayerPaths_proofs -------------------------
(***************************************************************************)
(* Why loads of committed layers fail only at an empty rollup file: all that a *)
(* load looks at are ancestors, and what stands in for them leads back to  *)
(* ancestors.                                                              *)
(***************************************************************************)
EXTENDS LayerStore_proofs

\* A layer is among its own ancestors.
LEMMA AboveSelf == \A n : Above(n, n)
  BY DEF Above

\* The ancestors of an ancestor are ancestors.
LEMMA AboveStep ==
  ASSUME NEW n, NEW m, NEW p, Above(m, n), Above(p, m)
  PROVE  Above(p, n)
  BY DEF Above

\* The parent of an ancestor is an ancestor.
LEMMA AboveParent ==
  ASSUME NEW n, NEW m \in Names, Above(m, n), disk[m].parent # None
  PROVE  Above(disk[m].parent, n)
  BY DEF Above, Closed

\* The ancestors of a committed layer are committed.
LEMMA AboveCommitted ==
  ASSUME TypeInv, DirectoryInv, NEW n \in Names, Committed(n), NEW p, Above(p, n)
  PROVE  p \in Names /\ Committed(p)
<1> DEFINE S == {m \in Names : Committed(m)}
<1>1. Closed(S)
  BY DEF Closed, TypeInv, Directory, DirectoryInv
<1> QED BY <1>1 DEF Above

\* No step takes an ancestor away.
LEMMA AboveKept ==
  ASSUME TypeInv, DirectoryInv, Keeps
  PROVE  \A n, p : n \in Names /\ Above(p, n) => Above(p, n)'
<1> SUFFICES ASSUME NEW n, NEW p, n \in Names, Above(p, n),
                    NEW S \in SUBSET Names, n \in S, Closed(S)'
             PROVE  p \in S
  BY DEF Above
<1>1. CASE disk[n].state = "absent"
  <2>1. Closed({n})
    BY <1>1 DEF Closed, DirectoryInv, NoDirectory
  <2>2. p \in {n}
    BY <2>1 DEF Above
  <2> QED BY <2>2
<1>2. CASE disk[n].state # "absent"
  <2> DEFINE D == {m \in S : disk[m].state # "absent"}
  <2>1. \A m \in D : disk[m].parent \in D \cup {None}
    <3> SUFFICES ASSUME NEW m \in D PROVE disk[m].parent \in D \cup {None}
      OBVIOUS
    <3>1. m \in Names /\ disk'[m].parent = disk[m].parent
      BY DEF Keeps
    <3>2. disk'[m].parent \in S \cup {None}
      BY DEF Closed
    <3>3. disk[m].parent # None => disk[disk[m].parent].state # "absent"
      BY <3>1, <3>2 DEF DirectoryInv
    <3> QED BY <3>1, <3>2, <3>3
  <2>2. D \in SUBSET Names /\ n \in D
    BY <1>2
  <2> HIDE DEF D
  <2>3. p \in D
    BY <2>1, <2>2 DEF Above, Closed
  <2> QED BY <2>3 DEF D
<1> QED BY <1>1, <1>2

\* A rollup goes on to lead back to an ancestor.
LEMMA ContinuesKept ==
  ASSUME TypeInv, DirectoryInv, Keeps
  PROVE  \A n, r : n \in Names /\ r \in Names /\ disk[r].state = "done" /\ Continues(r, n)
                    => Continues(r, n)'
<1> SUFFICES ASSUME NEW n, NEW r, n \in Names, r \in Names, disk[r].state = "done",
                    Continues(r, n)
             PROVE  Continues(r, n)'
  OBVIOUS
<1> SUFFICES ASSUME NEW p, p = disk[r].parent PROVE Continues(r, n)'
  OBVIOUS
<1>1. disk'[r].parent = p
  BY DEF Keeps
<1>2. p = None \/ Above(p, n)'
  BY AboveKept DEF Continues
<1> QED BY <1>1, <1>2 DEF Continues, Above, Closed

\* The ancestors are what retrieve_layer_stack_names lists.
LEMMA AboveIsAncestry ==
  ASSUME TypeInv, WellFounded(Parent), NEW n \in Names, NEW p
  PROVE  Above(p, n) <=> \E i \in DOMAIN Ancestry(n) : Ancestry(n)[i] = p
<1> SUFFICES ASSUME NEW a, a = Ancestry(n) PROVE Above(p, n) <=> \E i \in DOMAIN a : a[i] = p
  OBVIOUS
<1>1. a \in Seq(Names) /\ IsChain(Parent, n, a)
  BY AncestryDef, LayerStoreAssumption DEF TypeInv
<1>2. /\ DOMAIN a = 1..Len(a) /\ Len(a) \in Nat \ {0} /\ a[1] = n
      /\ \A i \in 1..Len(a) :
           a[i] \in Names /\ disk[a[i]].parent = IF i = Len(a) THEN None ELSE a[i + 1]
  <2>1. /\ DOMAIN a = 1..Len(a) /\ Len(a) \in Nat \ {0} /\ a[1] = n
        /\ \A i \in 1..Len(a) : a[i] \in Names
    BY <1>1 DEF IsChain
  <2>2. \A i \in 1..Len(a) : Parent[a[i]] = disk[a[i]].parent
    BY <2>1 DEF Parent
  <2> QED BY <1>1, <2>1, <2>2 DEF IsChain
<1>0. Len(a) \in Nat \ {0}
  BY <1>2
<1>3. ASSUME Above(p, n) PROVE \E i \in DOMAIN a : a[i] = p
  <2> DEFINE S == {a[i] : i \in 1..Len(a)}
  <2>1. S \in SUBSET Names /\ n \in S
    <3>1. 1 \in 1..Len(a)
      BY <1>0
    <3> QED BY <1>2, <3>1
  <2>2. ASSUME NEW i \in 1..Len(a) PROVE disk[a[i]].parent \in S \cup {None}
    <3>1. i # Len(a) => i + 1 \in 1..Len(a)
      BY <1>0
    <3> QED BY <1>2, <3>1
  <2>3. Closed(S)
    BY <2>2 DEF Closed
  <2>4. p \in S
    <3> HIDE DEF S
    <3> QED BY <1>3, <2>1, <2>3 DEF Above
  <2> QED BY <1>2, <2>4
<1>4. ASSUME NEW i \in 1..Len(a), NEW S \in SUBSET Names, n \in S, Closed(S) PROVE a[i] \in S
  <2> DEFINE T == {j \in 1..Len(a) : a[j] \notin S}
  <2> SUFFICES ASSUME T # {} PROVE FALSE
    OBVIOUS
  <2>1. T \in SUBSET Nat
    BY <1>0
  <2>2. PICK j \in T : \A k \in T : j <= k
    BY <2>1, LeastNat
  <2>3. j \in 1..Len(a) /\ j # 1 /\ a[j] \notin S
    BY <1>2, <1>4
  <2>4. j - 1 \in 1..Len(a) /\ j - 1 \notin T /\ j - 1 # Len(a) /\ (j - 1) + 1 = j
    <3> HIDE DEF T
    <3> QED BY <1>0, <2>1, <2>2, <2>3
  <2>5. a[j - 1] \in S /\ disk[a[j - 1]].parent = a[j] /\ a[j] # None
    <3>1. a[j - 1] \in S
      BY <2>4
    <3>2. disk[a[j - 1]].parent = a[(j - 1) + 1]
      BY <1>2, <2>4
    <3> QED BY <1>2, <2>3, <2>4, <3>1, <3>2, LayerStoreAssumption
  <2> QED BY <1>4, <2>3, <2>5 DEF Closed
<1> QED BY <1>2, <1>3, <1>4 DEF Above

-----------------------------------------------------------------------------

\* What a call knows of its path goes on to hold while others write files.
LEMMA PathCallKept ==
  ASSUME TypeInv, DirectoryInv, Keeps, NEW c \in TaskState, CallInv(FALSE, c), PathCall(c)
  PROVE  PathCall(c)'
<1>1. \A n, p : n \in Names /\ Above(p, n) => Above(p, n)'
  BY AboveKept
<1>2. \A n, r : n \in Names /\ r \in Names /\ disk[r].state = "done" /\ Continues(r, n)
                    => Continues(r, n)'
  BY ContinuesKept
<1>3. c.pc = "roll" => disk'[c.new].parent = IF c.op = "rollup" THEN None ELSE c.upto
  BY DEF CallInv, Builds, PathCall, Keeps
<1>4. c.pc \in {"register", "write_rollup"} /\ c.new # c.name => Continues(c.new, c.name)'
  BY <1>2 DEF CallInv, Rolled, PathCall
<1>5. ASSUME c.pc = "load", NEW i \in 1..Len(c.load)
      PROVE  /\ Above(c.load[i].name, c.name)'
             /\ c.load[i].rollup # None => Continues(c.load[i].rollup, c.load[i].name)'
  <2>1. /\ Above(c.load[i].name, c.name)
        /\ c.load[i].rollup # None => Continues(c.load[i].rollup, c.load[i].name)
    BY <1>5 DEF PathCall
  <2>2. /\ c.load[i] \in Entry /\ EntryFits(FALSE, c.load[i]) /\ c.load[1] \in Entry
        /\ c.load[1].name = c.name
    <3>1. LoadFits(FALSE, c.load) /\ c.load[1].name = c.name
      BY <1>5 DEF CallInv
    <3>2. c.load \in Seq(Entry) /\ \A j \in 1..Len(c.load) : EntryFits(FALSE, c.load[j])
      BY <3>1 DEF LoadFits
    <3>3. \A j \in 1..Len(c.load) : c.load[j] \in Entry
      BY <3>2
    <3>4. 1 \in 1..Len(c.load)
      BY <3>2
    <3> QED BY <3>1, <3>2, <3>3, <3>4
  <2>3. c.name \in Names /\ c.load[i].name \in Names
    BY <2>2 DEF Entry
  <2>4. c.load[i].rollup # None =>
          c.load[i].rollup \in Names /\ disk[c.load[i].rollup].state = "done"
    BY <2>2 DEF EntryFits, Entry, Rolled
  <2> QED BY <1>1, <1>2, <1>5, <2>1, <2>3, <2>4
<1> QED BY <1>3, <1>4, <1>5 DEF PathCall

\* What a step of one task has to do for PathInv to be kept.
LEMMA PathStep ==
  ASSUME CoreInv(FALSE), PathInv, Keeps, NEW t \in Tasks,
         \A u \in Tasks \ {t} : task'[u] = task[u], PathCall(task[t])',
         \A n \in Names : \/ disk'[n].rollup \in {disk[n].rollup, None, Empty}
                           \/ Continues(disk[n].rollup, n)'
  PROVE  PathInv'
<1>1. /\ TypeInv /\ DirectoryInv
      /\ \A u \in Tasks : task[u] \in TaskState /\ CallInv(FALSE, task[u]) /\ PathCall(task[u])
  BY DEF PathInv, CoreInv, TypeInv
<1>2. ASSUME NEW n \in Names, disk'[n].rollup \in Names PROVE Continues(disk[n].rollup, n)'
  <2>1. ASSUME NEW r, r = disk[n].rollup, disk'[n].rollup = r
        PROVE  Continues(disk[n].rollup, n)'
    <3>1. r \in Names /\ disk[r].state = "done" /\ Continues(r, n)
      BY <1>1, <1>2, <2>1 DEF DirectoryInv, Rolled, PathInv
    <3>2. Continues(r, n)'
      BY <1>1, <3>1, ContinuesKept
    <3> QED BY <2>1, <3>2
  <2> QED BY <1>2, <2>1, LayerStoreAssumption
<1>3. ASSUME NEW u \in Tasks \ {t} PROVE PathCall(task[u])'
  <2>1. ASSUME NEW c, c = task[u] PROVE PathCall(task[u])'
    <3>1. task'[u] = c
      BY <2>1
    <3>2. c \in TaskState /\ CallInv(FALSE, c) /\ PathCall(c)
      BY <1>1, <2>1
    <3>3. PathCall(c)'
      BY <1>1, <3>2, PathCallKept
    <3> QED BY <3>1, <3>3
  <2> QED BY <2>1
<1> QED BY <1>2, <1>3 DEF PathInv

\* The same for a step to a place where the call keeps no path.
LEMMA OtherPathStep ==
  ASSUME CoreInv(FALSE), PathInv, Keeps, NEW t \in Tasks,
         \A u \in Tasks \ {t} : task'[u] = task[u],
         task'[t].pc # "return" => task'[t].res = "none",
         task'[t].pc \notin {"roll", "register", "write_rollup", "load"},
         \A n \in Names : disk'[n].rollup \in {disk[n].rollup, None, Empty}
  PROVE  PathInv'
<1>1. PathCall(task[t])'
  BY DEF PathCall
<1> QED BY <1>1, PathStep

\* The path of a load begins with the layer itself.
LEMMA StartPath ==
  ASSUME CoreInv(FALSE), PathInv, Keeps, NEW t \in Tasks, NEW n \in Names,
         \A u \in Tasks \ {t} : task'[u] = task[u],
         task'[t].res = "none", task'[t].pc = "load", task'[t].name = n,
         task'[t].load = <<Plain(n)>>,
         \A m \in Names : disk'[m].rollup \in {disk[m].rollup, None, Empty}
  PROVE  PathInv'
<1> SUFFICES ASSUME NEW load, load = <<Plain(n)>> PROVE PathInv'
  OBVIOUS
<1>1. Len(load) = 1 /\ load[1].name = n /\ load[1].rollup = None
  BY DEF Plain
<1>2. Above(n, n)'
  BY DEF Above
<1>3. \A i \in 1..Len(load) : i = 1
  BY <1>1
<1>4. task'[t].load = load
  OBVIOUS
<1>5. PathCall(task[t])'
  <2>1. ASSUME NEW i \in 1..Len(load)
        PROVE  Above(load[i].name, n)' /\ load[i].rollup = None
    BY <1>1, <1>2, <1>3
  <2> QED BY <1>4, <2>1 DEF PathCall
<1> QED BY <1>5, PathStep

\* Every call keeps PathInv as it begins.
LEMMA PathCalls ==
  ASSUME CoreInv(FALSE), PathInv, Keeps, NEW t \in Tasks, Call(t)
  PROVE  PathInv'
<1>1. task \in [Tasks -> TaskState] /\ disk \in [Names -> Directory]
  BY DEF CoreInv, TypeInv
<1>2. ASSUME NEW op, NEW n \in Names, NEW upto, StartLoad(t, op, n, upto) PROVE PathInv'
  <2>1. /\ UNCHANGED disk
        /\ task' = [task EXCEPT ![t] = [Idle EXCEPT !.pc = "load", !.op = op, !.name = n,
                                                !.upto = upto, !.load = <<Plain(n)>>]]
    BY <1>2 DEF StartLoad
  <2>2. /\ task'[t].res = "none" /\ task'[t].pc = "load" /\ task'[t].name = n
        /\ task'[t].load = <<Plain(n)>>
        /\ \A u \in Tasks \ {t} : task'[u] = task[u]
    BY <1>1, <2>1 DEF Idle
  <2> QED BY <2>1, <2>2, StartPath
<1>3. CASE CallBase(t)
  <2>1. PICK n \in Names :
        /\ CreateDirectory(n, None)
        /\ task' = [task EXCEPT ![t] = [Idle EXCEPT !.pc = "build", !.op = "base", !.new = n]]
    BY <1>3 DEF CallBase
  <2>2. /\ task'[t].res = "none" /\ task'[t].pc = "build"
        /\ \A u \in Tasks \ {t} : task'[u] = task[u]
    BY <1>1, <2>1 DEF Idle
  <2>3. \A m \in Names : disk'[m].rollup \in {disk[m].rollup, None}
    BY <1>1, <2>1 DEF CreateDirectory, NoDirectory
  <2> QED BY <2>2, <2>3, OtherPathStep
<1> QED BY <1>2, <1>3 DEF Call, CallGet, CallChild, CallSquash, CallRollup, CallRollupUpto

\* The loop of get_layer ends with an error or a layer.
LEMMA LoadAllTask ==
  ASSUME NEW t, NEW entries, NEW ancestor, LoadAll(t, entries, ancestor)
  PROVE  Return(t, "err") \/ \E l : LoadsTo(t, l)
  BY DEF LoadAll, LoadsTo

\* When all directories are complete it ends with a layer.
LEMMA LoadAllSucceeds ==
  ASSUME NEW t, NEW entries, Len(entries) \in Nat, NEW ancestor, LoadAll(t, entries, ancestor),
         \A i \in 1..Len(entries) : disk[Source(entries[i])].state = "done"
  PROVE  \E l : LoadsTo(t, l)
<1> DEFINE k == Len(entries)
           complete(n) == \A i \in (k + 1 - n)..k : disk[Source(entries[i])].state = "done"
           loadable == CHOOSE n \in 0..k : complete(n) /\ (n = k \/ ~complete(n + 1))
<1>1. \E n \in 0..k : complete(n) /\ (n = k \/ ~complete(n + 1))
  BY LoadableExists
<1>2. loadable \in 0..k /\ (loadable = k \/ ~complete(loadable + 1))
  <2> HIDE DEF complete
  <2> QED BY <1>1
<1>3. \/ loadable < k /\ Return(t, "err")
      \/ loadable = k /\ \E l : LoadsTo(t, l)
  BY DEF LoadAll, LoadsTo
<1> HIDE DEF loadable
<1>4. loadable = k
  <2> SUFFICES ASSUME loadable # k PROVE FALSE
    OBVIOUS
  <2>1. \A i \in (k + 1 - (loadable + 1))..k : i \in 1..k
    BY <1>2
  <2>2. complete(loadable + 1)
    BY <2>1
  <2> HIDE DEF complete
  <2> QED BY <1>2, <2>2
<1> QED BY <1>2, <1>3, <1>4

\* What a step of a load looks at, and what becomes of layers_to_load
PathsFrom(n, load) ==
    \A i \in 1..Len(load) :
        /\ Above(load[i].name, n)
        /\ load[i].rollup # None => Continues(load[i].rollup, load[i].name)

\* A step of get_layer looks at ancestors only, and when the layer is committed it
\* fails only at an ancestor whose rollup file is empty.
LEMMA LoadPath ==
  ASSUME CoreInv(FALSE), PathInv, NEW t \in Tasks, LoadStep(t), NEW c0, c0 = task[t],
         NEW n \in Names,
         PathsFrom(n, c0.load)
  PROVE  /\ \/ \E res \in {"err", "not_found"} : Return(t, res)
            \/ \E load : PathsFrom(n, load) /\ task' = [task EXCEPT ![t].load = load]
            \/ \E l : LoadsTo(t, l)
         /\ Committed(n) =>
            \/ \E p : Above(p, n) /\ disk[p].rollup = Empty
            \/ \E load : task' = [task EXCEPT ![t].load = load]
            \/ \E l : LoadsTo(t, l)
<1> SUFFICES ASSUME NEW load, load = c0.load, NEW e, e = Last(load), NEW current,
                    current = Source(e)
             PROVE  /\ \/ \E res \in {"err", "not_found"} : Return(t, res)
                       \/ \E new : PathsFrom(n, new) /\ task' = [task EXCEPT ![t].load = new]
                       \/ \E l : LoadsTo(t, l)
                    /\ Committed(n) =>
                       \/ \E p : Above(p, n) /\ disk[p].rollup = Empty
                       \/ \E new : task' = [task EXCEPT ![t].load = new]
                       \/ \E l : LoadsTo(t, l)
  OBVIOUS
<1>1. TypeInv /\ DirectoryInv /\ CallInv(FALSE, c0) /\ c0.pc \in {"load", "load_upto"}
  BY DEF CoreInv, LoadStep
<1>2. LoadFits(FALSE, load)
  BY <1>1 DEF CallInv
<1>3. load \in Seq(Entry) /\ load # <<>> /\ Len(load) \in Nat \ {0}
  BY <1>2 DEF LoadFits
<1>4. \A i \in 1..Len(load) : load[i] \in Entry /\ EntryFits(FALSE, load[i])
  <2>1. \A i \in 1..Len(load) : load[i] \in Entry
    BY <1>3
  <2> QED BY <1>2, <2>1 DEF LoadFits
<1>5. /\ e = load[Len(load)] /\ Front(load) \in Seq(Entry) /\ Len(Front(load)) = Len(load) - 1
      /\ \A i \in 1..(Len(load) - 1) : Front(load)[i] = load[i]
  BY <1>3, LastAndFront
<1>6. Len(load) \in 1..Len(load)
  BY <1>3
<1>7. /\ e \in Entry /\ EntryFits(FALSE, e) /\ Above(e.name, n)
      /\ e.rollup # None => Continues(e.rollup, e.name)
  BY <1>4, <1>5, <1>6 DEF PathsFrom
<1>8. /\ e.name \in Names /\ current \in Names
      /\ (e.rollup # None => current = e.rollup /\ Rolled(current))
      /\ (e.rollup = None => current = e.name)
  BY <1>7 DEF Entry, Source, EntryFits
<1>9. disk[current].rollup # None => current = e.name /\ disk[current].rollup # current
  BY <1>1, <1>8 DEF DirectoryInv, Rolled
<1>10. ASSUME Committed(n), NEW i \in 1..Len(load) PROVE disk[Source(load[i])].state = "done"
  <2>1. load[i] \in Entry /\ EntryFits(FALSE, load[i]) /\ Above(load[i].name, n)
    BY <1>4 DEF PathsFrom
  <2>2. load[i].name \in Names /\ Committed(load[i].name)
    BY <1>1, <1>10, <2>1, AboveCommitted
  <2> QED BY <1>1, <2>1, <2>2 DEF EntryFits, Source, Rolled, DirectoryInv
<1>11. ASSUME NEW new \in Entry, Above(new.name, n),
              new.rollup # None => Continues(new.rollup, new.name),
              NEW s \in {load, Front(load)}
       PROVE  PathsFrom(n, Append(s, new))
  <2>1. /\ s \in Seq(Entry) /\ Len(s) \in Nat
        /\ \A i \in 1..Len(s) : i \in 1..Len(load) /\ s[i] = load[i]
    <3>1. CASE s = load
      BY <1>3, <3>1
    <3>2. CASE s = Front(load)
      <4>1. /\ Len(s) = Len(load) - 1
            /\ \A i \in 1..(Len(load) - 1) : s[i] = load[i] /\ s \in Seq(Entry)
        BY <1>5, <3>2
      <4>2. s \in Seq(Entry)
        BY <1>5, <3>2
      <4>3. /\ Len(s) \in Nat
            /\ \A i \in 1..Len(s) : i \in 1..(Len(load) - 1) /\ i \in 1..Len(load)
        BY <1>3, <4>1, <4>2
      <4> QED BY <4>1, <4>2, <4>3
    <3> QED BY <3>1, <3>2
  <2> DEFINE q == Append(s, new)
  <2>2. Len(q) = Len(s) + 1 /\ (\A i \in 1..Len(s) : q[i] = s[i]) /\ q[Len(s) + 1] = new
    BY <2>1, AppendProperties
  <2> HIDE DEF q
  <2>3. \A i \in 1..Len(q) : i \in 1..Len(s) \/ i = Len(s) + 1
    BY <2>1, <2>2
  <2>4. PathsFrom(n, q)
    BY <1>11, <2>1, <2>2, <2>3 DEF PathsFrom
  <2> QED BY <2>4 DEF q
<1>12. CASE LoadAll(t, Front(load), Rename(e, cache[current]))
  <2>1. Return(t, "err") \/ \E l : LoadsTo(t, l)
    BY <1>12, LoadAllTask
  <2>2. ASSUME Committed(n) PROVE \E l : LoadsTo(t, l)
    <3>1. Len(Front(load)) \in Nat
      BY <1>5
    <3>2. \A i \in 1..Len(Front(load)) : i \in 1..(Len(load) - 1) /\ i \in 1..Len(load)
      BY <1>3, <1>5
    <3>3. \A i \in 1..Len(Front(load)) : disk[Source(Front(load)[i])].state = "done"
      BY <1>5, <1>10, <2>2, <3>2
    <3> QED BY <1>12, <3>1, <3>3, LoadAllSucceeds
  <2> QED BY <2>1, <2>2
<1>13. CASE disk[current].state = "absent" /\ Return(t, "not_found")
  <2>1. ~Committed(n)
    BY <1>5, <1>6, <1>10, <1>13
  <2> QED BY <1>13, <2>1
<1>14. CASE BadRollup(current) /\ Return(t, "err")
  <2>1. disk[current].rollup = Empty /\ current = e.name
    BY <1>8, <1>9, <1>14, LayerStoreAssumption DEF BadRollup
  <2> QED BY <1>7, <1>14, <2>1
<1>15. CASE /\ disk[current].rollup \in Names
            /\ task' = [task EXCEPT ![t].load =
                          Append(Front(load),
                                 Instead(current, disk[current].rollup, disk[current].parent))]
  <2> DEFINE new == Instead(current, disk[current].rollup, disk[current].parent)
  <2>1. new \in Entry /\ new.name = current /\ new.rollup = disk[current].rollup
    BY <1>1, <1>8, <1>15 DEF Instead, Entry, TypeInv, Directory
  <2> HIDE DEF new
  <2>2. current = e.name /\ Continues(disk[current].rollup, current)
    BY <1>8, <1>9, <1>15, LayerStoreAssumption DEF PathInv
  <2>3. Above(new.name, n) /\ Continues(new.rollup, new.name)
    BY <1>7, <2>1, <2>2
  <2>4. PathsFrom(n, Append(Front(load), new))
    BY <1>11, <2>1, <2>3
  <2>5. task' = [task EXCEPT ![t].load = Append(Front(load), new)]
    BY <1>15 DEF new
  <2> QED BY <2>4, <2>5
<1>16. CASE /\ disk[current].parent # None
            /\ task' = [task EXCEPT ![t].load = Append(load, Plain(disk[current].parent))]
  <2> DEFINE new == Plain(disk[current].parent)
  <2>1. new \in Entry /\ new.name = disk[current].parent /\ new.rollup = None
    BY <1>1, <1>8, <1>16 DEF Plain, Entry, TypeInv, Directory
  <2> HIDE DEF new
  <2>2. Above(new.name, n)
    <3>1. CASE e.rollup = None
      BY <1>7, <1>8, <1>16, <2>1, <3>1, AboveParent
    <3>2. CASE e.rollup # None
      <4>1. Above(new.name, e.name)
        BY <1>7, <1>8, <1>16, <2>1, <3>2 DEF Continues
      <4> QED BY <1>7, <4>1, AboveStep
    <3> QED BY <3>1, <3>2
  <2>3. PathsFrom(n, Append(load, new))
    BY <1>11, <2>1, <2>2
  <2>4. task' = [task EXCEPT ![t].load = Append(load, new)]
    BY <1>16 DEF new
  <2> QED BY <2>3, <2>4
<1>17. CASE LoadAll(t, load, <<>>)
  <2>1. Return(t, "err") \/ \E l : LoadsTo(t, l)
    BY <1>17, LoadAllTask
  <2>2. ASSUME Committed(n) PROVE \E l : LoadsTo(t, l)
    BY <1>3, <1>10, <1>17, <2>2, LoadAllSucceeds
  <2> QED BY <2>1, <2>2
<1> QED BY <1>12, <1>13, <1>14, <1>15, <1>16, <1>17 DEF LoadStep

\* A step of get_layer keeps PathInv.
LEMMA PathLoads ==
  ASSUME CoreInv(FALSE), PathInv, Keeps, NEW t \in Tasks, LoadStep(t)
  PROVE  PathInv'
<1> SUFFICES ASSUME NEW c0, c0 = task[t] PROVE PathInv'
  OBVIOUS
<1>1. /\ task \in [Tasks -> TaskState] /\ c0 \in TaskState /\ TypeInv /\ DirectoryInv
      /\ CallInv(FALSE, c0) /\ PathCall(c0)
  BY DEF CoreInv, TypeInv, PathInv
<1>2. c0.pc \in {"load", "load_upto"} /\ UNCHANGED <<disk, truth>>
  BY DEF LoadStep
<1>3. c0.res = "none" /\ \A m \in Names : disk'[m].rollup = disk[m].rollup
  BY <1>1, <1>2 DEF PathCall
<1>4. ASSUME NEW res, Return(t, res) PROVE PathInv'
  <2>1. task'[t].pc = "return" /\ \A u \in Tasks \ {t} : task'[u] = task[u]
    BY <1>1, <1>4 DEF Return, TaskState
  <2> QED BY <1>3, <2>1, OtherPathStep
<1>5. ASSUME NEW l, LoadsTo(t, l) PROVE PathInv'
  <2>1. /\ task'[t].pc \in {"return", "create", "perform"} /\ task'[t].res = "none"
        /\ \A u \in Tasks \ {t} : task'[u] = task[u]
    BY <1>1, <1>3, <1>5 DEF LoadsTo, TaskState
  <2> QED BY <1>3, <2>1, OtherPathStep
<1>6. ASSUME NEW load, task' = [task EXCEPT ![t].load = load],
             c0.pc = "load" => PathsFrom(c0.name, load)
      PROVE  PathInv'
  <2> DEFINE c == [c0 EXCEPT !.load = load]
  <2>1. /\ task'[t] = c /\ c.pc = c0.pc /\ c.res = "none" /\ c.load = load /\ c.name = c0.name
        /\ \A u \in Tasks \ {t} : task'[u] = task[u]
    BY <1>1, <1>3, <1>6 DEF TaskState
  <2> HIDE DEF c
  <2>2. c0.pc = "load" => PathsFrom(c0.name, load)'
    BY <1>2, <1>6 DEF PathsFrom, Continues, Above, Closed
  <2>3. PathCall(c)'
    BY <1>2, <2>1, <2>2 DEF PathCall, PathsFrom
  <2>4. PathCall(task[t])'
    BY <2>1, <2>3
  <2> QED BY <1>3, <2>1, <2>4, PathStep
<1>7. CASE c0.pc = "load"
  <2>1. PathsFrom(c0.name, c0.load) /\ c0.name \in Names
    <3>1. LoadFits(FALSE, c0.load) /\ c0.load[1].name = c0.name
      BY <1>1, <1>7 DEF CallInv
    <3>2. c0.load \in Seq(Entry) /\ c0.load # <<>>
      BY <3>1 DEF LoadFits
    <3>3. c0.load[1] \in Entry
      BY <3>2
    <3>4. c0.name \in Names
      BY <3>1, <3>3 DEF Entry
    <3> QED BY <1>1, <1>7, <3>4 DEF PathCall, PathsFrom
  <2> QED BY <1>4, <1>5, <1>6, <2>1, LoadPath
<1>8. CASE c0.pc # "load"
  <2>1. LoadFits(FALSE, task[t].load)
    BY <1>1, <1>2 DEF CallInv
  <2>2. ValuesFit(FALSE) /\ RollupsFit(FALSE)
    BY DEF ValuesFit, RollupsFit
  <2>3. \A n \in Names : cache[n] # None => Fits(FALSE, n, cache[n])
    BY DEF CoreInv
  <2>4. \/ \E res \in {"err", "not_found"} : Return(t, res)
        \/ \E load : task' = [task EXCEPT ![t].load = load]
        \/ \E l : LoadsTo(t, l)
    BY <1>1, <2>1, <2>2, <2>3, LoadStepFits
  <2> QED BY <1>4, <1>5, <1>6, <1>8, <2>4
<1> QED BY <1>7, <1>8

\* Writing the files of a rollup keeps PathInv: a rollup has no parent, or the layer
\* it goes up to.
LEMMA PathRolls ==
  ASSUME CoreInv(FALSE), PathInv, Keeps, NEW t \in Tasks, RollAll(t) \/ RollUpto(t)
  PROVE  PathInv'
<1> SUFFICES ASSUME NEW c0, c0 = task[t], NEW n, n = c0.name, NEW r, r = c0.new PROVE PathInv'
  OBVIOUS
<1>1. /\ task \in [Tasks -> TaskState] /\ disk \in [Names -> Directory] /\ c0 \in TaskState
      /\ TypeInv /\ DirectoryInv /\ WellFounded(Parent) /\ CallInv(FALSE, c0) /\ PathCall(c0)
  BY DEF CoreInv, TypeInv, PathInv
<1>2. c0.pc = "roll" /\ HasLayer(c0) /\ Builds(c0)
  BY DEF RollAll, RollUpto, HasLayer, Builds
<1>3. /\ r \in Names /\ disk[r].state = "open" /\ c0.op \in RollupOps /\ c0.res = "none"
      /\ disk[r].parent = (IF c0.op = "rollup" THEN None ELSE c0.upto)
  BY <1>1, <1>2 DEF CallInv, PathCall
<1>4. n \in Names /\ Top(t).name = n
  BY <1>2, TopOf
<1>5. \/ Return(t, "err") /\ UNCHANGED disk
      \/ /\ \E new : disk' = [disk EXCEPT ![r] = new] /\ new.rollup = disk[r].rollup
         /\ disk[r].parent = None \/ Above(disk[r].parent, n)
         /\ task' = [task EXCEPT ![t].pc = "register"]
  <2>1. CASE RollAll(t)
    <3>1. c0.op = "rollup" /\ task' = [task EXCEPT ![t].pc = "register"]
      BY <2>1 DEF RollAll
    <3>2. disk' = [disk EXCEPT ![r] = [disk[r] EXCEPT !.state = "done", !.add = Content(c0.layer)]]
      BY <2>1 DEF RollAll
    <3>3. [disk[r] EXCEPT !.state = "done", !.add = Content(c0.layer)].rollup = disk[r].rollup
      BY <1>1, <1>3 DEF Directory
    <3> QED BY <1>3, <3>1, <3>2, <3>3
  <2>2. CASE RollUpto(t)
    <3>1. c0.op # "rollup"
      BY <2>2 DEF RollUpto
    <3> DEFINE bound == SafeUptoBound(c0.layer, c0.upto)
               changes == MemoryChanges(c0.layer, bound)
                            \o IF c0.op = "rollup_upto" THEN DiskChanges(bound, c0.upto) ELSE <<>>
               add == {x \in Triples : Surplus(changes, x, 1)}
               rem == {x \in Triples : Deficit(changes, x, 1)}
    <3>2. \/ Return(t, "err") /\ UNCHANGED disk
          \/ /\ NamesUpto(n, c0.upto) # <<>>
             /\ task' = [task EXCEPT ![t].pc = "register"]
             /\ disk' = [disk EXCEPT ![r].state = "done", ![r].add = add, ![r].rem = rem]
      <4>1. \/ Return(t, "err") /\ UNCHANGED disk
            \/ /\ NamesUpto(Top(t).name, c0.upto) # <<>>
               /\ task' = [task EXCEPT ![t].pc = "register"]
               /\ disk' = [disk EXCEPT ![r].state = "done", ![r].add = add, ![r].rem = rem]
        BY <2>2 DEF RollUpto
      <4> HIDE DEF add, rem
      <4> QED BY <1>4, <4>1
    <3> HIDE DEF add, rem
    <3>3. ASSUME NamesUpto(n, c0.upto) # <<>>, task' = [task EXCEPT ![t].pc = "register"],
                 disk' = [disk EXCEPT ![r].state = "done", ![r].add = add, ![r].rem = rem]
          PROVE  /\ \E new : disk' = [disk EXCEPT ![r] = new] /\ new.rollup = disk[r].rollup
                 /\ disk[r].parent = None \/ Above(disk[r].parent, n)
                 /\ task' = [task EXCEPT ![t].pc = "register"]
      <4>1. \E i \in DOMAIN Ancestry(n) : Ancestry(n)[i] = c0.upto
        <5>1. \E i \in 2..Len(Ancestry(n)) : Ancestry(n)[i] = c0.upto
          BY <3>3 DEF NamesUpto
        <5>2. Ancestry(n) \in Seq(Names)
          BY <1>1, <1>4, AncestryDef, LayerStoreAssumption
        <5> QED BY <5>1, <5>2
      <4>2. Above(c0.upto, n)
        BY <1>1, <1>4, <4>1, AboveIsAncestry
      <4>3. [disk[r] EXCEPT !.state = "done", !.add = add, !.rem = rem].rollup = disk[r].rollup
        BY <1>1, <1>3 DEF Directory
      <4>4. disk' = [disk EXCEPT ![r] = [disk[r] EXCEPT !.state = "done", !.add = add, !.rem = rem]]
        BY <3>3
      <4> QED BY <1>3, <3>1, <3>3, <4>2, <4>3, <4>4
    <3>4. CASE Return(t, "err") /\ UNCHANGED disk
      BY <3>4
    <3> QED BY <3>2, <3>3, <3>4
  <2> QED BY <2>1, <2>2
<1>6. CASE Return(t, "err") /\ UNCHANGED disk
  <2>1. task'[t].pc = "return" /\ \A u \in Tasks \ {t} : task'[u] = task[u]
    BY <1>1, <1>6 DEF Return, TaskState
  <2> QED BY <1>6, <2>1, OtherPathStep
<1>7. CASE /\ \E new : disk' = [disk EXCEPT ![r] = new] /\ new.rollup = disk[r].rollup
           /\ disk[r].parent = None \/ Above(disk[r].parent, n)
           /\ task' = [task EXCEPT ![t].pc = "register"]
  <2>1. \A m \in Names : disk'[m].rollup = disk[m].rollup
    BY <1>1, <1>3, <1>7
  <2>2. /\ task'[t].pc = "register" /\ task'[t].res = "none" /\ task'[t].new = r
        /\ task'[t].name = n
        /\ \A u \in Tasks \ {t} : task'[u] = task[u]
    BY <1>1, <1>3, <1>7 DEF TaskState
  <2>3. Continues(r, n)'
    <3>1. ASSUME NEW p, p = disk[r].parent
          PROVE  disk'[r].parent = p /\ (p = None \/ Above(p, n)')
      BY <1>1, <1>3, <1>4, <1>7, <3>1, AboveKept DEF Keeps
    <3>2. ASSUME NEW p, disk'[r].parent = p, p = None \/ Above(p, n)' PROVE Continues(r, n)'
      BY <3>2 DEF Continues, Above, Closed
    <3> QED BY <3>1, <3>2
  <2>4. PathCall(task[t])'
    BY <2>2, <2>3 DEF PathCall
  <2> QED BY <2>1, <2>2, <2>4, PathStep
<1> QED BY <1>5, <1>6, <1>7

\* The layer that rollup_upto stops at is an ancestor, or the call fails: it is looked
\* for among the names of the ancestors.
LEMMA PathPerforms ==
  ASSUME CoreInv(FALSE), PathInv, Keeps, NEW t \in Tasks,
         PerformRollup(t) \/ PerformRollupUpto(t)
  PROVE  PathInv'
<1> SUFFICES ASSUME NEW c0, c0 = task[t], NEW n, n = c0.name, NEW r, r = disk[n].rollup
             PROVE  PathInv'
  OBVIOUS
<1>1. /\ task \in [Tasks -> TaskState] /\ disk \in [Names -> Directory] /\ c0 \in TaskState
      /\ TypeInv /\ DirectoryInv /\ CallInv(FALSE, c0) /\ PathCall(c0)
  BY DEF CoreInv, TypeInv, PathInv
<1>2. c0.pc = "perform" /\ HasLayer(c0) /\ c0.res = "none"
  BY <1>1 DEF PerformRollup, PerformRollupUpto, HasLayer, PathCall
<1>3. n \in Names /\ Top(t).name = n
  BY <1>2, TopOf
<1>4. \/ \E m \in Names : (m = n \/ m = r) /\ Registers(t, m) /\ UNCHANGED disk
      \/ Return(t, "err") /\ UNCHANGED disk
      \/ /\ task' = [task EXCEPT ![t].pc = "load_upto", ![t].load = <<Plain(c0.upto)>>]
         /\ UNCHANGED disk
      \/ \E m \in Names : /\ CreateDirectory(m, None) /\ c0.op = "rollup"
                          /\ task' = [task EXCEPT ![t].new = m, ![t].pc = "roll"]
  <2>1. CASE PerformRollup(t)
    BY <1>3, <2>1 DEF PerformRollup
  <2>2. CASE PerformRollupUpto(t)
    BY <1>3, <2>2 DEF PerformRollupUpto
  <2> QED BY <2>1, <2>2
<1>5. ASSUME NEW m \in Names, m = n \/ m = r, Registers(t, m), UNCHANGED disk PROVE PathInv'
  <2>1. /\ task'[t].pc = "register" /\ task'[t].res = "none" /\ task'[t].new = m
        /\ task'[t].name = n
        /\ \A u \in Tasks \ {t} : task'[u] = task[u]
    BY <1>1, <1>2, <1>5 DEF Registers, TaskState
  <2>2. m # n => Continues(m, n)'
    BY <1>3, <1>5 DEF PathInv, Continues, Above, Closed
  <2>3. PathCall(task[t])'
    BY <2>1, <2>2 DEF PathCall
  <2> QED BY <1>5, <2>1, <2>3, PathStep
<1>6. CASE Return(t, "err") /\ UNCHANGED disk
  <2>1. task'[t].pc = "return" /\ \A u \in Tasks \ {t} : task'[u] = task[u]
    BY <1>1, <1>6 DEF Return, TaskState
  <2> QED BY <1>6, <2>1, OtherPathStep
<1>7. CASE /\ task' = [task EXCEPT ![t].pc = "load_upto", ![t].load = <<Plain(c0.upto)>>]
           /\ UNCHANGED disk
  <2>1. /\ task'[t].pc = "load_upto" /\ task'[t].res = "none"
        /\ \A u \in Tasks \ {t} : task'[u] = task[u]
    BY <1>1, <1>2, <1>7 DEF TaskState
  <2> QED BY <1>7, <2>1, OtherPathStep
<1>8. ASSUME NEW m \in Names, CreateDirectory(m, None), c0.op = "rollup",
             task' = [task EXCEPT ![t].new = m, ![t].pc = "roll"]
      PROVE  PathInv'
  <2>1. /\ task'[t].pc = "roll" /\ task'[t].res = "none" /\ task'[t].new = m
        /\ task'[t].op = "rollup"
        /\ \A u \in Tasks \ {t} : task'[u] = task[u]
    BY <1>1, <1>2, <1>8 DEF TaskState
  <2>2. disk'[m].parent = None /\ \A k \in Names : disk'[k].rollup \in {disk[k].rollup, None}
    BY <1>1, <1>8 DEF CreateDirectory, NoDirectory
  <2>3. PathCall(task[t])'
    BY <2>1, <2>2 DEF PathCall
  <2> QED BY <2>1, <2>2, <2>3, PathStep
<1> QED BY <1>4, <1>5, <1>6, <1>7, <1>8

\* The rollup file names a rollup that leads back to an ancestor.
LEMMA PathRegisters ==
  ASSUME CoreInv(FALSE), PathInv, Keeps, NEW t \in Tasks, Register(t) \/ WriteRollup(t)
  PROVE  PathInv'
<1> SUFFICES ASSUME NEW c0, c0 = task[t], NEW n, n = c0.name, NEW r, r = c0.new PROVE PathInv'
  OBVIOUS
<1>1. /\ task \in [Tasks -> TaskState] /\ disk \in [Names -> Directory] /\ c0 \in TaskState
      /\ TypeInv /\ DirectoryInv /\ CallInv(FALSE, c0) /\ PathCall(c0)
  BY DEF CoreInv, TypeInv, PathInv
<1>2. c0.pc \in {"register", "write_rollup"} /\ HasLayer(c0) /\ c0.res = "none"
  BY <1>1 DEF Register, WriteRollup, HasLayer, PathCall
<1>3. n \in Names /\ Top(t).name = n
  BY <1>2, TopOf
<1>4. PathCall(c0)'
  BY <1>1, PathCallKept
<1>5. PICK pc \in {"write_rollup", "invalidate"} : task' = [task EXCEPT ![t].pc = pc]
  BY DEF Register, WriteRollup
<1>6. /\ task'[t].pc = pc /\ task'[t].res = "none" /\ task'[t].new = r /\ task'[t].name = n
      /\ \A u \in Tasks \ {t} : task'[u] = task[u]
  BY <1>1, <1>2, <1>5 DEF TaskState
<1>7. r # n => Continues(r, n)'
  BY <1>2, <1>4 DEF PathCall
<1>8. PathCall(task[t])'
  BY <1>6, <1>7 DEF PathCall
<1>9. ASSUME NEW m \in Names
      PROVE  disk'[m].rollup \in {disk[m].rollup, Empty} \/ Continues(disk[m].rollup, m)'
  <2>1. CASE Register(t)
    BY <1>1, <1>3, <2>1 DEF Register, Directory
  <2>2. CASE WriteRollup(t)
    <3>1. disk' = [disk EXCEPT ![n].rollup = r] /\ c0.pc = "write_rollup"
      BY <1>3, <2>2 DEF WriteRollup
    <3>2. disk'[n].rollup = r /\ (m # n => disk'[m] = disk[m])
      BY <1>1, <1>3, <3>1 DEF Directory
    <3>3. r # n
      BY <1>1, <1>3, <3>1 DEF CallInv, Rolled
    <3> QED BY <1>7, <3>2, <3>3
  <2> QED BY <2>1, <2>2
<1> QED BY <1>6, <1>8, <1>9, PathStep

\* The steps that build a layer keep PathInv.
LEMMA PathBuilds ==
  ASSUME CoreInv(FALSE), PathInv, Keeps, NEW t \in Tasks,
         HandOver(t) \/ CreateChild(t) \/ Commit(t) \/ Invalidate(t)
  PROVE  PathInv'
<1> SUFFICES ASSUME NEW c0, c0 = task[t] PROVE PathInv'
  OBVIOUS
<1>1. /\ task \in [Tasks -> TaskState] /\ disk \in [Names -> Directory] /\ c0 \in TaskState
      /\ TypeInv /\ CallInv(FALSE, c0) /\ PathCall(c0)
  BY DEF CoreInv, TypeInv, PathInv
<1>2. CASE HandOver(t)
  <2>1. task' = [task EXCEPT ![t] = Idle] /\ UNCHANGED disk
    BY <1>2 DEF HandOver
  <2>2. /\ task'[t].pc = "idle" /\ task'[t].res = "none"
        /\ \A u \in Tasks \ {t} : task'[u] = task[u]
    BY <1>1, <2>1 DEF Idle
  <2> QED BY <2>1, <2>2, OtherPathStep
<1>3. CASE Invalidate(t)
  <2>1. Return(t, "ok") /\ UNCHANGED disk
    BY <1>3 DEF Invalidate
  <2>2. task'[t].pc = "return" /\ \A u \in Tasks \ {t} : task'[u] = task[u]
    BY <1>1, <2>1 DEF Return, TaskState
  <2> QED BY <2>1, <2>2, OtherPathStep
<1>4. CASE CreateChild(t)
  <2> DEFINE parent == IF c0.op = "child" THEN c0.name ELSE c0.upto
             pc == IF c0.op \in {"child", "squash"} THEN "build" ELSE "roll"
  <2>1. PICK m \in Names : /\ CreateDirectory(m, parent)
                           /\ task' = [task EXCEPT ![t].new = m, ![t].pc = pc]
    BY <1>4 DEF CreateChild
  <2>2. c0.pc = "create" /\ c0.res = "none" /\ c0.op \in BuildOps \cup UptoOps
    BY <1>1, <1>4 DEF CreateChild, PathCall, CallInv
  <2>3. /\ disk'[m].parent = parent
        /\ \A k \in Names : disk'[k].rollup \in {disk[k].rollup, None}
    BY <1>1, <2>1 DEF CreateDirectory, NoDirectory
  <2>4. /\ task'[t].pc = pc /\ task'[t].res = "none" /\ task'[t].new = m /\ task'[t].op = c0.op
        /\ task'[t].upto = c0.upto /\ \A u \in Tasks \ {t} : task'[u] = task[u]
    BY <1>1, <2>1, <2>2 DEF TaskState
  <2>5. PathCall(task[t])'
    BY <2>2, <2>3, <2>4 DEF PathCall, BuildOps, UptoOps
  <2> QED BY <2>3, <2>4, <2>5, PathStep
<1>5. CASE Commit(t)
  <2> SUFFICES ASSUME NEW n, n = c0.new PROVE PathInv'
    OBVIOUS
  <2>1. /\ n \in Names /\ Finishes(n) /\ c0.pc = "build"
        /\ task' = [task EXCEPT ![t].pc = "load", ![t].name = n,
                                ![t].load = <<Plain(n)>>, ![t].layer = None]
    BY <1>5, CommitFinishes
  <2>2. /\ task'[t].res = "none" /\ task'[t].pc = "load" /\ task'[t].name = n
        /\ task'[t].load = <<Plain(n)>>
        /\ \A u \in Tasks \ {t} : task'[u] = task[u]
    BY <1>1, <2>1 DEF TaskState, PathCall
  <2>3. \A m \in Names : disk'[m].rollup = disk[m].rollup
    BY <2>1 DEF Finishes
  <2> QED BY <2>1, <2>2, <2>3, StartPath
<1> QED BY <1>2, <1>3, <1>4, <1>5

\* PathInv is inductive on top of CoreInv(FALSE).
LEMMA PathNext ==
  ASSUME CoreInv(FALSE), PathInv, [Next]_vars
  PROVE  PathInv'
<1>1. Keeps
  <2>1. RollupsFit(FALSE)
    BY DEF RollupsFit
  <2> QED BY <2>1, NextInv
<1>2. ASSUME NEW t \in Tasks, Call(t) PROVE PathInv'
  BY <1>1, <1>2, PathCalls
<1>3. ASSUME NEW t \in Tasks, Step(t) PROVE PathInv'
  BY <1>1, <1>3, PathLoads, PathRolls, PathPerforms, PathRegisters, PathBuilds DEF Step
<1>4. CASE Evict \/ Crash \/ UNCHANGED vars
  <2>1. UNCHANGED <<disk, truth>> /\ \A t \in Tasks : task'[t] \in {Idle, task[t]}
    BY <1>4 DEF Evict, Crash, vars
  <2>2. \A n \in Names : disk'[n].rollup \in Names => Continues(disk[n].rollup, n)'
    BY <2>1 DEF PathInv, Continues, Above, Closed
  <2>3. ASSUME NEW t \in Tasks PROVE PathCall(task[t])'
    <3>1. CASE task'[t] = Idle
      BY <3>1 DEF PathCall, Idle
    <3>2. CASE task'[t] = task[t]
      BY <3>2, <2>1 DEF PathInv, PathCall, Continues, Above, Closed
    <3> QED BY <2>1, <3>1, <3>2
  <2> QED BY <2>2, <2>3 DEF PathInv
<1> QED BY <1>2, <1>3, <1>4 DEF Next

\* All that a load looks at are ancestors of its layer and what stands in for them
\* leads back to ancestors (load_layer, rollup_upto), for any interleaving of loads,
\* builds, rollups of all kinds and crashes.
THEOREM PathInvariant == Spec => []PathInv
<1>1. Init => PathInv
  <2>1. Init => \A n \in Names : disk[n].rollup = None
    BY DEF Init, NoDirectory
  <2> QED BY <2>1, LayerStoreAssumption DEF Init, PathInv, PathCall, Idle
<1>2. CoreInv(FALSE) /\ PathInv /\ [Next]_vars => PathInv'
  BY PathNext
<1> QED BY <1>1, <1>2, Structure, PTL DEF Spec

\* A load of a committed layer can only fail at an ancestor whose rollup file is
\* empty, by a crash between creating and writing it or a task that has not written it
\* yet: no directory on the way is ever missing or incomplete, for all operations and
\* any interleaving of them.
THEOREM OnlyEmptyRollupsFail == Spec => FailsOnlyOnEmptyRollup
<1>1. CoreInv(FALSE) /\ PathInv /\ [Next]_vars =>
        [\A t \in Tasks :
          /\ task[t].op = "get" /\ Committed(task[t].name)
          /\ task[t].pc = "load" /\ task'[t].pc = "return" /\ task'[t].res # "none"
          => \E i \in DOMAIN Ancestry(task[t].name) :
                disk[Ancestry(task[t].name)[i]].rollup = Empty]_vars
  <2> SUFFICES ASSUME CoreInv(FALSE), PathInv, [Next]_vars, NEW t \in Tasks,
                      task[t].op = "get", Committed(task[t].name), task[t].pc = "load",
                      task'[t].pc = "return", task'[t].res # "none",
                      NEW c0, c0 = task[t], NEW n, n = c0.name
               PROVE  \E i \in DOMAIN Ancestry(n) : disk[Ancestry(n)[i]].rollup = Empty
    OBVIOUS
  <2>1. /\ task \in [Tasks -> TaskState] /\ c0 \in TaskState /\ TypeInv /\ WellFounded(Parent)
        /\ CallInv(FALSE, c0) /\ PathCall(c0) /\ c0.res = "none"
    BY DEF CoreInv, TypeInv, PathInv, PathCall
  <2>2. LoadStep(t)
    <3>1. ASSUME NEW u \in Tasks \ {t}, Call(u) \/ Step(u) PROVE task'[t] = task[t]
      BY <2>1, <3>1
         DEF Call, CallGet, CallBase, CallChild, CallSquash, CallRollup, CallRollupUpto,
         StartLoad,
             Step, HandOver, LoadStep, LoadAll, CreateChild, Commit, PerformRollup,
             PerformRollupUpto,
             RollAll, RollUpto, Register, WriteRollup, Invalidate, Return, Registers
    <3>2. ~Call(t) /\ (Step(t) => LoadStep(t))
      BY DEF Call, CallGet, CallBase, CallChild, CallSquash, CallRollup, CallRollupUpto,
         StartLoad,
             Step, HandOver, CreateChild, Commit, PerformRollup, PerformRollupUpto,
             RollAll, RollUpto, Register, WriteRollup, Invalidate
    <3>3. ~(Evict \/ Crash \/ UNCHANGED vars)
      <4>1. Evict \/ Crash \/ UNCHANGED vars => task'[t] \in {Idle, task[t]}
        BY DEF Evict, Crash, vars
      <4> QED BY <4>1 DEF Idle
    <3> QED BY <3>1, <3>2, <3>3 DEF Next
  <2>3. PathsFrom(n, c0.load) /\ n \in Names
    <3>1. LoadFits(FALSE, c0.load) /\ c0.load[1].name = n
      BY <2>1 DEF CallInv
    <3>2. c0.load \in Seq(Entry) /\ c0.load # <<>>
      BY <3>1 DEF LoadFits
    <3>3. c0.load[1] \in Entry
      BY <3>2
    <3>4. n \in Names
      BY <3>1, <3>3 DEF Entry
    <3> QED BY <2>1, <3>4 DEF PathCall, PathsFrom
  <2>4. \/ \E p : Above(p, n) /\ disk[p].rollup = Empty
        \/ \E load : task' = [task EXCEPT ![t].load = load]
        \/ \E l : LoadsTo(t, l)
    BY <2>2, <2>3, LoadPath
  <2>5. \A load : task' # [task EXCEPT ![t].load = load]
    BY <2>1 DEF TaskState
  <2>6. \A l : ~LoadsTo(t, l)
    BY <2>1 DEF LoadsTo, TaskState
  <2> QED BY <2>1, <2>3, <2>4, <2>5, <2>6, AboveIsAncestry
<1> QED BY <1>1, PathInvariant, Structure, PTL DEF Spec, FailsOnlyOnEmptyRollup
=============================================================================
