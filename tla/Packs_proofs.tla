---------------------------- MODULE Packs_proofs ----------------------------
(***************************************************************************)
(* Imported layers: what the other store has of them is, file by file, what *)
(* the first store has, and what it has in part does not load.             *)
(***************************************************************************)
EXTENDS Packs, LayerStore_proofs

\* PackInv holds of an empty store.
LEMMA PackInitInv ==
  ASSUME PackInit
  PROVE  PackInv
<1>1. /\ files = [n \in Names |-> NoFiles] /\ other = [n \in Names |-> NoDirectory]
      /\ todo = {} /\ at = None /\ done = 0
  BY DEF PackInit
<1>2. /\ NoFiles \in [File -> {"missing", "part", "whole"}]
      /\ \A f \in File : NoFiles[f] = "missing"
  BY DEF NoFiles
<1>3. /\ NoDirectory \in Directory /\ NoDirectory.state = "absent"
      /\ NoDirectory.parent = None /\ NoDirectory.rollup = None
  BY DEF NoDirectory, Directory
<1>4. ASSUME NEW n \in Names PROVE FilesInv(n)
  <2>1. files[n] = NoFiles /\ other[n] = NoDirectory
    BY <1>1
  <2> QED BY <1>2, <1>3, <2>1 DEF FilesInv, File
<1>5. None \notin Names
  BY LayerStoreAssumption
<1> QED BY <1>1, <1>2, <1>3, <1>4, <1>5 DEF PackInv

\* The file that an import is at, after those before it in the pack.
LEMMA CurrentFile ==
  ASSUME PackInv, at # None
  PROVE  /\ at \in Names /\ Current \in File /\ done \in 0..2
         /\ done < Len(PackedFiles(at)) /\ Len(PackedFiles(at)) \in 2..3
         /\ \/ /\ disk[at].parent = None /\ Len(PackedFiles(at)) = 2
               /\ \/ done = 0 /\ Current = "dictionaries"
                  \/ done = 1 /\ Current = "base_lists"
            \/ /\ disk[at].parent # None /\ Len(PackedFiles(at)) = 3
               /\ \/ done = 0 /\ Current = "dictionaries"
                  \/ done = 1 /\ Current = "parent"
                  \/ done = 2 /\ Current = "child_lists"
         /\ Current # "dictionaries" => files[at]["dictionaries"] = "whole"
         /\ Current = "child_lists" => files[at]["parent"] = "whole"
<1>1. at \in Names /\ done \in Nat /\ done < Len(PackedFiles(at))
  BY DEF PackInv
<1>2. \A i \in 1..done : files[at][PackedFiles(at)[i]] = "whole"
  BY DEF PackInv
<1>3. CASE disk[at].parent = None
  <2>1. PackedFiles(at) = <<"dictionaries", "base_lists">>
    BY <1>3 DEF PackedFiles
  <2>2. done \in {0, 1} /\ Len(PackedFiles(at)) = 2
    BY <1>1, <2>1
  <2> QED BY <1>1, <1>2, <1>3, <2>1, <2>2 DEF Current, File
<1>4. CASE disk[at].parent # None
  <2>1. PackedFiles(at) = <<"dictionaries", "parent", "child_lists">>
    BY <1>4 DEF PackedFiles
  <2>2. done \in {0, 1, 2}
    BY <1>1, <2>1
  <2>3. CASE done = 0
    BY <1>1, <1>4, <2>1, <2>3 DEF Current, File
  <2>4. CASE done = 1
    <3>1. files[at]["dictionaries"] = "whole"
      BY <1>2, <2>1, <2>4
    <3> QED BY <1>1, <1>4, <2>1, <2>4, <3>1 DEF Current, File
  <2>5. CASE done = 2
    <3>1. files[at]["dictionaries"] = "whole" /\ files[at]["parent"] = "whole"
      BY <1>2, <2>1, <2>5
    <3> QED BY <1>1, <1>4, <2>1, <2>5, <3>1 DEF Current, File
  <2> QED BY <2>2, <2>3, <2>4, <2>5
<1> QED BY <1>3, <1>4

\* What no step may change of the other store.
Kept(n) ==
    /\ \A f \in File : files[n][f] = "whole" => files'[n][f] = "whole"
    /\ files[n]["parent"] = "whole" => other'[n].parent = other[n].parent
    /\ "whole" \in {files[n]["base_lists"], files[n]["child_lists"]} =>
          other'[n].add = other[n].add /\ other'[n].rem = other[n].rem

\* PackInv while the first store moves, before any import.
LEMMA FirstStoreStep ==
  ASSUME PackInv, \A n \in Names : other[n].state = "absent", UNCHANGED packVars
  PROVE  PackInv' /\ \A n \in Names : Kept(n)
<1>1. UNCHANGED <<files, other, todo, at, done>>
  BY DEF packVars
<1>2. todo = {} /\ at = None
  BY DEF PackInv
<1>3. ASSUME NEW n \in Names PROVE FilesInv(n)'
  <2>1. files[n] = NoFiles /\ FilesInv(n)
    BY DEF PackInv, FilesInv
  <2>2. \A f \in File : files[n][f] = "missing"
    BY <2>1 DEF NoFiles
  <2> QED BY <1>1, <2>1, <2>2 DEF FilesInv, File
<1>4. \A n \in Names : Kept(n)
  BY <1>1 DEF Kept
<1> QED BY <1>1, <1>2, <1>3, <1>4 DEF PackInv

\* PackInv when an import starts.
LEMMA StartImportStep ==
  ASSUME PackInv, CoreInv(FALSE), StartImport
  PROVE  PackInv' /\ \A n \in Names : Kept(n)
<1>1. PICK pack \in SUBSET Names, ids \in SUBSET Names :
        /\ \A m \in ids : Committed(m)
        /\ files' = [m \in Names |-> IF m \in ids THEN NewFiles(m) ELSE files[m]]
        /\ other' = [m \in Names |-> IF m \in ids THEN [other[m] EXCEPT !.state = "open"]
                                                  ELSE other[m]]
        /\ todo' = pack \cap ids
  <2>1. PICK n \in Names, ids \in SUBSET {m \in Names : Committed(m)} :
        /\ files' = [m \in Names |-> IF m \in ids THEN NewFiles(m) ELSE files[m]]
        /\ other' = [m \in Names |-> IF m \in ids THEN [other[m] EXCEPT !.state = "open"]
                                                  ELSE other[m]]
        /\ todo' = ToSet(Ancestry(n)) \cap ids
    BY DEF StartImport
  <2>2. ToSet(Ancestry(n)) \cap ids = (ToSet(Ancestry(n)) \cap Names) \cap ids
    OBVIOUS
  <2> HIDE DEF ToSet
  <2> QED BY <2>1, <2>2
<1>2. at' = None /\ done' = 0 /\ UNCHANGED disk
  BY DEF StartImport, vars
<1>3. files' = files
  <2>1. files' = [m \in Names |-> files[m]]
    BY <1>1 DEF NewFiles
  <2> QED BY <2>1 DEF PackInv
<1>4. other \in [Names -> Directory] /\ \A m \in Names : FilesInv(m)
  BY DEF PackInv
<1>5. ASSUME NEW m \in Names
      PROVE  /\ other'[m] \in Directory
             /\ other'[m].state = IF m \in ids THEN "open" ELSE other[m].state
             /\ other'[m].parent = other[m].parent /\ other'[m].rollup = other[m].rollup
             /\ other'[m].add = other[m].add /\ other'[m].rem = other[m].rem
  BY <1>1, <1>4 DEF Directory
<1>6. other' \in [Names -> Directory]
  BY <1>1, <1>5
<1>7. ASSUME NEW m \in Names PROVE FilesInv(m)'
  <2>1. m \in ids => disk[m].state = "done"
    BY <1>1 DEF CoreInv, DirectoryInv
  <2> QED BY <1>2, <1>3, <1>4, <1>5, <2>1 DEF FilesInv
<1>8. \A m \in Names : Kept(m)
  BY <1>3, <1>5 DEF Kept
<1>9. \A m \in Names : m \in todo' \/ m = at' => other'[m].state # "absent"
  BY <1>1, <1>2, <1>5, LayerStoreAssumption
<1> QED BY <1>1, <1>2, <1>3, <1>6, <1>7, <1>8, <1>9 DEF PackInv

\* PackInv when an import comes to its next layer.
LEMMA NextLayerStep ==
  ASSUME PackInv, NextLayer
  PROVE  PackInv' /\ \A n \in Names : Kept(n)
<1>1. PICK n \in todo : at = None /\ at' = n /\ todo' = todo \ {n}
  BY DEF NextLayer
<1>2. UNCHANGED <<disk, files, other, done>>
  BY DEF NextLayer, vars
<1>3. n \in Names /\ n # None /\ done = 0
  BY <1>1, LayerStoreAssumption DEF PackInv
<1>4. Len(PackedFiles(n)) \in {2, 3} /\ PackedFiles(n)' = PackedFiles(n)
  BY <1>2 DEF PackedFiles
<1>5. \A m \in Names : FilesInv(m)' /\ Kept(m)
  BY <1>2 DEF PackInv, FilesInv, Kept
<1>6. \A m \in Names : m \in todo' \/ m = at' => other'[m].state # "absent"
  BY <1>1, <1>2 DEF PackInv
<1>7. done' < Len(PackedFiles(at))' /\ \A i \in 1..done' : FALSE
  BY <1>1, <1>2, <1>3, <1>4 DEF PackedFiles
<1> QED BY <1>1, <1>2, <1>3, <1>5, <1>6, <1>7 DEF PackInv

\* PackInv when an import creates a file.
LEMMA OpenFileStep ==
  ASSUME PackInv, OpenFile
  PROVE  PackInv' /\ \A n \in Names : Kept(n)
<1>1. /\ at # None /\ files[at][Current] = "missing"
      /\ files' = [files EXCEPT ![at][Current] = "part"]
      /\ UNCHANGED <<disk, other, todo, at, done>>
  BY DEF OpenFile, vars
<1>2. /\ at \in Names /\ Current \in File
      /\ files \in [Names -> [File -> {"missing", "part", "whole"}]]
  BY <1>1, CurrentFile DEF PackInv
<1>3. /\ files' \in [Names -> [File -> {"missing", "part", "whole"}]]
      /\ \A m \in Names, f \in File :
            files'[m][f] = IF m = at /\ f = Current THEN "part" ELSE files[m][f]
  BY <1>1, <1>2
<1>4. ASSUME NEW m \in Names, m # at PROVE FilesInv(m)'
  <2>1. files'[m] = files[m]
    BY <1>1, <1>2, <1>4
  <2> QED BY <1>1, <2>1 DEF PackInv, FilesInv
<1>5. FilesInv(at)'
  <2>1. FilesInv(at) /\ other[at].state # "absent"
    BY <1>2 DEF PackInv
  <2> DEFINE c == Current
  <2>2. \A f \in File : files'[at][f] = IF f = c THEN "part" ELSE files[at][f]
    BY <1>2, <1>3
  <2>3. /\ c \in {"dictionaries", "parent", "base_lists", "child_lists"}
        /\ c = "base_lists" => disk[at].parent = None
        /\ c = "parent" => disk[at].parent # None
        /\ c # "dictionaries" => files[at]["dictionaries"] = "whole"
        /\ c = "child_lists" => files[at]["parent"] = "whole"
        /\ files[at][c] = "missing"
    BY <1>1, CurrentFile
  <2> HIDE DEF c
  <2>4. UNCHANGED <<disk, other, at>>
    BY <1>1
  <2> QED BY <2>1, <2>2, <2>3, <2>4 DEF FilesInv, File
<1>6. \A m \in Names : Kept(m)
  BY <1>1, <1>2, <1>3 DEF Kept
<1>7. \A i \in 1..done' : (files[at][PackedFiles(at)[i]])' = "whole"
  <2> SUFFICES ASSUME NEW i \in 1..done
               PROVE  files'[at][PackedFiles(at)[i]] = "whole"
    BY <1>1 DEF PackedFiles
  <2>1. files[at][PackedFiles(at)[i]] = "whole" /\ PackedFiles(at)[i] \in File
    <3>1. i \in {1, 2} /\ i <= Len(PackedFiles(at))
      <4>1. at # None
        BY <1>1
      <4>2. done < Len(PackedFiles(at)) /\ Len(PackedFiles(at)) \in 2..3 /\ done \in 0..2
        BY <4>1, CurrentFile
      <4> QED BY <4>2
    <3>2. PackedFiles(at)[i] \in File
      BY <3>1 DEF PackedFiles, File
    <3> QED BY <1>1, <3>2 DEF PackInv
  <2> QED BY <1>1, <1>2, <1>3, <2>1
<1>8. (done < Len(PackedFiles(at)))'
  BY <1>1 DEF PackInv, PackedFiles
<1> QED BY <1>1, <1>3, <1>4, <1>5, <1>6, <1>7, <1>8 DEF PackInv

\* PackInv when an import writes a file.
LEMMA WriteFileStep ==
  ASSUME PackInv, CoreInv(FALSE), WriteFile
  PROVE  PackInv' /\ \A n \in Names : Kept(n)
<1>1. /\ at # None /\ files[at][Current] # "missing"
      /\ files' = [files EXCEPT ![at][Current] = "whole"]
      /\ other' = [other EXCEPT ![at] = Written]
      /\ IF done + 1 = Len(PackedFiles(at)) THEN at' = None /\ done' = 0
                                            ELSE at' = at /\ done' = done + 1
      /\ UNCHANGED <<disk, todo>>
  BY DEF WriteFile, vars
<1>2. /\ at \in Names /\ Current \in File /\ done \in 0..2
      /\ files \in [Names -> [File -> {"missing", "part", "whole"}]]
      /\ other \in [Names -> Directory] /\ other[at] \in Directory /\ disk[at] \in Directory
  BY <1>1, CurrentFile DEF PackInv, CoreInv, TypeInv
<1>3. /\ files' \in [Names -> [File -> {"missing", "part", "whole"}]]
      /\ \A m \in Names, f \in File :
            files'[m][f] = IF m = at /\ f = Current THEN "whole" ELSE files[m][f]
  BY <1>1, <1>2
<1> DEFINE c == Current
<1>4. /\ c \in {"dictionaries", "parent", "base_lists", "child_lists"}
      /\ c = "base_lists" => disk[at].parent = None
      /\ c \in {"parent", "child_lists"} => disk[at].parent # None
      /\ c # "dictionaries" => files[at]["dictionaries"] = "whole"
      /\ c = "child_lists" => files[at]["parent"] = "whole"
      /\ files[at][c] # "missing"
  BY <1>1, CurrentFile
<1>5. /\ Written \in Directory /\ Written.state = other[at].state
      /\ Written.rollup = other[at].rollup
      /\ Written.parent = IF c = "parent" THEN disk[at].parent ELSE other[at].parent
      /\ Written.add = IF c \in {"base_lists", "child_lists"} THEN disk[at].add
                                                              ELSE other[at].add
      /\ Written.rem = IF c \in {"base_lists", "child_lists"} THEN disk[at].rem
                                                              ELSE other[at].rem
  <2>1. CASE c = "dictionaries"
    BY <1>2, <2>1 DEF Written
  <2>2. CASE c = "parent"
    <3>1. Written = [other[at] EXCEPT !.parent = disk[at].parent]
      BY <2>2 DEF Written
    <3> QED BY <1>2, <2>2, <3>1 DEF Directory
  <2>3. CASE c \in {"base_lists", "child_lists"}
    <3>1. Written = [other[at] EXCEPT !.add = disk[at].add, !.rem = disk[at].rem]
      BY <2>3 DEF Written
    <3> QED BY <1>2, <2>3, <3>1 DEF Directory
  <2> QED BY <1>4, <2>1, <2>2, <2>3
<1>6. /\ other' \in [Names -> Directory] /\ other'[at] = Written
      /\ \A m \in Names : m # at => other'[m] = other[m]
      /\ \A m \in Names : other'[m].state = other[m].state
  BY <1>1, <1>2, <1>5
<1>7. ASSUME NEW m \in Names, m # at PROVE FilesInv(m)' /\ Kept(m)
  <2>1. files'[m] = files[m] /\ other'[m] = other[m] /\ disk'[m] = disk[m]
    BY <1>1, <1>2, <1>6, <1>7
  <2> QED BY <2>1 DEF PackInv, FilesInv, Kept
<1>8. \A f \in File : files'[at][f] = IF f = c THEN "whole" ELSE files[at][f]
  BY <1>2, <1>3
<1>9. FilesInv(at) /\ other[at].state # "absent" /\ disk'[at] = disk[at]
  BY <1>1, <1>2 DEF PackInv
<1> HIDE DEF c
<1>10. ASSUME NEW m \in Names, m = at PROVE FilesInv(m)' /\ Kept(m)
  <2>1. FilesInv(m)'
    BY <1>4, <1>5, <1>6, <1>8, <1>9, <1>10 DEF FilesInv, File
  <2>2. Kept(m)
    BY <1>4, <1>5, <1>6, <1>8, <1>9, <1>10 DEF FilesInv, Kept, File
  <2> QED BY <2>1, <2>2
<1>11. \A m \in Names : m \in todo' \/ m = at' => other'[m].state # "absent"
  BY <1>1, <1>6, LayerStoreAssumption DEF PackInv
<1>12. /\ at' \in Names \cup {None} /\ done' \in Nat /\ (at' = None => done' = 0)
       /\ at' # None => /\ (done < Len(PackedFiles(at)))'
                        /\ \A i \in 1..done' : (files[at][PackedFiles(at)[i]])' = "whole"
  <2>1. CASE done + 1 = Len(PackedFiles(at))
    BY <1>1, <2>1
  <2>2. CASE done + 1 # Len(PackedFiles(at))
    <3>1. at' = at /\ done' = done + 1 /\ at # None /\ PackedFiles(at)' = PackedFiles(at)
      BY <1>1, <2>2 DEF PackedFiles
    <3>2. /\ done + 1 < Len(PackedFiles(at)) /\ Len(PackedFiles(at)) \in 2..3
          /\ done \in 0..2
      <4>1. /\ done < Len(PackedFiles(at)) /\ Len(PackedFiles(at)) \in 2..3
            /\ done \in 0..2
        BY <3>1, CurrentFile
      <4> QED BY <2>2, <4>1
    <3>3. ASSUME NEW i \in 1..(done + 1) PROVE files'[at][PackedFiles(at)[i]] = "whole"
      <4>1. i \in {1, 2} /\ i <= Len(PackedFiles(at))
        <5>1. PICK k \in 2..3 : k = Len(PackedFiles(at)) /\ done + 1 < k
          BY <3>2
        <5>2. done \in 0..2
          BY <3>2
        <5>3. i \in {1, 2} /\ i <= k
          BY <5>1, <5>2
        <5> QED BY <5>1, <5>3
      <4>2. PackedFiles(at)[i] \in File
        BY <4>1 DEF PackedFiles, File
      <4>3. CASE i = done + 1
        BY <1>2, <1>3, <4>2, <4>3 DEF Current
      <4>4. CASE i # done + 1
        <5>1. i \in 1..done
          BY <1>2, <4>4
        <5>2. files[at][PackedFiles(at)[i]] = "whole"
          BY <1>1, <5>1 DEF PackInv
        <5> QED BY <1>2, <1>3, <4>2, <5>2
      <4> QED BY <4>3, <4>4
    <3> QED BY <1>2, <3>1, <3>2, <3>3
  <2> QED BY <2>1, <2>2
<1>13. \A m \in Names : FilesInv(m)' /\ Kept(m)
  BY <1>7, <1>10
<1>14. todo' \in SUBSET Names
  BY <1>1 DEF PackInv
<1> QED BY <1>3, <1>6, <1>11, <1>12, <1>13, <1>14 DEF PackInv

\* PackInv is inductive, and no step touches what is whole in the other store.
LEMMA PackStep ==
  ASSUME PackInv, CoreInv(FALSE), [PackNext]_allVars
  PROVE  PackInv' /\ \A n \in Names : Kept(n)
<1>1. CASE (\A n \in Names : other[n].state = "absent") /\ UNCHANGED packVars
  BY <1>1, FirstStoreStep
<1>2. CASE UNCHANGED allVars
  <2>1. UNCHANGED <<disk, files, other, todo, at, done>>
    BY <1>2 DEF allVars, vars, packVars
  <2> QED BY <2>1 DEF PackInv, FilesInv, PackedFiles, Kept
<1>3. CASE StartImport
  BY <1>3, StartImportStep
<1>4. CASE NextLayer
  BY <1>4, NextLayerStep
<1>5. CASE OpenFile
  BY <1>5, OpenFileStep
<1>6. CASE WriteFile
  BY <1>6, WriteFileStep
<1> QED BY <1>1, <1>2, <1>3, <1>4, <1>5, <1>6 DEF PackNext

\* A directory is readable when all the files that a pack has of it are whole, and
\* then leads to the parent it has in the first store.
LEMMA ReadableImported ==
  ASSUME PackInv, disk \in [Names -> Directory], NEW m \in Names
  PROVE  /\ Readable(m) <=> Imported(m)
         /\ Imported(m) => /\ other[m].parent = disk[m].parent
                           /\ other[m].add = disk[m].add /\ other[m].rem = disk[m].rem
<1>1. FilesInv(m) /\ files[m] \in [File -> {"missing", "part", "whole"}]
  BY DEF PackInv
<1>2. other[m].state = "absent" => \A f \in File : files[m][f] = "missing"
  BY <1>1 DEF FilesInv, NoFiles
<1>3. CASE disk[m].parent = None
  <2>1. Imported(m) <=> files[m]["dictionaries"] = "whole" /\ files[m]["base_lists"] = "whole"
    <3>1. ToSet(PackedFiles(m)) = {"dictionaries", "base_lists"}
      BY <1>3 DEF PackedFiles, ToSet
    <3> HIDE DEF ToSet
    <3> QED BY <3>1 DEF Imported
  <2> QED BY <1>1, <1>2, <1>3, <2>1 DEF FilesInv, Readable, File
<1>4. CASE disk[m].parent # None
  <2>1. Imported(m) <=> /\ files[m]["dictionaries"] = "whole" /\ files[m]["parent"] = "whole"
                        /\ files[m]["child_lists"] = "whole"
    <3>1. ToSet(PackedFiles(m)) = {"dictionaries", "parent", "child_lists"}
      BY <1>4 DEF PackedFiles, ToSet
    <3> HIDE DEF ToSet
    <3> QED BY <3>1 DEF Imported
  <2> QED BY <1>1, <1>2, <1>4, <2>1 DEF FilesInv, Readable, File
<1> QED BY <1>3, <1>4

\* The other store gives what was imported with all its ancestors, and nothing else,
\* with the triples that were committed.
LEMMA PackReads ==
  ASSUME PackInv, CoreInv(TRUE)
  PROVE  PackedLayersReadBack
<1>1. disk \in [Names -> Directory] /\ WellFounded(Parent) /\ ValuesFit(TRUE)
  BY DEF CoreInv, TypeInv
<1>2. None \notin Names
  BY LayerStoreAssumption
<1> SUFFICES ASSUME NEW n \in Names, Committed(n)
             PROVE  /\ OtherLoads(n) <=> \A m \in ToSet(Ancestry(n)) : Imported(m)
                    /\ OtherLoads(n) => {x \in Triples : OtherHolds(OtherStack(n), x)} = truth[n]
  BY DEF PackedLayersReadBack
<1>3. \A m \in Names : other[m].rollup = None /\ other[m].parent \in {None, disk[m].parent}
  BY DEF PackInv, FilesInv
<1> DEFINE par == [m \in Names |-> other[m].parent]
<1>4. par \in [Names -> Names \cup {None}] /\ WellFounded(par)
  <2>1. \A m \in Names : par[m] \in {None, Parent[m]} /\ par[m] \in Names \cup {None}
    BY <1>1, <1>3 DEF Parent, Directory
  <2>2. ASSUME NEW S \in SUBSET Names, S # {} PROVE \E m \in S : par[m] \notin S
    <3>1. PICK m \in S : Parent[m] \notin S
      BY <1>1, <2>2 DEF WellFounded
    <3> HIDE DEF par
    <3> QED BY <3>1, <2>1, <1>2
  <2> HIDE DEF par
  <2>3. WellFounded(par)
    BY <2>2 DEF WellFounded
  <2> QED BY <2>1, <2>3 DEF par
<1> DEFINE IsLoad(g) == g = [m \in Names |->
              IF other[m].rollup \in Names THEN g[other[m].rollup]
              ELSE <<m>> \o IF other[m].parent = None THEN <<>> ELSE g[other[m].parent]]
           f == CHOOSE g : IsLoad(g)
<1>5. OtherStack(n) = f[n]
  BY DEF OtherStack
<1>6. PICK b : b = [m \in Names |-> <<m>> \o IF par[m] = None THEN <<>> ELSE b[par[m]]]
  <2> HIDE DEF par
  <2> QED BY <1>2, <1>4, AncestryExists
<1>7. IsLoad(b)
  <2>1. \A m \in Names :
          b[m] = <<m>> \o IF other[m].parent = None THEN <<>> ELSE b[other[m].parent]
    BY <1>6
  <2>2. \A m \in Names : b[m] = IF other[m].rollup \in Names THEN b[other[m].rollup]
              ELSE <<m>> \o IF other[m].parent = None THEN <<>> ELSE b[other[m].parent]
    BY <2>1, <1>2, <1>3
  <2>3. b = [m \in Names |-> b[m]]
    BY <1>6
  <2> QED BY <2>2, <2>3
<1>8. IsLoad(f)
  BY <1>7
<1> HIDE DEF f
<1>9. \A m \in Names : f[m] = <<m>> \o IF par[m] = None THEN <<>> ELSE f[par[m]]
  <2>1. \A m \in Names : f[m] = IF other[m].rollup \in Names THEN f[other[m].rollup]
              ELSE <<m>> \o IF other[m].parent = None THEN <<>> ELSE f[other[m].parent]
    BY <1>8
  <2>2. \A m \in Names :
          f[m] = <<m>> \o IF other[m].parent = None THEN <<>> ELSE f[other[m].parent]
    BY <2>1, <1>2, <1>3
  <2> QED BY <2>2
<1> HIDE DEF IsLoad
<1>10. IsChain(par, n, f[n])
  <2> HIDE DEF par
  <2> QED BY <1>2, <1>4, <1>9, AncestryIsChain
<1> SUFFICES ASSUME NEW a, a = Ancestry(n), NEW s, s = f[n]
             PROVE  /\ (\A m \in ToSet(s) : Readable(m)) <=> \A m \in ToSet(a) : Imported(m)
                    /\ (\A m \in ToSet(s) : Readable(m)) =>
                          {x \in Triples : OtherHolds(s, x)} = truth[n]
  BY <1>5 DEF OtherLoads
<1>11. a \in Seq(Names) /\ IsChain(Parent, n, a)
  BY <1>1, <1>2, AncestryDef
<1>12. s \in Seq(Names) /\ IsChain(par, n, s)
  BY <1>10 DEF IsChain
<1>13. Parent \in [Names -> Names \cup {None}]
  BY <1>1 DEF Parent, Directory
<1>14. \A m \in Names : Imported(m) => par[m] = Parent[m]
  BY <1>1, ReadableImported DEF Parent
<1>15. \A m \in Names : Readable(m) <=> Imported(m)
  BY <1>1, ReadableImported
<1>16. ASSUME \A m \in ToSet(s) : Readable(m) PROVE s = a
  <2>1. \A i \in 1..Len(s) : par[s[i]] = Parent[s[i]]
    <3> SUFFICES ASSUME NEW i \in 1..Len(s) PROVE par[s[i]] = Parent[s[i]]
      OBVIOUS
    <3>1. s[i] \in ToSet(s) /\ s[i] \in Names
      BY <1>12 DEF ToSet
    <3> HIDE DEF par, ToSet
    <3> QED BY <3>1, <1>14, <1>15, <1>16
  <2> HIDE DEF par
  <2>2. IsChain(Parent, n, s)
    BY <2>1, <1>12 DEF IsChain
  <2> QED BY <2>2, <1>2, <1>11, <1>13, ChainUnique
<1>17. ASSUME \A m \in ToSet(a) : Imported(m) PROVE s = a
  <2>1. \A i \in 1..Len(a) : par[a[i]] = Parent[a[i]]
    <3> SUFFICES ASSUME NEW i \in 1..Len(a) PROVE par[a[i]] = Parent[a[i]]
      OBVIOUS
    <3>1. a[i] \in ToSet(a) /\ a[i] \in Names
      BY <1>11 DEF ToSet
    <3> HIDE DEF par, ToSet
    <3> QED BY <3>1, <1>14, <1>17
  <2> HIDE DEF par
  <2>2. IsChain(par, n, a)
    BY <2>1, <1>11 DEF IsChain
  <2> QED BY <2>2, <1>2, <1>4, <1>12, ChainUnique
<1>18. (\A m \in ToSet(s) : Readable(m)) <=> \A m \in ToSet(a) : Imported(m)
  <2>1. \A m \in ToSet(a) : m \in Names
    BY <1>11 DEF ToSet
  <2> HIDE DEF ToSet, par
  <2> QED BY <1>15, <1>16, <1>17, <2>1
<1>19. ASSUME \A m \in ToSet(s) : Readable(m) PROVE {x \in Triples : OtherHolds(s, x)} = truth[n]
  <2>1. s = a /\ \A m \in ToSet(a) : Imported(m)
    BY <1>16, <1>18, <1>19
  <2>2. ASSUME NEW i \in DOMAIN a
        PROVE  other[a[i]].add = disk[a[i]].add /\ other[a[i]].rem = disk[a[i]].rem
    <3>1. a[i] \in Names /\ a[i] \in ToSet(a)
      BY <1>11, <2>2 DEF ToSet
    <3> HIDE DEF ToSet
    <3> QED BY <1>1, <2>1, <3>1, ReadableImported
  <2>3. \A x : OtherHolds(a, x) <=> HoldsIn(other, a, x)
    BY DEF OtherHolds, HoldsIn
  <2>4. \A x : HoldsIn(other, a, x) <=> HoldsIn(disk, a, x)
    BY <1>11, <2>2, HoldsSame
  <2>5. StoredContent(n) = {x \in Triples : HoldsIn(disk, a, x)}
    BY DEF StoredContent, Holds, HoldsIn
  <2>6. StoredContent(n) = truth[n]
    BY <1>1, StoredValue DEF ValuesFit
  <2> QED BY <2>1, <2>3, <2>4, <2>5, <2>6
<1> QED BY <1>18, <1>19

-----------------------------------------------------------------------------

\* Exports and imports are no steps of the first store: PackSpec implements Spec, so
\* that all that is proved of the store holds with packs too.
THEOREM PacksKeepStore == PackSpec => Spec
<1>1. PackInit => Init
  BY DEF PackInit
<1>2. [PackNext]_allVars => [Next]_vars
  BY DEF PackNext, StartImport, NextLayer, OpenFile, WriteFile, allVars
<1> QED BY <1>1, <1>2, PTL DEF PackSpec, Spec

\* At every moment of import_layers and wherever imports stopped, inside a layer or
\* between two: what the other store has whole is what the first store has, files are
\* there in the order of the pack, so that a directory with lists has its parent file,
\* and no directory has a rollup file, however imports overlap.
THEOREM PackInvariant == PackSpec => []PackInv
<1>1. PackInit => PackInv
  BY PackInitInv
<1>2. PackInv /\ CoreInv(FALSE) /\ [PackNext]_allVars => PackInv'
  BY PackStep
<1> QED BY <1>1, <1>2, PacksKeepStore, Structure, PTL DEF PackSpec

\* import_layers leaves alone every file that the other store has whole, however often
\* an import is repeated or stops part-way.
THEOREM ImportsKeepLayers == PackSpec => ImportKeepsLayers
<1>1. PackInv /\ CoreInv(FALSE) /\ [PackNext]_allVars => [\A n \in Names : Kept(n)]_allVars
  BY PackStep
<1>2. PackSpec => [][\A n \in Names : Kept(n)]_allVars
  BY <1>1, PackInvariant, PacksKeepStore, Structure, PTL DEF PackSpec
<1> QED BY <1>2 DEF Kept, ImportKeepsLayers

\* The other store gives exactly the layers that were imported with all their
\* ancestors, by one import or several, each with the triples that were committed, as
\* long as the rollups of the first store are equivalent.
THEOREM PacksFollowRollups == PackSpec /\ []RollupsAreEquivalent => []PackedLayersReadBack
<1>1. Spec /\ []RollupsAreEquivalent => []CoreInv(TRUE)
  BY ContentInvariant
<1>2. PackInv /\ CoreInv(TRUE) => PackedLayersReadBack
  BY PackReads
<1> QED BY <1>1, <1>2, PackInvariant, PacksKeepStore, PTL

\* The same without that condition when all rollups are made by rollup.
THEOREM PackedLayersReadBackAlways ==
  ASSUME Ops \cap UptoOps = {}
  PROVE  PackSpec => []PackedLayersReadBack
BY RollupsEquivalent, PacksFollowRollups, PacksKeepStore, PTL
=============================================================================
