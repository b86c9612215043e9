------------------------------- MODULE Packs -------------------------------
(***************************************************************************)
(* Packs (src/src/storage/pack.rs): layers of the store of LayerStore are  *)
(* exported and imported into another directory store, file by file.  An   *)
(* import may stop between any two steps and be tried again, and may ask   *)
(* for layers that the pack does not hold or that are there already, whole *)
(* or in part.                                                             *)
(*                                                                         *)
(* The files in a pack do not change any more once they are complete, so   *)
(* that the steps of the first store and those of imports do not depend on *)
(* each other: as a bound, the first store is at rest once an import has   *)
(* begun, whatever layers, rollups and crashes it has had before.          *)
(***************************************************************************)
EXTENDS LayerStore

\* The files of a layer, in groups that a pack has in this order: "missing" is a
\* group of which no file exists, "part" one of which some have been created and
\* not all written.  The lists of base and child layers have different names.
File == {"dictionaries", "rollup", "parent", "base_lists", "child_lists"}
NoFiles == [f \in File |-> "missing"]

VARIABLES
    files,      \* per name and file, how much of it the other store has
    other,      \* per name, whether there is a directory, and what its whole files hold
    todo,       \* the layers that the latest import has yet to come to
    at,         \* the layer it is writing, None if none
    done        \* how many files of that layer it has written

packVars == <<files, other, todo, at, done>>
allVars == <<vars, packVars>>

PackInit ==
    /\ Init
    /\ files = [n \in Names |-> NoFiles]
    /\ other = [n \in Names |-> NoDirectory]
    /\ todo = {} /\ at = None /\ done = 0

\* Mutant: the rollup file goes into the pack.
PackedFilesWithRollup(n) ==
    <<"dictionaries">> \o (IF disk[n].rollup = None THEN <<>> ELSE <<"rollup">>)
        \o (IF disk[n].parent = None THEN <<"base_lists">> ELSE <<"parent", "child_lists">>)

\* tar_append_layer: the files of the directory but the rollup file, in the order of
\* the pack
PackedFiles(n) == IF disk[n].parent = None THEN <<"dictionaries", "base_lists">>
                                           ELSE <<"dictionaries", "parent", "child_lists">>

\* Mutant: a directory that exists is emptied, as MemoryLayerStore does.
NewFilesEmptied(n) == NoFiles

\* create_named_directory of a directory store leaves the files alone that it finds.
NewFiles(n) == files[n]

\* A pack with a layer and its ancestors.  Files that are missing make the export
\* fail; what it holds does not change later, so that it may be imported at once.
\* import_layers creates a directory for every layer asked for.  An import before
\* it that has not written all its layers has stopped where it was.
StartImport ==
    /\ \A t \in Tasks : task[t].pc = "idle"
    /\ \A n \in Names : cache[n] = None
    /\ \E n \in Names : Committed(n) /\ \E ids \in SUBSET {m \in Names : Committed(m)} :
        LET pack == ToSet(Ancestry(n)) IN
        /\ \A m \in pack : disk[m].state = "done"
        /\ files' = [m \in Names |-> IF m \in ids THEN NewFiles(m) ELSE files[m]]
        /\ other' = [m \in Names |-> IF m \in ids THEN [other[m] EXCEPT !.state = "open"]
                                                  ELSE other[m]]
        /\ todo' = pack \cap ids
    /\ at' = None /\ done' = 0
    /\ UNCHANGED vars

\* The next entry is that of a layer asked for, which may be any: the caller of
\* export_layers gives the order of the pack.
NextLayer ==
    /\ at = None
    /\ \E n \in todo : at' = n /\ todo' = todo \ {n}
    /\ UNCHANGED <<vars, files, other, done>>

\* The file that the import is at.
Current == PackedFiles(at)[done + 1]

\* Mutant: open_write truncates a file that exists.
OpenFileTruncated ==
    /\ at # None
    /\ files[at][Current] # "part"
    /\ files' = [files EXCEPT ![at][Current] = "part"]
    /\ UNCHANGED <<vars, other, todo, at, done>>

\* open_write creates a file that does not exist, and does not truncate one that does.
OpenFile ==
    /\ at # None
    /\ files[at][Current] = "missing"
    /\ files' = [files EXCEPT ![at][Current] = "part"]
    /\ UNCHANGED <<vars, other, todo, at, done>>

\* What the directory holds with that file written.
Written ==
    CASE Current = "dictionaries" -> other[at]
      [] Current = "rollup" -> [other[at] EXCEPT !.rollup = disk[at].rollup]
      [] Current = "parent" -> [other[at] EXCEPT !.parent = disk[at].parent]
      [] OTHER -> [other[at] EXCEPT !.add = disk[at].add, !.rem = disk[at].rem]

\* write_all, flush and sync_all: over a file that is whole the same is written, which
\* leaves it as it is at every moment.
WriteFile ==
    /\ at # None
    /\ files[at][Current] # "missing"
    /\ files' = [files EXCEPT ![at][Current] = "whole"]
    /\ other' = [other EXCEPT ![at] = Written]
    /\ IF done + 1 = Len(PackedFiles(at)) THEN at' = None /\ done' = 0
                                          ELSE at' = at /\ done' = done + 1
    /\ UNCHANGED <<vars, todo>>

PackNext ==
    \/ (\A n \in Names : other[n].state = "absent") /\ Next /\ UNCHANGED packVars
    \/ StartImport \/ NextLayer \/ OpenFile \/ WriteFile

PackSpec == PackInit /\ [][PackNext]_allVars

-----------------------------------------------------------------------------
(***************************************************************************)
(* get_layer in the other store, as in LoadStep and LoadAll: a rollup in   *)
(* place of a layer, else the layer and its parent.  What file_exists      *)
(* finds decides which files are opened, and one that is not there or is   *)
(* cut short makes the load fail.                                          *)
(***************************************************************************)
OtherStack(n) ==
    LET load[m \in Names] ==
            IF other[m].rollup \in Names THEN load[other[m].rollup]
            ELSE <<m>> \o IF other[m].parent = None THEN <<>> ELSE load[other[m].parent]
    IN  load[n]

Readable(m) ==
    /\ other[m].state # "absent"
    /\ files[m]["rollup"] = "missing"
    /\ files[m]["dictionaries"] = "whole"
    /\ IF files[m]["parent"] = "missing"
       THEN files[m]["base_lists"] = "whole"
       ELSE files[m]["parent"] = "whole" /\ files[m]["child_lists"] = "whole"

OtherLoads(n) == \A m \in ToSet(OtherStack(n)) : Readable(m)

OtherHolds(dirs, x) ==
    \E i \in DOMAIN dirs :
        x \in other[dirs[i]].add /\ \A j \in 1..(i - 1) : x \notin other[dirs[j]].rem

\* All files that a pack has of the layer have been written.
Imported(n) == \A f \in ToSet(PackedFiles(n)) : files[n][f] = "whole"

\* A directory is that of a layer the first store has complete; what a whole file
\* holds is what the first store has; a file exists only when those before it in the
\* pack are whole; there is no rollup file.
FilesInv(n) ==
    /\ other[n].state = "absent" => files[n] = NoFiles
    /\ other[n].state # "absent" => disk[n].state = "done"
    /\ files[n]["rollup"] = "missing" /\ other[n].rollup = None
    /\ other[n].parent = IF files[n]["parent"] = "whole" THEN disk[n].parent ELSE None
    /\ files[n]["parent"] # "missing" =>
          files[n]["dictionaries"] = "whole" /\ disk[n].parent # None
    /\ files[n]["base_lists"] # "missing" =>
          files[n]["dictionaries"] = "whole" /\ disk[n].parent = None
    /\ files[n]["child_lists"] # "missing" => files[n]["parent"] = "whole"
    /\ "whole" \in {files[n]["base_lists"], files[n]["child_lists"]} =>
          other[n].add = disk[n].add /\ other[n].rem = disk[n].rem

\* At every moment of an import, and wherever imports have stopped: FilesInv holds of
\* every directory, so that one with lists has its dictionaries and parent file and is
\* never taken for a layer of the other kind; and what the import under way has passed
\* of its layer is whole.
PackInv ==
    /\ files \in [Names -> [File -> {"missing", "part", "whole"}]]
    /\ other \in [Names -> Directory]
    /\ todo \in SUBSET Names /\ at \in Names \cup {None} /\ done \in Nat
    /\ \A n \in Names : FilesInv(n)
    /\ \A n \in Names : n \in todo \/ n = at => other[n].state # "absent"
    /\ at = None => done = 0
    /\ at # None => /\ done < Len(PackedFiles(at))
                    /\ \A i \in 1..done : files[at][PackedFiles(at)[i]] = "whole"

\* The other store gives a layer exactly when it and all its ancestors have been
\* imported, by one import or several, and then with the triples that were committed,
\* whatever rollups the first store has of it: a layer that is there in part, or on
\* one that is, fails to load and is never read with less than it had.
PackedLayersReadBack ==
    \A n \in Names : Committed(n) =>
        /\ OtherLoads(n) <=> \A m \in ToSet(Ancestry(n)) : Imported(m)
        /\ OtherLoads(n) => {x \in Triples : OtherHolds(OtherStack(n), x)} = truth[n]

\* An import leaves every file alone that the other store has whole, also when it asks
\* for the layer again and stops before it has written it, or inside it.
ImportKeepsLayers ==
    [][\A n \in Names :
          /\ \A f \in File : files[n][f] = "whole" => files'[n][f] = "whole"
          /\ files[n]["parent"] = "whole" => other'[n].parent = other[n].parent
          /\ "whole" \in {files[n]["base_lists"], files[n]["child_lists"]} =>
                other'[n].add = other[n].add /\ other'[n].rem = other[n].rem]_allVars
=============================================================================
