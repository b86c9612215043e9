----------------------- MODULE MCDirectoryLabelStore -----------------------
(***************************************************************************)
(* Instances of DirectoryLabelStore.  Tasks, files and layers have no      *)
(* order and no identity of their own, so the safety runs use symmetry.    *)
(***************************************************************************)
EXTENDS DirectoryLabelStore, TLC

Symmetry == Permutations(Tasks) \cup Permutations(Inodes) \cup Permutations(Layers)
=============================================================================
