------------------------------- MODULE Labels -------------------------------
(***************************************************************************)
(* The label of a named graph (src/src/storage/label.rs) and the           *)
(* operations of the LabelStore trait as sequential operations on one      *)
(* label, the way MemoryLabelStore performs them under its write lock and  *)
(* DirectoryLabelStore means to perform them under its file lock.          *)
(*                                                                         *)
(* A store keeps one label per name and no operation touches two of them,  *)
(* so one label stands for the store and the name is left out.             *)
(***************************************************************************)
EXTENDS Naturals

CONSTANTS
    Layers,       \* layer names, [u32; 5] in the code
    NoLayer,      \* None in Label::layer
    NoLabel,      \* there is no label of this name
    Backend       \* which implementation compares labels in set_label_option

ASSUME LabelsAssumption ==
    /\ NoLayer \notin Layers
    /\ NoLabel \notin [layer : Layers \cup {NoLayer}, version : Nat]
    /\ Backend \in {"memory", "directory"}

Label == [layer : Layers \cup {NoLayer}, version : Nat]
MaybeLabel == Label \cup {NoLabel}

\* Label::new_empty
NewEmpty == [layer |-> NoLayer, version |-> 0]

\* Mutant: the version stays.
WithSameVersion(l, layer) == [layer |-> layer, version |-> l.version]

\* Label::with_updated_layer (version is a u64: one increment per write, it
\* does not wrap in the life of a store)
WithUpdatedLayer(l, layer) == [layer |-> layer, version |-> l.version + 1]

(***************************************************************************)
(* What a call returns: Ok with a label (or None), Ok with a boolean, Err  *)
(* because the label is or is not there, Err(InvalidData) because the file *)
(* of the label did not parse.                                             *)
(***************************************************************************)
Ok(maybe) == [status |-> "ok", label |-> maybe]
OkBool(b) == [status |-> IF b THEN "true" ELSE "false", label |-> NoLabel]
Err == [status |-> "err", label |-> NoLabel]
InvalidData == [status |-> "invalid_data", label |-> NoLabel]

Result == [status : {"ok", "true", "false", "err", "invalid_data"}, label : MaybeLabel]

(***************************************************************************)
(* Each operation takes the current label (NoLabel when there is none) and *)
(* yields the label after it and the result.                               *)
(***************************************************************************)
CreateLabel(cur) ==
    IF cur = NoLabel THEN [label |-> NewEmpty, res |-> Ok(NewEmpty)]
                     ELSE [label |-> cur, res |-> Err]

GetLabel(cur) == [label |-> cur, res |-> Ok(cur)]

\* Mutant: set_label without the comparison.
AnyLabel(cur, l) == TRUE

\* MemoryLabelStore compares versions only, DirectoryLabelStore whole labels.
SameLabel(cur, l) ==
    IF Backend = "memory" THEN cur.version + 1 = l.version + 1 ELSE cur = l

SetLabelOption(cur, l, layer) ==
    IF cur = NoLabel THEN [label |-> cur, res |-> Err]
    ELSE IF SameLabel(cur, l)
         THEN [label |-> WithUpdatedLayer(l, layer), res |-> Ok(WithUpdatedLayer(l, layer))]
         ELSE [label |-> cur, res |-> Ok(NoLabel)]

DeleteLabel(cur) == [label |-> NoLabel, res |-> OkBool(cur # NoLabel)]
=============================================================================
