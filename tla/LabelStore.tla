----------------------------- MODULE LabelStore -----------------------------
(***************************************************************************)
(* What the LabelStore trait promises about one label: it is created       *)
(* empty, every write replaces it by its successor (the version goes up by *)
(* one), and it can be deleted.  Each of these is one indivisible step.    *)
(* MemoryLabelStore is this machine, by its RwLock; DirectoryLabelStore is *)
(* shown to implement it.                                                  *)
(***************************************************************************)
EXTENDS Labels

VARIABLE label

LabelInit == label = NoLabel

Create == label = NoLabel /\ label' = CreateLabel(label).label

Set(layer) == label # NoLabel /\ label' = SetLabelOption(label, label, layer).label

Delete == label # NoLabel /\ label' = DeleteLabel(label).label

LabelNext ==
    \/ Create
    \/ \E layer \in Layers \cup {NoLayer} : Set(layer)
    \/ Delete

LabelSpec == LabelInit /\ [][LabelNext]_label
=============================================================================
