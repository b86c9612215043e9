------------------------- MODULE NamedGraph_proofs -------------------------
(***************************************************************************)
(* Proofs about NamedGraph, for every set of clients, every forest of      *)
(* layers and every bound on the versions.                                 *)
(***************************************************************************)
EXTENDS NamedGraph, TLAPS

\* Writing a label takes effect only on a label of the version that was read
\* (both backends), on the very label that was read (directory backend).
LEMMA SetLabelEffect ==
    ASSUME NEW cur \in MaybeLabel, NEW l \in Label, NEW layer \in Layers
    PROVE  LET set == SetLabelOption(cur, l, layer) IN
           /\ set.label \in MaybeLabel
           /\ cur = NoLabel => set.label = NoLabel
           /\ cur # NoLabel => set.label # NoLabel
           /\ set.label # cur =>
                /\ cur \in Label
                /\ cur.version = l.version
                /\ Backend = "directory" => cur = l
                /\ set.label = WithUpdatedLayer(l, layer)
  BY LabelsAssumption
  DEF SetLabelOption, SameLabel, WithUpdatedLayer, MaybeLabel, Label, Ok, Err

LEMMA InitIndInv == Init => IndInv
  BY LabelsAssumption, NamedGraphAssumption
  DEF Init, LabelInit, IndInv, TypeOK, CheckedOnSeen, VersionIdentifies, Earlier,
      MaybeLabel, Calls, NoCall

LEMMA NextIndInv == IndInv /\ [Next]_vars => IndInv'
<1> SUFFICES ASSUME IndInv, [Next]_vars PROVE IndInv'
  OBVIOUS
<1> USE LabelsAssumption, NamedGraphAssumption
<1>t. TypeOK /\ CheckedOnSeen /\ (~Deletes => VersionIdentifies)
  BY DEF IndInv
<1>1. ASSUME NEW c \in Clients, StoreCreate(c) PROVE IndInv'
  BY <1>t, <1>1
  DEF StoreCreate, Return, CreateLabel, NewEmpty, Ok, Err, IndInv, TypeOK, CheckedOnSeen,
      VersionIdentifies, Earlier, MaybeLabel, Label, NoCall
<1>2. ASSUME NEW c \in Clients, StoreDelete(c) PROVE IndInv'
  BY <1>t, <1>2
  DEF StoreDelete, Return, DeleteLabel, OkBool, IndInv, TypeOK, CheckedOnSeen,
      MaybeLabel, NoCall
<1>3. ASSUME NEW c \in Clients, HeadVersion(c) PROVE IndInv'
  <2>1. TypeOK'
    BY <1>t, <1>3 DEF HeadVersion, Return, GetLabel, TypeOK, MaybeLabel, NoCall
  <2>2. CheckedOnSeen'
    BY <1>t, <1>3 DEF HeadVersion, Return, TypeOK, CheckedOnSeen
  <2>3. ~Deletes => VersionIdentifies'
    BY <1>t, <1>3
    DEF HeadVersion, Return, GetLabel, TypeOK, VersionIdentifies, Earlier, MaybeLabel, Label
  <2> QED
    BY <2>1, <2>2, <2>3 DEF IndInv
<1>4. ASSUME NEW c \in Clients, NEW op \in Ops, NEW layer \in Layers, BeginSet(c, op, layer)
      PROVE  IndInv'
  <2>1. TypeOK'
    BY <1>t, <1>4 DEF BeginSet, Proceed, Return, TypeOK, MaybeLabel, Calls, NoCall
  <2>2. CheckedOnSeen'
    BY <1>t, <1>4 DEF BeginSet, Proceed, Return, Allowed, TypeOK, CheckedOnSeen, Ops, Calls, NoCall
  <2>3. ~Deletes => VersionIdentifies'
    BY <1>t, <1>4 DEF BeginSet, Proceed, Return, TypeOK, VersionIdentifies, Earlier, MaybeLabel, Label
  <2> QED
    BY <2>1, <2>2, <2>3 DEF IndInv
<1>5. ASSUME NEW c \in Clients, FinishSet(c) PROVE IndInv'
  <2> DEFINE set == SetLabelOption(label, seen[c], call[c].layer)
  <2>0. /\ pc[c] = "set" /\ label' = set.label
        /\ label \in MaybeLabel /\ seen[c] \in Label /\ call[c].layer \in Layers
    BY <1>t, <1>5 DEF FinishSet, TypeOK, Calls
  <2>1. /\ set.label \in MaybeLabel
        /\ label = NoLabel => set.label = NoLabel
        /\ label # NoLabel => set.label # NoLabel
        /\ set.label # label =>
              /\ label \in Label
              /\ label.version = seen[c].version
              /\ set.label = WithUpdatedLayer(seen[c], call[c].layer)
    BY <2>0, SetLabelEffect
  <2>2. TypeOK'
    BY <1>t, <1>5, <2>0, <2>1 DEF FinishSet, Return, TypeOK, MaybeLabel, NoCall
  <2>3. CheckedOnSeen'
    BY <1>t, <1>5 DEF FinishSet, Return, TypeOK, CheckedOnSeen, NoCall
  <2>4. ~Deletes => VersionIdentifies'
    BY <1>t, <1>5, <2>0, <2>1
    DEF FinishSet, Return, TypeOK, VersionIdentifies, Earlier, MaybeLabel, Label,
        WithUpdatedLayer
  <2> QED
    BY <2>2, <2>3, <2>4 DEF IndInv
<1>6. CASE UNCHANGED vars
  BY <1>t, <1>6 DEF vars, IndInv, TypeOK, CheckedOnSeen, VersionIdentifies, Earlier
<1> QED
  BY <1>1, <1>2, <1>3, <1>4, <1>5, <1>6 DEF Next

LEMMA IndInvHolds == Spec => []IndInv
  BY InitIndInv, NextIndInv, PTL DEF Spec

-----------------------------------------------------------------------------
\* The steps that change the label under a call, and what they change it from:
\* the one place where the comparison in set_label_option matters.
LEMMA AdvanceStep ==
    ASSUME IndInv, [Next]_vars, NEW c \in Clients, NEW op \in Ops, Advances(c, op)
    PROVE  /\ seen[c] \in Label
           /\ label.version = seen[c].version
           /\ Backend = "directory" \/ ~Deletes => label = seen[c]
           /\ label'.layer = call[c].layer
<1> USE LabelsAssumption, NamedGraphAssumption
<1>1. FinishSet(c)
  <2>1. PICK e \in Clients : \/ StoreCreate(e) \/ StoreDelete(e) \/ HeadVersion(e)
                             \/ \E o \in Ops, layer \in Layers : BeginSet(e, o, layer)
                             \/ FinishSet(e)
    BY DEF Advances, Next, vars
  <2>2. ~UNCHANGED pc /\ pc[c] = "set" /\ pc'[c] # pc[c]
    BY DEF Advances
  <2>3. e = c
    BY <2>1, <2>2
    DEF IndInv, TypeOK, StoreCreate, StoreDelete, HeadVersion, BeginSet, Proceed, FinishSet, Return
  <2> QED
    BY <2>1, <2>2, <2>3 DEF StoreCreate, StoreDelete, HeadVersion, BeginSet, Proceed
<1> DEFINE set == SetLabelOption(label, seen[c], call[c].layer)
<1>2. /\ label' = set.label /\ label' # label
      /\ label \in MaybeLabel /\ seen[c] \in Label /\ call[c].layer \in Layers
  BY <1>1 DEF Advances, FinishSet, IndInv, TypeOK, Calls
<1>3. /\ label \in Label
      /\ label.version = seen[c].version
      /\ Backend = "directory" => label = seen[c]
      /\ set.label = WithUpdatedLayer(seen[c], call[c].layer)
  BY <1>2, SetLabelEffect
<1>4. ~Deletes => label = seen[c]
  BY <1>2, <1>3 DEF IndInv, VersionIdentifies, Earlier, Label
<1> QED
  BY <1>2, <1>3, <1>4 DEF WithUpdatedLayer

\* NamedGraph: the state of every client and of the label stays well formed;
\* a call between its two halves holds a label.
THEOREM TypeCorrect == Spec => []TypeOK
<1>1. IndInv => TypeOK
  BY DEF IndInv
<1> QED
  BY <1>1, IndInvHolds, PTL

\* NamedGraph::set_head moves the head to a descendant only, on the directory
\* backend always, on the memory backend as long as no graph is deleted.
THEOREM SetHeadMovesForward ==
    ASSUME Backend = "directory" \/ ~Deletes
    PROVE  Spec => HeadMovesForward
<1>1. ASSUME IndInv, [Next]_vars, NEW c \in Clients, Advances(c, "set_head")
      PROVE  label.layer = NoLayer \/ LayerIsAncestorOf(label'.layer, label.layer)
  <2>1. label = seen[c] /\ label'.layer = call[c].layer
    BY <1>1, AdvanceStep DEF Ops
  <2> QED
    BY <1>1, <2>1 DEF IndInv, CheckedOnSeen, Advances
<1>2. IndInv /\ [Next]_vars =>
        [\A c \in Clients : Advances(c, "set_head") =>
            \/ label.layer = NoLayer
            \/ LayerIsAncestorOf(label'.layer, label.layer)]_vars
  BY <1>1
<1> QED
  BY <1>2, IndInvHolds, PTL DEF Spec, HeadMovesForward

\* NamedGraph::force_set_head_version takes effect on a label of the version
\* the client asked for only, on either backend, deletions included.
THEOREM ForceSetHeadChecksVersion == Spec => VersionIsChecked
<1>1. ASSUME IndInv, [Next]_vars, NEW c \in Clients, Advances(c, "force_set_head_version")
      PROVE  label.version = known[c].version
  <2>1. label.version = seen[c].version
    BY <1>1, AdvanceStep DEF Ops
  <2> QED
    BY <1>1, <2>1 DEF IndInv, CheckedOnSeen, Advances
<1>2. IndInv /\ [Next]_vars =>
        [\A c \in Clients : Advances(c, "force_set_head_version") =>
            label.version = known[c].version]_vars
  BY <1>1
<1> QED
  BY <1>2, IndInvHolds, PTL DEF Spec, VersionIsChecked

\* While no graph is deleted, a label that a call changes is the label the call
\* read: comparing versions is as good as comparing labels.
THEOREM NoUpdateIsLost ==
    ASSUME ~Deletes
    PROVE  Spec => NoLostUpdate
<1>1. IndInv /\ [Next]_vars =>
        [\A c \in Clients, op \in Ops : Advances(c, op) => label = seen[c]]_vars
  BY AdvanceStep
<1> QED
  BY <1>1, IndInvHolds, PTL DEF Spec, NoLostUpdate

\* While no graph is deleted, force_set_head_version replaces exactly the head
\* that head_version returned to the client.
THEOREM HeadVersionIsCompareAndSwap ==
    ASSUME ~Deletes
    PROVE  Spec => OptimisticUpdate
<1>1. ASSUME IndInv, [Next]_vars, NEW c \in Clients, Advances(c, "force_set_head_version")
      PROVE  label = known[c]
  <2>1. label.version = seen[c].version
    BY <1>1, AdvanceStep DEF Ops
  <2>2. pc[c] = "set" /\ call[c].op = "force_set_head_version"
    BY <1>1 DEF Advances
  <2>3. known[c] # NoLabel /\ label.version = known[c].version
    BY <1>1, <2>1, <2>2 DEF IndInv, CheckedOnSeen
  <2> QED
    BY <1>1, <2>3 DEF IndInv, VersionIdentifies, Earlier
<1>2. IndInv /\ [Next]_vars =>
        [\A c \in Clients : Advances(c, "force_set_head_version") => label = known[c]]_vars
  BY <1>1
<1> QED
  BY <1>2, IndInvHolds, PTL DEF Spec, OptimisticUpdate
=============================================================================
