----------------------------- MODULE NamedGraph -----------------------------
(***************************************************************************)
(* Clients that create, read, advance and delete one named graph           *)
(* (src/src/store/mod.rs, NamedGraph and Store) over a label store whose   *)
(* operations are indivisible.                                             *)
(*                                                                         *)
(* set_head, force_set_head and force_set_head_version read the label,     *)
(* decide, and write it in a later step: between the two awaits other      *)
(* clients run.  Layers are immutable once committed and a rollup keeps    *)
(* the parent of its layer, so what layer_is_ancestor_of answers does not  *)
(* depend on when it is asked and it is part of the reading step.          *)
(***************************************************************************)
EXTENDS LabelStore

CONSTANTS
    Clients,
    Parent,       \* the parent of each layer, NoLayer for a base layer
    Deletes,      \* whether clients delete the graph
    MaxVersion    \* bound: no client writes a label of this version

ASSUME NamedGraphAssumption ==
    /\ Parent \in [Layers -> Layers \cup {NoLayer}]
    /\ Deletes \in BOOLEAN
    /\ MaxVersion \in Nat

VARIABLES
    pc,           \* "idle", or "set" between get_label and set_label
    call,         \* the call a client has under way: operation and layer
    seen,         \* the label its get_label returned
    known,        \* the label its last head_version saw
    ret           \* what its last set_head or force_set_head* returned

vars == <<label, pc, call, seen, known, ret>>

Ops == {"set_head", "force_set_head", "force_set_head_version"}
Calls == [op : Ops, layer : Layers]
NoCall == [op |-> "none", layer |-> NoLayer]

\* A layer with all it descends from, itself included.
Lineage[l \in Layers] == {l} \cup IF Parent[l] = NoLayer THEN {} ELSE Lineage[Parent[l]]

\* layer_is_ancestor_of(descendant, ancestor), reflexive as in the code
LayerIsAncestorOf(descendant, ancestor) == ancestor \in Lineage[descendant]

Init ==
    /\ LabelInit
    /\ pc = [c \in Clients |-> "idle"]
    /\ call = [c \in Clients |-> NoCall]
    /\ seen = [c \in Clients |-> NoLabel]
    /\ known = [c \in Clients |-> NoLabel]
    /\ ret = [c \in Clients |-> "none"]

-----------------------------------------------------------------------------
Return(c, value) ==
    /\ pc' = [pc EXCEPT ![c] = "idle"]
    /\ call' = [call EXCEPT ![c] = NoCall]
    /\ seen' = [seen EXCEPT ![c] = NoLabel]
    /\ ret' = [ret EXCEPT ![c] = value]

\* Store::create
StoreCreate(c) ==
    /\ pc[c] = "idle"
    /\ label' = CreateLabel(label).label
    /\ Return(c, IF CreateLabel(label).res = Err THEN "err" ELSE "ok")
    /\ UNCHANGED known

\* Store::delete and NamedGraph::delete
StoreDelete(c) ==
    /\ Deletes
    /\ pc[c] = "idle"
    /\ label' = DeleteLabel(label).label
    /\ Return(c, DeleteLabel(label).res.status)
    /\ UNCHANGED known

\* NamedGraph::head_version, and head, which drops the version
HeadVersion(c) ==
    /\ pc[c] = "idle"
    /\ known' = [known EXCEPT ![c] = GetLabel(label).label]
    /\ Return(c, IF label = NoLabel THEN "err" ELSE "ok")
    /\ UNCHANGED label

\* Mutant: the ancestry test with its arguments swapped.
AllowedBackwards(c, op, layer) ==
    /\ op = "set_head" =>
            IF label.layer = NoLayer THEN TRUE ELSE LayerIsAncestorOf(label.layer, layer)
    /\ op = "force_set_head_version" => label.version = known[c].version

\* Mutant: the version given to force_set_head_version is not looked at.
AllowedAnyVersion(c, op, layer) ==
    op = "set_head" => label.layer = NoLayer \/ LayerIsAncestorOf(layer, label.layer)

\* The first half of the three operations: get_label, then what each of them
\* asks of the label it got.
Allowed(c, op, layer) ==
    /\ op = "set_head" =>
            label.layer = NoLayer \/ LayerIsAncestorOf(layer, label.layer)
    /\ op = "force_set_head_version" => label.version = known[c].version

\* Mutant: the label that was read is not kept for set_label.
ProceedBlindly(c, op, layer) ==
    /\ pc' = [pc EXCEPT ![c] = "set"]
    /\ call' = [call EXCEPT ![c] = [op |-> op, layer |-> layer]]
    /\ UNCHANGED <<seen, ret>>

Proceed(c, op, layer) ==
    /\ pc' = [pc EXCEPT ![c] = "set"]
    /\ call' = [call EXCEPT ![c] = [op |-> op, layer |-> layer]]
    /\ seen' = [seen EXCEPT ![c] = label]
    /\ UNCHANGED ret

BeginSet(c, op, layer) ==
    /\ pc[c] = "idle"
    /\ op = "force_set_head_version" => known[c] # NoLabel
    /\ \/ /\ label = NoLabel
          /\ Return(c, "err")
       \/ /\ label # NoLabel
          /\ ~Allowed(c, op, layer)
          /\ Return(c, "false")
       \/ /\ label # NoLabel
          /\ label.version < MaxVersion
          /\ Allowed(c, op, layer)
          /\ Proceed(c, op, layer)
    /\ UNCHANGED <<label, known>>

\* The second half: set_label against the label read before.  Its error is
\* passed on, its Ok(None) is dropped: the answer was settled in the first half.
FinishSet(c) ==
    LET set == SetLabelOption(label, seen[c], call[c].layer) IN
    /\ pc[c] = "set"
    /\ label' = set.label
    /\ Return(c, IF set.res = Err THEN "err"
                 ELSE IF call[c].op = "force_set_head" THEN "ok" ELSE "true")
    /\ UNCHANGED known

Next ==
    \E c \in Clients :
        \/ StoreCreate(c)
        \/ StoreDelete(c)
        \/ HeadVersion(c)
        \/ \E op \in Ops, layer \in Layers : BeginSet(c, op, layer)
        \/ FinishSet(c)

Spec == Init /\ [][Next]_vars

-----------------------------------------------------------------------------
TypeOK ==
    /\ label \in MaybeLabel
    /\ pc \in [Clients -> {"idle", "set"}]
    /\ call \in [Clients -> Calls \cup {NoCall}]
    /\ seen \in [Clients -> MaybeLabel]
    /\ known \in [Clients -> MaybeLabel]
    /\ ret \in [Clients -> {"none", "ok", "true", "false", "err"}]
    /\ \A c \in Clients : pc[c] = "set" => call[c] \in Calls /\ seen[c] \in Label

\* Client c finishes a call of operation op and the label changes by it.
Advances(c, op) ==
    /\ pc[c] = "set" /\ pc'[c] = "idle" /\ call[c].op = op
    /\ label' # label

\* NamedGraph::set_head never moves the head sideways or backwards: when a
\* set_head changes a label that points at a layer, the new head descends from
\* the head it replaces, whatever other clients did between the check and the
\* write.
HeadMovesForward ==
    [][\A c \in Clients : Advances(c, "set_head") =>
          \/ label.layer = NoLayer
          \/ LayerIsAncestorOf(label'.layer, label.layer)]_vars

\* NamedGraph::force_set_head_version: an update that takes effect replaces a
\* label of the version that head_version returned to this client.
VersionIsChecked ==
    [][\A c \in Clients : Advances(c, "force_set_head_version") =>
          label.version = known[c].version]_vars

\* As long as nobody deletes the graph, a force_set_head_version that takes
\* effect replaces exactly the head that head_version returned: no update of
\* another client in between is lost.
OptimisticUpdate ==
    [][\A c \in Clients : Advances(c, "force_set_head_version") =>
          label = known[c]]_vars

\* Two writes of the same label never both take effect: as long as nobody
\* deletes the graph, the label a client changes is the one it read, layer and
\* version.  This is what makes MemoryLabelStore's comparison of versions alone
\* as good as a comparison of whole labels.
NoLostUpdate ==
    [][\A c \in Clients, op \in Ops : Advances(c, op) => label = seen[c]]_vars

\* The documentation of force_set_head_version: "if it doesn't match, the
\* update won't happen and false will be returned", so true means that the
\* update happened.
TrueMeansUpdated ==
    [][\A c \in Clients :
          /\ pc[c] = "set" /\ pc'[c] = "idle"
          /\ call[c].op = "force_set_head_version"
          /\ ret'[c] = "true"
          => label'.layer = call[c].layer]_vars

-----------------------------------------------------------------------------
(***************************************************************************)
(* The strengthening behind these properties.                              *)
(***************************************************************************)

\* Between its two halves a call still satisfies, for the label it read, the
\* condition it was let through on.
CheckedOnSeen ==
    \A c \in Clients : pc[c] = "set" =>
        /\ call[c].op = "set_head" =>
                \/ seen[c].layer = NoLayer
                \/ LayerIsAncestorOf(call[c].layer, seen[c].layer)
        /\ call[c].op = "force_set_head_version" =>
                known[c] # NoLabel /\ seen[c].version = known[c].version

\* A label a client holds is an earlier state of the graph, and the version
\* tells which one.  It fails once graphs are deleted and created anew.
Earlier(held) ==
    held # NoLabel => /\ label # NoLabel
                      /\ held.version <= label.version
                      /\ held.version = label.version => held = label

VersionIdentifies == \A c \in Clients : Earlier(seen[c]) /\ Earlier(known[c])

IndInv == TypeOK /\ CheckedOnSeen /\ (~Deletes => VersionIdentifies)
=============================================================================
