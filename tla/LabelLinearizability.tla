------------------------ MODULE LabelLinearizability ------------------------
(***************************************************************************)
(* Are the results that concurrent callers of DirectoryLabelStore get      *)
(* those of some sequential order of their calls, each taking effect       *)
(* between its invocation and its return?  In particular delete_label, which  *)
(* takes no lock: its comment says that a read or write that overlaps it   *)
(* is "indistinguishable from the case where the read/write and the remove *)
(* happened in reverse order".                                             *)
(*                                                                         *)
(* The monitor keeps every sequential explanation of what was returned so  *)
(* far: the label after the calls that have taken effect and, for every    *)
(* call under way, whether it has taken effect and with what result.  A    *)
(* call that returns InvalidData must not have taken effect.               *)
(***************************************************************************)
EXTENDS DirectoryLabelStore

ASSUME TasksAssumption == IsFiniteSet(Tasks)

VARIABLE explanations

NotYet == [status |-> "not_yet", label |-> NoLabel]

\* A call under way, performed at once on the label of the explanation.
Perform(l, c) ==
    CASE c.op = "create" -> CreateLabel(l)
      [] c.op = "get"    -> GetLabel(l)
      [] c.op = "set"    -> SetLabelOption(l, c.label, c.layer)
      [] c.op = "delete" -> DeleteLabel(l)

TakeEffect(e, t) ==
    LET done == Perform(e.label, call[t]) IN
    [label |-> done.label, done |-> [e.done EXCEPT ![t] = done.res]]

\* One more call takes effect, in any explanation.
Extend(es) ==
    es \cup UNION {{TakeEffect(e, t) : t \in {u \in Tasks : call[u] # NoCall /\ e.done[u] = NotYet}}
                    : e \in es}

\* Any number of calls take effect, in any order.
Extended[n \in 0..Cardinality(Tasks)] ==
    IF n = 0 THEN explanations ELSE Extend(Extended[n - 1])

\* What is left of the explanations when t returns its result.
AfterReturn(t, res) ==
    LET expected == IF res = InvalidData THEN NotYet ELSE res IN
    {[e EXCEPT !.done[t] = NotYet] :
        e \in {x \in Extended[Cardinality(Tasks)] : x.done[t] = expected}}

MonitorInit ==
    /\ Init
    /\ explanations = {[label |-> NoLabel, done |-> [t \in Tasks |-> NotYet]]}

MonitorStart(t) == Start(t) /\ UNCHANGED explanations

MonitorStep(t) ==
    /\ Step(t)
    /\ explanations' = IF pc'[t] = "idle" THEN AfterReturn(t, ret'[t]) ELSE explanations

MonitorNext == \E t \in Tasks : MonitorStart(t) \/ MonitorStep(t)

MonitorSpec == MonitorInit /\ [][MonitorNext]_<<vars, explanations>>

\* Every result returned so far has an explanation: the label store is
\* linearizable, calls that overlap a delete_label included.
Linearizable == explanations # {}
=============================================================================
