--------------------- MODULE DirectoryLabelStore_proofs ---------------------
(***************************************************************************)
(* Proofs about DirectoryLabelStore, for every set of tasks, files and     *)
(* layers and every bound on the versions.                                 *)
(***************************************************************************)
EXTENDS DirectoryLabelStore, TLAPS

\* The results of the label operations are results.
LEMMA Results ==
    /\ Err \in Result /\ InvalidData \in Result
    /\ \A b \in BOOLEAN : OkBool(b) \in Result
    /\ \A l \in MaybeLabel : Ok(l) \in Result
  BY DEF Result, Err, InvalidData, OkBool, Ok, MaybeLabel

LEMMA InitInv == Init => IndInv
  BY LabelsAssumption, DirectoryAssumption, Results
  DEF Init, NoCall, MaybeLabel, Exclusive, Shared, Creating, Updating, Waiting, SetPCs, PCs,
      IndInv, TypeOK, FilesAreOpen, LocksExclude, CreatorsAreAlone, WritersAreAlone,
      ConfirmedIsOld, ConfirmedSurvives, EmptyHasWriter

-----------------------------------------------------------------------------
\* A step that ends a call without writing the file, and may unlink it.
LEMMA ReturnInv ==
    ASSUME IndInv, NEW t \in Tasks, NEW res \in Result, Return(t, res),
           dir' \in {dir, NoInode}, UNCHANGED <<file, durable, acked>>,
           pc[t] \notin {"create_lock", "create_write", "set_write"}
    PROVE  IndInv'
  BY LabelsAssumption, DirectoryAssumption
  DEF Return, NewLabel, NoCall, MaybeLabel, Result,
      Exclusive, Shared, Creating, Updating, Waiting, SetPCs, PCs,
      IndInv, TypeOK, FilesAreOpen, LocksExclude, CreatorsAreAlone, WritersAreAlone,
      ConfirmedIsOld, ConfirmedSurvives, EmptyHasWriter

\* The start of a call.
LEMMA BeginInv ==
    ASSUME IndInv, NEW t \in Tasks, NEW op, NEW l, NEW layer,
           [op |-> op, label |-> l, layer |-> layer] \in Call,
           NEW first \in {"create_stat", "get_open", "set_open", "delete_unlink"},
           first = "set_open" => op = "set",
           Begin(t, op, l, layer, first)
    PROVE  IndInv'
<1> DEFINE c == [op |-> op, label |-> l, layer |-> layer]
<1>1. c \in Call /\ c.op = op
  OBVIOUS
<1>2. first = "set_open" => c \in [op : {"set"}, label : Label, layer : Layers \cup {NoLayer}]
  BY <1>1 DEF Call
<1>3. /\ pc[t] = "idle"
      /\ pc' = [pc EXCEPT ![t] = first]
      /\ call' = [call EXCEPT ![t] = c]
      /\ ret' = [ret EXCEPT ![t] = Err]
      /\ UNCHANGED <<dir, file, durable, ino, held, acked>>
  BY DEF Begin
<1> HIDE DEF c
<1> QED
  BY <1>1, <1>2, <1>3, Results
  DEF NewLabel, Exclusive, Shared, Creating, Updating, Waiting, SetPCs, PCs, CreatePCs, GetPCs,
      IndInv, TypeOK, FilesAreOpen, LocksExclude, CreatorsAreAlone, WritersAreAlone,
      ConfirmedIsOld, ConfirmedSurvives, EmptyHasWriter

LEMMA StartInv == ASSUME IndInv, NEW t \in Tasks, Start(t) PROVE IndInv'
<1>1. CASE CallCreate(t)
  BY <1>1, BeginInv DEF CallCreate, Call
<1>2. CASE CallGet(t)
  BY <1>2, BeginInv DEF CallGet, Call
<1>3. CASE CallDelete(t)
  BY <1>3, BeginInv DEF CallDelete, Call
<1>4. ASSUME NEW layer \in Layers \cup {NoLayer}, CallSet(t, layer) PROVE IndInv'
  <2>1. held[t] \in Label
    BY <1>4 DEF CallSet, IndInv, TypeOK, MaybeLabel
  <2>2. [op |-> "set", label |-> held[t], layer |-> layer] \in Call
    BY <1>4, <2>1 DEF Call
  <2> QED
    BY <1>4, <2>2, BeginInv DEF CallSet
<1> QED
  BY <1>1, <1>2, <1>3, <1>4 DEF Start

-----------------------------------------------------------------------------
\* The steps of a call keep the invariant.  The interesting ones are those that
\* lock a file (LocksExclude), that make one (CreatorsAreAlone: a file that was
\* Unused is open nowhere) and that write one (WritersAreAlone, from the two).
LEMMA StepInv == ASSUME IndInv, NEW t \in Tasks, Step(t) PROVE IndInv'
<1> USE LabelsAssumption, DirectoryAssumption
<1> USE DEF Exclusive, Shared, Creating, Updating, Waiting, SetPCs, PCs, CreatePCs, GetPCs,
            IndInv, TypeOK, FilesAreOpen, LocksExclude, CreatorsAreAlone, WritersAreAlone,
            ConfirmedIsOld, ConfirmedSurvives, EmptyHasWriter
<1>1. CASE CreateStat(t)
  <2>1. CASE GoTo(t, "create_open") /\ UNCHANGED ino
    BY <1>1, <2>1 DEF CreateStat, GoTo, NewLabel
  <2> QED
    BY <1>1, <2>1, ReturnInv, Results DEF CreateStat
<1>2. CASE CreateOpen(t)
  <2>1. CASE GoTo(t, "create_lock")
    BY <1>2, <2>1, SMTT(30) DEF CreateOpen, Return, GoTo, Store, NewLabel, Contents
  <2> QED
    BY <1>2, <2>1, ReturnInv, Results DEF CreateOpen
<1>3. CASE CreateLock(t)
  BY <1>3 DEF CreateLock, CanLockExclusive, GoTo, NewLabel
<1>4. CASE CreateWrite(t)
  BY <1>4 DEF CreateWrite, GoTo, Store, NewLabel, NewEmpty, Label, Contents
<1>5. CASE CreateSync(t)
  BY <1>5, Results DEF CreateSync, Return, Sync, NewLabel, NewEmpty, Ok, NoCall, MaybeLabel, Label, Contents
<1>6. CASE GetOpen(t)
  <2>1. CASE GoTo(t, "get_lock")
    BY <1>6, <2>1 DEF GetOpen, Return, GoTo, NewLabel
  <2> QED
    BY <1>6, <2>1, ReturnInv, Results DEF GetOpen, MaybeLabel
<1>7. CASE GetLock(t)
  BY <1>7 DEF GetLock, CanLockShared, GoTo, NewLabel
<1>8. CASE GetRead(t)
  <2>1. file[ino[t]] = Empty \/ file[ino[t]] \in MaybeLabel
    BY <1>8 DEF GetRead, Contents, MaybeLabel
  <2> QED
    BY <1>8, <2>1, ReturnInv, Results DEF GetRead
<1>9. CASE SetOpen(t)
  <2>1. CASE GoTo(t, "set_lock")
    BY <1>9, <2>1 DEF SetOpen, Return, GoTo, NewLabel
  <2> QED
    BY <1>9, <2>1, ReturnInv, Results DEF SetOpen
<1>10. CASE SetLock(t)
  BY <1>10 DEF SetLock, CanLockExclusive, GoTo, NewLabel
<1>11. CASE SetRead(t)
  <2>1. CASE GoTo(t, "set_truncate") /\ UNCHANGED ino /\ file[ino[t]] = call[t].label
    BY <1>11, <2>1 DEF SetRead, GoTo, NewLabel, Label
  <2> QED
    BY <1>11, <2>1, ReturnInv, Results DEF SetRead, SameLabel, MaybeLabel
<1>12. CASE SetTruncate(t)
  BY <1>12 DEF SetTruncate, GoTo, Store, NewLabel, Label, Contents
<1>13. CASE SetWrite(t)
  BY <1>13 DEF SetWrite, GoTo, Store, NewLabel, WithUpdatedLayer, Label, Contents
<1>14. CASE SetSync(t)
  BY <1>14, Results DEF SetSync, Return, Sync, NewLabel, WithUpdatedLayer, Ok, NoCall, MaybeLabel, Label, Contents
<1>15. CASE DeleteUnlink(t)
  BY <1>15, ReturnInv, Results DEF DeleteUnlink
<1> QED
  BY <1>1, <1>2, <1>3, <1>4, <1>5, <1>6, <1>7, <1>8, <1>9, <1>10, <1>11, <1>12, <1>13,
     <1>14, <1>15 DEF Step

\* After a crash no task is under way, and every file holds what was durable.
LEMMA CrashInv == ASSUME IndInv, Crash PROVE IndInv'
<1> USE LabelsAssumption, DirectoryAssumption
<1>1. Crashes
  BY DEF Crash
<1>2. \A i \in Inodes : IF file[i] = Unused THEN file'[i] = Unused ELSE file'[i] \in durable[i]
  BY DEF Crash
<1>3. \A i \in Inodes : durable[i] \in SUBSET Contents /\ Unused \notin durable[i]
  BY DEF IndInv, TypeOK, Contents
<1>4. file' \in [Inodes -> Contents \cup {Unused}]
  BY <1>2, <1>3 DEF Crash, IndInv, TypeOK
<1>5. TypeOK'
  BY <1>2, <1>3, <1>4, Results DEF Crash, IndInv, TypeOK, PCs, MaybeLabel
<1>6. FilesAreOpen' /\ LocksExclude' /\ CreatorsAreAlone' /\ WritersAreAlone'
  BY <1>2, <1>3, <1>5
  DEF Crash, IndInv, TypeOK, FilesAreOpen, LocksExclude, CreatorsAreAlone, WritersAreAlone,
      Exclusive, Shared, Creating, Updating, Waiting, SetPCs
<1>7. ConfirmedIsOld'
  BY <1>2, <1>3, <1>4
  DEF Crash, IndInv, TypeOK, ConfirmedIsOld, ConfirmedSurvives, Creating, Updating
<1> QED
  BY <1>1, <1>5, <1>6, <1>7 DEF Crash, IndInv

LEMMA NextInv == IndInv /\ [Next]_vars => IndInv'
<1> SUFFICES ASSUME IndInv, [Next]_vars PROVE IndInv'
  OBVIOUS
<1>1. CASE UNCHANGED vars
  BY <1>1
  DEF vars, NewLabel, Exclusive, Shared, Creating, Updating, Waiting,
      IndInv, TypeOK, FilesAreOpen, LocksExclude, CreatorsAreAlone, WritersAreAlone,
      ConfirmedIsOld, ConfirmedSurvives, EmptyHasWriter
<1> QED
  BY <1>1, StartInv, StepInv, CrashInv DEF Next

LEMMA IndInvHolds == Spec => []IndInv
  BY InitInv, NextInv, PTL DEF Spec

-----------------------------------------------------------------------------
\* DirectoryLabelStore: files, tasks and results keep their types, in particular
\* what get_label returns is a label or nothing and never unfinished contents.
THEOREM TypeCorrect == Spec => []TypeOK
<1>1. IndInv => TypeOK
  BY DEF IndInv
<1> QED
  BY <1>1, IndInvHolds, PTL

\* ExclusiveLockedFile: a task that holds the exclusive lock is alone with its
\* file, whatever is unlinked and created anew meanwhile.
THEOREM LocksAreExclusive == Spec => []LocksExclude
<1>1. IndInv => LocksExclude
  BY DEF IndInv
<1> QED
  BY <1>1, IndInvHolds, PTL

\* set_label_option truncates and rewrites its file in place; without crashes
\* nobody reads it in between, and the one empty file that can be read is one
\* that create_label has not locked yet.
THEOREM NoTornRead ==
    ASSUME ~Crashes
    PROVE  Spec => []EmptyOnlyWhileCreating
<1>1. IndInv => EmptyOnlyWhileCreating
  <2> SUFFICES ASSUME IndInv, NEW t \in Tasks, pc[t] \in {"get_read", "set_read"},
                      file[ino[t]] = Empty
               PROVE  \E u \in Tasks : pc[u] = "create_lock" /\ ino[u] = ino[t]
    BY DEF EmptyOnlyWhileCreating
  <2>1. ino[t] \in Inodes
    BY DEF IndInv, FilesAreOpen, Exclusive, Shared
  <2>2. PICK u \in Tasks : ino[u] = ino[t] /\ pc[u] \in {"create_lock", "create_write", "set_write"}
    BY <2>1 DEF IndInv, EmptyHasWriter
  <2>3. pc[u] \notin {"create_write", "set_write"}
    BY <2>2 DEF IndInv, LocksExclude, Exclusive, Shared
  <2> QED
    BY <2>2, <2>3
<1> QED
  BY <1>1, IndInvHolds, PTL

\* What create_label and set_label_option confirmed is not undone by a crash.
THEOREM ConfirmedWritesSurvive == Spec => []ConfirmedSurvives
<1>1. IndInv => ConfirmedSurvives
  BY DEF IndInv, ConfirmedIsOld
<1> QED
  BY <1>1, IndInvHolds, PTL

\* A set_label_option that is confirmed has a higher version than any confirmed
\* before for the same file, crashes included.
THEOREM ConfirmedWritesIncrease == Spec => ConfirmedVersionsIncrease
<1> DEFINE Increases(t) == pc[t] = "set_sync" /\ pc'[t] = "idle" /\ ret'[t].status = "ok" =>
                               acked'[ino[t]] > acked[ino[t]]
<1>1. ASSUME IndInv, [Next]_vars, NEW t \in Tasks PROVE Increases(t)
  <2> SUFFICES ASSUME pc[t] = "set_sync", pc'[t] = "idle", ret'[t].status = "ok"
               PROVE  acked'[ino[t]] > acked[ino[t]]
    OBVIOUS
  <2>1. ~Crash
    BY DEF Crash, Err
  <2>2. PICK u \in Tasks : Start(u) \/ Step(u)
    BY <1>1, <2>1 DEF Next, vars
  <2>3. u = t
    BY <1>1, <2>2
    DEF IndInv, TypeOK, Start, CallCreate, CallGet, CallDelete, CallSet, Begin, Step, CreateStat,
        CreateOpen, CreateLock, CreateWrite, CreateSync, GetOpen, GetLock, GetRead, SetOpen,
        SetLock, SetRead, SetTruncate, SetWrite, SetSync, DeleteUnlink, GoTo, Return
  <2>4. SetSync(t)
    BY <2>2, <2>3
    DEF Start, CallCreate, CallGet, CallDelete, CallSet, Begin, Step, CreateStat,
        CreateOpen, CreateLock, CreateWrite, CreateSync, GetOpen, GetLock, GetRead, SetOpen,
        SetLock, SetRead, SetTruncate, SetWrite, DeleteUnlink
  <2>5. /\ ino[t] \in Inodes
        /\ file[ino[t]] = NewLabel(t)
        /\ call[t].label \in Label
        /\ call[t].label.version >= acked[ino[t]]
    BY <1>1
    DEF IndInv, FilesAreOpen, WritersAreAlone, ConfirmedIsOld, Exclusive, Updating, SetPCs
  <2>6. acked'[ino[t]] = call[t].label.version + 1
    BY <1>1, <2>4, <2>5 DEF SetSync, Sync, NewLabel, WithUpdatedLayer, IndInv, TypeOK
  <2> QED
    BY <1>1, <2>5, <2>6 DEF Label, IndInv, TypeOK
<1>2. IndInv /\ [Next]_vars => [\A t \in Tasks : Increases(t)]_vars
  BY <1>1
<1> QED
  BY <1>2, IndInvHolds, PTL DEF Spec, ConfirmedVersionsIncrease

-----------------------------------------------------------------------------
(***************************************************************************)
(* The refinement.  While a set_label has the file truncated the label is  *)
(* the one it replaces; by LocksExclude there is one such task at most.    *)
(***************************************************************************)
LEMMA AbsWhileRewriting ==
    ASSUME IndInv, NEW t \in Tasks, Rewriting(t), dir # NoInode
    PROVE  AbsLabel = call[t].label
<1>1. \A u \in Tasks : Rewriting(u) => u = t
  BY DEF IndInv, LocksExclude, Rewriting, Exclusive
<1>2. (CHOOSE u \in Tasks : Rewriting(u)) = t
  BY <1>1
<1>3. file[dir] = Empty
  BY DEF IndInv, WritersAreAlone, Rewriting
<1> QED
  BY <1>2, <1>3 DEF AbsLabel

\* The label changes only with the file the directory names, the directory
\* entry, and the set_label that is rewriting that file.
LEMMA AbsUnchanged ==
    ASSUME dir' = dir, dir # NoInode => file'[dir] = file[dir],
           \A t \in Tasks : (Rewriting(t)' <=> Rewriting(t)) /\ (Rewriting(t) => call'[t] = call[t])
    PROVE  AbsLabel' = AbsLabel
<1>1. CASE \E t \in Tasks : Rewriting(t)
  <2>1. (CHOOSE t \in Tasks : Rewriting(t)') = (CHOOSE t \in Tasks : Rewriting(t))
    OBVIOUS
  <2>2. (CHOOSE t \in Tasks : Rewriting(t)) \in Tasks /\ Rewriting(CHOOSE t \in Tasks : Rewriting(t))
    BY <1>1
  <2> QED
    BY <1>1, <2>1, <2>2 DEF AbsLabel
<1>2. CASE ~\E t \in Tasks : Rewriting(t)
  BY <1>2 DEF AbsLabel
<1> QED
  BY <1>1, <1>2

\* A step that neither writes nor unlinks the file of the label, and is not at
\* the point where it is truncated, leaves the label as it is.
LEMMA QuietStep ==
    ASSUME IndInv, NEW t \in Tasks, dir' = dir, file' = file,
           pc[t] # "set_write", pc'[t] # "set_write",
           \A u \in Tasks \ {t} : pc'[u] = pc[u] /\ ino'[u] = ino[u] /\ call'[u] = call[u]
    PROVE  AbsLabel' = AbsLabel
  BY AbsUnchanged DEF Rewriting

\* The steps that write, and DeleteUnlink, are the steps of LabelStore; all the
\* others leave the label as it is.
LEMMA StepRefines ==
    ASSUME ~Crashes, IndInv, IndInv', NEW t \in Tasks, Start(t) \/ Step(t)
    PROVE  Abstract!LabelNext \/ UNCHANGED AbsLabel
<1> USE LabelsAssumption, DirectoryAssumption
<1>t. /\ dir \in Inodes \cup {NoInode} /\ file \in [Inodes -> Contents \cup {Unused}]
      /\ pc \in [Tasks -> PCs] /\ ino \in [Tasks -> Inodes \cup {NoInode}]
      /\ call \in [Tasks -> Call \cup {NoCall}]
  BY DEF IndInv, TypeOK
<1>1. CASE Start(t)
  BY <1>t, <1>1, QuietStep DEF Start, CallCreate, CallGet, CallDelete, CallSet, Begin
<1>2. CASE \/ CreateStat(t) \/ CreateLock(t) \/ CreateSync(t) \/ GetOpen(t) \/ GetLock(t)
           \/ GetRead(t) \/ SetOpen(t) \/ SetLock(t) \/ SetRead(t) \/ SetSync(t)
  BY <1>t, <1>2, QuietStep
  DEF CreateStat, CreateLock, CreateSync, GetOpen, GetLock, GetRead, SetOpen, SetLock, SetRead,
      SetSync, GoTo, Return
<1>3. CASE CreateOpen(t)
  <2>1. CASE dir # NoInode
    BY <1>t, <1>3, <2>1, QuietStep DEF CreateOpen, Return
  <2>2. CASE dir = NoInode
    <3>1. AbsLabel = NoLabel
      BY <2>2 DEF AbsLabel
    <3>2. PICK i \in Inodes : file[i] = Unused /\ file' = [file EXCEPT ![i] = Empty] /\ dir' = i
                              /\ ino' = [ino EXCEPT ![t] = i]
                              /\ pc' = [pc EXCEPT ![t] = "create_lock"]
      BY <1>3, <2>2 DEF CreateOpen, Store, GoTo
    <3>3. \A u \in Tasks : ~Rewriting(u)'
      BY <1>t, <3>2 DEF IndInv, FilesAreOpen, Exclusive, Rewriting
    <3> QED
      BY <1>t, <3>1, <3>2, <3>3 DEF AbsLabel
  <2> QED
    BY <2>1, <2>2
<1>4. CASE CreateWrite(t)
  <2>1. /\ pc[t] = "create_write" /\ dir' = dir /\ ino' = ino /\ call' = call
        /\ ino[t] \in Inodes /\ file' = [file EXCEPT ![ino[t]] = NewEmpty]
        /\ pc' = [pc EXCEPT ![t] = "create_sync"]
    BY <1>4 DEF CreateWrite, Store, GoTo, IndInv, FilesAreOpen, Exclusive
  <2>2. CASE dir # ino[t]
    BY <1>t, <2>1, <2>2, AbsUnchanged DEF Rewriting
  <2>3. CASE dir = ino[t]
    <3>1. file[dir] = Empty /\ \A u \in Tasks : ~Rewriting(u)
      BY <2>1, <2>3 DEF IndInv, WritersAreAlone, LocksExclude, Exclusive, Rewriting
    <3>2. AbsLabel = NoLabel
      BY <3>1 DEF AbsLabel
    <3>3. AbsLabel' = NewEmpty
      BY <1>t, <2>1, <2>3 DEF AbsLabel, NewEmpty, Label
    <3>4. Abstract!Create
      BY <3>2, <3>3 DEF Abstract!Create, Abstract!CreateLabel, Abstract!NewEmpty, NewEmpty
    <3> QED
      BY <3>4 DEF Abstract!LabelNext
  <2> QED
    BY <2>2, <2>3
<1>5. CASE SetTruncate(t)
  <2>1. /\ pc[t] = "set_truncate" /\ dir' = dir /\ ino' = ino /\ call' = call
        /\ ino[t] \in Inodes /\ file[ino[t]] = call[t].label /\ call[t].label \in Label
        /\ file' = [file EXCEPT ![ino[t]] = Empty]
        /\ pc' = [pc EXCEPT ![t] = "set_write"]
    BY <1>5 DEF SetTruncate, Store, GoTo, IndInv, FilesAreOpen, WritersAreAlone, Exclusive, SetPCs
  <2>2. CASE dir # ino[t]
    BY <1>t, <2>1, <2>2, AbsUnchanged DEF Rewriting
  <2>3. CASE dir = ino[t]
    <3>1. AbsLabel = call[t].label
      BY <2>1, <2>3 DEF AbsLabel
    <3>2. \A u \in Tasks : Rewriting(u)' <=> u = t
      BY <1>t, <2>1, <2>3 DEF IndInv, LocksExclude, Exclusive, Rewriting
    <3>3. (CHOOSE u \in Tasks : Rewriting(u)') = t
      BY <3>2
    <3>4. AbsLabel' = call[t].label
      BY <1>t, <2>1, <2>3, <3>2, <3>3 DEF AbsLabel
    <3> QED
      BY <3>1, <3>4
  <2> QED
    BY <2>2, <2>3
<1>6. CASE SetWrite(t)
  <2>1. /\ pc[t] = "set_write" /\ dir' = dir /\ ino' = ino /\ call' = call
        /\ ino[t] \in Inodes /\ call[t].label \in Label /\ call[t].layer \in Layers \cup {NoLayer}
        /\ file' = [file EXCEPT ![ino[t]] = NewLabel(t)]
        /\ pc' = [pc EXCEPT ![t] = "set_sync"]
    BY <1>6 DEF SetWrite, Store, GoTo, IndInv, FilesAreOpen, Exclusive, SetPCs
  <2>2. CASE dir # ino[t]
    BY <1>t, <2>1, <2>2, AbsUnchanged DEF Rewriting
  <2>3. CASE dir = ino[t]
    <3>1. AbsLabel = call[t].label
      BY <2>1, <2>3, AbsWhileRewriting DEF Rewriting
    <3>2. NewLabel(t) # Empty
      BY <2>1 DEF NewLabel, WithUpdatedLayer, Label
    <3>3. AbsLabel' = NewLabel(t)
      BY <1>t, <2>1, <2>3, <3>2 DEF AbsLabel
    <3>4. Abstract!Set(call[t].layer)
      BY <2>1, <3>1, <3>3
      DEF Abstract!Set, Abstract!SetLabelOption, Abstract!SameLabel, Abstract!WithUpdatedLayer,
          Label, NewLabel, WithUpdatedLayer
    <3> QED
      BY <2>1, <3>4 DEF Abstract!LabelNext
  <2> QED
    BY <2>2, <2>3
<1>7. CASE DeleteUnlink(t)
  <2>1. AbsLabel' = NoLabel
    BY <1>7 DEF DeleteUnlink, AbsLabel
  <2> QED
    BY <2>1 DEF Abstract!LabelNext, Abstract!Delete, Abstract!DeleteLabel
<1> QED
  BY <1>1, <1>2, <1>3, <1>4, <1>5, <1>6, <1>7 DEF Step

\* Without crashes the files of DirectoryLabelStore implement the label of the
\* LabelStore trait, whose operations are indivisible: create_label and
\* set_label_option take effect when they write, delete_label when it unlinks.
THEOREM DirectoryImplementsLabelStore ==
    ASSUME ~Crashes
    PROVE  Spec => ImplementsLabelStore
<1>1. Init => Abstract!LabelInit
  BY DEF Init, AbsLabel, Abstract!LabelInit
<1>2. IndInv /\ IndInv' /\ [Next]_vars => [Abstract!LabelNext]_AbsLabel
  <2> SUFFICES ASSUME IndInv, IndInv', [Next]_vars
               PROVE  Abstract!LabelNext \/ UNCHANGED AbsLabel
    OBVIOUS
  <2>1. CASE UNCHANGED vars
    BY <2>1, AbsUnchanged DEF vars, Rewriting
  <2>2. CASE \E t \in Tasks : Start(t) \/ Step(t)
    BY <2>2, StepRefines
  <2> QED
    BY <2>1, <2>2 DEF Next, Crash
<1> QED
  BY <1>1, <1>2, IndInvHolds, PTL DEF Spec, ImplementsLabelStore, Abstract!LabelSpec
=============================================================================
