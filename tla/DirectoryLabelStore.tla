------------------------ MODULE DirectoryLabelStore ------------------------
(***************************************************************************)
(* The label store kept in a directory (src/src/storage/directory.rs), one *)
(* file per label, at the level of its file operations.  Tasks, of this or *)
(* of other processes, call create_label, get_label, set_label_option and  *)
(* delete_label; every await on the file system is a step of its own.      *)
(*                                                                         *)
(* External to the repository, and modelled from how it is used: the       *)
(* directory entry of the label's file, the inodes behind it (a file that  *)
(* is unlinked lives on for those who have it open), the advisory flock on *)
(* an inode, and what a power failure leaves of a file: any contents it    *)
(* had since it was last synced.  A crash loses the tasks and their locks. *)
(* The file system keeps the order of its directory entries: creating and  *)
(* unlinking are durable at once.                                          *)
(***************************************************************************)
EXTENDS Labels, FiniteSets

CONSTANTS
    Tasks,
    Inodes,       \* bound: files created over a behaviour
    NoInode,      \* no directory entry
    Empty,        \* a file get_label_from_data refuses: no contents or a part of a label
    Unused,       \* an inode not allocated yet
    MaxVersion,   \* bound: no task asks for a label above this version
    Crashes       \* whether the machine may crash

ASSUME DirectoryAssumption ==
    /\ Backend = "directory"
    /\ NoInode \notin Inodes
    /\ Empty \notin Label /\ Unused \notin Label /\ Empty # Unused
    /\ Empty # NoLabel /\ Unused # NoLabel
    /\ MaxVersion \in Nat
    /\ Crashes \in BOOLEAN

VARIABLES
    dir,      \* the inode that <name>.label points at, or NoInode
    file,     \* the contents of each inode: a label, Empty or Unused
    durable,  \* what each inode may hold after a power failure
    pc,       \* where each task is in its call
    call,     \* its call: operation and arguments
    ino,      \* the file it has opened
    held,     \* the label it got back last, for use in set_label
    ret,      \* the result of its last call, Err while a call is under way
    acked     \* history: per inode, the last version whose write was confirmed

vars == <<dir, file, durable, pc, call, ino, held, ret, acked>>

Contents == Label \cup {Empty}

Call == [op : {"create", "get", "delete"}, label : {NoLabel}, layer : {NoLayer}]
        \cup [op : {"set"}, label : Label, layer : Layers \cup {NoLayer}]
NoCall == [op |-> "none", label |-> NoLabel, layer |-> NoLayer]

CreatePCs == {"create_stat", "create_open", "create_lock", "create_write", "create_sync"}
GetPCs == {"get_open", "get_lock", "get_read"}
SetPCs == {"set_open", "set_lock", "set_read", "set_truncate", "set_write", "set_sync"}
PCs == {"idle", "delete_unlink"} \cup CreatePCs \cup GetPCs \cup SetPCs

Init ==
    /\ dir = NoInode
    /\ file = [i \in Inodes |-> Unused]
    /\ durable = [i \in Inodes |-> {}]
    /\ pc = [t \in Tasks |-> "idle"]
    /\ call = [t \in Tasks |-> NoCall]
    /\ ino = [t \in Tasks |-> NoInode]
    /\ held = [t \in Tasks |-> NoLabel]
    /\ ret = [t \in Tasks |-> Err]
    /\ acked = [i \in Inodes |-> 0]

-----------------------------------------------------------------------------
(***************************************************************************)
(* Locks.  A task holds the lock of its file from the step that acquires   *)
(* it to the return of the call, where LockedFile or ExclusiveLockedFile   *)
(* is dropped.                                                             *)
(***************************************************************************)
Exclusive(t) == pc[t] \in {"create_write", "create_sync",
                           "set_read", "set_truncate", "set_write", "set_sync"}
Shared(t) == pc[t] = "get_read"

\* Mutant: the file is opened and not locked.
WithoutLock(t) == TRUE

CanLockExclusive(t) ==
    \A u \in Tasks \ {t} : Exclusive(u) \/ Shared(u) => ino[u] # ino[t]

CanLockShared(t) ==
    \A u \in Tasks \ {t} : Exclusive(u) => ino[u] # ino[t]

-----------------------------------------------------------------------------
Begin(t, op, l, layer, first) ==
    /\ pc[t] = "idle"
    /\ pc' = [pc EXCEPT ![t] = first]
    /\ call' = [call EXCEPT ![t] = [op |-> op, label |-> l, layer |-> layer]]
    /\ ret' = [ret EXCEPT ![t] = Err]
    /\ UNCHANGED <<dir, file, durable, ino, held, acked>>

\* The bound on files: every create under way can still get an inode.
InodesLeft ==
    Cardinality({i \in Inodes : file[i] = Unused})
        > Cardinality({t \in Tasks : pc[t] \in {"create_stat", "create_open"}})

CallCreate(t) == InodesLeft /\ Begin(t, "create", NoLabel, NoLayer, "create_stat")
CallGet(t) == Begin(t, "get", NoLabel, NoLayer, "get_open")
CallDelete(t) == Begin(t, "delete", NoLabel, NoLayer, "delete_unlink")

\* set_label and clear_label, on a label the caller got from an earlier call
CallSet(t, layer) ==
    /\ held[t] # NoLabel
    /\ held[t].version < MaxVersion
    /\ Begin(t, "set", held[t], layer, "set_open")

GoTo(t, next) == pc' = [pc EXCEPT ![t] = next] /\ UNCHANGED <<call, held, ret>>

\* The call returns; dropping its file unlocks and closes it.
Return(t, res) ==
    /\ pc' = [pc EXCEPT ![t] = "idle"]
    /\ call' = [call EXCEPT ![t] = NoCall]
    /\ ino' = [ino EXCEPT ![t] = NoInode]
    /\ ret' = [ret EXCEPT ![t] = res]
    /\ held' = IF res.label = NoLabel THEN held ELSE [held EXCEPT ![t] = res.label]

\* A write or truncation is visible at once and may or may not survive a crash
\* until the file is synced.
Store(i, contents) ==
    /\ file' = [file EXCEPT ![i] = contents]
    /\ durable' = [durable EXCEPT ![i] = @ \cup {contents}]

\* Mutant: write_all without sync_all.
WithoutSync(i) ==
    /\ acked' = [acked EXCEPT ![i] = file[i].version]
    /\ UNCHANGED durable

Sync(i) ==
    /\ durable' = [durable EXCEPT ![i] = {file[i]}]
    /\ acked' = [acked EXCEPT ![i] = file[i].version]

-----------------------------------------------------------------------------
\* create_label: metadata, then ExclusiveLockedFile::create_and_open, which
\* makes the file visible (create_new) before it asks for the lock.
CreateStat(t) ==
    /\ pc[t] = "create_stat"
    /\ \/ dir # NoInode /\ Return(t, Err)
       \/ dir = NoInode /\ GoTo(t, "create_open") /\ UNCHANGED ino
    /\ UNCHANGED <<dir, file, durable, acked>>

\* Mutant: open for writing without create_new.
CreateOpenExisting(t) ==
    /\ pc[t] = "create_open"
    /\ \/ /\ dir # NoInode
          /\ ino' = [ino EXCEPT ![t] = dir]
          /\ UNCHANGED <<dir, file, durable>>
       \/ /\ dir = NoInode
          /\ \E i \in Inodes :
                /\ file[i] = Unused
                /\ Store(i, Empty)
                /\ dir' = i
                /\ ino' = [ino EXCEPT ![t] = i]
    /\ GoTo(t, "create_lock")
    /\ UNCHANGED acked

CreateOpen(t) ==
    /\ pc[t] = "create_open"
    /\ \/ /\ dir # NoInode
          /\ Return(t, Err)
          /\ UNCHANGED <<dir, file, durable>>
       \/ /\ dir = NoInode
          /\ \E i \in Inodes :
                /\ file[i] = Unused
                /\ Store(i, Empty)
                /\ dir' = i
                /\ ino' = [ino EXCEPT ![t] = i]
          /\ GoTo(t, "create_lock")
    /\ UNCHANGED acked

CreateLock(t) ==
    /\ pc[t] = "create_lock"
    /\ CanLockExclusive(t)
    /\ GoTo(t, "create_write")
    /\ UNCHANGED <<dir, file, durable, ino, acked>>

CreateWrite(t) ==
    /\ pc[t] = "create_write"
    /\ Store(ino[t], NewEmpty)
    /\ GoTo(t, "create_sync")
    /\ UNCHANGED <<dir, ino, acked>>

CreateSync(t) ==
    /\ pc[t] = "create_sync"
    /\ Sync(ino[t])
    /\ Return(t, Ok(NewEmpty))
    /\ UNCHANGED <<dir, file>>

-----------------------------------------------------------------------------
\* get_label: open, lock_shared, read_to_end and get_label_from_data
GetOpen(t) ==
    /\ pc[t] = "get_open"
    /\ \/ dir = NoInode /\ Return(t, Ok(NoLabel))
       \/ /\ dir # NoInode
          /\ ino' = [ino EXCEPT ![t] = dir]
          /\ GoTo(t, "get_lock")
    /\ UNCHANGED <<dir, file, durable, acked>>

GetLock(t) ==
    /\ pc[t] = "get_lock"
    /\ CanLockShared(t)
    /\ GoTo(t, "get_read")
    /\ UNCHANGED <<dir, file, durable, ino, acked>>

\* Mutant: an empty file is taken for a label.
GetReadUnchecked(t) ==
    /\ pc[t] = "get_read"
    /\ Return(t, Ok(file[ino[t]]))
    /\ UNCHANGED <<dir, file, durable, acked>>

GetRead(t) ==
    /\ pc[t] = "get_read"
    /\ Return(t, IF file[ino[t]] = Empty THEN InvalidData ELSE Ok(file[ino[t]]))
    /\ UNCHANGED <<dir, file, durable, acked>>

-----------------------------------------------------------------------------
\* set_label_option: open and lock_exclusive, read and compare, truncate at
\* the start of the file, write, sync
SetOpen(t) ==
    /\ pc[t] = "set_open"
    /\ \/ dir = NoInode /\ Return(t, Err)
       \/ /\ dir # NoInode
          /\ ino' = [ino EXCEPT ![t] = dir]
          /\ GoTo(t, "set_lock")
    /\ UNCHANGED <<dir, file, durable, acked>>

SetLock(t) ==
    /\ pc[t] = "set_lock"
    /\ CanLockExclusive(t)
    /\ GoTo(t, "set_read")
    /\ UNCHANGED <<dir, file, durable, ino, acked>>

\* Mutant: an empty file is read again, under the lock, until it is complete.
SetReadRetry(t) ==
    /\ pc[t] = "set_read"
    /\ \/ file[ino[t]] = Empty /\ UNCHANGED <<pc, call, ino, held, ret>>
       \/ /\ file[ino[t]] # Empty
          /\ ~SameLabel(file[ino[t]], call[t].label)
          /\ Return(t, Ok(NoLabel))
       \/ /\ file[ino[t]] # Empty
          /\ SameLabel(file[ino[t]], call[t].label)
          /\ GoTo(t, "set_truncate")
          /\ UNCHANGED ino
    /\ UNCHANGED <<dir, file, durable, acked>>

SetRead(t) ==
    /\ pc[t] = "set_read"
    /\ \/ file[ino[t]] = Empty /\ Return(t, InvalidData)
       \/ /\ file[ino[t]] # Empty
          /\ ~SameLabel(file[ino[t]], call[t].label)
          /\ Return(t, Ok(NoLabel))
       \/ /\ file[ino[t]] # Empty
          /\ SameLabel(file[ino[t]], call[t].label)
          /\ GoTo(t, "set_truncate")
          /\ UNCHANGED ino
    /\ UNCHANGED <<dir, file, durable, acked>>

SetTruncate(t) ==
    /\ pc[t] = "set_truncate"
    /\ Store(ino[t], Empty)
    /\ GoTo(t, "set_write")
    /\ UNCHANGED <<dir, ino, acked>>

NewLabel(t) == WithUpdatedLayer(call[t].label, call[t].layer)

SetWrite(t) ==
    /\ pc[t] = "set_write"
    /\ Store(ino[t], NewLabel(t))
    /\ GoTo(t, "set_sync")
    /\ UNCHANGED <<dir, ino, acked>>

SetSync(t) ==
    /\ pc[t] = "set_sync"
    /\ Sync(ino[t])
    /\ Return(t, Ok(NewLabel(t)))
    /\ UNCHANGED <<dir, file>>

-----------------------------------------------------------------------------
\* delete_label: remove_file, without a lock
DeleteUnlink(t) ==
    /\ pc[t] = "delete_unlink"
    /\ dir' = NoInode
    /\ Return(t, OkBool(dir # NoInode))
    /\ UNCHANGED <<file, durable, acked>>

\* A crash of the machine (every contents since the last sync may be what is
\* left) or, as one of the cases, of the processes alone.
Crash ==
    /\ Crashes
    /\ file' \in {f \in [Inodes -> UNION {durable[i] : i \in Inodes} \cup {Unused}] :
                    \A i \in Inodes : IF file[i] = Unused THEN f[i] = Unused
                                                          ELSE f[i] \in durable[i]}
    /\ durable' = [i \in Inodes |-> IF file[i] = Unused THEN {} ELSE {file'[i]}]
    /\ pc' = [t \in Tasks |-> "idle"]
    /\ call' = [t \in Tasks |-> NoCall]
    /\ ino' = [t \in Tasks |-> NoInode]
    /\ held' = [t \in Tasks |-> NoLabel]
    /\ ret' = [t \in Tasks |-> Err]
    /\ UNCHANGED <<dir, acked>>

\* The steps of a call under way
Step(t) ==
    \/ CreateStat(t) \/ CreateOpen(t) \/ CreateLock(t) \/ CreateWrite(t) \/ CreateSync(t)
    \/ GetOpen(t) \/ GetLock(t) \/ GetRead(t)
    \/ SetOpen(t) \/ SetLock(t) \/ SetRead(t) \/ SetTruncate(t) \/ SetWrite(t) \/ SetSync(t)
    \/ DeleteUnlink(t)

Start(t) ==
    \/ CallCreate(t) \/ CallGet(t) \/ CallDelete(t)
    \/ \E layer \in Layers \cup {NoLayer} : CallSet(t, layer)

Next == Crash \/ \E t \in Tasks : Start(t) \/ Step(t)

Spec == Init /\ [][Next]_vars

\* The runtime polls a task that can go on; nothing obliges a client to call.
Fairness == \A t \in Tasks : WF_vars(Step(t))
FairSpec == Spec /\ Fairness

-----------------------------------------------------------------------------
TypeOK ==
    /\ dir \in Inodes \cup {NoInode}
    /\ file \in [Inodes -> Contents \cup {Unused}]
    /\ durable \in [Inodes -> SUBSET Contents]
    /\ pc \in [Tasks -> PCs]
    /\ call \in [Tasks -> Call \cup {NoCall}]
    /\ ino \in [Tasks -> Inodes \cup {NoInode}]
    /\ held \in [Tasks -> MaybeLabel]
    /\ ret \in [Tasks -> Result]
    /\ acked \in [Inodes -> Nat]

\* The exclusive lock of ExclusiveLockedFile shuts out every other reader and
\* writer of the same file, across unlinking and re-creation of the label.
LocksExclude ==
    \A t, u \in Tasks :
        t # u /\ Exclusive(t) /\ (Exclusive(u) \/ Shared(u)) => ino[t] # ino[u]

\* A reader never sees a label between truncate and write_all: the only empty
\* file it can read is that of a create_label that has made the file and does
\* not have the lock yet.
EmptyOnlyWhileCreating ==
    \A t \in Tasks :
        pc[t] \in {"get_read", "set_read"} /\ file[ino[t]] = Empty =>
            \E u \in Tasks : pc[u] = "create_lock" /\ ino[u] = ino[t]

\* A confirmed write is not undone by a crash: whatever a power failure can
\* leave of the file, if it is a label, is at least as new as the last one
\* whose writer was told Ok.
ConfirmedSurvives ==
    \A i \in Inodes : \A c \in durable[i] : c # Empty => c.version >= acked[i]

\* Two set_label calls on one file are never both confirmed with the same
\* version, crashes between them included: no confirmed update is overwritten
\* by another that did not see it.
ConfirmedVersionsIncrease ==
    [][\A t \in Tasks :
          pc[t] = "set_sync" /\ pc'[t] = "idle" /\ ret'[t].status = "ok" =>
              acked'[ino[t]] > acked[ino[t]]]_vars

-----------------------------------------------------------------------------
(***************************************************************************)
(* The label the file system represents: what the file says or, while a    *)
(* set_label has the file truncated, what it said; a file that create_label *)
(* has not written yet is no label.                                        *)
(***************************************************************************)
Rewriting(t) == pc[t] = "set_write" /\ ino[t] = dir

AbsLabel ==
    IF dir = NoInode THEN NoLabel
    ELSE IF file[dir] # Empty THEN file[dir]
    ELSE IF \E t \in Tasks : Rewriting(t)
         THEN call[CHOOSE t \in Tasks : Rewriting(t)].label
         ELSE NoLabel

Abstract == INSTANCE LabelStore WITH label <- AbsLabel

\* The files implement the label of the LabelStore trait: every step of a task
\* creates it empty, replaces it by a successor of it, deletes it, or leaves it
\* as it is.
ImplementsLabelStore == Abstract!LabelSpec

-----------------------------------------------------------------------------
\* Every lock is released: no error path of a call keeps one.
LocksAreReleased ==
    \A t \in Tasks : (Exclusive(t) \/ Shared(t)) ~> ~(Exclusive(t) \/ Shared(t))

\* No deadlock between the calls: once no new calls are made, every call under
\* way returns.
CallsReturn ==
    (<>[][\A t \in Tasks : ~Start(t)]_vars) => \A t \in Tasks : <>[](pc[t] = "idle")

-----------------------------------------------------------------------------
(***************************************************************************)
(* The strengthening behind the safety properties.                         *)
(***************************************************************************)
Creating(t) == pc[t] \in {"create_lock", "create_write", "create_sync"}
Updating(t) == pc[t] \in {"set_truncate", "set_write", "set_sync"}
Waiting(t) == pc[t] \in {"get_lock", "set_lock"}

\* A task between open and close has a file that exists, and a set_label its
\* arguments.
FilesAreOpen ==
    /\ dir # NoInode => file[dir] # Unused
    /\ \A t \in Tasks :
        /\ Exclusive(t) \/ Shared(t) \/ Creating(t) \/ Waiting(t) =>
              ino[t] \in Inodes /\ file[ino[t]] # Unused
        /\ pc[t] \in SetPCs => call[t] \in [op : {"set"}, label : Label,
                                            layer : Layers \cup {NoLayer}]

\* What a writer finds in its file is what it left there.
WritersAreAlone ==
    \A t \in Tasks :
        /\ pc[t] \in {"create_lock", "create_write", "set_write"} => file[ino[t]] = Empty
        /\ pc[t] = "create_sync" => file[ino[t]] = NewEmpty
        /\ pc[t] = "set_truncate" => file[ino[t]] = call[t].label
        /\ pc[t] = "set_sync" => file[ino[t]] = NewLabel(t)

\* A new file has one creator, and until it is written no one updates it.
CreatorsAreAlone ==
    \A t, u \in Tasks : t # u /\ Creating(t) /\ (Creating(u) \/ Updating(u)) => ino[t] # ino[u]

\* Confirmed versions are a lower bound of what is in the file or may be after a
\* crash, and of what an update under way started from.
ConfirmedIsOld ==
    /\ ConfirmedSurvives
    /\ \A i \in Inodes : IF file[i] = Unused THEN acked[i] = 0 ELSE file[i] \in durable[i]
    /\ \A t \in Tasks :
        /\ Creating(t) => acked[ino[t]] = 0
        /\ Updating(t) => call[t].label.version >= acked[ino[t]]

\* Without crashes an empty file is about to be written.
EmptyHasWriter ==
    \A i \in Inodes : file[i] = Empty =>
        \E t \in Tasks : ino[t] = i /\ pc[t] \in {"create_lock", "create_write", "set_write"}

IndInv ==
    /\ TypeOK /\ FilesAreOpen
    /\ LocksExclude /\ CreatorsAreAlone /\ WritersAreAlone
    /\ ConfirmedIsOld
    /\ ~Crashes => EmptyHasWriter
=============================================================================
