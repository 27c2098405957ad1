------------------------------ MODULE Journal -------------------------------
(***************************************************************************)
(* The checksum-framed journal (crates/common/src/journal.rs) on a file    *)
(* system that caches writes.  A file has its frames in write order, of    *)
(* which the first `synced` have reached the disk, and possibly a tail     *)
(* that is not a complete valid frame.  The journal's name is resolved     *)
(* through the directory, whose last change may not be on disk either.     *)
(*                                                                         *)
(* Records are numbered in append order: a "record" frame holds record n,  *)
(* a "snapshot" frame stands for records 1..n.  A kill loses the process   *)
(* and keeps the caches; a power loss also loses any part of them.         *)
(***************************************************************************)
EXTENDS Naturals, Sequences

CONSTANTS
  Inodes,          \* files the directory can name
  None,            \* no file
  MaxLog,          \* bound: records appended in a behaviour
  PowerLossInGap   \* may power fail while a reopened file is still unsynced?

ASSUME JournalAssumption ==
  /\ None \notin Inodes
  /\ MaxLog \in Nat
  /\ PowerLossInGap \in BOOLEAN

VARIABLES
  file,       \* contents of each inode
  path,       \* the inode the journal's name resolves to
  pathDisk,   \* the inode the on-disk directory gives it
  temp,       \* the inode named <path>.checkpoint.tmp
  handle,     \* self.file
  poisoned,   \* self.poisoned
  pc,         \* control point of open, append or checkpoint_payload
  known,      \* records the owner knows of: recovered or acknowledged
  acked,      \* records some append has returned Ok for
  inherited   \* the open file, or its name, was left unsynced by a killed process

dirVars == <<path, pathDisk, temp>>
vars == <<file, path, pathDisk, temp, handle, poisoned, pc, known, acked, inherited>>

Empty == [frames |-> <<>>, synced |-> 0, tail |-> "none"]

Init ==
  /\ file = [i \in Inodes |-> Empty]
  /\ path = None /\ pathDisk = None /\ temp = None /\ handle = None
  /\ poisoned = FALSE
  /\ pc = "down"
  /\ known = 0 /\ acked = 0
  /\ inherited = FALSE

-----------------------------------------------------------------------------
Frame(k, n) == [kind |-> k, n |-> n]

\* The record number that replaying the frames ends at.
Recover(frames) == IF frames = <<>> THEN 0 ELSE frames[Len(frames)].n

Unused == Inodes \ {path, pathDisk, temp, handle}

\* sync_all or sync_data on inode i, which has no incomplete tail
Synced(i) == [file EXCEPT ![i] = [@ EXCEPT !.synced = Len(file[i].frames), !.tail = "none"]]

Settled == path = pathDisk /\ (path # None => file[path].synced = Len(file[path].frames))

\* A snapshot of records 1..n goes to the temporary file; an older one left
\* there is truncated.
WriteTemporary(n, next) ==
  /\ pc = "ck_write"
  /\ \E i \in IF temp = None THEN Unused ELSE {temp} :
       /\ temp' = i
       /\ file' = [file EXCEPT ![i] =
            [frames |-> <<Frame("snapshot", n)>>, synced |-> 0, tail |-> "none"]]
  /\ pc' = next
  /\ UNCHANGED <<path, pathDisk, handle, poisoned, known, acked, inherited>>

-----------------------------------------------------------------------------
(* Mistakes the properties below are there to catch.                       *)

\* The last complete frame is cut off with the incomplete one.
TruncateTooMuch ==
  /\ pc = "scan" /\ file[handle].tail \in {"short", "zeros"}
  /\ file' = [file EXCEPT ![handle].tail = "cut",
                         ![handle].frames = SubSeq(@, 1, IF @ = <<>> THEN 0 ELSE Len(@) - 1)]
  /\ pc' = "sync_cut"
  /\ UNCHANGED <<dirVars, handle, poisoned, known, acked, inherited>>

\* The writer is not poisoned while its file is being replaced.
CheckpointUnpoisoned ==
  /\ pc = "ready" /\ ~poisoned /\ known > 0
  /\ pc' = "ck_write"
  /\ UNCHANGED <<file, dirVars, handle, poisoned, known, acked, inherited>>

-----------------------------------------------------------------------------
(* Journal::open                                                           *)

OpenExisting ==
  /\ pc = "down" /\ path # None
  /\ handle' = path
  /\ pc' = "scan"
  /\ UNCHANGED <<file, dirVars, poisoned, known, acked, inherited>>

OpenCreate ==
  /\ pc = "down" /\ path = None
  /\ \E i \in Unused :
       /\ path' = i /\ handle' = i
       /\ file' = [file EXCEPT ![i] = Empty]
  /\ pc' = "sync_new"
  /\ UNCHANGED <<pathDisk, temp, poisoned, known, acked, inherited>>

\* The file is new: sync it and its parent directory.
OpenSyncNew ==
  /\ pc = "sync_new"
  /\ pathDisk' = path
  /\ pc' = "scan"
  /\ UNCHANGED <<file, path, temp, handle, poisoned, known, acked, inherited>>

\* A complete frame with a bad checksum, or a malformed length.
OpenRefuse ==
  /\ pc = "scan" /\ file[handle].tail = "bad"
  /\ pc' = "refused"
  /\ UNCHANGED <<file, dirVars, handle, poisoned, known, acked, inherited>>

\* An incomplete or zero-filled tail is cut off ...
OpenTruncate ==
  /\ pc = "scan" /\ file[handle].tail \in {"short", "zeros"}
  /\ file' = [file EXCEPT ![handle].tail = "cut"]
  /\ pc' = "sync_cut"
  /\ UNCHANGED <<dirVars, handle, poisoned, known, acked, inherited>>

Opened ==
  /\ poisoned' = FALSE
  /\ known' = Recover(file[handle].frames)
  /\ pc' = "ready"

\* ... and the file synced before it is used.
OpenSyncCut ==
  /\ pc = "sync_cut"
  /\ file' = Synced(handle)
  /\ Opened
  /\ inherited' = (inherited /\ path # pathDisk)
  /\ UNCHANGED <<dirVars, handle, acked>>

OpenClean ==
  /\ pc = "scan" /\ file[handle].tail \in {"none", "cut"}
  /\ Opened
  /\ UNCHANGED <<file, dirVars, handle, acked, inherited>>

-----------------------------------------------------------------------------
(* Journal::append                                                         *)

AppendBegin ==
  /\ pc = "ready" /\ ~poisoned /\ known < MaxLog
  /\ pc' = "writing"
  /\ UNCHANGED <<file, dirVars, handle, poisoned, known, acked, inherited>>

AppendWrite ==
  /\ pc = "writing"
  /\ file' = [file EXCEPT ![handle].frames = Append(@, Frame("record", known + 1))]
  /\ pc' = "syncing"
  /\ UNCHANGED <<dirVars, handle, poisoned, known, acked, inherited>>

AppendSync ==
  /\ pc = "syncing"
  /\ file' = Synced(handle)
  /\ known' = known + 1
  /\ acked' = known + 1
  /\ pc' = "ready"
  /\ inherited' = (inherited /\ path # pathDisk)
  /\ UNCHANGED <<dirVars, handle, poisoned>>

\* write_all stopped early, or sync_data failed: the owner gets the error and
\* stops; the writer is not poisoned.
AppendError ==
  /\ pc \in {"writing", "syncing"}
  /\ \E t \in {"none", "short"} :
       /\ pc = "syncing" => t = "none"
       /\ file' = [file EXCEPT ![handle].tail = t]
  /\ pc' = "failed"
  /\ UNCHANGED <<dirVars, handle, poisoned, known, acked, inherited>>

-----------------------------------------------------------------------------
(* Journal::checkpoint_payload.  DurableModel only passes it a snapshot of *)
(* everything applied so far, and never one of nothing.                    *)

CheckpointBegin ==
  /\ pc = "ready" /\ ~poisoned /\ known > 0
  /\ poisoned' = TRUE
  /\ pc' = "ck_write"
  /\ UNCHANGED <<file, dirVars, handle, known, acked, inherited>>

CheckpointWrite == WriteTemporary(known, "ck_sync")

CheckpointSync ==
  /\ pc = "ck_sync"
  /\ file' = Synced(temp)
  /\ pc' = "ck_rename"
  /\ UNCHANGED <<dirVars, handle, poisoned, known, acked, inherited>>

CheckpointRename ==
  /\ pc = "ck_rename"
  /\ path' = temp /\ temp' = None
  /\ pc' = "ck_dir"
  /\ UNCHANGED <<file, pathDisk, handle, poisoned, known, acked, inherited>>

CheckpointSyncDir ==
  /\ pc = "ck_dir"
  /\ pathDisk' = path
  /\ pc' = "ck_reopen"
  /\ inherited' = FALSE
  /\ UNCHANGED <<file, path, temp, handle, poisoned, known, acked>>

CheckpointReopen ==
  /\ pc = "ck_reopen"
  /\ handle' = path
  /\ poisoned' = FALSE
  /\ pc' = "ready"
  /\ UNCHANGED <<file, dirVars, known, acked, inherited>>

\* Any step fails: the error goes to the caller and the writer stays poisoned.
CheckpointError ==
  /\ pc \in {"ck_write", "ck_sync", "ck_rename", "ck_dir", "ck_reopen"}
  /\ pc' = "ready"
  /\ UNCHANGED <<file, dirVars, handle, poisoned, known, acked, inherited>>

-----------------------------------------------------------------------------
(* Faults                                                                  *)

\* The process ends: by a signal, or because its owner met an error.
Kill ==
  /\ pc # "down"
  /\ \E t \in {"none", "short"} :
       /\ pc # "writing" => t = "none"
       /\ file' = IF t = "none" THEN file ELSE [file EXCEPT ![handle].tail = t]
  /\ handle' = None
  /\ poisoned' = FALSE
  /\ pc' = "down"
  /\ inherited' = ~Settled
  /\ UNCHANGED <<dirVars, known, acked>>

\* What can be left of file i: at least what was synced, and perhaps a tail
\* of what came after that.
Survivors(i) ==
  LET f == file[i]
      unsynced(n) == n < Len(f.frames) \/ f.tail # "none" \/ (pc = "writing" /\ i = handle)
  IN  UNION {{[frames |-> SubSeq(f.frames, 1, n), synced |-> n, tail |-> t] :
                t \in {"none"} \cup IF unsynced(n) THEN {"short", "zeros", "bad"} ELSE {}} :
             n \in f.synced..Len(f.frames)}

\* The directory has its old or its new contents.  Files it does not name are
\* gone; the temporary file, never read, counts as one of them.
PowerLoss ==
  /\ inherited => PowerLossInGap
  /\ \E p \in {path, pathDisk} : \E f \in IF p = None THEN {Empty} ELSE Survivors(p) :
       /\ path' = p /\ pathDisk' = p
       /\ file' = [i \in Inodes |-> IF i = p THEN f ELSE Empty]
  /\ temp' = None
  /\ handle' = None
  /\ poisoned' = FALSE
  /\ pc' = "down"
  /\ inherited' = FALSE
  /\ UNCHANGED <<known, acked>>

-----------------------------------------------------------------------------
Next ==
  \/ OpenExisting \/ OpenCreate \/ OpenSyncNew \/ OpenRefuse \/ OpenTruncate
  \/ OpenSyncCut \/ OpenClean
  \/ AppendBegin \/ AppendWrite \/ AppendSync \/ AppendError
  \/ CheckpointBegin \/ CheckpointWrite \/ CheckpointSync \/ CheckpointRename
  \/ CheckpointSyncDir \/ CheckpointReopen \/ CheckpointError
  \/ Kill \/ PowerLoss

Spec == Init /\ [][Next]_vars

-----------------------------------------------------------------------------
\* Every append that returned Ok is among the records a later open returns:
\* across kills at any instruction, power losses, and checkpoints that were
\* interrupted or failed anywhere between the temporary file and the reopen.
AckedSurvives == pc = "ready" => known >= acked

\* What the owner sees, whatever happens to the files, is a DurableLog.
isUp == pc \notin {"down", "sync_new", "scan", "sync_cut", "refused"}
Log == INSTANCE DurableLog WITH
  log <- known,
  isOpen <- isUp,
  trying <- IF isUp THEN pc \in {"writing", "syncing", "failed"}
                    ELSE path # None /\ Recover(file[path].frames) > known
ImplementsDurableLog == Log!Spec
=============================================================================
