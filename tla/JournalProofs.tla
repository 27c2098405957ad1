--------------------------- MODULE JournalProofs ----------------------------
(***************************************************************************)
(* Journal implements DurableLog for any number of inodes and records, and *)
(* any number of checkpoints, failed calls, kills and power losses outside *)
(* the window that PowerLossInGap opens.                                   *)
(*                                                                         *)
(* The invariant says, for each control point, which record the file the   *)
(* name leads to ends at (ContentInv) and, while nothing was inherited     *)
(* unsynced from a killed process, that a power loss would leave such a    *)
(* file as well, under whichever name is on disk (SyncInv).  ControlInv    *)
(* ties handle, name and temporary file to the control point.              *)
(***************************************************************************)
EXTENDS Journal, SequenceTheorems, TLAPS

Closed == {"down", "sync_new", "scan", "sync_cut", "refused"}
Checkpointing == {"ck_write", "ck_sync", "ck_rename", "ck_dir", "ck_reopen"}
Points == Closed \cup Checkpointing \cup {"ready", "writing", "syncing", "failed"}
Tails == {"none", "short", "zeros", "bad", "cut"}
Frames == [kind : {"record", "snapshot"}, n : Nat]
Contents == [frames : Seq(Frames), synced : Nat, tail : Tails]

\* The record that replaying the first m frames ends at.
EndsAt(frames, m) == IF m = 0 THEN 0 ELSE frames[m].n
Last(i) == Recover(file[i].frames)
Whole(i) == file[i].synced = Len(file[i].frames)

TypeInv ==
  /\ file \in [Inodes -> Contents]
  /\ \A i \in Inodes : file[i].synced <= Len(file[i].frames)
  /\ path \in Inodes \cup {None} /\ pathDisk \in Inodes \cup {None}
  /\ temp \in Inodes \cup {None} /\ handle \in Inodes \cup {None}
  /\ poisoned \in BOOLEAN /\ inherited \in BOOLEAN
  /\ pc \in Points
  /\ known \in Nat /\ acked \in Nat

ControlInv ==
  /\ path = None => pc = "down" /\ pathDisk = None /\ known = 0 /\ ~inherited
  /\ pc \in {"ck_dir", "ck_reopen"} \/ (pc = "ready" /\ poisoned) => handle # None
  /\ pc \notin {"down", "ck_dir", "ck_reopen"} /\ ~(pc = "ready" /\ poisoned) => handle = path
  /\ temp # None => temp \notin {path, pathDisk, handle}
  /\ pc \in Checkpointing => poisoned
  /\ poisoned => pc \in Checkpointing \cup {"ready"}
  /\ pc = "sync_new" => pathDisk = None /\ known = 0 /\ ~inherited /\ file[path].frames = <<>>
  /\ pc \in {"ck_sync", "ck_rename"} => temp # None /\ Last(temp) = known
  /\ pc = "ck_rename" => Whole(temp)
  /\ pc \in {"ck_dir", "ck_reopen"} => Whole(path)
  /\ pc = "ck_reopen" => path = pathDisk

ContentInv ==
  /\ acked <= known
  /\ pc \in Closed /\ path # None => Last(path) \in {known, known + 1}
  /\ pc \in Checkpointing \cup {"ready", "writing"} => Last(path) = known
  /\ pc = "syncing" => Last(path) = known + 1
  /\ pc = "failed" => Last(path) \in {known, known + 1}

SyncInv ==
  ~inherited =>
    /\ pc # "sync_new" /\ ~poisoned => path = pathDisk
    /\ pc \notin {"syncing", "failed"} /\ path # None => Whole(path)
    /\ pc \in {"syncing", "failed"} =>
         \A m \in file[path].synced..Len(file[path].frames) :
           EndsAt(file[path].frames, m) \in {known, known + 1}
    /\ poisoned => pathDisk # None /\ Whole(pathDisk) /\ Last(pathDisk) = known

IInv == TypeInv /\ ControlInv /\ ContentInv /\ SyncInv

-----------------------------------------------------------------------------
\* What each way of changing a file leaves: its frames, how many are synced,
\* and that no other file changed.
FilesTyped(f) == f \in [Inodes -> Contents] /\ \A i \in Inodes : f[i].synced <= Len(f[i].frames)

LEMMA RecoverType == ASSUME NEW f \in Seq(Frames) PROVE Recover(f) \in Nat
<1>1. CASE f = <<>>
  BY Zenon, <1>1 DEF Recover
<1>2. CASE f # <<>>
  <2>1. Len(f) \in 1..Len(f)
    BY <1>2, EmptySeq, LenProperties
  <2>2. f[Len(f)] \in Frames
    BY Zenon, <2>1, ElementOfSeq
  <2> QED  BY Zenon, <1>2, <2>2 DEF Recover, Frames
<1> QED  BY Zenon, <1>1, <1>2

LEMMA SyncedFile ==
  ASSUME FilesTyped(file), NEW i \in Inodes
  PROVE  /\ FilesTyped(Synced(i))
         /\ Synced(i)[i].frames = file[i].frames
         /\ Synced(i)[i].synced = Len(file[i].frames)
         /\ \A j \in Inodes : j # i => Synced(i)[j] = file[j]
<1> DEFINE c == [file[i] EXCEPT !.synced = Len(file[i].frames), !.tail = "none"]
<1>1. file[i] \in Contents /\ Len(file[i].frames) \in Nat
  BY LenProperties DEF FilesTyped
<1>2. c \in Contents /\ c.frames = file[i].frames /\ c.synced = Len(file[i].frames)
  BY Zenon, <1>1 DEF Contents, Tails
<1>3. Synced(i) = [file EXCEPT ![i] = c]
  BY Zenon DEF Synced
<1> QED  BY <1>1, <1>2, <1>3 DEF FilesTyped

LEMMA TailedFile ==
  ASSUME FilesTyped(file), NEW i \in Inodes, NEW t \in Tails
  PROVE  LET g == [file EXCEPT ![i].tail = t] IN
         /\ FilesTyped(g)
         /\ \A j \in Inodes : g[j].frames = file[j].frames /\ g[j].synced = file[j].synced
<1> DEFINE c == [file[i] EXCEPT !.tail = t]
<1>1. file[i] \in Contents
  BY Zenon DEF FilesTyped
<1>2. c \in Contents /\ c.frames = file[i].frames /\ c.synced = file[i].synced
  BY Zenon, <1>1 DEF Contents
<1>3. [file EXCEPT ![i].tail = t] = [file EXCEPT ![i] = c]
  BY Zenon
<1> QED  BY Zenon, <1>1, <1>2, <1>3 DEF FilesTyped

-----------------------------------------------------------------------------
\* Before the first open.
LEMMA InitIInv == Init => IInv
<1> SUFFICES ASSUME Init PROVE IInv
  BY Zenon
<1>1. Empty \in Contents /\ Empty.synced <= Len(Empty.frames)
  BY EmptySeq DEF Empty, Contents, Tails
<1>2. TypeInv
  BY Zenon, <1>1 DEF Init, TypeInv, Points, Closed
<1>3. ControlInv /\ ContentInv /\ SyncInv
  BY DEF Init, ControlInv, ContentInv, SyncInv, Checkpointing
<1> QED  BY Zenon, <1>2, <1>3 DEF IInv

LEMMA OpenExistingKeeps == ASSUME IInv, OpenExisting PROVE IInv'
<1>1. TypeInv'
  BY Zenon DEF IInv, TypeInv, OpenExisting, Points, Closed, dirVars
<1>2. ControlInv'
  BY Zenon DEF IInv, ControlInv, OpenExisting, Checkpointing, dirVars
<1>3. ContentInv'
  BY Zenon DEF IInv, ContentInv, OpenExisting, Closed, Checkpointing, dirVars, Last
<1>4. SyncInv'
  BY Zenon DEF IInv, SyncInv, OpenExisting, dirVars, Last, Whole
<1> QED  BY Zenon, <1>1, <1>2, <1>3, <1>4 DEF IInv

LEMMA OpenCreateKeeps == ASSUME IInv, OpenCreate PROVE IInv'
<1>1. TypeInv'
  BY DEF IInv, TypeInv, OpenCreate, Unused, Empty, Contents, Tails, Points, Closed
<1>2. ControlInv'
  BY DEF IInv, TypeInv, ControlInv, OpenCreate, Unused, Empty, Checkpointing
<1>3. ContentInv'
  BY DEF IInv, TypeInv, ControlInv, ContentInv, OpenCreate, Unused, Empty, Recover, Last
<1>4. SyncInv'
  BY DEF IInv, TypeInv, SyncInv, OpenCreate, Unused, Empty, Last, Whole
<1> QED  BY Zenon, <1>1, <1>2, <1>3, <1>4 DEF IInv

LEMMA OpenSyncNewKeeps == ASSUME IInv, OpenSyncNew PROVE IInv'
<1>1. TypeInv'
  BY Zenon DEF IInv, TypeInv, OpenSyncNew, Points, Closed
<1>2. ControlInv'
  BY Zenon DEF IInv, ControlInv, OpenSyncNew, Checkpointing
<1>3. ContentInv'
  BY Zenon DEF IInv, ContentInv, OpenSyncNew, Closed, Checkpointing, Last
<1>4. SyncInv'
  BY Zenon DEF IInv, ControlInv, SyncInv, OpenSyncNew, Whole
<1> QED  BY Zenon, <1>1, <1>2, <1>3, <1>4 DEF IInv

LEMMA OpenRefuseKeeps == ASSUME IInv, OpenRefuse PROVE IInv'
<1>1. TypeInv'
  BY Zenon DEF IInv, TypeInv, OpenRefuse, Points, Closed, dirVars
<1>2. ControlInv'
  BY Zenon DEF IInv, ControlInv, OpenRefuse, Checkpointing, dirVars
<1>3. ContentInv'
  BY Zenon DEF IInv, ContentInv, OpenRefuse, Closed, Checkpointing, dirVars, Last
<1>4. SyncInv'
  BY Zenon DEF IInv, SyncInv, OpenRefuse, dirVars, Last, Whole
<1> QED  BY Zenon, <1>1, <1>2, <1>3, <1>4 DEF IInv

LEMMA OpenTruncateKeeps == ASSUME IInv, OpenTruncate PROVE IInv'
<1>1. TypeInv'
  BY Zenon DEF IInv, TypeInv, OpenTruncate, Contents, Tails, Points, Closed, dirVars
<1>2. ControlInv'
  BY Zenon DEF IInv, ControlInv, OpenTruncate, Checkpointing, dirVars
<1>3. ContentInv'
  BY DEF IInv, ContentInv, OpenTruncate, Closed, Checkpointing, dirVars, Last
<1>4. SyncInv'
  BY DEF IInv, SyncInv, OpenTruncate, dirVars, Last, Whole
<1> QED  BY Zenon, <1>1, <1>2, <1>3, <1>4 DEF IInv

LEMMA OpenSyncCutKeeps == ASSUME IInv, OpenSyncCut PROVE IInv'
<1>a. FilesTyped(file)
  BY Zenon DEF IInv, TypeInv, FilesTyped
<1>b. handle = path /\ handle \in Inodes
  BY Zenon DEF IInv, TypeInv, ControlInv, OpenSyncCut
<1>c. Recover(file[handle].frames) \in Nat
  BY Zenon, <1>a, <1>b, RecoverType DEF FilesTyped, Contents
<1>1. TypeInv'
  BY Zenon, <1>a, <1>b, <1>c, SyncedFile DEF IInv, TypeInv, FilesTyped, OpenSyncCut, Opened, Points, dirVars
<1>2. ControlInv'
  BY Zenon DEF IInv, ControlInv, OpenSyncCut, Opened, Checkpointing, dirVars
<1>3. ContentInv'
  BY DEF IInv, TypeInv, ControlInv, ContentInv, OpenSyncCut, Opened, Synced, Closed, dirVars, Last
<1>4. SyncInv'
  BY DEF IInv, TypeInv, ControlInv, SyncInv, OpenSyncCut, Opened, Synced, Checkpointing, dirVars, Whole
<1> QED  BY Zenon, <1>1, <1>2, <1>3, <1>4 DEF IInv

LEMMA OpenCleanKeeps == ASSUME IInv, OpenClean PROVE IInv'
<1>a. FilesTyped(file)
  BY Zenon DEF IInv, TypeInv, FilesTyped
<1>b. handle = path /\ handle \in Inodes
  BY Zenon DEF IInv, TypeInv, ControlInv, OpenClean
<1>c. Recover(file[handle].frames) \in Nat
  BY Zenon, <1>a, <1>b, RecoverType DEF FilesTyped, Contents
<1>1. TypeInv'
  BY Zenon, <1>c DEF IInv, TypeInv, OpenClean, Opened, Points, dirVars
<1>2. ControlInv'
  BY Zenon DEF IInv, ControlInv, OpenClean, Opened, Checkpointing, dirVars
<1>3. ContentInv'
  BY DEF IInv, TypeInv, ControlInv, ContentInv, OpenClean, Opened, Closed, dirVars, Last
<1>4. SyncInv'
  BY Zenon DEF IInv, ControlInv, SyncInv, OpenClean, Opened, Checkpointing, dirVars, Whole
<1> QED  BY Zenon, <1>1, <1>2, <1>3, <1>4 DEF IInv

LEMMA AppendBeginKeeps == ASSUME IInv, AppendBegin PROVE IInv'
<1>1. TypeInv'
  BY Zenon DEF IInv, TypeInv, AppendBegin, Points, dirVars
<1>2. ControlInv'
  BY Zenon DEF IInv, ControlInv, AppendBegin, Checkpointing, dirVars
<1>3. ContentInv'
  BY Zenon DEF IInv, ContentInv, AppendBegin, dirVars, Last
<1>4. SyncInv'
  BY Zenon DEF IInv, SyncInv, AppendBegin, dirVars, Whole
<1> QED  BY Zenon, <1>1, <1>2, <1>3, <1>4 DEF IInv

LEMMA AppendWriteKeeps == ASSUME IInv, AppendWrite PROVE IInv'
<1>a. FilesTyped(file)
  BY Zenon DEF IInv, TypeInv, FilesTyped
<1>b. handle = path /\ handle \in Inodes
  BY Zenon DEF IInv, TypeInv, ControlInv, AppendWrite
<1> DEFINE old == file[handle].frames
           new == Append(old, Frame("record", known + 1))
<1>c. /\ old \in Seq(Frames) /\ new \in Seq(Frames)
      /\ Len(old) \in Nat /\ Len(new) = Len(old) + 1
      /\ new[Len(old) + 1].n = known + 1
      /\ \A m \in 1..Len(old) : new[m] = old[m]
  <2>1. Frame("record", known + 1) \in Frames /\ Frame("record", known + 1).n = known + 1
    BY DEF IInv, TypeInv, Frame, Frames
  <2>2. old \in Seq(Frames)
    BY Zenon, <1>a, <1>b DEF FilesTyped, Contents
  <2> QED  BY <2>1, <2>2, AppendProperties, LenProperties
<1>d. file' = [file EXCEPT ![handle] = [@ EXCEPT !.frames = new]]
  BY Zenon DEF AppendWrite
<1> HIDE DEF old, new
<1>1. TypeInv'
  <2>1. file[handle] \in Contents
    BY Zenon, <1>a, <1>b DEF FilesTyped
  <2>2. [file[handle] EXCEPT !.frames = new] \in Contents
    BY Zenon, <1>c, <2>1 DEF Contents
  <2>3. FilesTyped(file')
    BY <1>a, <1>b, <1>c, <1>d, <2>1, <2>2 DEF FilesTyped, Contents, old
  <2> QED  BY Zenon, <2>3 DEF IInv, TypeInv, FilesTyped, AppendWrite, Points, dirVars
<1>2. ControlInv'
  BY Zenon DEF IInv, ControlInv, AppendWrite, Checkpointing, dirVars
<1>3. ContentInv'
  BY JournalAssumption DEF IInv, TypeInv, ControlInv, ContentInv, AppendWrite, Frame, Recover, Checkpointing, dirVars, Last
<1>4. SyncInv'
  <2> SUFFICES ASSUME ~inherited PROVE SyncInv'
    BY Zenon DEF SyncInv, AppendWrite
  <2>1. file'[handle].frames = new /\ file'[handle].synced = Len(old)
    BY <1>a, <1>b, <1>d, JournalAssumption DEF FilesTyped, Contents, IInv, SyncInv, Whole, AppendWrite, old
  <2>2. EndsAt(new, Len(old)) = known
    <3>1. Recover(old) = known /\ (old = <<>> <=> Len(old) = 0)
      BY Zenon, <1>b, <1>c, EmptySeq DEF IInv, ContentInv, Last, AppendWrite, old
    <3> QED  BY <1>c, <3>1 DEF EndsAt, Recover
  <2>3. EndsAt(new, Len(old) + 1) = known + 1
    BY <1>c DEF EndsAt
  <2>4. \A m \in Len(old)..Len(new) : EndsAt(new, m) \in {known, known + 1}
    BY <1>c, <2>2, <2>3
  <2>5. ~poisoned /\ path = pathDisk
    BY Zenon DEF IInv, ControlInv, SyncInv, AppendWrite, Checkpointing
  <2> QED  BY Zenon, <1>b, <2>1, <2>4, <2>5 DEF SyncInv, AppendWrite, dirVars
<1> QED  BY Zenon, <1>1, <1>2, <1>3, <1>4 DEF IInv

LEMMA AppendSyncKeeps == ASSUME IInv, AppendSync PROVE IInv'
<1>a. FilesTyped(file)
  BY Zenon DEF IInv, TypeInv, FilesTyped
<1>b. handle = path /\ handle \in Inodes
  BY Zenon DEF IInv, TypeInv, ControlInv, AppendSync
<1>1. TypeInv'
  BY <1>a, <1>b, SyncedFile DEF IInv, TypeInv, FilesTyped, AppendSync, Points, dirVars
<1>2. ControlInv'
  BY Zenon DEF IInv, ControlInv, AppendSync, Checkpointing, dirVars
<1>3. ContentInv'
  BY DEF IInv, TypeInv, ContentInv, AppendSync, Synced, dirVars, Last
<1>4. SyncInv'
  BY DEF IInv, TypeInv, ControlInv, SyncInv, AppendSync, Synced, Checkpointing, dirVars, Whole
<1> QED  BY Zenon, <1>1, <1>2, <1>3, <1>4 DEF IInv

LEMMA AppendErrorKeeps == ASSUME IInv, AppendError PROVE IInv'
<1>a. FilesTyped(file)
  BY Zenon DEF IInv, TypeInv, FilesTyped
<1>b. handle = path /\ handle \in Inodes
  BY Zenon DEF IInv, TypeInv, ControlInv, AppendError
<1>c. /\ FilesTyped(file')
      /\ \A j \in Inodes : file'[j].frames = file[j].frames /\ file'[j].synced = file[j].synced
  <2>1. PICK t \in {"none", "short"} : file' = [file EXCEPT ![handle].tail = t]
    BY Zenon DEF AppendError
  <2>2. t \in Tails
    BY Zenon DEF Tails
  <2> QED  BY ZenonT(30), <1>a, <1>b, <2>1, <2>2, TailedFile
<1>1. TypeInv'
  BY Zenon, <1>c DEF IInv, TypeInv, FilesTyped, AppendError, Points, dirVars
<1>2. ControlInv'
  BY Zenon DEF IInv, ControlInv, AppendError, Checkpointing, dirVars
<1>3. ContentInv'
  BY DEF IInv, ContentInv, AppendError, Checkpointing, dirVars, Last
<1>4. SyncInv'
  <2>1. pc = "writing" /\ ~inherited =>
          \A m \in file[path].synced..Len(file[path].frames) : EndsAt(file[path].frames, m) = known
    <3> SUFFICES ASSUME pc = "writing", ~inherited, NEW m \in file[path].synced..Len(file[path].frames)
                 PROVE  EndsAt(file[path].frames, m) = known
      BY Zenon
    <3>1. file[path].frames \in Seq(Frames)
      BY Zenon, <1>a, <1>b DEF FilesTyped, Contents
    <3>2. m = Len(file[path].frames) /\ Recover(file[path].frames) = known
      BY <1>b, <3>1, LenProperties, JournalAssumption DEF IInv, ContentInv, SyncInv, Whole, Last
    <3> QED  BY Zenon, <3>1, <3>2, EmptySeq DEF EndsAt, Recover
  <2>2. pc' = "failed" /\ ~poisoned /\ path' = path /\ known' = known /\ inherited' = inherited
    BY Zenon DEF IInv, ControlInv, AppendError, Checkpointing, dirVars
  <2> QED  BY <1>b, <1>c, <2>1, <2>2 DEF IInv, SyncInv, AppendError, dirVars
<1> QED  BY Zenon, <1>1, <1>2, <1>3, <1>4 DEF IInv

LEMMA CheckpointBeginKeeps == ASSUME IInv, CheckpointBegin PROVE IInv'
<1>1. TypeInv'
  BY Zenon DEF IInv, TypeInv, CheckpointBegin, Points, Checkpointing, dirVars
<1>2. ControlInv'
  BY Zenon DEF IInv, ControlInv, CheckpointBegin, Checkpointing, dirVars
<1>3. ContentInv'
  BY Zenon DEF IInv, ContentInv, CheckpointBegin, dirVars, Last
<1>4. SyncInv'
  BY Zenon DEF IInv, ControlInv, ContentInv, SyncInv, CheckpointBegin, dirVars, Last, Whole
<1> QED  BY Zenon, <1>1, <1>2, <1>3, <1>4 DEF IInv

LEMMA CheckpointWriteKeeps == ASSUME IInv, CheckpointWrite PROVE IInv'
<1>1. TypeInv'
  BY DEF IInv, TypeInv, CheckpointWrite, WriteTemporary, Unused, Frame, Contents, Frames, Tails, Points, Checkpointing
<1>2. ControlInv'
  BY DEF IInv, TypeInv, ControlInv, CheckpointWrite, WriteTemporary, Unused, Frame, Recover, Checkpointing, Last
<1>3. ContentInv'
  BY DEF IInv, ContentInv, CheckpointWrite, WriteTemporary, Frame, Recover, Checkpointing, Last
<1>4. SyncInv'
  BY DEF IInv, ControlInv, SyncInv, CheckpointWrite, WriteTemporary, Unused, Last, Whole
<1> QED  BY Zenon, <1>1, <1>2, <1>3, <1>4 DEF IInv

LEMMA CheckpointSyncKeeps == ASSUME IInv, CheckpointSync PROVE IInv'
<1>a. FilesTyped(file)
  BY Zenon DEF IInv, TypeInv, FilesTyped
<1>b. temp \in Inodes
  BY Zenon DEF IInv, TypeInv, ControlInv, CheckpointSync
<1>1. TypeInv'
  BY Zenon, <1>a, <1>b, SyncedFile DEF IInv, TypeInv, FilesTyped, CheckpointSync, Points, Checkpointing, dirVars
<1>2. ControlInv'
  BY DEF IInv, TypeInv, ControlInv, CheckpointSync, Synced, Checkpointing, dirVars, Last, Whole
<1>3. ContentInv'
  BY DEF IInv, ContentInv, CheckpointSync, Synced, Checkpointing, dirVars, Last
<1>4. SyncInv'
  BY DEF IInv, SyncInv, CheckpointSync, Synced, dirVars, Last, Whole
<1> QED  BY Zenon, <1>1, <1>2, <1>3, <1>4 DEF IInv

LEMMA CheckpointRenameKeeps == ASSUME IInv, CheckpointRename PROVE IInv'
<1>1. TypeInv'
  BY Zenon DEF IInv, TypeInv, CheckpointRename, Points, Checkpointing
<1>2. ControlInv'
  BY Zenon DEF IInv, ControlInv, CheckpointRename, Checkpointing, Whole
<1>3. ContentInv'
  BY Zenon DEF IInv, ControlInv, ContentInv, CheckpointRename, Last
<1>4. SyncInv'
  BY Zenon DEF IInv, ControlInv, SyncInv, CheckpointRename, Checkpointing, Last, Whole
<1> QED  BY Zenon, <1>1, <1>2, <1>3, <1>4 DEF IInv

LEMMA CheckpointSyncDirKeeps == ASSUME IInv, CheckpointSyncDir PROVE IInv'
<1>1. TypeInv'
  BY Zenon DEF IInv, TypeInv, CheckpointSyncDir, Points, Checkpointing
<1>2. ControlInv'
  BY Zenon DEF IInv, ControlInv, CheckpointSyncDir, Checkpointing, Whole
<1>3. ContentInv'
  BY Zenon DEF IInv, ContentInv, CheckpointSyncDir, Checkpointing, Last
<1>4. SyncInv'
  BY Zenon DEF IInv, ControlInv, ContentInv, SyncInv, CheckpointSyncDir, Last, Whole
<1> QED  BY Zenon, <1>1, <1>2, <1>3, <1>4 DEF IInv

LEMMA CheckpointReopenKeeps == ASSUME IInv, CheckpointReopen PROVE IInv'
<1>1. TypeInv'
  BY Zenon DEF IInv, TypeInv, CheckpointReopen, Points, dirVars
<1>2. ControlInv'
  BY Zenon DEF IInv, ControlInv, CheckpointReopen, Checkpointing, dirVars
<1>3. ContentInv'
  BY Zenon DEF IInv, ContentInv, CheckpointReopen, Checkpointing, dirVars, Last
<1>4. SyncInv'
  BY Zenon DEF IInv, ControlInv, SyncInv, CheckpointReopen, dirVars, Whole
<1> QED  BY Zenon, <1>1, <1>2, <1>3, <1>4 DEF IInv

LEMMA CheckpointErrorKeeps == ASSUME IInv, CheckpointError PROVE IInv'
<1>1. TypeInv'
  BY Zenon DEF IInv, TypeInv, CheckpointError, Points, dirVars
<1>2. ControlInv'
  BY Zenon DEF IInv, ControlInv, CheckpointError, Checkpointing, dirVars
<1>3. ContentInv'
  BY Zenon DEF IInv, ContentInv, CheckpointError, Checkpointing, dirVars, Last
<1>4. SyncInv'
  BY Zenon DEF IInv, SyncInv, CheckpointError, dirVars, Last, Whole
<1> QED  BY Zenon, <1>1, <1>2, <1>3, <1>4 DEF IInv

\* A kill can leave a torn frame behind and changes nothing else in the files.
LEMMA KilledFiles ==
  ASSUME IInv, Kill
  PROVE  /\ FilesTyped(file')
         /\ \A j \in Inodes : file'[j].frames = file[j].frames /\ file'[j].synced = file[j].synced
<1>1. FilesTyped(file)
  BY Zenon DEF IInv, TypeInv, FilesTyped
<1>2. pc = "writing" => handle \in Inodes
  BY Zenon DEF IInv, TypeInv, ControlInv
<1>3. PICK t \in {"none", "short"} :
        /\ pc # "writing" => t = "none"
        /\ file' = IF t = "none" THEN file ELSE [file EXCEPT ![handle].tail = t]
  BY Zenon DEF Kill
<1>4. t \in Tails
  BY Zenon DEF Tails
<1>5. CASE t = "none"
  BY Zenon, <1>1, <1>3, <1>5
<1>6. CASE t # "none"
  BY Zenon, <1>1, <1>2, <1>3, <1>4, <1>6, TailedFile
<1> QED  BY Zenon, <1>5, <1>6

LEMMA KillKeeps == ASSUME IInv, Kill PROVE IInv'
<1>1. TypeInv'
  BY Zenon, KilledFiles DEF IInv, TypeInv, FilesTyped, Kill, Points, Closed, dirVars
<1>2. ControlInv'
  BY Zenon DEF IInv, ControlInv, Kill, Checkpointing, dirVars
<1>3. ContentInv'
  BY Zenon, KilledFiles DEF IInv, TypeInv, ContentInv, Kill, Points, Checkpointing, dirVars, Last
<1>4. SyncInv'
  BY Zenon, KilledFiles DEF IInv, TypeInv, SyncInv, Kill, Settled, dirVars, Whole
<1> QED  BY Zenon, <1>1, <1>2, <1>3, <1>4 DEF IInv

\* A power loss leaves the name on disk, or the name as it was last changed,
\* leading to a file that ends where SyncInv says.
LEMMA SurvivorFile ==
  ASSUME FilesTyped(file), NEW i \in Inodes, NEW f \in Survivors(i)
  PROVE  /\ f \in Contents /\ f.synced = Len(f.frames)
         /\ \E n \in file[i].synced..Len(file[i].frames) :
              Recover(f.frames) = EndsAt(file[i].frames, n)
<1>1. file[i].frames \in Seq(Frames) /\ Len(file[i].frames) \in Nat /\ file[i].synced \in Nat
  BY Zenon, LenProperties DEF FilesTyped, Contents
<1>2. PICK n \in file[i].synced..Len(file[i].frames), t \in {"none", "short", "zeros", "bad"} :
        f = [frames |-> SubSeq(file[i].frames, 1, n), synced |-> n, tail |-> t]
  BY Zenon DEF Survivors
<1>3. n \in Nat /\ n <= Len(file[i].frames)
  BY <1>1
<1>4. /\ SubSeq(file[i].frames, 1, n) \in Seq(Frames)
      /\ Len(SubSeq(file[i].frames, 1, n)) = n
      /\ \A k \in 1..n : SubSeq(file[i].frames, 1, n)[k] = file[i].frames[k]
  BY <1>1, <1>3, SubSeqProperties
<1>5. f \in Contents /\ f.synced = Len(f.frames)
  BY Zenon, <1>2, <1>3, <1>4 DEF Contents, Tails
<1>6. Recover(f.frames) = EndsAt(file[i].frames, n)
  <2>1. f.frames = SubSeq(file[i].frames, 1, n) /\ (f.frames = <<>> <=> n = 0)
    BY Zenon, <1>2, <1>4, EmptySeq
  <2> QED  BY <1>3, <1>4, <2>1 DEF Recover, EndsAt
<1> QED  BY Zenon, <1>5, <1>6

LEMMA LossLeaves ==
  ASSUME IInv, PowerLoss
  PROVE  /\ FilesTyped(file')
         /\ \E p \in {path, pathDisk} :
              /\ path' = p /\ pathDisk' = p
              /\ p # None =>
                   /\ p \in Inodes
                   /\ file'[p].synced = Len(file'[p].frames)
                   /\ \E n \in file[p].synced..Len(file[p].frames) :
                        Recover(file'[p].frames) = EndsAt(file[p].frames, n)
                   /\ Whole(p) => Recover(file'[p].frames) = Last(p)
<1>1. FilesTyped(file)
  BY Zenon DEF IInv, TypeInv, FilesTyped
<1>2. PICK p \in {path, pathDisk} : \E f \in IF p = None THEN {Empty} ELSE Survivors(p) :
        path' = p /\ pathDisk' = p /\ file' = [i \in Inodes |-> IF i = p THEN f ELSE Empty]
  BY Zenon DEF PowerLoss
<1>3. PICK f \in IF p = None THEN {Empty} ELSE Survivors(p) :
        path' = p /\ pathDisk' = p /\ file' = [i \in Inodes |-> IF i = p THEN f ELSE Empty]
  BY Zenon, <1>2
<1>4. Empty \in Contents /\ Empty.synced = Len(Empty.frames)
  BY Zenon, EmptySeq DEF Empty, Contents, Tails
<1>5. p # None => p \in Inodes /\ f \in Survivors(p)
  BY Zenon, <1>3 DEF IInv, TypeInv
<1>6. f \in Contents /\ f.synced = Len(f.frames)
  BY Zenon, <1>1, <1>3, <1>4, <1>5, SurvivorFile
<1>7. FilesTyped(file')
  BY <1>3, <1>4, <1>6, LenProperties DEF FilesTyped
<1>8. ASSUME p # None
      PROVE  /\ \E n \in file[p].synced..Len(file[p].frames) : Recover(f.frames) = EndsAt(file[p].frames, n)
             /\ Whole(p) => Recover(f.frames) = Last(p)
  <2>1. PICK n \in file[p].synced..Len(file[p].frames) : Recover(f.frames) = EndsAt(file[p].frames, n)
    BY Zenon, <1>1, <1>5, <1>8, SurvivorFile
  <2>2. file[p].frames \in Seq(Frames) /\ file[p].synced \in Nat /\ Len(file[p].frames) \in Nat
    BY Zenon, <1>1, <1>5, <1>8, LenProperties DEF FilesTyped, Contents
  <2>3. ASSUME Whole(p) PROVE n = Len(file[p].frames)
    BY <2>1, <2>2, <2>3 DEF Whole
  <2> QED  BY Zenon, <2>1, <2>2, <2>3, EmptySeq DEF Last, Recover, EndsAt
<1> QED  BY Zenon, <1>3, <1>5, <1>6, <1>7, <1>8

LEMMA PowerLossKeeps == ASSUME IInv, PowerLoss, ~PowerLossInGap PROVE IInv'
<1>1. ~inherited
  BY Zenon DEF PowerLoss
<1>2. PICK p \in {path, pathDisk} :
        /\ path' = p /\ pathDisk' = p
        /\ p # None =>
             /\ p \in Inodes
             /\ file'[p].synced = Len(file'[p].frames)
             /\ \E n \in file[p].synced..Len(file[p].frames) :
                  Recover(file'[p].frames) = EndsAt(file[p].frames, n)
             /\ Whole(p) => Recover(file'[p].frames) = Last(p)
  BY Zenon, LossLeaves
<1>3. p = None => known = 0
  BY Zenon, <1>1 DEF IInv, ControlInv, SyncInv
<1>4. p # None => Recover(file'[p].frames) \in {known, known + 1}
  <2>1. CASE pc \in {"syncing", "failed"}
    BY Zenon, <1>1, <1>2, <2>1 DEF IInv, SyncInv
  <2>2. CASE pc \notin {"syncing", "failed"}
    BY Zenon, <1>1, <1>2, <2>2
       DEF IInv, TypeInv, ControlInv, ContentInv, SyncInv, Points, Closed, Checkpointing
  <2> QED  BY Zenon, <2>1, <2>2
<1>5. TypeInv'
  BY Zenon, <1>2, LossLeaves DEF IInv, TypeInv, FilesTyped, PowerLoss, Points, Closed
<1>6. ControlInv'
  BY Zenon, <1>2, <1>3 DEF PowerLoss, ControlInv, Checkpointing
<1>7. ContentInv'
  BY Zenon, <1>2, <1>4 DEF IInv, ContentInv, PowerLoss, Checkpointing, Last
<1>8. SyncInv'
  BY Zenon, <1>2 DEF PowerLoss, SyncInv, Whole
<1> QED  BY Zenon, <1>5, <1>6, <1>7, <1>8 DEF IInv

-----------------------------------------------------------------------------
LEMMA NextKeeps == ASSUME IInv, [Next]_vars, ~PowerLossInGap PROVE IInv'
<1>1. CASE Next
  BY Zenon, <1>1, OpenExistingKeeps, OpenCreateKeeps, OpenSyncNewKeeps, OpenRefuseKeeps, OpenTruncateKeeps,
     OpenSyncCutKeeps, OpenCleanKeeps, AppendBeginKeeps, AppendWriteKeeps, AppendSyncKeeps,
     AppendErrorKeeps, CheckpointBeginKeeps, CheckpointWriteKeeps, CheckpointSyncKeeps,
     CheckpointRenameKeeps, CheckpointSyncDirKeeps, CheckpointReopenKeeps, CheckpointErrorKeeps,
     KillKeeps, PowerLossKeeps DEF Next
<1>2. CASE UNCHANGED vars
  <2>1. TypeInv' /\ ControlInv'
    BY <1>2 DEF IInv, TypeInv, ControlInv, vars, Last, Whole
  <2>2. ContentInv' /\ SyncInv'
    BY Zenon, <1>2 DEF IInv, ContentInv, SyncInv, vars, Last, Whole
  <2> QED  BY Zenon, <2>1, <2>2 DEF IInv
<1> QED  BY Zenon, <1>1, <1>2

LEMMA SpecIInv == ASSUME ~PowerLossInGap PROVE Spec => []IInv
<1>1. IInv /\ [Next]_vars => IInv'
  BY Zenon, NextKeeps
<1> QED  BY <1>1, InitIInv, PTL DEF Spec

\* Every append that returned Ok is there after every later open, whatever
\* kills, failed calls and interrupted checkpoints came between, and whatever
\* power losses as long as none hits a file that a killed process left unsynced.
THEOREM AcknowledgedSurvive == ASSUME ~PowerLossInGap PROVE Spec => []AckedSurvives
<1>1. IInv => AckedSurvives
  BY Zenon DEF IInv, ContentInv, AckedSurvives
<1> QED  BY <1>1, SpecIInv, PTL

-----------------------------------------------------------------------------
(* The refinement.  Trying is what the instance Log substitutes for trying. *)
Trying == IF isUp THEN pc \in {"writing", "syncing", "failed"}
                  ELSE path # None /\ Recover(file[path].frames) > known
LogStep == [Log!Next]_<<known, isUp, Trying>>

\* No step of open, before the last, shows in the log.
LEMMA OpeningStutters ==
  ASSUME IInv, IInv', OpenExisting \/ OpenCreate \/ OpenSyncNew \/ OpenRefuse \/ OpenTruncate
  PROVE  UNCHANGED <<known, isUp, Trying>>
<1>1. UNCHANGED <<known, isUp>> /\ ~isUp
  BY Zenon DEF OpenExisting, OpenCreate, OpenSyncNew, OpenRefuse, OpenTruncate, isUp
<1>2. CASE OpenExisting \/ OpenSyncNew \/ OpenRefuse
  BY Zenon, <1>1, <1>2 DEF OpenExisting, OpenSyncNew, OpenRefuse, Trying, dirVars
<1>3. CASE OpenTruncate
  BY <1>1, <1>3 DEF OpenTruncate, Trying, dirVars
<1>4. CASE OpenCreate
  BY <1>1, <1>4 DEF OpenCreate, Trying, Recover, IInv, ControlInv
<1> QED  BY Zenon, <1>1, <1>2, <1>3, <1>4

\* The last one opens it, with the interrupted record or without.
LEMMA OpenedIsOpen == ASSUME IInv, IInv', OpenSyncCut \/ OpenClean PROVE Log!Open
<1>1. ~isUp /\ isUp' /\ ~Trying'
  BY Zenon DEF OpenSyncCut, OpenClean, Opened, isUp, Trying
<1>2. handle = path /\ path # None /\ known \in Nat
  BY Zenon DEF IInv, TypeInv, ControlInv, OpenSyncCut, OpenClean
<1>3. known' = Last(path) /\ Last(path) \in {known, known + 1}
  BY Zenon, <1>2 DEF IInv, ContentInv, OpenSyncCut, OpenClean, Opened, Closed, Last
<1> QED  BY <1>1, <1>2, <1>3 DEF Log!Open, Trying, Last

LEMMA AppendBeginIsBegin == ASSUME AppendBegin PROVE Log!Begin
  BY Zenon DEF AppendBegin, Log!Begin, isUp

LEMMA AppendSyncAcknowledges == ASSUME AppendSync PROVE Log!Acknowledge
  BY DEF AppendSync, Log!Acknowledge, isUp

\* Neither a failed append nor any step of a checkpoint shows.
LEMMA OtherStutters ==
  ASSUME \/ AppendWrite \/ AppendError
         \/ CheckpointBegin \/ CheckpointWrite \/ CheckpointSync \/ CheckpointRename
         \/ CheckpointSyncDir \/ CheckpointReopen \/ CheckpointError
  PROVE  UNCHANGED <<known, isUp, Trying>>
<1>1. UNCHANGED <<known, isUp>> /\ isUp
  BY Zenon DEF AppendWrite, AppendError, CheckpointBegin, CheckpointWrite, WriteTemporary, CheckpointSync,
     CheckpointRename, CheckpointSyncDir, CheckpointReopen, CheckpointError, isUp
<1>2. pc \in {"writing", "syncing", "failed"} <=> pc' \in {"writing", "syncing", "failed"}
  BY Zenon DEF AppendWrite, AppendError, CheckpointBegin, CheckpointWrite, WriteTemporary, CheckpointSync,
     CheckpointRename, CheckpointSyncDir, CheckpointReopen, CheckpointError
<1> QED  BY <1>1, <1>2 DEF Trying

LEMMA TryingType == Trying \in BOOLEAN
<1> DEFINE appending == pc \in {"writing", "syncing", "failed"}
           pending == path # None /\ Recover(file[path].frames) > known
<1>1. appending \in BOOLEAN /\ pending \in BOOLEAN
  OBVIOUS
<1>2. Trying = IF isUp THEN appending ELSE pending
  BY Zenon DEF Trying
<1> HIDE DEF appending, pending
<1> QED  BY Zenon, <1>1, <1>2

LEMMA TryingTypeAfter == (Trying \in BOOLEAN)'
  BY TryingType, PTL

\* A kill or a power loss stops the owner; no record appears that was not
\* being written.
LEMMA FaultStops == ASSUME IInv, ~PowerLossInGap, Kill \/ PowerLoss PROVE Log!Stop
<1>1. ~isUp' /\ known' = known /\ known \in Nat
  BY Zenon DEF Kill, PowerLoss, isUp, IInv, TypeInv
<1>2. ASSUME Trying' PROVE Trying
  <2>1. path' # None /\ Recover(file'[path'].frames) > known
    BY Zenon, <1>1, <1>2 DEF Trying
  <2>2. CASE Kill
    <3>1. path # None /\ path \in Inodes /\ Last(path) > known
      BY Zenon, <2>1, <2>2, KilledFiles DEF IInv, TypeInv, Kill, dirVars, Last
    <3> QED  BY <1>1, <3>1 DEF IInv, TypeInv, ContentInv, Trying, isUp, Last, Points, Closed
  <2>3. CASE PowerLoss
    <3>1. PICK p \in {path, pathDisk} :
            /\ path' = p
            /\ (p # None /\ Whole(p)) => Recover(file'[p].frames) = Last(p)
      BY Zenon, <2>3, LossLeaves
    <3>2. ~inherited
      BY Zenon, <2>3 DEF PowerLoss
    <3>3. CASE pc \in {"syncing", "failed"}
      BY Zenon, <3>3 DEF Trying, isUp
    <3>4. CASE pc \notin {"syncing", "failed"}
      <4>1. Whole(p) /\ Last(p) > known
        BY Zenon, <2>1, <3>1, <3>2, <3>4
           DEF IInv, TypeInv, ControlInv, SyncInv, Points, Closed, Checkpointing
      <4> QED  BY SMTT(30), <1>1, <2>1, <3>1, <3>2, <3>4, <4>1
               DEF IInv, TypeInv, ControlInv, ContentInv, SyncInv, Trying, isUp, Last, Points, Closed, Checkpointing
    <3> QED  BY Zenon, <3>3, <3>4
  <2> QED  BY Zenon, <2>2, <2>3
<1>3. Trying \in BOOLEAN
  BY Zenon, TryingType
<1>4. Trying' \in BOOLEAN
  BY Zenon, TryingTypeAfter
<1>5. Trying' \in {Trying, FALSE}
  BY Zenon, <1>2, <1>3, <1>4
<1>6. isUp' = FALSE
  BY Zenon, <1>1 DEF isUp
<1> QED  BY Zenon, <1>1, <1>5, <1>6 DEF Log!Stop, Trying

\* Every step of the journal is a step of the log or invisible to its owner.
LEMMA StepRefines == ASSUME IInv, IInv', ~PowerLossInGap, [Next]_vars PROVE LogStep
<1>1. CASE Next
  BY Zenon, <1>1, OpeningStutters, OpenedIsOpen, AppendBeginIsBegin, AppendSyncAcknowledges, OtherStutters,
     FaultStops DEF Next, LogStep, Log!Next
<1>2. CASE UNCHANGED vars
  BY Zenon, <1>2 DEF vars, LogStep, Trying, isUp
<1> QED  BY Zenon, <1>1, <1>2

\* For any number of files, records and faults outside that window, the journal
\* is the log its owner may rely on: an interrupted append is there at the next
\* open or never was, everything older is there, and checkpoints do not show.
THEOREM JournalImplementsLog == ASSUME ~PowerLossInGap PROVE Spec => ImplementsDurableLog
<1>1. Init => Log!Init
  BY Zenon DEF Init, Log!Init, isUp
<1>2. IInv /\ IInv' /\ [Next]_vars => [Log!Next]_<<known, isUp, Trying>>
  BY Zenon, StepRefines DEF LogStep
<1> QED  BY <1>1, <1>2, SpecIInv, PTL DEF Spec, ImplementsDurableLog, Log!Spec, Trying
=============================================================================
