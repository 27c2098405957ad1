---------------------------- MODULE DurableModel ----------------------------
(***************************************************************************)
(* DurableModel (crates/common/src/model.rs) on several replicas of one    *)
(* Raft log.  Each replica keeps the model, the applied index and the      *)
(* adapter's metadata in memory, and a journal of applied batches and      *)
(* snapshots.  Journal::append and checkpoint_payload are atomic here; the *)
(* module Journal shows why they may be taken so.                          *)
(***************************************************************************)
EXTENDS KVModel

CONSTANTS
  Replicas,
  Commands,    \* the commands clients send; all of them valid
  FirstIndex,  \* Raft index of the first entry: 0 in OpenRaft, 1 in the others
  MaxLog       \* bound: length of the Raft log in a behaviour

ASSUME DurableModelAssumption == FirstIndex \in {0, 1} /\ MaxLog \in Nat

VARIABLES
  raftLog,  \* the Raft log (external); replicas learn of it in any prefix
  mem,      \* a replica's DurableModel; Down while it is not running
  journal   \* a replica's journal: batches and snapshots

vars == <<raftLog, mem, journal>>

Down == [up |-> FALSE]
Fresh == [up |-> TRUE, ok |-> TRUE, model |-> EmptyModel, index |-> 0, applied |-> FALSE, metadata |-> 0]

Init ==
  /\ raftLog \in [1..MaxLog -> Commands \cup {Noop}]
  /\ mem = [r \in Replicas |-> Fresh]
  /\ journal = [r \in Replicas |-> <<>>]

-----------------------------------------------------------------------------
\* Positions in raftLog and Raft indexes.
IndexOf(pos) == pos - 1 + FirstIndex
NextPos(s) == IF s.applied THEN s.index + 2 - FirstIndex ELSE 1

\* A mistake JournalRebuildsState is there to catch: a snapshot leaves the
\* sessions out.
SnapshotOfValues(s) ==
  [kind |-> "snapshot", index |-> s.index, metadata |-> s.metadata,
   model |-> [s.model EXCEPT !.sessions = EmptyModel.sessions]]

\* Entries without a command carry the adapter's metadata; its value is where.
ReplayEntry(s, pos) ==
  LET e == raftLog[pos]
  IN  IF s.applied /\ IndexOf(pos) <= s.index THEN [s EXCEPT !.ok = FALSE]
      ELSE [s EXCEPT !.index = IndexOf(pos), !.applied = TRUE,
                     !.metadata = IF e = Noop THEN pos ELSE @,
                     !.model = IF e = Noop THEN @ ELSE Apply(@, e).model]

\* The model's outcome for the entry at pos, in state s.
OutcomeOf(s, pos) == Apply(s.model, raftLog[pos]).outcome

\* DurableModel::replay of the batch of positions from..to
Replay(s, batch) ==
  FoldLeft(ReplayEntry, s, [i \in 1..(batch.to - batch.from + 1) |-> batch.from + i - 1])

Snapshot(s) == [kind |-> "snapshot", index |-> s.index, model |-> s.model, metadata |-> s.metadata]

SameState(s, snap) == snap.model = s.model /\ snap.metadata = s.metadata

\* DurableModel::restore_snapshot, ~ok where it bails
Restore(s, snap) ==
  IF \/ snap.index = 0
     \/ s.applied /\ snap.index < s.index
     \/ s.applied /\ snap.index = s.index /\ ~SameState(s, snap)
    THEN [s EXCEPT !.ok = FALSE]
    ELSE [s EXCEPT !.index = snap.index, !.applied = TRUE, !.model = snap.model, !.metadata = snap.metadata]

ReplayRecord(s, rec) == IF rec.kind = "batch" THEN Replay(s, rec) ELSE Restore(s, rec)

\* DurableModel::open
OpenFrom(records) == FoldLeft(ReplayRecord, Fresh, records)

-----------------------------------------------------------------------------
\* DurableModel::apply of the next committed entries up to position `to`,
\* or a kill between its append to the journal and its replay.
ApplyBatch(r, to, killed) ==
  LET s == mem[r]
      batch == [kind |-> "batch", from |-> NextPos(s), to |-> to]
  IN  /\ s.up /\ to \in batch.from..Len(raftLog)
      /\ journal' = [journal EXCEPT ![r] = Append(@, batch)]
      /\ mem' = [mem EXCEPT ![r] = IF killed THEN Down ELSE Replay(s, batch)]
      /\ UNCHANGED raftLog

\* checkpoint_snapshot: the journal becomes one snapshot record.  Whether the
\* journal is large enough for it is left open.
Checkpoint(r) ==
  /\ mem[r].up /\ mem[r].index # 0
  /\ journal' = [journal EXCEPT ![r] = <<Snapshot(mem[r])>>]
  /\ UNCHANGED <<raftLog, mem>>

\* install_snapshot of what another replica encoded; an identical snapshot at
\* the current index changes nothing, any other not ahead of it is refused.
InstallSnapshot(r, from) ==
  LET s == mem[r]
      snap == Snapshot(mem[from])
  IN  /\ s.up /\ mem[from].up
      /\ snap.index # 0
      /\ s.applied => snap.index > s.index
      /\ journal' = [journal EXCEPT ![r] = Append(@, snap)]
      /\ mem' = [mem EXCEPT ![r] = Restore(s, snap)]
      /\ UNCHANGED raftLog

Kill(r) ==
  /\ mem[r].up
  /\ mem' = [mem EXCEPT ![r] = Down]
  /\ UNCHANGED <<raftLog, journal>>

Open(r) ==
  /\ ~mem[r].up
  /\ mem' = [mem EXCEPT ![r] = OpenFrom(journal[r])]
  /\ UNCHANGED <<raftLog, journal>>

Next ==
  \E r \in Replicas :
       \/ \E to \in 1..MaxLog, killed \in BOOLEAN : ApplyBatch(r, to, killed)
       \/ Checkpoint(r) \/ Kill(r) \/ Open(r)
       \/ \E from \in Replicas \ {r} : InstallSnapshot(r, from)

Spec == Init /\ [][Next]_vars

-----------------------------------------------------------------------------
\* However batches, checkpoints, installed snapshots, kills and reopens were
\* mixed, a running replica holds the values the log defines at its index.
ReplicaMatchesLog ==
  \A r \in Replicas : mem[r].up =>
    mem[r].model.values = ValuesAfter(raftLog, NextPos(mem[r]) - 1)

\* The outcome any replica, in any life of it, returns for its next entry is
\* the one answer the log defines: retries are deduplicated, a reused sequence
\* number and an outdated retry are refused.
AnswersMatchLog ==
  \A r \in Replicas : LET pos == NextPos(mem[r]) IN
    mem[r].up /\ pos <= Len(raftLog) /\ raftLog[pos] # Noop =>
      OutcomeOf(mem[r], pos) = Answer(raftLog, pos)

\* Reopening never refuses a journal the replica wrote itself, and rebuilds
\* exactly the state that was in memory.
JournalRebuildsState ==
  \A r \in Replicas :
    /\ OpenFrom(journal[r]).ok
    /\ mem[r].up => OpenFrom(journal[r]) = mem[r]

=============================================================================
