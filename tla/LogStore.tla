------------------------------ MODULE LogStore ------------------------------
(***************************************************************************)
(* The OpenRaft adapter's log store (adapters/openraft/src/storage.rs) on  *)
(* top of its flusher.  A call hands its record to the flusher, or writes  *)
(* it itself in synchronous mode, and replays it into memory under the     *)
(* same lock, so memory runs ahead of the disk.  append() returns at once  *)
(* and is completed by a callback; the other calls wait for a fence.  A    *)
(* crash loses memory and queue, and open() replays the journal.           *)
(*                                                                         *)
(* A work is one call.  The entries it appends are known by the work that  *)
(* wrote them, so logs maps an index to a work.                            *)
(***************************************************************************)
EXTENDS AsyncFlusher, SequencesExt

CONSTANTS
  MaxIndex,    \* bound: highest log index
  MaxVote,     \* bound: highest vote
  MaxCrashes   \* bound: crashes in a behaviour

ASSUME LogStoreAssumption == MaxIndex \in Nat /\ MaxVote \in Nat /\ MaxCrashes \in Nat

VARIABLES
  asynchronous, \* the store was opened with asynchronous_flush
  record,       \* the Record each call made so far has carried
  mem,          \* LogInner: logs, vote, committed
  replaying,    \* accepted call not yet replayed: it still holds the store's lock
  past,         \* calls made before the last crash
  crashes

storeVars == <<asynchronous, record, mem, replaying, past, crashes>>
allVars == <<vars, storeVars>>

NoRecord == [op |-> "none"]
EmptyStore == [logs |-> <<>>, vote |-> 0, committed |-> 0]

StoreInit ==
  /\ Init
  /\ asynchronous \in BOOLEAN
  /\ record = [w \in Works |-> NoRecord]
  /\ mem = EmptyStore
  /\ replaying = {} /\ past = {} /\ crashes = 0

-----------------------------------------------------------------------------
\* A mistake AckedRecovered is there to catch: truncation keeps its first entry.
KeptByTruncateInclusive(logs, index) == {i \in DOMAIN logs : i <= index}

\* split_off(&id.index)
KeptByTruncate(logs, index) == {i \in DOMAIN logs : i < index}

\* LogInner::replay
Replay(s, w, r) ==
  CASE r.op = "append" ->
         [s EXCEPT !.logs = [i \in DOMAIN s.logs \cup r.indexes |->
                               IF i \in r.indexes THEN w ELSE s.logs[i]]]
    [] r.op = "vote" -> [s EXCEPT !.vote = r.vote]
    [] r.op = "committed" -> [s EXCEPT !.committed = r.committed]
    [] OTHER -> [s EXCEPT !.logs = [i \in KeptByTruncate(s.logs, r.index) |-> s.logs[i]]]

ReplayInMemory(w, r) == mem' = Replay(mem, w, r)

\* LogStore::open on a journal with these records
Opened(works) == FoldLeft(LAMBDA s, w : Replay(s, w, record[w]), EmptyStore, works)

-----------------------------------------------------------------------------
(* OpenRaft's core, the only writer.  It waits for its fences, stops at    *)
(* the first storage error, appends behind its last entry, votes upwards   *)
(* and truncates only what is not committed.                               *)

LastIndex == FoldSet(LAMBDA i, m : IF i > m THEN i ELSE m, 0, DOMAIN mem.logs)

Offers ==
  {[op |-> "append", indexes |-> (LastIndex + 1)..n] : n \in (LastIndex + 1)..MaxIndex}
  \cup {[op |-> "vote", vote |-> v] : v \in (mem.vote + 1)..MaxVote}
  \cup {[op |-> "committed", committed |-> c] : c \in (mem.committed + 1)..LastIndex}
  \cup {[op |-> "truncate", index |-> i] : i \in (mem.committed + 1)..LastIndex}

Fenced(w) == record[w].op \notin {"none", "append"}
MayCall ==
  /\ replaying = {} /\ Offers # {}
  /\ \A w \in Works : stage[w] = "accepted" /\ Fenced(w) => outcome[w] # "none"
  /\ \A w \in Works \ past : outcome[w] # "err"

-----------------------------------------------------------------------------
(* append, save_vote, save_committed and truncate                          *)

\* submit_append or submit_fence up to the failure check ...
CallAdmit(w) == asynchronous /\ MayCall /\ Admit(w) /\ UNCHANGED storeVars
CallRefusedFailed(w) == asynchronous /\ MayCall /\ RefuseFailed(w) /\ UNCHANGED storeVars
CallCount(w) == Count(w) /\ UNCHANGED storeVars
CallRefusedFull(w) == RefuseFull(w) /\ UNCHANGED storeVars

\* ... then the record is queued, where the flusher may write and even complete
\* it at once, and then it is replayed; the store's lock is held throughout.
CallEnqueue(w) ==
  /\ Enqueue(w)
  /\ \E r \in Offers : record' = [record EXCEPT ![w] = r]
  /\ replaying' = {w}
  /\ UNCHANGED <<asynchronous, mem, past, crashes>>

CallReplay(w) ==
  /\ w \in replaying
  /\ ReplayInMemory(w, record[w])
  /\ replaying' = {}
  /\ UNCHANGED <<vars, asynchronous, record, past, crashes>>

\* write_synchronous: journal, memory and answer in one locked step.
CallSynchronous(w) ==
  /\ ~asynchronous /\ MayCall /\ stage[w] = "new"
  /\ stage' = [stage EXCEPT ![w] = "accepted"]
  /\ sent' = Append(sent, w) /\ recvd' = recvd + 1
  /\ journal' = Append(journal, w)
  /\ CompleteWith(w, "ok")
  /\ \E r \in Offers : record' = [record EXCEPT ![w] = r] /\ ReplayInMemory(w, r)
  /\ UNCHANGED <<failure, pending, maxPending, receiver, worker, result, closed, asynchronous,
                 replaying, past, crashes>>

\* The write fails, its frame perhaps in the file; memory stays as it was.
CallSynchronousFails(w) ==
  /\ ~asynchronous /\ MayCall /\ stage[w] = "new"
  /\ stage' = [stage EXCEPT ![w] = "refused"]
  /\ journal' \in {journal, Append(journal, w)}
  /\ CompleteWith(w, "err")
  /\ \E r \in Offers : record' = [record EXCEPT ![w] = r]
  /\ UNCHANGED <<failure, pending, maxPending, chanVars, worker, result, closed, asynchronous,
                 mem, replaying, past, crashes>>

\* The flusher's thread.
Flush == WorkerStep /\ UNCHANGED storeVars

-----------------------------------------------------------------------------
\* The process is killed and started again.  An append in progress may have
\* reached the file; what was queued is gone, and so is everyone who was waiting
\* for an answer.
Restart ==
  /\ crashes < MaxCrashes
  /\ crashes' = crashes + 1
  /\ journal' \in {journal} \cup IF worker = "append" THEN {Append(journal, Current)} ELSE {}
  /\ mem' = Opened(journal') /\ replaying' = {}
  /\ past' = {w \in Works : stage[w] # "new"}
  /\ stage' = [w \in Works |-> IF stage[w] = "new" THEN "new"
                               ELSE IF w \in ToSet(journal') THEN "accepted" ELSE "refused"]
  /\ outcome' = [w \in Works |-> IF w \in past' /\ outcome[w] = "none" THEN "err" ELSE outcome[w]]
  /\ sent' = journal' /\ recvd' = Len(journal') /\ receiver' = TRUE
  /\ failure' = FALSE /\ pending' = 0 /\ maxPending' = 0
  /\ worker' = "recv" /\ result' = "ok" /\ closed' = FALSE
  /\ UNCHANGED <<calls, asynchronous, record>>

-----------------------------------------------------------------------------
Call(w) ==
  \/ CallAdmit(w) \/ CallRefusedFailed(w) \/ CallCount(w) \/ CallRefusedFull(w) \/ CallEnqueue(w)
  \/ CallReplay(w) \/ CallSynchronous(w) \/ CallSynchronousFails(w)

StoreNext == (\E w \in Works : Call(w)) \/ Flush \/ Restart

StoreSpec == StoreInit /\ [][StoreNext]_allVars

-----------------------------------------------------------------------------
Acked(w) == outcome[w] = "ok"
Disk == Opened(journal)
\* v was accepted, or reached the disk, after w.
After(v, w) == \E s \in {sent, journal} :
                 \E i, j \in 1..Len(s) : i < j /\ s[i] = w /\ s[j] = v

\* Whatever was acknowledged is there after a crash at this moment: votes and
\* commit points never go back, and each appended entry is at its index unless
\* a later call truncated it.  append()'s callback and the fences of save_vote,
\* save_committed and truncate.
AckedRecovered ==
  \A w \in Works : Acked(w) =>
    CASE record[w].op = "vote" -> Disk.vote >= record[w].vote
      [] record[w].op = "committed" -> Disk.committed >= record[w].committed
      [] record[w].op = "append" ->
           \A i \in record[w].indexes :
             \/ i \in DOMAIN Disk.logs /\ Disk.logs[i] = w
             \/ \E v \in Works : After(v, w) /\ record[v].op = "truncate" /\ record[v].index <= i
      [] OTHER ->
           \A i \in DOMAIN Disk.logs : i >= record[w].index => After(Disk.logs[i], w)

\* At any crash the recovered log has no gap and reaches its commit point,
\* although truncations and appends are still on their way to the disk; and
\* what readers see whenever they get the store's lock is what the disk will
\* hold once everything accepted is written, a refused record never.
RecoveredWhole ==
  /\ \E n \in 0..MaxIndex : DOMAIN Disk.logs = 1..n /\ Disk.committed <= n
  /\ replaying = {} => mem = Opened(sent)

=============================================================================
