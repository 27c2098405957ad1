---------------------------- MODULE ApplyWorker -----------------------------
(***************************************************************************)
(* Ordered application: the owner's loop as the application path sees it   *)
(* (crates/common/src/actor.rs, actor/application.rs) around the bounded   *)
(* application worker (crates/common/src/apply_worker.rs).                 *)
(*                                                                         *)
(* Two threads.  The owner goes round its loop: complete persistence,      *)
(* consume completions, compact, dispatch, take one input.  The worker     *)
(* holds the store's lock while it applies a batch; its loop belongs to    *)
(* the Rafter runtime and is modelled from its use.  A log entry is its    *)
(* index and a batch a range of indexes.  Every internal consistency check *)
(* of the code ends the process, here with exit = "check".                 *)
(***************************************************************************)
EXTENDS Naturals, Sequences, Functions

CONSTANTS
  Queries,            \* status and dump requests, each made once
  QueueEntries,       \* QUEUE_ENTRIES: credits of the worker
  BatchEntries,       \* BATCH_ENTRIES
  QueryLimit,         \* QUERY_LIMIT
  SnapshotInterval,   \* snapshot_interval_entries
  NodeId,             \* config.id
  CompletionPriority, \* durable_completion_priority
  MaxIndex            \* bound: highest log index, until indexes are renumbered

ASSUME ApplyWorkerAssumption ==
  /\ QueueEntries \in Nat \ {0} /\ BatchEntries \in Nat \ {0} /\ QueryLimit \in Nat \ {0}
  /\ SnapshotInterval \in Nat /\ NodeId \in 1..3 /\ MaxIndex \in Nat
  /\ CompletionPriority \in BOOLEAN

VARIABLES
  committed,   \* engine.committed_through()
  compacted,   \* engine.snapshot_index()
  persisting,  \* engine.persistence_pending()
  dispatched,  \* State.dispatched
  resolved,    \* highest index whose outcome was given out or forgotten
  accepted,    \* ApplyWorker.accepted_through
  used,        \* credits out: queued, in-progress and completed-but-unconsumed entries
  queue,       \* batches submitted and not yet taken
  current,     \* batch in the worker's hands, or NoBatch
  applying,    \* applying_through()
  stored,      \* index of the store
  locked,      \* the worker holds the store's lock
  durable,     \* durable_through()
  events,      \* completed batches the owner has not consumed
  worker,      \* where the worker thread is
  owner,       \* where the owner's loop is
  looking,     \* where the owner is in complete_queries
  seen,        \* the durable index complete_queries read
  waiting,     \* pending queries, oldest first, each with its fence
  asked,       \* the dispatched index a query's response was built with
  answer,      \* what a query was answered with
  target,      \* boundary of the snapshot being installed
  exit         \* why the process exited

engineVars == <<committed, compacted, persisting>>
workVars == <<used, queue, current, applying, durable, locked, stored, events, worker>>
queryVars == <<waiting, asked, answer, looking, seen>>
vars == <<engineVars, dispatched, resolved, accepted, workVars, owner, queryVars, target, exit>>

NoBatch == [from |-> 1, to |-> 0]
NoAnswer == [kind |-> "none"]
Asleep == [kind |-> "asleep"]

Init ==
  /\ committed = 0 /\ compacted = 0 /\ persisting = FALSE
  /\ dispatched = 0 /\ resolved = 0 /\ accepted = 0
  /\ used = 0 /\ queue = <<>> /\ current = NoBatch /\ events = <<>>
  /\ applying = 0 /\ stored = 0 /\ durable = 0
  /\ locked = FALSE
  /\ worker = "idle" /\ owner = "priority"
  /\ looking = "no" /\ seen = 0
  /\ waiting = <<>>
  /\ asked = [q \in Queries |-> 0]
  /\ answer = [q \in Queries |-> Asleep]
  /\ target = 0 /\ exit = "no"

-----------------------------------------------------------------------------
Size(b) == (b.to + 1) - b.from
Indexes(b) == b.from..b.to
InFlight == Indexes(current) \cup UNION {Indexes(b) : b \in Range(queue) \cup Range(events)}

Available == QueueEntries - used
IsBusy == used > 0

\* saturating_sub, min and max of the code
Less(a, b) == IF a > b THEN a - b ELSE 0
Lesser(a, b) == IF a < b THEN a ELSE b

snapshot_due(applied, current_index) ==
  /\ applied # 0 /\ SnapshotInterval # 0
  /\ IF current_index # 0
       THEN Less(applied, current_index) >= SnapshotInterval
       ELSE applied >= SnapshotInterval + (SnapshotInterval * Lesser(NodeId - 1, 2)) \div 3

\* The process ends: fail_queries, or the process taking its sockets with it.
Die(why) ==
  /\ owner' = "dead" /\ exit' = why
  /\ answer' = [q \in Queries |-> IF answer[q] = NoAnswer THEN [kind |-> "error"] ELSE answer[q]]
  /\ waiting' = <<>> /\ looking' = "no"
  /\ UNCHANGED seen

\* The owner is between two statements of its loop, not inside complete_queries.
At(place) == owner = place /\ looking = "no"

-----------------------------------------------------------------------------
(* Mistakes the properties below are there to catch.                       *)

\* A query waits only for what is already durable when it is made.
FenceDurable == durable

\* A completion does not look at the waiting queries.
PollWithoutQueries(polling) ==
  /\ polling /\ events # <<>>
  /\ resolved' = Head(events).to /\ events' = Tail(events)
  /\ used' = used - Size(Head(events))
  /\ UNCHANGED <<engineVars, dispatched, accepted, queue, current, applying, durable, locked,
                 stored, worker, owner, queryVars, target, exit>>

\* The newest completion is taken first.
PollNewest(polling) ==
  /\ polling /\ events # <<>>
  /\ resolved' = events[Len(events)].to /\ events' = SubSeq(events, 1, Len(events) - 1)
  /\ used' = used - Size(events[Len(events)])
  /\ looking' = "read"
  /\ UNCHANGED <<engineVars, dispatched, accepted, queue, current, applying, durable, locked,
                 stored, worker, owner, waiting, asked, answer, seen, target, exit>>

\* Compaction does not ask whether the worker is busy.
SnapshotDueBusy == ~persisting /\ snapshot_due(durable, compacted)

\* The store's index is published before the batch is applied.
WApplyPublishFirst ==
  /\ worker = "apply"
  /\ durable' = current.to
  /\ worker' = "publish" /\ locked' = FALSE
  /\ UNCHANGED <<engineVars, dispatched, resolved, accepted, used, queue, current, applying, stored,
                 events, owner, queryVars, target, exit>>

-----------------------------------------------------------------------------
(* complete_queries: three reads that the worker can run between.          *)

\* The fence a new query waits for: accepted_through.
Fence == accepted

\* Read durable_through and look at the oldest query.
LookRead ==
  /\ looking = "read"
  /\ seen' = durable
  /\ looking' = IF waiting = <<>> \/ Head(waiting).fence > durable THEN "no" ELSE "lock"
  /\ UNCHANGED <<engineVars, dispatched, resolved, accepted, workVars, owner, waiting, asked,
                 answer, target, exit>>

\* try_lock: the worker holds the store, so the next completion will look again.
LookBlocked ==
  /\ looking = "lock" /\ locked
  /\ looking' = "no"
  /\ UNCHANGED <<engineVars, dispatched, resolved, accepted, workVars, owner, waiting, asked,
                 answer, seen, target, exit>>

\* try_lock succeeds; the store cannot move until every ready query is answered.
LookAnswer ==
  /\ looking = "lock" /\ ~locked
  /\ \E n \in 0..Len(waiting) :
       /\ \A i \in 1..n : waiting[i].fence <= seen
       /\ n < Len(waiting) => waiting[n + 1].fence > seen
       /\ answer' = [q \in Queries |->
                       IF \E i \in 1..n : waiting[i].query = q
                         THEN [kind |-> "ok", index |-> stored, inProgress |-> applying]
                         ELSE answer[q]]
       /\ waiting' = SubSeq(waiting, n + 1, Len(waiting))
  /\ looking' = "no"
  /\ UNCHANGED <<engineVars, dispatched, resolved, accepted, workVars, owner, asked, seen,
                 target, exit>>

-----------------------------------------------------------------------------
(* The owner's loop.                                                       *)

\* poll and complete: one completion is taken, queries are looked at, outcomes
\* are given out.  Reached from complete_applies, its early pass while
\* persistence is pending, and drain_application.
Polling == At("applies") \/ At("drain") \/ (At("priority") /\ CompletionPriority /\ persisting)

Poll(polling) ==
  /\ polling /\ events # <<>>
  /\ resolved' = Head(events).to /\ events' = Tail(events)
  /\ used' = used - Size(Head(events))
  /\ looking' = "read"
  /\ UNCHANGED <<engineVars, dispatched, accepted, queue, current, applying, durable, locked,
                 stored, worker, owner, waiting, asked, answer, seen, target, exit>>

\* The worker's failure comes after its last completion: handle_event, Failed
PollFailed ==
  /\ Polling /\ events = <<>> /\ worker = "failed"
  /\ Die("worker")
  /\ UNCHANGED <<engineVars, dispatched, resolved, accepted, workVars, asked, target>>

\* The early pass ends, or is not configured.
PriorityDone ==
  /\ At("priority")
  /\ (CompletionPriority /\ persisting) => (events = <<>> /\ worker # "failed")
  /\ owner' = "persist"
  /\ UNCHANGED <<engineVars, dispatched, resolved, accepted, workVars, queryVars, target, exit>>

\* complete_persistence: the engine takes its receipt and may commit more.
CompletePersistence ==
  /\ At("persist")
  /\ persisting' = FALSE
  /\ IF persisting THEN committed' \in committed..MaxIndex ELSE UNCHANGED committed
  /\ owner' = IF committed' > committed THEN "persist_effects" ELSE "applies"
  /\ UNCHANGED <<compacted, dispatched, resolved, accepted, workVars, queryVars, target, exit>>

AppliesDone ==
  /\ At("applies") /\ events = <<>> /\ worker # "failed"
  /\ owner' = "compact"
  /\ UNCHANGED <<engineVars, dispatched, resolved, accepted, workVars, queryVars, target, exit>>

\* maybe_compact_snapshot.  The worker is idle throughout, so one step.
SnapshotDue == ~persisting /\ ~IsBusy /\ snapshot_due(durable, compacted)

Compact ==
  /\ At("compact") /\ SnapshotDue
  /\ IF stored # durable \/ stored > committed \/ stored > dispatched
       THEN Die("check") /\ UNCHANGED compacted
       ELSE /\ compacted' = stored /\ owner' = "dispatch"
            /\ UNCHANGED <<waiting, answer, looking, seen, exit>>
  /\ UNCHANGED <<committed, persisting, dispatched, resolved, accepted, workVars, asked, target>>

CompactSkipped ==
  /\ At("compact") /\ ~SnapshotDue
  /\ owner' = "dispatch"
  /\ UNCHANGED <<engineVars, dispatched, resolved, accepted, workVars, queryVars, target, exit>>

\* dispatch_applies and try_submit: the engine returns a non-empty run of the
\* next committed entries, unless compaction dropped them.
DispatchTo == [dispatch |-> "input", persist_effects |-> "applies", input_effects |-> "priority"]
Dispatching == owner \in DOMAIN DispatchTo /\ looking = "no"
Room == ~persisting /\ dispatched < committed /\ Available > 0

Dispatch ==
  /\ Dispatching /\ Room /\ dispatched >= compacted /\ worker # "failed"
  /\ \E last \in (dispatched + 1)..committed :
       /\ last - dispatched <= Available /\ last - dispatched <= BatchEntries
       /\ LET batch == [from |-> dispatched + 1, to |-> last]
          IN IF Indexes(batch) \cap InFlight # {}
               THEN Die("check") /\ UNCHANGED <<dispatched, accepted, used, queue>>
               ELSE /\ queue' = Append(queue, batch) /\ used' = used + Size(batch)
                    /\ dispatched' = last /\ accepted' = last
                    /\ owner' = DispatchTo[owner]
                    /\ UNCHANGED <<waiting, answer, looking, seen, exit>>
  /\ UNCHANGED <<engineVars, resolved, current, applying, durable, locked, stored, events, worker,
                 asked, target>>

\* The worker has stopped accepting, or the source has nothing after the cursor.
DispatchFails ==
  /\ Dispatching /\ Room /\ (dispatched < compacted \/ worker = "failed")
  /\ Die(IF dispatched < compacted THEN "check" ELSE "worker")
  /\ UNCHANGED <<engineVars, dispatched, resolved, accepted, workVars, asked, target>>

DispatchSkipped ==
  /\ Dispatching /\ ~Room
  /\ owner' = DispatchTo[owner]
  /\ UNCHANGED <<engineVars, dispatched, resolved, accepted, workVars, queryVars, target, exit>>

\* One input: a wake-up or nothing, consensus work, a snapshot, or a query.
InputNothing ==
  /\ At("input")
  /\ owner' = "priority"
  /\ UNCHANGED <<engineVars, dispatched, resolved, accepted, workVars, queryVars, target, exit>>

\* Application effects never leave a step whose persistence is pending.
InputConsensus ==
  /\ At("input")
  /\ \/ persisting' = TRUE /\ owner' = "priority" /\ UNCHANGED committed
     \/ persisting' = FALSE /\ owner' = "input_effects" /\ committed' \in (committed + 1)..MaxIndex
  /\ UNCHANGED <<compacted, dispatched, resolved, accepted, workVars, queryVars, target, exit>>

\* The engine takes a leader's snapshot, always past its own commit index.
InputSnapshot ==
  /\ At("input")
  /\ target' \in (committed + 1)..MaxIndex
  /\ committed' = target' /\ compacted' = target'
  /\ owner' = "drain"
  /\ UNCHANGED <<persisting, dispatched, resolved, accepted, workVars, queryVars, exit>>

\* ApplyWorker::query
Query(q) ==
  /\ At("input") /\ answer[q] = Asleep
  /\ asked' = [asked EXCEPT ![q] = dispatched]
  /\ \/ /\ worker # "failed" /\ Len(waiting) < QueryLimit
        /\ waiting' = Append(waiting, [query |-> q, fence |-> Fence])
        /\ answer' = [answer EXCEPT ![q] = NoAnswer]
        /\ looking' = "read" /\ owner' = "priority"
        /\ UNCHANGED <<seen, exit>>
     \/ /\ worker # "failed" /\ Len(waiting) >= QueryLimit
        /\ answer' = [answer EXCEPT ![q] = [kind |-> "overloaded"]]
        /\ owner' = "priority"
        /\ UNCHANGED <<waiting, looking, seen, exit>>
     \/ /\ worker = "failed"
        /\ answer' = [p \in Queries |-> IF p = q \/ answer[p] = NoAnswer
                                         THEN [kind |-> "error"] ELSE answer[p]]
        /\ waiting' = <<>> /\ owner' = "dead" /\ exit' = "worker"
        /\ UNCHANGED <<looking, seen>>
  /\ UNCHANGED <<engineVars, dispatched, resolved, accepted, workVars, target>>

\* drain_application ends when no credit is out.
Drained ==
  /\ At("drain") /\ ~IsBusy
  /\ owner' = "install" /\ looking' = "read"
  /\ UNCHANGED <<engineVars, dispatched, resolved, accepted, workVars, waiting, asked, answer,
                 seen, target, exit>>

\* install_snapshot after its complete_queries: the worker is stopped, the
\* store replaced, and a new worker started at the snapshot's index.
Install ==
  /\ At("install")
  /\ IF IsBusy \/ waiting # <<>>
       THEN Die("check") /\ UNCHANGED <<dispatched, resolved, accepted, applying, durable, stored>>
       ELSE /\ stored' = target /\ durable' = target /\ applying' = target
            /\ accepted' = target /\ dispatched' = target /\ resolved' = target
            /\ owner' \in {"priority", "input_effects"}
            /\ UNCHANGED <<waiting, answer, looking, seen, exit>>
  /\ UNCHANGED <<engineVars, used, queue, current, locked, events, worker, asked, target>>

-----------------------------------------------------------------------------
(* The worker thread.                                                      *)

Running == owner # "dead"

WTake ==
  /\ Running /\ worker = "idle" /\ queue # <<>>
  /\ current' = Head(queue) /\ queue' = Tail(queue)
  /\ applying' = Head(queue).to
  /\ worker' = "lock"
  /\ UNCHANGED <<engineVars, dispatched, resolved, accepted, used, durable, locked, stored, events,
                 owner, queryVars, target, exit>>

WLock ==
  /\ Running /\ worker = "lock"
  /\ locked' = TRUE
  /\ worker' = "apply"
  /\ UNCHANGED <<engineVars, dispatched, resolved, accepted, used, queue, current, applying, durable,
                 stored, events, owner, queryVars, target, exit>>

\* WorkerStore::apply: the store accepts only the entries after its index.
WApply ==
  /\ Running /\ worker = "apply" /\ current.from = stored + 1
  /\ stored' = current.to
  /\ worker' = "publish" /\ locked' = FALSE
  /\ UNCHANGED <<engineVars, dispatched, resolved, accepted, used, queue, current, applying, durable,
                 events, owner, queryVars, target, exit>>

\* The store refuses or its journal fails; the batch is never completed.
WFail ==
  /\ Running /\ worker = "apply"
  /\ worker' = "failed" /\ locked' = FALSE
  /\ UNCHANGED <<engineVars, dispatched, resolved, accepted, used, queue, current, applying, durable,
                 stored, events, owner, queryVars, target, exit>>

WPublish ==
  /\ Running /\ worker = "publish"
  /\ durable' = current.to
  /\ worker' = "notify"
  /\ UNCHANGED <<engineVars, dispatched, resolved, accepted, used, queue, current, applying, locked,
                 stored, events, owner, queryVars, target, exit>>

WNotify ==
  /\ Running /\ worker = "notify"
  /\ events' = Append(events, current) /\ current' = NoBatch
  /\ worker' = "idle"
  /\ UNCHANGED <<engineVars, dispatched, resolved, accepted, used, queue, applying, durable, locked,
                 stored, owner, queryVars, target, exit>>

-----------------------------------------------------------------------------
OwnerStep ==
  \/ LookRead \/ LookBlocked \/ LookAnswer
  \/ Poll(Polling) \/ PollFailed \/ PriorityDone \/ CompletePersistence \/ AppliesDone
  \/ Compact \/ CompactSkipped
  \/ Dispatch \/ DispatchFails \/ DispatchSkipped
  \/ InputNothing \/ InputConsensus \/ InputSnapshot \/ \E q \in Queries : Query(q)
  \/ Drained \/ Install

WorkerStep == WTake \/ WLock \/ WApply \/ WFail \/ WPublish \/ WNotify

Exited == ~Running /\ UNCHANGED vars

Next == OwnerStep \/ WorkerStep \/ Exited

Spec == Init /\ [][Next]_vars

\* Both threads keep running; the owner's receive has a timeout, so a wake-up
\* lost to a full inbox only delays it.
Fairness == WF_vars(OwnerStep) /\ WF_vars(WorkerStep)

-----------------------------------------------------------------------------
\* The cursors never pass each other (application.rs: "Dispatch cursors are
\* separate from the worker's durable application cursor"), the entries in
\* flight are exactly those between resolved and dispatched, in order, and a
\* batch being applied starts right after the store.  Submitted, in-progress
\* and unconsumed entries stay within QUEUE_ENTRIES however late the owner
\* consumes completions, and the engine never drops log entries the store does
\* not hold, except while the snapshot that replaces them is being installed.
CursorOrder ==
  /\ resolved <= durable /\ durable <= stored /\ stored <= applying
  /\ applying <= accepted /\ accepted = dispatched /\ dispatched <= committed
  /\ InFlight = (resolved + 1)..dispatched
  /\ worker \in {"lock", "apply"} => current.from = stored + 1
  /\ dispatched - resolved <= QueueEntries
  /\ compacted <= durable \/ owner \in {"drain", "install", "dead"}

\* No internal consistency check of try_submit, install_snapshot,
\* maybe_compact_snapshot or dispatch_applies ever ends the process; only a
\* failure of the store does.
ChecksNeverFire == exit # "check"

\* A status or dump answer reflects at least everything dispatched when it was
\* asked, although durable index, lock and applying index are read at three
\* different moments: complete_queries.
QueryFresh ==
  \A q \in Queries : answer[q].kind = "ok" =>
    /\ asked[q] <= answer[q].index
    /\ answer[q].index <= answer[q].inProgress

\* Outcomes are given out in log order, each exactly once, unless a snapshot
\* replaces the range: complete_applies and drain_application.  After an apply
\* that failed, which may have left a torn frame in the journal, no outcome
\* follows: the batch is not tried again, nor followed by another or by an
\* installed snapshot, before the process exits.
OutcomesInOrder ==
  [][/\ resolved' > resolved =>
          \/ owner = "install"
          \/ events # <<>> /\ Head(events).from = resolved + 1 /\ Head(events).to = resolved'
     /\ worker = "failed" => worker' = "failed" /\ stored' <= stored]_vars

\* Although a busy store or a stale durable index makes complete_queries give
\* up and leave a query to a later completion, no query waits for ever unless
\* there is work in flight at every moment from some point on: only then can
\* try_lock lose to every batch.  And however long the log grows, completions
\* keep being resolved while anything committed is not: each entry has its turn
\* (OutcomesInOrder), unless the process exits.
EverythingAnswered ==
  /\ \A q \in Queries : (answer[q] = NoAnswer) ~> (answer[q] # NoAnswer \/ []IsBusy)
  /\ \/ []<>(resolved = committed \/ owner = "dead")
     \/ []<><<Poll(Polling) \/ Install>>_vars
=============================================================================
