---------------------------- MODULE AsyncFlusher ----------------------------
(***************************************************************************)
(* The ordered, callback-driven journal writer of the OpenRaft adapter     *)
(* (adapters/openraft/src/storage/log_io.rs).  Submitters hand records to  *)
(* a bounded queue; one worker thread appends them to the journal, in      *)
(* order, and completes each record's callback or fence.  A failed append  *)
(* is published under the same mutex that guards admission, after which    *)
(* the worker completes everything still queued with an error and leaves.  *)
(*                                                                         *)
(* A member of Works stands for one submitted Work (its record and its     *)
(* completion) and for the thread that submits it.  The channel is kept as *)
(* the sequence of everything ever sent plus the number already received,  *)
(* so sent[recvd + 1] is the head of the queue.                            *)
(***************************************************************************)
EXTENDS Naturals, Sequences

CONSTANTS
  Works,          \* the records submitted during a run
  QueueCapacity   \* QUEUE_CAPACITY, 64 in the code

ASSUME QueueCapacityAssumption == QueueCapacity \in Nat \ {0}

VARIABLES
  stage,       \* how far each work's submit() call has come
  failure,     \* stats.failure is Some
  pending,     \* stats.pending
  maxPending,  \* stats.max_pending
  sent,        \* every work try_send accepted, in channel order
  recvd,       \* how many of them the worker has taken out
  receiver,    \* the worker still owns the receiving end
  journal,     \* works whose frames are in the journal file, in file order
  worker,      \* control point of the worker thread
  result,      \* result of the worker's current append
  calls,       \* how often each work's completion has been invoked
  outcome,     \* what it was last invoked with
  closed       \* the flusher was dropped: requests.take()

submitVars == <<stage, maxPending>>
chanVars   == <<sent, recvd, receiver>>
doneVars   == <<calls, outcome>>
vars == <<stage, failure, pending, maxPending, sent, recvd, receiver,
          journal, worker, result, calls, outcome, closed>>

Init ==
  /\ stage = [w \in Works |-> "new"]
  /\ failure = FALSE
  /\ pending = 0
  /\ maxPending = 0
  /\ sent = <<>>
  /\ recvd = 0
  /\ receiver = TRUE
  /\ journal = <<>>
  /\ worker = "recv"
  /\ result = "ok"
  /\ calls = [w \in Works |-> 0]
  /\ outcome = [w \in Works |-> "none"]
  /\ closed = FALSE

-----------------------------------------------------------------------------
(* The pieces shared by the actions.                                       *)

\* Submitters hold stats.failure from the check to the end of try_send.
HoldsLock(w) == stage[w] \in {"admitted", "counted"}
LockFree == \A w \in Works : ~HoldsLock(w)

QueueLen == Len(sent) - recvd

\* Completion::complete: the callback or the fence of w gets r.
CompleteWith(w, r) ==
  /\ calls' = [calls EXCEPT ![w] = @ + 1]
  /\ outcome' = [outcome EXCEPT ![w] = r]

Current == sent[recvd]

-----------------------------------------------------------------------------
(* Mistakes the properties below are there to catch.                       *)

\* The refused work stays counted.
RefuseFullStaysCounted(w) ==
  /\ stage[w] = "counted"
  /\ ~receiver \/ QueueLen >= QueueCapacity
  /\ stage' = [stage EXCEPT ![w] = "refused"]
  /\ CompleteWith(w, "err")
  /\ UNCHANGED <<failure, pending, maxPending, chanVars, journal, worker, result, closed>>

\* The failure is published without the admission mutex.
PublishUnlocked ==
  /\ worker = "publish"
  /\ failure' = TRUE
  /\ worker' = "uncount"
  /\ UNCHANGED <<submitVars, pending, chanVars, journal, result, doneVars, closed>>

\* The worker goes on after a failed append.
CompleteThenContinue ==
  /\ worker = "complete"
  /\ CompleteWith(Current, result)
  /\ worker' = "recv"
  /\ UNCHANGED <<submitVars, failure, pending, chanVars, journal, result, closed>>

\* The final drain drops completions instead of failing them.
DrainDropped ==
  /\ worker = "drain" /\ QueueLen > 0
  /\ recvd' = recvd + 1
  /\ pending' = pending - 1
  /\ UNCHANGED <<submitVars, failure, sent, receiver, journal, worker, result, doneVars, closed>>

-----------------------------------------------------------------------------
(* AsyncFlusher::submit                                                    *)

\* The failure is already published: complete with it and return it.
RefuseFailed(w) ==
  /\ stage[w] = "new" /\ ~closed /\ LockFree
  /\ failure
  /\ stage' = [stage EXCEPT ![w] = "refused"]
  /\ CompleteWith(w, "err")
  /\ UNCHANGED <<failure, pending, maxPending, chanVars, journal, worker, result, closed>>

\* No failure is published; the mutex stays held.
Admit(w) ==
  /\ stage[w] = "new" /\ ~closed /\ LockFree
  /\ ~failure
  /\ stage' = [stage EXCEPT ![w] = "admitted"]
  /\ UNCHANGED <<failure, pending, maxPending, chanVars, journal, worker, result, doneVars, closed>>

\* pending.fetch_add(1) and max_pending.fetch_max.
Count(w) ==
  /\ stage[w] = "admitted"
  /\ stage' = [stage EXCEPT ![w] = "counted"]
  /\ pending' = pending + 1
  /\ maxPending' = IF pending + 1 > maxPending THEN pending + 1 ELSE maxPending
  /\ UNCHANGED <<failure, chanVars, journal, worker, result, doneVars, closed>>

\* try_send succeeds and the mutex is released.
Enqueue(w) ==
  /\ stage[w] = "counted"
  /\ receiver /\ QueueLen < QueueCapacity
  /\ sent' = Append(sent, w)
  /\ stage' = [stage EXCEPT ![w] = "accepted"]
  /\ UNCHANGED <<failure, pending, maxPending, recvd, receiver, journal, worker, result, doneVars, closed>>

\* try_send reports Full or Disconnected: undo the count, release, complete.
RefuseFull(w) ==
  /\ stage[w] = "counted"
  /\ ~receiver \/ QueueLen >= QueueCapacity
  /\ pending' = pending - 1
  /\ stage' = [stage EXCEPT ![w] = "refused"]
  /\ CompleteWith(w, "err")
  /\ UNCHANGED <<failure, maxPending, chanVars, journal, worker, result, closed>>

\* Drop for AsyncFlusher: no submit() can be in progress, as it borrows self.
Close ==
  /\ ~closed /\ LockFree
  /\ closed' = TRUE
  /\ UNCHANGED <<submitVars, failure, pending, chanVars, journal, worker, result, doneVars>>

-----------------------------------------------------------------------------
(* The worker thread spawned by AsyncFlusher::start                        *)

Recv ==
  /\ worker = "recv" /\ QueueLen > 0
  /\ recvd' = recvd + 1
  /\ worker' = "append"
  /\ UNCHANGED <<submitVars, failure, pending, sent, receiver, journal, result, doneVars, closed>>

\* recv() fails once the senders are gone and the queue is empty.
RecvClosed ==
  /\ worker = "recv" /\ QueueLen = 0 /\ closed
  /\ worker' = "gone"
  /\ receiver' = FALSE
  /\ UNCHANGED <<submitVars, failure, pending, sent, recvd, journal, result, doneVars, closed>>

AppendOk ==
  /\ worker = "append"
  /\ journal' = Append(journal, Current)
  /\ result' = "ok"
  /\ worker' = "uncount"
  /\ UNCHANGED <<submitVars, failure, pending, chanVars, doneVars, closed>>

\* journal.append failed; its frame may or may not have reached the file.
AppendErr ==
  /\ worker = "append"
  /\ journal' \in {journal, Append(journal, Current)}
  /\ result' = "err"
  /\ worker' = "publish"
  /\ UNCHANGED <<submitVars, failure, pending, chanVars, doneVars, closed>>

Publish ==
  /\ worker = "publish" /\ LockFree
  /\ failure' = TRUE
  /\ worker' = "uncount"
  /\ UNCHANGED <<submitVars, pending, chanVars, journal, result, doneVars, closed>>

Uncount ==
  /\ worker = "uncount"
  /\ pending' = pending - 1
  /\ worker' = "complete"
  /\ UNCHANGED <<submitVars, failure, chanVars, journal, result, doneVars, closed>>

Complete ==
  /\ worker = "complete"
  /\ CompleteWith(Current, result)
  /\ worker' = IF result = "ok" THEN "recv" ELSE "drain"
  /\ UNCHANGED <<submitVars, failure, pending, chanVars, journal, result, closed>>

\* One iteration of the final try_recv loop.
Drain ==
  /\ worker = "drain" /\ QueueLen > 0
  /\ recvd' = recvd + 1
  /\ pending' = pending - 1
  /\ CompleteWith(sent[recvd + 1], "err")
  /\ UNCHANGED <<submitVars, failure, sent, receiver, journal, worker, result, closed>>

\* try_recv found the queue empty: break.
DrainEmpty ==
  /\ worker = "drain" /\ QueueLen = 0
  /\ worker' = "exit"
  /\ UNCHANGED <<submitVars, failure, pending, chanVars, journal, result, doneVars, closed>>

\* The thread returns and drops the receiver with whatever is queued in it.
Exit ==
  /\ worker = "exit"
  /\ worker' = "gone"
  /\ receiver' = FALSE
  /\ UNCHANGED <<submitVars, failure, pending, sent, recvd, journal, result, doneVars, closed>>

-----------------------------------------------------------------------------
Submit(w) == RefuseFailed(w) \/ Admit(w) \/ Count(w) \/ Enqueue(w) \/ RefuseFull(w)

WorkerStep ==
  \/ Recv \/ RecvClosed \/ AppendOk \/ AppendErr \/ Publish \/ Uncount
  \/ Complete \/ Drain \/ DrainEmpty \/ Exit

Next == (\E w \in Works : Submit(w)) \/ Close \/ WorkerStep

Spec == Init /\ [][Next]_vars

\* A thread inside submit() keeps running, and so does the worker.  The mutex
\* is held for a bounded stretch of code, so waiting for it ends as well.
\* Nothing obliges a caller to submit, or the owner to drop the flusher.
FairSpec ==
  /\ Spec
  /\ WF_vars(WorkerStep)
  /\ \A w \in Works : WF_vars(Count(w) \/ Enqueue(w) \/ RefuseFull(w))

-----------------------------------------------------------------------------
\* Type invariant; the unsigned counters of FlusherStats never go below zero.
TypeOK ==
  /\ stage \in [Works -> {"new", "admitted", "counted", "accepted", "refused"}]
  /\ failure \in BOOLEAN
  /\ pending \in Nat
  /\ maxPending \in Nat
  /\ sent \in Seq(Works)
  /\ recvd \in 0..Len(sent)
  /\ receiver \in BOOLEAN
  /\ journal \in Seq(Works)
  /\ worker \in {"recv", "append", "publish", "uncount", "complete", "drain", "exit", "gone"}
  /\ result \in {"ok", "err"}
  /\ calls \in [Works -> Nat]
  /\ outcome \in [Works -> {"none", "ok", "err"}]
  /\ closed \in BOOLEAN

\* Every completion runs at most once: a callback of the worker, of the final
\* drain and of a refused submit never meet on the same work.
CompletedAtMostOnce ==
  \A w \in Works : calls[w] <= 1 /\ (calls[w] = 0 <=> outcome[w] = "none")

\* The race described in submit()'s comment: no work is in the queue when the
\* worker drops its receiver, so no durability callback is dropped with it.
NoWorkStranded == ~receiver => recvd = Len(sent)

\* The journal holds records in the order try_send accepted them, without
\* gaps, and a completion reports success only for a record in the journal.
JournalFollowsQueue ==
  /\ Len(journal) <= recvd
  /\ \A i \in 1..Len(journal) : journal[i] = sent[i]

AckedIsDurable ==
  \A w \in Works : outcome[w] = "ok" => \E i \in 1..Len(journal) : journal[i] = w

\* Successes form a prefix of the accepted order: no record is acknowledged
\* after one that failed, so a leader never sees a durable gap.
AckedPrefix ==
  \A j \in 1..Len(sent) : outcome[sent[j]] = "ok" =>
    \A i \in 1..j : outcome[sent[i]] = "ok"

\* stats.pending never underflows: it is exactly the work inside try_send,
\* in the queue, or in the worker's hands before its fetch_sub.
InWorker == IF worker \in {"append", "publish", "uncount"} THEN 1 ELSE 0
InSubmit == IF \E w \in Works : stage[w] = "counted" THEN 1 ELSE 0
PendingExact == pending = QueueLen + InWorker + InSubmit

\* The reported depth can exceed QUEUE_CAPACITY, but by at most two: the
\* record being appended and the one that try_send is about to refuse.
DepthBound == QueueLen <= QueueCapacity /\ maxPending <= QueueCapacity + 2

\* Once the failure is published nothing is admitted or written any more.
FailureIsFinal == [][failure => failure' /\ UNCHANGED <<sent, journal>>]_vars

\* Everyone who entered submit() gets an answer.
EveryCompletionRuns == \A w \in Works : (stage[w] # "new") ~> (calls[w] = 1)
=============================================================================
