# TLA+ verification of the Raft benchmark

The repository embeds three Raft libraries (Rafter, raft-rs, OpenRaft) in the
same durable key-value service, drives the service with a load generator, kills
and restarts its nodes, checks finite histories, seals the evidence and compares
suites of cases. The numbers it publishes mean something only if two contracts
hold. The embedding promises `durable-log+durable-application-v1/logged-reads`:
a success is reported only after the command is committed and in a synced
application journal, retries keep their identity, and nothing acknowledged is
lost by a restart. The controller promises that what it publishes as verified
really happened: the binaries, faults, delays, histories and counters are those
the reports name. This directory models the parts that carry these contracts.

## The system

| Part | State | Operations | Hard behaviour |
|---|---|---|---|
| Owner loop (`crates/common/src/actor.rs`) | inbox, deferred inputs, pending map, dispatch cursor | take inputs, propose, run effects, tick | one thread, but inputs, timeouts, worker completions and leadership changes arrive between any two steps |
| Ordered application (`apply_worker.rs`, `actor/application.rs`) | submitted, applying and durable indexes, completions, waiting queries, store lock | dispatch, poll, query, compact, install | two threads that read each other's cursors without a common lock |
| Durable model (`model.rs`) | values, sessions, applied index | apply a batch, checkpoint, install a snapshot, open | retries, conflicting identities, restarts at any point |
| Journal (`journal.rs`) | file, its name, cached and synced content | open, append, checkpoint | crashes and power losses between write, sync, rename and directory sync |
| Log flusher and log store (`adapters/openraft/src/storage*`) | bounded queue, failure flag, counters, in-memory log | submit, append, fail, drain, close, recover | submitters race the worker's failure; memory runs ahead of the disk |
| Case runner (`benchctl/runner.py`, `cluster.py`, `protocol.py`, `load_sampling.py`) | node processes, load generator, sampler, evidence directory | start, kill, pause, restart, read statuses, write receipts, seal | observations that are stale when acted on, an exception at any call, processes that hang or exit |
| Receipts and replay (`evidence.py`, `reclamation_service.py`, `timelines.py`, `pipeline.py`, ...) | two status snapshots, fault events, sealed files | compute a receipt, replay it | counters that restart from zero with a process |
| History check (`checker.py`) | events of a history | search for an order | ties, overlaps, operations without an answer |
| Working copy (`selection.py`, `build.py`) | selection files, binaries, receipt | select, build, restore | a step may raise or the process be killed; branches move |
| Suites (`paired.py`, `suite_plan.py`, `network.py`, `results.py`, `reclamation_load.py`) | archived builds, plan, loopback delay, case directories, verdicts | prepare, run the plan, complete, assess, load | kills that leave a delay or a selection behind, failed and damaged cases |
| Peer transport, adapters of raft-rs and Rafter, load generator | | | not modelled, see below |

A client request enters through `Actor::client`, waits in the inbox
(*Admission*, *Mailbox*), is proposed to the engine, committed, dispatched to
the worker (*ApplyWorker*), applied to the durable model (*DurableModel*,
*KVModel*) and written to the journal (*Journal*); its outcome goes back
through the pending map (*Admission*). In the OpenRaft node the log itself goes
through *LogStore* and *AsyncFlusher*. Outside the nodes, a suite (*SuiteRun*)
prepares binaries in the working copy (*Checkout*), derives its plan
(*SuitePlan*), runs cases (*CaseRun*, with *CaseEvidence*, *StatusDeltas* and
*Checker*) and is assessed and loaded (*ReclamationLoad*, *SuiteResults*). The
consensus cores are libraries outside the repository; the modules take from them
only what the engine interface promises and mark these definitions external.

## Modules

| Module | Models | State and actions |
|---|---|---|
| `AsyncFlusher` | `log_io.rs` | `stage[w]` is how far the `submit` call of work `w` has come, `sent` and `recvd` are the channel, `journal` is the file, `worker` and `result` are the thread's position. One action per step that another thread can observe: check under the mutex, count, `try_send`, receive, append, publish the failure, uncount, complete, drain, exit |
| `LogStore` | `storage.rs` of the OpenRaft adapter, its log store | extends `AsyncFlusher`: a work is one call and `record` what it carries; `mem` is the in-memory log, vote and commit point; `replaying` is the call that is queued but not yet in memory. The calls take the flusher's steps, `CallSynchronous` is the other flush mode, `Restart` keeps only the journal |
| `DurableLog` | what the owner of a journal may rely on | a counter of records; an interrupted append either is or is not there at the next open |
| `Journal` | `journal.rs` | inodes with frames, how many are synced and what tail they have; the name with its cached and its on-disk target. Each system call of `open`, `append` and `checkpoint_payload` is an action and may fail; `Kill` and `PowerLoss` come between any two |
| `KVModel` | `Model::apply` | the operator `Apply`, and beside it the meaning of a whole log (`TakesEffect`, `ValuesAfter`, `Answer`), defined without sessions |
| `DurableModel` | `DurableModel` in `model.rs` | replicas of one Raft log, each with a journal of batches and snapshots; apply (also killed between append and replay), checkpoint, install, kill, open |
| `ApplyWorker` | `apply_worker.rs`, `actor/application.rs`, the loop of `actor.rs` | `owner` is the place in the owner's loop, `looking` the place inside `complete_queries`, `worker` the place of the application thread; an entry is its index and a batch a range |
| `Admission` | `Actor::client`, `State::client`, `resolve_applies`, tick, install | attempts (`client`, `reply`), the inbox, the collected batch, the pending map and the log, whose entries remember the attempt that proposed them |
| `Mailbox` | `run`, `collect`, `collect_ready_clients`, `take_ready_peers`, `restore_deferred` | an input is its arrival number; `channel` and `deferred` are the queues, `stepped` and `served` record what the engine saw and whom the owner served |
| `StatusDeltas` | `reclamation_service.py`, `timelines.py`, `pipeline.py`, `completion_priority.py`, `replication_windows.py` | operators: what the controller computes from two status snapshots, and where it raises |
| `Checker` | `checker.py` | `CheckHistory`, the search per key, and beside it `Linearizable`, one order over all keys |
| `CaseEvidence` | receipts of `runner.py`, replay of `evidence.py` | operators over the evidence of a case: `ReceiptSteps` and `Receipts` write, `IntegrityPassed`, `CorrectnessPassed` and `Verified` replay |
| `CaseRun` | `runner.py`, `cluster.py`, `protocol.py`, `load_sampling.py` | `pc` is the place in `run_case`; `node` has the process, its counters and its disk; load generator, sampler thread and nodes act between any two steps of the controller; `Raise` is the exception of any call, `Except`, `KillLoad` and `CloseAndSeal` its handlers. A seal may itself raise (a symlink, an I/O error) and then leaves the directory unsealed (`SealRaised`); `Rechecks` is what the history check may say when `verify` runs it again |
| `Checkout` | `selection.py`, `build.py`, the checks of `cli.run` | `selection`, `dist` and `receipt` are the files; `op` is the next step of the running command; steps raise, `KillOp` kills, edits, git checkouts and pushes come between |
| `SuitePlan` | `suite_plan.py`, the arguments of `paired.main` and of the predeclared commands | operators: accepted arguments, arms, `ExecutionPlan` |
| `ReclamationLoad` | `reclamation_load.py` | operators: the predeclared assessment of WAL reclamation |
| `SuiteResults` | `results.py`, `feature_coverage.py` | operators: feature coverage, qualification and aggregation of a suite directory |
| `SuiteRun` | `paired.py`, `network.py` | extends `Checkout` and `SuiteResults`: `pc` is the next step of the running suite, `qdisc` the delay on the loopback, `suite` the output directory, `under` the delay each case really ran under |
| `...Proofs`, `CaseRunInvariant` | | inductive invariants and theorems. `CaseRunInvariant` holds the invariant of `CaseRun` and the first half of its lemmas, `CaseRunProofs` the rest; `SuiteRunProofs` is about `Checkout`, `SuitePlan` and `SuiteRun` |
| `MC...` | | one instance of each for TLC |

`DurableLog` is abstract; `Journal` instantiates it with a refinement mapping
(the owner's record count, and whether one more record may be in the file its
name leads to). After a failed append the journal itself would take another;
that its owners never ask is not in `DurableLog` but in `ApplyWorker`
(`OutcomesInOrder`: after an apply that failed the process only exits) and in
`AsyncFlusher` (`FailureFinal`).
`KVModel` and `Checker` each hold an algorithm and the reference definition it
is compared with.

External definitions, modelled from their use: the queue and the publication of
the Rafter application worker (`WTake`, `WPublish`, `WNotify` of `ApplyWorker`),
the consensus steps of `Admission` (`Commit`, `Lead`, `Follow`), the calls
OpenRaft's core makes (`Offers`, `MayCall` of `LogStore`), the Raft log of
`DurableModel`, the faults of `Journal`, the processes of `CaseRun`, and `git`,
`cargo` and `tc` in `Checkout` and `SuiteRun`.

## Runs

| Run | Question | Bounds |
|---|---|---|
| `log_flusher` | Is nothing accepted ever stranded, is the queue's depth counted exactly, and does each completion run in the end? | four works, queue of two: it fills, fails with work behind the failed record, and meets submitters before, during and after the failure |
| `log_store` | Is everything acknowledged found by a restart at any moment, and do readers see what the queue will write? | four calls of any kind, both flush modes, queue of two, two entries, two restarts: records are queued behind a failing write, and calls go on from a recovered log |
| `journal_recovery` | Does every acknowledged record survive failed calls, kills and power losses, and is the journal a `DurableLog`? | three inodes, three records: old name, new name and temporary file can all differ. Power losses are excluded in the one window that the next run is about (`PowerLossInGap = FALSE`) |
| `journal_unsynced_reopen` | Violation: does it survive in that window as well? | two records |
| `replicas_match_log` | Do replicas hold the values, and give the answers, that the log defines, in every life? | every log of three entries over five commands and no-ops: retry, reused sequence number, stale retry; first index 0 as in OpenRaft |
| `application_worker` | Do dispatch, worker, queries, compaction and installs keep the cursors consistent, is every answer fresh, and does the work go on? | a log without end of which four entries are in view (see below), three credits, batches of two, two queries against a limit of one, compaction every two entries |
| `admission` | Is what a client is told true of the log, and is the pending map exact, bounded and emptied? | three attempts (retries only, or one with conflicting content), capacity two, log of three |
| `admission_reserve` | Violation: do client slots keep part of the inbox for peers? | four attempts, capacity four |
| `mailbox` | Does batching with put-back and lookahead lose, reorder or starve inputs? | every sequence of six inputs of five kinds, batches of two: a full batch, a full lookahead and one input more fit; both special modes |
| `case_run` | Is what is sealed quiet, what is verified real, the history verdict exact, and does every case end? | three nodes of which two work, two commits, one of them before the load; eight kinds of case, among them every scenario, with and without diagnostics and compaction; one process exit and one inline retirement where the receipts depend on it; for one kind every history of three operations with every overlap and tie |
| `case_correctness_verdict` | Violation: does the correctness verdict cover the history? | as `case_run` |
| `suite_run` | Are receipts, binaries, delays, plans and verdicts what the reports say? | two commits and a branch that moves once, one source edit, two commands, one kill, one failed, deviating or damaged case; a suite of each predeclared command and two general ones, one of them under a delay and one that shares its build |

Bounds are named constants (`MaxLog`, `MaxIndex`, `MaxInputs`, `MaxCommit`,
`MaxCommands`, the sets of works, attempts, queries and modes). Symmetry is used
only in the journal, log store and replica runs, which check no liveness.
Deadlock is checked everywhere except in `log_flusher`, where the thread ends, in
`log_store`, where OpenRaft stops calling after a storage error, and in
`suite_run`, where the operator stops giving commands.

Every property comes with a plausible mistake in one modelled definition that
makes TLC violate it. These operators are marked as mistakes in the modules.

### Fairness

* `log_flusher`: the worker, and a thread that is inside `submit`, keep running.
  Nobody is obliged to submit or to drop the flusher.
* `application_worker`: both threads keep running. No wake-up is assumed to
  arrive: the owner's receive has a timeout.
* `admission`: the ten-second timer of each attempt fires, ticks come, and the
  owner proposes what it collected. Nothing is assumed of consensus.
* `mailbox`: the owner keeps running.
* `case_run`: the controller, one thread whose every wait has a deadline, keeps
  running, and time passes. Nothing is asked of nodes, load generator or sampler.

Attempts and inputs are finite in a behaviour, so `PendingReleased` and
`EveryInputTaken` are stated as "empty again and again".

A finite log would make `EverythingAnswered` too easy: the worker would always
come to rest in the end, and so would every query. `MCApplyWorker` therefore
renumbers: once the lowest entries are resolved, `Renumber` takes one off every
index, and the node goes on committing for ever in a finite state space. Only
`snapshot_due` looks at an index and not at a distance, and `Renumber` is taken
only where its answers stay the same. On this log a query can starve: the owner
polls a completion, looks, finds that the worker already holds the store for the
next batch (`try_lock`, `apply_worker.rs:536`) and gives up, again after each
batch; TLC exhibits this cycle when the property asks that every query is
answered. So `EverythingAnswered` says what the code does guarantee: a query
is answered unless some entry is in flight at every moment from some point on,
and, whatever the load, completions go on being resolved while anything committed
is not.

## Findings

* `journal_unsynced_reopen`. `Journal::open` syncs the parent directory only
  when it created the file itself (`journal.rs:36`). If a process is killed
  between creating or renaming the file and its directory sync, the next
  process finds the name, uses it and never syncs it; records it acknowledges
  can then be lost with the power. The comments at `journal.rs:1` and
  `journal.rs:133` say that appends are synced and that the directory is synced
  before the writer resumes. It needs a kill and a later power loss;
  `docs/methodology.md` disclaims power-loss evidence.
* `admission_reserve`. A slot is returned when its client times out, while its
  request may still be in the inbox (`actor.rs:163`). If the owner stalls for
  longer than the ten seconds, client inputs can fill the inbox and peers are
  refused. The test `client_saturation_leaves_reserved_peer_inbox_capacity`
  covers clients that have not timed out.
* `case_correctness_verdict`. A case whose history check fails is sealed without
  `measurement.json`. `verify` opens that file while errors still count as
  integrity errors (`evidence.py:745`), so it never reaches the history and
  reports the correctness checks as passed (`evidence.py:758`).
  `docs/methodology.md:130` calls the verdicts independent.

Behaviour worth knowing that contradicts no document: a status query may starve
while the load never lets the worker come to rest (see Fairness); a
completed case may fail `verify` on a slow machine, because the history check is
run again under its own five seconds and `inconclusive` is not a pass
(`evidence.py:751`); nothing asks again who leads between the status answer and
the signal, so `FaultReal` promises that the leader a case killed led under its
load, not at that moment, and nothing about the role of a paused follower; a kill that lands after
the load ended still counts as the fault of the case; a suite killed under a
delay leaves it on the loopback, and a later suite with delay zero records an
unmodified loopback (`DelayAsPlanned` says exactly which cases can be mislabelled);
a suite that names no benchmark commit never qualifies; a reclamation suite whose
positions cannot balance is refused only after its builds.

## Proofs

Each theorem holds for every value of the constants; the provers are SMT (Z3),
Zenon and, for the temporal steps, LS4. The argument is always the same: `IInv`
strengthens the properties until it is inductive, one lemma per action shows that
the action keeps it, a last lemma combines them, and each theorem follows.

| Module | Theorem | Statement |
|---|---|---|
| `AsyncFlusherProofs` | `TypeCorrect` | the type invariant; in particular `pending` never underflows |
| | `AtMostOnce` | no completion is invoked twice |
| | `NothingStranded` | `NoWorkStranded`: nothing accepted is left in the queue when the receiver is dropped |
| | `OrderedDurability` | the file follows the accepted order; successes are on disk and form a prefix |
| | `DepthAccounting` | `PendingExact`: `pending` is exact and `max_pending` is at most the capacity and two more |
| | `FailureFinal` | after a published failure nothing is admitted or written |
| `JournalProofs` | `AcknowledgedSurvive` | `AckedSurvives`: an acknowledged record is in the file at every later open |
| | `JournalImplementsLog` | `ImplementsDurableLog`: every step of the journal is a step of `DurableLog` or a stutter |
| `ApplyWorkerProofs` | `CursorsOrdered` | `CursorOrder` |
| | `NoCheckFires` | `ChecksNeverFire`: the internal consistency checks are unreachable |
| | `AnswersFresh` | `QueryFresh` |
| | `OutcomesOrdered` | `OutcomesInOrder`, an action property: outcomes in log order, and nothing applied or installed after an apply that failed |
| `AdmissionProofs` | `SuccessTrue` | `AppliedTruthful` |
| | `RefusalsFinal` | `RefusedNeverProposed` |
| | `PendingAccounting` | `PendingExact` |
| `MailboxProofs` | `OrderKept` | `ArrivalOrder` |
| | `EachInputOnce` | `NothingLost` |
| | `OvertakingLimited` | `OvertakesBounded`: an acknowledgement passes execute requests only, at most two batches of them |
| `CaseRunProofs` | `SealedIsQuietHolds` | `SealedIsQuiet` |
| | `EveryExitSealsHolds` | `EveryExitSeals`: `run_case` always gets to its seal, short of a process that outlives SIGKILL |
| | `RecoveryRealHolds` | `RecoveryReal` |
| | `FaultRealHolds` | `FaultReal` |
| | `ReclamationWithinTruthHolds` | `ReclamationWithinTruth` |
| | `TimelineExactHolds` | `TimelineExact` |
| | `CompletedCaseVerifiesHolds` | `CompletedCaseVerifies`, for every verdict of the second history check but `inconclusive` |
| `SuiteRunProofs` | `ReceiptsTruthful` | `ReceiptTruthful`, of the commands on their own |
| | `SelectionsWhole` | `SelectionWhole`, of the commands on their own: a mixed checkout was cut short, and is never built from |
| | `SuitesImplementCheckout` | `Spec => CheckoutSpec`: to the working copy, every step of a suite is a command or nothing |
| | `SuitesKeepCheckout` | the first two, under suites |
| | `PreparationsRestore` | `PreparationRestores` |
| | `ArmsBuiltAsRequested` | `ArmsAsRequested` |
| | `DelaysAsPlanned` | `DelayAsPlanned` |
| | `EveryPlaceOnce` | the rotation of `ordered_arms` gives each arm each place exactly once |

Assumptions, each named in the module that declares the constants: capacities,
batch sizes and limits are positive naturals (`QueueCapacityAssumption`,
`ApplyWorkerAssumption`, and those of `Admission` and `Mailbox`); a cluster has
three nodes (`NodeAssumption`, as in the code); a case has options that `cli.run`
accepts, and only nodes work (`CaseAssumption`); the checked-in commit is a commit
and a branch name is not (`RefAssumption`); an exact ref is a full commit id
(`ExactAssumption`); a suite names refs and hard-state backends the option parsers
know (`SuiteAssumption`). `JournalProofs` assumes `~PowerLossInGap`, which excludes
the window of the finding above; without it `AckedSurvives` is false.

Why the invariants are needed:

* `AsyncFlusherProofs`: `LockInv` (one holder of the failure mutex, none once a
  failure is published), `ChannelInv`, `WorkerInv`, `CompletionInv` and
  `JournalInv`. The mutex part is what makes `NothingStranded` true: without it a
  submitter could enqueue behind the final drain (`PublishUnlocked`).
* `JournalProofs`: `ControlInv` says what each step of `open`, `append` and
  `checkpoint_payload` has already done, `ContentInv` what every inode a name may
  lead to holds, `SyncInv` which of it a power loss cannot take.
* `ApplyWorkerProofs`: completed batches, the batch in the worker's hands and the
  queued batches form one chain from `resolved` to `dispatched`, cut at the
  published indexes (`WorkInv`); `OwnerInv` and `QueryInv` say what the owner may
  rely on where it checks, so that nothing waits when a snapshot is installed and
  a fence once seen durable is behind the store when the lock is obtained.
* `AdmissionProofs`: `PlaceInv` puts every attempt in exactly one place, `MapInv`
  and `LogInv` relate the pending map to the log, `AnswerInv` the answers to both.
* `MailboxProofs`: `CoverInv` says where every input is, `OrderInv` that each queue
  is sorted by arrival and lies after what was served, `TurnInv` what holds in the
  middle of a turn. For `OvertakesBounded`, `BoundInv` bounds what a turn collects
  and puts back. `PassInv` bounds what an input has passed when the engine sees it;
  it counts the commands of the running turn as passed although they come next,
  because a command leaves the turn only by being stepped or refused.
* `CaseRunProofs`: `ControlInv` says where load generator, sampler and nodes may be
  alive, `FileInv` which files exist at which step, `CanaryInv` which canaries were
  acknowledged before which kill; a seal that raised, like one that did not, comes
  after all of them are dead. `NodeInv` relates the counters of a node to its
  lives: only the node the case hit has a process that started after the status
  before the load. `AfterInv` and `ReceiptInv` carry what was true when the last
  status was read into the receipts, so that a later kill cannot change it. The
  replay is then shown to compute from the sealed files what the runner computed
  from its own variables.
* `SuiteRunProofs`, the working copy: `BuildInv` and `PublishInv` say what a command
  has already checked, compiled or replaced at each of its steps. What makes
  `ReceiptTruthful` inductive is a fact about every receipt, matching or not: the
  binaries are the ones it was written for (`ReceiptInv`).
* `SuiteRunProofs`, the suites: `ControlInv` says which command can run at which
  step of a suite, and `CommitInv` that the selection files name commits; with these
  two every step is one of `CheckoutNext` or leaves the working copy alone.
  `RestoreInv` follows the captured selection into the restore, `ArmInv` a ref
  from the call of `select_rafter` over the pins to the receipt, `ArchiveInv` from
  there into both archives. A branch may be pushed meanwhile, so a ref stands for
  any commit its branch named since the suite began. `DelayInv` says what is on the
  loopback at every step, and from which kill or failing `tc` a rest can come.

Only model-checked, on the instances above:

* all liveness: the prover handles neither fairness nor `ENABLED`;
* `QualificationExact`, `AckedRecovered`, `RecoveredWhole` and the properties of
  `DurableModel`: they speak of what a search or a fold over a whole log or history
  computes (`CheckHistory`, `Opened`, `ValuesAfter`), and the provers have no
  induction over data;
* `SuiteQualificationExact`, `PositionsBalanced` and `AssessmentExact`, which count
  the cases of an `ExecutionPlan`, a nested concatenation. `EveryPlaceOnce` proves the
  step `PositionsBalanced` rests on, one rotation, for any number of arms.

## What is abstracted or not modelled

`PROJECT.json` lists every part of the system with its status. Not modelled:

* Peer transport (`net.rs`, `net/outbound.rs`): per-peer queues on the tokio
  runtime. Messages may be lost at every step, which the consensus libraries
  tolerate; `Mailbox` takes peer messages in any order.
* The raft-rs and Rafter adapters: the order of their steps is dictated by the
  contracts of libraries that are not in the repository.
* Node configuration and the identity marker of the data directory
  (`lib.rs:151`): read once before a node serves.
* The load generator: a separate Go program. `CaseRun` takes any measurement and
  any history from it.
* Reports, summaries, machine description, micro-benchmarks, the storage walk and
  the loaders of micro-benchmark and WAL receipts: they read files and format
  tables.

Within the models:

* Time is events: a timer fires, a tick comes. In `CaseRun` the clock counts
  thirds of the load.
* Byte budgets of application batches: a batch is any run of entries within the
  entry limits.
* A malformed command is answered before any state changes and is left out of
  `Admission`.
* Whether a peer message may join a batch for reasons of content or size is a
  free choice in `Mailbox`.
* OpenRaft's core is taken to be the store's only writer, to await its fences and
  to stop at the first storage error; whether it also awaits append callbacks is
  left open.
* In `CaseRun` the work of the nodes is followed as far as the counters of a
  status tell, and only while the controller can still read it. Operations of one
  client that start at the same time are not ordered by the checker, nor by
  `Linearizable`.
* In `SuiteRun` one command runs at a time, and nobody edits the sources while one
  runs. A case is its outcome; `CaseRun` has its inside.
* Diagnostics, counters for reports, and formatting are left out.
