---------------------------- MODULE CaseEvidence ----------------------------
(***************************************************************************)
(* The evidence of one case: the receipts the runner derives from its      *)
(* status snapshots (benchctl/runner.py) and their replay from the sealed  *)
(* files (benchctl/evidence.py).                                           *)
(*                                                                         *)
(* The replay does not get the runner's arguments: it reconstructs them    *)
(* from the manifest, the fault events and the receipt it checks.          *)
(*                                                                         *)
(* The evidence e of a case has its options (e.mode), the set of its files *)
(* (e.files), the sealed inventory (e.index), and the contents the replay  *)
(* reads: the snapshots before and after, the fault events, the floor and  *)
(* the required index of a catch-up (0 where fault.json has none), whether *)
(* the measured-load samples cover the load, the measurement, the verdict  *)
(* of the history check, and the receipts.                                 *)
(***************************************************************************)
EXTENDS StatusDeltas, Sequences

Has(e, file) == file \in e.files

KillAction == [scenario \in {"leader-loss", "snapshot-catchup"} |->
                 IF scenario = "leader-loss" THEN "SIGKILL leader" ELSE "SIGKILL follower"]
RestartAction == "restart same data directory"

Diagnostics(e) == e.mode.diagnostics
Pipelined(e) == e.mode.pipelined /\ e.mode.scenario = "durable-kv"
Prioritized(e) == e.mode.priority /\ e.mode.scenario = "durable-kv"

-----------------------------------------------------------------------------
(* The runner's receipts. *)

\* The node the case killed, if it recorded a restart of it.
RestartedNodes(e) ==
  {n \in Node : /\ n = e.faultNode
                /\ e.mode.scenario \in DOMAIN KillAction
                /\ \E i \in DOMAIN e.events : e.events[i] = [node |-> n, action |-> RestartAction]}

\* Whichever node the fault hit is taken as restarted.
RunnerReclamationOfFault(e) ==
  [interval |-> e.mode.interval, scenario |-> e.mode.scenario, restarted |-> e.faultNode,
   stopped |-> e.catchup.stopped, required |-> e.catchup.required,
   native |-> Diagnostics(e), requireNative |-> Diagnostics(e), wal |-> Diagnostics(e),
   checkpoint |-> Diagnostics(e), requireCheckpoint |-> Diagnostics(e),
   retired |-> TRUE, requireRetired |-> TRUE]

RunnerReclamation(e) ==
  [interval |-> e.mode.interval, scenario |-> e.mode.scenario,
   restarted |-> IF e.mode.scenario = "snapshot-catchup" THEN e.faultNode ELSE 0,
   stopped |-> e.catchup.stopped, required |-> e.catchup.required,
   native |-> Diagnostics(e), requireNative |-> Diagnostics(e), wal |-> Diagnostics(e),
   checkpoint |-> Diagnostics(e), requireCheckpoint |-> Diagnostics(e),
   retired |-> TRUE, requireRetired |-> TRUE]

\* Which files the runner writes from the snapshots, in its order, and whether
\* writing one of them raises.
ReceiptSteps(e) ==
  LET step(enabled, file, raises) == IF enabled THEN << [file |-> file, raises |-> raises] >> ELSE <<>>
  IN  step(Diagnostics(e), "operation-timelines",
           ExtractRaises(e.before, e.after, RestartedNodes(e)))
      \o step(Diagnostics(e) /\ e.mode.rafter, "replication-window-config",
              WindowsRaise(e.before) \/ WindowsRaise(e.after))
      \o step(Pipelined(e), "pipeline-activity", PipelineRaises(e.before, e.after))
      \o step(Pipelined(e) /\ Prioritized(e), "completion-priority-activity",
              PriorityRaises(e.before, e.after))
      \o step(e.mode.interval # 0, "snapshot-compaction-activity", FALSE)

Receipts(e) ==
  [timelines |-> IF Diagnostics(e) THEN Extract(e.before, e.after, RestartedNodes(e)) ELSE <<>>,
   windows |-> IF Diagnostics(e) THEN ConfigurationReceipt(e.before, e.after) ELSE <<>>,
   pipeline |-> IF Pipelined(e) THEN PipelineActivity(e.before, e.after) ELSE <<>>,
   priority |-> IF Prioritized(e) THEN PriorityActivity(e.before, e.after) ELSE <<>>,
   reclamation |-> IF e.mode.interval # 0
                   THEN ReclamationActivity(e.before, e.after, RunnerReclamation(e)) ELSE <<>>]

-----------------------------------------------------------------------------
(* verify: the parts of the replay.  ...Errors is TRUE when the part adds  *)
(* an error.                                                               *)

\* validate_result, with what the histograms count.
ResultErrors(r) ==
  \/ r.offered # r.attempted + r.notIssued
  \/ r.attempted # r.ok + r.unknown + r.errors
  \/ r.inWindow > r.ok
  \/ r.successHistogram # r.ok \/ r.allHistogram # r.attempted

LoadEnvironmentErrors(e) == ~Has(e, "load-environment") \/ ~e.covered

RuntimeConfigurationErrors(e) ==
  IF e.mode.rafter /\ Diagnostics(e)
  THEN \/ ~Has(e, "replication-window-config")
       \/ ConfigurationReceipt(e.before, e.after) # e.receipts.windows
  ELSE Has(e, "replication-window-config")

\* A replay that does not know of the restart.
ReplayReclamationUnrestarted(e) ==
  LET recorded == e.receipts.reclamation
  IN  [interval |-> e.mode.interval, scenario |-> e.mode.scenario, restarted |-> 0,
       stopped |-> e.catchup.stopped, required |-> e.catchup.required,
       native |-> Diagnostics(e), requireNative |-> Diagnostics(e), wal |-> Diagnostics(e),
       checkpoint |-> Diagnostics(e), requireCheckpoint |-> Diagnostics(e),
       retired |-> TRUE, requireRetired |-> TRUE]

\* snapshot_reclamation_errors rebuilds the arguments of the activity.
ReplayReclamation(e) ==
  LET recorded == e.receipts.reclamation
      catchup == e.mode.scenario = "snapshot-catchup"
      declared == e.mode.rafter /\ Diagnostics(e)
      native == declared \/ recorded.requirements.native
      checkpoint == declared \/ recorded.requirements.checkpoint
      retired == e.mode.rafter \/ recorded.requirements.retired
  IN  [interval |-> e.mode.interval, scenario |-> e.mode.scenario,
       restarted |-> IF catchup /\ Len(e.events) = 2 THEN e.events[1].node ELSE 0,
       stopped |-> IF catchup THEN e.catchup.stopped ELSE 0,
       required |-> IF catchup THEN e.catchup.required ELSE 0,
       native |-> recorded.schema \in 3..7 \/ native, requireNative |-> native,
       wal |-> declared \/ recorded.requirements.wal \/ recorded.schema = 7,
       checkpoint |-> recorded.schema \in 4..7 \/ checkpoint, requireCheckpoint |-> checkpoint,
       retired |-> (\A n \in Node : recorded.nodes[n].retirement # <<>>) \/ retired,
       requireRetired |-> retired]

CatchupEventsInvalid(e) ==
  \/ Len(e.events) # 2
  \/ e.events[1].action # KillAction["snapshot-catchup"]
  \/ e.events[2] # [node |-> e.events[1].node, action |-> RestartAction]

SnapshotReclamationErrors(e) ==
  IF e.mode.interval = 0
  THEN Has(e, "snapshot-compaction-activity")
  ELSE \/ ~Has(e, "snapshot-compaction-activity")
       \/ e.mode.scenario = "snapshot-catchup" /\ CatchupEventsInvalid(e)
       \/ ReclamationActivity(e.before, e.after, ReplayReclamation(e)) # e.receipts.reclamation

StorageFootprintErrors(e) ==
  IF e.mode.footprint
  THEN ~({"storage-footprint", "before", "after-measurement-status", "after-final-restart"}
           \subseteq e.files)
  ELSE Has(e, "storage-footprint")

\* A diagnostic case that kills a node must have recorded exactly the kill and
\* the restart of one node.
RestartEvidenceInvalid(e) ==
  /\ e.mode.scenario \in DOMAIN KillAction
  /\ \/ Len(e.events) # 2
     \/ e.events[1].action # KillAction[e.mode.scenario]
     \/ e.events[2] # [node |-> e.events[1].node, action |-> RestartAction]

ReplayRestarted(e) ==
  IF e.mode.scenario \in DOMAIN KillAction /\ ~RestartEvidenceInvalid(e)
  THEN {e.events[2].node} ELSE {}

TimelineErrors(e) ==
  Diagnostics(e) /\ \/ RestartEvidenceInvalid(e)
                    \/ Extract(e.before, e.after, ReplayRestarted(e)) # e.receipts.timelines

PipelineErrors(e) ==
  Pipelined(e) /\ PipelineActivity(e.before, e.after) # e.receipts.pipeline

PriorityErrors(e) ==
  IF Prioritized(e)
  THEN PriorityActivity(e.before, e.after) # e.receipts.priority
  ELSE Has(e, "completion-priority-activity")

MeasurementErrors(e) == ResultErrors(e.measurement)

\* A file the replay opens unconditionally is missing, or a computation raises:
\* the replay ends there.
IntegrityRaises(e) ==
  \/ ~Has(e, "SHA256SUMS") \/ ~Has(e, "manifest") \/ ~Has(e, "measurement")
  \/ Has(e, "replication-window-config") /\ (WindowsRaise(e.before) \/ WindowsRaise(e.after))
  \/ Diagnostics(e) /\ (\/ ~Has(e, "operation-timelines")
                        \/ ExtractRaises(e.before, e.after, ReplayRestarted(e)))
  \/ Pipelined(e) /\ (~Has(e, "pipeline-activity") \/ PipelineRaises(e.before, e.after))
  \/ Prioritized(e) /\ (\/ ~Has(e, "completion-priority-activity")
                        \/ PriorityRaises(e.before, e.after))

IntegrityPassed(e) ==
  /\ ~IntegrityRaises(e)
  /\ e.index = e.files \ {"SHA256SUMS"}
  /\ ~LoadEnvironmentErrors(e) /\ ~RuntimeConfigurationErrors(e)
  /\ ~SnapshotReclamationErrors(e) /\ ~StorageFootprintErrors(e)
  /\ ~TimelineErrors(e) /\ ~PipelineErrors(e) /\ ~PriorityErrors(e) /\ ~MeasurementErrors(e)

\* The checks of the history and of the recovery come after everything the
\* replay of the integrity may raise on.  recheck is what check_history says
\* of the recorded history this time, under its own limits.
CorrectnessPassed(e, recheck) ==
  \/ IntegrityRaises(e)
  \/ /\ Has(e, "qualification") /\ Has(e, "recovery")
     /\ recheck = "passed" /\ e.verdict = "passed" /\ e.recovered

Verified(e, recheck) == IntegrityPassed(e) /\ CorrectnessPassed(e, recheck)

=============================================================================
