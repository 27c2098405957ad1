---------------------------- MODULE StatusDeltas ----------------------------
(***************************************************************************)
(* What the controller computes from two status snapshots of a case        *)
(* (benchctl/reclamation_service.py, timelines.py, pipeline.py,            *)
(* completion_priority.py, replication_windows.py).                        *)
(*                                                                         *)
(* The counters of a status are those of one process: they start from zero *)
(* when the process starts.  Every receipt is therefore a difference for a *)
(* process that was running all along, and the later value for one that    *)
(* the case restarted, and what "restarted" means is an argument.          *)
(*                                                                         *)
(* A snapshot is a function from nodes to records with the fields          *)
(*   interval, completed, installs, current, timed   snapshot_compaction   *)
(*               (timed: it has a maximum time and a payload size);        *)
(*   applied, commit    application.applied_index, engine.commit_index;    *)
(*   m           the metrics the binary reports: samples and histogram of  *)
(*               each, durations being left out;                           *)
(*   retirement, pipe, priority, observed    the counters of log_-         *)
(*               retirement, persistence_pipeline, durable_completion_-    *)
(*               priority and replication_windows, <<>> where the binary   *)
(*               reports none or has the feature off;                      *)
(*   timeline    diagnostics.operation_timelines;                          *)
(*   leader, windows    info.leader and the window of each follower.       *)
(* Python's exceptions are the operators named ...Raises.  An optional     *)
(* node or index that Python has as None is 0.                             *)
(***************************************************************************)
EXTENDS Integers, FiniteSets, Functions

CONSTANTS
  Node,          \* the three voters, numbered as in the code
  SampleEvery,   \* operation_timelines.sample_every
  RetainedLimit, \* operation_timelines.retained_limit
  WindowBound    \* options.max_inflight_appends

ASSUME NodeAssumption == Node = 1..3

\* Two buckets of a log2 histogram, and one metric for each group the code
\* treats alike.
Bucket == {"fast", "slow"}
BaseStages == {"snapshot_publication"}
KernelStages == {"snapshot_kernel_commit"}
WalStages == {"wal_reclamation"}
CheckpointStages == {"journal_checkpoint_write_ns"}
Encode == "application_snapshot_encode_ns"
Compaction == "snapshot_compaction"

Delta(old, new, restarted) == IF restarted THEN new ELSE new - old

CountersDelta(old, new, restarted) == [c \in DOMAIN new |-> Delta(old[c], new[c], restarted)]

Negative(deltas) == \E c \in DOMAIN deltas : deltas[c] < 0

-----------------------------------------------------------------------------
(* Metrics with a histogram. *)

\* A histogram that does not add up to its count is refused.
MetricSound(metric) == SumFunction(metric.buckets) = metric.samples

MetricDelta(old, new, restarted) ==
  [samples |-> Delta(old.samples, new.samples, restarted),
   buckets |-> CountersDelta(old.buckets, new.buckets, restarted)]

MetricRegressed(delta) == delta.samples < 0 \/ Negative(delta.buckets) \/ ~MetricSound(delta)

StagesRaise(stages, old, new, restarted) ==
  \E s \in stages : \/ ~MetricSound(old[s]) \/ ~MetricSound(new[s])
                    \/ MetricRegressed(MetricDelta(old[s], new[s], restarted))

StageDeltas(stages, old, new, restarted) ==
  [s \in stages |-> MetricDelta(old[s], new[s], restarted)]

StageTotal(stage, deltas) == SumFunction([n \in DOMAIN deltas |-> deltas[n][stage].samples])

-----------------------------------------------------------------------------
(* reclamation_service: one node. *)

Reported(old, new) == DOMAIN old.m \cup DOMAIN new.m
Common(old, new) == DOMAIN old.m \cap DOMAIN new.m

NativeAvailable(old, new) == BaseStages \cap Reported(old, new) # {}

NativeStages(old, new, wal) ==
  BaseStages \cup (IF KernelStages \subseteq Reported(old, new) THEN KernelStages ELSE {})
             \cup (IF wal THEN WalStages ELSE {})

NativeSnapshotRaises(old, new, restarted, wal) ==
  /\ NativeAvailable(old, new)
  /\ \/ ~(BaseStages \subseteq Common(old, new))
     \/ KernelStages \cap Reported(old, new) # {} /\ ~(KernelStages \subseteq Common(old, new))
     \/ wal /\ ~(WalStages \subseteq Common(old, new))
     \/ StagesRaise(NativeStages(old, new, wal), old.m, new.m, restarted)

NativeSnapshotDelta(old, new, restarted, wal) ==
  StageDeltas(NativeStages(old, new, wal), old.m, new.m, restarted)

\* A checkpoint stage that has no metric yet has no samples yet.
ApplicationMetric(status, stage) ==
  IF stage \in DOMAIN status.m
  THEN status.m[stage]
  ELSE [samples |-> 0, buckets |-> [b \in Bucket |-> 0]]

ApplicationCheckpointDelta(old, new, restarted) ==
  [s \in CheckpointStages |->
     MetricDelta(ApplicationMetric(old, s), ApplicationMetric(new, s), restarted)]

ApplicationCheckpointRaises(old, new, restarted) ==
  \E s \in CheckpointStages :
    \/ ~MetricSound(ApplicationMetric(old, s)) \/ ~MetricSound(ApplicationMetric(new, s))
    \/ MetricRegressed(ApplicationCheckpointDelta(old, new, restarted)[s])

EncodeAvailable(old, new) == Encode \in Reported(old, new)

SnapshotEncodeRaises(old, new, restarted) ==
  /\ EncodeAvailable(old, new)
  /\ \/ Encode \notin Common(old, new)
     \/ StagesRaise({Encode}, old.m, new.m, restarted)
     \/ MetricDelta(old.m[Encode], new.m[Encode], restarted).samples
          # Delta(old.completed, new.completed, restarted)

RetirementDelta(old, new, restarted) == CountersDelta(old.retirement, new.retirement, restarted)

RetirementRaises(old, new, restarted) ==
  \/ old.retirement = <<>> \/ new.retirement = <<>>
  \/ Negative(RetirementDelta(old, new, restarted))

HistogramOf(status) == Compaction \in DOMAIN status.m

\* The counters read before anything is recorded for the node.
CompactionRaises(old, new) ==
  HistogramOf(old) /\ HistogramOf(new) /\ ~(MetricSound(old.m[Compaction])
                                            /\ MetricSound(new.m[Compaction]))

CompactionRegressed(old, new, restarted) ==
  ~restarted /\ (new.completed < old.completed \/ new.installs < old.installs)

CompactionHistogramFails(old, new, restarted) ==
  HistogramOf(old) /\ HistogramOf(new)
    /\ LET d == MetricDelta(old.m[Compaction], new.m[Compaction], restarted)
       IN  Negative(d.buckets)
             \/ SumFunction(d.buckets) # Delta(old.completed, new.completed, restarted)

\* One turn of the loop over the nodes: a part that raises ends the turn, what
\* was recorded before it stays.
NodeActivity(old, new, restarted, o) ==
  LET counted == ~CompactionRaises(old, new)
      encoded == counted /\ ~SnapshotEncodeRaises(old, new, restarted)
      staged == encoded /\ ~(o.native /\ NativeSnapshotRaises(old, new, restarted, o.wal))
      checked == staged /\ ~(o.checkpoint /\ ApplicationCheckpointRaises(old, new, restarted))
      retired == checked /\ ~(o.retired /\ RetirementRaises(old, new, restarted))
  IN  [counted |-> counted,
       compactions |-> Delta(old.completed, new.completed, restarted),
       installs |-> Delta(old.installs, new.installs, restarted),
       current |-> new.current,
       applied |-> new.applied,
       histogram |-> counted /\ HistogramOf(old) /\ HistogramOf(new)
                       /\ ~CompactionHistogramFails(old, new, restarted),
       encode |-> encoded /\ EncodeAvailable(old, new),
       native |-> IF o.native /\ staged /\ NativeAvailable(old, new)
                  THEN NativeSnapshotDelta(old, new, restarted, o.wal) ELSE <<>>,
       checkpoint |-> IF o.checkpoint /\ checked
                      THEN ApplicationCheckpointDelta(old, new, restarted) ELSE <<>>,
       retirement |-> IF o.retired /\ retired THEN RetirementDelta(old, new, restarted) ELSE <<>>,
       failed |-> \/ old.interval # o.interval \/ new.interval # o.interval
                  \/ CompactionRegressed(old, new, restarted)
                  \/ ~(new.current <= new.applied /\ new.applied <= new.commit)
                  \/ HistogramOf(old) # HistogramOf(new)
                  \/ counted /\ CompactionHistogramFails(old, new, restarted)
                  \/ Delta(old.completed, new.completed, restarted) # 0 /\ ~new.timed
                  \/ ~retired]

-----------------------------------------------------------------------------
(* reclamation_service.activity over the three nodes. *)

AllNodes(nodes, has(_)) == \A n \in Node : has(nodes[n])
NoNode(nodes, has(_)) == \A n \in Node : ~has(nodes[n])

\* What must be reported by every node, or by none.
AvailabilityFails(nodes, o) ==
  LET histogram(x) == x.histogram
      encode(x) == x.encode
      native(x) == x.native # <<>>
      checkpoint(x) == x.checkpoint # <<>>
      retirement(x) == x.retirement # <<>>
  IN  \/ ~AllNodes(nodes, histogram) /\ ~NoNode(nodes, histogram)
      \/ ~AllNodes(nodes, encode) /\ ~NoNode(nodes, encode)
      \/ o.requireNative /\ ~o.native
      \/ o.native /\ ~AllNodes(nodes, native)
      \/ o.requireCheckpoint /\ ~o.checkpoint
      \/ o.checkpoint /\ ~AllNodes(nodes, checkpoint)
      \/ o.requireRetired /\ ~o.retired
      \/ o.retired /\ ~AllNodes(nodes, retirement)

SumOver(nodes, of(_)) ==
  LET term(n) == IF nodes[n].counted THEN of(nodes[n]) ELSE 0
  IN  term(1) + term(2) + term(3)

\* A stage nobody ran, where activity is required, and retirement that went
\* through the owner thread.
StageActivityFails(nodes, o) ==
  LET native(x) == x.native # <<>>
      checkpoint(x) == x.checkpoint # <<>>
      retirement(x) == x.retirement # <<>>
      natives == [n \in Node |-> nodes[n].native]
      checkpoints == [n \in Node |-> nodes[n].checkpoint]
      accepted(x) == x.retirement["accepted"]
      inline(x) == x.retirement["inline"]
  IN  \/ AllNodes(nodes, native)
           /\ \/ \E n1, n2 \in Node : DOMAIN natives[n1] # DOMAIN natives[n2]
              \/ o.requireNative
                   /\ \E s \in (BaseStages \cup KernelStages) \cap DOMAIN natives[1] :
                        StageTotal(s, natives) = 0
      \/ o.requireCheckpoint /\ AllNodes(nodes, checkpoint)
           /\ \E s \in CheckpointStages : StageTotal(s, checkpoints) = 0
      \/ o.requireRetired /\ AllNodes(nodes, retirement)
           /\ (SumOver(nodes, accepted) = 0 \/ SumOver(nodes, inline) > 0)

\* The lagging follower must have reached the leader's newer snapshot.
CatchupFails(nodes, installs, o) ==
  \/ installs = 0
  \/ o.required <= o.stopped
  \/ o.restarted \notin {n \in Node : nodes[n].counted}
  \/ \E n \in Node : n = o.restarted
       /\ (nodes[n].current < o.required \/ nodes[n].applied < o.required)

ReclamationSchema(nodes, o) ==
  LET all(P(_)) == AllNodes(nodes, P)
      histogram == all(LAMBDA x : x.histogram)
      native == all(LAMBDA x : x.native # <<>>)
      staged == o.native /\ o.checkpoint /\ histogram /\ native
                  /\ all(LAMBDA x : x.checkpoint # <<>>)
      kernel == staged /\ all(LAMBDA x : KernelStages \subseteq DOMAIN x.native)
      encode == kernel /\ all(LAMBDA x : x.encode)
      wal == o.wal /\ encode /\ all(LAMBDA x : WalStages \subseteq DOMAIN x.native)
  IN  CASE wal -> 7 [] encode /\ ~wal -> 6 [] kernel /\ ~encode -> 5 [] staged /\ ~kernel -> 4
        [] o.native /\ histogram /\ native /\ ~staged -> 3
        [] OTHER -> IF histogram THEN 2 ELSE 1

ReclamationActivity(before, after, o) ==
  LET nodes == [n \in Node |-> NodeActivity(before[n], after[n], n = o.restarted, o)]
      compactions == SumOver(nodes, LAMBDA x : x.compactions)
      installs == SumOver(nodes, LAMBDA x : x.installs)
  IN  [nodes |-> nodes, compactions |-> compactions, installs |-> installs,
       schema |-> ReclamationSchema(nodes, o),
       requirements |-> [native |-> o.requireNative, wal |-> o.wal,
                         checkpoint |-> o.requireCheckpoint, retired |-> o.requireRetired],
       passed |-> /\ \A n \in Node : ~nodes[n].failed
                  /\ ~AvailabilityFails(nodes, o)
                  /\ compactions # 0
                  /\ o.scenario = "snapshot-catchup" => ~CatchupFails(nodes, installs, o)
                  /\ ~StageActivityFails(nodes, o)]

-----------------------------------------------------------------------------
(* timelines.extract *)

OwnerMetrics == {"owner_step_ns", Encode}

\* The accounting of the sampler in one process.
TimelineSound(t) ==
  /\ t.sampled = (IF t.seen = 0 THEN 0 ELSE 1 + (t.seen - 1) \div SampleEvery)
  /\ t.sampled = t.completed + t.lost + t.inflight
  /\ Cardinality(t.retained) = (IF t.completed < RetainedLimit THEN t.completed ELSE RetainedLimit)
  /\ \A ordinal \in t.retained : ordinal \in 1..t.seen /\ (ordinal - 1) % SampleEvery = 0

OwnerMetric(status, metric) ==
  IF metric \in DOMAIN status.m THEN status.m[metric]
                                ELSE [samples |-> 0, buckets |-> [b \in Bucket |-> 0]]

OwnerMetricsRaise(old, new, restarted) ==
  \E metric \in OwnerMetrics \cap Reported(old, new) :
    \/ metric \notin DOMAIN new.m
    \/ MetricRegressed(MetricDelta(OwnerMetric(old, metric), new.m[metric], restarted))

MetricDeltas(old, new, restarted) ==
  [metric \in OwnerMetrics \cap DOMAIN new.m |->
     MetricDelta(OwnerMetric(old, metric), new.m[metric], restarted)]

WindowCountersRaise(old, new, restarted) ==
  \/ DOMAIN old.observed # DOMAIN new.observed
  \/ Negative(CountersDelta(old.observed, new.observed, restarted))

\* The watermark of a process that is gone.
WatermarkKept(old, restarted) == old.timeline.seen

Watermark(old, restarted) == IF restarted THEN 0 ELSE old.timeline.seen

ExtractRaises(before, after, restartedNodes) ==
  \/ ~(restartedNodes \subseteq Node)
  \/ \E n \in Node :
       \/ ~TimelineSound(before[n].timeline) \/ ~TimelineSound(after[n].timeline)
       \/ after[n].timeline.seen < Watermark(before[n], n \in restartedNodes)
       \/ OwnerMetricsRaise(before[n], after[n], n \in restartedNodes)
       \/ WindowCountersRaise(before[n], after[n], n \in restartedNodes)

Extract(before, after, restartedNodes) ==
  [n \in Node |->
     LET restarted == n \in restartedNodes
         watermark == Watermark(before[n], restarted)
     IN  [measured |-> after[n].timeline.seen - watermark,
          retained |-> {o \in after[n].timeline.retained : o > watermark},
          restarted |-> restarted,
          metrics |-> MetricDeltas(before[n], after[n], restarted),
          windows |-> CountersDelta(before[n].observed, after[n].observed, restarted)]]

-----------------------------------------------------------------------------
(* pipeline.activity, completion_priority.activity and                     *)
(* replication_windows.configuration_receipt.  None of them is told of a   *)
(* restart: they are for cases where no process may have been restarted.   *)

CombinedCounters == {"combined", "peer_first", "proposal_first", "peer_events", "peer_proposals"}

PipelineSound(p) ==
  /\ "completed_operations" \in DOMAIN p
  /\ CombinedCounters \subseteq DOMAIN p =>
       /\ p["combined"] = p["peer_first"] + p["proposal_first"]
       /\ p["peer_events"] >= p["combined"] /\ p["peer_proposals"] >= p["combined"]

PipelineActivity(before, after) ==
  [n \in Node |-> CountersDelta(before[n].pipe, after[n].pipe, FALSE)]

PipelineRaises(before, after) ==
  \/ \E n \in Node : ~PipelineSound(before[n].pipe) \/ ~PipelineSound(after[n].pipe)
  \/ \E n1, n2 \in Node : DOMAIN before[n1].pipe # DOMAIN after[n2].pipe
  \/ \E n \in Node : Negative(PipelineActivity(before, after)[n])
  \/ SumFunction([n \in Node |-> PipelineActivity(before, after)[n]["completed_operations"]]) = 0

CombinedObserved(activity) ==
  \E n \in Node : "combined" \in DOMAIN activity[n] /\ activity[n]["combined"] > 0

PriorityCounters == {"peer_batches", "peer_events", "client_completions"}

PriorityActivity(before, after) ==
  [n \in Node |-> CountersDelta(before[n].priority, after[n].priority, FALSE)]

PriorityRaises(before, after) ==
  \/ \E n \in Node : ~(PriorityCounters \subseteq DOMAIN before[n].priority)
                       \/ ~(PriorityCounters \subseteq DOMAIN after[n].priority)
  \/ \E n1, n2 \in Node : DOMAIN before[n1].priority # DOMAIN after[n2].priority
  \/ \E n \in Node : Negative(PriorityActivity(before, after)[n])

\* Every node that reports to lead has the requested window for each of the
\* other nodes, a follower has none, and somebody reports to lead.
WindowsRaise(snapshot) ==
  \/ \A n \in Node : ~snapshot[n].leader
  \/ \E n \in Node : snapshot[n].windows #
       (IF snapshot[n].leader THEN [f \in Node \ {n} |-> WindowBound] ELSE <<>>)

ConfigurationReceipt(before, after) ==
  [before |-> {n \in Node : before[n].leader}, after |-> {n \in Node : after[n].leader}]

=============================================================================
