--------------------------- MODULE ReclamationLoad ---------------------------
(***************************************************************************)
(* The predeclared assessment of WAL reclamation under service load        *)
(* (src/benchctl/reclamation_load.py, schema 2): candidates that snapshot  *)
(* at some interval against the same code that never does.                 *)
(*                                                                         *)
(* `data` is what results.load_durable_suite returns: the declaration      *)
(* (kind, arms, rates, runs), whether the suite qualified, and its cases   *)
(* as a set of records                                                     *)
(*   ordinal, variant, rate, repetition, diagnostics, engine,              *)
(*   configuration (hard_state and the rest of the options),               *)
(*   passed        the qualification of the case;                          *)
(*   m             what it measured: present, losses, throughput, p99,     *)
(*                 p999 (tenths of a millisecond), compactions (per node,  *)
(*                 <<>> without a receipt), totals and initial_wal (bytes  *)
(*                 per checkpoint), journal, snapshots, indexes, files,    *)
(*                 restart_ns, and the stage receipt of a diagnostic case. *)
(* A float of the code is an integer of the unit named; a missing maximum  *)
(* is 0.  The ...Sound operators are FALSE where the code raises.          *)
(***************************************************************************)
EXTENDS Integers, FiniteSets, Functions

CONSTANT Voters \* the three nodes

Checkpoints == {"after_measurement", "after_final_restart"}
ManagedRaftCategories ==
  {"raft_wal_data", "raft_wal_metadata", "raft_snapshot_data", "raft_snapshot_metadata",
   "raft_snapshot_temporary"}

TimingCases(data) == {c \in data.cases : ~c.diagnostics}
DiagnosticCases(data, variant, rate) ==
  {c \in data.cases : c.diagnostics /\ c.variant = variant /\ c.rate = rate}

-----------------------------------------------------------------------------
(* Physical reclamation.                                                   *)

\* Before its first reclamation the WAL lives at a path the footprint does
\* not count as WAL.
LegacyWalAllocated(c, checkpoint) ==
  IF c.configuration.hard_state = "wal" THEN SumFunction(c.m.initial_wal[checkpoint]) ELSE 0

\* The control's initial WAL is left out of the comparison.
ManagedRaftAllocatedCategorised(c, checkpoint) ==
  SumFunctionOnSet(c.m.totals[checkpoint], ManagedRaftCategories)

ManagedRaftAllocated(c, checkpoint) ==
  SumFunctionOnSet(c.m.totals[checkpoint], ManagedRaftCategories) + LegacyWalAllocated(c, checkpoint)

\* One selected envelope and manifest once a node has snapshotted, none before.
ExpectedSnapshotFiles(c, n) == IF c.m.indexes[n] > 0 THEN 1 ELSE 0

FinalSnapshotArtifactsBounded(c) ==
  \A n \in Voters : c.m.snapshots[n] = [data |-> ExpectedSnapshotFiles(c, n),
                                        metadata |-> ExpectedSnapshotFiles(c, n), temporary |-> 0]

FinalApplicationArtifactsBounded(c) ==
  \A n \in Voters : c.m.files[n] = [journals |-> 1, temporary |-> 0]

PhysicalPassed(control, candidate) ==
  /\ control.m.present /\ candidate.m.present
  /\ \A checkpoint \in Checkpoints :
       /\ ManagedRaftAllocated(candidate, checkpoint) < ManagedRaftAllocated(control, checkpoint)
       /\ candidate.m.journal[checkpoint] < control.m.journal[checkpoint]
  /\ FinalSnapshotArtifactsBounded(candidate)
  /\ FinalApplicationArtifactsBounded(candidate)

-----------------------------------------------------------------------------
(* Reclamation activity.                                                   *)

CompactionSound(c) == c.m.present /\ c.m.compactions # <<>> /\ SumFunction(c.m.compactions) > 0

\* The final restart of the processes was timed.
RestartTimed(c) == c.m.present /\ c.m.restart_ns > 0

MetricCoherent(metric) == (metric.samples = 0) = (metric.max = 0)

\* The stages a diagnostic receipt may carry, by its schema; the names stand
\* for the groups of stages that appear together.
NativeSnapshotStagesSound(r) ==
  \/ r.native = <<>>
  \/ /\ DOMAIN r.native \in {{"base"}, {"base", "kernel"}, {"base", "kernel", "wal"}}
     /\ r.schema \in {5, 6} => DOMAIN r.native = {"base", "kernel"}
     /\ r.schema = 7 => DOMAIN r.native = {"base", "kernel", "wal"}
     /\ \A s \in DOMAIN r.native : MetricCoherent(r.native[s])

ApplicationCheckpointStagesSound(r) ==
  IF r.checkpoint = <<>> THEN r.schema \notin 4..7
  ELSE DOMAIN r.checkpoint = {"write", "sync", "publish"}
       /\ \A s \in DOMAIN r.checkpoint : MetricCoherent(r.checkpoint[s])

ApplicationSnapshotEncodeSound(r) ==
  IF r.encode = <<>> THEN r.schema \notin {6, 7} ELSE MetricCoherent(r.encode)

\* A suite with diagnostics has one diagnostic case per comparison, and its
\* receipt can be read.
DiagnosticsSound(data, variant, rate) ==
  (\E c \in data.cases : c.diagnostics) =>
    \E c \in data.cases :
      /\ DiagnosticCases(data, variant, rate) = {c}
      /\ c.m.present /\ c.m.stages # <<>>
      /\ NativeSnapshotStagesSound(c.m.stages)
      /\ ApplicationCheckpointStagesSound(c.m.stages)
      /\ ApplicationSnapshotEncodeSound(c.m.stages)

-----------------------------------------------------------------------------
(* The service objective.                                                  *)

\* Control plus a tenth of it or the absolute budget, whichever is more;
\* compared in hundredths of a millisecond.
TailLimit(control, absolute) ==
  10 * control + (IF control > 10 * absolute THEN control ELSE 10 * absolute)

Served(c, rate) ==
  /\ c.passed /\ c.m.present
  /\ c.m.losses = 0
  /\ rate > 0 => 100 * c.m.throughput >= 99 * rate

ServicePassed(control, candidate, rate) ==
  /\ Served(control, rate) /\ Served(candidate, rate)
  /\ rate = 0 => /\ control.m.throughput > 0
                 /\ 100 * candidate.m.throughput >= 95 * control.m.throughput
  /\ rate > 0 => /\ 10 * candidate.m.p99 <= TailLimit(control.m.p99, 10)
                 /\ 10 * candidate.m.p999 <= TailLimit(control.m.p999, 20)

-----------------------------------------------------------------------------
(* The assessment.                                                         *)

PriorArms(data) == {a \in data.arms : a.binary_set = "prior"}
SnapshotCandidates(data) == {a \in data.arms : a.binary_set = "candidate" /\ a.engine = "rafter"}
Prior(data) ==
  IF Cardinality(PriorArms(data)) = 1 THEN (CHOOSE a \in PriorArms(data) : TRUE).label ELSE <<"prior">>

Grouped(data, variant, rate, repetition) ==
  {c \in TimingCases(data) : c.variant = variant /\ c.rate = rate /\ c.repetition = repetition}

\* The same-seed pairs of one comparison: control, candidate.
Pairs(data, variant, rate) ==
  LET unique(label) == {r \in 1..data.runs : Cardinality(Grouped(data, label, rate, r)) = 1}
  IN UNION {Grouped(data, Prior(data), rate, r) \X Grouped(data, variant, rate, r) :
              r \in unique(Prior(data)) \intersect unique(variant)}

\* Control and candidate differ in the snapshot interval alone.
SameButInterval(control, candidate) ==
  control.engine = candidate.engine /\ control.configuration = candidate.configuration

EvidencePassed(data) ==
  /\ data.kind = "reclamation-under-load" /\ data.qualified
  /\ \A c, d \in TimingCases(data) :
       c.variant = d.variant /\ c.rate = d.rate /\ c.repetition = d.repetition => c = d
  /\ Cardinality(PriorArms(data)) = 1 /\ \A a \in PriorArms(data) : a.interval = 0
  /\ SnapshotCandidates(data) # {} /\ \A a \in SnapshotCandidates(data) : a.interval > 0
  /\ \A a \in SnapshotCandidates(data), rate \in data.rates :
       /\ Cardinality(Pairs(data, a.label, rate)) = data.runs
       /\ \A p \in Pairs(data, a.label, rate) : SameButInterval(p[1], p[2]) /\ RestartTimed(p[2])

Assess(data) ==
  LET compared == {k \in SnapshotCandidates(data) \X data.rates : k[1].interval > 0}
      verdicts ==
        [evidence |-> EvidencePassed(data),
         service |-> \A k \in compared : \A p \in Pairs(data, k[1].label, k[2]) :
                       ServicePassed(p[1], p[2], k[2]),
         activity |-> \A k \in compared :
                        /\ \A p \in Pairs(data, k[1].label, k[2]) : CompactionSound(p[2])
                        /\ Pairs(data, k[1].label, k[2]) # {} =>
                             DiagnosticsSound(data, k[1].label, k[2]),
         physical |-> \A k \in compared : \A p \in Pairs(data, k[1].label, k[2]) :
                        PhysicalPassed(p[1], p[2])]
  IN [verdicts |-> verdicts, passed |-> \A v \in DOMAIN verdicts : verdicts[v]]
=============================================================================
