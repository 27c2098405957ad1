----------------------------- MODULE MCSuiteRun -----------------------------
(***************************************************************************)
(* SuiteRun for TLC: two Rafter commits and a branch; a suite of each      *)
(* predeclared command and two of the general kind.                        *)
(***************************************************************************)
EXTENDS SuiteRun

Command(rates) == [rafter_sha |-> "b", rates |-> rates, diagnostic_rates |-> rates]

Capacity == CapacityCommand(Command(<<0>>))
Thresholds == PipelineThresholdCommand(Command(<<0>>))
Reclamation(intervals) ==
  ReclamationLoadCommand(Command(<<100, 0>>) @@ [snapshot_intervals |-> intervals])

\* A branch against a commit, under a delay, without a benchmark commit.
Delayed ==
  [Capacity EXCEPT !.prior = "a", !.candidate = "main", !.benchmark_sha = FALSE,
     !.qualify_machine = FALSE, !.prior_hard_state = "journal", !.prior_mode = "inline",
     !.delays = <<0, 2>>, !.runs = 3, !.controls = <<>>]

\* One commit in worker mode, the prior arm without batching.
Unbatched ==
  [Capacity EXCEPT !.prior_mode = "worker", !.candidate_mode = "worker", !.qualify_machine = FALSE,
     !.prior_peer_batch_size = 1, !.candidate_priority = FALSE, !.delays = <<2>>, !.runs = 3,
     !.controls = <<"async">>]

MCSuites ==
  [capacity |-> Capacity, thresholds |-> Thresholds, reclamation |-> Reclamation(<<10, 20>>),
   unbalanced |-> Reclamation(<<10>>), delayed |-> Delayed, unbatched |-> Unbatched]

MCRequests == {[hard |-> "wal", group |-> FALSE, ordered |-> FALSE, pipelined |-> TRUE],
               [hard |-> "journal", group |-> FALSE, ordered |-> FALSE, pipelined |-> FALSE]}

\* A candidate that snapshots keeps its WAL under a name of its own; the
\* control still has the initial one.
Bytes(wal, snapshot) ==
  [category \in ManagedRaftCategories |->
     CASE category = "raft_wal_data" -> wal
       [] category = "raft_snapshot_data" -> snapshot
       [] OTHER -> 0]

\* Repetition 1 has long tails, where the ratio decides, and the others short
\* ones, where the absolute budget does; candidates are at the limit.
MCMeasures(a, item) ==
  LET snapshots == item.options.snapshot_interval_entries > 0
      long == item.repetition = 1
      first(n) == IF snapshots /\ n = 1 THEN 1 ELSE 0
  IN IF a.kind # "reclamation-under-load" THEN [present |-> TRUE]
     ELSE
  [present |-> TRUE, losses |-> 0, throughput |-> IF item.options.rate = 0 /\ snapshots THEN 95 ELSE 100,
   p99 |-> IF snapshots THEN (IF long THEN 220 ELSE 30) ELSE (IF long THEN 200 ELSE 20),
   p999 |-> IF snapshots THEN (IF long THEN 330 ELSE 60) ELSE (IF long THEN 300 ELSE 40),
   compactions |-> IF snapshots THEN [n \in Voters |-> first(n)] ELSE <<>>,
   totals |-> [c \in Checkpoints |-> IF snapshots THEN Bytes(3, 2) ELSE Bytes(0, 0)],
   initial_wal |-> [c \in Checkpoints |-> [n \in Voters |-> IF snapshots THEN 0 ELSE 2]],
   journal |-> [c \in Checkpoints |-> IF snapshots THEN 1 ELSE 2],
   snapshots |-> [n \in Voters |-> [data |-> first(n), metadata |-> first(n), temporary |-> 0]],
   indexes |-> [n \in Voters |-> 10 * first(n)],
   files |-> [n \in Voters |-> [journals |-> 1, temporary |-> 0]],
   restart_ns |-> 1,
   stages |-> IF item.options.diagnostics /\ snapshots
              THEN [schema |-> 7,
                    native |-> [g \in {"base", "kernel", "wal"} |-> [samples |-> 1, max |-> 5]],
                    checkpoint |-> [g \in {"write", "sync", "publish"} |-> [samples |-> 0, max |-> 0]],
                    encode |-> [samples |-> 1, max |-> 2]]
              ELSE <<>>]

\* One step beyond each edge of the objective.
MCDeviations(a, item) ==
  LET m == MCMeasures(a, item)
  IN IF a.kind # "reclamation-under-load" THEN {}
     ELSE IF item.options.diagnostics
     THEN IF item.options.snapshot_interval_entries > 0 THEN {[m EXCEPT !.stages = <<>>]} ELSE {}
     ELSE IF item.repetition = 2 THEN {[m EXCEPT !.p99 = @ + 1], [m EXCEPT !.p999 = @ + 1]}
     ELSE IF item.repetition = 3 THEN {}
     ELSE {[m EXCEPT !.losses = 1], [m EXCEPT !.throughput = @ - 1], [m EXCEPT !.throughput = @ - 2],
           [m EXCEPT !.p99 = @ + 1], [m EXCEPT !.p99 = @ - 1],
           [m EXCEPT !.initial_wal["after_measurement"][2] = 1],
           [m EXCEPT !.initial_wal["after_final_restart"][2] = 1]}
          \union IF m.compactions = <<>> THEN {}
                 ELSE {[m EXCEPT !.p999 = @ + 1], [m EXCEPT !.compactions[1] = 0],
                       [m EXCEPT !.journal["after_measurement"] = 2],
                       [m EXCEPT !.snapshots[1].data = 2], [m EXCEPT !.snapshots[2].temporary = 1],
                       [m EXCEPT !.indexes[2] = 10], [m EXCEPT !.files[3].temporary = 1],
                       [m EXCEPT !.restart_ns = 0]}

MCActivity(item) ==
  IF ~item.options.diagnostics THEN {}
  ELSE (IF item.options.durable_completion_priority THEN {"priority", "lookahead"} ELSE {})
         \union (IF item.options.combine_peer_proposals THEN {"combined"} ELSE {})
=============================================================================
