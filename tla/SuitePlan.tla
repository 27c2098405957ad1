------------------------------ MODULE SuitePlan ------------------------------
(***************************************************************************)
(* What a paired suite is asked to do and what it will run: the arguments  *)
(* of benchctl.paired and of the three predeclared commands that call it   *)
(* (paired.main, cli.py), the arms, and the exact order of cases           *)
(* (suite_plan.py).  Arguments are records; lists keep their order.  A     *)
(* case name is the tuple of the parts the code prints into it.            *)
(***************************************************************************)
EXTENDS Integers, Sequences, FiniteSets, Functions, TLC

CONSTANT ExactRefs \* refs that are full commit ids

Modes == {"inline", "worker", "messages", "pipeline"}

ModeFlags(mode, engine) ==
  [ordered_apply        |-> mode # "inline" /\ engine = "rafter",
   peer_message_stream  |-> mode \in {"messages", "pipeline"} /\ engine = "rafter",
   pipelined_durability |-> mode = "pipeline" /\ engine = "rafter"]

-----------------------------------------------------------------------------
(* Validation of the arguments before anything is created.                 *)

DistinctWithin(s, low, high) == s # <<>> /\ IsInjective(s) /\ \A i \in DOMAIN s : s[i] \in low..high

SnapshotAware(a) == a.snapshot_intervals # <<>>
SnapshotIntervals(a) == IF SnapshotAware(a) THEN a.snapshot_intervals ELSE <<0>>

\* A side of the comparison that compacts or schedules mixed inputs is a
\* pipeline, and schedules them in one way.
SideAccepted(mode, hard, intervals, combine, priority) ==
  /\ (\E i \in DOMAIN intervals : intervals[i] # 0) => mode = "pipeline" /\ hard = "wal"
  /\ combine \/ priority => mode = "pipeline"
  /\ ~(combine /\ priority)

\* Reclamation under load compares one commit with itself.
ReclamationAccepted(a) ==
  /\ SnapshotAware(a) /\ \A i \in DOMAIN a.snapshot_intervals : a.snapshot_intervals[i] # 0
  /\ a.prior_snapshot_interval = 0
  /\ a.prior \in ExactRefs /\ a.prior = a.candidate
  /\ a.prior_hard_state = "wal" /\ a.candidate_hard_state = "wal"
  /\ a.prior_mode = "pipeline" /\ a.candidate_mode = "pipeline"
  /\ a.peer_batch_sizes = <<a.prior_peer_batch_size>>
  /\ a.thresholds = <<a.prior_threshold>> /\ a.windows = <<a.prior_window>>
  /\ a.prior_combine = a.candidate_combine /\ a.prior_priority = a.candidate_priority
  /\ a.controls = <<>>

ArgumentsAccepted(a) ==
  /\ a.qualify_machine => a.benchmark_sha
  /\ a.runs \in 3..10
  /\ DistinctWithin(a.peer_batch_sizes, 1, 64) /\ a.prior_peer_batch_size \in 1..64
  /\ DistinctWithin(a.thresholds, 1, 64) /\ a.prior_threshold \in 1..64
  /\ DistinctWithin(a.windows, 1, 64) /\ a.prior_window \in 1..64
  /\ DistinctWithin(SnapshotIntervals(a), 0, 1000000000)
  /\ a.prior_snapshot_interval \in 0..1000000000
  /\ SideAccepted(a.prior_mode, a.prior_hard_state, <<a.prior_snapshot_interval>>,
                  a.prior_combine, a.prior_priority)
  /\ SideAccepted(a.candidate_mode, a.candidate_hard_state, SnapshotIntervals(a),
                  a.candidate_combine, a.candidate_priority)
  /\ a.kind = "reclamation-under-load" => ReclamationAccepted(a)
  /\ DistinctWithin(a.rates, 0, 10000000)
  /\ IsInjective(a.diagnostic_rates) /\ a.diagnostic_rates # <<>>
  /\ Range(a.diagnostic_rates) \subseteq Range(a.rates)
  /\ IsInjective(a.controls) /\ Range(a.controls) \subseteq {"synchronous", "async"}
  /\ DistinctWithin(a.delays, 0, 100)

-----------------------------------------------------------------------------
(* The predeclared commands.  o holds what their options leave open.       *)

FixedMachine(o) ==
  [kind |-> "paired-durable-service", prior |-> o.rafter_sha, candidate |-> o.rafter_sha,
   benchmark_sha |-> TRUE, qualify_machine |-> TRUE,
   prior_hard_state |-> "wal", candidate_hard_state |-> "wal",
   prior_mode |-> "pipeline", candidate_mode |-> "pipeline",
   prior_peer_batch_size |-> 32, peer_batch_sizes |-> <<32>>,
   prior_threshold |-> 1, thresholds |-> <<1>>, prior_window |-> 8, windows |-> <<8>>,
   prior_combine |-> FALSE, candidate_combine |-> FALSE,
   prior_priority |-> TRUE, candidate_priority |-> TRUE,
   prior_snapshot_interval |-> 0, snapshot_intervals |-> <<>>,
   rates |-> o.rates, diagnostic_rates |-> o.diagnostic_rates, delays |-> <<0>>]

CapacityCommand(o) ==
  [FixedMachine(o) EXCEPT !.prior_priority = FALSE]
  @@ [runs |-> 4, controls |-> <<"synchronous", "async">>]

PipelineThresholdCommand(o) ==
  [FixedMachine(o) EXCEPT !.thresholds = <<1, 2, 4, 8>>]
  @@ [runs |-> 6, controls |-> <<"synchronous">>]

ReclamationLoadCommand(o) ==
  [FixedMachine(o) EXCEPT !.kind = "reclamation-under-load", !.snapshot_intervals = o.snapshot_intervals]
  @@ [runs |-> 3, controls |-> <<>>]

-----------------------------------------------------------------------------
(* The arms.                                                               *)

\* The sequences F(x) for x in s, one after the other.
Each(s, F(_)) ==
  LET upTo[n \in 0..Len(s)] == IF n = 0 THEN <<>> ELSE upTo[n - 1] \o F(s[n])
  IN upTo[Len(s)]

Arm(label, engine, cap, set, threshold, combine, window, interval) ==
  [label |-> label, engine |-> engine, cap |-> cap, binary_set |-> set, threshold |-> threshold,
   combine |-> combine, window |-> window, interval |-> interval]

OpenraftArms(controls) ==
  [i \in DOMAIN controls |->
     Arm(<<IF controls[i] = "async" THEN "openraft-async" ELSE "openraft">>,
         "openraft", 1, "candidate", 1, FALSE, 8, 0)]

\* A label names only what the suite varies.
CandidateLabel(a, cap, threshold, window, interval) ==
  <<"candidate", cap>>
  \o (IF a.thresholds = <<1>> THEN <<>> ELSE <<"s", threshold>>)
  \o (IF a.candidate_combine THEN <<"combined">> ELSE <<>>)
  \o (IF a.candidate_priority THEN <<"commit-first">> ELSE <<>>)
  \o (IF a.windows = <<8>> THEN <<>> ELSE <<"w", window>>)
  \o (IF SnapshotAware(a) THEN <<"snapshot", interval>> ELSE <<>>)

CandidateArms(a) ==
  Each(a.peer_batch_sizes, LAMBDA cap :
    Each(a.thresholds, LAMBDA threshold :
      Each(a.windows, LAMBDA window :
        Each(SnapshotIntervals(a), LAMBDA interval :
          <<Arm(CandidateLabel(a, cap, threshold, window, interval), "rafter", cap,
                "candidate", threshold, a.candidate_combine, window, interval)>>))))

PriorArm(a) ==
  Arm(<<"prior">>, "rafter", a.prior_peer_batch_size, "prior", a.prior_threshold,
      a.prior_combine, a.prior_window, a.prior_snapshot_interval)

Arms(a) == <<PriorArm(a)>> \o OpenraftArms(a.controls) \o CandidateArms(a)

\* The arms of the separate instrumented pass.
DiagnosticArms(a) ==
  IF Len(a.thresholds) > 1 \/ Len(a.windows) > 1 \/ Len(SnapshotIntervals(a)) > 1
  THEN Arms(a)
  ELSE LET batched == SelectSeq(CandidateArms(a), LAMBDA arm : arm.cap = 32)
       IN <<PriorArm(a)>> \o OpenraftArms(a.controls)
          \o <<IF batched # <<>> THEN batched[1] ELSE CandidateArms(a)[Len(CandidateArms(a))]>>

\* The position balance that is checked only once both builds are archived.
Balanceable(a) == a.kind = "reclamation-under-load" => a.runs % Len(Arms(a)) = 0

\* A side of the comparison is built with the features its mode needs.
BuildConfig(mode, hard, group) ==
  [hard |-> hard, group |-> group, ordered |-> mode # "inline", pipelined |-> mode = "pipeline"]
PriorConfig(a) == BuildConfig(a.prior_mode, a.prior_hard_state, a.prior_peer_batch_size > 1)
CandidateConfig(a) == BuildConfig(a.candidate_mode, a.candidate_hard_state, TRUE)

\* The shortcut forgets that the prior arm may be built without batching.
IdenticalBuildUnbatched(a) ==
  /\ a.prior = a.candidate /\ a.prior \in ExactRefs
  /\ a.prior_hard_state = a.candidate_hard_state
  /\ (a.prior_mode # "inline") = (a.candidate_mode # "inline")
  /\ (a.prior_mode = "pipeline") = (a.candidate_mode = "pipeline")

\* Both arms are archived from one build only when the commit is exact and
\* the features agree.
IdenticalBuild(a) ==
  /\ a.prior = a.candidate /\ a.prior \in ExactRefs
  /\ a.prior_hard_state = a.candidate_hard_state
  /\ a.prior_peer_batch_size > 1
  /\ (a.prior_mode # "inline") = (a.candidate_mode # "inline")
  /\ (a.prior_mode = "pipeline") = (a.candidate_mode = "pipeline")

\* Functional smokes of the candidate build, and the options each is run with.
WorkerSmokeScenarios(a) ==
  IF a.candidate_mode = "inline" THEN <<>>
  ELSE (IF a.candidate_mode = "worker" THEN <<"durable-kv">>
        ELSE <<"durable-kv", "leader-loss", "follower-catchup">>)
       \o (IF a.candidate_mode = "pipeline" /\ a.candidate_hard_state = "wal"
           THEN <<"snapshot-catchup">> ELSE <<>>)

SmokeOptions(a, scenario) ==
  [implementations |-> IF a.candidate_mode = "pipeline" THEN {"rafter"} ELSE {"rafter", "raft-rs"},
   ordered_apply |-> TRUE, peer_batch_size |-> 32,
   pipelined_durability |-> a.candidate_mode = "pipeline",
   snapshot_interval_entries |-> IF scenario = "snapshot-catchup" THEN 8 ELSE 0]

-----------------------------------------------------------------------------
(* The execution plan.                                                     *)

\* Every repetition starts with the same arm.
OrderedArmsFixed(arms, repeat) == arms

\* Cyclic rotation by repetition, counted from zero.
OrderedArms(arms, repeat) ==
  LET k == repeat % Len(arms) IN SubSeq(arms, k + 1, Len(arms)) \o SubSeq(arms, 1, k)

PlannedOptions(a, arm, delay, diagnostic, repeat, rate) ==
  LET prior == arm.binary_set = "prior"
  IN ModeFlags(IF prior THEN a.prior_mode ELSE a.candidate_mode, arm.engine)
     @@ [network_delay_ms |-> delay, peer_batch_size |-> arm.cap, diagnostics |-> diagnostic,
         openraft_async_flush |-> arm.label = <<"openraft-async">>,
         max_speculative_proposals |-> arm.threshold, max_inflight_appends |-> arm.window,
         combine_peer_proposals |-> arm.combine,
         durable_completion_priority |->
           arm.engine = "rafter" /\ IF prior THEN a.prior_priority ELSE a.candidate_priority,
         snapshot_interval_entries |-> arm.interval,
         rate |-> rate, seed |-> repeat + 1, variant |-> arm.label]

PlannedCase(a, arm, position, delay, diagnostic, repeat, rate) ==
  [name |-> <<delay, arm.label, repeat + 1, rate, diagnostic>>, position |-> position,
   repetition |-> repeat + 1, arm |-> arm.label, implementation |-> arm.engine,
   binary_set |-> arm.binary_set,
   options |-> PlannedOptions(a, arm, delay, diagnostic, repeat, rate)]

\* Delays, then timing before diagnostics, then repetitions, rates and the
\* rotated arms.  The ordinal of a case is its place in the plan.
ExecutionPlan(a) ==
  Each(a.delays, LAMBDA delay :
    Each(<<FALSE, TRUE>>, LAMBDA diagnostic :
      Each([r \in 1..(IF diagnostic THEN 1 ELSE a.runs) |-> r - 1], LAMBDA repeat :
        Each(IF diagnostic THEN a.diagnostic_rates ELSE a.rates, LAMBDA rate :
          LET arms == OrderedArms(IF diagnostic THEN DiagnosticArms(a) ELSE Arms(a), repeat)
          IN [p \in DOMAIN arms |-> PlannedCase(a, arms[p], p, delay, diagnostic, repeat, rate)]))))

\* A plan needs distinct labels, or cases would share a directory.
PlanDerivable(a) ==
  /\ Cardinality({Arms(a)[i].label : i \in DOMAIN Arms(a)}) = Len(Arms(a))
  /\ {DiagnosticArms(a)[i].label : i \in DOMAIN DiagnosticArms(a)}
       \subseteq {Arms(a)[i].label : i \in DOMAIN Arms(a)}

\* The count the reports expect, computed from the declaration.
ExpectedDurableCases(a) ==
  Len(a.delays) * (Len(Arms(a)) * Len(a.rates) * a.runs
                   + Len(DiagnosticArms(a)) * Len(a.diagnostic_rates))
=============================================================================
