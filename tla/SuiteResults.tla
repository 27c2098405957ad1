---------------------------- MODULE SuiteResults ----------------------------
(***************************************************************************)
(* What the reports make of the directory of a paired suite                *)
(* (src/benchctl/results.py, feature_coverage.py).                         *)
(*                                                                         *)
(* A suite directory s has the fields                                      *)
(*   declared    the declaration in suite.json, which fixes the plan;      *)
(*   failures    the planned cases completion.json lists as failed;        *)
(*   coverage    the feature-coverage verdict recorded there;              *)
(*   builds      the receipt archived for each binary set;                 *)
(*   smokes      the verdict of each functional smoke;                     *)
(*   machine     machine-qualification.json: absent, passed or failed;     *)
(*   assessment  reclamation-under-load.json, <<>> when absent;            *)
(*   cases       the case directories with a manifest, by place in the     *)
(*               plan: item (the planned case the manifest repeats),       *)
(*               built (the set whose receipt it names), status, activity  *)
(*               (the optimisation paths its receipts observed), m (what   *)
(*               it measured) and intact (its seal still matches).         *)
(* A case is "verified" or "unverified" when it completed, "aborted" when  *)
(* it left a failure.                                                      *)
(***************************************************************************)
EXTENDS SuitePlan, ReclamationLoad

CONSTANT Suites \* the suites asked for: their arguments, by a name

\* The arguments of a suite and the plan they give.
Plans == [name \in DOMAIN Suites |-> ExecutionPlan(Suites[name])]
Args(s) == Suites[s.declared]
Plan(s) == Plans[s.declared]

-----------------------------------------------------------------------------
(* Feature coverage.                                                       *)

CompletedCases(s, variant) ==
  {i \in DOMAIN s.cases : s.cases[i].status # "aborted" /\ Plan(s)[s.cases[i].item].options.variant = variant}

Observed(s, variant) == UNION {s.cases[i].activity : i \in CompletedCases(s, variant)}

\* Both the priority paths and the bounded lookahead must have been taken in
\* some completed case.
CompletionPriorityChecks(s, variants) ==
  [v \in variants |-> [passed |-> {"priority", "lookahead"} \subseteq Observed(s, v),
                       receipts |-> Cardinality(CompletedCases(s, v))]]

CombinedStepChecks(s, variants) ==
  [v \in variants |-> [passed |-> "combined" \in Observed(s, v),
                       receipts |-> Cardinality(CompletedCases(s, v))]]

CoverageVerdict(s, priority, combined) ==
  LET checks == <<CompletionPriorityChecks(s, priority), CombinedStepChecks(s, combined)>>
  IN [status |-> IF priority \union combined = {} THEN "not selected"
                 ELSE IF /\ \A v \in priority : checks[1][v].passed
                         /\ \A v \in combined : checks[2][v].passed
                      THEN "passed" ELSE "incomplete",
      checks |-> checks]

-----------------------------------------------------------------------------
(* Loading a suite.                                                        *)

\* A case as the reports see it: replayed by verify, identified by what its
\* manifest says.
NormalizeCase(s, i) ==
  LET c == s.cases[i]
      o == Plan(s)[c.item].options
      rafter == Plan(s)[c.item].implementation = "rafter"
      built == s.builds[c.built]
  IN [ordinal |-> i, variant |-> o.variant, rate |-> o.rate, repetition |-> o.seed,
      diagnostics |-> o.diagnostics, delay |-> o.network_delay_ms,
      engine |-> [name |-> Plan(s)[c.item].implementation, version |-> IF rafter THEN built.rev ELSE "pinned"],
      configuration |->
        [hard_state |-> IF rafter THEN built.config.hard ELSE "adapter_journal",
         options |-> [o EXCEPT !.variant = <<>>, !.snapshot_interval_entries = 0, !.rate = 0,
                               !.seed = 0, !.diagnostics = FALSE, !.network_delay_ms = 0]],
      environment |-> [source |-> built.source, load |-> built.binaries["load"]],
      passed |-> c.status = "verified" /\ c.intact, m |-> c.m]

\* The cases are counted by name and not compared with their place.
ExecutionPlanNamesOnly(s) ==
  /\ PlanDerivable(Args(s))
  /\ Args(s).benchmark_sha
  /\ DOMAIN s.cases = DOMAIN Plan(s)

\* The cases on disk are exactly the planned ones, each with the options of
\* its place in the plan, in a clean checkout of the benchmark.
ExecutionPlanHolds(s) ==
  /\ PlanDerivable(Args(s))
  /\ Args(s).benchmark_sha
  /\ DOMAIN s.cases = DOMAIN Plan(s)
  /\ \A i \in DOMAIN s.cases : s.cases[i].item = i

\* A suite that declares a machine qualification has a passing one, and one
\* that declares none has no receipt.
MachineQualificationHolds(s) ==
  s.machine = IF Args(s).qualify_machine THEN "passed" ELSE "absent"

ReportedVariants(s, feature(_)) ==
  {Plan(s)[s.cases[i].item].options.variant :
     i \in {j \in DOMAIN s.cases : feature(Plan(s)[s.cases[j].item].options)}}

\* The verdict replayed from the receipts that are still there.
ReplayedCoverage(s) ==
  CoverageVerdict(s, ReportedVariants(s, LAMBDA o : o.durable_completion_priority),
                     ReportedVariants(s, LAMBDA o : o.combine_peer_proposals))

SuiteQualified(s) ==
  /\ s.failures = {}
  /\ ExecutionPlanHolds(s)
  /\ MachineQualificationHolds(s)
  /\ Cardinality(DOMAIN s.cases) = ExpectedDurableCases(Args(s))
  /\ s.coverage = ReplayedCoverage(s)
  /\ \A i \in DOMAIN s.cases : s.cases[i].status = "verified" /\ s.cases[i].intact
  /\ \A k \in DOMAIN s.smokes : s.smokes[k] = "passed"

\* What load_durable_suite hands to the assessment and to the aggregation.
DurableSuite(s) ==
  [kind |-> Args(s).kind, arms |-> Range(Arms(Args(s))), rates |-> Range(Args(s).rates),
   runs |-> Args(s).runs, qualified |-> SuiteQualified(s),
   cases |-> {NormalizeCase(s, i) : i \in DOMAIN s.cases}]

\* A recorded reclamation assessment must be the one the cases give.
AssessmentHolds(s) ==
  Args(s).kind = "reclamation-under-load" =>
    \E data \in {DurableSuite(s)} : s.assessment = Assess(data)

LoadDurableSuite(s) == [DurableSuite(s) EXCEPT !.qualified = @ /\ AssessmentHolds(s)]

-----------------------------------------------------------------------------
(* Aggregation over repetitions.                                           *)

Identity(c) == [variant |-> c.variant, engine |-> c.engine, configuration |-> c.configuration,
                rate |-> c.rate, delay |-> c.delay, environment |-> c.environment]

\* A row passes in a qualified suite with every repetition verified.
AggregateDurable(data) ==
  LET timing == {c \in data.cases : ~c.diagnostics}
      samples(identity) == {c \in timing : Identity(c) = identity}
  IN {[identity |-> identity, samples |-> samples(identity),
       passed |-> /\ data.qualified
                  /\ Cardinality(samples(identity)) = data.runs
                  /\ \A c \in samples(identity) : c.passed /\ c.m.present] :
        identity \in {Identity(c) : c \in timing}}
=============================================================================
