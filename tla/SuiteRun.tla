------------------------------ MODULE SuiteRun ------------------------------
(***************************************************************************)
(* A working copy on a benchmark machine and the commands an operator runs *)
(* in it: select-rafter, build and paired suites (src/benchctl/paired.py,  *)
(* network.py).  A suite builds and archives two arms, smokes the          *)
(* candidate, restores the selection, qualifies the machine, and then runs *)
(* its plan case by case under each loopback delay.  CaseRun has what      *)
(* happens inside one case; here a case is its outcome.                    *)
(*                                                                         *)
(* A step of a suite may raise, an interrupt may reach it, and its process *)
(* may be killed between any two steps.  Afterwards a case directory may   *)
(* be lost or altered before the reports load the suite.  One command runs *)
(* at a time.                                                              *)
(***************************************************************************)
EXTENDS Checkout, SuiteResults

CONSTANTS Measures(_, _),    \* what a planned case of a suite measures ...
          Deviations(_, _),  \* ... and what it may measure instead
          Activity(_),       \* the optimisation paths it observes
          Requests,          \* builds an operator asks for between suites
          MaxCommands,       \* bound: commands of one behaviour
          MaxKills,          \* bound: kills of one behaviour
          MaxFaults          \* bound: failed, damaged and deviating cases of the last suite

ASSUME ExactAssumption == ExactRefs = Shas

\* What the option parsers accept as a ref and as a hard-state backend.
ASSUME SuiteAssumption ==
  /\ Requests \subseteq Configs
  /\ \A name \in DOMAIN Suites :
       /\ {Suites[name].prior, Suites[name].candidate} \subseteq Refs
       /\ {Suites[name].prior_hard_state, Suites[name].candidate_hard_state} \subseteq HardStates

VARIABLES pc,        \* next step of the running suite, or "idle"
          original,  \* the selection it captured
          heads,     \* commits the branch named since it started
          suite,     \* its output directory, as the reports will see it
          complete,  \* completion.json exists
          delay,     \* place of the current delay in args.delays
          qdisc,     \* milliseconds of delay on the loopback, 0 for none
          under,     \* the delay each finished case really ran under
          stuck,     \* a delay was left on the loopback
          unclean,   \* ... before this suite started
          damaged,   \* cases whose directory was lost or altered
          odd,       \* cases that measured a deviation
          commands, kills

callerVars == <<original, heads>>
outputVars == <<suite, complete, under, damaged, odd>>
netVars == <<delay, qdisc, stuck, unclean>>
countVars == <<commands, kills>>
suiteVars == <<callerVars, outputVars, netVars, countVars>>
vars == <<checkoutVars, pc, suiteVars>>

\* The arguments of the running suite.
args == Args(suite)

Ready(label) == pc = label /\ op = "none"

\* require_clean_repository.
CleanRepository == selection = [f \in Files |-> Committed] /\ sources = 0

EmptyDirectory(name) ==
  [declared |-> name, builds |-> [set \in {"prior", "candidate"} |-> <<>>], failures |-> {},
   coverage |-> <<>>, smokes |-> <<>>, machine |-> "absent", assessment |-> <<>>, cases |-> <<>>]

FreshDirectory(name) ==
  suite' = EmptyDirectory(name) /\ complete' = FALSE /\ under' = <<>> /\ damaged' = {} /\ odd' = {}

\* There is no suite to look at.  A directory without completion.json cannot
\* be loaded, and one with it is loaded before the next command.
NoSuite ==
  /\ original' = <<>> /\ heads' = {} /\ FreshDirectory("none")
  /\ delay' = 1 /\ unclean' = FALSE

\* The process ends before completion.json.
Stop == pc' = "idle" /\ NoSuite

-----------------------------------------------------------------------------
(* Commands between suites.                                                *)

Operator ==
  /\ Ready("idle") /\ commands < MaxCommands
  /\ \/ \E r \in Refs : Select(r)
     \/ \E c \in Requests : Build(c)
  /\ NoSuite /\ commands' = commands + 1
  /\ UNCHANGED <<pc, qdisc, stuck, kills>>

Developer ==
  /\ Ready("idle") /\ commands < MaxCommands
  /\ Edit \/ GitCheckout
  /\ NoSuite
  /\ UNCHANGED <<pc, qdisc, stuck, countVars>>

\* The branch is read when a selection of it is staged; it moves just before.
Push ==
  /\ op = "stage" /\ ref = BranchRef /\ MoveBranch
  /\ heads' = IF pc = "idle" THEN heads ELSE heads \union {branch'}
  /\ UNCHANGED <<pc, original, outputVars, netVars, countVars>>

\* A running selection, build or restore takes its next step.
Operate == OpStep /\ UNCHANGED <<pc, suiteVars>>

-----------------------------------------------------------------------------
(* Preparation: builds, smokes, restore.                                   *)

\* Valid arguments, a clean repository when a commit is named, a new
\* directory; the selection is captured and the prior revision selected.
StartSuite(name) ==
  /\ Ready("idle") /\ commands < MaxCommands
  /\ ArgumentsAccepted(Suites[name]) /\ (Suites[name].benchmark_sha => CleanRepository)
  /\ original' = selection /\ heads' = {branch}
  /\ FreshDirectory(name) /\ delay' = 1 /\ unclean' = stuck
  /\ Select(Suites[name].prior) /\ pc' = "prior selected"
  /\ commands' = commands + 1
  /\ UNCHANGED <<qdisc, stuck, kills>>

BuildPrior ==
  /\ Ready("prior selected") /\ outcome = "ok"
  /\ Build(PriorConfig(args)) /\ pc' = "prior built"
  /\ UNCHANGED suiteVars

\* The binaries the receipt names are copied, unless one differs from it.
ArchiveBuild(set) ==
  /\ receipt.present /\ \A e \in Engines : dist[e] = receipt.binaries[e]
  /\ suite' = [suite EXCEPT !.builds[set] = receipt]
  /\ UNCHANGED <<callerVars, complete, under, damaged, odd, netVars, countVars>>

ArchivePrior ==
  /\ Ready("prior built") /\ outcome = "ok"
  /\ ArchiveBuild("prior")
  /\ IF IdenticalBuild(args)
     THEN pc' = "candidate built" /\ UNCHANGED checkoutVars
     ELSE pc' = "candidate selected" /\ Select(args.candidate)

BuildCandidate ==
  /\ Ready("candidate selected") /\ outcome = "ok"
  /\ Build(CandidateConfig(args)) /\ pc' = "candidate built"
  /\ UNCHANGED suiteVars

ArchiveCandidate ==
  /\ Ready("candidate built") /\ outcome = "ok"
  /\ ArchiveBuild("candidate") /\ pc' = "smoke"
  /\ UNCHANGED checkoutVars

\* `raft-bench run --smoke`, which checks the working build for itself.
Smoke ==
  LET scenarios == WorkerSmokeScenarios(args)
  IN /\ Ready("smoke") /\ Len(suite.smokes) < Len(scenarios)
     /\ RunAccepts(SmokeOptions(args, scenarios[Len(suite.smokes) + 1]))
     /\ suite' = [suite EXCEPT !.smokes = Append(@, "passed")]
     /\ UNCHANGED <<checkoutVars, pc, callerVars, complete, under, damaged, odd, netVars, countVars>>

FinishPreparation ==
  /\ Ready("smoke") /\ Len(suite.smokes) = Len(WorkerSmokeScenarios(args))
  /\ Restore(original) /\ pc' = "restored"
  /\ UNCHANGED suiteVars

\* An operation raised, an archive could not be written, a smoke failed, or
\* an interrupt arrived.
PreparationRaises ==
  op = "none" /\ pc \in {"prior selected", "prior built", "candidate selected", "candidate built", "smoke"}

\* The selection is restored only when the preparation succeeds.
FailPreparationUnrestored ==
  /\ PreparationRaises
  /\ pc' = "abandoned"
  /\ UNCHANGED <<checkoutVars, suiteVars>>

\* The selection is restored on this way out too.
FailPreparation ==
  /\ PreparationRaises
  /\ Restore(original) /\ pc' = "abandoned"
  /\ UNCHANGED suiteVars

Abandon ==
  /\ Ready("abandoned") \/ (Ready("restored") /\ outcome = "raised")
  /\ Stop
  /\ UNCHANGED <<checkoutVars, qdisc, stuck, countVars>>

\* qualify_machine: the profile passes or fails.
QualifyMachine(profile) == IF args.qualify_machine THEN profile ELSE "absent"

\* One load generator for both arms, the machine, the position balance of a
\* reclamation suite, and a plan; then suite.json.
Declare ==
  /\ Ready("restored") /\ outcome = "ok"
  /\ \E profile \in {"passed", "failed"} :
       IF /\ suite.builds["prior"].binaries["load"] = suite.builds["candidate"].binaries["load"]
          /\ dist["load"] = suite.builds["candidate"].binaries["load"]
          /\ QualifyMachine(profile) # "failed"
          /\ Balanceable(args) /\ PlanDerivable(args)
       THEN /\ suite' = [suite EXCEPT !.machine = QualifyMachine(profile)] /\ pc' = "delay"
            /\ UNCHANGED <<callerVars, complete, under, damaged, odd, delay, unclean>>
       ELSE Stop
  /\ UNCHANGED <<checkoutVars, qdisc, stuck, countVars>>

-----------------------------------------------------------------------------
(* Timing: each delay, and each case planned under it.                     *)

CurrentPlan == Plan(suite)
Declared(i) == CurrentPlan[i].options.network_delay_ms
Remaining == {i \in DOMAIN CurrentPlan \ DOMAIN under : Declared(i) = args.delays[delay]}

\* The last suite of a behaviour still has a case to spoil.
MayFail == commands = MaxCommands /\ Cardinality(suite.failures \union damaged \union odd) < MaxFaults

\* Zero leaves the loopback as it is.  A delay is refused on top of another;
\* one that cannot be confirmed is removed again, if `tc` can.
EnterDelay ==
  /\ pc = "delay" /\ delay <= Len(args.delays)
  /\ LET wanted == args.delays[delay]
     IN \/ /\ wanted = 0 \/ qdisc = 0
           /\ qdisc' = IF wanted = 0 THEN qdisc ELSE wanted
           /\ pc' = "case" /\ UNCHANGED <<callerVars, outputVars, delay, unclean, stuck>>
        \/ wanted # 0 /\ Stop /\ UNCHANGED <<qdisc, stuck>>
        \/ wanted # 0 /\ qdisc = 0 /\ Stop /\ qdisc' = wanted /\ stuck' = TRUE
  /\ UNCHANGED <<checkoutVars, countVars>>

\* What the directory of case i holds.
Evidence(i, status, m) ==
  i :> [item |-> i, built |-> CurrentPlan[i].binary_set, status |-> status,
        activity |-> IF status = "aborted" THEN {} ELSE Activity(CurrentPlan[i]),
        m |-> m, intact |-> TRUE]

\* A case ran, was verified, and its stores were reclaimed.
CaseVerified(i) ==
  /\ \/ /\ suite' = [suite EXCEPT !.cases = @ @@ Evidence(i, "verified", Measures(args, CurrentPlan[i]))]
        /\ UNCHANGED odd
     \/ /\ MayFail /\ odd' = odd \union {i}
        /\ \E m \in Deviations(args, CurrentPlan[i]) :
             suite' = [suite EXCEPT !.cases = @ @@ Evidence(i, "verified", m)]

\* An exception: refused before its manifest, aborted, not verified, or its
\* stores could not be removed.  The plan goes on.
CaseFailed(i) ==
  LET measured(status) == Evidence(i, status, Measures(args, CurrentPlan[i]))
  IN /\ MayFail
     /\ \E evidence \in {<<>>, Evidence(i, "aborted", [present |-> FALSE]), measured("unverified"),
                         measured("verified")} :
          suite' = [suite EXCEPT !.failures = @ \union {i}, !.cases = @ @@ evidence]
     /\ UNCHANGED odd

RunCase ==
  /\ pc = "case" /\ Remaining # {}
  /\ \E i \in Remaining :
       /\ \A j \in Remaining : i <= j
       /\ under' = [j \in DOMAIN under \union {i} |-> IF j = i THEN qdisc ELSE under[j]]
       /\ CaseVerified(i) \/ CaseFailed(i)
  /\ UNCHANGED <<checkoutVars, pc, callerVars, complete, damaged, netVars, countVars>>

\* Only a delay that ran its cases to the end is removed.
RemoveDelayInterrupted ==
  IF args.delays[delay] = 0 \/ Remaining # {} THEN UNCHANGED <<qdisc, stuck>>
  ELSE qdisc' = 0 /\ UNCHANGED stuck

\* `tc qdisc del`, on every way out of a delay.
RemoveDelay ==
  IF args.delays[delay] = 0 THEN UNCHANGED <<qdisc, stuck>>
  ELSE qdisc' = 0 /\ UNCHANGED stuck

NextDelay ==
  /\ pc = "case" /\ Remaining = {}
  /\ RemoveDelay /\ pc' = "delay" /\ delay' = delay + 1
  /\ UNCHANGED <<checkoutVars, callerVars, outputVars, unclean, countVars>>

\* An interrupt is no Exception and ends the suite from within a case, and so
\* does a `tc` that cannot remove the delay.
Interrupt ==
  /\ pc = "case" /\ Stop
  /\ RemoveDelay \/ (args.delays[delay] # 0 /\ stuck' = TRUE /\ UNCHANGED qdisc)
  /\ UNCHANGED <<checkoutVars, countVars>>

PriorityVariants(a) ==
  (IF a.prior_priority THEN {<<"prior">>} ELSE {})
    \union (IF a.candidate_priority
            THEN {CandidateArms(a)[k].label : k \in DOMAIN CandidateArms(a)} ELSE {})
CombinedVariants(a) == {arm.label : arm \in {b \in Range(Arms(a)) : b.combine}}

\* completion.json.
Complete ==
  /\ pc = "delay" /\ delay > Len(args.delays)
  /\ suite' = [suite EXCEPT !.coverage =
                 CoverageVerdict(suite, PriorityVariants(args), CombinedVariants(args))]
  /\ complete' = TRUE
  /\ pc' = IF args.kind = "reclamation-under-load" THEN "assess" ELSE "idle"
  /\ UNCHANGED <<checkoutVars, callerVars, under, damaged, odd, netVars, countVars>>

\* reclamation-under-load.json.
RecordAssessment ==
  /\ pc = "assess"
  /\ \E data \in {DurableSuite(suite)} : suite' = [suite EXCEPT !.assessment = Assess(data)]
  /\ pc' = "idle"
  /\ UNCHANGED <<checkoutVars, callerVars, complete, under, damaged, odd, netVars, countVars>>

-----------------------------------------------------------------------------
(* Kills, and what happens to a directory before it is loaded.             *)

Kill ==
  /\ kills < MaxKills /\ (pc # "idle" \/ op # "none")
  /\ KillOp /\ kills' = kills + 1
  /\ IF complete THEN pc' = "idle" /\ UNCHANGED <<callerVars, outputVars, delay, unclean>> ELSE Stop
  /\ stuck' = (stuck \/ qdisc # 0)
  /\ UNCHANGED <<qdisc, commands>>

Completed == Ready("idle") /\ complete

\* A case directory is lost, altered, or replaced by a copy of its neighbour.
Damage ==
  /\ Completed /\ MayFail
  /\ \E i \in DOMAIN suite.cases :
       /\ damaged' = damaged \union {i}
       /\ \/ suite' = [suite EXCEPT !.cases = Restrict(@, DOMAIN @ \ {i})]
          \/ suite' = [suite EXCEPT !.cases[i].intact = FALSE]
          \/ i - 1 \in DOMAIN suite.cases /\ suite' = [suite EXCEPT !.cases[i] = suite.cases[i - 1]]
  /\ UNCHANGED <<checkoutVars, pc, callerVars, complete, under, odd, netVars, countVars>>

Init ==
  /\ CheckoutInit /\ pc = "idle"
  /\ original = <<>> /\ heads = {}
  /\ suite = EmptyDirectory("none") /\ complete = FALSE
  /\ under = <<>> /\ damaged = {} /\ odd = {}
  /\ delay = 1 /\ qdisc = 0 /\ stuck = FALSE /\ unclean = FALSE
  /\ commands = 0 /\ kills = 0

Next ==
  \/ Operator \/ Developer \/ Push \/ Operate
  \/ \E name \in DOMAIN Suites : StartSuite(name)
  \/ BuildPrior \/ ArchivePrior \/ BuildCandidate \/ ArchiveCandidate
  \/ Smoke \/ FinishPreparation \/ FailPreparation \/ Abandon \/ Declare
  \/ EnterDelay \/ RunCase \/ NextDelay \/ Interrupt \/ Complete \/ RecordAssessment
  \/ Kill \/ Damage

Spec == Init /\ [][Next]_vars

-----------------------------------------------------------------------------
(* Properties; ReceiptTruthful and SelectionWhole are those of Checkout.   *)

\* However the preparation of a suite ends short of a kill or a failing
\* restore, the selection is the one it started from and no receipt of a
\* benchmarked revision is left behind (the finally of
\* prepare_builds_and_smokes).
PreparationRestores ==
  op = "none" /\ ~cut /\ pc \in {"abandoned", "restored", "delay", "case", "assess"} =>
    selection = original /\ ~receipt.present

\* The binary that measures an arm was built from the commit that arm asked
\* for -- a commit its branch named while the suite ran, if it asked for a
\* branch -- with the features its mode needs, whether the arm had a build of
\* its own or shared one (identical_build).
ArmsAsRequested ==
  \A set \in {b \in DOMAIN suite.builds : suite.builds[b] # <<>>} :
    LET wanted == IF set = "prior" THEN args.prior ELSE args.candidate
        mode == IF set = "prior" THEN args.prior_mode ELSE args.candidate_mode
        hard == IF set = "prior" THEN args.prior_hard_state ELSE args.candidate_hard_state
        archived == suite.builds[set]
        binary == archived.binaries["rafter"]
    IN /\ IF wanted \in Shas THEN binary.rev = wanted ELSE binary.rev \in heads
       /\ archived.rev = binary.rev /\ archived.config = binary.config
       /\ binary.config.hard = hard
       /\ mode # "inline" => binary.config.ordered
       /\ mode = "pipeline" => binary.config.pipelined /\ binary.config.group
       /\ set = "candidate" \/ args.prior_peer_batch_size > 1 => binary.config.group

\* A case runs under the loopback delay its plan and its manifest declare,
\* and the host is given back without one -- unless a kill or a failing `tc`
\* left a delay behind; then only a case that declares none can be mislabelled.
DelayAsPlanned ==
  /\ \A i \in DOMAIN under : under[i] = Declared(i) \/ (Declared(i) = 0 /\ unclean)
  /\ pc = "idle" /\ qdisc # 0 => stuck

\* The reports qualify a suite exactly when every planned case was run,
\* verified and reclaimed, the benchmark commit was named, the derived
\* assessment was recorded, and no case directory was lost, altered or
\* replaced by another since.  A qualified suite publishes one passing row for
\* each arm, rate and delay, made of each repetition once; any other suite
\* publishes none (load_durable_suite, aggregate_durable).
SuiteQualificationExact ==
  Completed =>
    \A data \in {LoadDurableSuite(suite)} : \A rows \in {AggregateDurable(data)} :
      /\ data.qualified
           <=> /\ args.benchmark_sha /\ suite.failures = {} /\ damaged = {}
               /\ args.kind = "reclamation-under-load" => suite.assessment # <<>>
      /\ data.qualified =>
           /\ Cardinality(rows) = Len(Arms(args)) * Len(args.rates) * Len(args.delays)
           /\ \A row \in rows : {c.repetition : c \in row.samples} = 1..args.runs
      /\ \A row \in rows : row.passed = data.qualified

\* In a completed suite of as many repetitions as arms, every arm ran once at
\* every place of the order at each rate and delay (ordered_arms;
\* methodology.md promises it of the predeclared suites).
PositionsBalanced ==
  Completed /\ args.runs = Len(Arms(args)) =>
    LET timing == {i \in DOMAIN under : ~CurrentPlan[i].options.diagnostics}
        \* cases that ran before it at its delay, rate and repetition
        place(i) == Cardinality({j \in timing : j < i /\ \A f \in {"network_delay_ms", "rate", "seed"} :
                                   CurrentPlan[j].options[f] = CurrentPlan[i].options[f]})
    IN Cardinality({<<CurrentPlan[i].arm, CurrentPlan[i].options.rate, Declared(i), place(i)>> : i \in timing})
         = Cardinality(timing)

\* Bytes of Raft storage on the disks, wherever the files are.
RaftBytes(m, checkpoint) == SumFunction(m.totals[checkpoint]) + SumFunction(m.initial_wal[checkpoint])

\* The reclamation objective for candidate i and its control j.
MeetsObjective(i, j) ==
  LET x == suite.cases[i].m
      y == suite.cases[j].m
      rate == CurrentPlan[i].options.rate
      within(p, q, tenths) == 10 * p <= 11 * q \/ p <= q + tenths
  IN /\ x.losses = 0 /\ y.losses = 0 /\ x.restart_ns > 0 /\ \E n \in Voters : x.compactions[n] > 0
     /\ IF rate = 0 THEN 20 * x.throughput >= 19 * y.throughput
        ELSE /\ \A z \in {x, y} : 100 * z.throughput >= 99 * rate
             /\ within(x.p99, y.p99, 10) /\ within(x.p999, y.p999, 20)
     /\ \A c \in Checkpoints : RaftBytes(x, c) < RaftBytes(y, c) /\ x.journal[c] < y.journal[c]
     /\ \A n \in Voters : /\ x.snapshots[n].data = x.snapshots[n].metadata
                          /\ (x.snapshots[n].data = 1) = (x.indexes[n] > 0)
                          /\ x.snapshots[n].data < 2 /\ x.snapshots[n].temporary = 0
                          /\ x.files[n] = [journals |-> 1, temporary |-> 0]

\* The recorded reclamation verdict passes exactly when the suite qualified
\* and every snapshotting case met the objective against the control of its
\* own rate and seed, wherever the rotation put the two.
AssessmentExact ==
  Completed /\ suite.assessment # <<>> /\ damaged = {} =>
    LET timing(set) == {i \in DOMAIN suite.cases :
                          ~CurrentPlan[i].options.diagnostics /\ CurrentPlan[i].binary_set = set}
    IN suite.assessment.passed
         <=> /\ SuiteQualified(suite)
             /\ \A i \in timing("candidate") : \E j \in timing("prior") :
                  /\ CurrentPlan[j].options.rate = CurrentPlan[i].options.rate
                  /\ CurrentPlan[j].options.seed = CurrentPlan[i].options.seed
                  /\ MeetsObjective(i, j)
             /\ \A i \in DOMAIN suite.cases :
                  CurrentPlan[i].options.diagnostics /\ CurrentPlan[i].binary_set = "candidate"
                    => suite.cases[i].m.stages # <<>>
=============================================================================
