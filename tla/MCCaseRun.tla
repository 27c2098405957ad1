----------------------------- MODULE MCCaseRun ------------------------------
(***************************************************************************)
(* CaseRun for TLC: one case of each kind the suites run, three nodes.     *)
(***************************************************************************)
EXTENDS CaseRun

Full == BaseStages \cup KernelStages \cup WalStages \cup CheckpointStages
          \cup {Encode, Compaction, "owner_step_ns"}

Case(scenario) ==
  [scenario |-> scenario, rafter |-> TRUE, diagnostics |-> FALSE, pipelined |-> FALSE,
   priority |-> FALSE, interval |-> 0, footprint |-> FALSE, reports |-> {"owner_step_ns"}]

Pipelining == [Case("durable-kv") EXCEPT !.pipelined = TRUE, !.priority = TRUE, !.footprint = TRUE]

Compacting(scenario) == [Case(scenario) EXCEPT !.pipelined = TRUE, !.interval = 1]

MCModes ==
  {Pipelining,
   [Compacting("durable-kv") EXCEPT !.footprint = TRUE, !.diagnostics = TRUE, !.reports = Full],
   [Case("leader-loss") EXCEPT !.rafter = FALSE, !.diagnostics = TRUE],
   [Compacting("leader-loss") EXCEPT !.reports = {Compaction}],
   [Compacting("follower-catchup") EXCEPT !.diagnostics = TRUE, !.reports = Full \ WalStages],
   [Compacting("follower-catchup") EXCEPT !.reports = {Compaction, Encode}],
   [Compacting("snapshot-catchup") EXCEPT !.diagnostics = TRUE, !.reports = Full],
   [Compacting("snapshot-catchup") EXCEPT !.reports = {}]}

\* Histories of three operations: one client writes x, another acts on x or y,
\* the first then reads or swaps x.  Times leave every overlap and every tie.
Interval == {<<0, 1>>, <<1, 1>>, <<0, 3>>, <<1, 2>>, <<2, 3>>}

Op(client, sequence, kind, key, value, expected, at, result, swapped, status) ==
  [client |-> client, sequence |-> sequence, kind |-> kind, key |-> key, value |-> value,
   expected |-> expected, start |-> at[1], end |-> at[2], status |-> status,
   result |-> result, swapped |-> swapped]

First == {Op("c1", 1, "put", "x", "a", NoValue, at, "a", NoValue, "ok") : at \in Interval}
Second ==
  {Op("c2", 1, "get", "x", NoValue, NoValue, at, v, NoValue, "ok") : at \in Interval, v \in {NoValue, "a", "b"}}
    \cup {Op("c2", 1, "put", key, "b", NoValue, at, "b", NoValue, status) :
            at \in Interval, key \in {"x", "y"}, status \in {"ok", "unknown"}}
    \cup {Op("c2", 1, "cas", "x", "b", "a", at, r[1], r[2], "ok") :
            at \in Interval, r \in {<<"b", "yes">>, <<"a", "no">>, <<NoValue, "no">>}}
Third ==
  {Op("c1", 2, "get", "x", NoValue, NoValue, at, v, NoValue, "ok") : at \in Interval, v \in {NoValue, "a", "b"}}
    \cup {Op("c1", 2, "cas", "x", "c", "b", at, r[1], r[2], "ok") :
            at \in Interval, r \in {<<"c", "yes">>, <<"a", "no">>, <<"b", "no">>}}

AllHistories == {<<a, b, c>> : a \in First, b \in Second, c \in Third}

\* A sequential one, and one whose read goes back in time.
TwoHistories ==
  {<<Op("c1", 1, "put", "x", "a", NoValue, <<0, 1>>, "a", NoValue, "ok"),
     Op("c2", 1, "get", "x", NoValue, NoValue, <<2, 3>>, v, NoValue, "ok")>> : v \in {"a", NoValue}}

MCHistories == [m \in MCModes |-> IF m = Pipelining THEN AllHistories ELSE TwoHistories]

\* Inline retirement and a process that exits by itself, each in one case of
\* the kinds where the receipts and the fault depend on it.
MCMaxInline == [m \in MCModes |-> IF m.scenario = "durable-kv" THEN 1 ELSE 0]
MCMaxExits ==
  [m \in MCModes |-> IF (m.scenario = "leader-loss") = m.diagnostics /\ m.scenario \in {"leader-loss", "follower-catchup"}
                     THEN 1 ELSE 0]

MCCoverage == [m \in MCModes |-> IF m = Pipelining THEN BOOLEAN ELSE {TRUE}]

\* One result that adds up, one that counts a success twice.
MCMeasurements ==
  {[offered |-> 3, attempted |-> 2, notIssued |-> 1, ok |-> ok, unknown |-> 1, errors |-> 0,
    inWindow |-> 1, successHistogram |-> 1, allHistogram |-> 2] : ok \in {1, 2}}

=============================================================================
