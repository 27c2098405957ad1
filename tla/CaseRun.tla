------------------------------ MODULE CaseRun -------------------------------
(***************************************************************************)
(* One benchmark case: benchctl/runner.py run_case with the cluster        *)
(* (cluster.py), the status protocol (protocol.py) and the sampler of the  *)
(* measured load (load_sampling.py).                                       *)
(*                                                                         *)
(* The controller starts three node processes and a load generator, kills, *)
(* pauses and restarts nodes while the load runs, reads their counters     *)
(* before and after, and seals what it wrote.  The processes live on their *)
(* own: they work, compact, install snapshots, change leader and may exit. *)
(* Every call of the controller that talks to them, waits for them or      *)
(* writes a file may raise.                                                *)
(*                                                                         *)
(* Node work is modelled as far as the counters of a status tell: a commit *)
(* the node applies, a compaction (fast, or slow when the retired log is   *)
(* destroyed inline), and the install of a snapshot of the leader.         *)
(***************************************************************************)
EXTENDS CaseEvidence, Checker

CONSTANTS
  Modes,        \* the options of the cases
  Histories,    \* per mode: qualification histories the load generator may record
  Measurements, \* results the load generator may write
  Coverage,     \* per mode: whether the load samples may cover the load, or not
  Busy,         \* bound: the nodes that may lead and whose work is followed
  MaxCommit,    \* bound: commits followed, one of them before the load
  MaxInline,    \* bound, per mode: compactions that retire their log inline
  MaxExits      \* bound, per mode: processes that exit on their own

\* The options of a case, and what cli.run refuses.
Options ==
  {o \in [scenario : {"durable-kv", "leader-loss", "follower-catchup", "snapshot-catchup"},
          rafter : BOOLEAN, diagnostics : BOOLEAN, pipelined : BOOLEAN, priority : BOOLEAN,
          interval : Nat, footprint : BOOLEAN, reports : SUBSET STRING] :
     /\ o.pipelined => o.rafter
     /\ o.priority => o.pipelined
     /\ o.interval # 0 => o.pipelined
     /\ o.scenario = "snapshot-catchup" => o.interval # 0}

ASSUME CaseAssumption == (\A m \in Modes : m \in Options) /\ Busy \subseteq Node

VARIABLES
  mode,      \* options of this case
  pc,        \* where run_case is
  node,      \* per node: its process, its counters and its disk
  paused,    \* Cluster.paused
  leader,    \* the node that reports to lead, 0 if none
  commit,    \* commits so far
  load,      \* the measured load generator
  clock,     \* thirds of the duration since the load started; 4 is past the deadline
  elapsed,   \* the loop's reading of the clock in this turn
  sampler, stream, \* the sampler's thread; process-samples.jsonl is open
  faultNode, floor, injected, restored, events, catchup, \* run_case's variables
  history, verdict,      \* qualification history and its verdict
  acked, stored,         \* canaries acknowledged; canaries the cluster holds
  covered, measurement,  \* the samples cover the load; measurement.json
  before, after,         \* status snapshots
  receipts, files, index,\* the evidence directory; index is what SHA256SUMS.json lists
  rebooted,  \* history: canaries acknowledged before all processes were last killed
  exits      \* processes that exited on their own

world == <<node, paused, leader, commit, exits>>
loading == <<load, clock, sampler, stream, measurement>>
fault == <<elapsed, faultNode, floor, injected, restored, events, catchup>>
canary == <<acked, stored, rebooted>>
evidence == <<history, verdict, covered, before, after, receipts, files, index>>
vars == <<mode, pc, world, loading, fault, canary, evidence>>

\* A process that was never started; mark, comps, jumped, down and led are
\* history: the operations the process had seen at the before status, the
\* node's compactions since then, that the process installed a snapshot beyond
\* its own state, that the node was not running, or (in leader-loss) led,
\* since the load started.
NewNode ==
  [proc |-> "none", ops |-> 0, fast |-> 0, slow |-> 0, installs |-> 0, applied |-> 0, snap |-> 0,
   mark |-> 0, comps |-> 0, jumped |-> FALSE, down |-> FALSE, led |-> FALSE]

NoReceipts == [timelines |-> <<>>, windows |-> <<>>, pipeline |-> <<>>, priority |-> <<>>,
               reclamation |-> <<>>]

Init ==
  /\ mode \in Modes /\ pc = "setup"
  /\ node = [n \in Node |-> NewNode] /\ paused = {} /\ leader = 0 /\ commit = 0 /\ exits = 0
  /\ load = "none" /\ clock = 0 /\ sampler = "none" /\ stream = FALSE /\ measurement = <<>>
  /\ elapsed = 0 /\ faultNode = 0 /\ floor = 0 /\ injected = FALSE /\ restored = FALSE
  /\ events = <<>> /\ catchup = [stopped |-> 0, required |-> 0]
  /\ acked = {} /\ stored = {} /\ rebooted = {}
  /\ history = <<>> /\ verdict = "none" /\ covered = FALSE
  /\ before = [node |-> node, leader |-> 0] /\ after = before
  /\ receipts = NoReceipts /\ files = {} /\ index = {}

-----------------------------------------------------------------------------
(* Statuses. *)

Histogram(rec) == [samples |-> rec.fast + rec.slow, buckets |-> [fast |-> rec.fast, slow |-> rec.slow]]

TimelineOf(ops) ==
  LET sampled == {i \in 1..ops : (i - 1) % SampleEvery = 0}
  IN  [seen |-> ops, sampled |-> Cardinality(sampled), completed |-> Cardinality(sampled),
       lost |-> 0, inflight |-> 0, retained |-> sampled]

StatusOf(rec, n, leads) ==
  [interval |-> mode.interval, completed |-> rec.fast + rec.slow, installs |-> rec.installs,
   current |-> rec.snap, timed |-> rec.fast + rec.slow > 0,
   applied |-> rec.applied, commit |-> rec.applied,
   m |-> [metric \in {x \in mode.reports : x \in CheckpointStages => rec.fast + rec.slow > 0} |->
            IF metric = "owner_step_ns"
            THEN [samples |-> rec.ops, buckets |-> [fast |-> rec.ops, slow |-> 0]]
            ELSE Histogram(rec)],
   retirement |-> IF mode.interval = 0 THEN <<>> ELSE [accepted |-> rec.fast, inline |-> rec.slow],
   pipe |-> IF ~mode.pipelined THEN <<>>
            ELSE [c \in CombinedCounters \cup {"completed_operations"} |->
                    IF c = "proposal_first" THEN 0 ELSE rec.ops],
   priority |-> IF mode.priority THEN [c \in PriorityCounters |-> rec.ops] ELSE <<>>,
   observed |-> IF mode.rafter THEN [observations |-> rec.ops] ELSE <<>>,
   timeline |-> TimelineOf(rec.ops),
   leader |-> leads,
   windows |-> IF mode.rafter /\ leads THEN [f \in Node \ {n} |-> WindowBound] ELSE <<>>]

Statuses(snapshot) == [n \in Node |-> StatusOf(snapshot.node[n], n, n = snapshot.leader)]

Evidence ==
  [mode |-> mode, files |-> files, index |-> index, before |-> Statuses(before),
   after |-> Statuses(after), events |-> events, faultNode |-> faultNode, catchup |-> catchup,
   covered |-> covered, measurement |-> measurement, verdict |-> verdict,
   recovered |-> "recovery" \in files, receipts |-> receipts]

\* complete_statuses, wait_ready: one pass in which every node answers.
AllAnswer == \A n \in Node : node[n].proc = "up"

\* What is read of the snapshot a status pass returns: who leads only in a
\* diagnostic case of Rafter.
Observed == [node |-> node, leader |-> IF mode.diagnostics /\ mode.rafter THEN leader ELSE 0]

-----------------------------------------------------------------------------
(* Cluster. *)

Alive(n) == node[n].proc \in {"up", "stopped", "dying"}

\* A new process counts from zero; the disk is the one it had.
Started(rec) == [rec EXCEPT !.proc = "up", !.ops = 0, !.fast = 0, !.slow = 0, !.installs = 0,
                            !.mark = 0, !.jumped = FALSE]

\* Counters and disk are followed from the warm-up to the status after the
\* load; before and after, and once the case has failed, nobody reads them.
Process(proc) == [NewNode EXCEPT !.proc = proc]

Halted(rec, proc) == [rec EXCEPT !.proc = proc, !.down = @ \/ load # "none"]

\* start, without wait_ready: the nodes in order, up to one that fails to start
\* (the second).
StartNodes(from, to) ==
  /\ pc = from
  /\ \E k \in {1, 3} :
       /\ \A n \in 1..k : ~Alive(n)
       /\ node' = [n \in Node |-> IF n <= k THEN Started(node[n]) ELSE node[n]]
       /\ pc' = IF k = 3 THEN to ELSE "except"
  /\ UNCHANGED <<mode, paused, leader, commit, exits, loading, fault, canary, evidence>>

\* wait_ready, then leader: all three answer and one of them reports to lead.
\* Who leads is followed from the warm-up to the status after the load.
WaitReady(from, to) ==
  /\ pc = from /\ AllAnswer
  /\ from = "ready" => leader # 0
  /\ pc' = to
  /\ UNCHANGED <<mode, world, loading, fault, canary, evidence>>

\* stop_node(kill): nothing for a process that has exited.  A process may
\* outlive the wait of five seconds; Popen.wait then raises.
StopNode(n) ==
  IF node[n].proc = "dead"
  THEN UNCHANGED <<node, paused, leader>>
  ELSE /\ node' \in {[node EXCEPT ![n] = Halted(@, proc)] : proc \in {"dead", "dying"}}
       /\ paused' = paused \ {n} /\ leader' = IF leader = n THEN 0 ELSE leader

\* stop_all: every process is killed before any is waited for.  A cluster that
\* loses acknowledged writes loses them here.
StopAll(from, to) ==
  /\ pc = from
  /\ \E late \in {{}, {n \in Node : Alive(n)}}, lost \in {{}, stored} :
       /\ node' = [n \in Node |-> Process(IF n \in late THEN "dying" ELSE "dead")]
       /\ stored' = stored \ lost
       /\ rebooted' = IF late = {} THEN acked ELSE rebooted
       /\ pc' = IF late = {} THEN to ELSE "except"
  /\ paused' = {n \in paused : ~Alive(n)} /\ leader' = 0
  /\ UNCHANGED <<mode, commit, exits, acked, loading, fault, evidence>>

-----------------------------------------------------------------------------
(* run_case up to the measured load. *)

\* The directories, the receipt check and the manifest come before the try: a
\* failure there leaves nothing running and nothing sealed.
Setup ==
  /\ pc = "setup"
  /\ \/ pc' = "boot1" /\ files' = {"manifest"}
     \/ pc' = "ended" /\ files' \in {{}, {"manifest"}}
  /\ UNCHANGED <<mode, world, loading, fault, canary, history, verdict, covered, before, after,
                 receipts, index>>

Qualify ==
  /\ pc = "qualify" /\ history' \in Histories[mode]
  /\ pc' = "judge"
  /\ UNCHANGED <<mode, world, loading, fault, canary, verdict, covered, before, after, receipts,
                 files, index>>

\* check_history may also give up on its limits.
Judge ==
  /\ pc = "judge"
  /\ verdict' \in {CheckHistory(history), "inconclusive"}
  /\ files' = files \cup {"qualification"}
  /\ pc' = IF verdict' = "passed" THEN "canary1" ELSE "except"
  /\ UNCHANGED <<mode, world, loading, fault, canary, history, covered, before, after, receipts, index>>

\* The history file stays, only its verdict matters from here.
Canaries(from, name, to, written) ==
  /\ pc = from
  /\ acked' = acked \cup {name} /\ stored' = stored \cup {name}
  /\ files' = files \cup written /\ history' = <<>>
  /\ pc' = to
  /\ UNCHANGED <<mode, world, loading, fault, rebooted, verdict, covered, before, after, receipts, index>>

\* The values read back are not compared.
ConfirmCanariesUnread(from, to, written) ==
  /\ pc = from /\ pc' = to /\ files' = files \cup written
  /\ UNCHANGED <<mode, world, loading, fault, canary, history, verdict, covered, before, after,
                 receipts, index>>

\* confirm_canaries reads back what the cluster acknowledged.
ConfirmCanaries(from, to, written) ==
  /\ pc = from
  /\ IF acked \subseteq stored
     THEN pc' = to /\ files' = files \cup written
     ELSE pc' = "except" /\ UNCHANGED files
  /\ UNCHANGED <<mode, world, loading, fault, canary, history, verdict, covered, before, after,
                 receipts, index>>

Marked(rec) == [rec EXCEPT !.mark = rec.ops]

\* After the warm-up, the status every later difference starts from.
BeforeStatus ==
  /\ pc = "warm" /\ AllAnswer
  /\ before' = Observed /\ files' = files \cup {"before"}
  /\ node' = [n \in Node |-> Marked(node[n])]
  /\ pc' = "launch"
  /\ UNCHANGED <<mode, paused, leader, commit, exits, loading, fault, canary, history, verdict,
                 covered, after, receipts, index>>

Loading(rec, leads) ==
  [rec EXCEPT !.down = rec.proc # "up", !.led = mode.scenario = "leader-loss" /\ leads]

\* The load generator starts, then the sampler; the sampler may fail to start,
\* which closes the streams and leaves the load running.
Launch ==
  /\ pc = "launch"
  /\ load' = "running" /\ files' = files \cup {"load-log", "process-samples"}
  /\ \/ pc' = "loop" /\ sampler' = "running" /\ stream' = TRUE
     \/ pc' = "except" /\ sampler' = "none" /\ stream' = FALSE
  /\ node' = [n \in Node |-> Loading(node[n], leader = n)]
  /\ UNCHANGED <<mode, paused, leader, commit, exits, clock, measurement, fault, canary, history,
                 verdict, covered, before, after, receipts, index>>

-----------------------------------------------------------------------------
(* The loop that runs while the load generator does. *)

InjectAt == IF mode.scenario = "snapshot-catchup" THEN 0 ELSE 1

\* The loop has no deadline.
LoopTopForever ==
  /\ pc = "loop" /\ load = "running"
  /\ elapsed' = clock
  /\ pc' = IF ~injected /\ clock >= InjectAt /\ mode.scenario # "durable-kv" THEN "observe"
           ELSE "restore"
  /\ UNCHANGED <<mode, world, loading, faultNode, floor, injected, restored, events, catchup,
                 canary, evidence>>

LoopTop ==
  /\ pc = "loop" /\ load = "running" /\ clock < 4
  /\ elapsed' = clock
  /\ pc' = IF ~injected /\ clock >= InjectAt /\ mode.scenario # "durable-kv" THEN "observe"
           ELSE "restore"
  /\ UNCHANGED <<mode, world, loading, faultNode, floor, injected, restored, events, catchup,
                 canary, evidence>>

LoopExit ==
  /\ pc = "loop" /\ load = "ok"
  /\ pc' = "join"
  /\ UNCHANGED <<mode, world, loading, fault, canary, evidence>>

FirstOther(n) == {m \in Node \ {n} : \A k \in Node \ {n} : m <= k}

\* protocol.leader: the node to hit is the leader, or the first other node.
ObserveLeader ==
  /\ pc = "observe" /\ leader # 0
  /\ faultNode' \in IF mode.scenario = "leader-loss" THEN {leader} ELSE FirstOther(leader)
  /\ pc' = IF mode.scenario = "snapshot-catchup" THEN "floor" ELSE "act"
  /\ UNCHANGED <<mode, world, loading, elapsed, floor, injected, restored, events, catchup, canary,
                 evidence>>

\* The applied index of the follower that is about to be killed.
ReadFloor ==
  /\ pc = "floor" /\ node[faultNode].proc = "up"
  /\ floor' = node[faultNode].applied
  /\ pc' = "act"
  /\ UNCHANGED <<mode, world, loading, elapsed, faultNode, injected, restored, events, catchup,
                 canary, evidence>>

Pause(n) ==
  /\ node' = [node EXCEPT ![n] = Halted(@, "stopped")]
  /\ paused' = paused \cup {n} /\ leader' = IF leader = n THEN 0 ELSE leader

Event(action) == [node |-> faultNode, action |-> action]

Inject ==
  /\ pc = "act"
  /\ IF mode.scenario \in DOMAIN KillAction
     THEN StopNode(faultNode)
     ELSE node[faultNode].proc # "dead" /\ Pause(faultNode)
  /\ IF node'[faultNode].proc = "dying"
     THEN pc' = "timeout" /\ UNCHANGED <<events, injected>>
     ELSE /\ pc' = "restore" /\ injected' = TRUE
          /\ events' = Append(events, Event(IF mode.scenario \in DOMAIN KillAction
                                            THEN KillAction[mode.scenario] ELSE "SIGSTOP follower"))
  /\ UNCHANGED <<mode, commit, exits, loading, elapsed, faultNode, floor, restored, catchup, canary,
                 evidence>>

Continued(rec) == [rec EXCEPT !.proc = "up"]

\* resume: only a node this controller paused.
Resumed(n) == IF n \in paused /\ node[n].proc = "stopped"
              THEN [node EXCEPT ![n] = Continued(@)] ELSE node

\* The node comes back: with its data directory, or by SIGCONT.
BringBack ==
  IF mode.scenario \in DOMAIN KillAction
  THEN /\ ~Alive(faultNode)
       /\ node' = [node EXCEPT ![faultNode] = Started(@)] /\ UNCHANGED paused
  ELSE node' = Resumed(faultNode) /\ paused' = paused \ {faultNode}

Restore ==
  /\ pc = "restore"
  /\ IF injected /\ ~restored /\ mode.scenario # "snapshot-catchup" /\ elapsed >= 2
     THEN /\ BringBack /\ restored' = TRUE
          /\ events' = Append(events, Event(IF mode.scenario \in DOMAIN KillAction
                                            THEN RestartAction ELSE "SIGCONT follower"))
     ELSE UNCHANGED <<node, paused, restored, events>>
  /\ pc' = "loop" /\ elapsed' = 0
  /\ UNCHANGED <<mode, leader, commit, exits, loading, faultNode, floor, injected, catchup,
                 canary, evidence>>

\* sampler.stop, in the finally: ask the thread for its last sample, ...
StopSampler ==
  /\ pc \in {"join", "joinerr"}
  /\ sampler' = IF sampler = "running" THEN "last" ELSE sampler
  /\ pc' = IF pc = "join" THEN "joining" ELSE "joiningerr"
  /\ UNCHANGED <<mode, world, load, clock, stream, measurement, fault, canary, evidence>>

\* ... and wait for it.  The thread may outlive the wait; the end of the with
\* closes the stream under it, and its last sample then fails.
JoinSampler ==
  /\ pc \in {"joining", "joiningerr"}
  /\ stream' = FALSE /\ sampler' = "none"
  /\ pc' = IF pc = "joining" /\ sampler = "done" THEN "environment" ELSE "except"
  /\ UNCHANGED <<mode, world, load, clock, measurement, fault, canary, evidence>>

-----------------------------------------------------------------------------
(* After the load. *)

LoadEnvironment ==
  /\ pc = "environment"
  /\ covered' \in Coverage[mode] /\ files' = files \cup {"load-environment"}
  /\ pc' = IF mode.scenario = "snapshot-catchup" /\ injected THEN "catchup" ELSE "settle"
  /\ UNCHANGED <<mode, world, loading, fault, canary, history, verdict, before, after, receipts, index>>

\* The leader must have published a snapshot beyond the floor.
RestartForCatchup ==
  /\ pc = "catchup" /\ leader # 0
  /\ LET required == node[leader].snap IN
     IF required <= floor
     THEN pc' = "except" /\ UNCHANGED <<node, events, catchup>>
     ELSE /\ ~Alive(faultNode) /\ node' = [node EXCEPT ![faultNode] = Started(@)]
          /\ events' = Append(events, Event(RestartAction))
          /\ catchup' = [stopped |-> floor, required |-> required]
          /\ pc' = "poll"
  /\ UNCHANGED <<mode, paused, leader, commit, exits, loading, elapsed, faultNode, floor, injected,
                 restored, canary, evidence>>

CaughtUp ==
  /\ pc = "poll" /\ node[faultNode].proc = "up"
  /\ node[faultNode].installs > 0
  /\ node[faultNode].snap >= catchup.required /\ node[faultNode].applied >= catchup.required
  /\ restored' = TRUE /\ pc' = "settle"
  /\ UNCHANGED <<mode, world, loading, elapsed, faultNode, floor, injected, events, catchup, canary,
                 evidence>>

\* A fault that was not injected goes unnoticed.
SettleUninjected ==
  /\ pc = "settle"
  /\ IF injected /\ ~restored THEN BringBack ELSE UNCHANGED <<node, paused>>
  /\ files' = files \cup {"fault"}
  /\ pc' = IF ResultErrors(measurement) THEN "except" ELSE "ready"
  /\ UNCHANGED <<mode, leader, commit, exits, loading, fault, canary, history, verdict, covered,
                 before, after, receipts, index>>

\* A node still down is brought back without an event; a fault that was not
\* injected, or a measurement that does not add up, fails the case.
Settle ==
  /\ pc = "settle"
  /\ IF injected /\ ~restored THEN BringBack ELSE UNCHANGED <<node, paused>>
  /\ IF mode.scenario # "durable-kv" /\ ~injected
     THEN pc' = "except" /\ UNCHANGED files
     ELSE /\ files' = files \cup {"fault"}
          /\ pc' = IF ResultErrors(measurement) THEN "except" ELSE "ready"
  /\ UNCHANGED <<mode, leader, commit, exits, loading, fault, canary, history, verdict, covered,
                 before, after, receipts, index>>

AfterStatus ==
  /\ pc = "status" /\ AllAnswer
  /\ after' = Observed
  /\ files' = files \cup (IF mode.footprint THEN {"after-measurement-status"} ELSE {})
  /\ pc' = "receipts"
  /\ UNCHANGED <<mode, world, loading, fault, canary, history, verdict, covered, before, receipts, index>>

\* The receipts in their order, up to the one that raises.
WriteReceipts ==
  /\ pc = "receipts"
  /\ LET steps == ReceiptSteps(Evidence)
         raising == {i \in DOMAIN steps : steps[i].raises}
         written == {steps[i].file : i \in {j \in DOMAIN steps : \A r \in raising : j < r}}
     IN  /\ files' = files \cup written
         /\ IF raising = {} THEN receipts' = Receipts(Evidence) /\ pc' = "canary2"
                            ELSE UNCHANGED receipts /\ pc' = "except"
  /\ UNCHANGED <<mode, world, loading, fault, canary, history, verdict, covered, before, after, index>>

LastFiles ==
  {"recovery", "outcome"} \cup (IF mode.footprint THEN {"after-final-restart", "storage-footprint"} ELSE {})

-----------------------------------------------------------------------------
(* The handlers: except, then finally. *)

InLoop == {"observe", "floor", "act", "timeout", "restore"}
MayRaise == {"except", "ready1", "qualify", "judge", "canary1", "ready2", "confirm1", "warm", "launch", "environment",
             "catchup", "poll", "settle", "ready", "status", "receipts", "canary2", "ready3", "confirm2"}

\* An exception leaves the locals of run_case behind, and with them the fault
\* events unless fault.json has them; of the processes only whether they run
\* matters from here.
Abandon ==
  /\ node' = [n \in Node |-> Process(node[n].proc)] /\ leader' = 0 /\ commit' = 0
  /\ IF "fault" \in files THEN UNCHANGED <<events, catchup>>
     ELSE events' = <<>> /\ catchup' = [stopped |-> 0, required |-> 0]
  /\ elapsed' = 0 /\ faultNode' = 0 /\ floor' = 0 /\ injected' = FALSE /\ restored' = FALSE
  /\ acked' = {} /\ stored' = {} /\ rebooted' = {} /\ history' = <<>>
  /\ UNCHANGED <<mode, paused, exits, loading, verdict, covered, before, after, receipts, index>>

\* The handler leaves without the finally.
ExceptOnly ==
  /\ files' = files \cup {"failure"}
  /\ pc' = "ended"
  /\ Abandon

\* The handler writes failure.json; then finally, which kills the load
\* generator if it still runs.
Except ==
  /\ files' = files \cup {"failure"}
  /\ pc' = IF load = "running" THEN "finally" ELSE "close"
  /\ Abandon

Raise ==
  \/ pc \in MayRaise /\ Except
  \/ /\ \/ pc \in InLoop
        \/ pc = "loop" /\ load = "running" /\ clock = 4 \* exceeded run deadline
        \/ pc = "loop" /\ load = "failed"
     /\ pc' = "joinerr" /\ Abandon /\ UNCHANGED files

\* The load generator is left running.
KillLoadNot ==
  /\ pc = "finally" /\ pc' = "close"
  /\ UNCHANGED <<mode, world, loading, fault, canary, evidence>>

\* If the load generator outlives the wait, the handler raises and neither
\* closes the cluster nor seals.
KillLoad ==
  /\ pc = "finally"
  /\ \/ load = "running" /\ load' = "killed" /\ pc' = "close"
     \/ load = "running" /\ load' = "dying" /\ pc' = "ended"
     \/ load # "running" /\ UNCHANGED load /\ pc' = "close"
  /\ UNCHANGED <<mode, world, clock, sampler, stream, measurement, fault, canary, evidence>>

\* The index of a directory whose seal raised: on a symlink, or on an error
\* while hashing or writing.  A torn SHA256SUMS.json reads like none.
SealRaised == {"seal raised"}

\* close: SIGTERM, a wait, SIGKILL, a wait, node after node; then seal.  A
\* process (the second) that outlives both waits ends the handler, and so does
\* a seal that raises.
CloseAndSeal ==
  /\ pc = "close"
  /\ \E k \in {2, 4} :
       /\ k = 2 => Alive(2)
       /\ node' = [n \in Node |->
                     CASE n < k /\ Alive(n) -> Halted(node[n], "dead")
                       [] n = k -> Halted(node[n], "dying")
                       [] OTHER -> node[n]]
       /\ paused' = {n \in paused : n > k \/ ~Alive(n)}
       /\ \/ k = 4 /\ index' = files /\ files' = files \cup {"SHA256SUMS"}
          \/ k = 4 /\ index' = SealRaised /\ UNCHANGED files
          \/ k = 2 /\ UNCHANGED <<index, files>>
  /\ pc' = "ended" /\ leader' = 0
  /\ UNCHANGED <<mode, commit, exits, loading, fault, canary, history, verdict, covered, before, after,
                 receipts>>

-----------------------------------------------------------------------------
(* The processes and the load.  Their work is followed from the warm-up to *)
(* the status after the load.                                              *)

\* Work commutes with the controller's steps that look at no node: it is
\* followed where the next look may tell, and a leader or a process is lost also
\* where the controller is about to use what it has seen.
Working == pc \in {"warm", "loop", "catchup", "poll", "ready"}
Using == pc \in {"act", "catchup", "status"}

Tick ==
  /\ load = "running" /\ clock < 4 /\ clock' = clock + 1
  /\ UNCHANGED <<mode, pc, world, load, sampler, stream, measurement, fault, canary, evidence>>

\* The load generator ends once its duration is over, or fails at any time.
LoadExit ==
  /\ load = "running"
  /\ clock' = 4
  /\ \/ /\ clock >= 3 /\ load' = "ok"
        /\ measurement' \in Measurements /\ files' = files \cup {"measurement"}
     \/ load' = "failed" /\ UNCHANGED <<measurement, files>>
  /\ UNCHANGED <<mode, pc, world, sampler, stream, fault, canary, history, verdict, covered,
                 before, after, receipts, index>>

\* The sampler's thread ends with one more sample.  It keeps the first error of
\* its samples for stop to raise.
Sample ==
  /\ sampler = "last" /\ sampler' \in {"done", "failed"}
  /\ UNCHANGED <<mode, pc, world, load, clock, stream, measurement, fault, canary, evidence>>

NodeStep == UNCHANGED <<mode, pc, paused, exits, loading, fault, canary, evidence>>

Commit ==
  /\ \/ pc = "warm" /\ commit = 0
     \/ load = "running" /\ commit < MaxCommit
  /\ leader # 0 /\ commit' = commit + 1
  /\ UNCHANGED <<node, leader>> /\ NodeStep

Idle == [fast |-> 0, slow |-> 0]

\* The compaction of a log that has this many entries: its retirement goes to
\* the worker, or inline if the worker's queue is full.
Work(entries) ==
  IF mode.interval = 0 \/ entries < mode.interval THEN {Idle}
  ELSE {[Idle EXCEPT !.fast = 1]}
         \cup (IF SumFunction([n \in Node |-> node[n].slow]) < MaxInline[mode] THEN {[Idle EXCEPT !.slow = 1]}
                                                                      ELSE {})

Applied(rec, work) ==
  [rec EXCEPT !.applied = @ + 1, !.ops = @ + 1,
              !.snap = IF work = Idle THEN @ ELSE rec.applied + 1,
              !.fast = @ + work.fast, !.slow = @ + work.slow,
              !.comps = IF "before" \in files THEN @ + work.fast + work.slow ELSE @]

\* Entries the leader still has in its log.  An apply that completes the
\* interval compacts before the owner thread answers another status.
Apply(n) ==
  /\ Working /\ node[n].proc = "up" /\ leader # 0
  /\ node[leader].snap <= node[n].applied /\ node[n].applied < commit
  /\ \E work \in Work(node[n].applied + 1 - node[n].snap) :
       node' = [node EXCEPT ![n] = Applied(@, work)]
  /\ UNCHANGED <<leader, commit>> /\ NodeStep

Installed(rec, snap) ==
  [rec EXCEPT !.snap = snap, !.applied = snap, !.installs = @ + 1, !.jumped = TRUE]

\* Entries the leader has only in its snapshot.
Install(n) ==
  /\ Working /\ node[n].proc = "up" /\ leader # 0 /\ node[leader].snap > node[n].applied
  /\ node' = [node EXCEPT ![n] = Installed(@, node[leader].snap)]
  /\ UNCHANGED <<leader, commit>> /\ NodeStep

StepDown ==
  /\ Using /\ leader # 0 /\ leader' = 0
  /\ UNCHANGED <<node, commit>> /\ NodeStep

Leads(rec) == [rec EXCEPT !.led = @ \/ (load # "none" /\ mode.scenario = "leader-loss")]

Elect(n) ==
  /\ Working /\ node[n].proc = "up" /\ leader = 0
  /\ \E m \in Node \ {n} : node[m].proc = "up" /\ node[m].applied <= node[n].applied
  /\ leader' = n
  /\ node' = [node EXCEPT ![n] = Leads(@)]
  /\ UNCHANGED commit /\ NodeStep

Exit(n) ==
  /\ Working \/ Using
  /\ node[n].proc = "up" /\ exits < MaxExits[mode]
  /\ node' = [node EXCEPT ![n] = Halted(@, "dead")]
  /\ leader' = IF leader = n THEN 0 ELSE leader
  /\ exits' = exits + 1
  /\ UNCHANGED <<mode, pc, paused, commit, loading, fault, canary, evidence>>

-----------------------------------------------------------------------------
Prepare ==
  \/ Setup
  \/ StartNodes("boot1", "ready1") \/ WaitReady("ready1", "qualify") \/ Qualify \/ Judge
  \/ Canaries("canary1", "pre", "kill1", {}) \/ StopAll("kill1", "boot2")
  \/ StartNodes("boot2", "ready2") \/ WaitReady("ready2", "confirm1")
  \/ ConfirmCanaries("confirm1", "warm", {}) \/ BeforeStatus \/ Launch

Loop == LoopTop \/ LoopExit \/ ObserveLeader \/ ReadFloor \/ Inject \/ Restore \/ StopSampler \/ JoinSampler

Conclude ==
  \/ LoadEnvironment \/ RestartForCatchup \/ CaughtUp \/ Settle \/ WaitReady("ready", "status")
  \/ AfterStatus \/ WriteReceipts
  \/ Canaries("canary2", "post", "kill2", {"after"}) \/ StopAll("kill2", "boot3")
  \/ StartNodes("boot3", "ready3") \/ WaitReady("ready3", "confirm2")
  \/ ConfirmCanaries("confirm2", "close", LastFiles)

Controller == Raise \/ Prepare \/ Loop \/ Conclude \/ KillLoad \/ CloseAndSeal

Processes ==
  \/ Tick \/ LoadExit \/ Sample \/ Commit \/ StepDown
  \/ \E n \in Busy : Apply(n) \/ Install(n) \/ Elect(n) \/ Exit(n)

Ended == pc = "ended" /\ UNCHANGED vars

Next == Controller \/ Processes \/ Ended

\* The controller is one thread whose every wait has a deadline, and time
\* passes.  Nothing is asked of the processes.
Spec == Init /\ [][Next]_vars /\ WF_vars(Controller) /\ WF_vars(Tick)

-----------------------------------------------------------------------------
(* Properties. *)

Sealed == "SHA256SUMS" \in files
SealRan == Sealed \/ index = SealRaised

\* What check_history may say when verify runs it again on the recorded
\* history: the same, unless one of the two runs gave up on its limits.
Rechecks ==
  {"inconclusive"} \cup IF verdict = "inconclusive" THEN {"passed", "failed", "invalid"} ELSE {verdict}

\* A run of verify on the directory passes.
VerifiedCase == pc = "ended" /\ \E recheck \in Rechecks : Verified(Evidence, recheck)

\* check_history searches each key on its own.  A history it passes has one
\* order over all keys that explains every reply and keeps the real-time order;
\* a history it fails has none.
QualificationExact ==
  history # <<>> =>
    /\ verdict = "passed" => Complete(history) /\ Linearizable(history)
    /\ verdict = "failed" => ~Linearizable(history)

\* seal hashes files the node processes, the load generator and the sampler
\* write to: when it runs, none of them can write any more, whichever step of
\* run_case raised and whichever process hung.
SealedIsQuiet ==
  SealRan => /\ \A n \in Node : ~Alive(n)
             /\ load \notin {"running", "dying"} /\ ~stream

\* Once the manifest is written, run_case always gets to its seal, unless a
\* process survives SIGKILL past the wait or it stopped before the try: so
\* every other unsealed directory it leaves behind is one whose seal raised.
EveryExitSeals ==
  pc = "ended" /\ ~SealRan =>
    \/ files \subseteq {"manifest"}
    \/ load = "dying" \/ \E n \in Node : node[n].proc = "dying"

\* A verified fault case had its fault.  The first event names a node that was
\* not running at some time since the load started.  In leader-loss that node
\* led since then.  In snapshot-catchup the restarted process installed a
\* snapshot that was ahead of its own state.
FaultReal ==
  VerifiedCase /\ mode.scenario # "durable-kv" =>
    /\ events # <<>> /\ after.node[events[1].node].down
    /\ mode.scenario = "leader-loss" => after.node[events[1].node].led
    /\ mode.scenario = "snapshot-catchup" => after.node[events[1].node].jumped

\* The operations a verified diagnostic case attributes to the load are those
\* each process saw after the before status, also for a node that the case
\* killed and restarted and whose counters started again from zero.
TimelineExact ==
  VerifiedCase /\ mode.diagnostics =>
    \A n \in Node : receipts.timelines[n].measured = after.node[n].ops - after.node[n].mark

\* A reclamation receipt that passed counts, for each node, no compaction that
\* did not happen after the before status, and counts at least one.
ReclamationWithinTruth ==
  receipts.reclamation # <<>> /\ receipts.reclamation.passed =>
    /\ receipts.reclamation.compactions > 0
    /\ \A n \in Node : receipts.reclamation.nodes[n].compactions \in 0..after.node[n].comps

\* A verified case read back every canary of both rounds after a kill of all
\* processes that came after the canary's acknowledgement.
RecoveryReal ==
  VerifiedCase => {"pre", "post"} \subseteq rebooted /\ {"pre", "post"} \subseteq stored

\* The replay, which rebuilds its arguments from the sealed files, agrees with
\* the receipts the runner wrote: a case that ran to its outcome and was sealed
\* verifies, unless the load samples have a gap, a diagnostic case restarted a
\* node without the event (it was still down when the load ended), or the
\* history check, run again, gives up on its limits.
CompletedCaseVerifies ==
  pc = "ended" /\ Sealed /\ "outcome" \in files =>
    \/ \A recheck \in Rechecks \ {"inconclusive"} : Verified(Evidence, recheck)
    \/ ~covered
    \/ mode.diagnostics /\ mode.scenario \in DOMAIN KillAction /\ Len(events) < 2

\* run_case ends, whatever the processes, the load generator and the sampler do.
Terminates == <>(pc = "ended")

\* docs/methodology.md: the correctness verdict covers the finite history.  So
\* it is not "passed" for a sealed case whose history check found no order.
CorrectnessCoversHistory ==
  pc = "ended" /\ Sealed /\ verdict = "failed" =>
    \A recheck \in Rechecks : ~CorrectnessPassed(Evidence, recheck)

=============================================================================
