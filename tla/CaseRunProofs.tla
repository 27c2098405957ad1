---------------------------- MODULE CaseRunProofs ----------------------------
(***************************************************************************)
(* Proofs about CaseRun, for any set of cases, histories, measurements and *)
(* bounds: what run_case seals is quiet, every exit seals, and what a      *)
(* verified case reports of its fault, of its restarts, of the operations  *)
(* and of the compactions is what happened; the replay of a case that ran  *)
(* to its outcome agrees with its receipts.                                *)
(***************************************************************************)
EXTENDS CaseRunInvariant

\* The steps go to Zenon unless they name another prover.
USE Zenon

-----------------------------------------------------------------------------
(* The counters. *)

LEMMA CountKeeps == IInv /\ [Next]_vars => CountInv'
<1> SUFFICES ASSUME IInv, [Next]_vars PROVE CountInv'
  BY Zenon
<1>i. TypeInv /\ FaultInv /\ CountInv
  BY Zenon DEF IInv, NodeInv
<1>n. SoundNodes(node) /\ \A n \in Node : Sound(node[n]) /\ Base(n) \in Nat
  BY SMTT(30), <1>i DEF TypeInv, SoundNodes, Sound, NodeRec, Base
<1> USE DEF Body, Looping, InLoop, Loaded
<1>1. CASE BeforeStatus
  <2>1. node' = [n \in Node |-> Marked(node[n])] /\ before'.node = node /\ pc' = "launch"
    BY Zenon, <1>1 DEF BeforeStatus, Observed
  <2>2. \A n \in Node : /\ Marked(node[n]).mark = node[n].ops
                        /\ Marked(node[n]).fast = node[n].fast /\ Marked(node[n]).slow = node[n].slow
    BY Zenon, <1>n, MarkedRec
  <2> QED
    BY Zenon, <2>1, <2>2 DEF CountInv
<1>2. CASE Launch
  <2>1. node' = [n \in Node |-> Loading(node[n], leader = n)] /\ UNCHANGED <<mode, injected, before>>
        /\ pc' \in {"loop", "except"}
    BY Zenon, <1>2 DEF Launch, fault
  <2>2. \A n \in Node : /\ Loading(node[n], leader = n).mark = before.node[n].ops
                        /\ Loading(node[n], leader = n).comps = node[n].comps
                        /\ Loading(node[n], leader = n).fast = before.node[n].fast
                        /\ Loading(node[n], leader = n).slow = before.node[n].slow
    <3>1. \A n \in Node : /\ node[n].mark = before.node[n].ops
                          /\ node[n].fast = before.node[n].fast /\ node[n].slow = before.node[n].slow
      BY Zenon, <1>i, <1>2 DEF CountInv, Launch
    <3> QED
      <4> TAKE n \in Node
      <4>1. Sound(node[n]) /\ (leader = n) \in BOOLEAN
        BY Zenon, <1>n
      <4>2. /\ Loading(node[n], leader = n).mark = node[n].mark
            /\ Loading(node[n], leader = n).comps = node[n].comps
            /\ Loading(node[n], leader = n).fast = node[n].fast
            /\ Loading(node[n], leader = n).slow = node[n].slow
        BY Zenon, <4>1, LoadingRec
      <4> QED
        BY Zenon, <3>1, <4>2
  <2>3. \A n \in Node : before.node[n].fast \in Nat /\ before.node[n].slow \in Nat /\ node[n].comps \in Nat
    BY Zenon, <1>i, <1>n DEF TypeInv, SoundNodes, Sound, NodeRec
  <2>4. \A n \in Node : node'[n].mark = before'.node[n].ops /\ Within(node'[n], Base(n))
    BY SMTT(30), <2>1, <2>2, <2>3 DEF Within, Base
  <2>5. ~injected
    BY Zenon, <1>i, <1>2 DEF Launch, FaultInv, Prep
  <2> QED
    BY Zenon, <2>1, <2>4, <2>5 DEF CountInv, Base
<1>3. CASE \/ LoopTop \/ LoopExit \/ StopSampler \/ JoinSampler \/ LoadEnvironment \/ ObserveLeader \/ ReadFloor
           \/ CaughtUp \/ WaitReady("ready", "status")
           \/ Tick \/ LoadExit \/ Sample \/ Commit \/ StepDown \/ UNCHANGED vars
  <2>1. UNCHANGED <<mode, node, injected, before>>
    BY Zenon, <1>3 DEF LoopTop, LoopExit, StopSampler, JoinSampler, LoadEnvironment, ObserveLeader, ReadFloor,
       CaughtUp, WaitReady, Tick, LoadExit, Sample, Commit, StepDown, NodeStep, world, fault, evidence, vars
  <2>2. pc' \in Body => /\ pc \in Body /\ (injected => UNCHANGED faultNode)
                        /\ (restored' \/ pc' = "poll") = (restored \/ pc = "poll")
                        /\ restored' \/ pc' \in {"poll", "ready", "status"}
                             <=> restored \/ pc \in {"poll", "ready", "status"}
    <3>1. CASE LoopTop \/ LoopExit \/ StopSampler \/ JoinSampler \/ LoadEnvironment
      BY Zenon, <3>1 DEF LoopTop, LoopExit, StopSampler, JoinSampler, LoadEnvironment, fault
    <3>2. CASE ObserveLeader \/ ReadFloor
      BY Zenon, <1>i, <3>2 DEF ObserveLeader, ReadFloor, FaultInv, FaultBody
    <3>3. CASE CaughtUp \/ WaitReady("ready", "status")
      <4>1. CASE CaughtUp
        BY SMTT(30), <4>1 DEF CaughtUp
      <4>2. CASE WaitReady("ready", "status")
        BY SMTT(30), <4>2 DEF WaitReady, fault
      <4> QED
        BY Zenon, <3>3, <4>1, <4>2
    <3>4. CASE Tick \/ LoadExit \/ Sample \/ Commit \/ StepDown \/ UNCHANGED vars
      BY SMTT(30), <3>4 DEF Tick, LoadExit, Sample, Commit, StepDown, NodeStep, fault, vars
    <3> QED
      BY Zenon, <1>3, <3>1, <3>2, <3>3, <3>4
  <2>3. pc' = "launch" => pc = "launch"
    BY Zenon, <1>3 DEF LoopTop, LoopExit, StopSampler, JoinSampler, LoadEnvironment, ObserveLeader, ReadFloor,
       CaughtUp, WaitReady, Tick, LoadExit, Sample, Commit, StepDown, NodeStep, vars
  <2> QED
    BY Zenon, <1>i, <2>1, <2>2, <2>3 DEF CountInv, Within, Base, Kills, Catchup
<1>4. CASE Inject
  <2>1. faultNode \in Node /\ ~injected /\ ~restored /\ pc = "act"
    BY Zenon, <1>i, <1>4 DEF Inject, FaultInv, FaultBody
  <2>2. UNCHANGED <<mode, faultNode, restored, before>> /\ pc' \in {"timeout", "restore"}
        /\ \/ node' = node
           \/ \E proc \in Procs : node' = [node EXCEPT ![faultNode] = Halted(node[faultNode], proc)]
    BY Zenon, <1>4 DEF Inject, StopNode, Pause, evidence, Procs
  <2>3. \A m \in Node : /\ node'[m].mark = node[m].mark
                        /\ Within(node[m], Base(m)) => Within(node'[m], Base(m))
    <3>1. ASSUME NEW proc \in Procs, node' = [node EXCEPT ![faultNode] = Halted(node[faultNode], proc)]
          PROVE \A m \in Node : /\ node'[m].mark = node[m].mark
                                /\ Within(node[m], Base(m)) => Within(node'[m], Base(m))
      <4>1. /\ Sound(Halted(node[faultNode], proc)) /\ Halted(node[faultNode], proc).mark = node[faultNode].mark
            /\ Within(node[faultNode], Base(faultNode)) => Within(Halted(node[faultNode], proc), Base(faultNode))
        BY Zenon, <1>n, <2>1, HaltedRec DEF Within
      <4> QED
        BY SMTT(30), <1>n, <2>1, <3>1, <4>1, OneNode
    <3> QED
      BY Zenon, <2>2, <3>1
  <2> QED
    BY Zenon, <1>i, <2>1, <2>2, <2>3 DEF CountInv, Base, Kills, Catchup
<1>5. CASE Restore \/ Settle \/ RestartForCatchup
  <2>1. UNCHANGED <<mode, faultNode, injected, before>> /\ pc \in Body /\ pc' # "launch"
        /\ \/ node' = node /\ UNCHANGED restored /\ (injected /\ ~restored => pc' \notin {"poll", "ready"})
           \/ /\ injected /\ ~restored /\ (restored' \/ pc' \in {"poll", "ready", "except"})
              /\ \/ ~Kills /\ node' = node
                 \/ ~Kills /\ node' = [node EXCEPT ![faultNode] = Continued(node[faultNode])]
                 \/ Kills /\ node' = [node EXCEPT ![faultNode] = Started(node[faultNode])]
    BY Zenon, <1>i, <1>5 DEF Restore, Settle, RestartForCatchup, BringBack, Resumed, evidence, fault, FaultInv, FaultBody,
       Kills, Catchup, KillAction
  <2>2. CASE node' = node /\ UNCHANGED restored /\ (injected /\ ~restored => pc' \notin {"poll", "ready"})
    <3>1. pc \in {"restore", "settle", "catchup"} /\ pc' \in {"loop", "ready", "poll", "except"}
      BY Zenon, <1>5 DEF Restore, Settle, RestartForCatchup
    <3>2. \A n \in Node : /\ \/ node[n].mark = before.node[n].ops
                             \/ Kills /\ injected /\ n = faultNode /\ restored
                          /\ Within(node[n], Base(n))
      BY Zenon, <1>i, <2>1, <3>1 DEF CountInv
    <3>3. /\ Kills /\ injected /\ restored => node[faultNode].mark = 0
          /\ Catchup /\ injected /\ restored => Within(node[faultNode], 0)
      BY Zenon, <1>i, <2>1 DEF CountInv
    <3>4. injected /\ (restored' \/ pc' = "poll") => restored
      BY Zenon, <2>2
    <3> QED
      BY Zenon, <2>1, <2>2, <3>1, <3>2, <3>3, <3>4 DEF CountInv, Base, Kills, Catchup
  <2>3. CASE /\ injected /\ ~restored /\ (restored' \/ pc' \in {"poll", "ready", "except"})
             /\ \/ ~Kills /\ node' = node
                \/ ~Kills /\ node' = [node EXCEPT ![faultNode] = Continued(node[faultNode])]
                \/ Kills /\ node' = [node EXCEPT ![faultNode] = Started(node[faultNode])]
    <3>1. faultNode \in Node
      BY Zenon, <1>i, <2>1, <2>3 DEF FaultInv, FaultBody
    <3>2. CASE ~Kills /\ (node' = node \/ node' = [node EXCEPT ![faultNode] = Continued(node[faultNode])])
      <4>1. \A m \in Node : /\ node'[m].mark = node[m].mark
                            /\ Within(node[m], Base(m)) => Within(node'[m], Base(m))
        <5>1. /\ Sound(Continued(node[faultNode])) /\ Continued(node[faultNode]).mark = node[faultNode].mark
              /\ Within(node[faultNode], Base(faultNode)) => Within(Continued(node[faultNode]), Base(faultNode))
          BY Zenon, <1>n, <3>1, ContinuedRec DEF Within
        <5> QED
          BY SMTT(30), <1>n, <3>1, <3>2, <5>1, OneNode
      <4> QED
        BY Zenon, <1>i, <2>1, <3>2, <4>1 DEF CountInv, Base, Kills, Catchup
    <3>3. CASE Kills /\ node' = [node EXCEPT ![faultNode] = Started(node[faultNode])]
      <4>1. /\ node'[faultNode].mark = 0 /\ Within(node'[faultNode], 0)
            /\ Within(node'[faultNode], Base(faultNode))
            /\ \A m \in Node : m # faultNode => node'[m] = node[m]
        <5>1. /\ Sound(Started(node[faultNode])) /\ Started(node[faultNode]).mark = 0
              /\ Started(node[faultNode]).fast = 0 /\ Started(node[faultNode]).slow = 0
              /\ Started(node[faultNode]).comps \in Nat
          BY Zenon, <1>n, <3>1, StartedRec DEF Sound, NodeRec
        <5>2. node'[faultNode] = Started(node[faultNode]) /\ \A m \in Node : m # faultNode => node'[m] = node[m]
          BY SMTT(30), <1>n, <3>1, <3>3, <5>1, OneNode
        <5> QED
          BY SMTT(30), <1>n, <3>1, <5>1, <5>2 DEF Within
      <4> QED
        BY Zenon, <1>i, <2>1, <2>3, <3>1, <3>3, <4>1 DEF CountInv, Base, Kills, Catchup
    <3> QED
      BY Zenon, <2>3, <3>2, <3>3
  <2> QED
    BY Zenon, <2>1, <2>2, <2>3
<1>6. ASSUME NEW n \in Busy, Apply(n) \/ Install(n) \/ Elect(n) \/ Exit(n) PROVE CountInv'
  <2>1. UNCHANGED pc /\ pc # "launch"
    BY Zenon, <1>6 DEF Apply, Install, Elect, Exit, NodeStep, Working, Using
  <2>2. CASE pc \in Body
    <3>1. /\ \A m \in Node : Kept(node[m], node'[m])
          /\ n \in Node /\ UNCHANGED <<mode, pc, faultNode, injected, restored, events, before>>
      BY Zenon, <1>6, <2>2, ProcessesKeep
    <3>2. \A m \in Node : /\ node'[m].mark = node[m].mark
                          /\ Within(node[m], Base(m)) => Within(node'[m], Base(m))
                          /\ Within(node[m], 0) => Within(node'[m], 0)
      BY Zenon, <1>n, <3>1 DEF Kept
    <3>3. injected => faultNode \in Node
      BY Zenon, <1>i, <2>2 DEF FaultInv, FaultBody
    <3> QED
      BY Zenon, <1>i, <2>1, <2>2, <3>1, <3>2, <3>3 DEF CountInv, Base, Kills, Catchup
  <2>3. CASE pc \notin Body
    BY Zenon, <2>1, <2>3 DEF CountInv
  <2> QED
    BY Zenon, <2>2, <2>3
<1>7. CASE \/ Raise \/ Setup \/ Qualify \/ Judge
           \/ WaitReady("ready1", "qualify") \/ WaitReady("ready2", "confirm1") \/ WaitReady("ready3", "confirm2")
           \/ StartNodes("boot1", "ready1") \/ StartNodes("boot2", "ready2") \/ StartNodes("boot3", "ready3")
           \/ StopAll("kill1", "boot2") \/ StopAll("kill2", "boot3")
           \/ Canaries("canary1", "pre", "kill1", {}) \/ Canaries("canary2", "post", "kill2", {"after"})
           \/ ConfirmCanaries("confirm1", "warm", {}) \/ ConfirmCanaries("confirm2", "close", LastFiles)
           \/ AfterStatus \/ WriteReceipts \/ KillLoad \/ CloseAndSeal
  <2>1. pc' \notin Body \cup {"launch"}
    BY <1>7 DEF Raise, Except, Setup, Qualify, Judge, WaitReady, StartNodes, StopAll, Canaries, ConfirmCanaries,
       AfterStatus, WriteReceipts, KillLoad, CloseAndSeal
  <2> QED
    BY Zenon, <2>1 DEF CountInv
<1> QED
  BY <1>1, <1>2, <1>3, <1>4, <1>5, <1>6, <1>7
     DEF Next, Controller, Prepare, Loop, Conclude, Processes, Ended
-----------------------------------------------------------------------------
(* What was reported. *)

\* What the receipts are computed from.
Reading == <<mode, before, after, events, faultNode, catchup>>

\* It does not change once the status after the load is read.
LEMMA ReadingKept ==
  ASSUME IInv, [Next]_vars, Measured', ~AfterStatus
  PROVE  Measured /\ UNCHANGED Reading
<1>i. /\ Done => pc \in {"close", "ended"} /\ load = "ok"
      /\ pc \in {"receipts"} \cup Closing => load = "ok"
  BY Zenon DEF IInv, FileInv, ControlInv
<1>s. "recovery" \notin {"fault", "measurement", "SHA256SUMS"}
  OBVIOUS
<1> USE DEF Measured, Concluding, Done, Closing, Reading
<1>1. CASE Raise
  BY SMTT(30), <1>i, <1>1 DEF Raise, MayRaise, InLoop, Except
<1>2. CASE \/ Setup \/ Qualify \/ Judge
           \/ WaitReady("ready1", "qualify") \/ WaitReady("ready2", "confirm1")
           \/ WaitReady("ready", "status") \/ WaitReady("ready3", "confirm2")
           \/ StartNodes("boot1", "ready1") \/ StartNodes("boot2", "ready2") \/ StartNodes("boot3", "ready3")
           \/ StopAll("kill1", "boot2") \/ StopAll("kill2", "boot3")
  <2>1. CASE Setup \/ Qualify \/ Judge
    BY SMTT(30), <1>i, <2>1 DEF Setup, Qualify, Judge
  <2>2. CASE \/ WaitReady("ready1", "qualify") \/ WaitReady("ready2", "confirm1")
             \/ WaitReady("ready", "status") \/ WaitReady("ready3", "confirm2")
    BY Zenon, <1>i, <2>2 DEF WaitReady, fault, evidence
  <2>3. CASE StartNodes("boot1", "ready1") \/ StartNodes("boot2", "ready2") \/ StartNodes("boot3", "ready3")
    BY Zenon, <1>i, <2>3 DEF StartNodes, fault, evidence
  <2>4. CASE StopAll("kill1", "boot2") \/ StopAll("kill2", "boot3")
    BY Zenon, <1>i, <2>4 DEF StopAll, fault, evidence
  <2> QED
    BY Zenon, <1>2, <2>1, <2>2, <2>3, <2>4
<1>3. CASE \/ Canaries("canary1", "pre", "kill1", {}) \/ Canaries("canary2", "post", "kill2", {"after"})
           \/ ConfirmCanaries("confirm1", "warm", {}) \/ ConfirmCanaries("confirm2", "close", LastFiles)
           \/ BeforeStatus \/ Launch \/ WriteReceipts
  <2>1. CASE WriteReceipts
    BY Zenon, <2>1 DEF WriteReceipts, fault
  <2>2. CASE BeforeStatus \/ Launch
    BY SMTT(30), <1>i, <2>2 DEF BeforeStatus, Launch
  <2> QED
    BY Zenon, <1>i, <1>3, <2>1, <2>2 DEF Canaries, ConfirmCanaries, fault
<1>4. CASE \/ LoopTop \/ LoopExit \/ ObserveLeader \/ ReadFloor \/ Inject \/ Restore \/ StopSampler \/ JoinSampler
           \/ LoadEnvironment \/ RestartForCatchup \/ CaughtUp \/ Settle
  <2>1. CASE LoopTop \/ LoopExit \/ ObserveLeader \/ ReadFloor
    BY Zenon, <1>i, <2>1 DEF LoopTop, LoopExit, ObserveLeader, ReadFloor, evidence
  <2>2. CASE Inject \/ Restore \/ StopSampler \/ JoinSampler
    BY Zenon, <1>i, <2>2 DEF Inject, Restore, StopSampler, JoinSampler, evidence
  <2>3. CASE LoadEnvironment \/ RestartForCatchup
    BY SMTT(30), <1>i, <2>3 DEF LoadEnvironment, RestartForCatchup, evidence
  <2>4. CASE CaughtUp
    BY Zenon, <1>i, <2>4 DEF CaughtUp, evidence
  <2>5. CASE Settle
    <3>1. pc = "settle" /\ pc' \in {"except", "ready"}
      BY Zenon, <2>5 DEF Settle
    <3>2. files' \in {files, files \cup {"fault"}}
      BY Zenon, <2>5 DEF Settle
    <3>3. "recovery" \in files' => "recovery" \in files
      BY Zenon, <1>s, <3>2
    <3> QED
      BY Zenon, <1>i, <3>1, <3>3
  <2> QED
    BY Zenon, <1>4, <2>1, <2>2, <2>3, <2>4, <2>5
<1>5. CASE KillLoad \/ CloseAndSeal \/ Tick \/ LoadExit \/ Sample \/ Commit \/ StepDown \/ UNCHANGED vars
  <2>1. CASE KillLoad \/ CloseAndSeal
    BY Zenon, <1>i, <1>s, <2>1 DEF KillLoad, CloseAndSeal, fault, evidence
  <2>2. CASE Tick \/ LoadExit \/ Sample
    BY Zenon, <1>i, <1>s, <2>2 DEF Tick, LoadExit, Sample, fault, evidence
  <2>3. CASE Commit \/ StepDown
    BY Zenon, <1>i, <2>3 DEF Commit, StepDown, NodeStep, fault, evidence
  <2>4. CASE UNCHANGED vars
    BY Zenon, <1>i, <2>4 DEF fault, evidence, vars
  <2> QED
    BY Zenon, <1>5, <2>1, <2>2, <2>3, <2>4
<1>6. ASSUME NEW n \in Busy, Apply(n) \/ Install(n) \/ Elect(n) \/ Exit(n) PROVE Measured /\ UNCHANGED Reading
  BY Zenon, <1>i, <1>6 DEF Apply, Install, Elect, Exit, NodeStep, fault, evidence
<1> QED
  BY Zenon, <1>1, <1>2, <1>3, <1>4, <1>5, <1>6 DEF Next, Controller, Prepare, Loop, Conclude, Processes, Ended

LEMMA AfterKeeps == IInv /\ [Next]_vars => AfterInv'
<1> SUFFICES ASSUME IInv, [Next]_vars, Measured' PROVE AfterInv'
  BY Zenon DEF AfterInv
<1>1. CASE AfterStatus
  <2>1. pc = "status" /\ after'.node = node
        /\ UNCHANGED <<mode, before, events, faultNode, injected, restored>>
    BY Zenon, <1>1 DEF AfterStatus, Observed, fault
  <2>2. FaultBody /\ CountInv /\ mode \in Options
    BY Zenon, <2>1 DEF IInv, NodeInv, FileInv, FaultInv, Body, Loaded
  <2>3. /\ ~injected => events = <<>>
        /\ injected => /\ mode.scenario # "durable-kv" /\ faultNode \in Node /\ Hit(node[faultNode])
                       /\ events = IF restored THEN <<FirstEvent, SecondEvent>> ELSE <<FirstEvent>>
        /\ Catchup /\ injected => restored /\ node[faultNode].jumped
        /\ mode.scenario # "durable-kv" => injected
    BY Zenon, <2>1, <2>2 DEF FaultBody
  <2>4. <<FirstEvent>> # <<FirstEvent, SecondEvent>>
    BY Zenon
  <2>5. /\ \A n \in Node : /\ node[n].mark = before.node[n].ops \/ (Kills /\ injected /\ n = faultNode)
                           /\ Within(node[n], Base(n))
        /\ Kills /\ injected /\ restored => node[faultNode].mark = 0
        /\ Catchup /\ injected /\ restored => Within(node[faultNode], 0)
    BY Zenon, <2>1, <2>2 DEF CountInv, Body, Loaded
  <2>6. UNCHANGED <<FirstEvent, SecondEvent>>
    BY Zenon, <2>1 DEF FirstEvent, SecondEvent, Event, Kills
  <2>7. (Restarted => restored) /\ (injected /\ restored => Restarted)
    BY SMTT(30), <2>3, <2>4 DEF Restarted
  <2>8. mode.scenario # "durable-kv" =>
          /\ faultNode' \in Node /\ Hit(after.node[faultNode])'
          /\ events' = <<FirstEvent'>> \/ Restarted'
          /\ Catchup' => Restarted' /\ after'.node[faultNode'].jumped
    BY Zenon, <2>1, <2>3, <2>6, <2>7 DEF Hit, Catchup, Restarted
  <2>9. \A n \in Node : /\ after'.node[n].mark = before'.node[n].ops \/ (Kills' /\ n = faultNode')
                        /\ Within(after'.node[n], Base(n)')
    BY Zenon, <2>1, <2>5 DEF Kills, Base
  <2>10. /\ Kills' /\ Restarted' => after'.node[faultNode'].mark = 0
         /\ Catchup' => Within(after'.node[faultNode'], 0)
    BY Zenon, <2>1, <2>3, <2>5, <2>6, <2>7 DEF Kills, Catchup, Restarted
  <2> QED
    BY Zenon, <2>1, <2>3, <2>8, <2>9, <2>10 DEF AfterInv
<1>2. CASE ~AfterStatus
  <2>1. Measured /\ UNCHANGED Reading
    BY Zenon, <1>2, ReadingKept
  <2>2. AfterInv
    BY Zenon DEF IInv
  <2> QED
    BY Zenon, <2>1, <2>2 DEF AfterInv, Reading, Hit, FirstEvent, SecondEvent, Event, Kills, Catchup, Restarted, Base
<1> QED
  BY Zenon, <1>1, <1>2
-----------------------------------------------------------------------------
(* The receipts. *)

\* A receipt is computed from what was read, and from nothing else.
LEMMA ReceiptsDepend ==
  ASSUME NEW e, NEW f, e.mode = f.mode, e.before = f.before, e.after = f.after, e.events = f.events,
         e.faultNode = f.faultNode, e.catchup = f.catchup
  PROVE  Receipts(e) = Receipts(f) /\ RestartedNodes(e) = RestartedNodes(f)
<1>1. RestartedNodes(e) = RestartedNodes(f)
  BY Zenon DEF RestartedNodes
<1>2. RunnerReclamation(e) = RunnerReclamation(f)
  BY Zenon DEF RunnerReclamation, Diagnostics
<1> QED
  BY Zenon, <1>1, <1>2 DEF Receipts, Diagnostics, Pipelined, Prioritized

LEMMA EvidenceKept ==
  ASSUME UNCHANGED Reading
  PROVE  /\ UNCHANGED <<Statuses(before), Statuses(after)>>
         /\ Receipts(Evidence)' = Receipts(Evidence)
         /\ RestartedNodes(Evidence)' = RestartedNodes(Evidence)
<1>1. UNCHANGED <<mode, before, after, events, faultNode, catchup>>
  BY Zenon DEF Reading
<1>2. UNCHANGED <<Statuses(before), Statuses(after)>>
  <2>1. UNCHANGED Statuses(before)
    <3>1. ASSUME NEW n \in Node PROVE UNCHANGED StatusOf(before.node[n], n, n = before.leader)
      <4>1. mode' = mode /\ before' = before
        BY Zenon, <1>1
      <4> QED
        BY SMTT(30), <4>1 DEF StatusOf
    <3> QED  BY ZenonT(30), <3>1 DEF Statuses
  <2>2. UNCHANGED Statuses(after)
    <3>1. ASSUME NEW n \in Node PROVE UNCHANGED StatusOf(after.node[n], n, n = after.leader)
      <4>1. mode' = mode /\ after' = after
        BY Zenon, <1>1
      <4> QED
        BY SMTT(30), <4>1 DEF StatusOf
    <3> QED  BY Zenon, <3>1 DEF Statuses
  <2> QED  BY Zenon, <2>1, <2>2
<1>3. /\ Evidence'.mode = Evidence.mode /\ Evidence'.before = Evidence.before
      /\ Evidence'.after = Evidence.after /\ Evidence'.events = Evidence.events
      /\ Evidence'.faultNode = Evidence.faultNode /\ Evidence'.catchup = Evidence.catchup
  BY Zenon, <1>1, <1>2 DEF Evidence
<1> QED
  BY Zenon, <1>2, <1>3, ReceiptsDepend

\* What one node contributes to the reclamation receipt.
LEMMA NodeCompactions ==
  ASSUME NEW old, NEW new, NEW restarted, NEW o
  PROVE  /\ NodeActivity(old, new, restarted, o).compactions = Delta(old.completed, new.completed, restarted)
         /\ ~NodeActivity(old, new, restarted, o).failed => ~CompactionRegressed(old, new, restarted)
  BY Zenon DEF NodeActivity

Contribution(nodes, n) == IF nodes[n].counted THEN nodes[n].compactions ELSE 0

ActivityOf(r, b, a, o) ==
  /\ \A n \in Node : r.nodes[n] = NodeActivity(b[n], a[n], n = o.restarted, o)
  /\ r.compactions = Contribution(r.nodes, 1) + Contribution(r.nodes, 2) + Contribution(r.nodes, 3)
  /\ r.requirements = [native |-> o.requireNative, wal |-> o.wal,
                       checkpoint |-> o.requireCheckpoint, retired |-> o.requireRetired]
  /\ r.schema = ReclamationSchema(r.nodes, o)
  /\ r.passed => r.compactions # 0 /\ \A n \in Node : ~r.nodes[n].failed

LEMMA ActivityFacts ==
  ASSUME NEW b, NEW a, NEW o
  PROVE  ActivityOf(ReclamationActivity(b, a, o), b, a, o)
<1> DEFINE r == ReclamationActivity(b, a, o)
           nodes == [n \in Node |-> NodeActivity(b[n], a[n], n = o.restarted, o)]
           sum == Contribution(nodes, 1) + Contribution(nodes, 2) + Contribution(nodes, 3)
           installs == SumOver(nodes, LAMBDA x : x.installs)
           passed == /\ \A n \in Node : ~nodes[n].failed
                     /\ ~AvailabilityFails(nodes, o)
                     /\ sum # 0
                     /\ o.scenario = "snapshot-catchup" => ~CatchupFails(nodes, installs, o)
                     /\ ~StageActivityFails(nodes, o)
<1>1. sum = SumOver(nodes, LAMBDA x : x.compactions)
  BY Zenon DEF SumOver, Contribution
<1>2. r = [nodes |-> nodes, compactions |-> sum, installs |-> installs, schema |-> ReclamationSchema(nodes, o),
           requirements |-> [native |-> o.requireNative, wal |-> o.wal,
                             checkpoint |-> o.requireCheckpoint, retired |-> o.requireRetired],
           passed |-> passed]
  BY Zenon, <1>1 DEF ReclamationActivity
<1>3. passed => sum # 0 /\ \A n \in Node : ~nodes[n].failed
  BY Zenon
<1>4. r.nodes = nodes /\ r.compactions = sum
  BY SMTT(30), <1>2
<1> HIDE DEF r, nodes, sum, installs, passed
<1>5. /\ r.requirements = [native |-> o.requireNative, wal |-> o.wal,
                           checkpoint |-> o.requireCheckpoint, retired |-> o.requireRetired]
      /\ r.schema = ReclamationSchema(nodes, o) /\ r.passed = passed
  BY Zenon, <1>2
<1> QED
  <2>1. ActivityOf(r, b, a, o)
    BY Zenon, <1>3, <1>4, <1>5 DEF nodes, sum, ActivityOf
  <2> QED
    BY Zenon, <2>1 DEF r

LEMMA CompactionSum ==
  ASSUME NEW nodes, \A n \in Node : nodes[n].compactions \in Nat
  PROVE  Contribution(nodes, 1) + Contribution(nodes, 2) + Contribution(nodes, 3) \in Nat
<1>1. 1 \in Node /\ 2 \in Node /\ 3 \in Node
  BY SMTT(30), NodeAssumption
<1>2. Contribution(nodes, 1) \in Nat /\ Contribution(nodes, 2) \in Nat /\ Contribution(nodes, 3) \in Nat
  <2>1. 0 \in Nat
    OBVIOUS
  <2> QED
    BY Zenon, <1>1, <2>1 DEF Contribution
<1> QED
  BY SMTT(30), <1>2

\* The receipt of a measured case that passed is within the truth.
LEMMA ReclamationBound ==
  ASSUME TypeInv, AfterInv, Measured, NEW r,
         r = ReclamationActivity(Statuses(before), Statuses(after), RunnerReclamation(Evidence)), r.passed
  PROVE  r.compactions > 0 /\ \A n \in Node : r.nodes[n].compactions \in 0..after.node[n].comps
<1> DEFINE o == RunnerReclamation(Evidence)
           old == Statuses(before)
           new == Statuses(after)
<1>0. r = ReclamationActivity(old, new, o)
  BY Zenon
<1>2. o.restarted = IF Catchup THEN faultNode ELSE 0
  BY Zenon DEF RunnerReclamation, Evidence, Catchup
<1>3. \A n \in Node : /\ old[n].completed = before.node[n].fast + before.node[n].slow
                      /\ new[n].completed = after.node[n].fast + after.node[n].slow
  BY Zenon DEF Statuses, StatusOf
<1> HIDE DEF o, old, new
<1>1. /\ \A n \in Node : r.nodes[n] = NodeActivity(old[n], new[n], n = o.restarted, o)
      /\ r.compactions = Contribution(r.nodes, 1) + Contribution(r.nodes, 2) + Contribution(r.nodes, 3)
      /\ r.compactions # 0 /\ \A n \in Node : ~r.nodes[n].failed
  <2>1. ActivityOf(r, old, new, o)
    BY Zenon, <1>0, ActivityFacts
  <2> QED
    BY Zenon, <2>1 DEF ActivityOf
<1>4. \A n \in Node : /\ before.node[n].fast \in Nat /\ before.node[n].slow \in Nat
                      /\ after.node[n].fast \in Nat /\ after.node[n].slow \in Nat
                      /\ after.node[n].comps \in Nat
  BY Zenon DEF TypeInv, SoundNodes, Sound, NodeRec
<1>5. ASSUME NEW n \in Node PROVE r.nodes[n].compactions \in 0..after.node[n].comps
  <2>1. r.nodes[n].compactions = Delta(old[n].completed, new[n].completed, n = o.restarted)
        /\ ~CompactionRegressed(old[n], new[n], n = o.restarted)
    <3>1. r.nodes[n] = NodeActivity(old[n], new[n], n = o.restarted, o) /\ ~r.nodes[n].failed
      BY Zenon, <1>1
    <3> QED
      BY SMTT(30), <3>1, NodeCompactions
  <2>2. CASE n = o.restarted
    <3>1. n = faultNode /\ Catchup
      BY SMTT(30), <1>2, <2>2, NodeAssumption
    <3>2. Within(after.node[n], 0)
      BY Zenon, <3>1 DEF AfterInv
    <3>3. r.nodes[n].compactions = after.node[n].fast + after.node[n].slow
      BY ZenonT(30), <1>3, <2>1, <2>2 DEF Delta
    <3> QED
      BY SMTT(30), <1>4, <3>2, <3>3 DEF Within
  <2>3. CASE n # o.restarted
    <3>1. Within(after.node[n], Base(n))
      BY Zenon DEF AfterInv
    <3>2. r.nodes[n].compactions = new[n].completed - old[n].completed /\ ~(new[n].completed < old[n].completed)
      BY Zenon, <2>1, <2>3 DEF Delta, CompactionRegressed
    <3> QED
      BY SMTT(30), <1>3, <1>4, <3>1, <3>2 DEF Within, Base
  <2> QED
    BY ZenonT(30), <2>2, <2>3
<1>6. r.compactions \in Nat
  <2>1. \A n \in Node : r.nodes[n].compactions \in Nat
    BY SMTT(30), <1>4, <1>5
  <2> QED
    BY ZenonT(30), <1>1, <2>1, CompactionSum
<1> QED
  BY SMTT(30), <1>1, <1>5, <1>6

\* Once written the receipts stay, with what they were computed from.
LEMMA ConcludingKept ==
  ASSUME IInv, [Next]_vars, Concluding', ~WriteReceipts
  PROVE  Concluding /\ UNCHANGED receipts /\ UNCHANGED Reading
<1>i. /\ Done => pc \in {"close", "ended"} /\ load = "ok"
      /\ pc \in {"receipts"} \cup Closing => load = "ok"
  BY Zenon DEF IInv, FileInv, ControlInv
<1>1. ~AfterStatus
  BY Zenon, <1>i DEF AfterStatus, Concluding, Done, Closing
<1>2. Measured /\ UNCHANGED Reading
  BY ZenonT(30), <1>1, ReadingKept DEF Measured
<1>3. UNCHANGED receipts
  BY Zenon DEF Next, Controller, Prepare, Loop, Conclude, Processes, Ended, Raise, Except, Abandon, Setup, Qualify,
     Judge, WaitReady, StartNodes, StopAll, Canaries, ConfirmCanaries, BeforeStatus, Launch, LoopTop, LoopExit,
     ObserveLeader, ReadFloor, Inject, Restore, StopSampler, JoinSampler, LoadEnvironment, RestartForCatchup,
     CaughtUp, Settle, AfterStatus, KillLoad, CloseAndSeal, Tick, LoadExit, Sample, Commit,
     StepDown, Apply, Install, Elect, Exit, NodeStep, vars, evidence
<1>4. pc # "receipts"
  <2> SUFFICES ASSUME pc = "receipts" PROVE FALSE
    BY Zenon
  <2>1. load = "ok" /\ ~Done
    BY Zenon, <1>i
  <2>2. CASE Raise
    BY SMTT(30), <2>1, <2>2 DEF Raise, MayRaise, InLoop, Except, Concluding, Done, Closing
  <2>3. CASE Processes \/ UNCHANGED vars
    BY Zenon, <2>1, <2>3 DEF Processes, Tick, LoadExit, Sample, Commit, StepDown, Apply, Install, Elect, Exit, NodeStep,
       vars, evidence, Concluding, Done, Closing
  <2>4. CASE Prepare \/ Loop \/ Conclude \/ KillLoad \/ CloseAndSeal \/ Ended
    BY Zenon, <2>4 DEF Prepare, Loop, Conclude, Ended, Setup, Qualify,
     Judge, WaitReady, StartNodes, StopAll, Canaries, ConfirmCanaries, BeforeStatus, Launch, LoopTop, LoopExit,
     ObserveLeader, ReadFloor, Inject, Restore, StopSampler, JoinSampler, LoadEnvironment, RestartForCatchup,
     CaughtUp, Settle, AfterStatus, KillLoad, CloseAndSeal
  <2> QED
    BY Zenon, <2>2, <2>3, <2>4 DEF Next, Controller
<1> QED
  BY Zenon, <1>2, <1>3, <1>4 DEF Measured

LEMMA ReceiptKeeps == IInv /\ [Next]_vars => ReceiptInv'
<1> SUFFICES ASSUME IInv, [Next]_vars PROVE ReceiptInv'
  BY Zenon
<1>i. ReceiptInv /\ TypeInv /\ AfterInv
  BY Zenon DEF IInv, NodeInv
<1>1. ASSUME pc' \in {"setup", "receipts"} \cup Prep \cup Body PROVE receipts' = NoReceipts
  <2>1. pc \in {"setup", "receipts"} \cup Prep \cup Body /\ UNCHANGED receipts
    <3>1. CASE WriteReceipts
      BY Zenon, <1>1, <3>1 DEF WriteReceipts, Prep, Body, Looping, InLoop, Loaded
    <3>2. CASE Processes \/ UNCHANGED vars
      BY Zenon, <1>1, <3>2 DEF Processes, Tick, LoadExit, Sample, Commit, StepDown, Apply, Install, Elect, Exit, NodeStep,
         vars, evidence
    <3>3. CASE Raise \/ Prepare \/ KillLoad \/ CloseAndSeal \/ Ended
      BY ZenonT(30), <1>1, <3>3 DEF Raise, Except, Prepare, KillLoad, CloseAndSeal, Ended, Setup, Qualify, Judge, WaitReady,
         StartNodes, StopAll, Canaries, ConfirmCanaries, BeforeStatus, Launch, Prep, Body, Looping, InLoop, Loaded,
         vars, evidence
    <3>4. CASE Loop
      BY ZenonT(30), <1>1, <3>4 DEF Loop, LoopTop, LoopExit, ObserveLeader, ReadFloor, Inject, Restore, StopSampler,
         JoinSampler, Prep, Body, Looping, InLoop, Loaded, evidence
    <3>5. CASE Conclude /\ ~WriteReceipts
      BY Zenon, <1>1, <3>5 DEF Conclude, LoadEnvironment, RestartForCatchup, CaughtUp, Settle, AfterStatus, WaitReady,
         Canaries, StopAll, StartNodes, ConfirmCanaries, Prep, Body, Looping, InLoop, Loaded, evidence
    <3> QED
      BY Zenon, <3>1, <3>2, <3>3, <3>4, <3>5 DEF Next, Controller
  <2> QED
    BY Zenon, <1>i, <2>1 DEF ReceiptInv, NoReceipts
<1>2. ASSUME Concluding'
      PROVE  /\ receipts' = Receipts(Evidence)'
             /\ mode'.diagnostics =>
                  ~ExtractRaises(Statuses(before)', Statuses(after)', RestartedNodes(Evidence)')
             /\ mode'.diagnostics /\ mode'.rafter =>
                  ~WindowsRaise(Statuses(before)') /\ ~WindowsRaise(Statuses(after)')
             /\ Pipes' => ~PipelineRaises(Statuses(before)', Statuses(after)')
             /\ Prioritizes' => ~PriorityRaises(Statuses(before)', Statuses(after)')
  <2>1. UNCHANGED Reading
    BY Zenon, <1>2, ConcludingKept DEF WriteReceipts, fault, Reading
  <2>2. /\ UNCHANGED <<Statuses(before), Statuses(after), mode, Pipes, Prioritizes>>
        /\ Receipts(Evidence)' = Receipts(Evidence)
        /\ RestartedNodes(Evidence)' = RestartedNodes(Evidence)
    BY Zenon, <2>1, EvidenceKept DEF Reading, Pipes, Prioritizes
  <2>3. /\ receipts' = Receipts(Evidence)
        /\ mode.diagnostics =>
             ~ExtractRaises(Statuses(before), Statuses(after), RestartedNodes(Evidence))
        /\ mode.diagnostics /\ mode.rafter =>
             ~WindowsRaise(Statuses(before)) /\ ~WindowsRaise(Statuses(after))
        /\ Pipes => ~PipelineRaises(Statuses(before), Statuses(after))
        /\ Prioritizes => ~PriorityRaises(Statuses(before), Statuses(after))
    <3>1. CASE WriteReceipts
      <4>1. pc' # "except"
        <5>1. pc = "receipts" => ~Done
          BY Zenon DEF IInv, FileInv
        <5>2. PICK written \in SUBSET ReceiptFiles : files' = files \cup written
          BY Zenon, <3>1, ReceiptsWritten
        <5>3. "recovery" \notin ReceiptFiles
          BY Zenon DEF ReceiptFiles
        <5> QED
          BY <1>2, <3>1, <5>1, <5>2, <5>3 DEF WriteReceipts, Concluding, Done, Closing
      <4>2. Prioritizes => Pipes
        BY Zenon DEF IInv, FileInv, Options, Pipes, Prioritizes
      <4> QED
        BY Zenon, <3>1, <4>1, <4>2, ReceiptsWritten
    <3>2. CASE ~WriteReceipts
      BY Zenon, <1>i, <1>2, <3>2, ConcludingKept DEF ReceiptInv
    <3> QED
      BY Zenon, <3>1, <3>2
  <2> QED
    BY Zenon, <2>2, <2>3
<1>3. ReclamationWithinTruth'
  <2>1. CASE AfterStatus
    <3>1. receipts' = NoReceipts
      BY Zenon, <1>1, <2>1 DEF AfterStatus
    <3> QED
      BY Zenon, <3>1 DEF ReclamationWithinTruth, NoReceipts
  <2>2. CASE UNCHANGED <<receipts, after>>
    BY Zenon, <1>i, <2>2 DEF ReceiptInv, ReclamationWithinTruth
  <2>3. CASE WriteReceipts /\ receipts' = Receipts(Evidence)
    <3>1. Measured /\ UNCHANGED after
      BY Zenon, <2>3 DEF WriteReceipts, Measured
    <3>2. SUFFICES ASSUME receipts'.reclamation # <<>>, receipts'.reclamation.passed
                   PROVE  /\ receipts'.reclamation.compactions > 0
                          /\ \A n \in Node : receipts'.reclamation.nodes[n].compactions \in 0..after.node[n].comps
      BY Zenon, <3>1 DEF ReclamationWithinTruth
    <3>3. receipts'.reclamation = ReclamationActivity(Statuses(before), Statuses(after), RunnerReclamation(Evidence))
      BY ZenonT(30), <2>3, <3>2 DEF Receipts, Evidence
    <3> QED
      BY <1>i, <3>1, <3>2, <3>3, ReclamationBound
  <2>4. ~AfterStatus /\ ~WriteReceipts => UNCHANGED <<receipts, after>>
    BY DEF Next, Controller, Prepare, Loop, Conclude, Processes, Ended, Raise, Except, Abandon, Setup, Qualify,
     Judge, WaitReady, StartNodes, StopAll, Canaries, ConfirmCanaries, BeforeStatus, Launch, LoopTop, LoopExit,
     ObserveLeader, ReadFloor, Inject, Restore, StopSampler, JoinSampler, LoadEnvironment, RestartForCatchup,
     CaughtUp, Settle, KillLoad, CloseAndSeal, Tick, LoadExit, Sample, Commit,
     StepDown, Apply, Install, Elect, Exit, NodeStep, vars, evidence
  <2>5. WriteReceipts => UNCHANGED <<receipts, after>> \/ receipts' = Receipts(Evidence)
    BY Zenon DEF WriteReceipts
  <2> QED
    BY <2>1, <2>2, <2>3, <2>4, <2>5
<1> QED
  BY Zenon, <1>1, <1>2, <1>3 DEF ReceiptInv
-----------------------------------------------------------------------------
(* The invariant. *)

LEMMA InitInvariant == Init => IInv
<1> SUFFICES ASSUME Init PROVE IInv
  BY Zenon
<1> USE DEF Init, Done, Concluding, Measured, Closing
<1>1. ControlInv
  BY Zenon DEF ControlInv, Prep, Body, Looping, InLoop, Loaded, Handlers, Sealed, SealRan, SealRaised,
     SealedIsQuiet, EveryExitSeals
<1>2. FileInv
  BY Zenon, CaseAssumption DEF FileInv, Body, Looping, InLoop, Loaded
<1>3. CanaryInv
  BY Zenon DEF CanaryInv, Body, Looping, InLoop, Loaded
<1>4. TypeInv
  <2>1. Sound(NewNode)
    <3>1. NewNode \in NodeRec
      BY Zenon DEF NewNode, NodeRec
    <3>2. NewNode.installs = 0
      BY Zenon DEF NewNode
    <3> QED
      BY SMTT(30), <3>1, <3>2 DEF Sound
  <2>2. SoundNodes(node)
    BY Zenon, <2>1 DEF SoundNodes
  <2> QED
    BY Zenon, <2>2 DEF TypeInv
<1>5. FaultInv /\ CountInv
  BY Zenon DEF FaultInv, CountInv, Body, Looping, InLoop, Loaded, Prep
<1>6. AfterInv
  BY Zenon DEF AfterInv
<1>7. ReceiptInv
  BY Zenon DEF ReceiptInv, ReclamationWithinTruth, NoReceipts
<1> QED
  BY <1>1, <1>2, <1>3, <1>4, <1>5, <1>6, <1>7 DEF IInv, NodeInv

\* Every step of run_case, of the processes and of the load keeps the invariant.
THEOREM InvariantHolds == Spec => []IInv
<1>1. IInv /\ [Next]_vars => IInv'
  BY Zenon, ControlKeeps, FileKeeps, CanaryKeeps, TypeKeeps, FaultKeeps, CountKeeps, AfterKeeps, ReceiptKeeps
     DEF IInv, NodeInv
<1> QED
  BY InitInvariant, <1>1, PTL DEF Spec

-----------------------------------------------------------------------------
(* The theorems. *)

\* When seal runs no node process, no load generator and no sampler can still
\* write to the directory, whichever step of run_case raised.
THEOREM SealedIsQuietHolds == Spec => []SealedIsQuiet
<1>1. IInv => SealedIsQuiet
  BY Zenon DEF IInv, ControlInv
<1> QED
  BY <1>1, InvariantHolds, PTL

\* run_case always gets to its seal, whichever of its steps raised, unless it
\* stopped before the try or a process survived SIGKILL past the wait: any other
\* unsealed directory is one whose seal raised.
THEOREM EveryExitSealsHolds == Spec => []EveryExitSeals
<1>1. IInv => EveryExitSeals
  BY Zenon DEF IInv, ControlInv
<1> QED
  BY <1>1, InvariantHolds, PTL

\* A reclamation receipt that passed counts only compactions that happened
\* after the status before the load, also for the node the case restarted.
THEOREM ReclamationWithinTruthHolds == Spec => []ReclamationWithinTruth
<1>1. IInv => ReclamationWithinTruth
  BY Zenon DEF IInv, ReceiptInv
<1> QED
  BY <1>1, InvariantHolds, PTL

LEMMA EvidenceFields ==
  /\ Evidence.mode = mode /\ Evidence.files = files /\ Evidence.index = index
  /\ Evidence.before = Statuses(before) /\ Evidence.after = Statuses(after)
  /\ Evidence.events = events /\ Evidence.faultNode = faultNode /\ Evidence.catchup = catchup
  /\ Evidence.covered = covered /\ Evidence.measurement = measurement /\ Evidence.verdict = verdict
  /\ Evidence.recovered = ("recovery" \in files) /\ Evidence.receipts = receipts
  BY Zenon DEF Evidence

LEMMA ReceiptFields ==
  ASSUME NEW e
  PROVE  /\ Diagnostics(e) => Receipts(e).timelines = Extract(e.before, e.after, RestartedNodes(e))
         /\ Pipelined(e) => Receipts(e).pipeline = PipelineActivity(e.before, e.after)
         /\ Prioritized(e) => Receipts(e).priority = PriorityActivity(e.before, e.after)
  BY Zenon DEF Receipts

\* A verified case ran to its outcome: the replay raises nothing, so it read
\* the recovery.
LEMMA VerifiedIsDone == VerifiedCase => Done
  BY Zenon, EvidenceFields DEF VerifiedCase, Verified, IntegrityPassed, CorrectnessPassed, Has, Done

\* A verified case read back its canaries after all processes were killed.
THEOREM RecoveryRealHolds == Spec => []RecoveryReal
<1>1. IInv => RecoveryReal
  BY Zenon, VerifiedIsDone DEF IInv, CanaryInv, RecoveryReal
<1> QED
  BY <1>1, InvariantHolds, PTL

\* What the fault events of a completed case are.
LEMMA EventsOf ==
  ASSUME IInv, Done
  PROVE  /\ mode \in Options /\ AfterInv /\ ReceiptInv
         /\ mode.scenario = "durable-kv" => events = <<>>
         /\ mode.scenario # "durable-kv" =>
              /\ faultNode \in Node /\ events[1] = FirstEvent /\ FirstEvent.node = faultNode
              /\ Len(events) = 1 \/ (Len(events) = 2 /\ events[2] = SecondEvent)
              /\ Catchup => Len(events) = 2
              /\ events # <<>>
              /\ Len(events) = 2 => Restarted
<1>1. mode \in Options /\ AfterInv /\ ReceiptInv /\ Measured
  BY Zenon DEF IInv, FileInv, Measured, Concluding
<1>2. mode.scenario = "durable-kv" => events = <<>>
  BY Zenon, <1>1 DEF AfterInv
<1>3. mode.scenario # "durable-kv" =>
        faultNode \in Node /\ (events = <<FirstEvent>> \/ Restarted) /\ (Catchup => Restarted)
  BY Zenon, <1>1 DEF AfterInv
<1>4. FirstEvent.node = faultNode
  BY Zenon DEF FirstEvent, Event
<1>5. /\ events = <<FirstEvent>> => Len(events) = 1 /\ events[1] = FirstEvent /\ events # <<>>
      /\ Restarted => /\ Len(events) = 2 /\ events[1] = FirstEvent /\ events[2] = SecondEvent
                      /\ events # <<>>
  BY SMTT(30) DEF Restarted
<1> QED
  BY SMTT(30), <1>1, <1>2, <1>3, <1>4, <1>5

\* A verified fault case had its fault: the node of the first event was down,
\* led in leader-loss, and installed a snapshot ahead of its state in
\* snapshot-catchup.
THEOREM FaultRealHolds == Spec => []FaultReal
<1>1. IInv => FaultReal
  <2> SUFFICES ASSUME IInv, VerifiedCase, mode.scenario # "durable-kv"
               PROVE  /\ events # <<>> /\ after.node[events[1].node].down
                      /\ mode.scenario = "leader-loss" => after.node[events[1].node].led
                      /\ mode.scenario = "snapshot-catchup" => after.node[events[1].node].jumped
    BY Zenon DEF FaultReal
  <2>1. Done
    BY Zenon, VerifiedIsDone
  <2>2. AfterInv /\ Measured /\ events # <<>> /\ events[1].node = faultNode
    BY Zenon, <2>1, EventsOf DEF Measured, Concluding
  <2> QED
    BY Zenon, <2>2 DEF AfterInv, Hit, Catchup
<1> QED
  BY <1>1, InvariantHolds, PTL

\* The replay takes the same nodes for restarted as the runner, unless the
\* restart has no event.
LEMMA RestartsAgree ==
  ASSUME IInv, Done, Kills => Len(events) = 2
  PROVE  /\ ~RestartEvidenceInvalid(Evidence)
         /\ ReplayRestarted(Evidence) = RestartedNodes(Evidence)
         /\ RestartedNodes(Evidence) = IF Kills THEN {faultNode} ELSE {}
<1>1. DOMAIN KillAction = {"leader-loss", "snapshot-catchup"}
  BY Zenon DEF KillAction
<1>2. CASE ~Kills
  BY Zenon, <1>1, <1>2, EvidenceFields DEF RestartEvidenceInvalid, ReplayRestarted, RestartedNodes, Kills
<1>3. CASE Kills
  <2>1. /\ faultNode \in Node /\ Len(events) = 2 /\ events[1] = FirstEvent /\ events[2] = SecondEvent
        /\ events = <<FirstEvent, SecondEvent>>
    BY SMTT(30), <1>3, EventsOf DEF Kills, Restarted
  <2>2. FirstEvent.node = faultNode /\ FirstEvent.action = KillAction[mode.scenario]
        /\ SecondEvent = [node |-> faultNode, action |-> RestartAction]
    BY Zenon, <1>3 DEF FirstEvent, SecondEvent, Event, Kills, KillAction
  <2>3. ~RestartEvidenceInvalid(Evidence)
    BY Zenon, <2>1, <2>2, EvidenceFields DEF RestartEvidenceInvalid
  <2>4. ReplayRestarted(Evidence) = {faultNode}
    BY SMTT(30), <1>1, <1>3, <2>1, <2>2, <2>3, EvidenceFields DEF ReplayRestarted, Kills
  <2>5. 2 \in DOMAIN events
    BY SMTT(30), <2>1
  <2>6. RestartedNodes(Evidence) = {faultNode}
    BY SMTT(30), <1>1, <1>3, <2>1, <2>2, <2>5, EvidenceFields DEF RestartedNodes, Kills
  <2> QED
    BY <1>3, <2>3, <2>4, <2>6
<1> QED
  BY Zenon, <1>2, <1>3

\* The operations a verified diagnostic case attributes to the load are those
\* each process saw after the status before it, also on the restarted node.
THEOREM TimelineExactHolds == Spec => []TimelineExact
<1>1. IInv => TimelineExact
  <2> SUFFICES ASSUME IInv, VerifiedCase, mode.diagnostics, NEW n \in Node
               PROVE  receipts.timelines[n].measured = after.node[n].ops - after.node[n].mark
    BY Zenon DEF TimelineExact
  <2>1. Done /\ Concluding /\ Measured
    BY Zenon, VerifiedIsDone DEF Concluding, Measured
  <2>2. Kills => Len(events) = 2
    <3>1. ~TimelineErrors(Evidence)
      BY Zenon DEF VerifiedCase, Verified, IntegrityPassed
    <3>2. ~RestartEvidenceInvalid(Evidence)
      BY Zenon, <3>1, EvidenceFields DEF TimelineErrors, Diagnostics
    <3> QED
      BY Zenon, <3>2, EvidenceFields DEF RestartEvidenceInvalid, Kills, KillAction
  <2>3. RestartedNodes(Evidence) = IF Kills THEN {faultNode} ELSE {}
    BY Zenon, <2>1, <2>2, RestartsAgree
  <2>4. receipts.timelines = Extract(Statuses(before), Statuses(after), RestartedNodes(Evidence))
    <3>1. receipts = Receipts(Evidence)
      BY Zenon, <2>1 DEF IInv, ReceiptInv
    <3> QED
      BY SMTT(30), <3>1, EvidenceFields DEF Receipts, Diagnostics
  <2>5. receipts.timelines[n].measured =
          Statuses(after)[n].timeline.seen - Watermark(Statuses(before)[n], n \in RestartedNodes(Evidence))
    BY SMTT(30), <2>4 DEF Extract
  <2>6. Statuses(after)[n].timeline.seen = after.node[n].ops
        /\ Statuses(before)[n].timeline.seen = before.node[n].ops
    BY Zenon DEF Statuses, StatusOf, TimelineOf
  <2>7. CASE n \in RestartedNodes(Evidence)
    <3>1. Kills /\ n = faultNode
      BY Zenon, <2>3, <2>7
    <3>2. Restarted /\ AfterInv
      BY Zenon, <2>1, <2>2, <3>1, EventsOf DEF Kills
    <3>3. after.node[n].mark = 0
      BY Zenon, <2>1, <3>1, <3>2 DEF AfterInv
    <3> QED
      BY Zenon, <2>5, <2>6, <2>7, <3>3 DEF Watermark
  <2>8. CASE n \notin RestartedNodes(Evidence)
    <3>1. ~(Kills /\ n = faultNode)
      BY Zenon, <2>3, <2>8
    <3>2. after.node[n].mark = before.node[n].ops
      BY Zenon, <2>1, <3>1 DEF IInv, AfterInv
    <3> QED
      BY Zenon, <2>5, <2>6, <2>8, <3>2 DEF Watermark
  <2> QED
    BY Zenon, <2>7, <2>8
<1> QED
  BY <1>1, InvariantHolds, PTL

\* A receipt without the native stages has the first or the second schema.
LEMMA SchemaNative ==
  ASSUME NEW nodes, NEW o, ~o.native
  PROVE  ReclamationSchema(nodes, o) \in {1, 2}
  BY Zenon DEF ReclamationSchema

\* The replay rebuilds the runner's arguments of the reclamation receipt.
LEMMA ArgumentsAgree ==
  ASSUME IInv, Done, mode.interval # 0
  PROVE  ReplayReclamation(Evidence) = RunnerReclamation(Evidence)
<1> DEFINE o == RunnerReclamation(Evidence)
           r == receipts.reclamation
<1>1. mode \in Options /\ mode.rafter /\ mode.diagnostics \in BOOLEAN
  BY Zenon, EventsOf DEF Options
<1>2. receipts = Receipts(Evidence)
  BY Zenon DEF IInv, ReceiptInv, Concluding
<1>3. r = ReclamationActivity(Statuses(before), Statuses(after), o)
  BY SMTT(30), <1>2, EvidenceFields DEF Receipts
<1>4. ActivityOf(r, Statuses(before), Statuses(after), o)
  BY Zenon, <1>3, ActivityFacts
<1>5. r.requirements = [native |-> o.requireNative, wal |-> o.wal,
                        checkpoint |-> o.requireCheckpoint, retired |-> o.requireRetired]
      /\ r.schema = ReclamationSchema(r.nodes, o)
  BY Zenon, <1>4 DEF ActivityOf
<1>6. /\ o.native = mode.diagnostics /\ o.requireNative = mode.diagnostics /\ o.wal = mode.diagnostics
      /\ o.requireCheckpoint = mode.diagnostics
  BY ZenonT(30), EvidenceFields DEF RunnerReclamation, Diagnostics
<1>7. r.schema \in 3..7 \/ r.schema = 7 => mode.diagnostics
  BY SMTT(30), <1>1, <1>5, <1>6, SchemaNative
<1>8. /\ r.requirements.native = mode.diagnostics /\ r.requirements.wal = mode.diagnostics
      /\ r.requirements.checkpoint = mode.diagnostics
  BY SMTT(30), <1>5, <1>6
<1>9. Catchup => Len(events) = 2 /\ events[1].node = faultNode
  BY Zenon, EventsOf DEF Catchup
<1>10. ~Catchup => catchup.stopped = 0 /\ catchup.required = 0
  BY SMTT(30) DEF IInv, NodeInv, FaultInv
<1> DEFINE d == mode.diagnostics
           declared == mode.rafter /\ d
           native == declared \/ r.requirements.native
           checkpoint == declared \/ r.requirements.checkpoint
           retired == mode.rafter \/ r.requirements.retired
<1>11. /\ (IF Catchup /\ Len(events) = 2 THEN events[1].node ELSE 0) = (IF Catchup THEN faultNode ELSE 0)
       /\ (IF Catchup THEN catchup.stopped ELSE 0) = catchup.stopped
       /\ (IF Catchup THEN catchup.required ELSE 0) = catchup.required
  BY Zenon, <1>9, <1>10
<1>12. /\ native = d /\ checkpoint = d /\ retired = TRUE
       /\ (r.schema \in 3..7 \/ native) = d /\ (r.schema \in 4..7 \/ checkpoint) = d
       /\ (declared \/ r.requirements.wal \/ r.schema = 7) = d
       /\ ((\A n \in Node : r.nodes[n].retirement # <<>>) \/ retired) = TRUE
  BY SMTT(30), <1>1, <1>7, <1>8
<1>13. ReplayReclamation(Evidence) =
         [interval |-> mode.interval, scenario |-> mode.scenario,
          restarted |-> IF Catchup /\ Len(events) = 2 THEN events[1].node ELSE 0,
          stopped |-> IF Catchup THEN catchup.stopped ELSE 0,
          required |-> IF Catchup THEN catchup.required ELSE 0,
          native |-> r.schema \in 3..7 \/ native, requireNative |-> native,
          wal |-> declared \/ r.requirements.wal \/ r.schema = 7,
          checkpoint |-> r.schema \in 4..7 \/ checkpoint, requireCheckpoint |-> checkpoint,
          retired |-> (\A n \in Node : r.nodes[n].retirement # <<>>) \/ retired,
          requireRetired |-> retired]
  BY Zenon, EvidenceFields DEF ReplayReclamation, Diagnostics, Catchup
<1>14. RunnerReclamation(Evidence) =
         [interval |-> mode.interval, scenario |-> mode.scenario,
          restarted |-> IF Catchup THEN faultNode ELSE 0,
          stopped |-> catchup.stopped, required |-> catchup.required,
          native |-> d, requireNative |-> d, wal |-> d, checkpoint |-> d, requireCheckpoint |-> d,
          retired |-> TRUE, requireRetired |-> TRUE]
  BY Zenon, EvidenceFields DEF RunnerReclamation, Diagnostics, Catchup
<1> QED
  <2> DEFINE A == IF Catchup /\ Len(events) = 2 THEN events[1].node ELSE 0
             B == IF Catchup THEN catchup.stopped ELSE 0
             C == IF Catchup THEN catchup.required ELSE 0
             D == r.schema \in 3..7 \/ native
             E == declared \/ r.requirements.wal \/ r.schema = 7
             F == r.schema \in 4..7 \/ checkpoint
             G == (\A n \in Node : r.nodes[n].retirement # <<>>) \/ retired
             H == IF Catchup THEN faultNode ELSE 0
  <2>1. A = H /\ B = catchup.stopped /\ C = catchup.required
    BY Zenon, <1>11
  <2>2. D = d /\ E = d /\ F = d /\ G = TRUE /\ native = d /\ checkpoint = d /\ retired = TRUE
    BY Zenon, <1>12
  <2>3. ReplayReclamation(Evidence) =
          [interval |-> mode.interval, scenario |-> mode.scenario, restarted |-> A, stopped |-> B, required |-> C,
           native |-> D, requireNative |-> native, wal |-> E, checkpoint |-> F, requireCheckpoint |-> checkpoint,
           retired |-> G, requireRetired |-> retired]
    BY Zenon, <1>13
  <2>4. RunnerReclamation(Evidence) =
          [interval |-> mode.interval, scenario |-> mode.scenario, restarted |-> H,
           stopped |-> catchup.stopped, required |-> catchup.required,
           native |-> d, requireNative |-> d, wal |-> d, checkpoint |-> d, requireCheckpoint |-> d,
           retired |-> TRUE, requireRetired |-> TRUE]
    BY Zenon, <1>14
  <2> HIDE DEF A, B, C, D, E, F, G, H, native, checkpoint, retired, d
  <2> QED
    BY <2>1, <2>2, <2>3, <2>4

\* The replay of a case that ran to its outcome agrees with its receipts, so the
\* case verifies unless the history check gives up when verify runs it again.
THEOREM CompletedCaseVerifiesHolds == Spec => []CompletedCaseVerifies
<1>1. IInv => CompletedCaseVerifies
  <2> SUFFICES ASSUME IInv, pc = "ended", Sealed, "outcome" \in files, covered,
                      ~(mode.diagnostics /\ mode.scenario \in DOMAIN KillAction /\ Len(events) < 2)
               PROVE  \A recheck \in Rechecks \ {"inconclusive"} : Verified(Evidence, recheck)
    BY Zenon DEF CompletedCaseVerifies
  <2>1. Done /\ Concluding /\ Measured /\ load = "ok" /\ ControlInv /\ FileInv
    BY Zenon DEF IInv, FileInv, Concluding, Measured
  <2>2. receipts = Receipts(Evidence) /\ ReceiptInv /\ mode \in Options /\ (Prioritizes => Pipes)
    BY Zenon, <2>1 DEF IInv, ReceiptInv, FileInv, Options, Prioritizes, Pipes
  <2>3. /\ Diagnostics(Evidence) = mode.diagnostics /\ Pipelined(Evidence) = Pipes
        /\ Prioritized(Evidence) = Prioritizes
    BY Zenon, EvidenceFields DEF Diagnostics, Pipelined, Prioritized, Pipes, Prioritizes
  <2>4. mode.diagnostics /\ Kills => Len(events) = 2
    BY SMTT(30), <2>1, EventsOf DEF Kills, KillAction
  <2>5. mode.diagnostics => /\ ~RestartEvidenceInvalid(Evidence)
                            /\ ReplayRestarted(Evidence) = RestartedNodes(Evidence)
    BY Zenon, <2>1, <2>4, RestartsAgree
  <2>6. ~IntegrityRaises(Evidence)
    <3>1. "SHA256SUMS" \in files /\ "manifest" \in files /\ "measurement" \in files
      BY Zenon, <2>1 DEF Sealed, FileInv
    <3>2. "replication-window-config" \in files => ~WindowsRaise(Statuses(before)) /\ ~WindowsRaise(Statuses(after))
      BY Zenon, <2>1, <2>2 DEF FileInv, ReceiptInv
    <3>3. mode.diagnostics => /\ "operation-timelines" \in files
                              /\ ~ExtractRaises(Statuses(before), Statuses(after), ReplayRestarted(Evidence))
      BY Zenon, <2>1, <2>2, <2>5 DEF FileInv, ReceiptInv
    <3>4. Pipes => "pipeline-activity" \in files /\ ~PipelineRaises(Statuses(before), Statuses(after))
      BY Zenon, <2>1, <2>2 DEF FileInv, ReceiptInv
    <3>5. Prioritizes => /\ "completion-priority-activity" \in files
                         /\ ~PriorityRaises(Statuses(before), Statuses(after))
      BY Zenon, <2>1, <2>2 DEF FileInv, ReceiptInv
    <3> QED
      BY <2>3, <3>1, <3>2, <3>3, <3>4, <3>5, EvidenceFields DEF IntegrityRaises, Has
  <2>7. Evidence.index = Evidence.files \ {"SHA256SUMS"}
    BY Zenon, <2>1, EvidenceFields DEF ControlInv
  <2>8. ~LoadEnvironmentErrors(Evidence)
    BY Zenon, <2>1, EvidenceFields DEF FileInv, LoadEnvironmentErrors, Has
  <2>9. ~RuntimeConfigurationErrors(Evidence)
    <3>1. mode.diagnostics => receipts.windows = ConfigurationReceipt(Statuses(before), Statuses(after))
      BY SMTT(30), <2>2, <2>3, EvidenceFields DEF Receipts
    <3> QED
      BY Zenon, <2>1, <2>3, <3>1, EvidenceFields DEF FileInv, RuntimeConfigurationErrors, Has
  <2>10. ~SnapshotReclamationErrors(Evidence)
    <3>1. CASE mode.interval = 0
      BY Zenon, <2>1, <3>1, EvidenceFields DEF FileInv, SnapshotReclamationErrors, Has
    <3>2. CASE mode.interval # 0
      <4>1. "snapshot-compaction-activity" \in files
        BY Zenon, <2>1, <3>2 DEF FileInv
      <4>2. mode.scenario = "snapshot-catchup" => ~CatchupEventsInvalid(Evidence)
        <5> SUFFICES ASSUME mode.scenario = "snapshot-catchup" PROVE ~CatchupEventsInvalid(Evidence)
          BY Zenon
        <5>1. Kills /\ Len(events) = 2
          BY Zenon, <2>1, EventsOf DEF Kills, Catchup
        <5>2. ~RestartEvidenceInvalid(Evidence)
          BY <2>1, <5>1, RestartsAgree
        <5> QED
          BY Zenon, <5>2, EvidenceFields DEF RestartEvidenceInvalid, CatchupEventsInvalid, KillAction
      <4>3. ReclamationActivity(Statuses(before), Statuses(after), ReplayReclamation(Evidence)) = receipts.reclamation
        <5>1. ReplayReclamation(Evidence) = RunnerReclamation(Evidence)
          BY Zenon, <2>1, <3>2, ArgumentsAgree
        <5> QED
          BY SMTT(30), <2>2, <3>2, <5>1, EvidenceFields DEF Receipts
      <4> QED
        BY Zenon, <3>2, <4>1, <4>2, <4>3, EvidenceFields DEF SnapshotReclamationErrors, Has
    <3> QED
      BY Zenon, <3>1, <3>2
  <2>11. ~StorageFootprintErrors(Evidence)
    <3>1. mode.footprint => {"after-final-restart", "storage-footprint"} \subseteq files
      BY Zenon, <2>1 DEF FileInv, LastFiles
    <3> QED
      BY Zenon, <2>1, <3>1, EvidenceFields DEF FileInv, StorageFootprintErrors, Has
  <2>12. ~TimelineErrors(Evidence)
    <3>1. mode.diagnostics =>
            receipts.timelines = Extract(Statuses(before), Statuses(after), RestartedNodes(Evidence))
      BY Zenon, <2>2, <2>3, EvidenceFields, ReceiptFields
    <3> QED
      BY Zenon, <2>3, <2>5, <3>1, EvidenceFields DEF TimelineErrors
  <2>13. ~PipelineErrors(Evidence)
    BY Zenon, <2>2, EvidenceFields, ReceiptFields DEF PipelineErrors
  <2>14. ~PriorityErrors(Evidence)
    <3>1. "completion-priority-activity" \in files => Prioritizes
      BY Zenon, <2>1 DEF FileInv
    <3> QED
      BY Zenon, <2>2, <2>3, <3>1, EvidenceFields, ReceiptFields DEF PriorityErrors, Has
  <2>15. ~MeasurementErrors(Evidence)
    BY Zenon, <2>1, EvidenceFields DEF FileInv, MeasurementErrors
  <2>16. verdict = "passed" /\ "passed" # "inconclusive"
    BY <2>1 DEF FileInv
  <2>17. \A recheck \in Rechecks \ {"inconclusive"} : CorrectnessPassed(Evidence, recheck)
    BY Zenon, <2>1, <2>16, EvidenceFields DEF Rechecks, FileInv, CorrectnessPassed, Has, Done
  <2>18. IntegrityPassed(Evidence)
    BY <2>6, <2>7, <2>8, <2>9, <2>10, <2>11, <2>12, <2>13, <2>14, <2>15 DEF IntegrityPassed
  <2> QED
    BY Zenon, <2>17, <2>18 DEF Verified
<1> QED
  BY <1>1, InvariantHolds, PTL

=============================================================================
