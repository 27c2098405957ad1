--------------------------- MODULE CaseRunInvariant --------------------------
(***************************************************************************)
(* The inductive invariant of CaseRun, and that the steps keep its parts   *)
(* about the control, the files, the canaries and the nodes.  CaseRunProofs *)
(* has the rest of the invariant and what follows from it.                 *)
(*                                                                         *)
(* The invariant follows run_case: Prep, Body (the load has started, up to *)
(* the status after it), Closing (the receipts are written) and the        *)
(* handlers.                                                               *)
(***************************************************************************)
EXTENDS CaseRun, TLAPS

Prep == {"boot1", "ready1", "qualify", "judge", "canary1", "kill1", "boot2", "ready2", "confirm1",
         "warm", "launch"}
Looping == {"loop"} \cup InLoop
Loaded == {"join", "joining", "environment", "catchup", "poll", "settle", "ready", "status"}
Body == Looping \cup Loaded
Closing == {"canary2", "kill2", "boot3", "ready3", "confirm2"}
Handlers == {"except", "joinerr", "joiningerr", "finally"}

\* run_case got to its receipts, or past its last step.
Done == "recovery" \in files
Concluding == pc \in Closing \/ Done
Measured == pc = "receipts" \/ Concluding

-----------------------------------------------------------------------------
(* Where the load generator and its stream may be alive, and the seal. *)

ControlInv ==
  /\ pc \in {"setup", "receipts", "close", "ended"} \cup Prep \cup Body \cup Closing \cup Handlers
  /\ pc \in {"setup"} \cup Prep => load = "none"
  /\ pc \in Body => load # "none"
  /\ pc \in Loaded \cup {"receipts"} \cup Closing => load = "ok"
  /\ load = "running" => pc \in Looping \cup Handlers
  /\ load = "dying" => pc = "ended"
  /\ stream => pc \in Looping \cup {"join", "joinerr", "joining", "joiningerr"}
  /\ Sealed => pc = "ended" /\ index = files \ {"SHA256SUMS"}
  /\ index = SealRaised => pc = "ended"
  /\ SealedIsQuiet /\ EveryExitSeals

-----------------------------------------------------------------------------
(* Which files are there. *)

Pipes == mode.pipelined /\ mode.scenario = "durable-kv"
Prioritizes == mode.priority /\ mode.scenario = "durable-kv"

FileInv ==
  /\ mode \in Options
  /\ pc \notin {"setup", "ended"} \/ Done => "manifest" \in files
  /\ pc \in {"canary1", "kill1", "boot2", "ready2", "confirm1", "warm", "launch", "receipts"} \cup Body
       \/ Concluding => "qualification" \in files /\ verdict = "passed"
  /\ pc \in {"launch", "receipts"} \cup Body \/ Concluding => "before" \in files
  /\ load = "ok" => "measurement" \in files
  /\ Done => load = "ok"
  /\ pc \in {"catchup", "poll", "settle", "ready", "status"} \/ Measured => "load-environment" \in files
  /\ pc \in {"ready", "status"} \/ Measured => ~ResultErrors(measurement)
  /\ Measured /\ mode.footprint => "after-measurement-status" \in files
  /\ Concluding => /\ mode.diagnostics => "operation-timelines" \in files
                   /\ mode.diagnostics /\ mode.rafter => "replication-window-config" \in files
                   /\ Pipes => "pipeline-activity" \in files
                   /\ Prioritizes => "completion-priority-activity" \in files
                   /\ mode.interval # 0 => "snapshot-compaction-activity" \in files
  /\ "replication-window-config" \in files => mode.diagnostics /\ mode.rafter
  /\ "completion-priority-activity" \in files => Prioritizes
  /\ "snapshot-compaction-activity" \in files => mode.interval # 0
  /\ "storage-footprint" \in files => mode.footprint
  /\ Done => pc \in {"close", "ended"} /\ LastFiles \subseteq files
  /\ "outcome" \in files => Done

-----------------------------------------------------------------------------
(* The canaries. *)

CanaryInv ==
  /\ pc \in {"kill1", "boot2", "ready2", "confirm1", "warm", "launch", "receipts"} \cup Body \cup Closing
       => "pre" \in acked
  /\ pc \in {"kill2", "boot3", "ready3", "confirm2"} => "post" \in acked
  /\ pc \in {"boot3", "ready3", "confirm2"} => rebooted = acked
  /\ Done => {"pre", "post"} \subseteq rebooted /\ {"pre", "post"} \subseteq stored

-----------------------------------------------------------------------------
(* The nodes, and what the controller has done to the one it hits. *)

NodeRec ==
  [proc : {"none", "up", "stopped", "dying", "dead"}, ops : Nat, fast : Nat, slow : Nat,
   installs : Nat, applied : Nat, snap : Nat, mark : Nat, comps : Nat,
   jumped : BOOLEAN, down : BOOLEAN, led : BOOLEAN]

Kills == mode.scenario \in {"leader-loss", "snapshot-catchup"}
Catchup == mode.scenario = "snapshot-catchup"

FirstEvent ==
  Event(CASE mode.scenario = "leader-loss" -> "SIGKILL leader"
          [] mode.scenario = "snapshot-catchup" -> "SIGKILL follower"
          [] OTHER -> "SIGSTOP follower")
SecondEvent == Event(IF Kills THEN RestartAction ELSE "SIGCONT follower")

\* A process that installed a snapshot jumped ahead of its own state.
Sound(rec) == rec \in NodeRec /\ (rec.installs > 0 => rec.jumped)

SoundNodes(nodes) == nodes = [n \in Node |-> nodes[n]] /\ \A n \in Node : Sound(nodes[n])

TypeInv ==
  /\ SoundNodes(node) /\ SoundNodes(before.node) /\ SoundNodes(after.node)
  /\ leader \in Node \cup {0}

\* What holds of a node that was hit: it was down, and it led if the case kills
\* the leader.
Hit(rec) == rec.down /\ (mode.scenario = "leader-loss" => rec.led)

\* The fault, from the launch to the status after the load.
FaultBody ==
  /\ \A n \in Node : node[n].proc # "up" => node[n].down
  /\ mode.scenario = "leader-loss" /\ leader # 0 => node[leader].led
  /\ pc \in {"observe", "floor", "act", "timeout"} => mode.scenario # "durable-kv" /\ ~injected
  /\ pc \in {"floor", "act", "timeout"} =>
       faultNode \in Node /\ (mode.scenario = "leader-loss" => node[faultNode].led)
  /\ ~injected => events = <<>> /\ ~restored
  /\ injected => /\ mode.scenario # "durable-kv" /\ faultNode \in Node /\ Hit(node[faultNode])
                 /\ events = IF restored \/ pc = "poll" THEN <<FirstEvent, SecondEvent>>
                                                        ELSE <<FirstEvent>>
  /\ pc \in {"catchup", "poll"} => Catchup /\ injected /\ ~restored
  /\ Catchup /\ restored => pc \in {"settle", "ready", "status"}
  /\ Catchup /\ injected /\ pc \in {"settle", "ready", "status"} =>
       restored /\ node[faultNode].jumped
  /\ mode.scenario # "durable-kv" /\ pc \in {"ready", "status"} => injected

FaultInv ==
  /\ pc \in {"setup"} \cup Prep => ~injected /\ ~restored /\ events = <<>>
  /\ ~Catchup => catchup = [stopped |-> 0, required |-> 0]
  /\ pc \in Body => FaultBody

\* A process compacted no more than its node did since the status before the
\* load, beyond what it had reported then.
Within(rec, reported) == rec.fast + rec.slow <= rec.comps + reported
Base(n) == before.node[n].fast + before.node[n].slow

\* The counters against the status before the load: only the node the case
\* killed has a process that started later.
CountInv ==
  /\ pc = "launch" => \A n \in Node : /\ node[n].mark = before.node[n].ops
                                      /\ node[n].fast = before.node[n].fast
                                      /\ node[n].slow = before.node[n].slow
  /\ pc \in Body =>
       /\ \A n \in Node : /\ \/ node[n].mark = before.node[n].ops
                             \/ /\ Kills /\ injected /\ n = faultNode
                                /\ restored \/ pc \in {"poll", "ready", "status"}
                          /\ Within(node[n], Base(n))
       /\ Kills /\ injected /\ (restored \/ pc = "poll") => node[faultNode].mark = 0
       /\ Catchup /\ injected /\ (restored \/ pc = "poll") => Within(node[faultNode], 0)

NodeInv == TypeInv /\ FaultInv /\ CountInv

-----------------------------------------------------------------------------
(* What was reported: the same of the status after the load. *)

Restarted == events = <<FirstEvent, SecondEvent>>

AfterInv ==
  Measured =>
    /\ mode.scenario = "durable-kv" => events = <<>>
    /\ mode.scenario # "durable-kv" =>
         /\ faultNode \in Node /\ Hit(after.node[faultNode])
         /\ events = <<FirstEvent>> \/ Restarted
         /\ Catchup => Restarted /\ after.node[faultNode].jumped
    /\ \A n \in Node :
         /\ after.node[n].mark = before.node[n].ops \/ (Kills /\ n = faultNode)
         /\ Within(after.node[n], Base(n))
    /\ Kills /\ Restarted => after.node[faultNode].mark = 0
    /\ Catchup => Within(after.node[faultNode], 0)

ReceiptInv ==
  /\ pc \in {"setup", "receipts"} \cup Prep \cup Body => receipts = NoReceipts
  /\ Concluding =>
       /\ receipts = Receipts(Evidence)
       /\ mode.diagnostics =>
            ~ExtractRaises(Statuses(before), Statuses(after), RestartedNodes(Evidence))
       /\ mode.diagnostics /\ mode.rafter =>
            ~WindowsRaise(Statuses(before)) /\ ~WindowsRaise(Statuses(after))
       /\ Pipes => ~PipelineRaises(Statuses(before), Statuses(after))
       /\ Prioritizes => ~PriorityRaises(Statuses(before), Statuses(after))
  /\ ReclamationWithinTruth

IInv == ControlInv /\ FileInv /\ CanaryInv /\ NodeInv /\ AfterInv /\ ReceiptInv

\* The steps go to Zenon unless they name another prover.
USE Zenon

-----------------------------------------------------------------------------
(* The receipts in their order. *)

\* A concatenation has the elements of both parts.
LEMMA RangeConcat ==
  ASSUME NEW S, NEW s \in Seq(S), NEW t \in Seq(S)
  PROVE  s \o t \in Seq(S) /\ Range(s \o t) = Range(s) \cup Range(t)
<1>1. /\ s \o t \in Seq(S) /\ Len(s \o t) = Len(s) + Len(t)
      /\ \A i \in 1..Len(s) + Len(t) : (s \o t)[i] = IF i <= Len(s) THEN s[i] ELSE t[i - Len(s)]
  BY SMTT(30)
<1>2. DOMAIN s = 1..Len(s) /\ DOMAIN t = 1..Len(t) /\ DOMAIN (s \o t) = 1..Len(s) + Len(t)
      /\ Len(s) \in Nat /\ Len(t) \in Nat
  BY SMTT(30), <1>1
<1>3. ASSUME NEW x \in Range(s \o t) PROVE x \in Range(s) \cup Range(t)
  <2>1. PICK i \in 1..Len(s) + Len(t) : x = (s \o t)[i]
    BY Zenon, <1>2, <1>3 DEF Range
  <2>2. CASE i <= Len(s)
    BY SMTT(30), <1>1, <1>2, <2>1, <2>2 DEF Range
  <2>3. CASE ~(i <= Len(s))
    <3>1. i - Len(s) \in 1..Len(t) /\ x = t[i - Len(s)]
      BY SMTT(30), <1>1, <1>2, <2>1, <2>3
    <3> QED
      BY Zenon, <1>2, <3>1 DEF Range
  <2> QED
    BY Zenon, <2>2, <2>3
<1>4. ASSUME NEW x \in Range(s) PROVE x \in Range(s \o t)
  <2>1. PICK i \in 1..Len(s) : x = s[i]
    BY Zenon, <1>2, <1>4 DEF Range
  <2>2. i \in 1..Len(s) + Len(t) /\ x = (s \o t)[i]
    BY SMTT(30), <1>1, <1>2, <2>1
  <2> QED
    BY Zenon, <1>2, <2>2 DEF Range
<1>5. ASSUME NEW x \in Range(t) PROVE x \in Range(s \o t)
  <2>1. PICK i \in 1..Len(t) : x = t[i]
    BY Zenon, <1>2, <1>5 DEF Range
  <2>2. Len(s) + i \in 1..Len(s) + Len(t) /\ x = (s \o t)[Len(s) + i]
    BY SMTT(30), <1>1, <1>2, <2>1
  <2> QED
    BY Zenon, <1>2, <2>2 DEF Range
<1> QED
  BY Zenon, <1>1, <1>3, <1>4, <1>5

LEMMA SmallSeq ==
  ASSUME NEW S, NEW x \in S, NEW b
  PROVE  LET a == IF b THEN <<x>> ELSE <<>> IN a \in Seq(S) /\ Range(a) = IF b THEN {x} ELSE {}
<1>1. <<x>> \in Seq(S) /\ <<>> \in Seq(S)
  BY SMTT(30)
<1>2. Range(<<x>>) = {x} /\ Range(<<>>) = {}
  BY SMTT(30) DEF Range
<1> QED
  BY Zenon, <1>1, <1>2

\* One entry of ReceiptSteps.
Entry(file, raises) == [file |-> file, raises |-> raises]
EntryIf(enabled, file, raises) == IF enabled THEN {Entry(file, raises)} ELSE {}

\* The set of the receipts a case writes.
LEMMA ReceiptStepsRange ==
  ASSUME NEW e
  PROVE  Range(ReceiptSteps(e)) =
           EntryIf(Diagnostics(e), "operation-timelines",
                   ExtractRaises(e.before, e.after, RestartedNodes(e)))
           \cup EntryIf(Diagnostics(e) /\ e.mode.rafter, "replication-window-config",
                        WindowsRaise(e.before) \/ WindowsRaise(e.after))
           \cup EntryIf(Pipelined(e), "pipeline-activity", PipelineRaises(e.before, e.after))
           \cup EntryIf(Pipelined(e) /\ Prioritized(e), "completion-priority-activity",
                        PriorityRaises(e.before, e.after))
           \cup EntryIf(e.mode.interval # 0, "snapshot-compaction-activity", FALSE)
<1> DEFINE E1 == Entry("operation-timelines", ExtractRaises(e.before, e.after, RestartedNodes(e)))
           E2 == Entry("replication-window-config", WindowsRaise(e.before) \/ WindowsRaise(e.after))
           E3 == Entry("pipeline-activity", PipelineRaises(e.before, e.after))
           E4 == Entry("completion-priority-activity", PriorityRaises(e.before, e.after))
           E5 == Entry("snapshot-compaction-activity", FALSE)
           S == {E1, E2, E3, E4, E5}
           A1 == IF Diagnostics(e) THEN <<E1>> ELSE <<>>
           A2 == IF Diagnostics(e) /\ e.mode.rafter THEN <<E2>> ELSE <<>>
           A3 == IF Pipelined(e) THEN <<E3>> ELSE <<>>
           A4 == IF Pipelined(e) /\ Prioritized(e) THEN <<E4>> ELSE <<>>
           A5 == IF e.mode.interval # 0 THEN <<E5>> ELSE <<>>
<1>1. ReceiptSteps(e) = A1 \o A2 \o A3 \o A4 \o A5
  BY Zenon DEF ReceiptSteps, Entry
<1> HIDE DEF E1, E2, E3, E4, E5
<1>3. /\ A1 \in Seq(S) /\ Range(A1) = IF Diagnostics(e) THEN {E1} ELSE {}
      /\ A2 \in Seq(S) /\ Range(A2) = IF Diagnostics(e) /\ e.mode.rafter THEN {E2} ELSE {}
      /\ A3 \in Seq(S) /\ Range(A3) = IF Pipelined(e) THEN {E3} ELSE {}
      /\ A4 \in Seq(S) /\ Range(A4) = IF Pipelined(e) /\ Prioritized(e) THEN {E4} ELSE {}
      /\ A5 \in Seq(S) /\ Range(A5) = IF e.mode.interval # 0 THEN {E5} ELSE {}
  BY Zenon, SmallSeq
<1> HIDE DEF A1, A2, A3, A4, A5, S
<1> DEFINE B2 == A1 \o A2
           B3 == B2 \o A3
           B4 == B3 \o A4
<1>s. A1 \in Seq(S) /\ A2 \in Seq(S) /\ A3 \in Seq(S) /\ A4 \in Seq(S) /\ A5 \in Seq(S)
  BY Zenon, <1>3
<1>4. B2 \in Seq(S) /\ Range(B2) = Range(A1) \cup Range(A2)
  BY SMTT(30), <1>s, RangeConcat
<1> HIDE DEF B2
<1>5. B3 \in Seq(S) /\ Range(B3) = Range(B2) \cup Range(A3)
  BY SMTT(30), <1>s, <1>4, RangeConcat
<1> HIDE DEF B3
<1>6. B4 \in Seq(S) /\ Range(B4) = Range(B3) \cup Range(A4)
  BY SMTT(30), <1>s, <1>5, RangeConcat
<1> HIDE DEF B4
<1>7. Range(B4 \o A5) = Range(B4) \cup Range(A5)
  BY SMTT(30), <1>s, <1>6, RangeConcat
<1>8. ReceiptSteps(e) = B4 \o A5
  BY Zenon, <1>1 DEF B2, B3, B4
<1> QED
  BY <1>3, <1>4, <1>5, <1>6, <1>7, <1>8 DEF EntryIf, E1, E2, E3, E4, E5

ReceiptFiles == {"operation-timelines", "replication-window-config", "pipeline-activity",
                 "completion-priority-activity", "snapshot-compaction-activity"}

\* What WriteReceipts adds to the directory.
LEMMA ReceiptsWritten ==
  ASSUME WriteReceipts
  PROVE  \E written \in SUBSET ReceiptFiles :
           /\ files' = files \cup written
           /\ "replication-window-config" \in written => mode.diagnostics /\ mode.rafter
           /\ "completion-priority-activity" \in written => Prioritizes
           /\ "snapshot-compaction-activity" \in written => mode.interval # 0
           /\ \/ pc' = "except" /\ UNCHANGED receipts
              \/ /\ pc' = "canary2" /\ receipts' = Receipts(Evidence)
                 /\ mode.diagnostics =>
                      /\ "operation-timelines" \in written
                      /\ ~ExtractRaises(Statuses(before), Statuses(after), RestartedNodes(Evidence))
                 /\ mode.diagnostics /\ mode.rafter =>
                      /\ "replication-window-config" \in written
                      /\ ~WindowsRaise(Statuses(before)) /\ ~WindowsRaise(Statuses(after))
                 /\ Pipes =>
                      /\ "pipeline-activity" \in written
                      /\ ~PipelineRaises(Statuses(before), Statuses(after))
                 /\ Pipes /\ Prioritizes =>
                      /\ "completion-priority-activity" \in written
                      /\ ~PriorityRaises(Statuses(before), Statuses(after))
                 /\ mode.interval # 0 => "snapshot-compaction-activity" \in written
<1> DEFINE e == Evidence
           steps == ReceiptSteps(e)
           raising == {i \in DOMAIN steps : steps[i].raises}
           written == {steps[i].file : i \in {j \in DOMAIN steps : \A r \in raising : j < r}}
<1>1. /\ files' = files \cup written
      /\ IF raising = {} THEN receipts' = Receipts(Evidence) /\ pc' = "canary2"
                         ELSE UNCHANGED receipts /\ pc' = "except"
  BY Zenon DEF WriteReceipts
<1>2. /\ e.mode = mode /\ e.before = Statuses(before) /\ e.after = Statuses(after)
      /\ Diagnostics(e) = mode.diagnostics /\ Pipelined(e) = Pipes /\ Prioritized(e) = Prioritizes
  BY Zenon DEF Evidence, Diagnostics, Pipelined, Prioritized, Pipes, Prioritizes
<1> HIDE DEF e
<1>3. \A x \in Range(steps) : \E i \in DOMAIN steps : x = steps[i]
  BY Zenon DEF Range
<1>4. \A i \in DOMAIN steps : steps[i] \in Range(steps)
  BY Zenon DEF Range
<1> HIDE DEF steps
<1>5. \A f \in written : \E x \in Range(steps) : f = x.file
  BY Zenon, <1>4
<1>6. raising = {} => \A x \in Range(steps) : x.file \in written /\ ~x.raises
  BY Zenon, <1>3
<1>7. Range(steps) =
           EntryIf(Diagnostics(e), "operation-timelines",
                   ExtractRaises(e.before, e.after, RestartedNodes(e)))
           \cup EntryIf(Diagnostics(e) /\ e.mode.rafter, "replication-window-config",
                        WindowsRaise(e.before) \/ WindowsRaise(e.after))
           \cup EntryIf(Pipelined(e), "pipeline-activity", PipelineRaises(e.before, e.after))
           \cup EntryIf(Pipelined(e) /\ Prioritized(e), "completion-priority-activity",
                        PriorityRaises(e.before, e.after))
           \cup EntryIf(e.mode.interval # 0, "snapshot-compaction-activity", FALSE)
  BY Zenon, ReceiptStepsRange DEF steps
<1> DEFINE D == Diagnostics(e)
           W == D /\ e.mode.rafter
           P == Pipelined(e)
           Q == P /\ Prioritized(e)
           C == e.mode.interval # 0
<1>8. /\ written \subseteq ReceiptFiles
      /\ "replication-window-config" \in written => W
      /\ "completion-priority-activity" \in written => Q
      /\ "snapshot-compaction-activity" \in written => C
  <2> HIDE DEF written
  <2> QED
    BY SMTT(30), <1>5, <1>7 DEF EntryIf, Entry, ReceiptFiles
<1>9. ASSUME raising = {}
      PROVE  /\ D => "operation-timelines" \in written
                      /\ ~ExtractRaises(e.before, e.after, RestartedNodes(e))
             /\ W => "replication-window-config" \in written
                      /\ ~WindowsRaise(e.before) /\ ~WindowsRaise(e.after)
             /\ P => "pipeline-activity" \in written /\ ~PipelineRaises(e.before, e.after)
             /\ Q => "completion-priority-activity" \in written /\ ~PriorityRaises(e.before, e.after)
             /\ C => "snapshot-compaction-activity" \in written
  <2>1. \A x \in Range(steps) : x.file \in written /\ ~x.raises
    BY Zenon, <1>6, <1>9
  <2> HIDE DEF written
  <2>2. ASSUME NEW f, NEW r, Entry(f, r) \in Range(steps) PROVE f \in written /\ ~r
    <3>1. Entry(f, r).file = f /\ Entry(f, r).raises = r
      BY Zenon DEF Entry
    <3> QED
      BY Zenon, <2>1, <2>2, <3>1
  <2>3. D => Entry("operation-timelines", ExtractRaises(e.before, e.after, RestartedNodes(e)))
               \in Range(steps)
    BY Zenon, <1>7 DEF EntryIf
  <2>4. W => Entry("replication-window-config", WindowsRaise(e.before) \/ WindowsRaise(e.after))
               \in Range(steps)
    BY Zenon, <1>7 DEF EntryIf
  <2>5. P => Entry("pipeline-activity", PipelineRaises(e.before, e.after)) \in Range(steps)
    BY Zenon, <1>7 DEF EntryIf
  <2>6. Q => Entry("completion-priority-activity", PriorityRaises(e.before, e.after)) \in Range(steps)
    BY Zenon, <1>7 DEF EntryIf
  <2>7. C => Entry("snapshot-compaction-activity", FALSE) \in Range(steps)
    BY Zenon, <1>7 DEF EntryIf
  <2> HIDE DEF D, W, P, Q, C
  <2> QED
    BY Zenon, <2>2, <2>3, <2>4, <2>5, <2>6, <2>7
<1> HIDE DEF written, raising
<1> written \in SUBSET ReceiptFiles
  BY Zenon, <1>8
<1> WITNESS written \in SUBSET ReceiptFiles
<1> QED
  BY <1>1, <1>2, <1>8, <1>9 DEF e
-----------------------------------------------------------------------------
(* Control. *)

LEMMA ControlKeeps == IInv /\ [Next]_vars => ControlInv'
<1> SUFFICES ASSUME IInv, [Next]_vars PROVE ControlInv'
  BY Zenon
<1> USE DEF Prep, Looping, Loaded, Body, Closing, Handlers, InLoop
<1>i. ControlInv /\ TypeInv
  BY Zenon DEF IInv, NodeInv
<1>1. CASE pc \in MayRaise /\ Except
  BY <1>i, <1>1 DEF ControlInv, SealedIsQuiet, EveryExitSeals, Sealed, SealRan, MayRaise, Except, Abandon, loading
<1>2. CASE Raise /\ ~(pc \in MayRaise /\ Except)
  BY Zenon, <1>i, <1>2 DEF ControlInv, SealedIsQuiet, EveryExitSeals, Sealed, SealRan, Raise, Abandon, loading
<1>3. CASE Setup
  BY Zenon, <1>i, <1>3 DEF ControlInv, SealedIsQuiet, EveryExitSeals, Sealed, SealRan, Setup, loading, world
<1>4. CASE StartNodes("boot1", "ready1") \/ StartNodes("boot2", "ready2") \/ StartNodes("boot3", "ready3")
  BY SMTT(30), <1>i, <1>4 DEF ControlInv, SealedIsQuiet, EveryExitSeals, Sealed, SealRan, StartNodes, loading, evidence
<1>5. CASE WaitReady("ready1", "qualify") \/ WaitReady("ready2", "confirm1") \/ WaitReady("ready", "status") \/ WaitReady("ready3", "confirm2")
  BY SMTT(30), <1>i, <1>5 DEF ControlInv, SealedIsQuiet, EveryExitSeals, Sealed, SealRan, WaitReady, loading, evidence
<1>6. CASE Qualify \/ Judge
  BY SMTT(30), <1>i, <1>6 DEF ControlInv, SealedIsQuiet, EveryExitSeals, Sealed, SealRan, Qualify, Judge, loading
<1>7. CASE Canaries("canary1", "pre", "kill1", {}) \/ Canaries("canary2", "post", "kill2", {"after"})
  BY SMTT(30), <1>i, <1>7 DEF ControlInv, SealedIsQuiet, EveryExitSeals, Sealed, SealRan, Canaries, loading
<1>8. CASE StopAll("kill1", "boot2") \/ StopAll("kill2", "boot3")
  BY SMTT(30), <1>i, <1>8 DEF ControlInv, SealedIsQuiet, EveryExitSeals, Sealed, SealRan, StopAll, loading, evidence
<1>9. CASE ConfirmCanaries("confirm1", "warm", {}) \/ ConfirmCanaries("confirm2", "close", LastFiles)
  BY SMTT(30), <1>i, <1>9 DEF ControlInv, SealedIsQuiet, EveryExitSeals, Sealed, SealRan, ConfirmCanaries, LastFiles, loading
<1>10. CASE BeforeStatus
  BY Zenon, <1>i, <1>10 DEF ControlInv, SealedIsQuiet, EveryExitSeals, Sealed, SealRan, BeforeStatus, loading
<1>21. CASE Launch
  BY Zenon, <1>i, <1>21 DEF ControlInv, SealedIsQuiet, EveryExitSeals, Sealed, SealRan, Launch
<1>11. CASE LoopTop \/ LoopExit \/ ObserveLeader \/ ReadFloor
  BY Zenon, <1>i, <1>11 DEF ControlInv, SealedIsQuiet, EveryExitSeals, Sealed, SealRan, LoopTop, LoopExit, ObserveLeader, ReadFloor, loading, evidence
<1>12. CASE Inject \/ Restore
  <2>1. CASE Inject
    BY ZenonT(30), <1>i, <2>1 DEF ControlInv, SealedIsQuiet, EveryExitSeals, Sealed, SealRan, Inject, loading, evidence
  <2>2. CASE Restore
    BY Zenon, <1>i, <2>2 DEF ControlInv, SealedIsQuiet, EveryExitSeals, Sealed, SealRan, Restore, loading, evidence
  <2> QED
    BY Zenon, <1>12, <2>1, <2>2
<1>13. CASE StopSampler \/ JoinSampler
  <2>1. CASE StopSampler
    BY Zenon, <1>i, <2>1 DEF ControlInv, SealedIsQuiet, EveryExitSeals, Sealed, SealRan, StopSampler, evidence
  <2>2. CASE JoinSampler
    BY Zenon, <1>i, <2>2 DEF ControlInv, SealedIsQuiet, EveryExitSeals, Sealed, SealRan, JoinSampler, evidence
  <2> QED
    BY Zenon, <1>13, <2>1, <2>2
<1>14. CASE LoadEnvironment \/ RestartForCatchup \/ CaughtUp \/ Settle \/ AfterStatus
  <2>1. CASE LoadEnvironment
    BY Zenon, <1>i, <2>1 DEF ControlInv, SealedIsQuiet, EveryExitSeals, Sealed, SealRan, LoadEnvironment, loading, evidence
  <2>2. CASE RestartForCatchup
    BY Zenon, <1>i, <2>2 DEF ControlInv, SealedIsQuiet, EveryExitSeals, Sealed, SealRan, RestartForCatchup, loading, evidence
  <2>3. CASE CaughtUp
    BY Zenon, <1>i, <2>3 DEF ControlInv, SealedIsQuiet, EveryExitSeals, Sealed, SealRan, CaughtUp, loading, evidence
  <2>4. CASE Settle
    BY ZenonT(30), <1>i, <2>4 DEF ControlInv, SealedIsQuiet, EveryExitSeals, Sealed, SealRan, Settle, loading, evidence
  <2>5. CASE AfterStatus
    BY Zenon, <1>i, <2>5 DEF ControlInv, SealedIsQuiet, EveryExitSeals, Sealed, SealRan, AfterStatus, loading, evidence
  <2> QED
    BY Zenon, <1>14, <2>1, <2>2, <2>3, <2>4, <2>5
<1>15. CASE WriteReceipts
  <2>1. pc = "receipts" /\ pc' \in {"canary2", "except"} /\ UNCHANGED <<load, stream, index>>
        /\ \E written \in SUBSET ReceiptFiles : files' = files \cup written
    BY Zenon, <1>15, ReceiptsWritten DEF WriteReceipts, loading
  <2> QED
    BY Zenon, <1>i, <2>1 DEF ControlInv, SealedIsQuiet, EveryExitSeals, Sealed, SealRan, ReceiptFiles
<1>16. CASE KillLoad
  BY Zenon, <1>i, <1>16 DEF ControlInv, SealedIsQuiet, EveryExitSeals, Sealed, SealRan, KillLoad, world, evidence
<1>17. CASE CloseAndSeal
  BY SMTT(30), <1>i, <1>17, NodeAssumption DEF ControlInv, SealedIsQuiet, EveryExitSeals, Sealed, SealRan, CloseAndSeal, Alive, Halted, TypeInv, NodeRec, loading
<1>18. CASE Tick \/ LoadExit \/ Sample
  BY SMTT(30), <1>i, <1>18 DEF ControlInv, SealedIsQuiet, EveryExitSeals, Sealed, SealRan, Tick, LoadExit, Sample, Alive, world, evidence
<1>19. CASE Commit \/ StepDown \/ \E n \in Busy : Apply(n) \/ Install(n) \/ Elect(n) \/ Exit(n)
  <2>1. UNCHANGED <<pc, load, stream, files, index>>
    BY Zenon, <1>19 DEF Commit, StepDown, Apply, Install, Elect, Exit, NodeStep, loading, evidence
  <2>2. pc # "ended"
    BY Zenon, <1>i, <1>19 DEF ControlInv, Commit, StepDown, Apply, Install, Elect, Exit, Working, Using
  <2> QED
    BY ZenonT(30), <1>i, <2>1, <2>2 DEF ControlInv, SealedIsQuiet, EveryExitSeals, Sealed, SealRan
<1>20. CASE UNCHANGED vars
  BY ZenonT(30), <1>i, <1>20 DEF ControlInv, SealedIsQuiet, EveryExitSeals, Sealed, SealRan, Alive, vars, world, loading, evidence
<1> QED
  BY <1>1, <1>2, <1>3, <1>4, <1>5, <1>6, <1>7, <1>8, <1>9, <1>10, <1>11, <1>12, <1>13, <1>14, <1>15,
     <1>16, <1>17, <1>18, <1>19, <1>20, <1>21
     DEF Next, Controller, Prepare, Loop, Conclude, Processes, Ended
-----------------------------------------------------------------------------
(* Canaries. *)

LEMMA CanaryKeeps == IInv /\ [Next]_vars => CanaryInv'
<1> SUFFICES ASSUME IInv, [Next]_vars PROVE CanaryInv'
  BY Zenon
<1> USE DEF Prep, Looping, Loaded, Body, Closing, Handlers, InLoop
<1>i. ControlInv /\ CanaryInv /\ FileInv
  BY Zenon DEF IInv
<1>d. Done => pc \in {"close", "ended"} /\ load = "ok"
  BY Zenon, <1>i DEF FileInv
<1>1. CASE pc \in MayRaise /\ Except
  BY Zenon, <1>i, <1>d, <1>1 DEF CanaryInv, Done, MayRaise, Except
<1>2. CASE Raise /\ ~(pc \in MayRaise /\ Except)
  BY Zenon, <1>i, <1>d, <1>2 DEF CanaryInv, Done, Raise
<1>3. CASE Setup
  BY Zenon, <1>i, <1>d, <1>3 DEF CanaryInv, Done, Setup
<1>4. CASE StartNodes("boot1", "ready1") \/ StartNodes("boot2", "ready2") \/ StartNodes("boot3", "ready3")
  BY Zenon, <1>i, <1>d, <1>4 DEF CanaryInv, Done, StartNodes, canary, evidence
<1>5. CASE WaitReady("ready1", "qualify") \/ WaitReady("ready2", "confirm1") \/ WaitReady("ready", "status") \/ WaitReady("ready3", "confirm2")
  BY Zenon, <1>i, <1>d, <1>5 DEF CanaryInv, Done, WaitReady, canary, evidence
<1>6. CASE Qualify \/ Judge
  BY Zenon, <1>i, <1>d, <1>6 DEF CanaryInv, Done, Qualify, Judge
<1>7. CASE Canaries("canary1", "pre", "kill1", {}) \/ Canaries("canary2", "post", "kill2", {"after"})
  BY Zenon, <1>i, <1>d, <1>7 DEF CanaryInv, Done, Canaries
<1>8. CASE StopAll("kill1", "boot2") \/ StopAll("kill2", "boot3")
  BY Zenon, <1>i, <1>d, <1>8 DEF CanaryInv, Done, StopAll, evidence
<1>9. CASE ConfirmCanaries("confirm1", "warm", {}) \/ ConfirmCanaries("confirm2", "close", LastFiles)
  BY Zenon, <1>i, <1>d, <1>9 DEF CanaryInv, Done, ConfirmCanaries, LastFiles, canary
<1>10. CASE BeforeStatus \/ Launch
  BY Zenon, <1>i, <1>d, <1>10 DEF CanaryInv, Done, BeforeStatus, Launch, canary
<1>11. CASE LoopTop \/ LoopExit \/ ObserveLeader \/ ReadFloor
  BY Zenon, <1>i, <1>d, <1>11 DEF CanaryInv, Done, LoopTop, LoopExit, ObserveLeader, ReadFloor, canary, evidence
<1>12. CASE Inject \/ Restore
  BY Zenon, <1>i, <1>d, <1>12 DEF CanaryInv, Done, Inject, Restore, canary, evidence
<1>13. CASE StopSampler \/ JoinSampler
  BY Zenon, <1>i, <1>d, <1>13 DEF CanaryInv, Done, StopSampler, JoinSampler, canary, evidence
<1>14. CASE LoadEnvironment \/ RestartForCatchup \/ CaughtUp \/ Settle \/ AfterStatus
  <2>1. CASE LoadEnvironment
    BY Zenon, <1>i, <1>d, <2>1 DEF CanaryInv, Done, LoadEnvironment, canary, evidence
  <2>2. CASE RestartForCatchup
    BY Zenon, <1>i, <1>d, <2>2 DEF CanaryInv, Done, RestartForCatchup, canary, evidence
  <2>3. CASE CaughtUp
    BY Zenon, <1>i, <1>d, <2>3 DEF CanaryInv, Done, CaughtUp, canary, evidence
  <2>4. CASE Settle
    BY SMTT(30), <1>i, <1>d, <2>4 DEF CanaryInv, Done, Settle, canary, evidence
  <2>5. CASE AfterStatus
    BY Zenon, <1>i, <1>d, <2>5 DEF CanaryInv, Done, AfterStatus, canary, evidence
  <2> QED
    BY Zenon, <1>14, <2>1, <2>2, <2>3, <2>4, <2>5
<1>15. CASE WriteReceipts
  <2>1. pc = "receipts" /\ pc' \in {"canary2", "except"} /\ UNCHANGED canary
        /\ \E written \in SUBSET ReceiptFiles : files' = files \cup written
    BY Zenon, <1>15, ReceiptsWritten DEF WriteReceipts
  <2> QED
    BY Zenon, <1>i, <1>d, <2>1 DEF CanaryInv, Done, ReceiptFiles, canary
<1>16. CASE KillLoad \/ CloseAndSeal
  BY SMTT(30), <1>i, <1>d, <1>16 DEF CanaryInv, Done, KillLoad, CloseAndSeal, canary, evidence
<1>17. CASE Tick \/ LoadExit \/ Sample
  BY Zenon, <1>i, <1>d, <1>17 DEF CanaryInv, Done, Tick, LoadExit, Sample, canary, evidence
<1>18. CASE Commit \/ StepDown \/ \E n \in Busy : Apply(n) \/ Install(n) \/ Elect(n) \/ Exit(n)
  <2>1. UNCHANGED <<pc, files, canary>>
    BY Zenon, <1>18 DEF Commit, StepDown, Apply, Install, Elect, Exit, NodeStep, evidence
  <2> QED
    BY Zenon, <1>i, <2>1 DEF CanaryInv, Done, canary
<1>19. CASE UNCHANGED vars
  BY Zenon, <1>i, <1>19 DEF CanaryInv, Done, vars, canary, evidence
<1> QED
  BY Zenon, <1>1, <1>2, <1>3, <1>4, <1>5, <1>6, <1>7, <1>8, <1>9, <1>10, <1>11, <1>12, <1>13, <1>14, <1>15,
     <1>16, <1>17, <1>18, <1>19
     DEF Next, Controller, Prepare, Loop, Conclude, Processes, Ended

-----------------------------------------------------------------------------
(* Files. *)

LEMMA FileKeeps == IInv /\ [Next]_vars => FileInv'
<1> SUFFICES ASSUME IInv, [Next]_vars PROVE FileInv'
  BY Zenon
<1> USE DEF Prep, Looping, Loaded, Body, Closing, Handlers, InLoop, Done, Concluding, Measured, Pipes,
            Prioritizes
<1>i. ControlInv /\ FileInv
  BY Zenon DEF IInv
<1>1. CASE pc \in MayRaise /\ Except
  BY SMTT(30), <1>i, <1>1 DEF FileInv, LastFiles, MayRaise, Except, Abandon, loading
<1>2. CASE Raise /\ ~(pc \in MayRaise /\ Except)
  BY Zenon, <1>i, <1>2 DEF FileInv, LastFiles, Raise, Abandon, loading
<1>3. CASE Setup
  BY Zenon, <1>i, <1>3 DEF ControlInv, FileInv, LastFiles, Setup, loading
<1>4. CASE StartNodes("boot1", "ready1") \/ StartNodes("boot2", "ready2") \/ StartNodes("boot3", "ready3")
  <2>1. CASE StartNodes("boot1", "ready1")
    BY ZenonT(30), <1>i, <2>1 DEF FileInv, LastFiles, StartNodes, loading, evidence
  <2>2. CASE StartNodes("boot2", "ready2")
    BY ZenonT(30), <1>i, <2>2 DEF FileInv, LastFiles, StartNodes, loading, evidence
  <2>3. CASE StartNodes("boot3", "ready3")
    BY ZenonT(30), <1>i, <2>3 DEF FileInv, LastFiles, StartNodes, loading, evidence
  <2> QED
    BY Zenon, <1>4, <2>1, <2>2, <2>3
<1>5. CASE WaitReady("ready1", "qualify") \/ WaitReady("ready2", "confirm1") \/ WaitReady("ready", "status") \/ WaitReady("ready3", "confirm2")
  <2>1. CASE WaitReady("ready1", "qualify")
    BY Zenon, <1>i, <2>1 DEF FileInv, LastFiles, WaitReady, loading, evidence
  <2>2. CASE WaitReady("ready2", "confirm1")
    BY Zenon, <1>i, <2>2 DEF FileInv, LastFiles, WaitReady, loading, evidence
  <2>3. CASE WaitReady("ready", "status")
    BY Zenon, <1>i, <2>3 DEF FileInv, LastFiles, WaitReady, loading, evidence
  <2>4. CASE WaitReady("ready3", "confirm2")
    BY ZenonT(30), <1>i, <2>4 DEF FileInv, LastFiles, WaitReady, loading, evidence
  <2> QED
    BY Zenon, <1>5, <2>1, <2>2, <2>3, <2>4
<1>6. CASE Qualify \/ Judge
  <2>1. CASE Qualify
    BY Zenon, <1>i, <2>1 DEF FileInv, LastFiles, Qualify, loading
  <2>2. CASE Judge
    BY ZenonT(30), <1>i, <2>2 DEF FileInv, LastFiles, Judge, loading
  <2> QED
    BY Zenon, <1>6, <2>1, <2>2
<1>7. CASE Canaries("canary1", "pre", "kill1", {}) \/ Canaries("canary2", "post", "kill2", {"after"})
  <2>1. CASE Canaries("canary1", "pre", "kill1", {})
    BY Zenon, <1>i, <2>1 DEF FileInv, LastFiles, Canaries, loading
  <2>2. CASE Canaries("canary2", "post", "kill2", {"after"})
    BY ZenonT(30), <1>i, <2>2 DEF FileInv, LastFiles, Canaries, loading
  <2> QED
    BY Zenon, <1>7, <2>1, <2>2
<1>8. CASE StopAll("kill1", "boot2") \/ StopAll("kill2", "boot3")
  BY SMTT(30), <1>i, <1>8 DEF FileInv, LastFiles, StopAll, loading, evidence
<1>9. CASE ConfirmCanaries("confirm1", "warm", {})
  BY ZenonT(30), <1>i, <1>9 DEF FileInv, LastFiles, ConfirmCanaries, loading
<1>21. CASE ConfirmCanaries("confirm2", "close", LastFiles)
  BY SMTT(30), <1>i, <1>21 DEF ControlInv, FileInv, LastFiles, ConfirmCanaries, loading
<1>10. CASE BeforeStatus \/ Launch
  <2>1. CASE BeforeStatus
    BY Zenon, <1>i, <2>1 DEF ControlInv, FileInv, LastFiles, BeforeStatus, loading
  <2>2. CASE Launch
    BY ZenonT(30), <1>i, <2>2 DEF ControlInv, FileInv, LastFiles, Launch, loading
  <2> QED
    BY Zenon, <1>10, <2>1, <2>2
<1>11. CASE LoopTop \/ LoopExit \/ ObserveLeader \/ ReadFloor
  <2>1. UNCHANGED <<mode, load, measurement, verdict, files>> /\ pc \in Looping /\ pc' \in Looping \cup {"join", "joinerr"}
    BY Zenon, <1>11 DEF LoopTop, LoopExit, ObserveLeader, ReadFloor, loading, evidence
  <2> QED
    BY SMTT(30), <1>i, <2>1 DEF FileInv, LastFiles
<1>12. CASE Inject \/ Restore
  <2>1. UNCHANGED <<mode, load, measurement, verdict, files>> /\ pc \in Looping /\ pc' \in Looping
    BY Zenon, <1>12 DEF Inject, Restore, loading, evidence
  <2> QED
    BY SMTT(30), <1>i, <2>1 DEF FileInv, LastFiles
<1>13. CASE StopSampler \/ JoinSampler
  BY SMTT(30), <1>i, <1>13 DEF FileInv, LastFiles, StopSampler, JoinSampler, evidence
<1>14. CASE LoadEnvironment
  BY ZenonT(30), <1>i, <1>14 DEF FileInv, LastFiles, LoadEnvironment, loading
<1>22. CASE RestartForCatchup
  BY ZenonT(30), <1>i, <1>22 DEF FileInv, LastFiles, RestartForCatchup, loading, evidence
<1>23. CASE CaughtUp
  BY ZenonT(30), <1>i, <1>23 DEF FileInv, LastFiles, CaughtUp, loading, evidence
<1>24. CASE Settle
  BY SMTT(30), <1>i, <1>24 DEF FileInv, LastFiles, Settle, loading
<1>25. CASE AfterStatus
  BY ZenonT(30), <1>i, <1>25 DEF FileInv, LastFiles, AfterStatus, loading
<1>15. CASE WriteReceipts
  <2>1. pc = "receipts" /\ UNCHANGED <<mode, load, measurement, verdict>>
    BY Zenon, <1>15 DEF WriteReceipts, loading
  <2> QED
    BY SMTT(30), <1>i, <1>15, <2>1, ReceiptsWritten DEF FileInv, LastFiles, ReceiptFiles, Options
<1>16. CASE KillLoad \/ CloseAndSeal
  <2>1. CASE KillLoad
    BY Zenon, <1>i, <2>1 DEF FileInv, LastFiles, KillLoad, loading, evidence
  <2>2. CASE CloseAndSeal
    BY SMTT(30), <1>i, <2>2 DEF FileInv, LastFiles, CloseAndSeal, loading, evidence
  <2> QED
    BY Zenon, <1>16, <2>1, <2>2
<1>17. CASE Tick \/ LoadExit \/ Sample
  <2>1. CASE Tick
    BY Zenon, <1>i, <2>1 DEF ControlInv, FileInv, LastFiles, Tick, evidence
  <2>2. CASE LoadExit
    BY ZenonT(30), <1>i, <2>2 DEF ControlInv, FileInv, LastFiles, LoadExit, evidence
  <2>3. CASE Sample
    <3>1. UNCHANGED <<pc, mode, load, measurement, verdict, files>>
      BY Zenon, <2>3 DEF Sample, evidence
    <3> QED
      BY SMTT(30), <1>i, <3>1 DEF FileInv, LastFiles
  <2> QED
    BY Zenon, <1>17, <2>1, <2>2, <2>3
<1>18. CASE Commit \/ StepDown \/ \E n \in Busy : Apply(n) \/ Install(n) \/ Elect(n) \/ Exit(n)
  <2>1. UNCHANGED <<pc, mode, load, measurement, verdict, files>>
    BY ZenonT(30), <1>18 DEF Commit, StepDown, Apply, Install, Elect, Exit, NodeStep, loading, evidence
  <2> QED
    BY SMTT(30), <1>i, <2>1 DEF FileInv, LastFiles
<1>19. CASE UNCHANGED vars
  BY SMTT(30), <1>i, <1>19 DEF FileInv, LastFiles, vars, loading, evidence
<1> QED
  BY <1>1, <1>2, <1>3, <1>4, <1>5, <1>6, <1>7, <1>8, <1>9, <1>10, <1>11, <1>12, <1>13, <1>14, <1>15,
     <1>16, <1>17, <1>18, <1>19, <1>21, <1>22, <1>23, <1>24, <1>25
     DEF Next, Controller, Prepare, Loop, Conclude, Processes, Ended
-----------------------------------------------------------------------------
(* Nodes.  First what the operations on one record do. *)

Procs == {"none", "up", "stopped", "dying", "dead"}

LEMMA HaltedRec ==
  ASSUME NEW rec, Sound(rec), NEW proc \in Procs
  PROVE  /\ Sound(Halted(rec, proc))
         /\ Halted(rec, proc).proc = proc
         /\ Halted(rec, proc).down = (rec.down \/ load # "none")
         /\ Halted(rec, proc).led = rec.led /\ Halted(rec, proc).jumped = rec.jumped
         /\ Halted(rec, proc).installs = rec.installs /\ Halted(rec, proc).mark = rec.mark
         /\ Halted(rec, proc).fast = rec.fast /\ Halted(rec, proc).slow = rec.slow
         /\ Halted(rec, proc).comps = rec.comps
  BY Zenon DEF Halted, NodeRec, Sound, Procs

LEMMA StartedRec ==
  ASSUME NEW rec, Sound(rec)
  PROVE  /\ Sound(Started(rec))
         /\ Started(rec).proc = "up" /\ Started(rec).down = rec.down /\ Started(rec).led = rec.led
         /\ Started(rec).mark = 0
         /\ Started(rec).fast = 0 /\ Started(rec).slow = 0 /\ Started(rec).comps = rec.comps
<1>1. Started(rec) \in NodeRec
  <2> DEFINE r == [rec EXCEPT !.proc = "up", !.ops = 0]
             s == [r EXCEPT !.fast = 0, !.slow = 0]
             t == [s EXCEPT !.installs = 0, !.mark = 0]
  <2>1. Started(rec) = [t EXCEPT !.jumped = FALSE]
    BY Zenon DEF Started
  <2>2. r \in NodeRec
    BY Zenon DEF Sound, NodeRec
  <2> HIDE DEF r
  <2>3. s \in NodeRec
    BY Zenon, <2>2 DEF NodeRec
  <2> HIDE DEF s
  <2>4. t \in NodeRec
    BY Zenon, <2>3 DEF NodeRec
  <2> HIDE DEF t
  <2> QED
    BY Zenon, <2>1, <2>4 DEF NodeRec
<1>2. /\ Started(rec).proc = "up" /\ Started(rec).down = rec.down /\ Started(rec).led = rec.led
      /\ Started(rec).mark = 0 /\ Started(rec).installs = 0
      /\ Started(rec).fast = 0 /\ Started(rec).slow = 0 /\ Started(rec).comps = rec.comps
  BY Zenon DEF Started, NodeRec, Sound
<1> QED
  BY SMTT(30), <1>1, <1>2 DEF Sound

LEMMA ContinuedRec ==
  ASSUME NEW rec, Sound(rec)
  PROVE  /\ Sound(Continued(rec))
         /\ Continued(rec).proc = "up" /\ Continued(rec).down = rec.down /\ Continued(rec).led = rec.led
         /\ Continued(rec).mark = rec.mark /\ Continued(rec).jumped = rec.jumped
         /\ Continued(rec).fast = rec.fast /\ Continued(rec).slow = rec.slow
         /\ Continued(rec).comps = rec.comps
  BY Zenon DEF Continued, NodeRec, Sound

LEMMA ProcessRec ==
  ASSUME NEW proc \in Procs
  PROVE  Sound(Process(proc)) /\ Process(proc).proc = proc
<1>1. NewNode \in NodeRec
  BY Zenon DEF NewNode, NodeRec
<1>2. NewNode.installs = 0
  BY Zenon DEF NewNode
<1> QED
  BY SMTT(30), <1>1, <1>2 DEF Process, NodeRec, Sound, Procs

LEMMA MarkedRec ==
  ASSUME NEW rec, Sound(rec)
  PROVE  /\ Sound(Marked(rec)) /\ Marked(rec).mark = rec.ops
         /\ Marked(rec).fast = rec.fast /\ Marked(rec).slow = rec.slow
  BY Zenon DEF Marked, NodeRec, Sound

LEMMA LoadingRec ==
  ASSUME NEW rec, Sound(rec), NEW leads \in BOOLEAN
  PROVE  /\ Sound(Loading(rec, leads))
         /\ Loading(rec, leads).proc = rec.proc /\ Loading(rec, leads).down = (rec.proc # "up")
         /\ Loading(rec, leads).led = (mode.scenario = "leader-loss" /\ leads)
         /\ Loading(rec, leads).mark = rec.mark /\ Loading(rec, leads).comps = rec.comps
         /\ Loading(rec, leads).fast = rec.fast /\ Loading(rec, leads).slow = rec.slow
  BY Zenon DEF Loading, NodeRec, Sound

LEMMA AppliedRec ==
  ASSUME NEW rec, Sound(rec), NEW entries, NEW work \in Work(entries)
  PROVE  /\ Sound(Applied(rec, work))
         /\ Applied(rec, work).proc = rec.proc /\ Applied(rec, work).down = rec.down
         /\ Applied(rec, work).led = rec.led /\ Applied(rec, work).jumped = rec.jumped
         /\ Applied(rec, work).mark = rec.mark
         /\ "before" \in files => Applied(rec, work).fast + Applied(rec, work).slow - rec.fast - rec.slow
                                    = Applied(rec, work).comps - rec.comps
<1> DEFINE f == work.fast
           s == work.slow
           snap == IF work = Idle THEN rec.snap ELSE rec.applied + 1
           comps == IF "before" \in files THEN rec.comps + f + s ELSE rec.comps
<1>1. f \in Nat /\ s \in Nat
  BY SMTT(30) DEF Work, Idle
<1>2. /\ rec.applied + 1 \in Nat /\ rec.ops + 1 \in Nat /\ rec.fast + f \in Nat /\ rec.slow + s \in Nat
      /\ rec.comps \in Nat /\ rec.fast \in Nat /\ rec.slow \in Nat /\ rec.snap \in Nat
  BY SMTT(30), <1>1 DEF Sound, NodeRec
<1>3. snap \in Nat /\ comps \in Nat
  BY SMTT(30), <1>1, <1>2
<1>4. "before" \in files => rec.fast + f + (rec.slow + s) - rec.fast - rec.slow = comps - rec.comps
  BY SMTT(30), <1>1, <1>2
<1>5. Applied(rec, work) =
        [rec EXCEPT !.applied = @ + 1, !.ops = @ + 1, !.snap = snap, !.fast = @ + f, !.slow = @ + s,
                    !.comps = comps]
  BY Zenon DEF Applied, Sound, NodeRec
<1> HIDE DEF snap, comps, f, s
<1>6. Applied(rec, work) \in NodeRec
  <2> DEFINE a == rec.applied + 1
             o == rec.ops + 1
             p == rec.fast + f
             q == rec.slow + s
             r == [rec EXCEPT !.applied = a, !.ops = o]
             t == [r EXCEPT !.snap = snap, !.fast = p]
  <2>1. Applied(rec, work) = [t EXCEPT !.slow = q, !.comps = comps]
    BY Zenon, <1>5, SMTT(30) DEF Sound, NodeRec
  <2>2. a \in Nat /\ o \in Nat /\ p \in Nat /\ q \in Nat
    BY Zenon, <1>2
  <2> HIDE DEF a, o, p, q
  <2>3. r \in NodeRec
    BY Zenon, <2>2 DEF Sound, NodeRec
  <2> HIDE DEF r
  <2>4. t \in NodeRec
    BY Zenon, <1>3, <2>2, <2>3 DEF NodeRec
  <2> HIDE DEF t
  <2> QED
    BY <1>3, <2>1, <2>2, <2>4 DEF NodeRec
<1>7. /\ Applied(rec, work).proc = rec.proc /\ Applied(rec, work).down = rec.down
      /\ Applied(rec, work).led = rec.led /\ Applied(rec, work).jumped = rec.jumped
      /\ Applied(rec, work).mark = rec.mark /\ Applied(rec, work).installs = rec.installs
      /\ Applied(rec, work).fast = rec.fast + f /\ Applied(rec, work).slow = rec.slow + s
      /\ Applied(rec, work).comps = comps
  BY Zenon, <1>5, SMTT(30) DEF Sound, NodeRec
<1> QED
  BY Zenon, <1>4, <1>6, <1>7 DEF Sound

LEMMA InstalledRec ==
  ASSUME NEW rec, Sound(rec), NEW snap \in Nat
  PROVE  /\ Sound(Installed(rec, snap)) /\ Installed(rec, snap).jumped
         /\ Installed(rec, snap).proc = rec.proc /\ Installed(rec, snap).down = rec.down
         /\ Installed(rec, snap).led = rec.led
         /\ Installed(rec, snap).mark = rec.mark /\ Installed(rec, snap).comps = rec.comps
         /\ Installed(rec, snap).fast = rec.fast /\ Installed(rec, snap).slow = rec.slow
<1>1. Installed(rec, snap) \in NodeRec
  <2> DEFINE r == [rec EXCEPT !.snap = snap, !.applied = snap]
             i == r.installs + 1
  <2>1. Installed(rec, snap) = [r EXCEPT !.installs = i, !.jumped = TRUE]
    BY Zenon DEF Installed, Sound, NodeRec
  <2>2. r \in NodeRec
    BY Zenon DEF Sound, NodeRec
  <2> HIDE DEF r
  <2>3. i \in Nat
    BY SMTT(30), <2>2 DEF NodeRec
  <2> HIDE DEF i
  <2> QED
    BY Zenon, <2>1, <2>2, <2>3 DEF NodeRec
<1> QED
  BY Zenon, <1>1, SMTT(30) DEF Installed, NodeRec, Sound

LEMMA LeadsRec ==
  ASSUME NEW rec, Sound(rec)
  PROVE  /\ Sound(Leads(rec))
         /\ Leads(rec).led = (rec.led \/ (load # "none" /\ mode.scenario = "leader-loss"))
         /\ Leads(rec).proc = rec.proc /\ Leads(rec).down = rec.down /\ Leads(rec).jumped = rec.jumped
         /\ Leads(rec).mark = rec.mark /\ Leads(rec).comps = rec.comps
         /\ Leads(rec).fast = rec.fast /\ Leads(rec).slow = rec.slow
  BY Zenon DEF Leads, NodeRec, Sound

\* One node changes.
LEMMA OneNode ==
  ASSUME NEW nodes, SoundNodes(nodes), NEW n \in Node, NEW rec, Sound(rec)
  PROVE  LET new == [nodes EXCEPT ![n] = rec]
         IN  SoundNodes(new) /\ new[n] = rec /\ \A m \in Node : m # n => new[m] = nodes[m]
  BY Zenon DEF SoundNodes

LEMMA TypeKeeps == IInv /\ [Next]_vars => TypeInv'
<1> SUFFICES ASSUME IInv, [Next]_vars PROVE TypeInv'
  BY Zenon
<1>i. TypeInv /\ ControlInv /\ FaultInv
  BY Zenon DEF IInv, NodeInv
<1>n. \A n \in Node : Sound(node[n]) /\ node[n].proc \in Procs
  BY Zenon, <1>i DEF TypeInv, SoundNodes, Sound, NodeRec, Procs
<1>p. \A n \in Node : node = [node EXCEPT ![n] = node[n]]
  BY Zenon, <1>i DEF TypeInv, SoundNodes
<1>1. CASE Raise
  <2>1. node' = [n \in Node |-> Process(node[n].proc)] /\ leader' = 0 /\ UNCHANGED <<before, after>>
    BY Zenon, <1>1 DEF Raise, Except, Abandon
  <2> QED
    BY Zenon, <1>i, <1>n, <2>1, ProcessRec DEF TypeInv, SoundNodes
<1>2. ASSUME NEW from, NEW to, StartNodes(from, to) PROVE TypeInv'
  <2>1. UNCHANGED <<leader, before, after>>
        /\ \E k \in {1, 3} : node' = [n \in Node |-> IF n <= k THEN Started(node[n]) ELSE node[n]]
    BY Zenon, <1>2 DEF StartNodes, evidence
  <2> QED
    BY SMTT(30), <1>i, <1>n, <2>1, StartedRec DEF TypeInv, SoundNodes
<1>3. ASSUME NEW from, NEW to, StopAll(from, to) PROVE TypeInv'
  <2>1. UNCHANGED <<before, after>> /\ leader' = 0
        /\ \E late : node' = [n \in Node |-> Process(IF n \in late THEN "dying" ELSE "dead")]
    BY Zenon, <1>3 DEF StopAll, evidence
  <2> QED
    BY Zenon, <1>i, <2>1, ProcessRec DEF TypeInv, SoundNodes, Procs
<1>4. CASE BeforeStatus
  <2>1. node' = [n \in Node |-> Marked(node[n])] /\ before'.node = node /\ UNCHANGED <<leader, after>>
    BY Zenon, <1>4 DEF BeforeStatus, Observed
  <2> QED
    BY Zenon, <1>i, <1>n, <2>1, MarkedRec DEF TypeInv, SoundNodes
<1>5. CASE Launch
  <2>1. node' = [n \in Node |-> Loading(node[n], leader = n)] /\ UNCHANGED <<leader, before, after>>
    BY Zenon, <1>5 DEF Launch
  <2>2. \A n \in Node : Sound(Loading(node[n], leader = n))
    BY Zenon, <1>n, LoadingRec
  <2> QED
    BY Zenon, <1>i, <2>1, <2>2 DEF TypeInv, SoundNodes
<1>6. CASE Inject
  <2>1. faultNode \in Node
    BY Zenon, <1>i, <1>6 DEF Inject, FaultInv, FaultBody, Body, Looping, InLoop
  <2>2. UNCHANGED <<before, after>> /\ (leader' = leader \/ leader' = 0)
        /\ \/ node' = node
           \/ \E proc \in {"dead", "dying", "stopped"} :
                node' = [node EXCEPT ![faultNode] = Halted(node[faultNode], proc)]
    BY Zenon, <1>6 DEF Inject, StopNode, Pause, evidence
  <2> QED
    BY SMTT(30), <1>i, <1>n, <2>1, <2>2, HaltedRec, OneNode DEF TypeInv, Procs
<1>7. CASE Restore \/ Settle \/ RestartForCatchup
  <2>1. UNCHANGED <<leader, before, after>>
        /\ \/ node' = node
           \/ node' = [node EXCEPT ![faultNode] = Continued(node[faultNode])]
           \/ node' = [node EXCEPT ![faultNode] = Started(node[faultNode])]
    BY Zenon, <1>7 DEF Restore, Settle, RestartForCatchup, BringBack, Resumed, evidence
  <2>2. faultNode \notin Node => node' = node
    BY <1>i, <2>1 DEF TypeInv, SoundNodes
  <2> QED
    BY SMTT(30), <1>i, <1>n, <2>1, <2>2, ContinuedRec, StartedRec, OneNode DEF TypeInv
<1>8. CASE AfterStatus
  BY Zenon, <1>i, <1>8 DEF TypeInv, AfterStatus, Observed, world
<1>9. CASE CloseAndSeal
  <2>1. UNCHANGED <<before, after>> /\ leader' = 0
        /\ \E k \in {2, 4} : node' = [n \in Node |-> CASE n < k /\ Alive(n) -> Halted(node[n], "dead")
                                                       [] n = k -> Halted(node[n], "dying")
                                                       [] OTHER -> node[n]]
    BY Zenon, <1>9 DEF CloseAndSeal
  <2> QED
    BY SMTT(30), <1>i, <1>n, <2>1, HaltedRec DEF TypeInv, SoundNodes, Procs
<1>10. ASSUME NEW n \in Busy, Apply(n) PROVE TypeInv'
  <2>1. n \in Node /\ UNCHANGED <<leader, before, after>>
        /\ \E work \in Work(node[n].applied + 1 - node[n].snap) :
             node' = [node EXCEPT ![n] = Applied(node[n], work)]
    BY Zenon, <1>10, CaseAssumption DEF Apply, NodeStep, evidence
  <2>2. PICK work \in Work(node[n].applied + 1 - node[n].snap) :
               node' = [node EXCEPT ![n] = Applied(node[n], work)]
    BY Zenon, <2>1
  <2>3. Sound(Applied(node[n], work))
    BY Zenon, <1>n, <2>1, AppliedRec
  <2> QED
    BY Zenon, <1>i, <2>1, <2>2, <2>3, OneNode DEF TypeInv
<1>11. ASSUME NEW n \in Busy, Install(n) PROVE TypeInv'
  <2>1. n \in Node /\ leader \in Node /\ UNCHANGED <<leader, before, after>>
        /\ node' = [node EXCEPT ![n] = Installed(node[n], node[leader].snap)]
    BY Zenon, <1>i, <1>11, CaseAssumption DEF Install, NodeStep, evidence, TypeInv
  <2>2. node[leader].snap \in Nat
    BY Zenon, <1>n, <2>1 DEF Sound, NodeRec
  <2> QED
    BY Zenon, <1>i, <1>n, <2>1, <2>2, InstalledRec, OneNode DEF TypeInv
<1>12. ASSUME NEW n \in Busy, Elect(n) PROVE TypeInv'
  <2>1. n \in Node /\ leader' = n /\ UNCHANGED <<before, after>>
        /\ node' = [node EXCEPT ![n] = Leads(node[n])]
    BY Zenon, <1>12, CaseAssumption DEF Elect, NodeStep, evidence
  <2> QED
    BY Zenon, <1>i, <1>n, <2>1, LeadsRec, OneNode DEF TypeInv
<1>13. ASSUME NEW n \in Busy, Exit(n) PROVE TypeInv'
  <2>1. n \in Node /\ (leader' = leader \/ leader' = 0) /\ UNCHANGED <<before, after>>
        /\ node' = [node EXCEPT ![n] = Halted(node[n], "dead")]
    BY Zenon, <1>13, CaseAssumption DEF Exit, evidence
  <2> QED
    BY Zenon, <1>i, <1>n, <2>1, HaltedRec, OneNode DEF TypeInv, Procs
<1>14. CASE UNCHANGED <<node, before, after>> /\ (leader' = leader \/ leader' = 0)
  BY Zenon, <1>i, <1>14 DEF TypeInv
<1>15. CASE \/ Setup \/ Qualify \/ Judge
            \/ WaitReady("ready1", "qualify") \/ WaitReady("ready2", "confirm1")
            \/ WaitReady("ready", "status") \/ WaitReady("ready3", "confirm2")
            \/ Canaries("canary1", "pre", "kill1", {}) \/ Canaries("canary2", "post", "kill2", {"after"})
            \/ ConfirmCanaries("confirm1", "warm", {}) \/ ConfirmCanaries("confirm2", "close", LastFiles)
            \/ LoopTop \/ LoopExit \/ ObserveLeader \/ ReadFloor \/ StopSampler \/ JoinSampler
            \/ LoadEnvironment \/ CaughtUp \/ WriteReceipts \/ KillLoad
            \/ Tick \/ LoadExit \/ Sample \/ Commit \/ StepDown \/ UNCHANGED vars
  BY Zenon, <1>14, <1>15 DEF Setup, Qualify, Judge, WaitReady, Canaries, ConfirmCanaries, LoopTop, LoopExit,
     ObserveLeader, ReadFloor, StopSampler, JoinSampler, LoadEnvironment, CaughtUp, WriteReceipts,
     KillLoad, Tick, LoadExit, Sample, Commit, StepDown, NodeStep, vars, world, evidence
<1> QED
  BY Zenon, <1>1, <1>2, <1>3, <1>4, <1>5, <1>6, <1>7, <1>8, <1>9, <1>10, <1>11, <1>12, <1>13, <1>15
     DEF Next, Controller, Prepare, Loop, Conclude, Processes, Ended
-----------------------------------------------------------------------------
(* The fault. *)

\* What a step of a process, or a signal to it, never takes back.
Kept(old, new) ==
  /\ (old.proc # "up" => old.down) => (new.proc # "up" => new.down)
  /\ old.down => new.down
  /\ old.led => new.led
  /\ old.jumped => new.jumped
  /\ new.mark = old.mark
  /\ \A base \in Nat : Within(old, base) => Within(new, base)

LEMMA KeptItself == ASSUME NEW rec PROVE Kept(rec, rec)
  BY Zenon DEF Kept

\* If one node is changed and keeps what was seen of it, all nodes do.
LEMMA OneKept ==
  ASSUME NEW nodes, SoundNodes(nodes), NEW n \in Node, NEW rec, Sound(rec), Kept(nodes[n], rec),
         NEW new, new = [nodes EXCEPT ![n] = rec]
  PROVE  new[n] = rec /\ \A m \in Node : Kept(nodes[m], new[m])
<1>1. new[n] = rec /\ \A m \in Node : m # n => new[m] = nodes[m]
  BY SMTT(30), OneNode
<1> QED
  BY Zenon, <1>1, KeptItself

\* From the launch to the status after the load, the processes keep what the
\* case has seen of them, and a node that comes to lead has led.
LEMMA ProcessesKeep ==
  ASSUME IInv, pc \in Body, NEW n \in Busy, Apply(n) \/ Install(n) \/ Elect(n) \/ Exit(n)
  PROVE  /\ \A m \in Node : Kept(node[m], node'[m])
         /\ leader' \in {0, leader} \/ (leader' = n /\ (mode.scenario = "leader-loss" => node'[n].led))
         /\ n \in Node /\ UNCHANGED <<mode, pc, faultNode, injected, restored, events, before>>
<1>i. TypeInv /\ load # "none" /\ n \in Node /\ "before" \in files
  BY Zenon, CaseAssumption DEF IInv, NodeInv, ControlInv, FileInv
<1>n. SoundNodes(node) /\ \A m \in Node : Sound(node[m])
  BY Zenon, <1>i DEF TypeInv, SoundNodes
<1>f. UNCHANGED <<mode, pc, faultNode, injected, restored, events, before>>
  BY Zenon DEF Apply, Install, Elect, Exit, NodeStep, fault, evidence
<1>1. CASE Apply(n)
  <2>1. PICK work \in Work(node[n].applied + 1 - node[n].snap) :
               node' = [node EXCEPT ![n] = Applied(node[n], work)]
    BY Zenon, <1>1 DEF Apply
  <2>2. Kept(node[n], Applied(node[n], work)) /\ Sound(Applied(node[n], work))
    <3> DEFINE old == node[n]
               new == Applied(node[n], work)
    <3>1. /\ Sound(old) /\ Sound(new) /\ new.proc = old.proc /\ new.down = old.down /\ new.led = old.led
          /\ new.jumped = old.jumped /\ new.mark = old.mark
          /\ new.fast + new.slow - old.fast - old.slow = new.comps - old.comps
      BY <1>i, <1>n, AppliedRec
    <3> HIDE DEF old, new
    <3>2. \A base \in Nat : Within(old, base) => Within(new, base)
      BY SMTT(30), <3>1 DEF Within, Sound, NodeRec
    <3>3. Kept(old, new)
      BY ZenonT(30), <3>1, <3>2 DEF Kept
    <3> QED
      BY Zenon, <3>1, <3>3 DEF old, new
  <2> QED
    BY Zenon, <1>i, <1>n, <1>f, <1>1, <2>1, <2>2, OneKept DEF Apply
<1>2. CASE Install(n)
  <2>1. node' = [node EXCEPT ![n] = Installed(node[n], node[leader].snap)] /\ leader \in Node
    BY Zenon, <1>i, <1>2 DEF Install, TypeInv
  <2>2. node[leader].snap \in Nat
    BY Zenon, <1>n, <2>1 DEF Sound, NodeRec
  <2>3. Kept(node[n], Installed(node[n], node[leader].snap)) /\ Sound(Installed(node[n], node[leader].snap))
    BY ZenonT(30), <1>i, <1>n, <2>2, InstalledRec DEF Kept, Within
  <2> DEFINE rec == Installed(node[n], node[leader].snap)
  <2>4. node' = [node EXCEPT ![n] = rec] /\ Kept(node[n], rec) /\ Sound(rec) /\ leader' = leader
    BY Zenon, <1>2, <2>1, <2>3 DEF Install
  <2> HIDE DEF rec
  <2>5. \A m \in Node : Kept(node[m], node'[m])
    BY Zenon, <1>i, <1>n, <2>4, OneKept
  <2> QED
    BY Zenon, <1>i, <1>f, <2>4, <2>5
<1>3. CASE Elect(n)
  <2>1. node' = [node EXCEPT ![n] = Leads(node[n])] /\ leader' = n
    BY Zenon, <1>3 DEF Elect
  <2>2. Kept(node[n], Leads(node[n])) /\ Sound(Leads(node[n]))
        /\ (mode.scenario = "leader-loss" => Leads(node[n]).led)
    BY ZenonT(30), <1>i, <1>n, LeadsRec DEF Kept, Within
  <2> DEFINE rec == Leads(node[n])
  <2>3. node' = [node EXCEPT ![n] = rec] /\ Kept(node[n], rec) /\ Sound(rec)
        /\ (mode.scenario = "leader-loss" => rec.led)
    BY Zenon, <2>1, <2>2
  <2> HIDE DEF rec
  <2>4. \A m \in Node : Kept(node[m], node'[m])
    BY Zenon, <1>i, <1>n, <2>3, OneKept
  <2>5. node'[n] = rec
    BY Zenon, <1>i, <1>n, <2>3 DEF SoundNodes
  <2> QED
    BY Zenon, <1>i, <1>f, <2>1, <2>3, <2>4, <2>5
<1>4. CASE Exit(n)
  <2>1. node' = [node EXCEPT ![n] = Halted(node[n], "dead")] /\ leader' \in {0, leader}
    BY Zenon, <1>4 DEF Exit
  <2>2. Kept(node[n], Halted(node[n], "dead")) /\ Sound(Halted(node[n], "dead"))
    BY <1>i, <1>n, HaltedRec DEF Kept, Within, Procs
  <2> QED
    BY <1>i, <1>n, <1>f, <2>1, <2>2, OneKept
<1> QED
  BY Zenon, <1>1, <1>2, <1>3, <1>4

LEMMA AppendFirst == ASSUME NEW a PROVE Append(<<>>, a) = <<a>>
  BY SMTT(30)

LEMMA AppendSecond == ASSUME NEW a, NEW b PROVE Append(<<a>>, b) = <<a, b>>
<1> DEFINE s == Append(<<a>>, b)
<1>1. <<a>> \in Seq({a, b}) /\ Len(<<a>>) = 1
  BY SMTT(30)
<1>2. s \in Seq({a, b}) /\ Len(s) = 2 /\ s[1] = a /\ s[2] = b
  BY SMTT(30), <1>1
<1>3. s = [i \in 1..2 |-> s[i]]
  BY SMTT(30), <1>2
<1> HIDE DEF s
<1>4. s = [i \in 1..2 |-> IF i = 1 THEN a ELSE b]
  BY SMTT(30), <1>2, <1>3
<1>5. <<a, b>> = [i \in 1..2 |-> IF i = 1 THEN a ELSE b]
  BY SMTT(30)
<1> QED
  BY Zenon, <1>4, <1>5 DEF s

LEMMA PrepKeeps ==
  IInv /\ [Next]_vars => (pc \in {"setup"} \cup Prep => ~injected /\ ~restored /\ events = <<>>)'
<1> SUFFICES ASSUME IInv, [Next]_vars, pc' \in {"setup"} \cup Prep
             PROVE  ~injected' /\ ~restored' /\ events' = <<>>
  BY Zenon
<1>i. pc \in {"setup"} \cup Prep => ~injected /\ ~restored /\ events = <<>>
  BY Zenon DEF IInv, NodeInv, FaultInv
<1>1. pc \in {"setup"} \cup Prep /\ UNCHANGED <<injected, restored, events>>
  BY DEF Next, Controller, Prepare, Loop, Conclude, Processes, Ended, Raise, Prep, Except, Setup, Qualify,
     Judge, WaitReady, StartNodes, StopAll, Canaries, ConfirmCanaries, BeforeStatus, Launch, LoopTop, LoopExit,
     ObserveLeader, ReadFloor, Inject, Restore, StopSampler, JoinSampler, LoadEnvironment, RestartForCatchup,
     CaughtUp, Settle, AfterStatus, WriteReceipts, KillLoad, CloseAndSeal, Tick, LoadExit, Sample, Commit,
     StepDown, Apply, Install, Elect, Exit, NodeStep, vars, fault
<1> QED
  BY Zenon, <1>i, <1>1

\* Only a case that restarts a follower for its snapshot records the catch-up.
LEMMA CatchupKeeps ==
  IInv /\ [Next]_vars => (~Catchup => catchup = [stopped |-> 0, required |-> 0])'
<1> SUFFICES ASSUME IInv, [Next]_vars
             PROVE  (~Catchup => catchup = [stopped |-> 0, required |-> 0])'
  BY Zenon
<1>i. FaultInv
  BY Zenon DEF IInv, NodeInv
<1>m. UNCHANGED mode
  BY Zenon DEF Next, Controller, Prepare, Loop, Conclude, Processes, Ended, Raise, Except, Abandon, Setup, Qualify,
     Judge, WaitReady, StartNodes, StopAll, Canaries, ConfirmCanaries, BeforeStatus, Launch, LoopTop, LoopExit,
     ObserveLeader, ReadFloor, Inject, Restore, StopSampler, JoinSampler, LoadEnvironment, RestartForCatchup,
     CaughtUp, Settle, AfterStatus, WriteReceipts, KillLoad, CloseAndSeal, Tick, LoadExit, Sample, Commit,
     StepDown, Apply, Install, Elect, Exit, NodeStep, vars
<1>1. CASE RestartForCatchup
  BY Zenon, <1>i, <1>m, <1>1 DEF RestartForCatchup, FaultInv, FaultBody, Body, Loaded, Catchup
<1>2. CASE ~RestartForCatchup
  <2>1. UNCHANGED catchup \/ catchup' = [stopped |-> 0, required |-> 0]
    BY <1>2 DEF Next, Controller, Prepare, Loop, Conclude, Processes, Ended, Raise, Except, Abandon, Setup, Qualify,
       Judge, WaitReady, StartNodes, StopAll, Canaries, ConfirmCanaries, BeforeStatus, Launch, LoopTop, LoopExit,
       ObserveLeader, ReadFloor, Inject, Restore, StopSampler, JoinSampler, LoadEnvironment,
       CaughtUp, Settle, AfterStatus, WriteReceipts, KillLoad, CloseAndSeal, Tick, LoadExit, Sample, Commit,
       StepDown, Apply, Install, Elect, Exit, NodeStep, vars, fault
  <2> QED
    BY <1>i, <1>m, <2>1 DEF FaultInv, Catchup
<1> QED
  BY Zenon, <1>1, <1>2

LEMMA FaultKeeps == IInv /\ [Next]_vars => FaultInv'
<1> SUFFICES ASSUME IInv, [Next]_vars, pc' \in Body PROVE FaultBody'
  BY Zenon, PrepKeeps, CatchupKeeps DEF FaultInv
<1>i. TypeInv /\ ControlInv /\ FaultInv /\ (pc \in Body => load # "none") /\ mode \in Options
  BY Zenon DEF IInv, NodeInv, ControlInv, FileInv
<1>n. SoundNodes(node) /\ \A n \in Node : Sound(node[n])
  BY Zenon, <1>i DEF TypeInv, SoundNodes
<1> USE DEF Body, Looping, InLoop, Loaded
<1>1. CASE Launch
  <2>1. /\ node' = [n \in Node |-> Loading(node[n], leader = n)]
        /\ UNCHANGED <<mode, leader, faultNode, injected, restored, events>> /\ pc' = "loop"
    BY Zenon, <1>1 DEF Launch, fault, Body
  <2>2. \A n \in Node : /\ node'[n].proc # "up" => node'[n].down
                        /\ mode.scenario = "leader-loss" /\ leader = n => node'[n].led
    <3>1. \A n \in Node : /\ Loading(node[n], leader = n).proc = node[n].proc
                          /\ Loading(node[n], leader = n).down = (node[n].proc # "up")
                          /\ Loading(node[n], leader = n).led = (mode.scenario = "leader-loss" /\ leader = n)
      BY Zenon, <1>n, LoadingRec
    <3> QED
      BY Zenon, <2>1, <3>1
  <2>3. ~injected /\ ~restored /\ events = <<>>
    BY Zenon, <1>i, <1>1 DEF Launch, FaultInv, FaultBody, Prep
  <2> QED
    BY <1>i, <2>1, <2>2, <2>3 DEF FaultInv, FaultBody, TypeInv
<1>2. CASE LoopTop \/ LoopExit \/ StopSampler \/ JoinSampler \/ LoadEnvironment
  <2>1. pc \in Body /\ UNCHANGED <<mode, node, leader, faultNode, injected, restored, events>>
    BY Zenon, <1>2 DEF LoopTop, LoopExit, StopSampler, JoinSampler, LoadEnvironment, world, fault
  <2> QED
    BY <1>i, <1>2, <2>1 DEF LoopTop, LoopExit, StopSampler, JoinSampler, LoadEnvironment, FaultInv, FaultBody, Hit,
       FirstEvent, SecondEvent, Event, Kills, Catchup
<1>3. CASE ObserveLeader \/ ReadFloor
  <2>1. pc \in Body /\ UNCHANGED <<mode, node, leader, injected, restored, events>>
    BY Zenon, <1>3 DEF ObserveLeader, ReadFloor, world
  <2> QED
    BY Zenon, <1>i, <1>3, <2>1 DEF ObserveLeader, ReadFloor, FaultInv, FaultBody, FirstOther, TypeInv, Catchup
<1>4. CASE CaughtUp \/ WaitReady("ready", "status")
  <2>1. pc \in Body /\ UNCHANGED <<mode, node, leader, faultNode, injected, events>>
    BY Zenon, <1>4 DEF CaughtUp, WaitReady, world, fault
  <2>2. faultNode \in Node /\ node[faultNode].installs > 0 => node[faultNode].jumped
    BY Zenon, <1>n DEF Sound
  <2>3. UNCHANGED <<FirstEvent, SecondEvent>>
    BY Zenon, <2>1 DEF FirstEvent, SecondEvent, Event, Kills
  <2>4. CASE CaughtUp
    <3>1. pc = "poll" /\ pc' = "settle" /\ restored' = TRUE /\ node[faultNode].installs > 0 /\ UNCHANGED catchup
      BY Zenon, <2>4 DEF CaughtUp
    <3>2. FaultBody
      BY Zenon, <1>i, <2>1 DEF FaultInv
    <3>3. node[faultNode].jumped
      BY Zenon, <2>2, <3>1, <3>2 DEF FaultBody
    <3>4. FaultBody'
      BY <2>1, <2>3, <3>1, <3>2, <3>3 DEF FaultBody, Hit, Catchup
    <3> QED
      BY Zenon, <1>i, <2>1, <3>1, <3>4 DEF FaultInv, Catchup
  <2>5. CASE WaitReady("ready", "status")
    <3>1. pc = "ready" /\ pc' = "status" /\ UNCHANGED <<restored, catchup>>
      BY Zenon, <2>5 DEF WaitReady, fault
    <3>2. FaultBody
      BY Zenon, <1>i, <2>1 DEF FaultInv
    <3>3. FaultBody'
      BY ZenonT(30), <2>1, <2>3, <3>1, <3>2 DEF FaultBody, Hit, Catchup
    <3> QED
      BY Zenon, <1>i, <2>1, <3>1, <3>3 DEF FaultInv, Catchup
  <2> QED
    BY Zenon, <1>4, <2>4, <2>5
<1>5. CASE Inject
  <2>1. faultNode \in Node /\ ~injected /\ events = <<>> /\ ~restored /\ mode.scenario # "durable-kv"
        /\ pc = "act" /\ load # "none"
    BY Zenon, <1>i, <1>5 DEF Inject, FaultInv, FaultBody
  <2>2. UNCHANGED <<mode, faultNode, restored>> /\ leader' \in {0, leader}
        /\ \/ node' = node /\ node[faultNode].proc = "dead"
           \/ \E proc \in {"dead", "dying", "stopped"} :
                node' = [node EXCEPT ![faultNode] = Halted(node[faultNode], proc)]
    BY Zenon, <1>5 DEF Inject, StopNode, Pause, evidence
  <2>3. /\ \A m \in Node : Kept(node[m], node'[m])
        /\ node'[faultNode].proc # "up"
    <3>1. CASE node' = node /\ node[faultNode].proc = "dead"
      BY Zenon, <3>1 DEF Kept
    <3>2. ASSUME NEW proc \in {"dead", "dying", "stopped"},
                 node' = [node EXCEPT ![faultNode] = Halted(node[faultNode], proc)]
          PROVE (\A m \in Node : Kept(node[m], node'[m])) /\ node'[faultNode].proc # "up"
      <4>1. proc \in Procs /\ Sound(node[faultNode])
        BY Zenon, <1>n, <2>1 DEF Procs
      <4>2. /\ Sound(Halted(node[faultNode], proc)) /\ Kept(node[faultNode], Halted(node[faultNode], proc))
            /\ Halted(node[faultNode], proc).proc = proc
        BY ZenonT(30), <2>1, <4>1, HaltedRec DEF Kept, Within
      <4> DEFINE rec == Halted(node[faultNode], proc)
      <4>3. node' = [node EXCEPT ![faultNode] = rec] /\ Kept(node[faultNode], rec) /\ Sound(rec) /\ rec.proc # "up"
        BY Zenon, <3>2, <4>2
      <4> HIDE DEF rec
      <4>4. \A m \in Node : Kept(node[m], node'[m])
        BY <1>n, <2>1, <4>3, OneKept
      <4>5. node'[faultNode] = rec
        BY Zenon, <1>n, <2>1, <4>3 DEF SoundNodes
      <4> QED
        BY Zenon, <4>3, <4>4, <4>5
    <3> QED
      BY Zenon, <2>2, <3>1, <3>2
  <2>4. \/ pc' = "timeout" /\ UNCHANGED <<events, injected>>
        \/ pc' = "restore" /\ injected' = TRUE /\ events' = <<FirstEvent>>
    <3>1. \/ pc' = "timeout" /\ UNCHANGED <<events, injected>>
          \/ /\ pc' = "restore" /\ injected' = TRUE
             /\ events' = Append(<<>>, Event(IF mode.scenario \in DOMAIN KillAction
                                             THEN KillAction[mode.scenario] ELSE "SIGSTOP follower"))
      BY Zenon, <1>5, <2>1 DEF Inject
    <3>2. (IF mode.scenario \in DOMAIN KillAction THEN KillAction[mode.scenario] ELSE "SIGSTOP follower")
            = CASE mode.scenario = "leader-loss" -> "SIGKILL leader"
                [] mode.scenario = "snapshot-catchup" -> "SIGKILL follower"
                [] OTHER -> "SIGSTOP follower"
      BY Zenon DEF KillAction
    <3> QED
      BY Zenon, <3>1, <3>2, AppendFirst DEF FirstEvent
  <2>5. FirstEvent' = FirstEvent
    BY Zenon, <2>2 DEF FirstEvent, Event
  <2> QED
    BY SMTT(30), <1>i, <2>1, <2>2, <2>3, <2>4, <2>5 DEF FaultInv, FaultBody, Kept, Hit, Catchup, TypeInv
<1>6. CASE Restore \/ Settle \/ RestartForCatchup
  <2>1. UNCHANGED <<mode, leader, faultNode, injected>> /\ pc \in Body
        /\ \/ node' = node
           \/ node' = [node EXCEPT ![faultNode] = Continued(node[faultNode])]
           \/ node' = [node EXCEPT ![faultNode] = Started(node[faultNode])]
    BY Zenon, <1>6 DEF Restore, Settle, RestartForCatchup, BringBack, Resumed, evidence, fault
  <2>2. node' # node => injected /\ ~restored
    BY Zenon, <1>i, <1>6 DEF Restore, Settle, RestartForCatchup, FaultInv, FaultBody
  <2>3. /\ \A m \in Node : /\ node[m].proc # "up" => node[m].down
                           /\ node'[m].proc # "up" => node'[m].down
                           /\ node[m].down => node'[m].down
                           /\ node[m].led => node'[m].led
    <3>1. \A m \in Node : node[m].proc # "up" => node[m].down
      BY Zenon, <1>i, <2>1 DEF FaultInv, FaultBody
    <3>2. CASE node' = node
      BY Zenon, <3>1, <3>2
    <3>3. CASE node' # node
      <4>1. faultNode \in Node
        BY Zenon, <1>i, <2>1, <2>2, <3>3 DEF FaultInv, FaultBody
      <4>2. CASE node' = [node EXCEPT ![faultNode] = Continued(node[faultNode])]
        <5> DEFINE rec == Continued(node[faultNode])
        <5>1. Sound(rec) /\ rec.proc = "up" /\ rec.down = node[faultNode].down /\ rec.led = node[faultNode].led
          BY Zenon, <1>n, <4>1, ContinuedRec
        <5> HIDE DEF rec
        <5>2. node'[faultNode] = rec /\ \A m \in Node : m # faultNode => node'[m] = node[m]
          BY Zenon, <1>n, <4>1, <4>2 DEF rec, SoundNodes
        <5> QED  BY Zenon, <3>1, <5>1, <5>2
      <4>3. CASE node' = [node EXCEPT ![faultNode] = Started(node[faultNode])]
        <5> DEFINE rec == Started(node[faultNode])
        <5>1. Sound(rec) /\ rec.proc = "up" /\ rec.down = node[faultNode].down /\ rec.led = node[faultNode].led
          BY Zenon, <1>n, <4>1, StartedRec
        <5> HIDE DEF rec
        <5>2. node'[faultNode] = rec /\ \A m \in Node : m # faultNode => node'[m] = node[m]
          BY Zenon, <1>n, <4>1, <4>3 DEF rec, SoundNodes
        <5> QED  BY Zenon, <3>1, <5>1, <5>2
      <4> QED
        BY Zenon, <2>1, <3>3, <4>2, <4>3
    <3> QED
      BY Zenon, <3>2, <3>3
  <2>4. UNCHANGED <<FirstEvent, SecondEvent>>
    BY ZenonT(30), <2>1 DEF FirstEvent, SecondEvent, Event, Kills
  <2>5. CASE Restore
    <3>1. pc = "restore" /\ pc' = "loop"
      BY Zenon, <2>5 DEF Restore
    <3>2. \/ /\ injected /\ ~restored /\ ~Catchup /\ restored' = TRUE
             /\ events' = Append(events, SecondEvent)
          \/ node' = node /\ UNCHANGED <<restored, events>>
      BY Zenon, <1>i, <2>5 DEF Restore, SecondEvent, Event, Kills, Catchup, KillAction, Options
    <3>3. injected /\ ~restored => events = <<FirstEvent>>
      BY Zenon, <1>i, <3>1 DEF FaultInv, FaultBody
    <3>4. injected' => events' = IF restored' THEN <<FirstEvent, SecondEvent>> ELSE <<FirstEvent>>
      <4>1. injected /\ restored => events = <<FirstEvent, SecondEvent>>
        BY Zenon, <1>i, <3>1 DEF FaultInv, FaultBody
      <4>2. CASE injected /\ ~restored
        <5>1. CASE restored' = TRUE /\ events' = Append(events, SecondEvent)
          BY Zenon, <3>3, <4>2, <5>1, AppendSecond
        <5>2. CASE UNCHANGED <<restored, events>>
          BY Zenon, <3>3, <4>2, <5>2
        <5> QED
          BY Zenon, <3>2, <5>1, <5>2
      <4>3. CASE injected /\ restored
        BY Zenon, <2>1, <3>2, <4>1, <4>3
      <4> QED
        BY Zenon, <2>1, <4>2, <4>3
    <3>5. FaultBody /\ leader \in Node \cup {0}
      BY Zenon, <1>i, <2>1 DEF FaultInv, TypeInv
    <3>f. /\ mode.scenario = "leader-loss" /\ leader # 0 => node[leader].led
          /\ injected => mode.scenario # "durable-kv" /\ faultNode \in Node /\ Hit(node[faultNode])
      BY Zenon, <3>5 DEF FaultBody
    <3>l. mode.scenario = "leader-loss" /\ leader # 0 => node'[leader].led
      BY Zenon, <2>3, <3>5, <3>f
    <3>h. injected => Hit(node[faultNode])'
      <4>1. UNCHANGED <<mode, faultNode>>
        BY Zenon, <2>1
      <4> QED  BY SMTT(30), <4>1, <2>3, <3>f DEF Hit
    <3>6. /\ mode.scenario = "leader-loss" /\ leader # 0 => node'[leader].led
          /\ injected => mode.scenario # "durable-kv" /\ faultNode \in Node /\ Hit(node[faultNode])'
      BY Zenon, <3>f, <3>l, <3>h
    <3>7. /\ ~injected => events' = <<>> /\ ~restored'
          /\ ~(Catchup /\ restored')
      <4>1. pc \notin {"settle", "ready", "status"}
        BY <3>1
      <4>2. (~injected => events = <<>> /\ ~restored) /\ ~(Catchup /\ restored)
        BY Zenon, <3>5, <4>1 DEF FaultBody
      <4>3. CASE injected /\ ~Catchup
        BY Zenon, <4>3
      <4>4. CASE UNCHANGED <<restored, events>>
        BY <4>2, <4>4
      <4> QED
        BY Zenon, <3>2, <4>3, <4>4
    <3>8. pc' \notin {"observe", "floor", "act", "timeout", "catchup", "poll", "settle", "ready", "status"}
      BY <3>1
    <3>9. FaultBody'
      BY Zenon, <2>1, <2>3, <2>4, <3>4, <3>6, <3>7, <3>8 DEF FaultBody, Catchup
    <3> QED
      BY Zenon, <1>i, <2>1, <3>1, <3>9 DEF FaultInv, Catchup
  <2>6. CASE RestartForCatchup
    <3>1. pc = "catchup" /\ pc' = "poll" /\ events' = Append(events, SecondEvent) /\ UNCHANGED restored
      BY Zenon, <1>i, <2>6 DEF RestartForCatchup, SecondEvent, Event, Kills, FaultInv, FaultBody, Catchup
    <3>2. events = <<FirstEvent>> /\ injected /\ ~restored /\ Catchup
      BY Zenon, <1>i, <3>1 DEF FaultInv, FaultBody
    <3>3. events' = <<FirstEvent, SecondEvent>>
      BY Zenon, <3>1, <3>2, AppendSecond
    <3> QED
      BY <1>i, <2>1, <2>3, <2>4, <3>1, <3>2, <3>3 DEF FaultInv, FaultBody, Hit, Catchup, TypeInv
  <2>7. CASE Settle
    <3>1. pc = "settle" /\ pc' = "ready" /\ UNCHANGED <<restored, events>>
          /\ (mode.scenario # "durable-kv" => injected)
      BY Zenon, <2>7 DEF Settle, fault
    <3>2. Catchup /\ injected => restored /\ node' = node
      BY Zenon, <1>i, <2>2, <3>1 DEF FaultInv, FaultBody
    <3> QED
      BY Zenon, <1>i, <2>1, <2>3, <2>4, <3>1, <3>2 DEF FaultInv, FaultBody, Hit, Catchup, TypeInv
  <2> QED
    BY Zenon, <1>6, <2>5, <2>6, <2>7
<1>7. ASSUME NEW n \in Busy, Apply(n) \/ Install(n) \/ Elect(n) \/ Exit(n) PROVE FaultBody'
  <2>1. pc \in Body
    BY Zenon, <1>7 DEF Apply, Install, Elect, Exit, NodeStep
  <2>2. /\ \A m \in Node : Kept(node[m], node'[m])
        /\ leader' \in {0, leader} \/ (leader' = n /\ (mode.scenario = "leader-loss" => node'[n].led))
        /\ n \in Node /\ UNCHANGED <<mode, pc, faultNode, injected, restored, events>>
    BY Zenon, <1>7, <2>1, ProcessesKeep
  <2>3. UNCHANGED <<FirstEvent, SecondEvent>>
    BY Zenon, <2>2 DEF FirstEvent, SecondEvent, Event, Kills
  <2> QED
    BY Zenon, <1>i, <2>1, <2>2, <2>3 DEF FaultInv, FaultBody, Kept, Hit, Catchup, TypeInv
<1>8. CASE Tick \/ LoadExit \/ Sample \/ Commit \/ StepDown \/ UNCHANGED vars
  <2>1. UNCHANGED <<mode, pc, node, faultNode, injected, restored, events>> /\ leader' \in {0, leader}
    BY Zenon, <1>8 DEF Tick, LoadExit, Sample, Commit, StepDown, NodeStep, vars, world, fault
  <2> QED
    BY <1>i, <2>1 DEF FaultInv, FaultBody, Hit, FirstEvent, SecondEvent, Event, Kills, Catchup
<1>9. CASE \/ Raise \/ Setup \/ Qualify \/ Judge
           \/ WaitReady("ready1", "qualify") \/ WaitReady("ready2", "confirm1") \/ WaitReady("ready3", "confirm2")
           \/ StartNodes("boot1", "ready1") \/ StartNodes("boot2", "ready2") \/ StartNodes("boot3", "ready3")
           \/ StopAll("kill1", "boot2") \/ StopAll("kill2", "boot3")
           \/ Canaries("canary1", "pre", "kill1", {}) \/ Canaries("canary2", "post", "kill2", {"after"})
           \/ ConfirmCanaries("confirm1", "warm", {}) \/ ConfirmCanaries("confirm2", "close", LastFiles)
           \/ BeforeStatus \/ AfterStatus \/ WriteReceipts \/ KillLoad \/ CloseAndSeal
  BY Zenon, <1>9 DEF Raise, Except, Setup, Qualify, Judge, WaitReady, StartNodes, StopAll, Canaries, ConfirmCanaries,
     BeforeStatus, AfterStatus, WriteReceipts, KillLoad, CloseAndSeal
<1> QED
  BY <1>1, <1>2, <1>3, <1>4, <1>5, <1>6, <1>7, <1>8, <1>9
     DEF Next, Controller, Prepare, Loop, Conclude, Processes, Ended
=============================================================================
