------------------------------ MODULE Mailbox -------------------------------
(***************************************************************************)
(* The order in which the owner takes its inputs (crates/common/src/       *)
(* actor.rs run, collect_ready_clients, take_ready_peers and restore_-     *)
(* deferred; actor/peer.rs collect).                                       *)
(*                                                                         *)
(* The owner batches whatever is ready.  To see whether the next input     *)
(* fits, it must take it from the channel; what does not fit goes to the   *)
(* front of a deferred queue.  With durable_completion_priority it looks   *)
(* past ready execute requests for acknowledgements and puts the requests  *)
(* back.  Senders keep sending meanwhile.  An input is its arrival number. *)
(***************************************************************************)
EXTENDS Naturals, Sequences, FiniteSets, Functions

CONSTANTS
  MaxInputs,      \* bound: number of inputs that arrive
  BatchSize,      \* config.batch_size
  PeerBatchSize,  \* config.peer_batch_size
  MaxSpeculative, \* config.max_speculative_proposals
  Modes           \* ways of treating peers and proposals the node may be started with

ASSUME MailboxAssumption ==
  /\ MaxInputs \in Nat /\ BatchSize \in Nat \ {0} /\ PeerBatchSize \in Nat \ {0}
  /\ MaxSpeculative \in Nat \ {0}
  /\ Modes \subseteq {"plain", "combine", "priority"} /\ Modes # {}

\* "ack" is a peer message that may share a step with, or overtake, proposals.
Peers == {"ack", "peer"}
Clients == {"execute", "query"}
Kinds == Peers \cup Clients \cup {"wake"}

VARIABLES
  mode,      \* the way chosen at start
  kind,      \* what each input that has arrived is
  arrived,   \* inputs sent so far
  channel,   \* rx
  deferred,  \* inputs taken from the channel and put back
  pc,        \* where the owner is in its turn
  peers,     \* peer batch being collected
  commands,  \* proposals being collected
  bypassed,  \* requests the lookahead went past
  stepped,   \* history: peers and proposals in the order the engine saw them
  served     \* history: clients in the order they were served

vars == <<mode, kind, arrived, channel, deferred, pc, peers, commands, bypassed, stepped, served>>
turn == <<pc, peers, commands, bypassed>>
inputs == <<mode, kind, arrived>>

\* config.combine_peer_proposals and config.durable_completion_priority, which
\* exclude each other.
Combine == mode = "combine"
Priority == mode = "priority"

Init ==
  /\ mode \in Modes
  /\ kind = <<>> /\ arrived = 0 /\ channel = <<>> /\ deferred = <<>>
  /\ pc = "idle" /\ peers = <<>> /\ commands = <<>> /\ bypassed = <<>>
  /\ stepped = <<>> /\ served = <<>>

-----------------------------------------------------------------------------
\* deferred.pop_front().or_else(rx.try_recv())
Ready == deferred \o channel
NextInput == Head(Ready)
Pop == IF deferred # <<>> THEN deferred' = Tail(deferred) /\ UNCHANGED channel
                          ELSE channel' = Tail(channel) /\ UNCHANGED deferred
\* An input that does not fit is taken and pushed to the front, which leaves it
\* first among the deferred ones; with nothing ready there is nothing to push.
Peek == IF deferred # <<>> \/ channel = <<>>
          THEN UNCHANGED <<deferred, channel>>
          ELSE deferred' = <<Head(channel)>> /\ channel' = Tail(channel)
IsPeer(i) == kind[i] \in Peers
Acks(ps) == \A n \in 1..Len(ps) : kind[ps[n]] = "ack"

-----------------------------------------------------------------------------
(* Mistakes the properties below are there to catch.                       *)

\* Requests are put back one by one to the front, which reverses them.
RestoreReversed == [i \in DOMAIN bypassed |-> bypassed[Len(bypassed) + 1 - i]] \o deferred
\* Only the first peer of an overtaking batch is looked at.
FitsAfterScanAny(i) == IsPeer(i)
\* An input that does not fit is forgotten.
PutBackNothing ==
  IF deferred # <<>> THEN deferred' = Tail(deferred) /\ UNCHANGED channel
  ELSE /\ channel' = IF channel = <<>> THEN <<>> ELSE Tail(channel)
       /\ UNCHANGED deferred
\* A lookahead that found nothing starts again.
ScanNoneAgain ==
  /\ pc = "scan" /\ (Ready # <<>> => kind[NextInput] # "ack")
  /\ deferred' = bypassed \o deferred /\ bypassed' = <<>>
  /\ UNCHANGED <<inputs, channel, pc, peers, commands, stepped, served>>

-----------------------------------------------------------------------------
Arrive ==
  /\ arrived < MaxInputs
  /\ arrived' = arrived + 1
  /\ channel' = Append(channel, arrived + 1)
  /\ \E k \in Kinds : kind' = Append(kind, k)
  /\ UNCHANGED <<mode, deferred, turn, stepped, served>>

\* An execute request is served by proposing it, unless it is refused.
Serve ==
  /\ served' = Append(served, NextInput)
  /\ \/ kind[NextInput] = "execute" /\ commands' = Append(commands, NextInput)
     \/ UNCHANGED commands

\* The first input of a turn.
TakeWake ==
  /\ pc = "idle" /\ Ready # <<>> /\ kind[NextInput] = "wake"
  /\ Pop
  /\ UNCHANGED <<inputs, turn, stepped, served>>

\* The first peer is always taken; whether more may join is the gate's choice.
TakePeer ==
  /\ pc = "idle" /\ Ready # <<>> /\ IsPeer(NextInput)
  /\ Pop
  /\ peers' = <<NextInput>>
  /\ pc' \in {"peers", "collected"}
  /\ UNCHANGED <<inputs, commands, bypassed, stepped, served>>

TakeClient ==
  /\ pc = "idle" /\ Ready # <<>> /\ kind[NextInput] \in Clients
  /\ Pop /\ Serve
  /\ pc' = "clients"
  /\ UNCHANGED <<inputs, peers, bypassed, stepped>>

-----------------------------------------------------------------------------
(* Collecting a batch: peer.rs collect, collect_ready_clients              *)

\* Which inputs may join the batch being collected at this point of the turn.
FitsAfterScan(i) == kind[i] = "ack"
Fits(i) == CASE pc = "peers" -> IsPeer(i)
             [] pc = "overtaking" -> FitsAfterScan(i)
             [] pc = "clients" -> kind[i] \in Clients
             [] OTHER -> kind[i] = "execute"
PutBack == Peek

CollectPeer ==
  /\ pc \in {"peers", "overtaking"} /\ Len(peers) < PeerBatchSize
  /\ Ready # <<>> /\ Fits(NextInput)
  /\ Pop
  /\ peers' = Append(peers, NextInput)
  /\ UNCHANGED <<inputs, pc, commands, bypassed, stepped, served>>

\* The batch is full, or the next input is missing, unfit or not admitted by
\* the gate.
CollectPeerEnd ==
  /\ pc \in {"peers", "overtaking"}
  /\ IF Len(peers) < PeerBatchSize THEN PutBack ELSE UNCHANGED <<deferred, channel>>
  /\ pc' = IF pc = "peers" THEN "collected" ELSE "overtaken"
  /\ UNCHANGED <<inputs, peers, commands, bypassed, stepped, served>>

CollectClient ==
  /\ pc \in {"clients", "joining"} /\ Len(commands) < BatchSize
  /\ Ready # <<>> /\ Fits(NextInput)
  /\ Pop /\ Serve
  /\ UNCHANGED <<inputs, pc, peers, bypassed, stepped>>

CollectClientEnd ==
  /\ pc \in {"clients", "joining"}
  /\ IF Len(commands) < BatchSize
       THEN (Ready # <<>> => ~Fits(NextInput)) /\ PutBack
       ELSE UNCHANGED <<deferred, channel>>
  /\ pc' = IF pc = "joining" THEN "step"
           ELSE IF commands = <<>> THEN "idle"
           ELSE IF Combine THEN "combine"
           ELSE IF Priority /\ Len(commands) > MaxSpeculative THEN "scan" ELSE "step"
  /\ UNCHANGED <<inputs, peers, commands, bypassed, stepped, served>>

\* A peer batch alone, or with the execute requests that are ready behind it.
Collected ==
  /\ pc = "collected"
  /\ pc' = IF Combine /\ Acks(peers) THEN "joining" ELSE "step"
  /\ UNCHANGED <<inputs, channel, deferred, peers, commands, bypassed, stepped, served>>

-----------------------------------------------------------------------------
(* Looking for peers once proposals are collected: take_ready_peers        *)

MayBypass(i) == kind[i] = "execute" /\ Len(bypassed) < BatchSize
Restored == bypassed \o deferred

\* Combining only looks at the input that ended the batch.
CombineFound ==
  /\ pc = "combine" /\ deferred # <<>> /\ kind[Head(deferred)] = "ack"
  /\ deferred' = Tail(deferred) /\ UNCHANGED channel
  /\ peers' = <<Head(deferred)>>
  /\ pc' \in {"overtaking", "overtaken"}
  /\ UNCHANGED <<inputs, commands, bypassed, stepped, served>>

CombineNone ==
  /\ pc = "combine" /\ (deferred # <<>> => kind[Head(deferred)] # "ack")
  /\ pc' = "step"
  /\ UNCHANGED <<inputs, channel, deferred, peers, commands, bypassed, stepped, served>>

ScanBypass ==
  /\ pc = "scan" /\ Ready # <<>> /\ MayBypass(NextInput)
  /\ Pop
  /\ bypassed' = Append(bypassed, NextInput)
  /\ UNCHANGED <<inputs, pc, peers, commands, stepped, served>>

ScanFound ==
  /\ pc = "scan" /\ Ready # <<>> /\ kind[NextInput] = "ack"
  /\ Pop
  /\ peers' = <<NextInput>>
  /\ pc' \in {"overtaking", "overtaken"}
  /\ UNCHANGED <<inputs, commands, bypassed, stepped, served>>

\* Nothing more is ready, or a boundary: everything goes back.
ScanNone ==
  /\ pc = "scan" /\ (Ready # <<>> => ~MayBypass(NextInput) /\ kind[NextInput] # "ack")
  /\ IF deferred = <<>> /\ channel # <<>>
       THEN deferred' = bypassed \o <<Head(channel)>> /\ channel' = Tail(channel)
       ELSE deferred' = Restored /\ UNCHANGED channel
  /\ bypassed' = <<>>
  /\ pc' = "step"
  /\ UNCHANGED <<inputs, peers, commands, stepped, served>>

\* restore_deferred, and the step of the peers that were found.
Combined == commands \o peers

Overtake ==
  /\ pc = "overtaken"
  /\ deferred' = Restored /\ bypassed' = <<>>
  /\ stepped' = stepped \o (IF Combine THEN Combined ELSE peers)
  /\ peers' = <<>>
  /\ IF Combine THEN pc' = "idle" /\ commands' = <<>>
                ELSE pc' = "step" /\ UNCHANGED commands
  /\ UNCHANGED <<inputs, channel, served>>

\* peer_batch, propose or peer_batch_and_propose
Step ==
  /\ pc = "step"
  /\ stepped' = stepped \o peers \o commands
  /\ pc' = "idle" /\ peers' = <<>> /\ commands' = <<>>
  /\ UNCHANGED <<inputs, channel, deferred, bypassed, served>>
-----------------------------------------------------------------------------
OwnerStep ==
  \/ TakeWake \/ TakePeer \/ TakeClient
  \/ CollectPeer \/ CollectPeerEnd \/ CollectClient \/ CollectClientEnd \/ Collected
  \/ CombineFound \/ CombineNone \/ ScanBypass \/ ScanFound \/ ScanNone \/ Overtake \/ Step

\* Every input of the bound has arrived and the owner waits for more.
Quiet == arrived = MaxInputs /\ pc = "idle" /\ Ready = <<>> /\ UNCHANGED vars

Next == Arrive \/ OwnerStep \/ Quiet

Spec == Init /\ [][Next]_vars

\* The owner's thread keeps running.
FairSpec == Spec /\ WF_vars(OwnerStep)

-----------------------------------------------------------------------------
Ascending(s) == \A m, n \in 1..Len(s) : m < n => s[m] < s[n]

\* No input is lost or taken twice, however often it is taken from the channel
\* and put back: restore_deferred and every push_front.
NothingLost ==
  LET places == Ready \o bypassed \o peers \o served
      peersStepped == {i \in Range(stepped) : IsPeer(i)}
  IN /\ IsInjective(places) /\ IsInjective(stepped)
     /\ Range(places) \cap peersStepped = {}
     /\ {i \in 1..arrived : kind[i] # "wake"} \subseteq Range(places) \cup peersStepped

\* Clients are served, and their commands proposed, in the order they arrived,
\* and the engine sees peers in the order they arrived.  Without completion
\* priority it sees everything in arrival order, also when peers and proposals
\* share a step: propose_and_peer_batch "in their observed order".
ArrivalOrder ==
  /\ Ascending(served) /\ Ascending(Ready)
  /\ \A m, n \in 1..Len(stepped) :
       m < n /\ (Priority => (IsPeer(stepped[m]) <=> IsPeer(stepped[n]))) => stepped[m] < stepped[n]

\* Only an acknowledgement overtakes, only execute requests are overtaken, and
\* at most the collected batch and one batch more: the comments of
\* take_ready_prioritizable_peers and docs/methodology.md.  The lookahead
\* "never retains more than one batch" and the input that stopped it.
OvertakesBounded ==
  /\ Len(deferred) <= BatchSize + 1
  /\ \A m \in 1..Len(stepped) :
       LET late == {i \in 1..arrived : /\ kind[i] # "wake" /\ i < stepped[m]
                                       /\ i \notin Range(SubSeq(stepped, 1, m))
                                       /\ i \in Range(stepped) \/ i \notin Range(served)}
       IN IsPeer(stepped[m]) =>
            /\ late # {} => kind[stepped[m]] = "ack" /\ Priority
            /\ \A i \in late : kind[i] = "execute"
            /\ Cardinality(late) <= 2 * BatchSize

\* Again and again everything that has arrived is taken and stepped: putting an
\* input back never starves it, and no lookahead goes on for ever.
EveryInputTaken == []<>(Ready \o bypassed \o peers \o commands = <<>>)
=============================================================================
