----------------------------- MODULE Admission ------------------------------
(***************************************************************************)
(* What happens to a client request on one node: the request slots and the *)
(* bounded inbox (crates/common/src/actor.rs, Actor), admission into the   *)
(* pending map, proposal, and resolution when the entry is applied         *)
(* (actor.rs client, run; actor/application.rs resolve_applies), while     *)
(* leadership moves, the log is rewritten, snapshots are installed and     *)
(* clients give up after ten seconds.                                      *)
(*                                                                         *)
(* The consensus engine is external: its log, commit index and role change *)
(* as Raft allows.  Log entries remember which request they came from.     *)
(***************************************************************************)
EXTENDS Naturals, Sequences, FiniteSets, Functions

CONSTANTS
  Requests,    \* attempts by clients; retries of a command are further attempts
  Workloads,   \* ways to give each attempt its command [id, body]
  Capacity,    \* config.capacity
  BatchSize,   \* config.batch_size
  MaxSpeculative, \* config.max_speculative_proposals
  Backlog,     \* QUEUE_ENTRIES, the limit of backpressured
  MaxLog       \* bound: length of the log

Other == "other"   \* an entry another leader proposed
Peer == "peer"     \* an Input::Peer

ASSUME AdmissionAssumption ==
  /\ Capacity \in Nat \ {0} /\ BatchSize \in Nat \ {0} /\ MaxSpeculative \in Nat \ {0}
  /\ Backlog \in Nat \ {0} /\ MaxLog \in Nat
  /\ Other \notin Requests /\ Peer \notin Requests
  /\ \A w \in Workloads : \A r \in Requests : w[r] = [id |-> w[r].id, body |-> w[r].body]

VARIABLES
  carries,       \* the command of each attempt
  client,        \* state of each attempt's task: Actor::client
  reply,         \* what the attempt returned
  inbox,         \* the owner's deferred inputs followed by its bounded channel
  commands,      \* execute requests collected in this turn
  pending,       \* State.pending: identity |-> command body and reply channels
  pendingCount,  \* State.pending_count
  leader,        \* engine.is_leader()
  log, committed, \* the engine's log and commit index
  applied,       \* index whose outcomes were resolved
  proposed       \* history: attempts handed to the engine

vars == <<carries, client, reply, inbox, commands, pending, pendingCount, leader, log, committed, applied,
          proposed>>
engineVars == <<leader, log, committed>>

NoReply == [status |-> "none"]
Commands == {carries[r] : r \in Requests}

Init ==
  /\ carries \in Workloads
  /\ client = [r \in Requests |-> "idle"]
  /\ reply = [r \in Requests |-> NoReply]
  /\ inbox = <<>> /\ commands = <<>>
  /\ pending = <<>> /\ pendingCount = 0
  /\ leader \in BOOLEAN
  /\ log = <<>> /\ committed = 0 /\ applied = 0
  /\ proposed = {}

-----------------------------------------------------------------------------
(* Helpers                                                                 *)

Clamp(n, low, high) == IF n < low THEN low ELSE IF n > high THEN high ELSE n

\* Slots: capacity less a reserve of a quarter, at least 1 and at most 64.
ClientLimit ==
  LET reserve == Clamp(Capacity \div 4, 1, 64)
  IN IF Capacity > reserve THEN Capacity - reserve ELSE 1

\* Inputs moved to the deferred queue leave room in the channel; there are at
\* most a batch of them and one boundary.
InboxMayTake == Len(inbox) < Capacity + BatchSize + 1
InboxMayBeFull == Len(inbox) >= Capacity

Waiting == {r \in Requests : client[r] = "waiting"}

\* Sending on the reply channels of the attempts in rs: lost on those that
\* have given up.
Send(rs, answer) ==
  /\ reply' = [r \in Requests |-> IF r \in rs /\ client[r] = "waiting" THEN answer ELSE reply[r]]
  /\ client' = [r \in Requests |-> IF r \in rs /\ client[r] = "waiting" THEN "done" ELSE client[r]]

Replies(id) == IF id \in DOMAIN pending THEN pending[id].replies ELSE {}
Drop(ids) == [i \in DOMAIN pending \ ids |-> pending[i]]

\* A reply channel is owned by one entry of the map, so that the lengths of the
\* entries add up to the number of channels.
Channels(p) == UNION {p[i].replies : i \in DOMAIN p}
ReplyCount(p) == Cardinality(Channels(p))

\* The replicated application's answer to entry n: the first entry with its
\* identity decides, a different body under that identity is refused.
First(n) == CHOOSE k \in 1..n : /\ log[k].cmd.id = log[n].cmd.id
                                /\ \A j \in 1..(k - 1) : log[j].cmd.id # log[n].cmd.id
Outcome(n) == IF log[First(n)].cmd = log[n].cmd
                THEN [status |-> "applied", at |-> First(n)]
                ELSE [status |-> "conflict"]
-----------------------------------------------------------------------------
(* Mistakes the properties below are there to catch.                       *)

\* The command is collected before the bound is tested.
OverloadedCollected(r) ==
  /\ leader
  /\ Send({r}, [status |-> "overloaded"])
  /\ commands' = Append(commands, r)
  /\ UNCHANGED <<pending, pendingCount>>

\* The applied command is not compared with the submitted one.
ResolutionUnchecked(n) == Outcome(n)

\* The tick counts the entries of the map and leaves closed channels in it.
TickKeeps ==
  /\ commands = <<>>
  /\ pendingCount' = ReplyCount(pending)
  /\ leader' \in {leader, FALSE}
  /\ UNCHANGED <<carries, client, reply, inbox, commands, pending, log, committed, applied, proposed>>

\* The bound is tested against the number of identities.
RoomByIdentity == Cardinality(DOMAIN pending) < Capacity

-----------------------------------------------------------------------------
(* Client tasks and peers: Actor::client, Actor::peer                      *)

Room == pendingCount < Capacity

\* No slot, or no place in the inbox: overloaded, before anything is queued.
ClientRefused(r) ==
  /\ client[r] = "idle"
  /\ Cardinality(Waiting) >= ClientLimit \/ InboxMayBeFull
  /\ client' = [client EXCEPT ![r] = "done"]
  /\ reply' = [reply EXCEPT ![r] = [status |-> "overloaded"]]
  /\ UNCHANGED <<carries, inbox, commands, pending, pendingCount, engineVars, applied, proposed>>

ClientSend(r) ==
  /\ client[r] = "idle"
  /\ Cardinality(Waiting) < ClientLimit /\ InboxMayTake
  /\ client' = [client EXCEPT ![r] = "waiting"]
  /\ inbox' = Append(inbox, r)
  /\ UNCHANGED <<carries, reply, commands, pending, pendingCount, engineVars, applied, proposed>>

\* Ten seconds pass: the receiver is dropped and the slot comes back, wherever
\* the request is.
GiveUp(r) ==
  /\ client[r] = "waiting"
  /\ client' = [client EXCEPT ![r] = "done"]
  /\ reply' = [reply EXCEPT ![r] = [status |-> "unknown"]]
  /\ UNCHANGED <<carries, inbox, commands, pending, pendingCount, engineVars, applied, proposed>>

\* A peer's message, dropped when the channel is full; one at a time bounds
\* the model.
PeerSend ==
  /\ InboxMayTake /\ Peer \notin Range(inbox)
  /\ inbox' = Append(inbox, Peer)
  /\ UNCHANGED <<carries, client, reply, commands, pending, pendingCount, engineVars, applied, proposed>>

-----------------------------------------------------------------------------
(* The owner: State::client for an execute request                         *)

NotLeader(r) ==
  /\ ~leader
  /\ Send({r}, [status |-> "not_leader"])
  /\ UNCHANGED <<commands, pending, pendingCount>>

\* At the pending bound, behind on application, or out of worker credits,
\* which the worker may be at any time.
Overloaded(r) ==
  /\ leader
  /\ Send({r}, [status |-> "overloaded"])
  /\ UNCHANGED <<commands, pending, pendingCount>>

Free ==
  /\ leader /\ Room /\ Len(log) - applied < Backlog
  /\ Len(log) + Len(commands) < MaxLog   \* bound of the model

Conflict(r) ==
  /\ carries[r].id \in DOMAIN pending /\ pending[carries[r].id].body # carries[r].body
  /\ Send({r}, [status |-> "conflict"])
  /\ UNCHANGED <<commands, pending, pendingCount>>

Admit(r) ==
  LET c == carries[r]
  IN /\ c.id \in DOMAIN pending => pending[c.id].body = c.body
     /\ pending' = [i \in DOMAIN pending \cup {c.id} |->
                      IF i = c.id THEN [body |-> c.body, replies |-> Replies(i) \cup {r}] ELSE pending[i]]
     /\ pendingCount' = pendingCount + 1
     /\ commands' = Append(commands, r)
     /\ UNCHANGED <<client, reply>>

\* run and collect_ready_clients: take client inputs while the batch has room.
TakeClient ==
  /\ inbox # <<>> /\ Head(inbox) # Peer /\ Len(commands) < BatchSize
  /\ inbox' = Tail(inbox)
  /\ LET r == Head(inbox)
     IN \/ NotLeader(r)
        \/ Overloaded(r)
        \/ Free /\ Conflict(r)
        \/ Free /\ Admit(r)
  /\ UNCHANGED <<carries, engineVars, applied, proposed>>
-----------------------------------------------------------------------------
(* The owner: run, propose and effects                                     *)

Propose ==
  /\ commands # <<>>
  /\ log' = log \o [i \in 1..Len(commands) |-> [cmd |-> carries[commands[i]], by |-> commands[i]]]
  /\ proposed' = proposed \cup Range(commands)
  /\ commands' = <<>>
  /\ UNCHANGED <<carries, client, reply, inbox, pending, pendingCount, leader, committed, applied>>

\* Consensus after a peer's message: commit, win an election, or follow another
\* leader whose entries replace the uncommitted ones.
Commit ==
  /\ committed' \in (committed + 1)..Len(log)
  /\ UNCHANGED <<leader, log>>

Lead ==
  /\ ~leader /\ leader' = TRUE
  /\ UNCHANGED <<log, committed>>

Follow ==
  /\ leader' = FALSE
  /\ \E k \in committed..Len(log) :
       \/ log' = SubSeq(log, 1, k)
       \/ k < MaxLog /\ \E c \in Commands : log' = Append(SubSeq(log, 1, k), [cmd |-> c, by |-> Other])
  /\ UNCHANGED committed

TakePeer ==
  /\ commands = <<>> /\ inbox # <<>> /\ Head(inbox) = Peer
  /\ inbox' = Tail(inbox)
  /\ Commit \/ Lead \/ Follow
  /\ UNCHANGED <<carries, client, reply, commands, pending, pendingCount, applied, proposed>>

Without(s, i) == SubSeq(s, 1, i - 1) \o SubSeq(s, i + 1, Len(s))

\* take_ready_prioritizable_peers: acknowledgements may commit entries while
\* the collected commands wait.
TakePeerFirst ==
  /\ Len(commands) > MaxSpeculative /\ leader
  /\ \E i \in 1..Len(inbox) :
       /\ inbox[i] = Peer /\ i - 1 <= BatchSize
       /\ \A j \in 1..(i - 1) : inbox[j] # Peer
       /\ inbox' = Without(inbox, i)
  /\ Commit
  /\ UNCHANGED <<carries, client, reply, commands, pending, pendingCount, applied, proposed>>

\* install_application_snapshot: whatever is still pending becomes unknown.
AbandonPending ==
  /\ Send(Channels(pending), [status |-> "unknown"])
  /\ pending' = <<>> /\ pendingCount' = 0

TakeSnapshot ==
  /\ commands = <<>> /\ inbox # <<>> /\ Head(inbox) = Peer /\ committed < MaxLog
  /\ inbox' = Tail(inbox)
  /\ leader' = FALSE
  /\ \E c \in Commands : log' = Append(SubSeq(log, 1, committed), [cmd |-> c, by |-> Other])
  /\ committed' = Len(log') /\ applied' = Len(log')
  /\ AbandonPending
  /\ UNCHANGED <<carries, commands, proposed>>

\* resolve_applies for one entry: the first entry with an identity settles
\* every attempt pending under it.
Resolution(n) ==
  IF pending[log[n].cmd.id].body = log[n].cmd.body THEN Outcome(n) ELSE [status |-> "conflict"]

Resolve ==
  /\ commands = <<>> /\ applied < committed
  /\ applied' = applied + 1
  /\ LET id == log[applied + 1].cmd.id
     IN IF id \in DOMAIN pending
          THEN /\ Send(pending[id].replies, Resolution(applied + 1))
               /\ pending' = Drop({id})
               /\ pendingCount' = pendingCount - Cardinality(pending[id].replies)
          ELSE UNCHANGED <<client, reply, pending, pendingCount>>
  /\ UNCHANGED <<carries, inbox, commands, engineVars, proposed>>

\* The tick, at which the engine may step down, drops the channels nobody
\* listens to and counts again.
Open(e) == [body |-> e.body, replies |-> {r \in e.replies : client[r] = "waiting"}]

Tick ==
  /\ commands = <<>>
  /\ pending' = [i \in {j \in DOMAIN pending : Open(pending[j]).replies # {}} |-> Open(pending[i])]
  /\ pendingCount' = ReplyCount(pending')
  /\ leader' \in {leader, FALSE}
  /\ UNCHANGED <<carries, client, reply, inbox, commands, log, committed, applied, proposed>>

-----------------------------------------------------------------------------
OwnerStep == TakeClient \/ Propose \/ TakePeer \/ TakePeerFirst \/ TakeSnapshot \/ Resolve \/ Tick

Next ==
  \/ \E r \in Requests : ClientRefused(r) \/ ClientSend(r) \/ GiveUp(r)
  \/ PeerSend
  \/ OwnerStep

Spec == Init /\ [][Next]_vars

\* Timers run out, ticks come, and the owner proposes what it has collected.
\* Nothing is assumed of consensus: no entry need ever commit.
FairSpec ==
  /\ Spec
  /\ \A r \in Requests : WF_vars(GiveUp(r))
  /\ WF_vars(Propose) /\ WF_vars(Tick)

-----------------------------------------------------------------------------
\* pending_count is the number of reply channels in the map and never exceeds
\* the capacity, through retries, conflicts, ticks, resolutions and installs;
\* and no admitted client is forgotten: an attempt still waiting after its
\* request was taken from the inbox has a reply channel in the map.
PendingExact ==
  /\ pendingCount = ReplyCount(pending) /\ pendingCount <= Capacity
  /\ \A r \in Waiting : r \notin Range(inbox) =>
       /\ carries[r].id \in DOMAIN pending
       /\ r \in pending[carries[r].id].replies
       /\ pending[carries[r].id].body = carries[r].body

\* Success is reported only for a command that is in the applied log with
\* exactly the client's content, and what is reported is the outcome of its
\* first application: resolve_applies compares submitted with applied.
AppliedTruthful ==
  \A r \in Requests : reply[r].status = "applied" =>
    /\ reply[r].at <= applied
    /\ log[reply[r].at].cmd = carries[r]
    /\ \A k \in 1..(reply[r].at - 1) : log[k].cmd.id # carries[r].id

\* A request refused as overloaded or not_leader never reaches the engine:
\* a client may take the refusal as "not executed".
RefusedNeverProposed ==
  \A r \in Requests : reply[r].status \in {"overloaded", "not_leader"} =>
    r \notin proposed \cup Range(commands)

\* The test client_saturation_leaves_reserved_peer_inbox_capacity: however many
\* clients call, part of the inbox stays free for peers.
PeerReserve == Cardinality({i \in 1..Len(inbox) : inbox[i] # Peer}) <= ClientLimit

\* No reply channel stays: once the finitely many attempts of a behaviour are
\* over the pending map is empty, also when the leader that admitted a request
\* lost its entry and nothing will ever resolve it.
PendingReleased == []<>(pending = <<>>)
=============================================================================
