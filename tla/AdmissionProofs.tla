-------------------------- MODULE AdmissionProofs ---------------------------
(***************************************************************************)
(* What a client may conclude from its reply, for every set of attempts,   *)
(* every capacity and batch size and logs of any length.                   *)
(*                                                                         *)
(* RefusedNeverProposed needs to know where a request is: an attempt is in *)
(* the inbox at most once, and while it is there it has been neither       *)
(* collected nor proposed, and has no channel in the map (PlaceInv).       *)
(* AppliedTruthful needs to know whose reply channels an identity holds    *)
(* (PendingInv) and that the applied part of the log stays (LogInv).       *)
(***************************************************************************)
EXTENDS Admission, SequenceTheorems, FiniteSetTheorems, WellFoundedInduction, TLAPS

Statuses == {"idle", "waiting", "done"}
Refusals == {"overloaded", "not_leader"}
Entries == [cmd : Commands, by : Requests \cup {Other}]

\* Every attempt is in the sequence at most once.
Once(s) == \A i, j \in 1..Len(s) : s[i] = s[j] /\ s[i] # Peer => i = j

ShapeInv ==
  /\ client \in [Requests -> Statuses]
  /\ reply = [r \in Requests |-> reply[r]]
  /\ inbox \in Seq(Requests \cup {Peer})
  /\ commands \in Seq(Requests)
  /\ \A r \in Requests : carries[r] = [id |-> carries[r].id, body |-> carries[r].body]

PlaceInv ==
  /\ Once(inbox)
  /\ \A r \in Requests : client[r] = "idle" =>
       r \notin Range(inbox) \cup Range(commands) \cup proposed \cup Channels(pending)
  /\ \A r \in Requests : r \in Range(inbox) => r \notin Range(commands) \cup proposed \cup Channels(pending)
  /\ \A r \in Requests : reply[r].status \in Refusals =>
       client[r] = "done" /\ r \notin Range(inbox) \cup Range(commands) \cup proposed

PendingInv ==
  \A id \in DOMAIN pending : \A r \in pending[id].replies :
    r \in Requests /\ carries[r].id = id /\ carries[r].body = pending[id].body

CountInv ==
  /\ IsFiniteSet(Channels(pending))
  /\ pendingCount = ReplyCount(pending) /\ pendingCount <= Capacity

\* Every waiting attempt is in the inbox or has a channel in the map.
HeldInv ==
  \A r \in Requests : client[r] = "waiting" /\ r \notin Range(inbox) =>
    carries[r].id \in DOMAIN pending /\ r \in pending[carries[r].id].replies

LogInv ==
  /\ log \in Seq(Entries)
  /\ applied \in Nat /\ committed \in Nat /\ applied <= committed /\ committed <= Len(log)

AnswerInv ==
  \A r \in Requests : reply[r].status = "applied" =>
    /\ reply[r].at \in 1..applied
    /\ log[reply[r].at].cmd = carries[r]
    /\ \A k \in 1..(reply[r].at - 1) : log[k].cmd.id # carries[r].id

MapInv == PendingInv /\ CountInv /\ HeldInv
IInv == ShapeInv /\ PlaceInv /\ MapInv /\ LogInv /\ AnswerInv

-----------------------------------------------------------------------------
\* Facts about sequences.

\* Every non-empty set of positions has a first one.
LEMMA Least == ASSUME NEW T, T \subseteq Nat, T # {} PROVE \E x \in T : \A y \in T : x <= y
<1>1. IsWellFoundedOn(OpToRel(<, Nat), Nat)
  BY Zenon, NatLessThanWellFounded
<1>2. PICK x \in T : \A y \in T : <<y, x>> \notin OpToRel(<, Nat)
  BY Zenon, <1>1, WFMin
<1>3. \A y \in T : ~(y < x)
  BY Zenon, <1>2 DEF OpToRel
<1> QED  BY <1>3

\* A sequence with one more element.
LEMMA AppendSet ==
  ASSUME NEW S, NEW s \in Seq(S), NEW e \in S
  PROVE  Append(s, e) \in Seq(S) /\ Range(Append(s, e)) = Range(s) \cup {e}
<1>1. /\ Append(s, e) \in Seq(S) /\ Len(Append(s, e)) = Len(s) + 1 /\ Len(s) \in Nat
      /\ \A i \in 1..Len(s) : Append(s, e)[i] = s[i]
      /\ Append(s, e)[Len(s) + 1] = e
      /\ DOMAIN s = 1..Len(s) /\ DOMAIN Append(s, e) = 1..Len(Append(s, e))
  OBVIOUS
<1> QED  BY <1>1 DEF Range

\* It holds each attempt once if the element is new.
LEMMA AppendOnce ==
  ASSUME NEW S, NEW s \in Seq(S), NEW e \in S, Once(s), e = Peer \/ e \notin Range(s)
  PROVE  Once(Append(s, e))
<1>1. /\ Len(Append(s, e)) = Len(s) + 1 /\ Len(s) \in Nat
      /\ \A i \in 1..Len(s) : Append(s, e)[i] = s[i]
      /\ Append(s, e)[Len(s) + 1] = e
      /\ DOMAIN s = 1..Len(s)
  OBVIOUS
<1> QED  BY <1>1 DEF Once, Range

\* Taking the head leaves the others, once each.
LEMMA TailOnce ==
  ASSUME NEW S, NEW s \in Seq(S), s # <<>>, Once(s)
  PROVE  /\ Tail(s) \in Seq(S) /\ Head(s) \in S /\ Once(Tail(s)) /\ Range(Tail(s)) \subseteq Range(s)
         /\ Head(s) \in Range(s)
         /\ Head(s) # Peer => Head(s) \notin Range(Tail(s))
<1>1. /\ Tail(s) \in Seq(S) /\ Len(s) \in Nat \ {0} /\ Len(Tail(s)) = Len(s) - 1
      /\ \A i \in 1..(Len(s) - 1) : Tail(s)[i] = s[i + 1]
      /\ Head(s) = s[1] /\ s[1] \in S
      /\ DOMAIN s = 1..Len(s) /\ DOMAIN Tail(s) = 1..Len(Tail(s))
  OBVIOUS
<1> QED  BY <1>1 DEF Once, Range

\* Nothing but the head goes with the head.
LEMMA TailSet ==
  ASSUME NEW S, NEW s \in Seq(S), s # <<>>
  PROVE  Range(s) \subseteq Range(Tail(s)) \cup {Head(s)}
<1>1. /\ Len(s) \in Nat \ {0} /\ Len(Tail(s)) = Len(s) - 1
      /\ \A i \in 1..(Len(s) - 1) : Tail(s)[i] = s[i + 1]
      /\ Head(s) = s[1]
      /\ DOMAIN s = 1..Len(s) /\ DOMAIN Tail(s) = 1..(Len(s) - 1)
  OBVIOUS
<1> SUFFICES ASSUME NEW i \in 1..Len(s), i # 1 PROVE s[i] \in Range(Tail(s))
  BY <1>1 DEF Range
<1>2. i - 1 \in 1..(Len(s) - 1) /\ Tail(s)[i - 1] = s[(i - 1) + 1] /\ (i - 1) + 1 = i
  BY <1>1
<1> QED  BY Zenon, <1>1, <1>2 DEF Range

\* So does taking one from the middle.
LEMMA RemoveOnce ==
  ASSUME NEW S, NEW s \in Seq(S), NEW n \in 1..Len(s), Once(s)
  PROVE  /\ Without(s, n) \in Seq(S) /\ Once(Without(s, n)) /\ Range(Without(s, n)) \subseteq Range(s)
         /\ Range(s) \subseteq Range(Without(s, n)) \cup {s[n]}
<1> DEFINE a == SubSeq(s, 1, n - 1)
           b == SubSeq(s, n + 1, Len(s))
           t == a \o b
<1>1. /\ Len(s) \in Nat \ {0} /\ n \in Nat \ {0} /\ n <= Len(s)
      /\ a \in Seq(S) /\ Len(a) = n - 1 /\ \A i \in 1..(n - 1) : a[i] = s[i]
      /\ b \in Seq(S) /\ Len(b) = Len(s) - n /\ \A i \in 1..(Len(s) - n) : b[i] = s[n + i]
      /\ DOMAIN s = 1..Len(s)
  OBVIOUS
<1> HIDE DEF a, b
<1>2. /\ t \in Seq(S) /\ Len(t) = Len(s) - 1 /\ DOMAIN t = 1..Len(t)
      /\ \A i \in 1..(Len(s) - 1) : t[i] = IF i < n THEN a[i] ELSE b[i - (n - 1)]
  <2>1. a \in Seq(S) /\ b \in Seq(S)
    BY Zenon, <1>1
  <2>2. /\ t \in Seq(S) /\ Len(t) = Len(a) + Len(b)
        /\ \A i \in 1..(Len(a) + Len(b)) : t[i] = IF i <= Len(a) THEN a[i] ELSE b[i - Len(a)]
    BY Zenon, <2>1, ConcatProperties
  <2>3. Len(s) \in Nat /\ n \in Nat /\ Len(a) = n - 1 /\ Len(b) = Len(s) - n
    BY Zenon, <1>1
  <2>4. Len(a) + Len(b) = Len(s) - 1 /\ \A i \in 1..(Len(s) - 1) : i <= n - 1 <=> i < n
    BY <2>3
  <2>5. DOMAIN t = 1..Len(t)
    BY Zenon, <2>2, LenProperties
  <2> QED  BY Zenon, <2>2, <2>3, <2>4, <2>5
<1>3. ASSUME NEW i \in 1..(Len(s) - 1) PROVE t[i] = IF i < n THEN s[i] ELSE s[i + 1]
  <2>0. Len(s) \in Nat /\ n \in Nat
    BY Zenon, <1>1
  <2>1. CASE i < n
    <3>1. i \in 1..(n - 1)
      BY <2>0, <2>1
    <3> QED  BY Zenon, <1>1, <1>2, <2>1, <3>1
  <2>2. CASE ~(i < n)
    <3>1. i - (n - 1) \in 1..(Len(s) - n) /\ n + (i - (n - 1)) = i + 1
      BY <2>0, <2>2
    <3> QED  BY Zenon, <1>1, <1>2, <2>2, <3>1
  <2> QED  BY Zenon, <2>1, <2>2
<1> HIDE DEF t
<1>4. Range(t) \subseteq Range(s)
  <2> SUFFICES ASSUME NEW i \in 1..(Len(s) - 1) PROVE t[i] \in Range(s)
    BY Zenon, <1>2 DEF Range
  <2>1. i \in 1..Len(s) /\ i + 1 \in 1..Len(s)
    BY <1>1
  <2> QED  BY Zenon, <1>1, <1>3, <2>1 DEF Range
<1>5. Once(t)
  <2> SUFFICES ASSUME NEW i \in 1..(Len(s) - 1), NEW j \in 1..(Len(s) - 1), t[i] = t[j], t[i] # Peer PROVE i = j
    BY Zenon, <1>2 DEF Once
  <2> DEFINE k(x) == IF x < n THEN x ELSE x + 1
  <2>1. Len(s) \in Nat /\ n \in Nat
    BY Zenon, <1>1
  <2>2. k(i) \in 1..Len(s) /\ k(j) \in 1..Len(s)
    BY <2>1
  <2>3. t[i] = s[k(i)] /\ t[j] = s[k(j)]
    BY Zenon, <1>3
  <2>4. k(i) = k(j)
    <3> HIDE DEF k
    <3> QED  BY Zenon, <2>2, <2>3 DEF Once
  <2> QED  BY <2>1, <2>4
<1>6. Range(s) \subseteq Range(t) \cup {s[n]}
  <2> SUFFICES ASSUME NEW i \in 1..Len(s), i # n PROVE s[i] \in Range(t)
    BY Zenon, <1>1 DEF Range
  <2>1. CASE i < n
    <3>1. i \in 1..(Len(s) - 1) /\ t[i] = s[i]
      BY <1>1, <1>3, <2>1
    <3> QED  BY Zenon, <1>2, <3>1 DEF Range
  <2>2. CASE i > n
    <3>1. i - 1 \in 1..(Len(s) - 1) /\ ~(i - 1 < n) /\ (i - 1) + 1 = i
      BY <1>1, <2>2
    <3>2. t[i - 1] = s[i]
      BY Zenon, <1>3, <3>1
    <3> QED  BY Zenon, <1>2, <3>1, <3>2 DEF Range
  <2> QED  BY <1>1, <2>1, <2>2
<1> QED  BY Zenon, <1>2, <1>4, <1>5, <1>6 DEF t, a, b, Without

-----------------------------------------------------------------------------
\* Nothing has been asked yet.
LEMMA InitIInv == Init => IInv
<1> SUFFICES ASSUME Init PROVE IInv
  BY Zenon
<1>1. ShapeInv
  BY AdmissionAssumption DEF Init, ShapeInv, Statuses
<1>2. Channels(pending) = {}
  BY DEF Init, Channels
<1>3. PlaceInv
  BY <1>2 DEF Init, PlaceInv, Once, Range, NoReply, Refusals
<1>4. MapInv
  BY <1>2, FS_EmptySet, AdmissionAssumption DEF Init, MapInv, PendingInv, CountInv, HeldInv, ReplyCount
<1>5. LogInv /\ AnswerInv
  BY DEF Init, LogInv, AnswerInv, NoReply
<1> QED  BY Zenon, <1>1, <1>3, <1>4, <1>5 DEF IInv

\* An answer reaches only attempts that still wait, and ends them.
LEMMA SendFacts ==
  ASSUME ShapeInv, NEW rs, NEW answer, Send(rs, answer)
  PROVE  /\ client' \in [Requests -> Statuses]
         /\ reply' = [r \in Requests |-> reply'[r]]
         /\ \A r \in Requests : client'[r] = "idle" <=> client[r] = "idle"
         /\ \A r \in Requests : client[r] = "done" => client'[r] = "done"
         /\ \A r \in Requests : reply'[r] = reply[r] \/ (r \in rs /\ reply'[r] = answer /\ client'[r] = "done")
BY Zenon DEF ShapeInv, Send, Statuses

\* Answers other than "applied", and a log that keeps its applied part, leave
\* the earlier answers true.
LEMMA AnswersKept ==
  ASSUME AnswerInv, LogInv, UNCHANGED carries, applied' \in Nat, applied <= applied',
         \A k \in 1..applied : log'[k] = log[k],
         \A r \in Requests : reply'[r] = reply[r] \/ reply'[r].status # "applied"
  PROVE  AnswerInv'
<1> SUFFICES ASSUME NEW r \in Requests, reply'[r].status = "applied"
             PROVE  /\ reply'[r].at \in 1..applied'
                    /\ log'[reply'[r].at].cmd = carries'[r]
                    /\ \A k \in 1..(reply'[r].at - 1) : log'[k].cmd.id # carries'[r].id
  BY Zenon DEF AnswerInv
<1>1. reply'[r] = reply[r]
  BY Zenon
<1>2. /\ reply[r].at \in 1..applied /\ log[reply[r].at].cmd = carries[r]
      /\ \A k \in 1..(reply[r].at - 1) : log[k].cmd.id # carries[r].id
  BY Zenon, <1>1 DEF AnswerInv
<1>3. applied \in Nat
  BY Zenon DEF LogInv
<1>4. \A k \in 1..(reply[r].at - 1) : k \in 1..applied
  BY <1>2, <1>3
<1> QED  BY <1>1, <1>2, <1>3, <1>4

\* A step outside the log changes nothing that an answer speaks of.
LEMMA LogUntouched ==
  ASSUME IInv, UNCHANGED <<carries, log, committed, applied>>,
         \A r \in Requests : reply'[r] = reply[r] \/ reply'[r].status # "applied"
  PROVE  LogInv' /\ AnswerInv'
<1>1. LogInv'
  BY Zenon DEF IInv, LogInv, Entries, Commands
<1>2. AnswerInv'
  BY AnswersKept DEF IInv, LogInv
<1> QED  BY Zenon, <1>1, <1>2

\* The pending map stays right when it is not touched and nobody begins to
\* wait outside the inbox.
LEMMA MapUntouched ==
  ASSUME IInv, UNCHANGED <<carries, pending, pendingCount>>,
         \A r \in Requests : client'[r] = "waiting" /\ r \notin Range(inbox') =>
           client[r] = "waiting" /\ r \notin Range(inbox)
  PROVE  MapInv'
<1>1. PendingInv'
  BY DEF IInv, MapInv, PendingInv
<1>2. CountInv'
  BY Zenon DEF IInv, MapInv, CountInv, ReplyCount, Channels
<1>3. HeldInv'
  BY Zenon DEF IInv, MapInv, HeldInv
<1> QED  BY Zenon, <1>1, <1>2, <1>3 DEF MapInv

-----------------------------------------------------------------------------
\* A refused call queues nothing.
LEMMA ClientRefusedKeeps == ASSUME IInv, NEW r \in Requests, ClientRefused(r) PROVE IInv'
<1>1. ShapeInv'
  BY Zenon DEF IInv, ShapeInv, ClientRefused, Statuses
<1>2. PlaceInv'
  BY DEF IInv, ShapeInv, PlaceInv, ClientRefused, Once, Channels
<1>3. MapInv'
  BY Zenon, MapUntouched DEF IInv, ShapeInv, ClientRefused
<1>4. LogInv' /\ AnswerInv'
  BY Zenon, LogUntouched DEF IInv, ShapeInv, ClientRefused, engineVars
<1> QED  BY Zenon, <1>1, <1>2, <1>3, <1>4 DEF IInv

\* A call puts its request into the inbox, where it was not.
LEMMA ClientSendKeeps == ASSUME IInv, NEW r \in Requests, ClientSend(r) PROVE IInv'
<1>1. /\ inbox' \in Seq(Requests \cup {Peer}) /\ Range(inbox') = Range(inbox) \cup {r}
      /\ Once(inbox')
  <2>1. inbox' = Append(inbox, r) /\ r \notin Range(inbox) /\ r \in Requests \cup {Peer}
    BY Zenon DEF ClientSend, IInv, PlaceInv
  <2>2. inbox \in Seq(Requests \cup {Peer}) /\ Once(inbox)
    BY Zenon DEF IInv, ShapeInv, PlaceInv
  <2> QED  BY <2>1, <2>2, AppendSet, AppendOnce
<1>2. ShapeInv'
  BY Zenon, <1>1 DEF IInv, ShapeInv, ClientSend, Statuses
<1>3. PlaceInv'
  BY <1>1 DEF IInv, ShapeInv, PlaceInv, ClientSend, Channels
<1>4. MapInv'
  BY Zenon, <1>1, MapUntouched DEF IInv, ShapeInv, ClientSend
<1>5. LogInv' /\ AnswerInv'
  BY Zenon, LogUntouched DEF ClientSend, engineVars
<1> QED  BY Zenon, <1>2, <1>3, <1>4, <1>5 DEF IInv

\* A timeout ends the attempt and leaves the request where it is.
LEMMA GiveUpKeeps == ASSUME IInv, NEW r \in Requests, GiveUp(r) PROVE IInv'
<1>1. ShapeInv'
  BY Zenon DEF IInv, ShapeInv, GiveUp, Statuses
<1>2. PlaceInv'
  BY DEF IInv, ShapeInv, PlaceInv, GiveUp, Once, Channels, Refusals
<1>3. MapInv'
  BY Zenon, MapUntouched DEF IInv, ShapeInv, GiveUp
<1>4. LogInv' /\ AnswerInv'
  BY Zenon, LogUntouched DEF IInv, ShapeInv, GiveUp, engineVars
<1> QED  BY Zenon, <1>1, <1>2, <1>3, <1>4 DEF IInv

\* A peer's message says nothing of any attempt.
LEMMA PeerSendKeeps == ASSUME IInv, PeerSend PROVE IInv'
<1>1. /\ inbox' \in Seq(Requests \cup {Peer}) /\ Range(inbox') = Range(inbox) \cup {Peer}
      /\ Once(inbox')
  <2>1. inbox' = Append(inbox, Peer) /\ Peer \in Requests \cup {Peer}
    BY Zenon DEF PeerSend
  <2>2. inbox \in Seq(Requests \cup {Peer}) /\ Once(inbox)
    BY Zenon DEF IInv, ShapeInv, PlaceInv
  <2> QED  BY <2>1, <2>2, AppendSet, AppendOnce
<1>2. ShapeInv'
  BY Zenon, <1>1 DEF IInv, ShapeInv, PeerSend
<1>3. PlaceInv'
  BY <1>1, AdmissionAssumption DEF IInv, PlaceInv, PeerSend, Channels
<1>4. MapInv'
  BY Zenon, <1>1, MapUntouched DEF IInv, ShapeInv, PeerSend
<1>5. LogInv' /\ AnswerInv'
  BY Zenon, LogUntouched DEF PeerSend, engineVars
<1> QED  BY Zenon, <1>2, <1>3, <1>4, <1>5 DEF IInv

-----------------------------------------------------------------------------
\* The owner takes the head of the inbox.
LEMMA TakeHead ==
  ASSUME IInv, inbox # <<>>, Head(inbox) # Peer, inbox' = Tail(inbox)
  PROVE  /\ inbox' \in Seq(Requests \cup {Peer}) /\ Once(inbox') /\ Range(inbox') \subseteq Range(inbox)
         /\ Head(inbox) \in Requests /\ Head(inbox) \in Range(inbox) /\ Head(inbox) \notin Range(inbox')
         /\ Head(inbox) \notin Range(commands) \cup proposed \cup Channels(pending)
         /\ \A r \in Requests : r # Head(inbox) /\ r \notin Range(inbox') => r \notin Range(inbox)
<1>1. inbox \in Seq(Requests \cup {Peer}) /\ Once(inbox)
  BY Zenon DEF IInv, ShapeInv, PlaceInv
<1>2. /\ inbox' \in Seq(Requests \cup {Peer}) /\ Once(inbox') /\ Range(inbox') \subseteq Range(inbox)
      /\ Head(inbox) \in Requests /\ Head(inbox) \notin Range(inbox') /\ Head(inbox) \in Range(inbox)
  BY <1>1, TailOnce
<1>3. Head(inbox) \notin Range(commands) \cup proposed \cup Channels(pending)
  BY Zenon, <1>2 DEF IInv, PlaceInv
<1>4. Range(inbox) \subseteq Range(inbox') \cup {Head(inbox)}
  BY Zenon, <1>1, TailSet
<1> QED  BY Zenon, <1>2, <1>3, <1>4

\* It refuses the request or reports a conflict: the attempt is over and its
\* request is nowhere.
LEMMA AnswerHeadKeeps ==
  ASSUME IInv, inbox # <<>>, Head(inbox) # Peer, inbox' = Tail(inbox),
         NEW answer, answer.status # "applied", Send({Head(inbox)}, answer),
         UNCHANGED <<carries, commands, pending, pendingCount, engineVars, applied, proposed>>
  PROVE  IInv'
<1> DEFINE h == Head(inbox)
<1>1. /\ inbox' \in Seq(Requests \cup {Peer}) /\ Once(inbox') /\ Range(inbox') \subseteq Range(inbox)
      /\ h \in Requests /\ h \notin Range(inbox')
      /\ h \notin Range(commands) \cup proposed \cup Channels(pending)
      /\ \A r \in Requests : r # h /\ r \notin Range(inbox') => r \notin Range(inbox)
  BY Zenon, TakeHead
<1>2. /\ client' \in [Requests -> Statuses]
      /\ reply' = [r \in Requests |-> reply'[r]]
      /\ \A r \in Requests : client'[r] = "idle" <=> client[r] = "idle"
      /\ \A r \in Requests : client[r] = "done" => client'[r] = "done"
      /\ \A r \in Requests : reply'[r] = reply[r] \/ (r \in {h} /\ reply'[r] = answer /\ client'[r] = "done")
  BY Zenon, SendFacts DEF IInv
<1>3. client'[h] # "waiting" /\ \A r \in Requests : client'[r] = "waiting" => client[r] = "waiting"
  BY Zenon, <1>1 DEF Send
<1> HIDE DEF h
<1>4. ShapeInv'
  BY Zenon, <1>1, <1>2 DEF IInv, ShapeInv
<1>5. PlaceInv'
  BY <1>1, <1>2 DEF IInv, PlaceInv, Channels
<1>6. MapInv'
  BY Zenon, <1>1, <1>3, MapUntouched
<1>7. LogInv' /\ AnswerInv'
  BY Zenon, <1>2, LogUntouched DEF engineVars
<1> QED  BY Zenon, <1>4, <1>5, <1>6, <1>7 DEF IInv

\* It admits the request: the map has one channel more, under the identity the
\* request carries, and the request is collected.
LEMMA AdmitKeeps ==
  ASSUME IInv, inbox # <<>>, Head(inbox) # Peer, inbox' = Tail(inbox), Free, Admit(Head(inbox)),
         UNCHANGED <<carries, engineVars, applied, proposed>>
  PROVE  IInv'
<1> DEFINE h == Head(inbox)
           c == carries[h]
<1>1. /\ inbox' \in Seq(Requests \cup {Peer}) /\ Once(inbox') /\ Range(inbox') \subseteq Range(inbox)
      /\ h \in Requests /\ h \in Range(inbox) /\ h \notin Range(inbox')
      /\ h \notin Range(commands) \cup proposed \cup Channels(pending)
      /\ \A r \in Requests : r # h /\ r \notin Range(inbox') => r \notin Range(inbox)
  BY Zenon, TakeHead
<1>2. commands' \in Seq(Requests) /\ Range(commands') = Range(commands) \cup {h}
  BY <1>1, AppendSet DEF IInv, ShapeInv, Admit
<1>3. /\ DOMAIN pending' = DOMAIN pending \cup {c.id}
      /\ \A i \in DOMAIN pending \ {c.id} : pending'[i] = pending[i]
      /\ pending'[c.id] = [body |-> c.body, replies |-> Replies(c.id) \cup {h}]
      /\ c.id \in DOMAIN pending => pending[c.id].body = c.body
      /\ UNCHANGED <<client, reply>> /\ pendingCount' = pendingCount + 1
  BY ZenonT(30) DEF Admit
<1>4. /\ pending'[c.id].replies = Replies(c.id) \cup {h} /\ pending'[c.id].body = c.body
      /\ c.id \in DOMAIN pending => Replies(c.id) = pending[c.id].replies
      /\ c.id \notin DOMAIN pending => Replies(c.id) = {}
  BY <1>3 DEF Replies
<1> HIDE DEF c, h
<1>5. Channels(pending') = Channels(pending) \cup {h}
  BY <1>3, <1>4 DEF Channels
<1>6. ShapeInv'
  BY Zenon, <1>1, <1>2, <1>3 DEF IInv, ShapeInv
<1>7. PlaceInv'
  BY Zenon, <1>1, <1>2, <1>3, <1>5 DEF IInv, PlaceInv
<1>8. PendingInv'
  BY <1>1, <1>3, <1>4 DEF IInv, MapInv, PendingInv, c
<1>9. CountInv'
  <2>1. IsFiniteSet(Channels(pending)) /\ h \notin Channels(pending)
    BY Zenon, <1>1 DEF IInv, MapInv, CountInv
  <2>2. /\ IsFiniteSet(Channels(pending'))
        /\ Cardinality(Channels(pending')) = Cardinality(Channels(pending)) + 1
        /\ Cardinality(Channels(pending)) \in Nat
    <3> DEFINE C == Channels(pending)
    <3>1. Channels(pending') = C \cup {h} /\ IsFiniteSet(C) /\ h \notin C
      BY Zenon, <1>5, <2>1
    <3> HIDE DEF C
    <3>2. /\ IsFiniteSet(C \cup {h})
          /\ Cardinality(C \cup {h}) = IF h \in C THEN Cardinality(C) ELSE Cardinality(C) + 1
      BY Zenon, <3>1, FS_AddElement
    <3>3. Cardinality(C) \in Nat
      BY ZenonT(30), <3>1, FS_CardinalityType
    <3> QED  BY Zenon, <3>1, <3>2, <3>3 DEF C
  <2> QED  BY <1>3, <2>2, AdmissionAssumption DEF IInv, MapInv, CountInv, ReplyCount, Free, Room
<1>10. HeldInv'
  BY SMTT(30), <1>1, <1>3, <1>4 DEF IInv, MapInv, HeldInv, c
<1>11. LogInv' /\ AnswerInv'
  BY Zenon, <1>3, LogUntouched DEF engineVars
<1> QED  BY Zenon, <1>6, <1>7, <1>8, <1>9, <1>10, <1>11 DEF IInv, MapInv

\* The owner takes a client input.
LEMMA TakeClientKeeps == ASSUME IInv, TakeClient PROVE IInv'
<1>1. /\ inbox # <<>> /\ Head(inbox) # Peer /\ inbox' = Tail(inbox)
      /\ UNCHANGED <<carries, engineVars, applied, proposed>>
  BY Zenon DEF TakeClient
<1>2. CASE Free /\ Admit(Head(inbox))
  BY Zenon, <1>1, <1>2, AdmitKeeps
<1>3. CASE NotLeader(Head(inbox))
  BY Zenon, <1>1, <1>3, AnswerHeadKeeps DEF NotLeader
<1>4. CASE Overloaded(Head(inbox))
  BY Zenon, <1>1, <1>4, AnswerHeadKeeps DEF Overloaded
<1>5. CASE Conflict(Head(inbox))
  BY Zenon, <1>1, <1>5, AnswerHeadKeeps DEF Conflict
<1> QED  BY Zenon, <1>2, <1>3, <1>4, <1>5 DEF TakeClient

-----------------------------------------------------------------------------
\* The collected commands become entries; what is in the log stays.
LEMMA ProposeKeeps == ASSUME IInv, Propose PROVE IInv'
<1> DEFINE new == [i \in 1..Len(commands) |-> [cmd |-> carries[commands[i]], by |-> commands[i]]]
<1>1. new \in Seq(Entries)
  <2>1. \A i \in 1..Len(commands) : commands[i] \in Requests
    BY DEF IInv, ShapeInv
  <2>2. \A i \in 1..Len(commands) : new[i] \in Entries
    BY Zenon, <2>1 DEF Entries, Commands
  <2>3. Len(commands) \in Nat
    BY DEF IInv, ShapeInv
  <2> QED  BY <2>2, <2>3, IsASeq
<1>2. /\ log' = log \o new /\ proposed' = proposed \cup Range(commands) /\ commands' = <<>>
      /\ UNCHANGED <<carries, client, reply, inbox, pending, pendingCount, leader, committed, applied>>
  BY Zenon DEF Propose
<1> HIDE DEF new
<1>3. Range(commands') = {} /\ commands' \in Seq(Requests)
  BY <1>2 DEF Range
<1>4. ShapeInv'
  BY Zenon, <1>2, <1>3 DEF IInv, ShapeInv
<1>5. PlaceInv'
  BY <1>2, <1>3 DEF IInv, PlaceInv, Once, Channels
<1>6. MapInv'
  BY Zenon, <1>2, MapUntouched
<1>7. /\ log' \in Seq(Entries) /\ Len(log') = Len(log) + Len(new) /\ Len(new) \in Nat /\ Len(log) \in Nat
      /\ \A k \in 1..Len(log) : log'[k] = log[k]
  <2>1. log \in Seq(Entries)
    BY Zenon DEF IInv, LogInv
  <2> QED  BY <1>1, <1>2, <2>1, ConcatProperties, LenProperties
<1>8. LogInv'
  BY <1>2, <1>7 DEF IInv, LogInv, Entries, Commands
<1>9. AnswerInv'
  BY <1>2, <1>7, AnswersKept DEF IInv, LogInv
<1> QED  BY ZenonT(30), <1>4, <1>5, <1>6, <1>8, <1>9 DEF IInv

\* A peer's message leaves the inbox.
LEMMA DropPeer ==
  ASSUME IInv, inbox' \in Seq(Requests \cup {Peer}), Once(inbox'), Range(inbox') \subseteq Range(inbox),
         Range(inbox) \subseteq Range(inbox') \cup {Peer},
         UNCHANGED <<carries, client, reply, commands, pending, pendingCount, proposed>>
  PROVE  ShapeInv' /\ PlaceInv' /\ MapInv'
<1>1. ShapeInv'
  BY Zenon DEF IInv, ShapeInv
<1>2. PlaceInv'
  BY DEF IInv, PlaceInv, Channels
<1>3. MapInv'
  BY Zenon, MapUntouched, AdmissionAssumption
<1> QED  BY Zenon, <1>1, <1>2, <1>3

\* Consensus changes only entries beyond the commit index.
LEMMA EngineKeeps ==
  ASSUME IInv, UNCHANGED <<carries, reply, applied>>, Commit \/ Lead \/ Follow
  PROVE  LogInv' /\ AnswerInv'
<1>1. /\ log \in Seq(Entries) /\ Len(log) \in Nat /\ applied \in Nat /\ committed \in Nat
      /\ applied <= committed /\ committed <= Len(log)
  BY DEF IInv, LogInv
<1>2. /\ log' \in Seq(Entries) /\ committed' \in Nat /\ committed <= committed' /\ committed' <= Len(log')
      /\ \A k \in 1..committed : log'[k] = log[k]
  <2>1. CASE Commit
    BY <1>1, <2>1 DEF Commit
  <2>2. CASE Lead
    BY <1>1, <2>2 DEF Lead
  <2>3. CASE Follow
    <3>1. PICK k \in committed..Len(log) :
            \/ log' = SubSeq(log, 1, k)
            \/ \E c \in Commands : log' = Append(SubSeq(log, 1, k), [cmd |-> c, by |-> Other])
      BY Zenon, <2>3 DEF Follow
    <3> DEFINE t == SubSeq(log, 1, k)
    <3>2. t \in Seq(Entries) /\ Len(t) = k /\ \A n \in 1..k : t[n] = log[n]
      BY <1>1
    <3> HIDE DEF t
    <3>3. \A c \in Commands : [cmd |-> c, by |-> Other] \in Entries
      BY Zenon DEF Entries
    <3>4. CASE log' = t
      BY <1>1, <2>3, <3>2, <3>4 DEF Follow
    <3>5. CASE \E c \in Commands : log' = Append(t, [cmd |-> c, by |-> Other])
      <4>1. PICK e \in Entries : log' = Append(t, e)
        BY Zenon, <3>3, <3>5
      <4>2. log' \in Seq(Entries) /\ Len(log') = k + 1 /\ \A n \in 1..k : log'[n] = log[n]
        BY <1>1, <3>2, <4>1
      <4> QED  BY <1>1, <2>3, <4>2 DEF Follow
    <3> QED  BY Zenon, <3>1, <3>4, <3>5 DEF t
  <2> QED  BY Zenon, <2>1, <2>2, <2>3
<1>3. LogInv'
  BY <1>1, <1>2 DEF LogInv, Entries, Commands
<1>4. \A k \in 1..applied : k \in 1..committed
  BY <1>1
<1>5. AnswerInv'
  BY <1>1, <1>2, <1>4, AnswersKept DEF IInv
<1> QED  BY Zenon, <1>3, <1>5

\* A peer's message is stepped at its turn.
LEMMA TakePeerKeeps == ASSUME IInv, TakePeer PROVE IInv'
<1>1. inbox # <<>> /\ Head(inbox) = Peer /\ inbox' = Tail(inbox)
  BY Zenon DEF TakePeer
<1>2. inbox \in Seq(Requests \cup {Peer}) /\ Once(inbox)
  BY Zenon DEF IInv, ShapeInv, PlaceInv
<1>3. /\ inbox' \in Seq(Requests \cup {Peer}) /\ Once(inbox') /\ Range(inbox') \subseteq Range(inbox)
      /\ Range(inbox) \subseteq Range(inbox') \cup {Peer}
  BY Zenon, <1>1, <1>2, TailOnce, TailSet
<1>4. ShapeInv' /\ PlaceInv' /\ MapInv'
  BY Zenon, <1>3, DropPeer DEF TakePeer
<1>5. LogInv' /\ AnswerInv'
  BY Zenon, EngineKeeps DEF TakePeer
<1> QED  BY Zenon, <1>4, <1>5 DEF IInv

\* A peer's message is stepped before requests that wait.
LEMMA TakePeerFirstKeeps == ASSUME IInv, TakePeerFirst PROVE IInv'
<1>1. PICK i \in 1..Len(inbox) : inbox[i] = Peer /\ inbox' = Without(inbox, i)
  BY Zenon DEF TakePeerFirst
<1>2. inbox \in Seq(Requests \cup {Peer}) /\ Once(inbox)
  BY Zenon DEF IInv, ShapeInv, PlaceInv
<1>3. /\ inbox' \in Seq(Requests \cup {Peer}) /\ Once(inbox') /\ Range(inbox') \subseteq Range(inbox)
      /\ Range(inbox) \subseteq Range(inbox') \cup {Peer}
  BY Zenon, <1>1, <1>2, RemoveOnce
<1>4. ShapeInv' /\ PlaceInv' /\ MapInv'
  BY Zenon, <1>3, DropPeer DEF TakePeerFirst
<1>5. LogInv' /\ AnswerInv'
  BY Zenon, EngineKeeps DEF TakePeerFirst
<1> QED  BY Zenon, <1>4, <1>5 DEF IInv

-----------------------------------------------------------------------------
\* A snapshot replaces the log beyond the commit index, ends every pending
\* attempt and empties the map.
LEMMA TakeSnapshotKeeps == ASSUME IInv, TakeSnapshot PROVE IInv'
<1>1. inbox # <<>> /\ Head(inbox) = Peer /\ inbox' = Tail(inbox)
  BY Zenon DEF TakeSnapshot
<1>2. inbox \in Seq(Requests \cup {Peer}) /\ Once(inbox)
  BY Zenon DEF IInv, ShapeInv, PlaceInv
<1>3. /\ inbox' \in Seq(Requests \cup {Peer}) /\ Once(inbox') /\ Range(inbox') \subseteq Range(inbox)
      /\ Range(inbox) \subseteq Range(inbox') \cup {Peer}
  BY Zenon, <1>1, <1>2, TailOnce, TailSet
<1>4. /\ client' \in [Requests -> Statuses]
      /\ reply' = [r \in Requests |-> reply'[r]]
      /\ \A r \in Requests : client'[r] = "idle" <=> client[r] = "idle"
      /\ \A r \in Requests : client[r] = "done" => client'[r] = "done"
      /\ \A r \in Requests : reply'[r] = reply[r] \/ (reply'[r].status = "unknown" /\ client'[r] = "done")
  BY SendFacts DEF IInv, TakeSnapshot, AbandonPending
<1>5. /\ pending' = <<>> /\ pendingCount' = 0 /\ Channels(pending') = {}
      /\ UNCHANGED <<carries, commands, proposed>>
  BY DEF TakeSnapshot, AbandonPending, Channels
<1>6. ShapeInv'
  BY Zenon, <1>3, <1>4, <1>5 DEF IInv, ShapeInv
<1>7. PlaceInv'
  BY Zenon, <1>3, <1>4, <1>5 DEF IInv, PlaceInv, Refusals
<1>8. MapInv'
  <2>1. \A r \in Requests : client'[r] = "waiting" => client[r] = "waiting" /\ r \notin Channels(pending)
    BY Zenon DEF TakeSnapshot, AbandonPending, Send
  <2>2. \A r \in Requests : client[r] = "waiting" /\ r \notin Range(inbox) => r \in Channels(pending)
    BY Zenon DEF IInv, MapInv, HeldInv, Channels
  <2>3. HeldInv'
    BY Zenon, <1>3, <2>1, <2>2, AdmissionAssumption DEF HeldInv
  <2>4. CountInv' /\ PendingInv'
    BY <1>5, FS_EmptySet, AdmissionAssumption DEF CountInv, PendingInv, ReplyCount
  <2> QED  BY Zenon, <2>3, <2>4 DEF MapInv
<1>9. /\ log \in Seq(Entries) /\ Len(log) \in Nat /\ applied \in Nat /\ committed \in Nat
      /\ applied <= committed /\ committed <= Len(log)
  BY DEF IInv, LogInv
<1>10. /\ log' \in Seq(Entries) /\ Len(log') = committed + 1
       /\ \A n \in 1..committed : log'[n] = log[n]
  <2> DEFINE t == SubSeq(log, 1, committed)
  <2>1. t \in Seq(Entries) /\ Len(t) = committed /\ \A n \in 1..committed : t[n] = log[n]
    BY <1>9
  <2>2. PICK e \in Entries : log' = Append(t, e)
    BY Zenon DEF TakeSnapshot, Entries
  <2> HIDE DEF t
  <2> QED  BY <1>9, <2>1, <2>2
<1>11. committed' = committed + 1 /\ applied' = committed + 1
  BY Zenon, <1>10 DEF TakeSnapshot
<1>12. LogInv'
  BY <1>5, <1>9, <1>10, <1>11 DEF LogInv, Entries, Commands
<1>13. AnswerInv'
  <2>1. \A k \in 1..applied : log'[k] = log[k]
    BY <1>9, <1>10
  <2>2. applied' \in Nat /\ applied <= applied'
    BY <1>9, <1>11
  <2> QED  BY Zenon, <1>4, <1>5, <2>1, <2>2, AnswersKept DEF IInv
<1> QED  BY Zenon, <1>6, <1>7, <1>8, <1>12, <1>13 DEF IInv

\* The first entry with the identity of entry n.
LEMMA FirstFacts ==
  ASSUME NEW n \in 1..Len(log)
  PROVE  /\ First(n) \in 1..n /\ log[First(n)].cmd.id = log[n].cmd.id
         /\ \A j \in 1..(First(n) - 1) : log[j].cmd.id # log[n].cmd.id
<1> DEFINE T == {k \in 1..n : log[k].cmd.id = log[n].cmd.id}
<1>1. n \in Nat \ {0} /\ T \subseteq Nat /\ T # {}
  OBVIOUS
<1>2. PICK k \in T : \A y \in T : k <= y
  BY Zenon, <1>1, Least
<1>3. k \in 1..n /\ log[k].cmd.id = log[n].cmd.id /\ \A j \in 1..(k - 1) : log[j].cmd.id # log[n].cmd.id
  BY <1>1, <1>2
<1>4. \E x \in 1..n : log[x].cmd.id = log[n].cmd.id /\ \A j \in 1..(x - 1) : log[j].cmd.id # log[n].cmd.id
  BY Zenon, <1>3
<1> QED  BY Zenon, <1>4 DEF First

\* An entry is resolved for the attempts that asked for exactly its command.
LEMMA ResolutionTrue ==
  ASSUME IInv, NEW n \in 1..Len(log), log[n].cmd.id \in DOMAIN pending,
         NEW r \in pending[log[n].cmd.id].replies, Resolution(n).status = "applied"
  PROVE  /\ Resolution(n).at \in 1..n /\ log[Resolution(n).at].cmd = carries[r]
         /\ \A k \in 1..(Resolution(n).at - 1) : log[k].cmd.id # carries[r].id
<1> DEFINE id == log[n].cmd.id
<1>1. r \in Requests /\ carries[r].id = id /\ carries[r].body = pending[id].body
  BY Zenon DEF IInv, MapInv, PendingInv
<1>2. pending[id].body = log[n].cmd.body /\ Resolution(n) = Outcome(n)
  BY Zenon DEF Resolution
<1>3. log[First(n)].cmd = log[n].cmd /\ Resolution(n).at = First(n)
  BY <1>2 DEF Outcome
<1>4. \A q \in Requests : carries[q] = [id |-> carries[q].id, body |-> carries[q].body]
  BY Zenon DEF IInv, ShapeInv
<1>5. PICK q \in Requests : log[n].cmd = carries[q]
  <2>1. log[n] \in Entries
    BY DEF IInv, LogInv
  <2> QED  BY Zenon, <2>1 DEF Entries, Commands
<1>6. log[n].cmd = carries[r]
  BY Zenon, <1>1, <1>2, <1>4, <1>5
<1> QED  BY <1>1, <1>3, <1>6, FirstFacts

\* The attempts pending under the identity are answered and leave the map.
LEMMA ResolveKeeps == ASSUME IInv, Resolve PROVE IInv'
<1> DEFINE n == applied + 1
           id == log[n].cmd.id
<1>1. /\ log \in Seq(Entries) /\ Len(log) \in Nat /\ applied \in Nat /\ committed \in Nat
      /\ applied < committed /\ committed <= Len(log) /\ applied' = n
      /\ UNCHANGED <<carries, inbox, commands, leader, log, committed, proposed>>
  BY DEF IInv, LogInv, Resolve, engineVars
<1>2. n \in 1..Len(log) /\ n \in Nat /\ applied <= n /\ n <= committed
  BY <1>1
<1>3. LogInv'
  BY Zenon, <1>1, <1>2 DEF LogInv, Entries, Commands
<1>4. CASE id \notin DOMAIN pending
  <2>1. UNCHANGED <<client, reply, pending, pendingCount>>
    BY Zenon, <1>4 DEF Resolve
  <2>2. ShapeInv' /\ PlaceInv'
    BY <1>1, <2>1 DEF IInv, ShapeInv, PlaceInv, Once, Channels
  <2>3. MapInv'
    BY Zenon, <1>1, <2>1, MapUntouched
  <2>4. AnswerInv'
    BY Zenon, <1>1, <1>2, <2>1, AnswersKept DEF IInv
  <2> QED  BY Zenon, <1>3, <2>2, <2>3, <2>4 DEF IInv
<1>5. CASE id \in DOMAIN pending
  <2> DEFINE rs == pending[id].replies
             answer == Resolution(n)
  <2>1. Send(rs, answer) /\ pending' = Drop({id}) /\ pendingCount' = pendingCount - Cardinality(rs)
    BY Zenon, <1>5 DEF Resolve
  <2>2. answer.status \in {"applied", "conflict"}
    BY Zenon DEF Resolution, Outcome
  <2>3. /\ client' \in [Requests -> Statuses]
        /\ reply' = [r \in Requests |-> reply'[r]]
        /\ \A r \in Requests : client'[r] = "idle" <=> client[r] = "idle"
        /\ \A r \in Requests : client[r] = "done" => client'[r] = "done"
        /\ \A r \in Requests : reply'[r] = reply[r] \/ (r \in rs /\ reply'[r] = answer /\ client'[r] = "done")
    BY Zenon, <2>1, SendFacts DEF IInv
  <2>4. DOMAIN pending' = DOMAIN pending \ {id} /\ \A i \in DOMAIN pending \ {id} : pending'[i] = pending[i]
    BY Zenon, <2>1 DEF Drop
  <2>5. rs \subseteq Channels(pending) /\ Channels(pending') = Channels(pending) \ rs
    BY <1>5, <2>4 DEF Channels, IInv, MapInv, PendingInv
  <2>6. \A r \in rs : reply'[r] = answer /\ answer.status = "applied" =>
          /\ answer.at \in 1..n /\ log[answer.at].cmd = carries[r]
          /\ \A k \in 1..(answer.at - 1) : log[k].cmd.id # carries[r].id
    BY Zenon, <1>2, <1>5, ResolutionTrue
  <2>7. \A r \in Requests : client'[r] = "waiting" => client[r] = "waiting" /\ r \notin rs
    BY Zenon, <2>1 DEF Send
  <2> HIDE DEF n, id, rs, answer
  <2>8. ShapeInv'
    BY Zenon, <1>1, <2>3 DEF IInv, ShapeInv
  <2>9. PlaceInv'
    <3>1. answer.status \notin Refusals
      BY <2>2 DEF Refusals
    <3> QED  BY ZenonT(30), <1>1, <2>3, <2>5, <3>1 DEF IInv, PlaceInv, Once
  <2>10. PendingInv'
    BY ZenonT(30), <1>1, <2>4 DEF IInv, MapInv, PendingInv
  <2>11. CountInv'
    <3>1. IsFiniteSet(Channels(pending)) /\ Channels(pending) \cap rs = rs
      BY Zenon, <2>5 DEF IInv, MapInv, CountInv
    <3>2. /\ IsFiniteSet(Channels(pending')) /\ IsFiniteSet(rs)
          /\ Cardinality(Channels(pending')) = Cardinality(Channels(pending)) - Cardinality(rs)
      BY ZenonT(30), <2>5, <3>1, FS_Difference, FS_Subset
    <3>3. Cardinality(Channels(pending)) \in Nat /\ Cardinality(rs) \in Nat
      BY Zenon, <3>1, <3>2, FS_CardinalityType
    <3> QED  BY <2>1, <3>2, <3>3, AdmissionAssumption DEF IInv, MapInv, CountInv, ReplyCount
  <2>12. HeldInv'
    BY Zenon, <1>1, <2>4, <2>7 DEF IInv, MapInv, HeldInv, rs
  <2>13. AnswerInv'
    <3> SUFFICES ASSUME NEW r \in Requests, reply'[r].status = "applied"
                 PROVE  /\ reply'[r].at \in 1..applied'
                        /\ log'[reply'[r].at].cmd = carries'[r]
                        /\ \A k \in 1..(reply'[r].at - 1) : log'[k].cmd.id # carries'[r].id
      BY Zenon DEF AnswerInv
    <3>1. CASE reply'[r] = reply[r]
      BY SMTT(30), <1>1, <1>2, <3>1 DEF IInv, AnswerInv
    <3>2. CASE r \in rs /\ reply'[r] = answer
      BY Zenon, <1>1, <2>6, <3>2
    <3> QED  BY Zenon, <2>3, <3>1, <3>2
  <2> QED  BY Zenon, <1>3, <2>8, <2>9, <2>10, <2>11, <2>12, <2>13 DEF IInv, MapInv
<1> QED  BY Zenon, <1>4, <1>5

\* The tick keeps the channels of those who wait.
LEMMA TickKeepsInv == ASSUME IInv, Tick PROVE IInv'
<1>1. /\ UNCHANGED <<carries, client, reply, inbox, commands, log, committed, applied, proposed>>
      /\ pendingCount' = ReplyCount(pending')
  BY Zenon DEF Tick
<1>2. /\ DOMAIN pending' \subseteq DOMAIN pending
      /\ \A i \in DOMAIN pending' : /\ pending'[i].body = pending[i].body
                                    /\ pending'[i].replies = {r \in pending[i].replies : client[r] = "waiting"}
      /\ \A i \in DOMAIN pending : \A r \in pending[i].replies : client[r] = "waiting" => i \in DOMAIN pending'
  BY Zenon DEF Tick, Open
<1>3. Channels(pending') \subseteq Channels(pending)
  BY <1>2 DEF Channels
<1>4. ShapeInv'
  BY Zenon, <1>1 DEF IInv, ShapeInv
<1>5. PlaceInv'
  BY Zenon, <1>1, <1>3 DEF IInv, PlaceInv, Once
<1>6. PendingInv'
  BY <1>1, <1>2 DEF IInv, MapInv, PendingInv
<1>7. CountInv'
  <2>1. IsFiniteSet(Channels(pending)) /\ Cardinality(Channels(pending)) <= Capacity
    BY Zenon DEF IInv, MapInv, CountInv, ReplyCount
  <2>2. /\ IsFiniteSet(Channels(pending')) /\ Cardinality(Channels(pending')) <= Cardinality(Channels(pending))
        /\ Cardinality(Channels(pending)) \in Nat /\ Cardinality(Channels(pending')) \in Nat
    BY Zenon, <1>3, <2>1, FS_Subset, FS_CardinalityType
  <2> QED  BY <1>1, <2>1, <2>2, AdmissionAssumption DEF CountInv, ReplyCount
<1>8. HeldInv'
  BY Zenon, <1>1, <1>2 DEF IInv, MapInv, HeldInv
<1>9. LogInv' /\ AnswerInv'
  BY Zenon, <1>1, LogUntouched
<1> QED  BY Zenon, <1>4, <1>5, <1>6, <1>7, <1>8, <1>9 DEF IInv, MapInv

-----------------------------------------------------------------------------
\* Every step of clients, peers and the owner keeps the invariant.
LEMMA NextIInv == IInv /\ [Next]_vars => IInv'
<1> SUFFICES ASSUME IInv, [Next]_vars PROVE IInv'
  BY Zenon
<1>1. CASE \E r \in Requests : ClientRefused(r) \/ ClientSend(r) \/ GiveUp(r)
  BY Zenon, <1>1, ClientRefusedKeeps, ClientSendKeeps, GiveUpKeeps
<1>2. CASE PeerSend
  BY Zenon, <1>2, PeerSendKeeps
<1>3. CASE OwnerStep
  BY Zenon, <1>3, TakeClientKeeps, ProposeKeeps, TakePeerKeeps, TakePeerFirstKeeps, TakeSnapshotKeeps,
     ResolveKeeps, TickKeepsInv DEF OwnerStep
<1>4. CASE UNCHANGED vars
  <2>1. UNCHANGED <<carries, client, reply, inbox, commands, pending, pendingCount, log, committed, applied,
                    proposed>>
    BY Zenon, <1>4 DEF vars
  <2>2. ShapeInv' /\ PlaceInv'
    BY <2>1 DEF IInv, ShapeInv, PlaceInv, Once, Channels
  <2>3. MapInv' /\ LogInv' /\ AnswerInv'
    BY Zenon, <2>1, MapUntouched, LogUntouched
  <2> QED  BY Zenon, <2>2, <2>3 DEF IInv
<1> QED  BY Zenon, <1>1, <1>2, <1>3, <1>4 DEF Next

\* So it always holds.
LEMMA Inductive == Spec => []IInv
BY InitIInv, NextIInv, PTL DEF Spec

\* A request that was answered overloaded or not_leader has not been handed to
\* the engine and never will be (RefusedNeverProposed): Actor::client and
\* State::client refuse before they queue or collect anything.
THEOREM RefusalsFinal == Spec => []RefusedNeverProposed
<1>1. IInv => RefusedNeverProposed
  BY Zenon DEF IInv, PlaceInv, Refusals, RefusedNeverProposed
<1> QED  BY <1>1, Inductive, PTL

\* Success is reported only for the first entry with the client's identity, it
\* is in the applied log and has exactly the client's content (AppliedTruthful):
\* resolve_applies compares the submitted with the applied command.
THEOREM SuccessTrue == Spec => []AppliedTruthful
<1>1. IInv => AppliedTruthful
  <2> SUFFICES ASSUME LogInv, AnswerInv PROVE AppliedTruthful
    BY Zenon DEF IInv
  <2>1. \A k \in 1..applied : k <= applied
    BY DEF LogInv
  <2> QED  BY Zenon, <2>1 DEF AnswerInv, AppliedTruthful
<1> QED  BY <1>1, Inductive, PTL

\* pending_count is the number of reply channels in the map, never above the
\* capacity, and every waiting attempt is in the inbox or has its channel in
\* the map under its own command (PendingExact).
THEOREM PendingAccounting == Spec => []PendingExact
<1>1. IInv => PendingExact
  BY DEF IInv, MapInv, PendingInv, CountInv, HeldInv, PendingExact, Waiting
<1> QED  BY <1>1, Inductive, PTL

=============================================================================
