--------------------------- MODULE MailboxProofs ----------------------------
(***************************************************************************)
(* The owner loses no input and keeps the order of arrival, for any batch  *)
(* sizes, any number of inputs and any interleaving of senders and owner.  *)
(*                                                                         *)
(* The invariant is about sets.  OrderInv says which inputs are older than *)
(* which, wherever they are in a turn; CoverInv that an input is always    *)
(* somewhere; TurnInv what a turn has collected at each of its points and  *)
(* which half of a combined step is the older one.  Each action moves      *)
(* inputs in one of six ways, and the order is proved kept way by way.     *)
(*                                                                         *)
(* What an acknowledgement overtook is counted for every input the engine  *)
(* ever saw.  Passed counts the commands of the turn too: they are served, *)
(* and become late only when they are stepped.  With them, the set of one  *)
(* input never grows, and a step adds at most two batches.                 *)
(***************************************************************************)
EXTENDS Mailbox, SequenceTheorems, FiniteSetTheorems, TLAPS

Below(A, B) == \A x \in A, y \in B : x < y
Points == {"idle", "peers", "collected", "clients", "joining", "step", "combine", "scan",
           "overtaking", "overtaken"}

ShapeInv ==
  /\ mode \in {"plain", "combine", "priority"} /\ pc \in Points
  /\ arrived \in Nat /\ kind \in Seq(Kinds) /\ Len(kind) = arrived
  /\ deferred \in Seq(Nat) /\ channel \in Seq(Nat) /\ bypassed \in Seq(Nat)
  /\ peers \in Seq(Nat) /\ commands \in Seq(Nat)
  /\ stepped \in Seq(Nat) /\ served \in Seq(Nat)

\* Inputs are known by the number of their arrival, and are where their kind goes.
PlaceInv ==
  /\ Range(Ready) \subseteq 1..arrived
  /\ \A i \in Range(bypassed) : i \in 1..arrived /\ kind[i] = "execute"
  /\ \A i \in Range(peers) : i \in 1..arrived /\ IsPeer(i)
  /\ \A i \in Range(served) : i \in 1..arrived /\ kind[i] \in Clients
  /\ Range(commands) \subseteq Range(served)
  /\ \A i \in Range(stepped) : i \in 1..arrived /\ (IsPeer(i) \/ i \in Range(served))

OrderInv ==
  /\ Ascending(Ready) /\ Ascending(bypassed) /\ Ascending(peers)
  /\ Ascending(commands) /\ Ascending(served)
  /\ Below(Range(bypassed), Range(Ready))
  /\ Below(Range(peers), Range(Ready))
  /\ Below(Range(served), Range(Ready)) /\ Below(Range(served), Range(bypassed))
  /\ \A x \in Range(stepped) : ~IsPeer(x) => \A y \in Range(commands) : x < y
  /\ \A x \in Range(stepped) : IsPeer(x) =>
       /\ \A y \in Range(Ready) : IsPeer(y) => x < y
       /\ \A y \in Range(peers) : x < y
  /\ ~Priority =>
       /\ Below(Range(stepped), Range(Ready)) /\ Below(Range(stepped), Range(peers))
       /\ Below(Range(stepped), Range(commands))
  /\ \A m, n \in 1..Len(stepped) :
       m < n /\ (Priority => (IsPeer(stepped[m]) <=> IsPeer(stepped[n]))) => stepped[m] < stepped[n]

CoverInv ==
  \A i \in 1..arrived : kind[i] # "wake" =>
    \/ i \in Range(Ready) \/ i \in Range(bypassed) \/ i \in Range(peers) \/ i \in Range(served)
    \/ i \in Range(stepped) /\ IsPeer(i)

TurnInv ==
  /\ pc \in {"idle", "peers", "collected"} => commands = <<>>
  /\ pc \in {"idle", "clients", "combine", "scan"} => peers = <<>>
  /\ bypassed # <<>> => Priority /\ pc \in {"scan", "overtaking", "overtaken"}
  /\ pc = "scan" => Priority
  /\ pc = "combine" => Combine
  /\ pc \in {"overtaking", "overtaken"} => Combine \/ Priority
  /\ pc \in {"joining", "step"} => Below(Range(peers), Range(commands))
  /\ pc \in {"overtaking", "overtaken"} => Below(Range(commands), Range(peers))

BaseInv == ShapeInv /\ PlaceInv /\ OrderInv /\ CoverInv
IInv == BaseInv /\ TurnInv

-----------------------------------------------------------------------------
\* Facts about sequences of numbers.

\* An ascending sequence is its oldest element and the rest.
LEMMA HeadTail ==
  ASSUME NEW s \in Seq(Nat), s # <<>>
  PROVE  /\ Head(s) \in Nat /\ Tail(s) \in Seq(Nat)
         /\ Range(s) = Range(Tail(s)) \cup {Head(s)}
         /\ Ascending(s) => Ascending(Tail(s)) /\ \A y \in Range(Tail(s)) : Head(s) < y
<1>1. /\ Tail(s) \in Seq(Nat) /\ Len(s) \in Nat \ {0} /\ Len(Tail(s)) = Len(s) - 1
      /\ \A i \in 1..(Len(s) - 1) : Tail(s)[i] = s[i + 1]
      /\ Head(s) = s[1] /\ s[1] \in Nat
      /\ DOMAIN s = 1..Len(s) /\ DOMAIN Tail(s) = 1..(Len(s) - 1)
  OBVIOUS
<1>2. Range(Tail(s)) \subseteq Range(s) /\ Head(s) \in Range(s)
  BY <1>1 DEF Range
<1>3. ASSUME NEW i \in 1..Len(s), i # 1 PROVE s[i] \in Range(Tail(s))
  <2>1. i - 1 \in 1..(Len(s) - 1) /\ Tail(s)[i - 1] = s[(i - 1) + 1] /\ (i - 1) + 1 = i
    BY <1>1, <1>3
  <2> QED  BY Zenon, <1>1, <2>1 DEF Range
<1>4. Range(s) = Range(Tail(s)) \cup {Head(s)}
  BY ZenonT(30), <1>1, <1>2, <1>3 DEF Range
<1>5. ASSUME Ascending(s) PROVE Ascending(Tail(s)) /\ \A y \in Range(Tail(s)) : Head(s) < y
  <2>1. /\ \A i \in 1..(Len(s) - 1) : i + 1 \in 1..Len(s) /\ 1 < i + 1
        /\ \A i, j \in 1..(Len(s) - 1) : i < j => i + 1 < j + 1
        /\ 1 \in 1..Len(s)
    BY <1>1
  <2>2. Ascending(Tail(s))
    BY Zenon, <1>1, <1>5, <2>1 DEF Ascending
  <2>3. \A i \in 1..(Len(s) - 1) : Head(s) < Tail(s)[i]
    BY Zenon, <1>1, <1>5, <2>1 DEF Ascending
  <2> QED  BY Zenon, <1>1, <2>2, <2>3 DEF Range
<1> QED  BY Zenon, <1>1, <1>4, <1>5

\* Two ascending sequences, the first below the second.
LEMMA Concat ==
  ASSUME NEW s \in Seq(Nat), NEW t \in Seq(Nat)
  PROVE  /\ s \o t \in Seq(Nat)
         /\ Range(s \o t) = Range(s) \cup Range(t)
         /\ Ascending(s) /\ Ascending(t) /\ Below(Range(s), Range(t)) => Ascending(s \o t)
<1>1. /\ s \o t \in Seq(Nat) /\ Len(s \o t) = Len(s) + Len(t) /\ Len(s) \in Nat /\ Len(t) \in Nat
      /\ \A i \in 1..Len(s) : (s \o t)[i] = s[i]
      /\ \A i \in 1..(Len(s) + Len(t)) : i > Len(s) => (s \o t)[i] = t[i - Len(s)]
      /\ DOMAIN s = 1..Len(s) /\ DOMAIN t = 1..Len(t) /\ DOMAIN (s \o t) = 1..(Len(s) + Len(t))
  BY ConcatProperties, LenProperties
<1>2. \A i \in 1..Len(t) : (s \o t)[Len(s) + i] = t[i] /\ Len(s) + i \in 1..(Len(s) + Len(t))
  BY <1>1
<1>3. Range(s \o t) = Range(s) \cup Range(t)
  <2>1. Range(s) \subseteq Range(s \o t) /\ Range(t) \subseteq Range(s \o t)
    <3>0. \A k \in 1..(Len(s) + Len(t)) : (s \o t)[k] \in Range(s \o t)
      BY Zenon, <1>1 DEF Range
    <3>1. ASSUME NEW i \in 1..Len(s) PROVE s[i] \in Range(s \o t)
      <4>1. i \in 1..(Len(s) + Len(t)) /\ s[i] = (s \o t)[i]
        BY <1>1
      <4> QED  BY Zenon, <3>0, <4>1
    <3>2. ASSUME NEW i \in 1..Len(t) PROVE t[i] \in Range(s \o t)
      <4>1. Len(s) + i \in 1..(Len(s) + Len(t)) /\ t[i] = (s \o t)[Len(s) + i]
        BY Zenon, <1>2
      <4> QED  BY Zenon, <3>0, <4>1
    <3> QED  BY Zenon, <1>1, <3>1, <3>2 DEF Range
  <2>2. Range(s \o t) \subseteq Range(s) \cup Range(t)
    BY <1>1 DEF Range
  <2> QED  BY Zenon, <2>1, <2>2
<1>4. ASSUME Ascending(s), Ascending(t), Below(Range(s), Range(t)) PROVE Ascending(s \o t)
  <2> SUFFICES ASSUME NEW m \in 1..(Len(s) + Len(t)), NEW n \in 1..(Len(s) + Len(t)), m < n
               PROVE  (s \o t)[m] < (s \o t)[n]
    BY Zenon, <1>1 DEF Ascending
  <2>1. CASE n <= Len(s)
    BY <1>1, <1>4, <2>1 DEF Ascending
  <2>2. CASE m > Len(s)
    <3>1. m - Len(s) \in 1..Len(t) /\ n - Len(s) \in 1..Len(t) /\ m - Len(s) < n - Len(s)
      BY <1>1, <2>2
    <3>2. (s \o t)[m] = t[m - Len(s)] /\ (s \o t)[n] = t[n - Len(s)]
      BY <1>1, <2>2
    <3> QED  BY Zenon, <1>4, <3>1, <3>2 DEF Ascending
  <2>3. CASE m <= Len(s) /\ n > Len(s)
    <3>1. m \in 1..Len(s) /\ n - Len(s) \in 1..Len(t)
      BY <1>1, <2>3
    <3>2. s[m] \in Range(s) /\ t[n - Len(s)] \in Range(t)
      BY Zenon, <1>1, <3>1 DEF Range
    <3> QED  BY <1>1, <1>4, <2>3, <3>2 DEF Below
  <2>4. n <= Len(s) \/ m > Len(s) \/ (m <= Len(s) /\ n > Len(s))
    BY <1>1
  <2> QED  BY Zenon, <2>1, <2>2, <2>3, <2>4
<1> QED  BY Zenon, <1>1, <1>3, <1>4

\* One more element, above all others.
LEMMA AppendOne ==
  ASSUME NEW s \in Seq(Nat), NEW e \in Nat
  PROVE  /\ Append(s, e) \in Seq(Nat)
         /\ Range(Append(s, e)) = Range(s) \cup {e}
         /\ Ascending(s) /\ (\A x \in Range(s) : x < e) => Ascending(Append(s, e))
<1>1. <<e>> \in Seq(Nat) /\ Range(<<e>>) = {e} /\ Ascending(<<e>>) /\ Append(s, e) = s \o <<e>>
  BY AppendIsConcat DEF Range, Ascending
<1> QED  BY Zenon, <1>1, Concat DEF Below

\* Two sequences without repetition that share no element.
LEMMA ConcatOnce ==
  ASSUME NEW s \in Seq(Nat), NEW t \in Seq(Nat), IsInjective(s), IsInjective(t), Range(s) \cap Range(t) = {}
  PROVE  IsInjective(s \o t)
<1>1. /\ Len(s \o t) = Len(s) + Len(t) /\ Len(s) \in Nat /\ Len(t) \in Nat
      /\ \A i \in 1..(Len(s) + Len(t)) : (s \o t)[i] = IF i <= Len(s) THEN s[i] ELSE t[i - Len(s)]
      /\ DOMAIN s = 1..Len(s) /\ DOMAIN t = 1..Len(t) /\ DOMAIN (s \o t) = 1..(Len(s) + Len(t))
  BY ConcatProperties, LenProperties
<1> SUFFICES ASSUME NEW a \in 1..(Len(s) + Len(t)), NEW b \in 1..(Len(s) + Len(t)), (s \o t)[a] = (s \o t)[b]
             PROVE  a = b
  BY Zenon, <1>1 DEF IsInjective
<1>2. ASSUME NEW i \in 1..(Len(s) + Len(t)), i > Len(s)
      PROVE  i - Len(s) \in 1..Len(t) /\ (s \o t)[i] = t[i - Len(s)] /\ t[i - Len(s)] \in Range(t)
  <2>1. i - Len(s) \in 1..Len(t) /\ (s \o t)[i] = t[i - Len(s)]
    BY <1>1, <1>2
  <2> QED  BY Zenon, <1>1, <2>1 DEF Range
<1>3. ASSUME NEW i \in 1..(Len(s) + Len(t)), i <= Len(s)
      PROVE  i \in 1..Len(s) /\ (s \o t)[i] = s[i] /\ s[i] \in Range(s)
  <2>1. i \in 1..Len(s) /\ (s \o t)[i] = s[i]
    BY <1>1, <1>3
  <2> QED  BY Zenon, <1>1, <2>1 DEF Range
<1>4. CASE a <= Len(s) /\ b <= Len(s)
  BY Zenon, <1>1, <1>3, <1>4 DEF IsInjective
<1>5. CASE a > Len(s) /\ b > Len(s)
  <2>1. a - Len(s) = b - Len(s)
    BY ZenonT(30), <1>1, <1>2, <1>5 DEF IsInjective
  <2> QED  BY <1>1, <2>1
<1>6. CASE ~(a <= Len(s) <=> b <= Len(s))
  BY <1>1, <1>2, <1>3, <1>6
<1> QED  BY <1>1, <1>4, <1>5, <1>6

LEMMA HeadFirst ==
  ASSUME NEW s \in Seq(Nat), s # <<>>
  PROVE  <<Head(s)>> \o Tail(s) = s /\ <<Head(s)>> \in Seq(Nat) /\ Tail(s) \in Seq(Nat)
<1>1. <<Head(s)>> \in Seq(Nat) /\ Tail(s) \in Seq(Nat) /\ Len(s) \in Nat \ {0}
  BY HeadTailProperties, EmptySeq
<1>2. <<Head(s)>> \o Tail(s) \in Seq(Nat) /\ Len(<<Head(s)>> \o Tail(s)) = Len(s)
  BY <1>1, ConcatProperties, HeadTailProperties
<1>3. ASSUME NEW i \in 1..Len(s) PROVE (<<Head(s)>> \o Tail(s))[i] = s[i]
  BY <1>1, ConcatProperties, HeadTailProperties
<1> QED  BY <1>2, <1>3, SeqEqual

LEMMA Regroup ==
  ASSUME NEW s \in Seq(Nat), NEW t \in Seq(Nat), NEW u \in Seq(Nat)
  PROVE  (s \o t) \o u = s \o (t \o u) /\ s \o t \in Seq(Nat)
<1>1. (s \o t) \o u = s \o (t \o u)
  <2> DEFINE Associative(S) == \A a, b, c \in Seq(S) : (a \o b) \o c = a \o (b \o c)
  <2>1. \A S : Associative(S)
    BY Zenon, ConcatAssociative
  <2> HIDE DEF Associative
  <2>2. Associative(Nat)
    BY Zenon, <2>1
  <2> QED  BY Zenon, <2>2 DEF Associative
<1>2. s \o t \in Seq(Nat)
  BY Zenon, ConcatProperties
<1> QED  BY Zenon, <1>1, <1>2

LEMMA EmptySet == <<>> \in Seq(Nat) /\ Range(<<>>) = {} /\ Ascending(<<>>)
  BY DEF Range, Ascending

-----------------------------------------------------------------------------
\* Taking an input leaves the rest ready, in the order they were.
LEMMA PopTakes ==
  ASSUME ShapeInv, Ready # <<>>, Pop
  PROVE  /\ Ready \in Seq(Nat) /\ Ready' = Tail(Ready)
         /\ deferred' \in Seq(Nat) /\ channel' \in Seq(Nat)
<1>1. deferred \in Seq(Nat) /\ channel \in Seq(Nat) /\ Ready \in Seq(Nat)
  BY Zenon, ConcatProperties DEF ShapeInv, Ready
<1>2. CASE deferred # <<>>
  <2>1. deferred' = Tail(deferred) /\ channel' = channel /\ Tail(deferred) \in Seq(Nat)
    BY Zenon, <1>1, <1>2, HeadTailProperties DEF Pop
  <2>2. Tail(deferred) \o channel \in Seq(Nat) /\ Tail(Ready) \in Seq(Nat)
    BY Zenon, <1>1, <2>1, ConcatProperties, HeadTailProperties
  <2>3. /\ Len(deferred) \in Nat \ {0} /\ Len(channel) \in Nat
        /\ Len(Tail(deferred) \o channel) = (Len(deferred) - 1) + Len(channel)
        /\ Len(Tail(Ready)) = (Len(deferred) + Len(channel)) - 1
    BY <1>1, <1>2, <2>1, ConcatProperties, HeadTailProperties, EmptySeq, LenProperties DEF Ready
  <2>4. ASSUME NEW i \in 1..((Len(deferred) - 1) + Len(channel))
        PROVE  (Tail(deferred) \o channel)[i] = Tail(Ready)[i]
    <3>1. Tail(Ready)[i] = (deferred \o channel)[i + 1]
      BY <1>1, <2>3, HeadTailProperties DEF Ready
    <3>2. (deferred \o channel)[i + 1] =
            IF i + 1 <= Len(deferred) THEN deferred[i + 1] ELSE channel[(i + 1) - Len(deferred)]
      BY <1>1, <2>3, ConcatProperties
    <3>3. (Tail(deferred) \o channel)[i] =
            IF i <= Len(deferred) - 1 THEN Tail(deferred)[i] ELSE channel[i - (Len(deferred) - 1)]
      BY <1>1, <1>2, <2>1, <2>3, ConcatProperties, HeadTailProperties
    <3>4. i <= Len(deferred) - 1 => Tail(deferred)[i] = deferred[i + 1]
      BY <1>1, <1>2, <2>3, HeadTailProperties
    <3>5. i - (Len(deferred) - 1) = (i + 1) - Len(deferred) /\ (i <= Len(deferred) - 1 <=> i + 1 <= Len(deferred))
      BY <2>3
    <3> QED  BY Zenon, <3>1, <3>2, <3>3, <3>4, <3>5
  <2>5. Tail(deferred) \o channel = Tail(Ready)
    <3>1. Len(Tail(deferred) \o channel) = Len(Tail(Ready))
      BY <2>3
    <3> QED  BY Zenon, <2>2, <2>3, <2>4, <3>1, SeqEqual
  <2> QED  BY Zenon, <1>1, <2>1, <2>5 DEF Ready
<1>3. CASE deferred = <<>>
  <2>1. Ready = channel /\ channel # <<>> /\ deferred' = <<>> /\ channel' = Tail(channel)
    BY Zenon, <1>1, <1>3, ConcatEmptySeq DEF Ready, Pop
  <2>2. Tail(channel) \in Seq(Nat) /\ <<>> \o Tail(channel) = Tail(channel)
    BY <1>1, <2>1, HeadTailProperties, ConcatEmptySeq
  <2> QED  BY Zenon, <1>1, <1>3, <2>1, <2>2 DEF Ready
<1> QED  BY Zenon, <1>2, <1>3

\* Pushing back what was peeked at changes no order.
LEMMA PeekKeeps ==
  ASSUME ShapeInv, Peek
  PROVE  Ready' = Ready /\ deferred' \in Seq(Nat) /\ channel' \in Seq(Nat)
<1>1. deferred \in Seq(Nat) /\ channel \in Seq(Nat)
  BY Zenon DEF ShapeInv
<1>2. CASE deferred # <<>> \/ channel = <<>>
  BY Zenon, <1>1, <1>2 DEF Peek, Ready
<1>3. CASE deferred = <<>> /\ channel # <<>>
  <2>1. deferred' = <<Head(channel)>> /\ channel' = Tail(channel)
    BY Zenon, <1>3 DEF Peek
  <2>2. <<Head(channel)>> \o Tail(channel) = channel /\ <<Head(channel)>> \in Seq(Nat) /\ Tail(channel) \in Seq(Nat)
    BY Zenon, <1>1, <1>3, HeadFirst
  <2> QED  BY Zenon, <1>1, <1>3, <2>1, <2>2, ConcatEmptySeq DEF Ready
<1> QED  BY Zenon, <1>2, <1>3

-----------------------------------------------------------------------------
(* The ways in which inputs move.                                          *)

\* Nothing moves.
LEMMA StayKeeps ==
  ASSUME BaseInv, Ready' = Ready, deferred' \in Seq(Nat), channel' \in Seq(Nat), pc' \in Points,
         UNCHANGED <<inputs, peers, commands, bypassed, stepped, served>>
  PROVE  BaseInv'
<1>1. ShapeInv'
  BY Zenon DEF BaseInv, ShapeInv, inputs
<1>2. PlaceInv' /\ CoverInv'
  BY Zenon DEF BaseInv, PlaceInv, CoverInv, inputs, IsPeer
<1>3. OrderInv'
  BY Zenon DEF BaseInv, OrderInv, inputs, IsPeer, Priority
<1> QED  BY Zenon, <1>1, <1>2, <1>3 DEF BaseInv

\* What taking an input says about it and about the others.
LEMMA Taken ==
  ASSUME BaseInv, Ready # <<>>, Pop
  PROVE  /\ Ready' = Tail(Ready) /\ deferred' \in Seq(Nat) /\ channel' \in Seq(Nat)
         /\ NextInput \in 1..arrived /\ NextInput \in Range(Ready)
         /\ Range(Ready) = Range(Ready') \cup {NextInput}
         /\ Ascending(Ready') /\ \A y \in Range(Ready') : NextInput < y
<1>1. Ready \in Seq(Nat) /\ Ready' = Tail(Ready) /\ deferred' \in Seq(Nat) /\ channel' \in Seq(Nat)
  BY Zenon, PopTakes DEF BaseInv
<1> QED  BY <1>1, HeadTail DEF BaseInv, PlaceInv, OrderInv, NextInput

LEMMA WakeKeeps ==
  ASSUME BaseInv, Ready # <<>>, Pop, kind[NextInput] = "wake",
         UNCHANGED <<inputs, turn, stepped, served>>
  PROVE  BaseInv'
<1>1. ShapeInv'
  BY Zenon, Taken DEF BaseInv, ShapeInv, inputs, turn
<1>2. PlaceInv' /\ CoverInv'
  BY Zenon, Taken DEF BaseInv, PlaceInv, CoverInv, inputs, turn, IsPeer
<1>3. OrderInv'
  BY Zenon, Taken DEF BaseInv, OrderInv, inputs, turn, IsPeer, Priority, Below
<1> QED  BY Zenon, <1>1, <1>2, <1>3 DEF BaseInv

\* A peer joins the peers of the turn.
LEMMA PeerKeeps ==
  ASSUME BaseInv, Ready # <<>>, Pop, IsPeer(NextInput), pc' \in Points,
         peers' = Append(peers, NextInput),
         UNCHANGED <<inputs, commands, bypassed, stepped, served>>
  PROVE  BaseInv'
<1>1. /\ peers' \in Seq(Nat) /\ Range(peers') = Range(peers) \cup {NextInput} /\ Ascending(peers')
      /\ \A x \in Range(peers) : x < NextInput
  <2>1. peers \in Seq(Nat) /\ NextInput \in Nat /\ Ascending(peers) /\ \A x \in Range(peers) : x < NextInput
    <3>1. arrived \in Nat /\ NextInput \in 1..arrived /\ NextInput \in Range(Ready)
      BY Zenon, Taken DEF BaseInv, ShapeInv
    <3>2. NextInput \in Nat
      BY <3>1
    <3> QED  BY Zenon, <3>1, <3>2 DEF BaseInv, ShapeInv, OrderInv, Below
  <2> QED  BY Zenon, <2>1, AppendOne
<1>2. ShapeInv'
  BY Zenon, <1>1, Taken DEF BaseInv, ShapeInv, inputs
<1>3. PlaceInv' /\ CoverInv'
  BY Zenon, <1>1, Taken DEF BaseInv, PlaceInv, CoverInv, inputs, IsPeer
<1>4. OrderInv'
  BY <1>1, Taken DEF BaseInv, OrderInv, inputs, IsPeer, Priority, Below
<1> QED  BY Zenon, <1>2, <1>3, <1>4 DEF BaseInv

\* A client is served, and its command perhaps proposed.
LEMMA ClientKeeps ==
  ASSUME BaseInv, Ready # <<>>, Pop, kind[NextInput] \in Clients, Serve, pc' \in Points,
         bypassed = <<>>, UNCHANGED <<inputs, peers, bypassed, stepped>>
  PROVE  /\ BaseInv'
         /\ Range(commands') \subseteq Range(commands) \cup {NextInput}
<1>1. /\ served' \in Seq(Nat) /\ Range(served') = Range(served) \cup {NextInput} /\ Ascending(served')
      /\ \A x \in Range(served) : x < NextInput
  <2>1. served \in Seq(Nat) /\ NextInput \in Nat /\ Ascending(served) /\ \A x \in Range(served) : x < NextInput
    <3>1. arrived \in Nat /\ NextInput \in 1..arrived /\ NextInput \in Range(Ready)
      BY Zenon, Taken DEF BaseInv, ShapeInv
    <3>2. NextInput \in Nat
      BY <3>1
    <3> QED  BY Zenon, <3>1, <3>2 DEF BaseInv, ShapeInv, OrderInv, Below
  <2> QED  BY Zenon, <2>1, AppendOne DEF Serve
<1>2. /\ commands' \in Seq(Nat) /\ Ascending(commands')
      /\ Range(commands') \subseteq Range(commands) \cup {NextInput}
  <2>1. commands \in Seq(Nat) /\ NextInput \in Nat /\ Ascending(commands) /\ \A x \in Range(commands) : x < NextInput
    BY <1>1, Taken DEF BaseInv, ShapeInv, PlaceInv, OrderInv, Below
  <2> QED  BY Zenon, <2>1, AppendOne DEF Serve
<1>3. ~IsPeer(NextInput) /\ \A x \in Range(stepped) : ~IsPeer(x) => x < NextInput
  BY Zenon, <1>1 DEF BaseInv, PlaceInv, IsPeer, Clients, Peers
<1>4. ShapeInv'
  BY Zenon, <1>1, <1>2, Taken DEF BaseInv, ShapeInv, inputs
<1>5. PlaceInv' /\ CoverInv'
  BY Zenon, <1>1, <1>2, Taken DEF BaseInv, PlaceInv, CoverInv, inputs, IsPeer
<1>6. OrderInv'
  BY <1>1, <1>2, <1>3, Taken, EmptySet DEF BaseInv, OrderInv, inputs, IsPeer, Priority, Below
<1> QED  BY Zenon, <1>2, <1>4, <1>5, <1>6 DEF BaseInv

\* An execute request is passed by.
LEMMA BypassKeeps ==
  ASSUME BaseInv, Ready # <<>>, Pop, kind[NextInput] = "execute", pc' \in Points,
         bypassed' = Append(bypassed, NextInput), UNCHANGED <<inputs, peers, commands, stepped, served>>
  PROVE  BaseInv'
<1>1. /\ bypassed' \in Seq(Nat) /\ Range(bypassed') = Range(bypassed) \cup {NextInput} /\ Ascending(bypassed')
      /\ \A x \in Range(bypassed) : x < NextInput
  <2>1. bypassed \in Seq(Nat) /\ NextInput \in Nat /\ Ascending(bypassed) /\ \A x \in Range(bypassed) : x < NextInput
    BY SMTT(30), Taken DEF BaseInv, ShapeInv, OrderInv, Below
  <2> QED  BY Zenon, <2>1, AppendOne
<1>2. ShapeInv'
  BY Zenon, <1>1, Taken DEF BaseInv, ShapeInv, inputs
<1>3. PlaceInv' /\ CoverInv'
  BY Zenon, <1>1, Taken DEF BaseInv, PlaceInv, CoverInv, inputs, IsPeer
<1>4. OrderInv'
  BY SMTT(30), <1>1, Taken DEF BaseInv, OrderInv, inputs, IsPeer, Priority, Below
<1> QED  BY Zenon, <1>2, <1>3, <1>4 DEF BaseInv

\* What was passed by goes back in front of what is ready.
LEMMA RestoreFacts ==
  ASSUME BaseInv, Ready' = bypassed \o Ready
  PROVE  /\ Range(Ready') = Range(bypassed) \cup Range(Ready) /\ Ascending(Ready')
         /\ bypassed = <<>> => Ready' = Ready
<1>1. bypassed \in Seq(Nat) /\ Ready \in Seq(Nat)
  BY Zenon, Concat DEF BaseInv, ShapeInv, Ready
<1> QED  BY Zenon, <1>1, Concat, ConcatEmptySeq DEF BaseInv, OrderInv

LEMMA RestoreKeeps ==
  ASSUME BaseInv, Ready' = bypassed \o Ready, bypassed' = <<>>, peers = <<>>, pc' \in Points,
         deferred' \in Seq(Nat), channel' \in Seq(Nat), bypassed # <<>> => Priority,
         UNCHANGED <<inputs, peers, commands, stepped, served>>
  PROVE  BaseInv'
<1>1. ShapeInv'
  BY Zenon, EmptySet DEF BaseInv, ShapeInv, inputs
<1>2. PlaceInv' /\ CoverInv'
  BY Zenon, RestoreFacts, EmptySet DEF BaseInv, PlaceInv, CoverInv, inputs, IsPeer
<1>3. \A i \in Range(bypassed) : ~IsPeer(i)
  BY Zenon DEF BaseInv, PlaceInv, IsPeer, Peers
<1>4. OrderInv'
  BY Zenon, <1>3, RestoreFacts, EmptySet DEF BaseInv, OrderInv, inputs, IsPeer, Priority, Below
<1> QED  BY Zenon, <1>1, <1>2, <1>4 DEF BaseInv

\* The engine steps the peers of the turn, with its commands or, in a lookahead,
\* before them; what was passed by goes back.
LEMMA StepKeeps ==
  ASSUME BaseInv, NEW X \in Seq(Nat), Ascending(X), stepped' = stepped \o X,
         \/ Range(X) = Range(peers) \cup Range(commands) /\ commands' = <<>>
         \/ Range(X) = Range(peers) /\ Priority /\ commands' = commands,
         peers' = <<>>, Ready' = bypassed \o Ready, bypassed' = <<>>, pc' \in Points,
         deferred' \in Seq(Nat), channel' \in Seq(Nat), bypassed # <<>> => Priority,
         UNCHANGED <<inputs, served>>
  PROVE  BaseInv'
<1>1. stepped \in Seq(Nat) /\ stepped' \in Seq(Nat) /\ Range(stepped') = Range(stepped) \cup Range(X)
  BY Zenon, Concat DEF BaseInv, ShapeInv
<1>2. /\ \A i \in Range(bypassed) : ~IsPeer(i)
      /\ \A i \in Range(peers) : IsPeer(i)
      /\ \A i \in Range(commands) : ~IsPeer(i) /\ i \in Range(served)
  BY Zenon DEF BaseInv, PlaceInv, IsPeer, Peers, Clients
<1>3. ShapeInv'
  BY Zenon, <1>1, EmptySet DEF BaseInv, ShapeInv, inputs
<1>4. PlaceInv' /\ CoverInv'
  BY Zenon, <1>1, <1>2, RestoreFacts, EmptySet DEF BaseInv, PlaceInv, CoverInv, inputs, IsPeer
<1>5. ASSUME NEW x \in Range(stepped), NEW y \in Range(X), Priority => (IsPeer(x) <=> IsPeer(y))
      PROVE  x < y
  BY Zenon, <1>2, <1>5 DEF BaseInv, OrderInv, Below
<1>6. ASSUME NEW m \in 1..Len(stepped'), NEW n \in 1..Len(stepped'), m < n,
             Priority => (IsPeer(stepped'[m]) <=> IsPeer(stepped'[n]))
      PROVE  stepped'[m] < stepped'[n]
  <2>1. /\ Len(stepped') = Len(stepped) + Len(X) /\ Len(stepped) \in Nat /\ Len(X) \in Nat
        /\ \A i \in 1..(Len(stepped) + Len(X)) :
             stepped'[i] = IF i <= Len(stepped) THEN stepped[i] ELSE X[i - Len(stepped)]
        /\ DOMAIN stepped = 1..Len(stepped) /\ DOMAIN X = 1..Len(X)
    BY <1>1, ConcatProperties, LenProperties
  <2>a. /\ Len(stepped) \in Nat /\ Len(X) \in Nat /\ m < n
        /\ m \in 1..(Len(stepped) + Len(X)) /\ n \in 1..(Len(stepped) + Len(X))
    BY Zenon, <1>6, <2>1
  <2>2. CASE n <= Len(stepped)
    <3>1. m \in 1..Len(stepped) /\ n \in 1..Len(stepped)
      BY <2>2, <2>a
    <3>2. stepped'[m] = stepped[m] /\ stepped'[n] = stepped[n]
      BY <2>1, <3>1
    <3> QED  BY Zenon, <1>6, <3>1, <3>2 DEF BaseInv, OrderInv
  <2>3. CASE m > Len(stepped)
    <3>1. m - Len(stepped) \in 1..Len(X) /\ n - Len(stepped) \in 1..Len(X) /\ m - Len(stepped) < n - Len(stepped)
      BY <2>3, <2>a
    <3>2. ~(m <= Len(stepped)) /\ ~(n <= Len(stepped))
      BY <2>3, <2>a
    <3>3. stepped'[m] = X[m - Len(stepped)] /\ stepped'[n] = X[n - Len(stepped)]
      BY Zenon, <2>1, <2>a, <3>2
    <3> QED  BY Zenon, <3>1, <3>3 DEF Ascending
  <2>4. CASE m <= Len(stepped) /\ n > Len(stepped)
    <3>1. m \in 1..Len(stepped) /\ n - Len(stepped) \in 1..Len(X) /\ ~(n <= Len(stepped))
      BY <2>4, <2>a
    <3>2. stepped'[m] = stepped[m] /\ stepped'[n] = X[n - Len(stepped)]
      BY Zenon, <2>1, <2>4, <2>a, <3>1
    <3>3. stepped[m] \in Range(stepped) /\ X[n - Len(stepped)] \in Range(X)
      BY Zenon, <2>1, <3>1 DEF Range
    <3> QED  BY Zenon, <1>5, <1>6, <3>2, <3>3
  <2>5. n <= Len(stepped) \/ m > Len(stepped) \/ (m <= Len(stepped) /\ n > Len(stepped))
    BY <1>6, <2>1
  <2> QED  BY Zenon, <2>2, <2>3, <2>4, <2>5
<1>7. OrderInv'
  <2>1. /\ Ascending(Ready') /\ Ascending(bypassed') /\ Ascending(peers')
        /\ Ascending(commands') /\ Ascending(served')
        /\ Below(Range(bypassed'), Range(Ready')) /\ Below(Range(peers'), Range(Ready'))
        /\ Below(Range(served'), Range(Ready')) /\ Below(Range(served'), Range(bypassed'))
    BY Zenon, RestoreFacts, EmptySet DEF BaseInv, OrderInv, Below
  <2>2. \A x \in Range(stepped') : ~IsPeer(x) => \A y \in Range(commands') : x < y
    BY Zenon, <1>1, <1>2, EmptySet DEF BaseInv, OrderInv
  <2>3. \A x \in Range(stepped') : IsPeer(x) =>
          /\ \A y \in Range(Ready') : IsPeer(y) => x < y
          /\ \A y \in Range(peers') : x < y
    BY Zenon, <1>1, <1>2, RestoreFacts, EmptySet DEF BaseInv, OrderInv, Below
  <2>4. ~Priority =>
          /\ Below(Range(stepped'), Range(Ready')) /\ Below(Range(stepped'), Range(peers'))
          /\ Below(Range(stepped'), Range(commands'))
    BY Zenon, <1>1, <1>2, RestoreFacts, EmptySet DEF BaseInv, OrderInv, Below
  <2> QED  BY Zenon, <1>6, <2>1, <2>2, <2>3, <2>4 DEF OrderInv, inputs, IsPeer, Priority
<1> QED  BY Zenon, <1>3, <1>4, <1>7 DEF BaseInv

\* An input arrives behind all others; the kinds of the others stay.
LEMMA ArriveKeeps == ASSUME IInv, Arrive PROVE IInv'
<1>1. arrived \in Nat /\ Ready \in Seq(Nat) /\ channel \in Seq(Nat) /\ deferred \in Seq(Nat)
  BY Zenon, Concat DEF IInv, BaseInv, ShapeInv, Ready
<1>2. Ready' = Append(Ready, arrived + 1) /\ channel' \in Seq(Nat)
  <2>1. /\ <<arrived + 1>> \in Seq(Nat) /\ channel' = channel \o <<arrived + 1>>
        /\ Append(Ready, arrived + 1) = Ready \o <<arrived + 1>> /\ deferred' = deferred
    <3>1. arrived + 1 \in Nat /\ channel' = Append(channel, arrived + 1) /\ deferred' = deferred
      BY SMTT(30), <1>1 DEF Arrive
    <3> QED  BY <1>1, <3>1, AppendIsConcat
  <2>2. (deferred \o channel) \o <<arrived + 1>> = deferred \o (channel \o <<arrived + 1>>)
    <3>1. deferred \in Seq(Nat) /\ channel \in Seq(Nat) /\ <<arrived + 1>> \in Seq(Nat)
      BY Zenon, <1>1, <2>1
    <3> QED  BY ZenonT(30), <3>1, Regroup
  <2>3. channel \o <<arrived + 1>> \in Seq(Nat)
    BY Zenon, <1>1, <2>1, ConcatProperties
  <2> QED  BY Zenon, <2>1, <2>2, <2>3 DEF Ready
<1>3. /\ Range(Ready') = Range(Ready) \cup {arrived + 1} /\ Ascending(Ready')
      /\ \A x \in Range(Ready) : x < arrived + 1
  <2>1. \A x \in Range(Ready) : x < arrived + 1
    BY <1>1 DEF IInv, BaseInv, PlaceInv
  <2> QED  BY <1>1, <1>2, <2>1, AppendOne DEF IInv, BaseInv, OrderInv
<1>4. /\ kind' \in Seq(Kinds) /\ Len(kind') = arrived + 1
      /\ \A i \in 1..arrived : kind'[i] = kind[i]
  <2>1. PICK k \in Kinds : kind' = Append(kind, k)
    BY Zenon DEF Arrive
  <2>2. kind \in Seq(Kinds) /\ Len(kind) = arrived
    BY Zenon DEF IInv, BaseInv, ShapeInv
  <2> QED  BY <2>1, <2>2, AppendProperties
<1>5. arrived' = arrived + 1 /\ 1..arrived' = 1..arrived \cup {arrived + 1}
  BY <1>1 DEF Arrive
<1>6. ShapeInv'
  BY <1>1, <1>2, <1>4, <1>5 DEF IInv, BaseInv, ShapeInv, Arrive, turn
<1>7. PlaceInv' /\ CoverInv'
  BY ZenonT(30), <1>1, <1>3, <1>4, <1>5 DEF IInv, BaseInv, PlaceInv, CoverInv, Arrive, turn, IsPeer
<1>8. OrderInv'
  <2>1. \A i \in Range(peers) \cup Range(bypassed) \cup Range(served) \cup Range(stepped) : i \in 1..arrived /\ i < arrived + 1
    BY <1>1 DEF IInv, BaseInv, PlaceInv
  <2>2. \A i \in Range(Ready) \cup Range(stepped) : IsPeer(i)' <=> IsPeer(i)
    BY Zenon, <1>3, <1>4, <2>1 DEF IInv, BaseInv, PlaceInv, IsPeer
  <2>3. stepped' = stepped /\ DOMAIN stepped = 1..Len(stepped)
    BY Zenon, LenProperties DEF Arrive, IInv, BaseInv, ShapeInv
  <2>4. \A m, n \in 1..Len(stepped) :
          m < n /\ (Priority => (IsPeer(stepped[m])' <=> IsPeer(stepped[n])')) => stepped[m] < stepped[n]
    BY Zenon, <2>2, <2>3 DEF IInv, BaseInv, OrderInv, Range
  <2> QED  BY <1>3, <2>1, <2>2, <2>3, <2>4 DEF IInv, BaseInv, OrderInv, Arrive, turn, Priority, Below
<1>9. TurnInv'
  BY Zenon DEF IInv, TurnInv, Arrive, turn, Priority, Combine
<1> QED  BY Zenon, <1>6, <1>7, <1>8, <1>9 DEF IInv, BaseInv

-----------------------------------------------------------------------------
(* The owner's actions.                                                    *)

LEMMA TakeWakeKeeps == ASSUME IInv, TakeWake PROVE IInv'
<1>1. BaseInv'
  BY Zenon, WakeKeeps DEF IInv, TakeWake
<1>2. TurnInv'
  BY Zenon DEF IInv, TurnInv, TakeWake, turn, inputs, Priority, Combine
<1> QED  BY Zenon, <1>1, <1>2 DEF IInv

LEMMA TakePeerKeeps == ASSUME IInv, TakePeer PROVE IInv'
<1>1. peers' = Append(peers, NextInput) /\ commands = <<>> /\ bypassed = <<>>
  BY DEF IInv, TurnInv, TakePeer
<1>2. BaseInv'
  BY Zenon, <1>1, PeerKeeps DEF IInv, TakePeer, Points
<1>3. TurnInv'
  BY Zenon, <1>1 DEF TurnInv, TakePeer
<1> QED  BY Zenon, <1>2, <1>3 DEF IInv

LEMMA TakeClientKeeps == ASSUME IInv, TakeClient PROVE IInv'
<1>1. bypassed = <<>> /\ peers = <<>>
  BY Zenon DEF IInv, TurnInv, TakeClient
<1>2. BaseInv'
  BY Zenon, <1>1, ClientKeeps DEF IInv, TakeClient, Points
<1>3. TurnInv'
  BY Zenon, <1>1 DEF TurnInv, TakeClient
<1> QED  BY Zenon, <1>2, <1>3 DEF IInv

LEMMA CollectPeerKeeps == ASSUME IInv, CollectPeer PROVE IInv'
<1>1. IsPeer(NextInput)
  BY Zenon DEF CollectPeer, Fits, FitsAfterScan, IsPeer, Peers
<1>2. BaseInv'
  BY Zenon, <1>1, PeerKeeps DEF IInv, BaseInv, ShapeInv, CollectPeer
<1>3. Range(peers') = Range(peers) \cup {NextInput} /\ Below(Range(commands), {NextInput})
  <2>1. BaseInv /\ Ready # <<>> /\ Pop /\ peers' = Append(peers, NextInput) /\ peers \in Seq(Nat)
    BY Zenon DEF IInv, BaseInv, ShapeInv, CollectPeer
  <2>2. NextInput \in 1..arrived /\ NextInput \in Range(Ready) /\ arrived \in Nat
    BY Zenon, <2>1, Taken DEF BaseInv, ShapeInv
  <2>3. NextInput \in Nat
    BY <2>2
  <2>4. Range(peers') = Range(peers) \cup {NextInput}
    BY Zenon, <2>1, <2>3, AppendOne
  <2>5. Below(Range(commands), {NextInput})
    BY Zenon, <2>1, <2>2 DEF BaseInv, PlaceInv, OrderInv, Below
  <2> QED  BY Zenon, <2>4, <2>5
<1>4. TurnInv'
  BY Zenon, <1>3 DEF IInv, TurnInv, CollectPeer, inputs, Priority, Combine, Below
<1> QED  BY Zenon, <1>2, <1>4 DEF IInv

LEMMA CollectPeerEndKeeps == ASSUME IInv, CollectPeerEnd PROVE IInv'
<1>1. Ready' = Ready /\ deferred' \in Seq(Nat) /\ channel' \in Seq(Nat)
  BY Zenon, PeekKeeps DEF IInv, BaseInv, ShapeInv, CollectPeerEnd, PutBack, Ready
<1>2. BaseInv'
  BY Zenon, <1>1, StayKeeps DEF IInv, CollectPeerEnd, Points
<1>3. TurnInv'
  BY Zenon DEF IInv, TurnInv, CollectPeerEnd, inputs, Priority, Combine
<1> QED  BY Zenon, <1>2, <1>3 DEF IInv

LEMMA CollectClientKeeps == ASSUME IInv, CollectClient PROVE IInv'
<1>1. bypassed = <<>> /\ kind[NextInput] \in Clients
  BY Zenon DEF IInv, TurnInv, CollectClient, Fits, Clients
<1>2. BaseInv' /\ Range(commands') \subseteq Range(commands) \cup {NextInput}
  BY Zenon, <1>1, ClientKeeps DEF IInv, BaseInv, ShapeInv, CollectClient
<1>3. Below(Range(peers), {NextInput})
  BY Zenon, Taken DEF IInv, BaseInv, OrderInv, CollectClient, Below
<1>4. TurnInv'
  BY Zenon, <1>1, <1>2, <1>3 DEF IInv, TurnInv, CollectClient, Below
<1> QED  BY Zenon, <1>2, <1>4 DEF IInv

LEMMA CollectClientEndKeeps == ASSUME IInv, CollectClientEnd PROVE IInv'
<1>1. Ready' = Ready /\ deferred' \in Seq(Nat) /\ channel' \in Seq(Nat)
  BY Zenon, PeekKeeps DEF IInv, BaseInv, ShapeInv, CollectClientEnd, PutBack, Ready
<1>2. BaseInv'
  BY Zenon, <1>1, StayKeeps DEF IInv, CollectClientEnd, Points
<1>3. TurnInv'
  BY Zenon, EmptySet DEF IInv, TurnInv, CollectClientEnd, inputs, Priority, Combine, Below
<1> QED  BY Zenon, <1>2, <1>3 DEF IInv

LEMMA CollectedKeeps == ASSUME IInv, Collected PROVE IInv'
<1>1. BaseInv'
  BY Zenon, StayKeeps DEF IInv, BaseInv, ShapeInv, Collected, Points, Ready
<1>2. TurnInv'
  BY Zenon, EmptySet DEF IInv, TurnInv, Collected, inputs, Priority, Combine, Below
<1> QED  BY Zenon, <1>1, <1>2 DEF IInv

\* A peer found behind the commands of the turn is younger than they are.
LEMMA FoundKeeps ==
  ASSUME IInv, Ready # <<>>, Pop, IsPeer(NextInput), peers = <<>>, peers' = <<NextInput>>,
         pc \in {"combine", "scan"}, pc' \in {"overtaking", "overtaken"},
         UNCHANGED <<inputs, commands, bypassed, stepped, served>>
  PROVE  IInv'
<1>1. BaseInv'
  BY PeerKeeps DEF IInv, Points
<1>2. Range(peers') = {NextInput} /\ Below(Range(commands), {NextInput})
  <2>1. Range(<<NextInput>>) = {NextInput}
    BY DEF Range
  <2> QED  BY Zenon, <2>1, Taken DEF IInv, BaseInv, PlaceInv, OrderInv, Below
<1>3. TurnInv'
  BY Zenon, <1>2 DEF IInv, TurnInv, inputs, Priority, Combine, Below
<1> QED  BY Zenon, <1>1, <1>3 DEF IInv

LEMMA CombineFoundKeeps == ASSUME IInv, CombineFound PROVE IInv'
<1>1. Ready # <<>> /\ NextInput = Head(deferred) /\ Pop
  <2>1. deferred \in Seq(Nat) /\ channel \in Seq(Nat) /\ deferred # <<>>
    BY Zenon DEF IInv, BaseInv, ShapeInv, CombineFound
  <2>2. Ready # <<>>
    BY <2>1, ConcatEqualIffEmpty DEF Ready
  <2>3. Head(deferred \o channel) = Head(deferred)
    BY <2>1, ConcatProperties, EmptySeq
  <2> QED  BY Zenon, <2>1, <2>2, <2>3 DEF NextInput, Ready, Pop, CombineFound
<1>2. IsPeer(NextInput) /\ peers = <<>>
  BY Zenon, <1>1 DEF IInv, TurnInv, CombineFound, IsPeer, Peers
<1> QED  BY Zenon, <1>1, <1>2, FoundKeeps DEF CombineFound

LEMMA CombineNoneKeeps == ASSUME IInv, CombineNone PROVE IInv'
<1>1. BaseInv'
  BY Zenon, StayKeeps DEF IInv, BaseInv, ShapeInv, CombineNone, Points, Ready
<1>2. TurnInv'
  BY Zenon, EmptySet DEF IInv, TurnInv, CombineNone, inputs, Priority, Combine, Below
<1> QED  BY Zenon, <1>1, <1>2 DEF IInv

LEMMA ScanBypassKeeps == ASSUME IInv, ScanBypass PROVE IInv'
<1>1. BaseInv'
  BY Zenon, BypassKeeps DEF IInv, BaseInv, ShapeInv, ScanBypass, MayBypass
<1>2. TurnInv'
  BY Zenon DEF IInv, TurnInv, ScanBypass, inputs, Priority, Combine
<1> QED  BY Zenon, <1>1, <1>2 DEF IInv

LEMMA ScanFoundKeeps == ASSUME IInv, ScanFound PROVE IInv'
<1>1. IsPeer(NextInput) /\ peers = <<>>
  BY Zenon DEF IInv, TurnInv, ScanFound, IsPeer, Peers
<1> QED  BY Zenon, <1>1, FoundKeeps DEF ScanFound

LEMMA ScanNoneKeeps == ASSUME IInv, ScanNone PROVE IInv'
<1>1. deferred \in Seq(Nat) /\ channel \in Seq(Nat) /\ bypassed \in Seq(Nat)
  BY Zenon DEF IInv, BaseInv, ShapeInv
<1>2. Ready' = bypassed \o Ready /\ deferred' \in Seq(Nat) /\ channel' \in Seq(Nat)
  <2>1. CASE deferred = <<>> /\ channel # <<>>
    <3>1. deferred' = bypassed \o <<Head(channel)>> /\ channel' = Tail(channel) /\ Ready = channel
      BY Zenon, <1>1, <2>1, ConcatEmptySeq DEF ScanNone, Ready
    <3>2. <<Head(channel)>> \o Tail(channel) = channel /\ <<Head(channel)>> \in Seq(Nat) /\ Tail(channel) \in Seq(Nat)
      BY Zenon, <1>1, <2>1, HeadFirst
    <3>3. (bypassed \o <<Head(channel)>>) \o Tail(channel) = bypassed \o channel
      <4>1. bypassed \in Seq(Nat)  BY Zenon, <1>1
      <4>2. (bypassed \o <<Head(channel)>>) \o Tail(channel) = bypassed \o (<<Head(channel)>> \o Tail(channel))
        BY ZenonT(30), <3>2, <4>1, Regroup
      <4> QED  BY Zenon, <3>2, <4>2
    <3> QED  BY Zenon, <1>1, <3>1, <3>2, <3>3, ConcatProperties DEF Ready
  <2>2. CASE ~(deferred = <<>> /\ channel # <<>>)
    <3>1. deferred' = bypassed \o deferred /\ channel' = channel
      BY Zenon, <2>2 DEF ScanNone, Restored
    <3>2. (bypassed \o deferred) \o channel = bypassed \o (deferred \o channel) /\ bypassed \o deferred \in Seq(Nat)
      BY Zenon, <1>1, Regroup
    <3> QED  BY Zenon, <1>1, <3>1, <3>2 DEF Ready
  <2> QED  BY Zenon, <2>1, <2>2
<1>3. peers = <<>> /\ (bypassed # <<>> => Priority)
  BY Zenon DEF IInv, TurnInv, ScanNone
<1>4. BaseInv'
  BY Zenon, <1>2, <1>3, RestoreKeeps DEF IInv, ScanNone, Points
<1>5. TurnInv'
  BY Zenon, <1>3, EmptySet DEF TurnInv, ScanNone, Below
<1> QED  BY Zenon, <1>4, <1>5 DEF IInv

LEMMA OvertakeKeeps == ASSUME IInv, Overtake PROVE IInv'
<1>1. peers \in Seq(Nat) /\ commands \in Seq(Nat)
  BY Zenon DEF IInv, BaseInv, ShapeInv
<1>2. Ready' = bypassed \o Ready /\ deferred' \in Seq(Nat) /\ channel' \in Seq(Nat)
  <2>1. deferred \in Seq(Nat) /\ channel \in Seq(Nat) /\ bypassed \in Seq(Nat)
    BY Zenon DEF IInv, BaseInv, ShapeInv
  <2>2. (bypassed \o deferred) \o channel = bypassed \o (deferred \o channel) /\ bypassed \o deferred \in Seq(Nat)
    BY Zenon, <2>1, Regroup
  <2> QED  BY <2>1, <2>2 DEF Overtake, Restored, Ready
<1>3. bypassed # <<>> => Priority
  BY Zenon DEF IInv, TurnInv
<1>4. BaseInv'
  <2>1. CASE Combine
    <3>1. commands \o peers \in Seq(Nat) /\ Ascending(commands \o peers)
          /\ Range(commands \o peers) = Range(peers) \cup Range(commands)
      BY <1>1, Concat DEF IInv, BaseInv, OrderInv, TurnInv, Overtake
    <3> QED  BY ZenonT(30), <1>2, <1>3, <2>1, <3>1, StepKeeps DEF IInv, Overtake, Combined, Points
  <2>2. CASE ~Combine
    <3>1. Priority /\ Ascending(peers)
      BY Zenon, <2>2 DEF IInv, BaseInv, ShapeInv, OrderInv, TurnInv, Overtake, Priority, Combine
    <3> QED  BY Zenon, <1>1, <1>2, <1>3, <2>2, <3>1, StepKeeps DEF IInv, Overtake, Points
  <2> QED  BY Zenon, <2>1, <2>2
<1>5. TurnInv'
  BY Zenon, EmptySet DEF TurnInv, Overtake, Below
<1> QED  BY Zenon, <1>4, <1>5 DEF IInv

LEMMA StepActionKeeps == ASSUME IInv, Step PROVE IInv'
<1>1. /\ deferred \in Seq(Nat) /\ channel \in Seq(Nat) /\ stepped \in Seq(Nat)
      /\ peers \in Seq(Nat) /\ commands \in Seq(Nat) /\ bypassed = <<>>
  BY Zenon DEF IInv, BaseInv, ShapeInv, TurnInv, Step
<1>2. /\ peers \o commands \in Seq(Nat) /\ Ascending(peers \o commands)
      /\ Range(peers \o commands) = Range(peers) \cup Range(commands)
  BY Zenon, <1>1, Concat DEF IInv, BaseInv, OrderInv, TurnInv, Step
<1>3. stepped' = stepped \o (peers \o commands)
  <2>1. (stepped \o peers) \o commands = stepped \o (peers \o commands)
    <3>1. stepped \in Seq(Nat) /\ peers \in Seq(Nat) /\ commands \in Seq(Nat)
      BY Zenon, <1>1
    <3> QED  BY ZenonT(30), <3>1, Regroup
  <2>2. stepped' = (stepped \o peers) \o commands
    BY Zenon DEF Step
  <2> QED  BY Zenon, <2>1, <2>2
<1>4. Ready' = bypassed \o Ready /\ bypassed' = <<>>
  BY Zenon, <1>1, Concat, ConcatEmptySeq DEF Step, Ready
<1>5. BaseInv'
  BY Zenon, <1>1, <1>2, <1>3, <1>4, StepKeeps DEF IInv, Step, Points
<1>6. TurnInv'
  BY Zenon, <1>1, EmptySet DEF TurnInv, Step, Below
<1> QED  BY Zenon, <1>5, <1>6 DEF IInv

-----------------------------------------------------------------------------
\* Before the first input.
LEMMA InitIInv == Init => IInv
<1> SUFFICES ASSUME Init PROVE IInv
  BY Zenon
<1>1. /\ Ready = <<>> /\ bypassed = <<>> /\ peers = <<>> /\ commands = <<>> /\ served = <<>> /\ stepped = <<>>
      /\ Len(stepped) = 0 /\ arrived = 0 /\ 1..0 = {}
  BY ConcatEmptySeq, EmptySeq DEF Init, Ready
<1>2. ShapeInv
  BY Zenon, MailboxAssumption, EmptySeq DEF Init, ShapeInv, Points
<1>3. PlaceInv /\ CoverInv
  BY Zenon, <1>1, EmptySet DEF PlaceInv, CoverInv
<1>4. OrderInv
  BY Zenon, <1>1, EmptySet DEF OrderInv, Below
<1>5. TurnInv
  BY Zenon, <1>1, EmptySet DEF Init, TurnInv, Below
<1> QED  BY Zenon, <1>2, <1>3, <1>4, <1>5 DEF IInv, BaseInv

LEMMA NextKeeps == IInv /\ [Next]_vars => IInv'
<1> SUFFICES ASSUME IInv, [Next]_vars PROVE IInv'
  BY Zenon
<1>1. CASE Arrive
  BY Zenon, <1>1, ArriveKeeps
<1>2. CASE OwnerStep
  BY Zenon, <1>2, TakeWakeKeeps, TakePeerKeeps, TakeClientKeeps, CollectPeerKeeps, CollectPeerEndKeeps,
     CollectClientKeeps, CollectClientEndKeeps, CollectedKeeps, CombineFoundKeeps, CombineNoneKeeps,
     ScanBypassKeeps, ScanFoundKeeps, ScanNoneKeeps, OvertakeKeeps, StepActionKeeps DEF OwnerStep
<1>3. CASE UNCHANGED vars
  <2>1. Ready' = Ready /\ deferred' \in Seq(Nat) /\ channel' \in Seq(Nat) /\ pc' \in Points
    BY Zenon, <1>3 DEF IInv, BaseInv, ShapeInv, vars, Ready
  <2>2. BaseInv'
    BY Zenon, <1>3, <2>1, StayKeeps DEF IInv, vars, inputs
  <2>3. TurnInv'
    BY Zenon, <1>3 DEF IInv, TurnInv, vars, Priority, Combine
  <2> QED  BY Zenon, <2>2, <2>3 DEF IInv
<1> QED  BY Zenon, <1>1, <1>2, <1>3 DEF Next, Quiet

LEMMA Inductive == Spec => []IInv
  BY InitIInv, NextKeeps, PTL DEF Spec

\* The order of arrival is kept for any batch sizes: clients are served and
\* proposed in it, peers are stepped in it, and without completion priority the
\* engine sees all inputs in it, combined steps included.
THEOREM OrderKept == Spec => []ArrivalOrder
<1>1. IInv => ArrivalOrder
  BY Zenon DEF IInv, BaseInv, OrderInv, ArrivalOrder
<1> QED  BY <1>1, Inductive, PTL

\* Wherever the owner is in a turn, every input that arrived is in exactly one
\* place, or was a wake-up: whatever was taken, put back, passed by, restored.
THEOREM EachInputOnce == Spec => []NothingLost
<1>1. ASSUME NEW s \in Seq(Nat), Ascending(s) PROVE IsInjective(s)
  BY <1>1, LenProperties DEF Ascending, IsInjective
<1>2. ASSUME IInv PROVE NothingLost
  <2>1. /\ Ready \in Seq(Nat) /\ bypassed \in Seq(Nat) /\ peers \in Seq(Nat)
        /\ served \in Seq(Nat) /\ stepped \in Seq(Nat)
    BY Zenon, <1>2, Concat DEF IInv, BaseInv, ShapeInv, Ready
  <2>2. IsInjective(Ready) /\ IsInjective(bypassed) /\ IsInjective(peers) /\ IsInjective(served)
    BY Zenon, <1>1, <1>2, <2>1 DEF IInv, BaseInv, OrderInv
  <2>3. /\ \A i \in Range(bypassed) : ~IsPeer(i)
        /\ \A i \in Range(peers) : IsPeer(i)
        /\ \A i \in Range(served) : ~IsPeer(i)
    BY Zenon, <1>2 DEF IInv, BaseInv, PlaceInv, IsPeer, Peers, Clients
  <2>4. \A i \in Range(Ready) \cup Range(bypassed) \cup Range(peers) \cup Range(served) : i \in Nat
    BY <1>2 DEF IInv, BaseInv, PlaceInv
  <2>5. /\ Range(Ready) \cap Range(bypassed) = {}
        /\ (Range(Ready) \cup Range(bypassed)) \cap Range(peers) = {}
        /\ (Range(Ready) \cup Range(bypassed) \cup Range(peers)) \cap Range(served) = {}
    BY <1>2, <2>3, <2>4 DEF IInv, BaseInv, OrderInv, Below
  <2>6. /\ IsInjective(Ready \o bypassed \o peers \o served)
        /\ Range(Ready \o bypassed \o peers \o served) =
             Range(Ready) \cup Range(bypassed) \cup Range(peers) \cup Range(served)
    <3>1. /\ Ready \o bypassed \in Seq(Nat) /\ IsInjective(Ready \o bypassed)
          /\ Range(Ready \o bypassed) = Range(Ready) \cup Range(bypassed)
      BY Zenon, <2>1, <2>2, <2>5, Concat, ConcatOnce
    <3>2. /\ Ready \o bypassed \o peers \in Seq(Nat) /\ IsInjective(Ready \o bypassed \o peers)
          /\ Range(Ready \o bypassed \o peers) = Range(Ready) \cup Range(bypassed) \cup Range(peers)
      <4> DEFINE a == Ready \o bypassed
      <4>1. /\ a \in Seq(Nat) /\ IsInjective(a) /\ peers \in Seq(Nat) /\ IsInjective(peers)
            /\ Range(a) = Range(Ready) \cup Range(bypassed) /\ Range(a) \cap Range(peers) = {}
        BY Zenon, <2>1, <2>2, <2>5, <3>1
      <4> HIDE DEF a
      <4>2. /\ a \o peers \in Seq(Nat) /\ IsInjective(a \o peers)
            /\ Range(a \o peers) = Range(a) \cup Range(peers)
        BY Zenon, <4>1, Concat, ConcatOnce
      <4> QED  BY Zenon, <4>1, <4>2 DEF a
    <3>3. /\ IsInjective(Ready \o bypassed \o peers \o served)
          /\ Range(Ready \o bypassed \o peers \o served) = Range(Ready \o bypassed \o peers) \cup Range(served)
      <4> DEFINE a == Ready \o bypassed \o peers
      <4>1. /\ a \in Seq(Nat) /\ IsInjective(a) /\ served \in Seq(Nat) /\ IsInjective(served)
            /\ Range(a) \cap Range(served) = {}
        BY Zenon, <2>1, <2>2, <2>5, <3>2
      <4> HIDE DEF a
      <4>2. IsInjective(a \o served) /\ Range(a \o served) = Range(a) \cup Range(served)
        BY Zenon, <4>1, Concat, ConcatOnce
      <4> QED  BY Zenon, <4>2 DEF a
    <3> QED  BY Zenon, <3>2, <3>3
  <2>7. IsInjective(stepped)
    <3>1. DOMAIN stepped = 1..Len(stepped) /\ Len(stepped) \in Nat /\ \A i \in 1..Len(stepped) : stepped[i] \in Nat
      BY Zenon, <2>1, LenProperties
    <3>2. ASSUME NEW m \in 1..Len(stepped), NEW n \in 1..Len(stepped), m < n PROVE stepped[m] # stepped[n]
      <4>1. \/ stepped[m] < stepped[n]
            \/ Priority /\ ~(IsPeer(stepped[m]) <=> IsPeer(stepped[n]))
        BY Zenon, <1>2, <3>2 DEF IInv, BaseInv, OrderInv
      <4>2. stepped[m] \in Nat /\ stepped[n] \in Nat
        BY Zenon, <3>1
      <4>3. CASE stepped[m] < stepped[n]
        BY <4>2, <4>3
      <4>4. CASE ~(IsPeer(stepped[m]) <=> IsPeer(stepped[n]))
        BY Zenon, <4>4
      <4> QED  BY Zenon, <4>1, <4>3, <4>4
    <3> QED  BY <3>1, <3>2 DEF IsInjective
  <2>8. \A i \in Range(stepped) : IsPeer(i) =>
          i \notin Range(Ready) \cup Range(bypassed) \cup Range(peers) \cup Range(served)
    BY <1>2, <2>3, <2>4 DEF IInv, BaseInv, OrderInv
  <2> QED  BY <1>2, <2>6, <2>7, <2>8 DEF IInv, BaseInv, CoverInv, NothingLost
<1> QED  BY <1>2, Inductive, PTL

-----------------------------------------------------------------------------
(* What an acknowledgement may overtake.                                   *)

\* What the engine has seen when it sees the m-th input, and the inputs it has
\* seen or may still see: a command leaves only by being refused.
Seen(m) == {stepped[k] : k \in 1..m}
Live == {i \in 1..arrived : i \in Range(stepped) \/ i \in Range(commands) \/ i \notin Range(served)}
Passed(m) == {i \in Live : kind[i] # "wake" /\ i < stepped[m] /\ i \notin Seen(m)}

\* What a turn collects is bounded, and so is what waits to be put back.
BoundInv ==
  /\ Len(commands) <= BatchSize /\ Len(bypassed) <= BatchSize
  /\ Len(bypassed) + Len(deferred) <= BatchSize + 1
  /\ \A i \in Range(commands) : kind[i] = "execute"
  /\ pc \in {"overtaking", "overtaken"} => \A i \in Range(peers) : kind[i] = "ack"

PassOnly(m) ==
  /\ Passed(m) # {} => kind[stepped[m]] = "ack" /\ Priority
  /\ \A i \in Passed(m) : kind[i] = "execute"
  /\ Cardinality(Passed(m)) <= 2 * BatchSize
PassInv == \A m \in 1..Len(stepped) : IsPeer(stepped[m]) => PassOnly(m)

LEMMA UpTo ==
  ASSUME NEW n \in Nat
  PROVE  IsFiniteSet(1..n) /\ Cardinality(1..n) = n
<1>1. 1 \in Int /\ n \in Int
  OBVIOUS
<1>2. IsFiniteSet(1..n) /\ Cardinality(1..n) = IF 1 > n THEN 0 ELSE n - 1 + 1
  BY Zenon, <1>1, FS_Interval
<1> QED  BY <1>2

\* A sequence has no more elements than places.
LEMMA RangeSize ==
  ASSUME NEW s \in Seq(Nat)
  PROVE  IsFiniteSet(Range(s)) /\ Cardinality(Range(s)) <= Len(s) /\ Cardinality(Range(s)) \in Nat
<1>1. Len(s) \in Nat /\ DOMAIN s = 1..Len(s) /\ s \in [1..Len(s) -> Nat]
  BY Zenon, LenProperties
<1>2. s \in Surjection(1..Len(s), Range(s))
  BY Zenon, <1>1 DEF Surjection, Range
<1>3. IsFiniteSet(1..Len(s)) /\ Cardinality(1..Len(s)) = Len(s)
  BY Zenon, <1>1, UpTo
<1>4. IsFiniteSet(Range(s)) /\ Cardinality(Range(s)) <= Len(s)
  BY <1>2, <1>3, FS_Surjection
<1> QED  BY Zenon, <1>4, FS_CardinalityType

\* Once an input is stepped, the inputs it passed only become fewer.
LEMMA PassedShrinks ==
  ASSUME IInv, arrived' \in Nat, arrived <= arrived', mode' = mode, \A i \in 1..arrived : kind'[i] = kind[i],
         NEW X \in Seq(Nat), stepped' = stepped \o X,
         \A i \in 1..arrived : i \in Live' => i \in Live,
         NEW m \in 1..Len(stepped), IsPeer(stepped[m]) => PassOnly(m)
  PROVE  IsPeer(stepped[m])' => PassOnly(m)'
<1>1. stepped \in Seq(Nat) /\ arrived \in Nat
  BY Zenon DEF IInv, BaseInv, ShapeInv
<1>2. Len(stepped) \in Nat /\ \A k \in 1..Len(stepped) : stepped'[k] = stepped[k]
  BY <1>1, ConcatProperties, LenProperties
<1>3. stepped[m] \in 1..arrived
  <2>1. stepped[m] \in Range(stepped)
    BY Zenon, <1>1, LenProperties DEF Range
  <2> QED  BY Zenon, <2>1 DEF IInv, BaseInv, PlaceInv
<1>4. stepped'[m] = stepped[m] /\ Seen(m)' = Seen(m) /\ kind'[stepped[m]] = kind[stepped[m]]
  BY <1>2, <1>3 DEF Seen
<1>5. Passed(m)' \subseteq Passed(m)
  <2> SUFFICES ASSUME NEW i \in Passed(m)' PROVE i \in Passed(m)
    BY Zenon
  <2>1. i \in Live' /\ i \in 1..arrived' /\ kind'[i] # "wake" /\ i < stepped[m] /\ i \notin Seen(m)
    BY Zenon, <1>4 DEF Passed, Live
  <2>2. i \in 1..arrived
    BY <1>1, <1>3, <2>1
  <2> QED  BY Zenon, <2>1, <2>2 DEF Passed
<1>6. IsFiniteSet(Passed(m)) /\ Passed(m) \subseteq 1..arrived
  <2>1. Passed(m) \subseteq 1..arrived /\ IsFiniteSet(1..arrived)
    BY Zenon, <1>1, UpTo DEF Passed, Live
  <2> QED  BY ZenonT(30), <2>1, FS_Subset
<1>7. /\ Cardinality(Passed(m)') <= Cardinality(Passed(m))
      /\ Cardinality(Passed(m)) \in Nat /\ Cardinality(Passed(m)') \in Nat
  BY Zenon, <1>5, <1>6, FS_Subset, FS_CardinalityType
<1>8. ASSUME IsPeer(stepped[m])' PROVE PassOnly(m)'
  <2>1. PassOnly(m)
    BY Zenon, <1>4, <1>8 DEF IsPeer
  <2>2. Passed(m)' # {} => kind[stepped[m]] = "ack" /\ Priority
    BY Zenon, <1>5, <2>1 DEF PassOnly
  <2>3. \A i \in Passed(m)' : kind'[i] = "execute"
    BY Zenon, <1>5, <1>6, <2>1 DEF PassOnly
  <2>4. Cardinality(Passed(m)') <= 2 * BatchSize
    BY <1>7, <2>1, MailboxAssumption DEF PassOnly
  <2> QED  BY Zenon, <1>4, <2>2, <2>3, <2>4 DEF PassOnly, Priority
<1> QED  BY Zenon, <1>8

\* An action that steps nothing.
LEMMA NothingStepped ==
  ASSUME IInv, PassInv, UNCHANGED <<inputs, stepped>>, \A i \in 1..arrived : i \in Live' => i \in Live
  PROVE  PassInv'
<1>1. stepped \in Seq(Nat) /\ arrived \in Nat
  BY Zenon DEF IInv, BaseInv, ShapeInv
<1>2. <<>> \in Seq(Nat) /\ stepped' = stepped \o <<>> /\ arrived' = arrived /\ arrived <= arrived' /\ mode' = mode /\ kind' = kind
  BY <1>1, ConcatEmptySeq, EmptySet DEF inputs
<1>3. \A m \in 1..Len(stepped) : IsPeer(stepped[m])' => PassOnly(m)'
  BY ZenonT(30), <1>1, <1>2, PassedShrinks DEF PassInv
<1> QED  BY Zenon, <1>2, <1>3 DEF PassInv

\* Peers and commands that are stepped: a peer passes the commands of its turn
\* and what the lookahead went past, and only in a lookahead.
LEMMA StepPasses ==
  ASSUME IInv, BoundInv, PassInv, NEW X \in Seq(Nat), Ascending(X), stepped' = stepped \o X,
         UNCHANGED <<inputs, served>>,
         \/ Range(X) = Range(peers) \cup Range(commands) /\ commands' = <<>> /\ bypassed = <<>>
         \/ Range(X) = Range(peers) /\ commands' = commands /\ Priority /\ pc = "overtaken"
  PROVE  PassInv'
<1>1. /\ stepped \in Seq(Nat) /\ arrived \in Nat /\ commands \in Seq(Nat) /\ bypassed \in Seq(Nat)
      /\ mode' = mode /\ kind' = kind /\ arrived' = arrived /\ served' = served
  BY Zenon DEF IInv, BaseInv, ShapeInv, inputs
<1>2. /\ Len(stepped') = Len(stepped) + Len(X) /\ Len(stepped) \in Nat /\ Len(X) \in Nat
      /\ \A k \in 1..(Len(stepped) + Len(X)) :
           stepped'[k] = IF k <= Len(stepped) THEN stepped[k] ELSE X[k - Len(stepped)]
      /\ DOMAIN stepped = 1..Len(stepped) /\ DOMAIN X = 1..Len(X)
  BY Zenon, <1>1, ConcatProperties, LenProperties
<1>3. Range(stepped') = Range(stepped) \cup Range(X)
  BY Zenon, <1>1, Concat
<1>4. /\ \A i \in Range(peers) : IsPeer(i) /\ i \notin Range(served)
      /\ \A i \in Range(commands) : ~IsPeer(i) /\ i \in Range(served)
  BY Zenon DEF IInv, BaseInv, PlaceInv, IsPeer, Peers, Clients
<1>5. ASSUME NEW m \in 1..Len(stepped), IsPeer(stepped[m])' PROVE PassOnly(m)'
  <2>1. \A i \in 1..arrived : i \in Live' => i \in Live
    BY Zenon, <1>1, <1>3, <1>4, EmptySet DEF Live
  <2>2. IsPeer(stepped[m]) => PassOnly(m)
    BY Zenon DEF PassInv
  <2>3. arrived' \in Nat /\ arrived <= arrived'
    BY <1>1
  <2> QED  BY ZenonT(30), <1>1, <1>5, <2>1, <2>2, <2>3, PassedShrinks
<1>6. ASSUME NEW m \in Nat, NEW k \in 1..Len(X), m = Len(stepped) + k, NEW x, x = X[k], IsPeer(x)
      PROVE  PassOnly(m)'
  <2>1. m \in 1..(Len(stepped) + Len(X)) /\ stepped'[m] = x
    <3>1. m \in 1..(Len(stepped) + Len(X)) /\ ~(m <= Len(stepped)) /\ m - Len(stepped) = k
      BY <1>2, <1>6
    <3> QED  BY <1>2, <1>6, <3>1
  <2>2. x \in Range(X) /\ x \in Range(peers)
    <3>1. x \in Range(X)
      BY ZenonT(30), <1>2, <1>6 DEF Range
    <3> QED  BY <1>4, <1>6, <3>1
  <2>3. Range(stepped) \subseteq Seen(m)'
    <3> SUFFICES ASSUME NEW j \in 1..Len(stepped) PROVE stepped[j] \in Seen(m)'
      BY Zenon, <1>2 DEF Range
    <3>1. j \in 1..m /\ stepped'[j] = stepped[j]
      BY <1>2, <1>6
    <3> QED  BY Zenon, <3>1 DEF Seen
  <2>4. \A y \in Range(X) : y < x => y \in Seen(m)'
    <3> SUFFICES ASSUME NEW j \in 1..Len(X), X[j] < x PROVE X[j] \in Seen(m)'
      BY Zenon, <1>2 DEF Range
    <3>1. X[j] \in Nat /\ X[k] \in Nat
      BY <1>2
    <3>2. j <= k
      BY <1>2, <1>6, <3>1 DEF Ascending
    <3>3. Len(stepped) + j \in 1..m /\ stepped'[Len(stepped) + j] = X[j]
      <4>1. Len(stepped) + j \in 1..(Len(stepped) + Len(X)) /\ ~(Len(stepped) + j <= Len(stepped))
            /\ (Len(stepped) + j) - Len(stepped) = j /\ Len(stepped) + j \in 1..m
        BY <1>2, <1>6, <3>2
      <4> QED  BY Zenon, <1>2, <4>1
    <3> QED  BY ZenonT(30), <3>3 DEF Seen
  <2>5. Passed(m)' \subseteq Range(bypassed) \cup Range(commands')
    <3> SUFFICES ASSUME NEW i \in Passed(m)' PROVE i \in Range(bypassed) \cup Range(commands')
      BY Zenon
    <3>1. i \in Live' /\ i \in 1..arrived /\ kind[i] # "wake" /\ i < x /\ i \notin Seen(m)'
      BY Zenon, <1>1, <2>1 DEF Passed, Live
    <3>2. i \notin Range(stepped) /\ i \notin Range(X) /\ i \notin Range(peers)
      BY Zenon, <2>3, <2>4, <3>1
    <3>3. i \notin Range(Ready)
      <4>1. \A y \in Range(Ready) : y \in Nat /\ x < y
        BY <2>2 DEF IInv, BaseInv, PlaceInv, OrderInv, Below
      <4>2. x \in Nat /\ i \in Nat
        BY <1>1, <2>2, <3>1 DEF IInv, BaseInv, PlaceInv
      <4>3. ~(x < i)
        BY <3>1, <4>2
      <4> QED  BY Zenon, <4>1, <4>3
    <3>4. i \in Range(commands') \/ i \notin Range(served)
      BY Zenon, <1>1, <1>3, <3>1, <3>2 DEF Live
    <3> QED  BY Zenon, <3>1, <3>2, <3>3, <3>4 DEF IInv, BaseInv, CoverInv
  <2>6. CASE commands' = <<>> /\ bypassed = <<>>
    <3>1. Passed(m)' = {}
      BY Zenon, <2>5, <2>6, EmptySet
    <3>2. Cardinality(Passed(m)') = 0
      BY Zenon, <3>1, FS_EmptySet
    <3> QED  BY <3>1, <3>2, MailboxAssumption DEF PassOnly
  <2>7. CASE commands' = commands /\ Priority /\ pc = "overtaken"
    <3>1. /\ IsFiniteSet(Range(bypassed)) /\ Cardinality(Range(bypassed)) <= Len(bypassed) /\ Cardinality(Range(bypassed)) \in Nat
          /\ IsFiniteSet(Range(commands)) /\ Cardinality(Range(commands)) <= Len(commands) /\ Cardinality(Range(commands)) \in Nat
      BY Zenon, <1>1, RangeSize
    <3>2. /\ IsFiniteSet(Range(bypassed) \cup Range(commands))
          /\ Cardinality(Range(bypassed) \cup Range(commands)) =
               Cardinality(Range(bypassed)) + Cardinality(Range(commands)) - Cardinality(Range(bypassed) \cap Range(commands))
      BY ZenonT(30), <3>1, FS_Union
    <3>3. Cardinality(Range(bypassed) \cap Range(commands)) \in Nat
      <4>1. IsFiniteSet(Range(bypassed) \cap Range(commands))
        BY Zenon, <3>1, FS_Subset
      <4> QED  BY Zenon, <4>1, FS_CardinalityType
    <3>4. /\ Cardinality(Passed(m)') <= Cardinality(Range(bypassed) \cup Range(commands))
          /\ Cardinality(Passed(m)') \in Nat
      <4>1. Passed(m)' \in SUBSET (Range(bypassed) \cup Range(commands))
        BY Zenon, <2>5, <2>7
      <4>2. IsFiniteSet(Passed(m)') /\ Cardinality(Passed(m)') <= Cardinality(Range(bypassed) \cup Range(commands))
        BY Zenon, <3>2, <4>1, FS_Subset
      <4> QED  BY Zenon, <4>2, FS_CardinalityType
    <3>5. Len(commands) \in Nat /\ Len(bypassed) \in Nat /\ Len(commands) <= BatchSize /\ Len(bypassed) <= BatchSize
      BY Zenon, <1>1, LenProperties DEF BoundInv
    <3>6. Cardinality(Passed(m)') <= 2 * BatchSize
      <4> DEFINE passed == Cardinality(Passed(m)')
                 all == Cardinality(Range(bypassed) \cup Range(commands))
                 b == Cardinality(Range(bypassed))
                 c == Cardinality(Range(commands))
                 both == Cardinality(Range(bypassed) \cap Range(commands))
      <4>1. /\ passed \in Nat /\ b \in Nat /\ c \in Nat /\ both \in Nat /\ BatchSize \in Nat
            /\ passed <= all /\ all = b + c - both /\ b <= Len(bypassed) /\ c <= Len(commands)
        BY <3>1, <3>2, <3>3, <3>4, MailboxAssumption
      <4> HIDE DEF passed, all, b, c, both
      <4>2. passed <= 2 * BatchSize
        BY <3>5, <4>1
      <4> QED  BY Zenon, <4>2 DEF passed
    <3>7. kind[x] = "ack"
      BY Zenon, <2>2, <2>7 DEF BoundInv
    <3>8. \A i \in Passed(m)' : kind[i] = "execute"
      BY Zenon, <2>5, <2>7 DEF BoundInv, IInv, BaseInv, PlaceInv
    <3> QED  BY Zenon, <1>1, <2>1, <2>7, <3>6, <3>7, <3>8 DEF PassOnly, Priority
  <2> QED  BY Zenon, <2>6, <2>7
<1>7. ASSUME NEW m \in 1..Len(stepped'), IsPeer(stepped[m])' PROVE PassOnly(m)'
  <2>1. CASE m <= Len(stepped)
    BY <1>2, <1>5, <1>7, <2>1
  <2>2. CASE ~(m <= Len(stepped))
    <3>1. /\ m \in Nat /\ m - Len(stepped) \in 1..Len(X) /\ stepped'[m] = X[m - Len(stepped)]
          /\ m = Len(stepped) + (m - Len(stepped))
      BY <1>2, <2>2
    <3>2. IsPeer(X[m - Len(stepped)])
      BY Zenon, <1>1, <1>7, <3>1 DEF IsPeer
    <3> QED  BY Zenon, <1>6, <3>1, <3>2
  <2> QED  BY Zenon, <2>1, <2>2
<1> QED  BY Zenon, <1>7 DEF PassInv

-----------------------------------------------------------------------------
(* The bounds of a turn.                                                   *)

LEMMA Lengths ==
  ASSUME IInv
  PROVE  /\ Len(commands) \in Nat /\ Len(bypassed) \in Nat /\ Len(deferred) \in Nat /\ Len(peers) \in Nat
         /\ commands \in Seq(Nat) /\ bypassed \in Seq(Nat) /\ deferred \in Seq(Nat) /\ channel \in Seq(Nat)
         /\ peers \in Seq(Nat) /\ BatchSize \in Nat \ {0} /\ Len(<<>>) = 0
  BY Zenon, LenProperties, MailboxAssumption, EmptySeq DEF IInv, BaseInv, ShapeInv

\* Taking an input does not lengthen what is deferred; pushing back the input
\* that was peeked at leaves one there.
LEMMA PopLength ==
  ASSUME IInv, Ready # <<>>, Pop
  PROVE  /\ Len(deferred') \in Nat
         /\ \/ deferred # <<>> /\ Len(deferred') = Len(deferred) - 1
            \/ Len(deferred) = 0 /\ Len(deferred') = 0
  BY Lengths, HeadTailProperties, EmptySeq DEF Pop

LEMMA PeekLength ==
  ASSUME IInv, Peek
  PROVE  /\ Len(deferred') \in Nat
         /\ Len(deferred') = Len(deferred) \/ (Len(deferred) = 0 /\ Len(deferred') = 1)
  BY Lengths DEF Peek

\* What a lookahead went past goes back.
LEMMA RestoreLength ==
  ASSUME IInv
  PROVE  Len(bypassed \o deferred) = Len(bypassed) + Len(deferred)
  BY Zenon, Lengths, ConcatProperties

\* Nothing is collected, passed by or put back.
LEMMA BoundStays ==
  ASSUME IInv, BoundInv, UNCHANGED <<inputs, commands, bypassed>>, Len(deferred') \in Nat,
         Len(deferred') <= Len(deferred) \/ (Len(deferred) = 0 /\ Len(deferred') <= 1),
         pc' \in {"overtaking", "overtaken"} => \A i \in Range(peers') : kind[i] = "ack"
  PROVE  BoundInv'
<1>1. Len(bypassed) + Len(deferred') <= BatchSize + 1
  BY Lengths DEF BoundInv
<1> QED  BY Zenon, <1>1 DEF BoundInv, inputs

LEMMA ClientBound ==
  ASSUME IInv, BoundInv, Ready # <<>>, Pop, Serve, Len(commands) < BatchSize,
         UNCHANGED <<inputs, bypassed>>, pc' \notin {"overtaking", "overtaken"}
  PROVE  BoundInv'
<1>1. NextInput \in Nat
  BY Taken DEF IInv
<1>2. /\ Len(commands') <= BatchSize
      /\ \A i \in Range(commands') : kind[i] = "execute"
  <2>1. CASE commands' = commands
    BY Zenon, <2>1 DEF BoundInv
  <2>2. CASE kind[NextInput] = "execute" /\ commands' = Append(commands, NextInput)
    <3>1. Len(commands') = Len(commands) + 1
      BY <1>1, <2>2, Lengths, AppendProperties
    <3>2. Range(commands') = Range(commands) \cup {NextInput}
      BY Zenon, <1>1, <2>2, Lengths, AppendOne
    <3> QED  BY <2>2, <3>1, <3>2, Lengths DEF BoundInv
  <2> QED  BY Zenon, <2>1, <2>2 DEF Serve
<1>3. Len(bypassed) + Len(deferred') <= BatchSize + 1
  BY Lengths, PopLength DEF BoundInv
<1> QED  BY Zenon, <1>2, <1>3 DEF BoundInv, inputs

LEMMA BoundKeeps == ASSUME IInv, BoundInv, [Next]_vars PROVE BoundInv'
<1>1. CASE Arrive
  <2>1. /\ \A i \in 1..arrived : kind'[i] = kind[i]
        /\ UNCHANGED <<deferred, pc, peers, commands, bypassed>>
    <3>1. PICK k \in Kinds : kind' = Append(kind, k)
      BY Zenon, <1>1 DEF Arrive
    <3>2. kind \in Seq(Kinds) /\ Len(kind) = arrived
      BY Zenon DEF IInv, BaseInv, ShapeInv
    <3> QED  BY <1>1, <3>1, <3>2, AppendProperties DEF Arrive, turn
  <2>2. \A i \in Range(commands) \cup Range(peers) : i \in 1..arrived
    BY Zenon DEF IInv, BaseInv, PlaceInv
  <2> QED  BY Zenon, <2>1, <2>2 DEF BoundInv
<1>2. CASE TakeWake \/ TakePeer
  <2>1. Ready # <<>> /\ Pop /\ UNCHANGED <<inputs, commands, bypassed>> /\ pc' \notin {"overtaking", "overtaken"}
    BY Zenon, <1>2 DEF TakeWake, TakePeer, turn
  <2> QED  BY <2>1, Lengths, PopLength, BoundStays
<1>3. CASE CollectPeer
  <2>1. /\ Ready # <<>> /\ Pop /\ UNCHANGED <<inputs, pc, commands, bypassed>> /\ peers' = Append(peers, NextInput)
        /\ pc = "overtaking" => kind[NextInput] = "ack"
        /\ pc # "overtaken"
    BY Zenon, <1>3 DEF CollectPeer, Fits, FitsAfterScan
  <2>2. NextInput \in Nat
    BY <2>1, Taken DEF IInv
  <2>3. Range(peers') = Range(peers) \cup {NextInput}
    BY Zenon, <2>1, <2>2, Lengths, AppendOne
  <2>4. pc' \in {"overtaking", "overtaken"} => \A i \in Range(peers') : kind[i] = "ack"
    BY Zenon, <2>1, <2>3 DEF BoundInv
  <2> QED  BY <2>1, <2>4, Lengths, PopLength, BoundStays
<1>4. CASE CombineFound \/ ScanFound
  <2>1. /\ Len(deferred') \in Nat /\ Len(deferred') <= Len(deferred)
        /\ UNCHANGED <<inputs, commands, bypassed>>
        /\ \E i : kind[i] = "ack" /\ peers' = <<i>>
    <3>1. CASE CombineFound
      BY <3>1, Lengths, HeadTailProperties DEF CombineFound
    <3>2. CASE ScanFound
      BY <3>2, Lengths, PopLength DEF ScanFound
    <3> QED  BY Zenon, <1>4, <3>1, <3>2
  <2>2. \A i \in Range(peers') : kind[i] = "ack"
    BY <2>1 DEF Range
  <2> QED  BY Zenon, <2>1, <2>2, BoundStays
<1>5. CASE TakeClient
  <2>1. commands = <<>>
    BY Zenon, <1>5 DEF IInv, TurnInv, TakeClient
  <2>2. Len(commands) < BatchSize
    BY <2>1, Lengths
  <2> QED  BY Zenon, <1>5, <2>2, ClientBound DEF TakeClient
<1>6. CASE CollectClient
  BY Zenon, <1>6, ClientBound DEF CollectClient
<1>7. CASE CollectPeerEnd \/ CollectClientEnd
  <2>1. deferred' = deferred \/ Peek
    BY Zenon, <1>7 DEF CollectPeerEnd, CollectClientEnd, PutBack
  <2>2. Len(deferred') \in Nat /\ (Len(deferred') <= Len(deferred) \/ (Len(deferred) = 0 /\ Len(deferred') <= 1))
    <3>1. Len(deferred) \in Nat
      BY Zenon, Lengths
    <3>2. Len(deferred') = Len(deferred) \/ (Len(deferred) = 0 /\ Len(deferred') = 1)
      BY Zenon, <2>1, PeekLength
    <3> QED  BY <3>1, <3>2
  <2>3. /\ UNCHANGED <<inputs, commands, bypassed, peers>>
        /\ pc' \in {"overtaking", "overtaken"} => pc = "overtaking"
    BY Zenon, <1>7 DEF CollectPeerEnd, CollectClientEnd
  <2> QED  BY Zenon, <2>2, <2>3, BoundStays DEF BoundInv
<1>8. CASE Collected \/ CombineNone \/ UNCHANGED vars
  <2>1. /\ UNCHANGED <<inputs, deferred, commands, bypassed, peers>>
        /\ pc' \in {"overtaking", "overtaken"} => pc' = pc
    BY Zenon, <1>8 DEF Collected, CombineNone, vars, inputs
  <2> QED  BY <2>1, Lengths, BoundStays DEF BoundInv
<1>9. CASE ScanBypass
  <2>1. /\ pc' = "scan" /\ Ready # <<>> /\ Pop /\ Len(bypassed) < BatchSize
        /\ bypassed' = Append(bypassed, NextInput) /\ UNCHANGED <<inputs, commands>>
    BY Zenon, <1>9 DEF ScanBypass, MayBypass
  <2>2. Len(bypassed') = Len(bypassed) + 1
    BY <2>1, Taken, Lengths, AppendProperties DEF IInv
  <2>3. Len(bypassed') <= BatchSize /\ Len(bypassed') + Len(deferred') <= BatchSize + 1
    BY <2>1, <2>2, Lengths, PopLength DEF BoundInv
  <2> QED  BY Zenon, <2>1, <2>3 DEF BoundInv, inputs
<1>10. CASE ScanNone
  <2>1. /\ pc' = "step" /\ bypassed' = <<>> /\ UNCHANGED <<inputs, commands>>
        /\ \/ deferred' = bypassed \o <<Head(channel)>> /\ channel # <<>>
           \/ deferred' = bypassed \o deferred
    BY Zenon, <1>10 DEF ScanNone, Restored
  <2>2. Len(deferred') \in Nat /\ Len(deferred') <= BatchSize + 1
    <3>1. CASE deferred' = bypassed \o <<Head(channel)>> /\ channel # <<>>
      <4>1. <<Head(channel)>> \in Seq(Nat) /\ Len(<<Head(channel)>>) = 1
        <5>1. Head(channel) \in Nat
          BY Zenon, <3>1, Lengths, HeadTailProperties
        <5> QED  BY <5>1
      <4>2. Len(deferred') = Len(bypassed) + 1
        BY <3>1, <4>1, Lengths, ConcatProperties
      <4> QED  BY <4>2, Lengths DEF BoundInv
    <3>2. CASE deferred' = bypassed \o deferred
      BY <3>2, Lengths, RestoreLength DEF BoundInv
    <3> QED  BY Zenon, <2>1, <3>1, <3>2
  <2> QED  BY <2>1, <2>2, Lengths DEF BoundInv, inputs
<1>11. CASE Overtake
  <2>1. /\ deferred' = bypassed \o deferred /\ bypassed' = <<>> /\ UNCHANGED inputs
        /\ commands' = <<>> \/ commands' = commands
        /\ pc' \in {"idle", "step"}
    BY Zenon, <1>11 DEF Overtake, Restored
  <2>2. Len(deferred') \in Nat /\ Len(deferred') <= BatchSize + 1
    BY <2>1, Lengths, RestoreLength DEF BoundInv
  <2>3. Len(commands') <= BatchSize /\ \A i \in Range(commands') : kind[i] = "execute"
    BY <2>1, Lengths, EmptySet DEF BoundInv
  <2> QED  BY <2>1, <2>2, <2>3, Lengths DEF BoundInv, inputs
<1>12. CASE Step
  <2>1. /\ commands' = <<>> /\ UNCHANGED <<inputs, deferred, bypassed>> /\ pc' = "idle"
    BY Zenon, <1>12 DEF Step
  <2>2. Len(commands') <= BatchSize /\ Range(commands') = {}
    <3>1. Len(commands') = 0 /\ BatchSize \in Nat /\ Range(commands') = {}
      BY Zenon, <2>1, Lengths, EmptySet
    <3> QED  BY <3>1
  <2> QED  BY Zenon, <2>1, <2>2 DEF BoundInv, inputs
<1> QED  BY Zenon, <1>1, <1>2, <1>3, <1>4, <1>5, <1>6, <1>7, <1>8, <1>9, <1>10, <1>11, <1>12
            DEF Next, OwnerStep, Quiet

-----------------------------------------------------------------------------
LEMMA PassKeeps == ASSUME IInv, BoundInv, PassInv, [Next]_vars PROVE PassInv'
<1>1. CASE Arrive
  <2>1. arrived \in Nat /\ arrived' = arrived + 1 /\ UNCHANGED <<mode, stepped, commands, served>>
    BY Zenon, <1>1 DEF Arrive, turn, IInv, BaseInv, ShapeInv
  <2>2. \A i \in 1..arrived : kind'[i] = kind[i]
    <3>1. PICK k \in Kinds : kind' = Append(kind, k)
      BY Zenon, <1>1 DEF Arrive
    <3>2. kind \in Seq(Kinds) /\ Len(kind) = arrived
      BY Zenon DEF IInv, BaseInv, ShapeInv
    <3> QED  BY <3>1, <3>2, AppendProperties
  <2>3. <<>> \in Seq(Nat) /\ stepped' = stepped \o <<>>
    BY Zenon, <2>1, ConcatEmptySeq, EmptySet DEF IInv, BaseInv, ShapeInv
  <2>4. \A i \in 1..arrived : i \in Live' => i \in Live
    BY Zenon, <2>1 DEF Live
  <2>5. arrived' \in Nat /\ arrived <= arrived'
    BY <2>1
  <2>6. \A m \in 1..Len(stepped) : IsPeer(stepped[m])' => PassOnly(m)'
    BY ZenonT(30), <2>1, <2>2, <2>3, <2>4, <2>5, PassedShrinks DEF PassInv
  <2> QED  BY Zenon, <2>1, <2>6 DEF PassInv
<1>2. CASE \/ TakeWake \/ TakePeer \/ CollectPeer \/ CollectPeerEnd \/ CollectClientEnd \/ Collected
           \/ CombineFound \/ CombineNone \/ ScanBypass \/ ScanFound \/ ScanNone \/ UNCHANGED vars
  <2>1. UNCHANGED <<inputs, stepped, commands, served>>
    BY Zenon, <1>2 DEF TakeWake, TakePeer, CollectPeer, CollectPeerEnd, CollectClientEnd, Collected, CombineFound,
                CombineNone, ScanBypass, ScanFound, ScanNone, turn, vars, inputs
  <2>2. \A i \in 1..arrived : i \in Live' => i \in Live
    BY Zenon, <2>1 DEF Live, inputs
  <2> QED  BY ZenonT(30), <2>1, <2>2, NothingStepped
<1>3. CASE TakeClient \/ CollectClient
  <2>1. Ready # <<>> /\ Pop /\ Serve /\ UNCHANGED <<inputs, stepped>>
    BY Zenon, <1>3 DEF TakeClient, CollectClient
  <2>2. NextInput \in Nat /\ NextInput \notin Range(served)
    BY <2>1, Taken DEF IInv, BaseInv, OrderInv, Below
  <2>3. Range(served') = Range(served) \cup {NextInput}
    BY Zenon, <2>1, <2>2, AppendOne DEF Serve, IInv, BaseInv, ShapeInv
  <2>4. Range(commands') \subseteq Range(commands) \cup {NextInput}
    BY Zenon, <2>1, <2>2, Lengths, AppendOne DEF Serve
  <2>5. \A i \in 1..arrived : i \in Live' => i \in Live
    BY Zenon, <2>1, <2>2, <2>3, <2>4 DEF Live, inputs
  <2> QED  BY Zenon, <2>1, <2>5, NothingStepped
<1>4. CASE Overtake
  <2>1. CASE Combine
    <3>1. /\ commands \o peers \in Seq(Nat) /\ Ascending(commands \o peers)
          /\ Range(commands \o peers) = Range(peers) \cup Range(commands)
      <4>1. Ascending(commands) /\ Ascending(peers) /\ Below(Range(commands), Range(peers))
        BY Zenon, <1>4 DEF IInv, BaseInv, OrderInv, TurnInv, Overtake
      <4> QED  BY <4>1, Lengths, Concat
    <3>2. /\ stepped' = stepped \o (commands \o peers) /\ commands' = <<>>
          /\ UNCHANGED <<inputs, served>> /\ bypassed = <<>>
      BY Zenon, <1>4, <2>1 DEF Overtake, Combined, IInv, TurnInv, Combine, Priority
    <3> QED  BY Zenon, <3>1, <3>2, StepPasses
  <2>2. CASE ~Combine
    <3>1. Priority /\ Ascending(peers) /\ pc = "overtaken"
      BY Zenon, <1>4, <2>2 DEF IInv, BaseInv, OrderInv, TurnInv, Overtake
    <3>2. stepped' = stepped \o peers /\ commands' = commands /\ UNCHANGED <<inputs, served>>
      BY Zenon, <1>4, <2>2 DEF Overtake
    <3> QED  BY Zenon, <3>1, <3>2, Lengths, StepPasses
  <2> QED  BY Zenon, <2>1, <2>2
<1>5. CASE Step
  <2>1. /\ peers \o commands \in Seq(Nat) /\ Ascending(peers \o commands)
        /\ Range(peers \o commands) = Range(peers) \cup Range(commands)
    <3>1. Ascending(peers) /\ Ascending(commands) /\ Below(Range(peers), Range(commands))
      BY Zenon, <1>5 DEF IInv, BaseInv, OrderInv, TurnInv, Step
    <3> QED  BY Zenon, <3>1, Lengths, Concat
  <2>2. stepped' = stepped \o (peers \o commands)
    <3>1. stepped' = (stepped \o peers) \o commands /\ stepped \in Seq(Nat)
      BY Zenon, <1>5 DEF Step, IInv, BaseInv, ShapeInv
    <3>2. peers \in Seq(Nat) /\ commands \in Seq(Nat)
      BY Zenon, Lengths
    <3> QED  BY ZenonT(30), <3>1, <3>2, Regroup
  <2>3. commands' = <<>> /\ bypassed = <<>> /\ UNCHANGED <<inputs, served>>
    BY Zenon, <1>5 DEF Step, IInv, TurnInv
  <2> QED  BY Zenon, <2>1, <2>2, <2>3, StepPasses
<1> QED  BY Zenon, <1>1, <1>2, <1>3, <1>4, <1>5 DEF Next, OwnerStep, Quiet

\* For any batch sizes, any number of inputs and any lookahead limit: only an
\* acknowledgement overtakes, with completion priority, only execute requests
\* are overtaken, at most two batches of them, and what waits to be taken again
\* is at most one batch and the input that stopped the lookahead.
THEOREM OvertakingLimited == Spec => []OvertakesBounded
<1>1. Init => BoundInv /\ PassInv
  <2> SUFFICES ASSUME Init PROVE BoundInv /\ PassInv
    BY Zenon
  <2>1. Len(stepped) = 0 /\ Len(commands) = 0 /\ Len(bypassed) = 0 /\ Len(deferred) = 0 /\ Range(commands) = {}
        /\ pc = "idle" /\ 1..0 = {}
    BY EmptySeq, EmptySet DEF Init
  <2> QED  BY <2>1, MailboxAssumption DEF BoundInv, PassInv
<1>2. IInv /\ BoundInv /\ PassInv /\ [Next]_vars => (BoundInv /\ PassInv)'
  BY Zenon, BoundKeeps, PassKeeps
<1>3. ASSUME IInv, BoundInv, PassInv PROVE OvertakesBounded
  <2>1. Len(deferred) <= BatchSize + 1
    BY <1>3, Lengths DEF BoundInv
  <2>2. ASSUME NEW m \in 1..Len(stepped), IsPeer(stepped[m]),
               NEW late, late = {i \in 1..arrived : /\ kind[i] # "wake" /\ i < stepped[m]
                                                    /\ i \notin Range(SubSeq(stepped, 1, m))
                                                    /\ i \in Range(stepped) \/ i \notin Range(served)}
        PROVE  /\ late # {} => kind[stepped[m]] = "ack" /\ Priority
               /\ \A i \in late : kind[i] = "execute"
               /\ Cardinality(late) <= 2 * BatchSize
    <3>1. stepped \in Seq(Nat) /\ Len(stepped) \in Nat /\ arrived \in Nat /\ \A k \in 1..m : stepped[k] \in Nat
      <4>1. stepped \in Seq(Nat) /\ arrived \in Nat
        BY Zenon, <1>3 DEF IInv, BaseInv, ShapeInv
      <4>2. Len(stepped) \in Nat /\ \A k \in 1..Len(stepped) : stepped[k] \in Nat
        BY Zenon, <4>1, LenProperties, ElementOfSeq
      <4>3. \A k \in 1..m : k \in 1..Len(stepped)
        BY <4>2
      <4> QED  BY Zenon, <4>1, <4>2, <4>3
    <3>2. Seen(m) \subseteq Range(SubSeq(stepped, 1, m))
      <4>1. /\ SubSeq(stepped, 1, m) \in Seq(Nat) /\ Len(SubSeq(stepped, 1, m)) = m
            /\ \A k \in 1..m : SubSeq(stepped, 1, m)[k] = stepped[k]
        BY <3>1, SubSeqProperties
      <4>2. DOMAIN SubSeq(stepped, 1, m) = 1..m
        BY Zenon, <4>1, LenProperties
      <4> QED  BY Zenon, <4>1, <4>2 DEF Seen, Range
    <3>3. late \subseteq Passed(m)
      BY Zenon, <2>2, <3>2 DEF Passed, Live
    <3>4. IsFiniteSet(Passed(m))
      <4>1. Passed(m) \subseteq 1..arrived /\ IsFiniteSet(1..arrived)
        BY Zenon, <3>1, UpTo DEF Passed, Live
      <4> QED  BY ZenonT(30), <4>1, FS_Subset
    <3>5. Cardinality(late) <= Cardinality(Passed(m)) /\ Cardinality(late) \in Nat /\ Cardinality(Passed(m)) \in Nat
      BY Zenon, <3>3, <3>4, FS_Subset, FS_CardinalityType
    <3>6. PassOnly(m)
      BY Zenon, <1>3, <2>2 DEF PassInv
    <3>7. Cardinality(late) <= 2 * BatchSize
      BY <3>5, <3>6, MailboxAssumption DEF PassOnly
    <3> QED  BY Zenon, <3>3, <3>6, <3>7 DEF PassOnly
  <2> QED  BY Zenon, <2>1, <2>2 DEF OvertakesBounded
<1> QED  BY <1>1, <1>2, <1>3, Inductive, PTL DEF Spec
=============================================================================
