------------------------- MODULE ApplyWorkerProofs --------------------------
(***************************************************************************)
(* Ordered application is correct for any credits, batch and query limits, *)
(* any snapshot interval and any number of queries and log entries.        *)
(*                                                                         *)
(* The invariant follows the entries from dispatch to resolution: completed*)
(* batches, the batch in the worker's hands and the queued batches are one *)
(* chain from resolved to dispatched, cut at the indexes that store and    *)
(* worker have published (WorkInv).  OwnerInv and QueryInv say what the    *)
(* owner may rely on at the points where it checks: that nothing is left   *)
(* to answer when a snapshot is installed, and that a fence once seen as   *)
(* durable is still behind the store when the lock is obtained.            *)
(***************************************************************************)
EXTENDS ApplyWorker, SequenceTheorems, TLAPS

Batches == [from : Nat, to : Nat]
Answers == {NoAnswer, Asleep, [kind |-> "error"], [kind |-> "overloaded"]}
             \cup [kind : {"ok"}, index : Nat, inProgress : Nat]
Places == {"priority", "persist", "persist_effects", "applies", "compact", "dispatch", "input",
           "input_effects", "drain", "install", "dead"}

\* Batches that cover exactly the indexes after a up to b, in order.
Chain(bs, a, b) ==
  /\ a <= b
  /\ \A i \in 1..Len(bs) : a < bs[i].from /\ bs[i].from <= bs[i].to /\ bs[i].to <= b
  /\ \A i, j \in 1..Len(bs) : i < j => bs[i].to < bs[j].from
  /\ \A x \in (a + 1)..b : \E i \in 1..Len(bs) : bs[i].from <= x /\ x <= bs[i].to

TypeInv ==
  /\ committed \in Nat /\ compacted \in Nat /\ persisting \in BOOLEAN
  /\ dispatched \in Nat /\ resolved \in Nat /\ accepted \in Nat /\ used \in Nat
  /\ queue \in Seq(Batches) /\ events \in Seq(Batches) /\ current \in Batches
  /\ applying \in Nat /\ stored \in Nat /\ durable \in Nat /\ locked \in BOOLEAN
  /\ worker \in {"idle", "lock", "apply", "publish", "notify", "failed"}
  /\ owner \in Places /\ looking \in {"no", "read", "lock"}
  /\ seen \in Nat /\ target \in Nat
  /\ waiting \in Seq([query : Queries, fence : Nat])
  /\ asked \in [Queries -> Nat] /\ answer \in [Queries -> Answers]

\* Where the completed batches end.
Done == IF worker = "idle" THEN durable ELSE current.from - 1

WorkInv ==
  /\ Chain(events, resolved, Done) /\ Chain(queue, applying, dispatched)
  /\ worker = "idle" => current = NoBatch /\ stored = durable /\ applying = durable
  /\ worker # "idle" => 0 < current.from /\ current.from <= current.to /\ applying = current.to
  /\ worker \in {"lock", "apply", "failed"} => stored + 1 = current.from /\ durable = stored
  /\ worker = "publish" => stored = current.to /\ durable + 1 = current.from
  /\ worker = "notify" => stored = current.to /\ durable = current.to
  /\ locked <=> worker = "apply"
  /\ used = dispatched - resolved /\ used <= QueueEntries
  /\ accepted = dispatched

OwnerInv ==
  /\ dispatched <= committed
  /\ compacted <= durable \/ owner \in {"drain", "install", "dead"}
  /\ owner \in {"drain", "install"} => target = committed /\ compacted = committed
  /\ owner = "install" => used = 0
  /\ exit # "check"

QueryInv ==
  /\ \A i \in 1..Len(waiting) :
       /\ waiting[i].fence <= accepted /\ waiting[i].fence = asked[waiting[i].query]
       /\ answer[waiting[i].query] # Asleep
  /\ looking = "lock" => seen <= durable
  /\ owner = "install" /\ looking = "lock" => seen = durable
  /\ owner = "install" /\ looking = "no" => waiting = <<>>
  /\ QueryFresh

IInv == TypeInv /\ WorkInv /\ OwnerInv /\ QueryInv

-----------------------------------------------------------------------------
\* Facts about chains.

LEMMA BatchNat ==
  ASSUME NEW b \in Batches PROVE b.from \in Nat /\ b.to \in Nat
  BY Zenon DEF Batches

LEMMA BatchOf ==
  ASSUME NEW bs \in Seq(Batches), NEW i \in 1..Len(bs)
  PROVE  bs[i] \in Batches /\ bs[i].from \in Nat /\ bs[i].to \in Nat
<1>1. bs[i] \in Batches
  BY Zenon, ElementOfSeq
<1> QED  BY Zenon, <1>1 DEF Batches

LEMMA ChainEmpty ==
  ASSUME NEW bs \in Seq(Batches), NEW a \in Nat, NEW b \in Nat, Chain(bs, a, b)
  PROVE  bs = <<>> <=> a = b
<1>1. bs # <<>> => 1 \in 1..Len(bs)
  BY EmptySeq
<1>2. bs = <<>> => Len(bs) = 0
  BY Zenon, EmptySeq
<1>3. \A i \in 1..Len(bs) : bs[i].from \in Nat /\ bs[i].to \in Nat
  BY Zenon, BatchOf
<1>4. ASSUME bs # <<>> PROVE a # b
  BY <1>1, <1>3, <1>4 DEF Chain
<1>5. ASSUME bs = <<>> PROVE a = b
  BY <1>2, <1>5 DEF Chain
<1> QED  BY Zenon, <1>4, <1>5

LEMMA ChainNone == ASSUME NEW a \in Nat PROVE Chain(<<>>, a, a)
  BY DEF Chain

LEMMA ChainTail ==
  ASSUME NEW bs \in Seq(Batches), bs # <<>>, NEW a \in Nat, NEW b \in Nat, Chain(bs, a, b)
  PROVE  /\ Head(bs) \in Batches /\ Tail(bs) \in Seq(Batches)
         /\ Head(bs).from = a + 1 /\ Head(bs).from <= Head(bs).to /\ Head(bs).to <= b
         /\ Chain(Tail(bs), Head(bs).to, b)
<1>1. /\ Tail(bs) \in Seq(Batches) /\ Len(bs) \in Nat \ {0} /\ Len(Tail(bs)) = Len(bs) - 1
      /\ \A i \in 1..(Len(bs) - 1) : Tail(bs)[i] = bs[i + 1]
      /\ Head(bs) = bs[1] /\ bs[1] \in Batches
      /\ \A i \in 1..Len(bs) : bs[i].from \in Nat /\ bs[i].to \in Nat
  <2>1. Len(bs) \in Nat \ {0} /\ 1 \in 1..Len(bs)
    BY EmptySeq
  <2> QED  BY <2>1, BatchOf, HeadTailProperties
<1>2. a < bs[1].from /\ bs[1].from <= bs[1].to /\ bs[1].to <= b
  BY <1>1 DEF Chain
<1>3. bs[1].from = a + 1
  <2>1. a + 1 \in (a + 1)..b
    BY <1>1, <1>2
  <2>2. PICK i \in 1..Len(bs) : bs[i].from <= a + 1
    BY Zenon, <2>1 DEF Chain
  <2>3. a < bs[i].from /\ bs[i].from \in Nat
    BY Zenon, <1>1 DEF Chain
  <2>4. 1 < i => bs[1].to < bs[i].from
    BY <1>1 DEF Chain
  <2> QED  BY <1>1, <1>2, <2>2, <2>3, <2>4
<1>4. \A i \in 1..(Len(bs) - 1) :
        bs[1].to < bs[i + 1].from /\ bs[i + 1].from <= bs[i + 1].to /\ bs[i + 1].to <= b
  BY <1>1 DEF Chain
<1>5. \A i, j \in 1..(Len(bs) - 1) : i < j => bs[i + 1].to < bs[j + 1].from
  BY <1>1 DEF Chain
<1>6. ASSUME NEW x \in (bs[1].to + 1)..b
      PROVE  \E i \in 1..(Len(bs) - 1) : bs[i + 1].from <= x /\ x <= bs[i + 1].to
  <2>1. PICK i \in 1..Len(bs) : bs[i].from <= x /\ x <= bs[i].to
    BY <1>1, <1>2 DEF Chain
  <2>2. i - 1 \in 1..(Len(bs) - 1) /\ (i - 1) + 1 = i
    BY <1>1, <2>1
  <2> QED  BY Zenon, <2>1, <2>2
<1>7. Chain(Tail(bs), Head(bs).to, b)
  BY <1>1, <1>2, <1>4, <1>5, <1>6 DEF Chain
<1> QED  BY Zenon, <1>1, <1>2, <1>3, <1>7

LEMMA ChainAppend ==
  ASSUME NEW bs \in Seq(Batches), NEW a \in Nat, NEW b \in Nat, Chain(bs, a, b),
         NEW c \in Batches, c.from = b + 1, c.from <= c.to
  PROVE  Append(bs, c) \in Seq(Batches) /\ Chain(Append(bs, c), a, c.to)
<1>1. /\ Append(bs, c) \in Seq(Batches) /\ Len(Append(bs, c)) = Len(bs) + 1 /\ Len(bs) \in Nat
      /\ \A i \in 1..Len(bs) : Append(bs, c)[i] = bs[i]
      /\ Append(bs, c)[Len(bs) + 1] = c
      /\ \A i \in 1..Len(bs) : bs[i].from \in Nat /\ bs[i].to \in Nat
      /\ c.from \in Nat /\ c.to \in Nat
  <2>1. c.from \in Nat /\ c.to \in Nat
    BY Zenon DEF Batches
  <2> QED  BY <2>1, BatchOf, AppendProperties, LenProperties
<1> DEFINE t == Append(bs, c)
<1>2. \A i \in 1..(Len(bs) + 1) : i \in 1..Len(bs) \/ i = Len(bs) + 1
  BY <1>1
<1>3. ASSUME NEW i \in 1..(Len(bs) + 1)
      PROVE  a < t[i].from /\ t[i].from <= t[i].to /\ t[i].to <= c.to
  <2>1. CASE i \in 1..Len(bs)
    <3>1. t[i] = bs[i] /\ a < bs[i].from /\ bs[i].from <= bs[i].to /\ bs[i].to <= b
      BY Zenon, <1>1, <2>1 DEF Chain
    <3> QED  BY <1>1, <2>1, <3>1
  <2>2. CASE i = Len(bs) + 1
    <3>1. t[i] = c /\ a <= b
      BY Zenon, <1>1, <2>2 DEF Chain
    <3> QED  BY <1>1, <3>1
  <2> QED  BY Zenon, <1>2, <2>1, <2>2
<1>4. \A i, j \in 1..(Len(bs) + 1) : i < j => t[i].to < t[j].from
  BY <1>1, <1>2 DEF Chain
<1>5. ASSUME NEW x \in (a + 1)..c.to PROVE \E i \in 1..(Len(bs) + 1) : t[i].from <= x /\ x <= t[i].to
  <2>1. CASE x <= b
    <3>1. x \in (a + 1)..b /\ \A i \in 1..Len(bs) : i \in 1..(Len(bs) + 1)
      BY <1>1, <2>1
    <3>2. PICK i \in 1..Len(bs) : bs[i].from <= x /\ x <= bs[i].to
      BY Zenon, <3>1 DEF Chain
    <3> QED  BY Zenon, <1>1, <3>1, <3>2
  <2>2. CASE x > b
    BY <1>1, <2>2
  <2> QED  BY <2>1, <2>2
<1>6. a <= c.to
  BY <1>1 DEF Chain
<1>7. Len(t) = Len(bs) + 1 /\ t \in Seq(Batches)
  BY Zenon, <1>1
<1> HIDE DEF t
<1>8. Chain(t, a, c.to)
  BY Zenon, <1>3, <1>4, <1>5, <1>6, <1>7 DEF Chain
<1> QED  BY Zenon, <1>7, <1>8 DEF t

-----------------------------------------------------------------------------
\* What the chain says about the cursors, and about a worker that is not busy.
LEMMA Cursors ==
  ASSUME TypeInv, WorkInv
  PROVE  /\ Done \in Nat /\ resolved <= Done /\ Done <= durable /\ durable <= stored
         /\ stored <= applying /\ applying <= dispatched
         /\ used = 0 => worker = "idle" /\ resolved = dispatched /\ durable = dispatched /\ stored = dispatched
<1>1. /\ current.from \in Nat /\ current.to \in Nat /\ dispatched \in Nat /\ resolved \in Nat
      /\ durable \in Nat /\ stored \in Nat /\ applying \in Nat
  BY Zenon, BatchNat DEF TypeInv
<1>2. resolved <= Done /\ applying <= dispatched
  BY Zenon DEF WorkInv, Chain
<1>3. worker = "idle" => Done = durable /\ stored = durable /\ applying = durable
  BY Zenon DEF WorkInv, Done
<1>4. ASSUME worker # "idle"
      PROVE  /\ Done = current.from - 1 /\ 0 < current.from /\ current.from <= current.to
             /\ applying = current.to
             /\ \/ stored + 1 = current.from /\ durable = stored
                \/ stored = current.to /\ durable + 1 = current.from
                \/ stored = current.to /\ durable = current.to
  BY Zenon, <1>4 DEF TypeInv, WorkInv, Done
<1>5. /\ Done \in Nat /\ Done <= durable /\ durable <= stored /\ stored <= applying
      /\ worker # "idle" => Done < applying
  <2>1. CASE worker = "idle"
    BY <1>1, <1>3, <2>1
  <2>2. CASE worker # "idle"
    BY <1>1, <1>4, <2>2
  <2> QED  BY Zenon, <2>1, <2>2
<1>6. used = 0 => resolved = dispatched
  <2>1. used = dispatched - resolved
    BY Zenon DEF WorkInv
  <2> QED  BY <1>1, <2>1
<1> QED  BY <1>1, <1>2, <1>5, <1>6

\* The entries in flight are exactly those between resolved and dispatched.
LEMMA ChainCovers ==
  ASSUME NEW bs \in Seq(Batches), NEW a \in Nat, NEW b \in Nat, Chain(bs, a, b)
  PROVE  UNION {Indexes(c) : c \in Range(bs)} = (a + 1)..b
<1>1. \A i \in 1..Len(bs) : bs[i].from \in Nat /\ bs[i].to \in Nat
  BY Zenon, BatchOf
<1>2. \A c : c \in Range(bs) <=> \E i \in 1..Len(bs) : c = bs[i]
  BY Zenon, LenProperties DEF Range
<1>3. ASSUME NEW c \in Range(bs), NEW x \in Indexes(c) PROVE x \in (a + 1)..b
  <2>1. PICK i \in 1..Len(bs) : c = bs[i]
    BY Zenon, <1>2
  <2> QED  BY <1>1, <1>3, <2>1 DEF Chain, Indexes
<1>4. ASSUME NEW x \in (a + 1)..b PROVE \E c \in Range(bs) : x \in Indexes(c)
  <2>1. PICK i \in 1..Len(bs) : bs[i].from <= x /\ x <= bs[i].to
    BY Zenon DEF Chain
  <2>2. x \in Indexes(bs[i])
    BY <1>1, <2>1 DEF Indexes
  <2> QED  BY Zenon, <1>2, <2>2
<1> QED  BY Zenon, <1>3, <1>4

LEMMA InFlightExact ==
  ASSUME TypeInv, WorkInv
  PROVE  InFlight = (resolved + 1)..dispatched
<1>1. /\ Done \in Nat /\ resolved \in Nat /\ applying \in Nat /\ dispatched \in Nat
      /\ resolved <= Done /\ Done <= applying /\ applying <= dispatched
  BY Cursors DEF TypeInv
<1>2. UNION {Indexes(c) : c \in Range(events)} = (resolved + 1)..Done
  BY Zenon, <1>1, ChainCovers DEF TypeInv, WorkInv
<1>3. UNION {Indexes(c) : c \in Range(queue)} = (applying + 1)..dispatched
  BY Zenon, <1>1, ChainCovers DEF TypeInv, WorkInv
<1>4. Indexes(current) = (Done + 1)..applying
  <2>1. CASE worker = "idle"
    BY <1>1, <2>1 DEF WorkInv, Done, Indexes, NoBatch
  <2>2. CASE worker # "idle"
    BY <1>1, <2>2 DEF TypeInv, Batches, WorkInv, Done, Indexes
  <2> QED  BY Zenon, <2>1, <2>2
<1>5. InFlight = ((Done + 1)..applying) \cup ((applying + 1)..dispatched) \cup ((resolved + 1)..Done)
  BY Zenon, <1>2, <1>3, <1>4 DEF InFlight
<1> QED  BY <1>1, <1>5

LEMMA WaitingOf ==
  ASSUME TypeInv
  PROVE  /\ Len(waiting) \in Nat
         /\ \A i \in 1..Len(waiting) : waiting[i].query \in Queries /\ waiting[i].fence \in Nat
         /\ waiting # <<>> => 1 \in 1..Len(waiting) /\ Head(waiting) = waiting[1]
         /\ Len(waiting) = 0 => waiting = <<>>
<1>1. waiting \in Seq([query : Queries, fence : Nat])
  BY Zenon DEF TypeInv
<1>2. \A i \in 1..Len(waiting) : waiting[i] \in [query : Queries, fence : Nat]
  BY Zenon, <1>1, ElementOfSeq
<1>3. waiting # <<>> => Len(waiting) \in Nat \ {0}
  BY Zenon, <1>1, EmptySeq
<1> QED  BY <1>1, <1>2, <1>3, LenProperties

LEMMA WorkUntouched ==
  ASSUME TypeInv, WorkInv, UNCHANGED <<dispatched, resolved, accepted, workVars>>
  PROVE  WorkInv'
  BY Zenon DEF WorkInv, workVars, Done

\* The process ends for another reason than a check: all is answered.
LEMMA DieKeeps ==
  ASSUME IInv, NEW why, why # "check", Die(why),
         UNCHANGED <<engineVars, dispatched, resolved, accepted, workVars, asked, target>>
  PROVE  IInv'
<1>1. answer' \in [Queries -> Answers] /\ waiting' = <<>> /\ waiting' \in Seq([query : Queries, fence : Nat])
  BY Zenon, EmptySeq DEF IInv, TypeInv, Die, Answers
<1>2. TypeInv'
  BY Zenon, <1>1 DEF IInv, TypeInv, Die, engineVars, workVars, Places
<1>3. WorkInv'
  BY Zenon, WorkUntouched DEF IInv
<1>4. OwnerInv'
  BY Zenon DEF IInv, OwnerInv, Die, engineVars, workVars
<1>5. QueryFresh'
  BY Zenon DEF IInv, TypeInv, QueryInv, QueryFresh, Die
<1>6. QueryInv'
  BY <1>1, <1>5, EmptySeq DEF QueryInv, Die
<1> QED  BY Zenon, <1>2, <1>3, <1>4, <1>6 DEF IInv

-----------------------------------------------------------------------------
(* complete_queries                                                        *)

LEMMA LookReadKeeps == ASSUME IInv, LookRead PROVE IInv'
<1>1. TypeInv'
  BY Zenon DEF IInv, TypeInv, LookRead, engineVars, workVars
<1>2. WorkInv'
  BY Zenon, WorkUntouched DEF IInv, LookRead
<1>3. OwnerInv'
  BY Zenon DEF IInv, OwnerInv, LookRead, engineVars, workVars
<1>4. owner = "install" => durable = accepted
  BY Zenon, Cursors DEF IInv, OwnerInv, WorkInv
<1>5. owner = "install" /\ waiting # <<>> => Head(waiting).fence <= durable
  BY Zenon, <1>4, WaitingOf DEF IInv, QueryInv
<1>6. owner = "install" /\ looking' = "no" => waiting = <<>>
  <2> DEFINE f == Head(waiting).fence
  <2>1. waiting # <<>> => f \in Nat
    BY Zenon, WaitingOf DEF IInv
  <2> HIDE DEF f
  <2>2. looking' = "no" => waiting = <<>> \/ f > durable
    BY Zenon DEF LookRead, f
  <2> QED  BY <1>5, <2>1, <2>2 DEF IInv, TypeInv, f
<1>7. QueryFresh'
  BY Zenon DEF IInv, QueryInv, QueryFresh, LookRead
<1>8. UNCHANGED <<owner, waiting, accepted, asked, answer, durable>> /\ seen' = durable
  BY Zenon DEF LookRead, workVars
<1>9. QueryInv'
  BY <1>6, <1>7, <1>8 DEF IInv, TypeInv, QueryInv
<1> QED  BY Zenon, <1>1, <1>2, <1>3, <1>9 DEF IInv

LEMMA LookBlockedKeeps == ASSUME IInv, LookBlocked PROVE IInv'
<1>1. TypeInv'
  BY Zenon DEF IInv, TypeInv, LookBlocked, engineVars, workVars
<1>2. WorkInv'
  BY Zenon, WorkUntouched DEF IInv, LookBlocked
<1>3. OwnerInv'
  BY Zenon DEF IInv, OwnerInv, LookBlocked, engineVars, workVars
<1>4. owner # "install"
  BY Zenon, Cursors DEF IInv, OwnerInv, WorkInv, LookBlocked
<1>5. QueryInv'
  BY Zenon, <1>4 DEF IInv, QueryInv, QueryFresh, LookBlocked, workVars
<1> QED  BY Zenon, <1>1, <1>2, <1>3, <1>5 DEF IInv

LEMMA LookAnswerKeeps == ASSUME IInv, LookAnswer PROVE IInv'
<1>1. PICK n \in 0..Len(waiting) :
        /\ \A i \in 1..n : waiting[i].fence <= seen
        /\ n < Len(waiting) => waiting[n + 1].fence > seen
        /\ answer' = [q \in Queries |->
                        IF \E i \in 1..n : waiting[i].query = q
                          THEN [kind |-> "ok", index |-> stored, inProgress |-> applying]
                          ELSE answer[q]]
        /\ waiting' = SubSeq(waiting, n + 1, Len(waiting))
  BY Zenon DEF LookAnswer
<1>2. /\ Len(waiting) \in Nat /\ n \in Nat /\ n <= Len(waiting)
      /\ \A i \in 1..Len(waiting) : waiting[i].query \in Queries /\ waiting[i].fence \in Nat
  BY WaitingOf DEF IInv
<1>3. /\ waiting' \in Seq([query : Queries, fence : Nat]) /\ Len(waiting') = Len(waiting) - n
      /\ \A i \in 1..(Len(waiting) - n) : waiting'[i] = waiting[n + i] /\ n + i \in 1..Len(waiting)
  <2>1. \A i \in (n + 1)..Len(waiting) : waiting[i] \in [query : Queries, fence : Nat]
    <3>1. waiting \in Seq([query : Queries, fence : Nat])
      BY Zenon DEF IInv, TypeInv
    <3>2. \A i \in (n + 1)..Len(waiting) : i \in 1..Len(waiting)
      BY <1>2
    <3> QED  BY Zenon, <3>1, <3>2, ElementOfSeq
  <2>2. n + 1 \in Int /\ Len(waiting) \in Int
    BY <1>2
  <2>3. /\ SubSeq(waiting, n + 1, Len(waiting)) \in Seq([query : Queries, fence : Nat])
        /\ Len(SubSeq(waiting, n + 1, Len(waiting))) =
             IF n + 1 <= Len(waiting) THEN Len(waiting) - (n + 1) + 1 ELSE 0
        /\ \A i \in 1..(Len(waiting) - (n + 1) + 1) :
             SubSeq(waiting, n + 1, Len(waiting))[i] = waiting[n + 1 + i - 1]
    BY <2>1, <2>2, SubSeqProperties
  <2>4. Len(waiting) - (n + 1) + 1 = Len(waiting) - n /\ \A i \in Nat : n + 1 + i - 1 = n + i
    BY <1>2
  <2>5. \A i \in 1..(Len(waiting) - n) : n + i \in 1..Len(waiting)
    BY <1>2
  <2>6. Len(waiting') = Len(waiting) - n
    BY <1>1, <1>2, <2>3
  <2>7. \A i \in 1..(Len(waiting) - n) : waiting'[i] = waiting[n + i]
    BY <1>1, <2>3, <2>4
  <2> QED  BY Zenon, <1>1, <2>3, <2>5, <2>6, <2>7
<1>4. answer' \in [Queries -> Answers]
  BY Zenon, <1>1 DEF IInv, TypeInv, Answers
<1>5. TypeInv'
  BY Zenon, <1>3, <1>4 DEF IInv, TypeInv, LookAnswer, engineVars, workVars
<1>6. WorkInv'
  BY Zenon, WorkUntouched DEF IInv, LookAnswer
<1>7. OwnerInv'
  BY Zenon DEF IInv, OwnerInv, LookAnswer, engineVars, workVars
<1>8. \A i \in 1..n : asked[waiting[i].query] <= stored
  <2>1. seen <= durable /\ durable <= stored /\ seen \in Nat /\ durable \in Nat /\ stored \in Nat
    BY Zenon, Cursors DEF IInv, TypeInv, QueryInv, LookAnswer
  <2>2. \A i \in 1..n : i \in 1..Len(waiting)
    BY <1>2
  <2>3. \A i \in 1..n : waiting[i].fence <= seen /\ waiting[i].fence \in Nat
    BY Zenon, <1>1, <1>2, <2>2
  <2>4. \A i \in 1..n : waiting[i].fence = asked[waiting[i].query]
    BY Zenon, <2>2 DEF IInv, QueryInv
  <2>5. \A i \in 1..n : waiting[i].fence <= stored
    BY <2>1, <2>3
  <2> QED  BY Zenon, <2>4, <2>5
<1>9. QueryFresh'
  <2> SUFFICES ASSUME NEW q \in Queries, answer'[q].kind = "ok"
               PROVE  asked[q] <= answer'[q].index /\ answer'[q].index <= answer'[q].inProgress
    BY Zenon DEF QueryFresh, LookAnswer
  <2>1. CASE \E i \in 1..n : waiting[i].query = q
    BY Zenon, <1>1, <1>8, <2>1, Cursors DEF IInv
  <2>2. CASE ~\E i \in 1..n : waiting[i].query = q
    BY Zenon, <1>1, <2>2 DEF IInv, QueryInv, QueryFresh
  <2> QED  BY Zenon, <2>1, <2>2
<1>10. \A i \in 1..Len(waiting') :
         /\ waiting'[i].fence <= accepted /\ waiting'[i].fence = asked[waiting'[i].query]
         /\ answer'[waiting'[i].query] # Asleep
  <2>1. \A q \in Queries : answer[q] # Asleep => answer'[q] # Asleep
    BY Zenon, <1>1 DEF Asleep
  <2>2. \A j \in 1..Len(waiting) :
          /\ waiting[j].fence <= accepted /\ waiting[j].fence = asked[waiting[j].query]
          /\ answer'[waiting[j].query] # Asleep
    BY Zenon, <1>2, <2>1 DEF IInv, QueryInv
  <2> TAKE i \in 1..Len(waiting')
  <2>3. waiting'[i] = waiting[n + i] /\ n + i \in 1..Len(waiting)
    BY Zenon, <1>3
  <2> QED  BY Zenon, <2>2, <2>3
<1>11. owner = "install" => waiting' = <<>>
  <2>1. owner = "install" => seen = durable /\ durable = accepted
    BY Zenon, Cursors DEF IInv, OwnerInv, WorkInv, QueryInv, LookAnswer
  <2>2. owner = "install" => n = Len(waiting)
    <3>1. SUFFICES ASSUME owner = "install", n < Len(waiting) PROVE FALSE
      BY <1>2
    <3>2. n + 1 \in 1..Len(waiting)
      BY <1>2, <3>1
    <3>3. waiting[n + 1].fence <= accepted /\ waiting[n + 1].fence \in Nat
      BY Zenon, <1>2, <3>2 DEF IInv, QueryInv
    <3>4. waiting[n + 1].fence > seen /\ seen = accepted /\ seen \in Nat
      BY Zenon, <1>1, <2>1, <3>1 DEF IInv, TypeInv
    <3> QED  BY <3>3, <3>4
  <2>3. owner = "install" => Len(waiting') = 0
    BY SMTT(30), <1>2, <1>3, <2>2
  <2> QED  BY Zenon, <1>3, <2>3, EmptySeq
<1>12. QueryInv'
  BY Zenon, <1>9, <1>10, <1>11 DEF QueryInv, LookAnswer, workVars
<1> QED  BY Zenon, <1>5, <1>6, <1>7, <1>12 DEF IInv

-----------------------------------------------------------------------------
(* The owner's loop                                                        *)

\* A step of the loop that touches neither the worker nor the queries.
LEMMA LoopKeeps ==
  ASSUME IInv, UNCHANGED <<dispatched, resolved, accepted, workVars, queryVars, exit>>,
         committed' \in Nat, committed <= committed', compacted' \in Nat, persisting' \in BOOLEAN,
         target' \in Nat, owner' \in Places \ {"install"},
         compacted' <= durable \/ owner' \in {"drain", "dead"},
         owner' = "drain" => target' = committed' /\ compacted' = committed'
  PROVE  IInv'
<1>1. TypeInv'
  BY Zenon DEF IInv, TypeInv, workVars, queryVars
<1>2. WorkInv'
  BY Zenon, WorkUntouched DEF IInv
<1>3. OwnerInv'
  BY DEF IInv, TypeInv, OwnerInv, workVars
<1>4. QueryInv'
  BY Zenon DEF IInv, QueryInv, QueryFresh, queryVars, workVars
<1> QED  BY Zenon, <1>1, <1>2, <1>3, <1>4 DEF IInv

\* A step that only moves the owner on through its loop.
LoopPlaces == {"priority", "persist", "persist_effects", "applies", "compact", "dispatch", "input", "input_effects"}

LEMMA LoopOn ==
  ASSUME IInv, owner \in LoopPlaces, owner' \in LoopPlaces,
         UNCHANGED <<engineVars, dispatched, resolved, accepted, workVars, queryVars, target, exit>>
  PROVE  IInv'
<1>1. /\ owner \notin {"drain", "install", "dead"} /\ owner' \notin {"drain", "install", "dead"}
      /\ owner' \in Places
  BY DEF LoopPlaces, Places
<1>2. compacted <= durable /\ committed \in Nat /\ compacted \in Nat /\ persisting \in BOOLEAN /\ target \in Nat
  BY Zenon, <1>1 DEF IInv, TypeInv, OwnerInv
<1>3. committed <= committed
  BY <1>2
<1> QED  BY Zenon, <1>1, <1>2, <1>3, LoopKeeps DEF engineVars

LEMMA PollKeeps == ASSUME IInv, Poll(Polling) PROVE IInv'
<1>1. /\ events \in Seq(Batches) /\ events # <<>> /\ resolved \in Nat /\ Done \in Nat
      /\ Chain(events, resolved, Done) /\ Done <= dispatched /\ dispatched \in Nat
  BY Cursors DEF IInv, TypeInv, WorkInv, Poll
<1>2. /\ Head(events) \in Batches /\ Tail(events) \in Seq(Batches)
      /\ Head(events).from = resolved + 1 /\ Head(events).from <= Head(events).to
      /\ Head(events).to <= Done /\ Chain(Tail(events), Head(events).to, Done)
  BY Zenon, <1>1, ChainTail
<1>3. Head(events).to \in Nat /\ Head(events).from \in Nat
  BY Zenon, <1>2 DEF Batches
<1>4. used' = dispatched - resolved' /\ used' \in Nat /\ used' <= used
  <2>1. used = dispatched - resolved
    BY Zenon DEF IInv, WorkInv
  <2>2. used' = used - ((Head(events).to + 1) - Head(events).from) /\ resolved' = Head(events).to
    BY Zenon DEF Poll, Size
  <2> DEFINE f == Head(events).from
             t == Head(events).to
  <2>3. f \in Nat /\ t \in Nat /\ f = resolved + 1 /\ f <= t /\ t <= dispatched
    BY <1>1, <1>2, <1>3
  <2>4. used' = used - ((t + 1) - f) /\ resolved' = t
    BY Zenon, <2>2
  <2> HIDE DEF f, t
  <2> QED  BY <1>1, <2>1, <2>3, <2>4
<1>5. TypeInv'
  BY Zenon, <1>2, <1>3, <1>4 DEF IInv, TypeInv, Poll, engineVars
<1>6. Done' = Done
  BY Zenon DEF Done, Poll
<1>7. WorkInv'
  BY <1>2, <1>4, <1>6, ApplyWorkerAssumption DEF IInv, TypeInv, WorkInv, Poll
<1>8. owner # "install"
  BY Zenon DEF Poll, Polling, At
<1>9. OwnerInv'
  BY Zenon, <1>8 DEF IInv, OwnerInv, Poll, engineVars
<1>10. QueryInv'
  BY Zenon, <1>8 DEF IInv, QueryInv, QueryFresh, Poll
<1> QED  BY Zenon, <1>5, <1>7, <1>9, <1>10 DEF IInv

LEMMA PollFailedKeeps == ASSUME IInv, PollFailed PROVE IInv'
  BY Zenon, DieKeeps DEF PollFailed

LEMMA PriorityDoneKeeps == ASSUME IInv, PriorityDone PROVE IInv'
<1>1. owner = "priority" /\ owner' = "persist"
  BY Zenon DEF PriorityDone, At
<1>2. UNCHANGED <<engineVars, dispatched, resolved, accepted, workVars, queryVars, target, exit>>
  BY Zenon DEF PriorityDone
<1> QED  BY Zenon, <1>1, <1>2, LoopOn DEF LoopPlaces

LEMMA CompletePersistenceKeeps == ASSUME IInv, CompletePersistence PROVE IInv'
<1>1. owner = "persist" /\ owner' \in {"persist_effects", "applies"}
  BY Zenon DEF CompletePersistence, At
<1>2. committed' \in Nat /\ committed <= committed'
  BY ApplyWorkerAssumption DEF IInv, TypeInv, CompletePersistence
<1> QED  BY Zenon, <1>1, <1>2, LoopKeeps DEF IInv, TypeInv, OwnerInv, CompletePersistence, Places

LEMMA AppliesDoneKeeps == ASSUME IInv, AppliesDone PROVE IInv'
<1>1. owner = "applies" /\ owner' = "compact"
  BY Zenon DEF AppliesDone, At
<1>2. UNCHANGED <<engineVars, dispatched, resolved, accepted, workVars, queryVars, target, exit>>
  BY Zenon DEF AppliesDone
<1> QED  BY Zenon, <1>1, <1>2, LoopOn DEF LoopPlaces

LEMMA CompactKeeps == ASSUME IInv, Compact PROVE IInv'
<1>1. owner = "compact"
  BY Zenon DEF Compact, At
<1>2. used = 0
  BY DEF IInv, TypeInv, Compact, SnapshotDue, IsBusy
<1>3. stored = durable /\ stored <= committed /\ stored <= dispatched
  BY Zenon, <1>2, Cursors DEF IInv, TypeInv, OwnerInv
<1>4. /\ compacted' = stored /\ owner' = "dispatch"
      /\ UNCHANGED <<waiting, answer, looking, seen, exit>>
  BY <1>3 DEF IInv, TypeInv, Compact
<1> QED  BY <1>3, <1>4, LoopKeeps DEF IInv, TypeInv, Compact, Places, queryVars

LEMMA CompactSkippedKeeps == ASSUME IInv, CompactSkipped PROVE IInv'
<1>1. owner = "compact" /\ owner' = "dispatch"
  BY Zenon DEF CompactSkipped, At
<1>2. UNCHANGED <<engineVars, dispatched, resolved, accepted, workVars, queryVars, target, exit>>
  BY Zenon DEF CompactSkipped
<1> QED  BY Zenon, <1>1, <1>2, LoopOn DEF LoopPlaces

LEMMA DispatchSkippedKeeps == ASSUME IInv, DispatchSkipped PROVE IInv'
<1>1. owner \in {"dispatch", "persist_effects", "input_effects"}
  BY Zenon DEF DispatchSkipped, Dispatching, DispatchTo
<1>2. owner' \in {"input", "applies", "priority"}
  BY <1>1 DEF DispatchSkipped, DispatchTo
<1>3. UNCHANGED <<engineVars, dispatched, resolved, accepted, workVars, queryVars, target, exit>>
  BY Zenon DEF DispatchSkipped
<1> QED  BY Zenon, <1>1, <1>2, <1>3, LoopOn DEF LoopPlaces

LEMMA DispatchFailsKeeps == ASSUME IInv, DispatchFails PROVE IInv'
<1>1. owner \in {"dispatch", "persist_effects", "input_effects"}
  BY Zenon DEF DispatchFails, Dispatching, DispatchTo
<1>2. compacted <= dispatched
  BY <1>1, Cursors DEF IInv, TypeInv, OwnerInv
<1>3. Die("worker")
  BY <1>2 DEF IInv, TypeInv, DispatchFails
<1> QED  BY Zenon, <1>3, DieKeeps DEF DispatchFails

LEMMA InputNothingKeeps == ASSUME IInv, InputNothing PROVE IInv'
<1>1. owner = "input" /\ owner' = "priority"
  BY Zenon DEF InputNothing, At
<1> QED  BY SMTT(30), <1>1, LoopKeeps DEF IInv, TypeInv, OwnerInv, InputNothing, Places, engineVars

LEMMA InputConsensusKeeps == ASSUME IInv, InputConsensus PROVE IInv'
<1>1. owner = "input" /\ owner' \in {"priority", "input_effects"} /\ persisting' \in BOOLEAN
  BY Zenon DEF InputConsensus, At
<1>2. committed' \in Nat /\ committed <= committed'
  BY ApplyWorkerAssumption DEF IInv, TypeInv, InputConsensus
<1> QED  BY Zenon, <1>1, <1>2, LoopKeeps DEF IInv, TypeInv, OwnerInv, InputConsensus, Places

LEMMA InputSnapshotKeeps == ASSUME IInv, InputSnapshot PROVE IInv'
<1>1. owner' = "drain" /\ committed' = target' /\ compacted' = target'
  BY Zenon DEF InputSnapshot
<1>2. committed' \in Nat /\ committed <= committed'
  BY <1>1, ApplyWorkerAssumption DEF IInv, TypeInv, InputSnapshot
<1> QED  BY Zenon, <1>1, <1>2, LoopKeeps DEF IInv, TypeInv, InputSnapshot, Places

LEMMA DrainedKeeps == ASSUME IInv, Drained PROVE IInv'
<1>1. owner = "drain" /\ used = 0
  BY DEF IInv, TypeInv, Drained, At, IsBusy
<1>2. TypeInv'
  BY Zenon DEF IInv, TypeInv, Drained, Places, engineVars, workVars
<1>3. WorkInv'
  BY Zenon, WorkUntouched DEF IInv, Drained
<1>4. OwnerInv'
  BY Zenon, <1>1 DEF IInv, OwnerInv, Drained, engineVars, workVars
<1>5. QueryInv'
  BY Zenon DEF IInv, QueryInv, QueryFresh, Drained, workVars
<1> QED  BY Zenon, <1>2, <1>3, <1>4, <1>5 DEF IInv

LEMMA DispatchKeeps == ASSUME IInv, Dispatch PROVE IInv'
<1>1. PICK last \in (dispatched + 1)..committed :
        /\ last - dispatched <= Available
        /\ LET batch == [from |-> dispatched + 1, to |-> last]
           IN IF Indexes(batch) \cap InFlight # {}
                THEN Die("check") /\ UNCHANGED <<dispatched, accepted, used, queue>>
                ELSE /\ queue' = Append(queue, batch) /\ used' = used + Size(batch)
                     /\ dispatched' = last /\ accepted' = last
                     /\ owner' = DispatchTo[owner]
                     /\ UNCHANGED <<waiting, answer, looking, seen, exit>>
  BY Zenon DEF Dispatch
<1> DEFINE batch == [from |-> dispatched + 1, to |-> last]
<1>2. /\ dispatched \in Nat /\ resolved \in Nat /\ committed \in Nat /\ last \in Nat /\ used \in Nat
      /\ QueueEntries \in Nat /\ dispatched < last /\ last <= committed
      /\ used = dispatched - resolved /\ used + (last - dispatched) <= QueueEntries
  BY <1>1, ApplyWorkerAssumption DEF IInv, TypeInv, WorkInv, Available
<1>3. batch \in Batches /\ batch.from = dispatched + 1 /\ batch.to = last
  BY <1>2 DEF Batches
<1>4. Indexes(batch) = (dispatched + 1)..last
  BY Zenon DEF Indexes
<1>5. Indexes(batch) \cap InFlight = {}
  BY <1>2, <1>4, InFlightExact DEF IInv
<1>6. /\ queue' = Append(queue, batch) /\ used' = used + Size(batch)
      /\ dispatched' = last /\ accepted' = last /\ owner' = DispatchTo[owner]
      /\ UNCHANGED <<waiting, answer, looking, seen, exit>>
  BY Zenon, <1>1, <1>5
<1>7. used' = last - resolved /\ used' \in Nat /\ used' <= QueueEntries
  BY <1>2, <1>3, <1>6 DEF Size
<1> HIDE DEF batch
<1>8. queue' \in Seq(Batches) /\ Chain(queue', applying, last)
  <2>1. /\ queue \in Seq(Batches) /\ applying \in Nat /\ Chain(queue, applying, dispatched)
        /\ batch.from <= batch.to
    BY <1>2, <1>3 DEF IInv, TypeInv, WorkInv
  <2> QED  BY Zenon, <1>2, <1>3, <1>6, <2>1, ChainAppend, AppendProperties
<1>9. owner \in {"dispatch", "persist_effects", "input_effects"}
  BY Zenon DEF Dispatch, Dispatching, DispatchTo
<1>10. owner' \in {"input", "applies", "priority"}
  BY SMTT(30), <1>6, <1>9 DEF DispatchTo
<1>11. TypeInv'
  BY Zenon, <1>2, <1>6, <1>7, <1>8, <1>10 DEF IInv, TypeInv, Dispatch, Places, engineVars
<1>12. Done' = Done
  BY Zenon DEF Done, Dispatch
<1>13. WorkInv'
  BY Zenon, <1>6, <1>7, <1>8, <1>12 DEF IInv, WorkInv, Dispatch
<1>14. OwnerInv'
  BY Zenon, <1>2, <1>6, <1>9, <1>10 DEF IInv, OwnerInv, Dispatch, engineVars
<1>15. \A i \in 1..Len(waiting) : waiting[i].fence <= last
  <2>1. accepted = dispatched
    BY Zenon DEF IInv, WorkInv
  <2>2. \A i \in 1..Len(waiting) : waiting[i].fence <= accepted
    BY Zenon DEF IInv, QueryInv
  <2>3. \A i \in 1..Len(waiting) : waiting[i].fence \in Nat
    BY Zenon, WaitingOf DEF IInv
  <2> QED  BY SMTT(30), <1>2, <2>1, <2>2, <2>3
<1>16. QueryInv'
  BY Zenon, <1>6, <1>10, <1>15 DEF IInv, QueryInv, QueryFresh, Dispatch
<1> QED  BY Zenon, <1>11, <1>13, <1>14, <1>16 DEF IInv

LEMMA QueryKeeps == ASSUME IInv, NEW q \in Queries, Query(q) PROVE IInv'
<1>1. owner = "input" /\ looking = "no" /\ answer[q] = Asleep /\ asked' = [asked EXCEPT ![q] = dispatched]
  BY Zenon DEF Query, At
<1>2. /\ answer \in [Queries -> Answers] /\ asked \in [Queries -> Nat] /\ dispatched \in Nat
      /\ accepted = dispatched
  BY Zenon DEF IInv, TypeInv, WorkInv
<1>3. WorkInv'
  BY Zenon, WorkUntouched DEF IInv, Query
<1>4. /\ owner' \in {"priority", "dead"} /\ exit' # "check" /\ looking' \in {"no", "read"}
      /\ UNCHANGED <<engineVars, dispatched, accepted, workVars, target, seen>>
  BY Zenon, <1>1 DEF IInv, OwnerInv, Query
<1>5. OwnerInv'
  BY Zenon, <1>1, <1>4 DEF IInv, OwnerInv, engineVars, workVars
<1>6. \A i \in 1..Len(waiting) :
        /\ waiting[i].query # q /\ waiting[i].query \in Queries
        /\ waiting[i].fence <= accepted /\ waiting[i].fence = asked[waiting[i].query]
        /\ answer[waiting[i].query] # Asleep
  BY Zenon, <1>1, WaitingOf DEF IInv, QueryInv
<1>7. \A p \in Queries : p # q => asked'[p] = asked[p]
  BY Zenon, <1>1, <1>2
<1>8. asked' \in [Queries -> Nat]
  BY Zenon, <1>1, <1>2
<1>9. QueryFresh
  BY Zenon DEF IInv, QueryInv
<1>10. SUFFICES /\ waiting' \in Seq([query : Queries, fence : Nat]) /\ answer' \in [Queries -> Answers]
                /\ QueryFresh'
                /\ \A i \in 1..Len(waiting') :
                     /\ waiting'[i].fence <= accepted /\ waiting'[i].fence = asked'[waiting'[i].query]
                     /\ answer'[waiting'[i].query] # Asleep
  <2>1. TypeInv'
    <3>1. waiting' \in Seq([query : Queries, fence : Nat]) /\ answer' \in [Queries -> Answers]
      BY Zenon, <1>10
    <3>2. UNCHANGED resolved
      BY Zenon DEF Query
    <3> QED  BY Zenon, <1>4, <1>8, <3>1, <3>2 DEF IInv, TypeInv, Places, engineVars, workVars
  <2>2. QueryInv'
    BY Zenon, <1>4, <1>10 DEF QueryInv
  <2> QED  BY Zenon, <1>3, <1>5, <2>1, <2>2 DEF IInv
<1>11. CASE /\ waiting' = Append(waiting, [query |-> q, fence |-> Fence])
            /\ answer' = [answer EXCEPT ![q] = NoAnswer]
  <2> DEFINE w == [query |-> q, fence |-> accepted]
  <2>1. w \in [query : Queries, fence : Nat] /\ w.query = q /\ w.fence = accepted
    BY Zenon, <1>2
  <2>2. waiting \in Seq([query : Queries, fence : Nat]) /\ waiting' = Append(waiting, w)
    BY Zenon, <1>11 DEF IInv, TypeInv, Fence
  <2> HIDE DEF w
  <2>3. /\ waiting' \in Seq([query : Queries, fence : Nat]) /\ Len(waiting') = Len(waiting) + 1
        /\ \A i \in 1..Len(waiting) : waiting'[i] = waiting[i]
        /\ waiting'[Len(waiting) + 1] = w /\ Len(waiting) \in Nat
    BY <2>1, <2>2, AppendProperties, LenProperties
  <2>4. answer' \in [Queries -> Answers] /\ answer'[q] = NoAnswer /\ \A p \in Queries : p # q => answer'[p] = answer[p]
    BY Zenon, <1>2, <1>11 DEF Answers
  <2>5. QueryFresh'
    BY <1>7, <1>9, <2>4 DEF QueryFresh, NoAnswer
  <2>6. ASSUME NEW i \in 1..Len(waiting')
        PROVE  /\ waiting'[i].fence <= accepted /\ waiting'[i].fence = asked'[waiting'[i].query]
               /\ answer'[waiting'[i].query] # Asleep
    <3>1. CASE i \in 1..Len(waiting)
      <4> DEFINE p == waiting[i].query
      <4>1. waiting'[i] = waiting[i]
        BY Zenon, <2>3, <3>1
      <4>2. /\ p # q /\ p \in Queries /\ waiting[i].fence <= accepted /\ waiting[i].fence = asked[p]
            /\ answer[p] # Asleep
        BY Zenon, <1>6, <3>1
      <4>3. asked'[p] = asked[p] /\ answer'[p] = answer[p]
        BY Zenon, <1>7, <2>4, <4>2
      <4> QED  BY Zenon, <4>1, <4>2, <4>3
    <3>2. CASE i = Len(waiting) + 1
      BY SMTT(30), <1>1, <1>2, <2>1, <2>3, <2>4, <3>2 DEF NoAnswer, Asleep
    <3> QED  BY SMTT(30), <2>3, <3>1, <3>2
  <2> QED  BY Zenon, <2>3, <2>4, <2>5, <2>6
<1>12. CASE waiting' = waiting /\ answer' = [answer EXCEPT ![q] = [kind |-> "overloaded"]]
  <2>1. answer' \in [Queries -> Answers] /\ answer'[q] = [kind |-> "overloaded"] /\ \A p \in Queries : p # q => answer'[p] = answer[p]
    BY Zenon, <1>2, <1>12 DEF Answers
  <2>2. QueryFresh'
    BY <1>7, <1>9, <2>1 DEF QueryFresh
  <2>3. waiting' \in Seq([query : Queries, fence : Nat])
    BY Zenon, <1>12 DEF IInv, TypeInv
  <2> QED  BY SMTT(30), <1>6, <1>7, <1>12, <2>1, <2>2, <2>3
<1>13. CASE /\ waiting' = <<>>
            /\ answer' = [p \in Queries |-> IF p = q \/ answer[p] = NoAnswer
                                             THEN [kind |-> "error"] ELSE answer[p]]
  <2>1. answer' \in [Queries -> Answers]
    BY Zenon, <1>2, <1>13 DEF Answers
  <2>2. QueryFresh'
    BY Zenon, <1>7, <1>9, <1>13 DEF QueryFresh
  <2>3. waiting' \in Seq([query : Queries, fence : Nat]) /\ Len(waiting') = 0
    BY Zenon, <1>13, EmptySeq
  <2> QED  BY <2>1, <2>2, <2>3
<1> QED  BY Zenon, <1>11, <1>12, <1>13 DEF Query

LEMMA InstallKeeps == ASSUME IInv, Install PROVE IInv'
<1>1. owner = "install" /\ used = 0 /\ waiting = <<>> /\ looking = "no"
  BY Zenon DEF IInv, OwnerInv, QueryInv, Install, At
<1>2. ~IsBusy
  BY <1>1 DEF IsBusy
<1>3. /\ stored' = target /\ durable' = target /\ applying' = target
      /\ accepted' = target /\ dispatched' = target /\ resolved' = target
      /\ owner' \in {"priority", "input_effects"}
      /\ UNCHANGED <<waiting, answer, looking, seen, exit>>
  BY Zenon, <1>1, <1>2 DEF Install
<1>4. /\ worker = "idle" /\ dispatched = resolved /\ Done = dispatched /\ applying = dispatched
      /\ dispatched \in Nat /\ target \in Nat
  BY Zenon, <1>1, Cursors DEF IInv, TypeInv, WorkInv, Done
<1>5. queue = <<>> /\ events = <<>>
  BY Zenon, <1>4, ChainEmpty DEF IInv, TypeInv, WorkInv
<1>6. TypeInv'
  BY Zenon, <1>3, <1>4 DEF IInv, TypeInv, Install, Places, engineVars
<1>7. Chain(<<>>, target, target)
  BY Zenon, <1>4, ChainNone
<1>8. WorkInv'
  BY <1>1, <1>3, <1>4, <1>5, <1>7 DEF IInv, WorkInv, Install, Done
<1>9. OwnerInv'
  BY SMTT(30), <1>1, <1>3 DEF IInv, TypeInv, OwnerInv, Install, engineVars
<1>10. QueryInv'
  <2>1. QueryFresh' /\ Len(waiting') = 0
    BY Zenon, <1>1, <1>3, EmptySeq DEF IInv, QueryInv, QueryFresh, Install
  <2> QED  BY SMTT(30), <1>1, <1>3, <2>1 DEF QueryInv
<1> QED  BY Zenon, <1>6, <1>8, <1>9, <1>10 DEF IInv

-----------------------------------------------------------------------------
(* The worker thread                                                       *)

\* A step of the worker touches neither the owner's state nor the queries; the
\* published indexes only grow.
LEMMA WorkerKeeps ==
  ASSUME IInv, TypeInv', WorkInv',
         UNCHANGED <<engineVars, dispatched, resolved, accepted, used, owner, queryVars, target, exit>>,
         durable <= durable', owner = "install" => durable' = durable
  PROVE  IInv'
<1>1. durable \in Nat /\ durable' \in Nat /\ compacted \in Nat /\ seen \in Nat
  BY Zenon DEF IInv, TypeInv
<1>2. (compacted <= durable => compacted <= durable') /\ (seen <= durable => seen <= durable')
  BY <1>1
<1>3. OwnerInv'
  BY Zenon, <1>2 DEF IInv, OwnerInv, engineVars
<1>4. QueryInv'
  BY Zenon, <1>2 DEF IInv, QueryInv, QueryFresh, queryVars
<1> QED  BY Zenon, <1>3, <1>4 DEF IInv

\* Most of its steps publish nothing.
LEMMA WorkerQuiet ==
  ASSUME IInv, TypeInv', WorkInv',
         UNCHANGED <<engineVars, dispatched, resolved, accepted, used, durable, owner, queryVars, target, exit>>
  PROVE  IInv'
<1>1. durable \in Nat
  BY Zenon DEF IInv, TypeInv
<1>2. durable <= durable'
  BY <1>1
<1> QED  BY Zenon, <1>2, WorkerKeeps

\* While a snapshot is installed the worker has nothing to do.
LEMMA InstallIdle ==
  ASSUME IInv, owner = "install" PROVE worker = "idle"
  BY Zenon, Cursors DEF IInv, OwnerInv

LEMMA WTakeKeeps == ASSUME IInv, WTake PROVE IInv'
<1>1. /\ queue \in Seq(Batches) /\ queue # <<>> /\ applying \in Nat /\ dispatched \in Nat
      /\ Chain(queue, applying, dispatched) /\ worker = "idle"
  BY Zenon DEF IInv, TypeInv, WorkInv, WTake
<1> DEFINE b == Head(queue)
<1>2. /\ b \in Batches /\ Tail(queue) \in Seq(Batches)
      /\ b.from = applying + 1 /\ b.from <= b.to /\ b.to <= dispatched
      /\ Chain(Tail(queue), b.to, dispatched)
  BY Zenon, <1>1, ChainTail
<1>3. /\ current' = b /\ queue' = Tail(queue) /\ applying' = b.to /\ worker' = "lock"
      /\ UNCHANGED <<engineVars, dispatched, resolved, accepted, used, durable, locked, stored,
                     events, owner, queryVars, target, exit>>
  BY Zenon DEF WTake
<1> HIDE DEF b
<1>4. b.from \in Nat /\ b.to \in Nat
  BY Zenon, <1>2 DEF Batches
<1>5. TypeInv'
  BY Zenon, <1>2, <1>3, <1>4 DEF IInv, TypeInv, engineVars, queryVars
<1>6. Done' = Done
  <2>1. applying = durable
    BY Zenon, <1>1 DEF IInv, WorkInv
  <2>2. b.from - 1 = applying /\ worker' # "idle"
    BY <1>1, <1>2, <1>3, <1>4
  <2> QED  BY Zenon, <1>1, <1>3, <2>1, <2>2 DEF Done
<1>7. WorkInv'
  BY SMTT(30), <1>1, <1>2, <1>3, <1>4, <1>6 DEF IInv, TypeInv, WorkInv
<1> QED  BY Zenon, <1>3, <1>5, <1>7, WorkerQuiet

LEMMA WLockKeeps == ASSUME IInv, WLock PROVE IInv'
<1>1. TypeInv'
  BY Zenon DEF IInv, TypeInv, WLock, engineVars, queryVars
<1>2. Done' = Done
  BY Zenon DEF Done, WLock
<1>3. WorkInv'
  BY Zenon, <1>2 DEF IInv, WorkInv, WLock
<1> QED  BY Zenon, <1>1, <1>3, WorkerQuiet DEF WLock

LEMMA WApplyKeeps == ASSUME IInv, WApply PROVE IInv'
<1>1. current.to \in Nat
  BY Zenon DEF IInv, TypeInv, Batches
<1>2. TypeInv'
  BY Zenon, <1>1 DEF IInv, TypeInv, WApply, engineVars, queryVars
<1>3. Done' = Done
  BY Zenon DEF Done, WApply
<1>4. WorkInv'
  BY Zenon, <1>3 DEF IInv, WorkInv, WApply
<1> QED  BY Zenon, <1>2, <1>4, WorkerQuiet DEF WApply

LEMMA WFailKeeps == ASSUME IInv, WFail PROVE IInv'
<1>1. TypeInv'
  BY Zenon DEF IInv, TypeInv, WFail, engineVars, queryVars
<1>2. Done' = Done
  BY Zenon DEF Done, WFail
<1>3. WorkInv'
  BY Zenon, <1>2 DEF IInv, WorkInv, WFail
<1> QED  BY Zenon, <1>1, <1>3, WorkerQuiet DEF WFail

LEMMA WPublishKeeps == ASSUME IInv, WPublish PROVE IInv'
<1>1. current.to \in Nat /\ current.from \in Nat
  BY Zenon DEF IInv, TypeInv, Batches
<1>2. TypeInv'
  BY Zenon, <1>1 DEF IInv, TypeInv, WPublish, engineVars, queryVars
<1>3. Done' = Done
  BY Zenon DEF Done, WPublish
<1>4. WorkInv'
  BY Zenon, <1>3 DEF IInv, WorkInv, WPublish
<1>5. durable <= durable'
  <2>1. durable \in Nat /\ durable' = current.to /\ durable + 1 = current.from /\ current.from <= current.to
    <3>1. worker = "publish" /\ worker # "idle"
      BY DEF WPublish
    <3> QED  BY Zenon, <3>1 DEF IInv, TypeInv, WorkInv, WPublish
  <2> QED  BY <1>1, <2>1
<1>6. owner # "install"
  BY Zenon, InstallIdle DEF WPublish
<1> QED  BY Zenon, <1>2, <1>4, <1>5, <1>6, WorkerKeeps DEF WPublish

LEMMA WNotifyKeeps == ASSUME IInv, WNotify PROVE IInv'
<1>1. /\ current \in Batches /\ current.to \in Nat /\ current.from \in Nat
      /\ 0 < current.from /\ current.from <= current.to
      /\ stored = current.to /\ durable = current.to /\ applying = current.to
      /\ events \in Seq(Batches) /\ resolved \in Nat /\ Chain(events, resolved, current.from - 1)
  BY Zenon DEF IInv, TypeInv, WorkInv, WNotify, Batches, Done
<1>2. Append(events, current) \in Seq(Batches) /\ Chain(Append(events, current), resolved, current.to)
  BY SMTT(30), <1>1, ChainAppend, AppendProperties
<1>3. TypeInv'
  BY Zenon, <1>2 DEF IInv, TypeInv, WNotify, NoBatch, Batches, engineVars, queryVars
<1>4. Done' = current.to
  BY Zenon, <1>1 DEF Done, WNotify
<1>5. WorkInv'
  BY Zenon, <1>1, <1>2, <1>4 DEF IInv, WorkInv, WNotify
<1> QED  BY Zenon, <1>3, <1>5, WorkerQuiet DEF WNotify

-----------------------------------------------------------------------------
LEMMA InitIInv == Init => IInv
<1> SUFFICES ASSUME Init PROVE IInv
  BY Zenon
<1>1. TypeInv
  <2>1. /\ queue \in Seq(Batches) /\ events \in Seq(Batches)
        /\ waiting \in Seq([query : Queries, fence : Nat])
    BY Zenon, EmptySeq DEF Init
  <2>2. current \in Batches
    BY Zenon DEF Init, NoBatch, Batches
  <2>3. asked \in [Queries -> Nat] /\ answer \in [Queries -> Answers]
    BY Zenon DEF Init, Answers
  <2> QED  BY Zenon, <2>1, <2>2, <2>3 DEF Init, TypeInv, Places
<1>2. WorkInv
  BY ChainNone, ApplyWorkerAssumption DEF Init, WorkInv, Done
<1>3. OwnerInv
  BY DEF Init, OwnerInv
<1>4. QueryInv
  BY DEF Init, QueryInv, QueryFresh, Asleep
<1> QED  BY Zenon, <1>1, <1>2, <1>3, <1>4 DEF IInv

LEMMA NextIInv == IInv /\ [Next]_vars => IInv'
<1> SUFFICES ASSUME IInv, [Next]_vars PROVE IInv'
  BY Zenon
<1>1. CASE OwnerStep
  BY Zenon, <1>1, LookReadKeeps, LookBlockedKeeps, LookAnswerKeeps, PollKeeps, PollFailedKeeps,
     PriorityDoneKeeps, CompletePersistenceKeeps, AppliesDoneKeeps, CompactKeeps, CompactSkippedKeeps,
     DispatchKeeps, DispatchFailsKeeps, DispatchSkippedKeeps, InputNothingKeeps, InputConsensusKeeps,
     InputSnapshotKeeps, QueryKeeps, DrainedKeeps, InstallKeeps DEF OwnerStep
<1>2. CASE WorkerStep
  BY Zenon, <1>2, WTakeKeeps, WLockKeeps, WApplyKeeps, WFailKeeps, WPublishKeeps, WNotifyKeeps DEF WorkerStep
<1>3. CASE UNCHANGED vars
  <2>1. TypeInv' /\ OwnerInv' /\ QueryInv'
    BY <1>3 DEF IInv, TypeInv, OwnerInv, QueryInv, QueryFresh, vars, engineVars, workVars, queryVars
  <2>2. WorkInv'
    BY Zenon, <1>3, WorkUntouched DEF IInv, vars
  <2> QED  BY ZenonT(30), <2>1, <2>2 DEF IInv
<1> QED  BY Zenon, <1>1, <1>2, <1>3 DEF Next, Exited

LEMMA AlwaysIInv == Spec => []IInv
  BY InitIInv, NextIInv, PTL DEF Spec

\* Every state of the application path keeps its cursors in order, the entries in
\* flight between resolved and dispatched, the worker within its credits, and
\* the log the store still needs uncompacted (dispatch_applies, ApplyWorker::poll,
\* maybe_compact_snapshot), whatever the limits and the snapshot interval.
THEOREM CursorsOrdered == Spec => []CursorOrder
<1>1. IInv => CursorOrder
  <2> SUFFICES ASSUME IInv PROVE CursorOrder
    BY Zenon
  <2>1. /\ resolved <= durable /\ durable <= stored /\ stored <= applying
        /\ applying <= accepted /\ accepted = dispatched /\ dispatched <= committed
    BY Cursors DEF IInv, TypeInv, WorkInv, OwnerInv
  <2>2. InFlight = (resolved + 1)..dispatched
    BY Zenon, InFlightExact DEF IInv
  <2>3. worker \in {"lock", "apply"} => current.from = stored + 1
    BY Zenon DEF IInv, WorkInv
  <2>4. dispatched - resolved <= QueueEntries
    BY Zenon DEF IInv, WorkInv
  <2>5. compacted <= durable \/ owner \in {"drain", "install", "dead"}
    BY Zenon DEF IInv, OwnerInv
  <2> QED  BY Zenon, <2>1, <2>2, <2>3, <2>4, <2>5 DEF CursorOrder
<1> QED  BY <1>1, AlwaysIInv, PTL

\* The panics and error returns that guard try_submit, install_snapshot,
\* maybe_compact_snapshot and dispatch_applies are unreachable.
THEOREM NoCheckFires == Spec => []ChecksNeverFire
<1>1. IInv => ChecksNeverFire
  BY Zenon DEF IInv, OwnerInv, ChecksNeverFire
<1> QED  BY <1>1, AlwaysIInv, PTL

\* A status or dump answer is never older than what was dispatched when it was
\* asked (complete_queries), for any number of waiting queries.
THEOREM AnswersFresh == Spec => []QueryFresh
<1>1. IInv => QueryFresh
  BY Zenon DEF IInv, QueryInv
<1> QED  BY <1>1, AlwaysIInv, PTL

\* Outcomes leave complete_applies and drain_application in log order without a
\* gap or a repetition, except where an installed snapshot replaces them; and
\* nothing is written to the journal after an apply that failed.
THEOREM OutcomesOrdered == Spec => OutcomesInOrder
<1> DEFINE Resolves ==
      resolved' > resolved =>
        \/ owner = "install"
        \/ events # <<>> /\ Head(events).from = resolved + 1 /\ Head(events).to = resolved'
<1>1. ASSUME IInv, Next PROVE Resolves
  <2>1. CASE Poll(Polling)
    <3>1. /\ events \in Seq(Batches) /\ events # <<>> /\ resolved \in Nat /\ Done \in Nat
          /\ Chain(events, resolved, Done) /\ resolved' = Head(events).to
      BY Zenon, <1>1, <2>1, Cursors DEF IInv, TypeInv, WorkInv, Poll
    <3> QED  BY Zenon, <3>1, ChainTail
  <2>2. CASE Install
    BY Zenon, <2>2 DEF Install, At
  <2>3. CASE ~Poll(Polling) /\ ~Install
    <3>1. UNCHANGED resolved
      BY Zenon, <1>1, <2>3 DEF Next, OwnerStep, WorkerStep, Exited, vars, LookRead, LookBlocked, LookAnswer,
         PollFailed, PriorityDone, CompletePersistence, AppliesDone, Compact, CompactSkipped,
         Dispatch, DispatchFails, DispatchSkipped, InputNothing, InputConsensus, InputSnapshot,
         Query, Drained, WTake, WLock, WApply, WFail, WPublish, WNotify
    <3>2. resolved \in Nat
      BY Zenon, <1>1 DEF IInv, TypeInv
    <3>3. ~(resolved' > resolved)
      BY <3>1, <3>2
    <3> QED  BY Zenon, <3>3
  <2> QED  BY Zenon, <2>1, <2>2, <2>3
<1>2. ASSUME IInv, Next, worker = "failed" PROVE worker' = "failed" /\ stored' <= stored
  <2>1. ~Install
    BY Zenon, <1>2, InstallIdle DEF Install, At
  <2>2. UNCHANGED <<worker, stored>>
    BY Zenon, <1>2, <2>1 DEF Next, OwnerStep, WorkerStep, Exited, vars, workVars, LookRead, LookBlocked, LookAnswer,
       Poll, PollFailed, PriorityDone, CompletePersistence, AppliesDone, Compact, CompactSkipped,
       Dispatch, DispatchFails, DispatchSkipped, InputNothing, InputConsensus, InputSnapshot,
       Query, Drained, WTake, WLock, WApply, WFail, WPublish, WNotify
  <2>3. stored \in Nat
    BY Zenon, <1>2 DEF IInv, TypeInv
  <2>4. stored' <= stored
    BY <2>2, <2>3
  <2> QED  BY Zenon, <1>2, <2>2, <2>4
<1> DEFINE Ordered == Resolves /\ (worker = "failed" => worker' = "failed" /\ stored' <= stored)
<1>3. IInv /\ [Next]_vars => [Ordered]_vars
  BY Zenon, <1>1, <1>2
<1> QED  BY <1>3, AlwaysIInv, PTL DEF Spec, OutcomesInOrder
=============================================================================
