------------------------------- MODULE Checker ------------------------------
(***************************************************************************)
(* The linearizability check of a qualification history (benchctl/         *)
(* checker.py), and what it is meant to decide.                            *)
(*                                                                         *)
(* A history is a sequence of events in the order of the history file.  An *)
(* event has the command (client, sequence, kind, key, value, expected),   *)
(* the invocation and response times (start, end) and the reply (status,   *)
(* result and swapped, which is "yes", "no" or None).  None is NoValue.    *)
(***************************************************************************)
EXTENDS Integers, Sequences, FiniteSets, Functions

NoValue == "none"

\* transition: the value of the key after the command, and the reply.
Transition(value, c) ==
  LET swapped == c.kind = "cas" /\ value = c.expected
      new == IF c.kind = "put" \/ swapped THEN c.value ELSE value
  IN  [value |-> new, swapped |-> CASE swapped -> "yes" [] c.kind = "cas" /\ ~swapped -> "no" [] OTHER -> NoValue]

Explains(value, e) ==
  LET t == Transition(value, e) IN e.result = t.value /\ e.swapped = t.swapped

-----------------------------------------------------------------------------
(* check_history *)

Complete(h) == \A i \in DOMAIN h : h[i].status = "ok"

\* The interval and the identity of an event, among those read before it.
EventValid(h, i) ==
  /\ h[i].start >= 0 /\ h[i].end >= h[i].start /\ h[i].sequence >= 1
  /\ \A j \in 1..i-1 : <<h[i].client, h[i].sequence>> # <<h[j].client, h[j].sequence>>

\* The loop over the events returns at the first one without an answer, unless
\* it raised before.
GivesUp(h) ==
  \/ h = <<>>
  \/ \E i \in DOMAIN h : h[i].status # "ok" /\ \A j \in 1..i-1 : EventValid(h, j)

\* The stable sort of one client's events by their start.
SessionBefore(h, i, j) ==
  /\ i # j /\ h[i].client = h[j].client
  /\ h[i].start < h[j].start \/ (h[i].start = h[j].start /\ i < j)

SessionsSequential(h) ==
  \A i, j \in DOMAIN h :
    SessionBefore(h, i, j) => h[i].end <= h[j].start /\ h[i].sequence < h[j].sequence

\* predecessors: an operation that had answered before the other was invoked.
Precedes(h, i, j) == i # j /\ h[i].end < h[j].start

\* A search that forgets the real-time order.
KeyOrderedAnyhow(h, ops) ==
  LET values == {NoValue} \cup {h[i].value : i \in ops}
      visit[done \in SUBSET ops, value \in values] ==
        \/ done = ops
        \/ \E i \in ops \ done :
             Explains(value, h[i]) /\ visit[done \cup {i}, Transition(value, h[i]).value]
  IN  visit[{}, NoValue]

\* visit: the operations of one key can be ordered after those in done.
KeyOrdered(h, ops) ==
  LET values == {NoValue} \cup {h[i].value : i \in ops}
      visit[done \in SUBSET ops, value \in values] ==
        \/ done = ops
        \/ \E i \in ops \ done :
             /\ \A j \in ops : Precedes(h, j, i) => j \in done
             /\ Explains(value, h[i])
             /\ visit[done \cup {i}, Transition(value, h[i]).value]
  IN  visit[{}, NoValue]

KeyGroups(h) == {{i \in DOMAIN h : h[i].key = h[k].key} : k \in DOMAIN h}

\* The verdict, unless the checker runs out of states or of time.
CheckHistory(h) ==
  IF GivesUp(h) THEN "inconclusive"
  ELSE IF ~((\A i \in DOMAIN h : EventValid(h, i)) /\ SessionsSequential(h)) THEN "invalid"
  ELSE IF \A ops \in KeyGroups(h) : KeyOrdered(h, ops) THEN "passed" ELSE "failed"

-----------------------------------------------------------------------------
(* The reference: one order of the whole history, over all keys together,  *)
(* that keeps the real-time order and explains every reply.                *)

\* The store before the k-th operation of the order.
StoreBefore(h, order, k, key) ==
  LET store[i \in 0..k-1] ==
        IF i = 0 THEN NoValue
        ELSE IF h[order[i]].key = key THEN Transition(store[i - 1], h[order[i]]).value
        ELSE store[i - 1]
  IN  store[k - 1]

Linearizes(h, order) ==
  /\ \A i, j \in DOMAIN order : i < j => ~Precedes(h, order[j], order[i])
  /\ \A k \in DOMAIN order : Explains(StoreBefore(h, order, k, h[order[k]].key), h[order[k]])

Linearizable(h) == \E order \in Bijection(DOMAIN h, DOMAIN h) : Linearizes(h, order)

=============================================================================
