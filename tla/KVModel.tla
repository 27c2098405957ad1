------------------------------ MODULE KVModel -------------------------------
(***************************************************************************)
(* The replicated key-value model with per-session deduplication (Model in *)
(* crates/common/src/model.rs), as a function on model states, and what a  *)
(* log of commands means to its clients, stated without sessions.          *)
(*                                                                         *)
(* A command is a record [client, sequence, kind, key, value, expected];   *)
(* a log is a sequence of commands and Noops (entries without a command).  *)
(***************************************************************************)
EXTENDS Naturals, Sequences, SequencesExt

CONSTANTS
  Clients, Keys,
  NoValue,   \* Option::None for values
  Noop       \* an entry whose command is None

EmptyModel == [values |-> [k \in Keys |-> NoValue], sessions |-> [c \in Clients |-> Noop]]

Outcome(v, s, e) == [value |-> v, swapped |-> s, error |-> e]
Refused(e) == Outcome(NoValue, "none", e)

\* The match on cmd.kind: values after the command, and the swapped flag.
Swaps(values, cmd) == values[cmd.key] = cmd.expected
Written(values, cmd) ==
  IF cmd.kind = "put" \/ (cmd.kind = "cas" /\ Swaps(values, cmd))
    THEN [values EXCEPT ![cmd.key] = cmd.value] ELSE values
Swapped(values, cmd) ==
  IF cmd.kind # "cas" THEN "none" ELSE IF Swaps(values, cmd) THEN "yes" ELSE "no"

\* Mistakes the properties of DurableModel are there to catch: retries are not
\* recognised; a retry is recognised by its sequence number alone.
SessionForgotten(model, cmd) == Noop
SameIdentity(cmd, old) == TRUE

\* The session entry that decides about cmd: sessions.get(&cmd.client)
Session(model, cmd) == model.sessions[cmd.client]

\* cmd, which has the sequence number of old, is old sent again.
SameCommand(cmd, old) == cmd = old.command

\* Model::apply as a pair of the new model and the outcome.
Apply(model, cmd) ==
  LET old == Session(model, cmd)
      fresh == old = Noop \/ cmd.sequence > old.command.sequence
      values == Written(model.values, cmd)
      out == Outcome(values[cmd.key], Swapped(model.values, cmd), "none")
  IN  CASE fresh ->
             [model |-> [values |-> values,
                         sessions |-> [model.sessions EXCEPT ![cmd.client] =
                                         [command |-> cmd, outcome |-> out]]],
              outcome |-> out]
        [] ~fresh /\ cmd.sequence < old.command.sequence ->
             [model |-> model, outcome |-> Refused("stale_sequence")]
        [] ~fresh /\ cmd.sequence = old.command.sequence /\ SameCommand(cmd, old) ->
             [model |-> model, outcome |-> old.outcome]
        [] OTHER ->
             [model |-> model, outcome |-> Refused("identity_conflict")]

-----------------------------------------------------------------------------
(* The meaning of a log: which of its commands take effect, and what each  *)
(* of them answers, read off the whole log.                                *)

SameClientBefore(log, i) ==
  {j \in 1..(i - 1) : log[j] # Noop /\ log[j].client = log[i].client}

\* A command takes effect where its sequence number exceeds every earlier one
\* of its client.
TakesEffect(log, i) ==
  /\ log[i] # Noop
  /\ \A j \in SameClientBefore(log, i) : log[j].sequence < log[i].sequence

\* The values after the first n entries.
ValuesAfter(log, n) ==
  FoldLeftDomain(LAMBDA vs, i : IF TakesEffect(log, i) THEN Written(vs, log[i]) ELSE vs,
                 [k \in Keys |-> NoValue], SubSeq(log, 1, n))

\* The answer to entry i: that of the entry that took effect under its
\* identity, unless the identity is outdated or was used for another command.
Answer(log, i) ==
  LET first == {j \in SameClientBefore(log, i) \cup {i} :
                  TakesEffect(log, j) /\ log[j].sequence >= log[i].sequence}
      f == CHOOSE j \in first : \A k \in first : log[j].sequence >= log[k].sequence
  IN  CASE log[f].sequence > log[i].sequence -> Refused("stale_sequence")
        [] log[f] # log[i] -> Refused("identity_conflict")
        [] OTHER -> Outcome(ValuesAfter(log, f)[log[i].key],
                            Swapped(ValuesAfter(log, f - 1), log[i]), "none")
=============================================================================
