---------------------------- MODULE MCAdmission -----------------------------
(* Instances of Admission for TLC.                                         *)
EXTENDS Admission, TLC

CONSTANTS r1, r2, r3, r4

\* A command, its retry, other content under its identity, another identity.
MixedCommands ==
  r1 :> [id |-> "a", body |-> 1] @@ r2 :> [id |-> "a", body |-> 1] @@
  r3 :> [id |-> "a", body |-> 2] @@ r4 :> [id |-> "b", body |-> 1]

RetriedCommands ==
  r1 :> [id |-> "a", body |-> 1] @@ r2 :> [id |-> "a", body |-> 1] @@
  r3 :> [id |-> "a", body |-> 2]

\* One command and its retries.
RetriesOnly == [r \in Requests |-> [id |-> "a", body |-> 1]]

\* With and without conflicting content.
Conflicts == {RetriedCommands, RetriesOnly}
Mixed == {MixedCommands}
=============================================================================
