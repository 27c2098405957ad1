----------------------------- MODULE DurableLog -----------------------------
(***************************************************************************)
(* What the owner of a Journal may rely on, with the file system left out. *)
(* The owner adds one record at a time, so the log is known by its length. *)
(* A record whose append was interrupted is either there at the next open  *)
(* or it never was; everything older is there.  Checkpoints, which rewrite *)
(* the file, do not appear at all.                                         *)
(***************************************************************************)
EXTENDS Naturals

VARIABLES
  log,     \* number of records the owner knows to be in the log
  isOpen,  \* the owner holds an open journal
  trying   \* one more record may be in the file

Init == log = 0 /\ ~isOpen /\ ~trying

Open ==
  /\ ~isOpen
  /\ isOpen' = TRUE
  /\ log' \in IF trying THEN {log, log + 1} ELSE {log}
  /\ trying' = FALSE

Begin ==
  /\ isOpen /\ ~trying
  /\ trying' = TRUE
  /\ UNCHANGED <<log, isOpen>>

Acknowledge ==
  /\ isOpen /\ trying
  /\ log' = log + 1
  /\ trying' = FALSE
  /\ UNCHANGED isOpen

\* The owner stops, is killed, or loses power; more can be lost while down.
Stop ==
  /\ isOpen' = FALSE
  /\ trying' \in {trying, FALSE}
  /\ UNCHANGED log

Next == Open \/ Begin \/ Acknowledge \/ Stop

Spec == Init /\ [][Next]_<<log, isOpen, trying>>
=============================================================================
