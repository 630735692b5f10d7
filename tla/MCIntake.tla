------------------------------ MODULE MCIntake ------------------------------
(* Small instances of Intake for TLC. *)
EXTENDS Intake

Polling == {[intake |-> "identities", slow |-> TRUE]}
Root == {[intake |-> "root", slow |-> TRUE]}
PollOrHook == Polling \cup {[intake |-> "webhook", slow |-> FALSE]}
=============================================================================
