---------------------------- MODULE MCTaskRuns ----------------------------
(* Small instances of TaskRuns for TLC. *)
EXTENDS TaskRuns

ResultsHandoff == {<<"succeeded", "next">>, <<"failed", "parked">>, <<"succeeded", "queued">>}
ResultsReview == {<<"succeeded", "waiting_human">>, <<"succeeded", "pr_open">>}
ResultsParked == {<<"failed", "parked">>}
=============================================================================
