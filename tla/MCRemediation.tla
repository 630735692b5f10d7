--------------------------- MODULE MCRemediation ---------------------------
(* Instances of Remediation for TLC. *)
EXTENDS Remediation

CONSTANTS d1, d2

\* What each review decides, and the review of each comment: none has one.
Verdicts == <<"requested_changes", "requested_changes", "approved", "dismissed">>
Standalone == <<0, 0>>

\* Archie's own comments: its reply.
OwnReply == {<<"comment", 2>>}

\* Bodies within the clip.
Short == [r \in 1 .. NReviews |-> 1]

Reviews(s) == {"review"} \X s

\* One daemon that polls, on a pull request with one review of each verdict
\* and a comment beside archie's own reply.
Poll == [daemons |-> {d1}, webhook |-> FALSE, rounds |-> 2, batch |-> 2,
         records |-> Reviews({1, 3, 4}) \cup {"comment"} \X {1, 2}, forgets |-> Record,
         faults |-> 0, crashes |-> 0]

\* One review, delivered by webhook and by the scan, with a failed call and a
\* restart.
Single == [Poll EXCEPT !.webhook = TRUE, !.records = Reviews({1}), !.faults = 1, !.crashes = 1]

\* The poll of one review and a comment, with a daemon that restarts twice, and a
\* stream that forgets nothing.
Restarts == [Poll EXCEPT !.records = Reviews({1}) \cup {"comment"} \X {1, 2}, !.forgets = {}, !.crashes = 2]

\* Two daemons on one consumer and two reviews that ask for changes.
Pair == [Poll EXCEPT !.daemons = {d1, d2}, !.rounds = 1, !.batch = 1, !.records = Reviews({1, 2}),
                        !.forgets = Reviews({1})]

\* Two reviews that one scan finds.
Midrun == [Poll EXCEPT !.records = Reviews({1, 2})]

Installations == {Poll, Restarts, Single, Pair}
OneScan == {Midrun}
=============================================================================
