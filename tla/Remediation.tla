---------------------------- MODULE Remediation ----------------------------
(***************************************************************************)
(* Reviews of a pull request that archie opened, and the remediation runs  *)
(* that answer them.  A webhook and the daemon's scan publish each review  *)
(* and comment to the reaction stream, which suppresses repeats for a      *)
(* while; the daemon's cycle turns reactions into a queued run and claims  *)
(* it; reviews that arrive meanwhile are to wait in the row.               *)
(*                                                                         *)
(* One task and one pull request: nothing here relates two of them.        *)
(***************************************************************************)
EXTENDS Naturals, Sequences, FiniteSets, FiniteSetsExt, Functions

CONSTANTS Daemon,
          NReviews, NComments,
          Parent,      \* the review of each comment, 0 for a comment of its own
          Verdict,     \* the state of each review
          Own,         \* the comments archie itself writes
          Length,      \* the length of each review's body
          MaxPayload,  \* what a payload is clipped to
          MaxDeliver,  \* deliveries of a message before it is dropped
          Setups       \* the installations looked at

Review == 1 .. NReviews
Comment == 1 .. NComments
Record == ({"review"} \X Review) \cup ({"comment"} \X Comment)

\* A reaction on the stream: the record, and how often it was delivered.
Message == [rec : Record, tries : 0 .. MaxDeliver - 1]

ASSUME RemediationAssumption ==
    /\ IsFiniteSet(Daemon)
    /\ NReviews \in Nat /\ NComments \in Nat
    /\ Parent \in [Comment -> {0} \cup Review]
    /\ Verdict \in [Review -> {"requested_changes", "approved", "dismissed"}]
    /\ Length \in [Review -> Nat]
    /\ Own \subseteq {"comment"} \X Comment
    /\ MaxPayload \in Nat /\ MaxDeliver \in Nat \ {0}

\* An installation: the daemons on the consumer, whether the forge delivers
\* webhooks, the repository's cap on rounds (0 for none), the reactions taken
\* per cycle; what is written on the forge, what the stream may forget before
\* the exchange is over, and how many calls fail and daemons restart.
Setup == [daemons : SUBSET Daemon, webhook : BOOLEAN, rounds : Nat, batch : Nat \ {0},
          records : SUBSET Record, forgets : SUBSET Record, faults : Nat, crashes : Nat]

ASSUME SetupsAssumption == Setups \subseteq Setup

VARIABLES setup,    \* the installation, fixed
          posted,   \* the records on the forge
          hooked,   \* those whose webhook was delivered
          window,   \* those the stream still remembers
          stream,   \* how many of each message wait to be delivered
          row,      \* the task
          loop,     \* each daemon's cycle
          run,      \* the remediation run of the claimed row
          begun,    \* how often each record was made work
          answers,  \* how often a record of another author was
          replies, faults, crashes

vars == <<setup, posted, hooked, window, stream, row, loop, run, begun, answers, replies, faults, crashes>>

\* A review unit: the review, 0 for none, and the comments collected into it.
Unit == [review : {0} \cup Review, comments : SUBSET Comment]
NoUnit == [none |-> TRUE]
Broken == [broken |-> TRUE]
Payload == Unit \cup {NoUnit, Broken}

\* "closed" stands for every terminal status.
Status == {"pr_open", "queued", "running", "parked", "closed"}

Idle == [pc |-> "scan", n |-> 0]
Cursors == [review : 0 .. NReviews, comment : 0 .. NComments]
NoRun == [pc |-> "none"]

Row == [status : Status, remediate : BOOLEAN, payload : Payload, pending : Seq(Payload),
        rounds : Nat, cursor : Cursors]
Waits == [pc : {"scan", "drain", "claim"}, n : Nat]
Scans == [pc : {"comments", "cursors"}, from : Cursors, to : Cursors]
Handles == [pc : {"lookup", "act"}, rec : Record, tries : 0 .. MaxDeliver - 1, n : Nat]
Runs == [pc : {"round", "persist", "build", "reply", "update", "finish"}, payload : Payload, rounds : Nat]

TypeOK ==
    /\ setup \in Setups
    /\ posted \subseteq Record /\ hooked \subseteq posted /\ window \subseteq posted
    /\ stream \in [Message -> Nat]
    /\ row \in Row
    /\ loop \in [Daemon -> Waits \cup Scans \cup Handles]
    /\ run \in {NoRun} \cup Runs
    /\ begun \in [Record -> Nat] /\ answers \in Nat /\ replies \in Nat
    /\ faults \in 0 .. setup.faults /\ crashes \in 0 .. setup.crashes

Init ==
    /\ setup \in Setups
    /\ posted = {} /\ hooked = {} /\ window = {} /\ stream = [m \in Message |-> 0]
    /\ row = [status |-> "pr_open", remediate |-> FALSE, payload |-> NoUnit, pending |-> <<>>,
              rounds |-> 0, cursor |-> [review |-> 0, comment |-> 0]]
    /\ loop = [d \in Daemon |-> Idle]
    /\ run = NoRun
    /\ begun = [r \in Record |-> 0]
    /\ answers = 0 /\ replies = 0 /\ faults = 0 /\ crashes = 0

\* A call of the daemon may fail, a bounded number of times.
Fails == faults < setup.faults /\ faults' = faults + 1
-----------------------------------------------------------------------------
(***************************************************************************)
(* The forge, and the stream's memory of what was published.               *)
(***************************************************************************)

\* Ids grow as records are written; a review precedes the comments that name it.
CanPost(r) ==
    /\ r \in setup.records \ posted
    /\ \A s \in posted : s[1] = r[1] => s[2] < r[2]
    /\ r[1] = "comment" /\ Parent[r[2]] # 0 => <<"review", Parent[r[2]]>> \in posted

Post(r) ==
    /\ row.status # "closed"
    /\ r \notin Own /\ CanPost(r)
    /\ posted' = posted \cup {r}
    /\ UNCHANGED <<setup, hooked, window, stream, row, loop, run, begun, answers, replies, faults, crashes>>

\* PublishUnique of records: those the window holds are suppressed.
Published(recs) ==
    [m \in Message |-> IF m.tries = 0 /\ m.rec \in recs \ window THEN stream[m] + 1 ELSE stream[m]]
Remembered(recs) == window \cup recs

serveReviewEvent(r) ==
    /\ setup.webhook
    /\ r \in posted \ hooked
    /\ hooked' = hooked \cup {r}
    /\ stream' = Published({r})
    /\ window' = Remembered({r})
    /\ UNCHANGED <<setup, posted, row, loop, run, begun, answers, replies, faults, crashes>>

Expire(r) ==
    /\ r \in window \cap setup.forgets
    /\ window' = window \ {r}
    /\ UNCHANGED <<setup, posted, hooked, stream, row, loop, run, begun, answers, replies, faults, crashes>>
-----------------------------------------------------------------------------
(***************************************************************************)
(* The daemon's cycle: scan the open pull request, drain the reactions,    *)
(* claim what is queued.                                                   *)
(***************************************************************************)

MutIsOwn(r) == FALSE
\* The author is the account archie writes as.
IsOwn(r) == r \in Own

Goto(d, pc) == [loop EXCEPT ![d].pc = pc]
Drain(d, n) == [loop EXCEPT ![d] = [pc |-> "drain", n |-> n]]

\* The records of a kind after a cursor.
Listed(kind, after) == {r \in posted : r[1] = kind /\ r[2] > after}

MutHighest(recs, cursor) == cursor
Highest(recs, cursor) == IF recs = {} THEN cursor ELSE Max({r[2] : r \in recs})

\* Archie's own comments are passed over, though the cursor moves past them.
Reactions(recs) == {r \in recs : ~IsOwn(r)}

MutGivesUp(d, next) == loop' = [loop EXCEPT ![d] = next]
\* After a failed listing or publish the cursors stay as they were.
GivesUp(d, next) == loop' = Drain(d, 0)

\* One listing of scanPRReviewReactions: its reactions are published one by
\* one in the order of their ids, all of them or up to the first failure.
Scan(d, listed, next) ==
    LET recs == Reactions(listed) IN
    /\ \/ /\ stream' = Published(recs)
          /\ window' = Remembered(recs)
          /\ loop' = [loop EXCEPT ![d] = next]
          /\ UNCHANGED faults
       \/ /\ Fails
          /\ \E id \in {0} \cup {r[2] : r \in recs} :
                /\ stream' = Published({r \in recs : r[2] <= id})
                /\ window' = Remembered({r \in recs : r[2] <= id})
          /\ GivesUp(d, next)
    /\ UNCHANGED <<setup, posted, hooked, row, run, begun, answers, replies, crashes>>

\* OpenPRs reads the row with its cursors.
ScanReviews(d) ==
    LET listed == Listed("review", row.cursor.review) IN
    /\ loop[d].pc = "scan"
    /\ row.status = "pr_open"
    /\ Scan(d, listed, [pc |-> "comments", from |-> row.cursor,
                        to |-> [row.cursor EXCEPT !.review = Highest(listed, @)]])

ScanComments(d) ==
    LET listed == Listed("comment", loop[d].from.comment) IN
    /\ loop[d].pc = "comments"
    /\ Scan(d, listed, [loop[d] EXCEPT !.pc = "cursors", !.to.comment = Highest(listed, @)])

\* OpenPRs does not list the task.
SkipScan(d) ==
    /\ loop[d].pc = "scan"
    /\ row.status # "pr_open"
    /\ loop' = Drain(d, 0)
    /\ UNCHANGED <<setup, posted, hooked, window, stream, row, run, begun, answers, replies, faults, crashes>>

\* Written when a cursor moved, guarded on pr_open; a failure is only logged.
SetReviewCursors(d) ==
    /\ loop[d].pc = "cursors"
    /\ \/ /\ row' = IF row.status = "pr_open" /\ loop[d].to # loop[d].from
                    THEN [row EXCEPT !.cursor = loop[d].to] ELSE row
          /\ UNCHANGED faults
       \/ Fails /\ row' = row
    /\ loop' = Drain(d, 0)
    /\ UNCHANGED <<setup, posted, hooked, window, stream, run, begun, answers, replies, crashes>>

\* The stream redelivers, so any message may be the next.
Fetch(d) ==
    /\ loop[d].pc = "drain"
    /\ loop[d].n < setup.batch
    /\ \E m \in Message :
          /\ stream[m] > 0
          /\ loop' = [loop EXCEPT ![d] = [pc |-> "lookup", rec |-> m.rec, tries |-> m.tries, n |-> @.n + 1]]
          /\ stream' = [stream EXCEPT ![m] = @ - 1]
    /\ UNCHANGED <<setup, posted, hooked, window, row, run, begun, answers, replies, faults, crashes>>

StopDraining(d) ==
    /\ loop[d].pc = "drain"
    /\ \/ (\A m \in Message : stream[m] = 0) /\ UNCHANGED faults
       \/ loop[d].n = setup.batch /\ UNCHANGED faults
       \/ Fails
    /\ loop' = Goto(d, "claim")
    /\ UNCHANGED <<setup, posted, hooked, window, stream, row, run, begun, answers, replies, crashes>>

Drained(d) == Drain(d, loop[d].n)

\* A message that is not acknowledged comes back, up to MaxDeliver times.
Redelivered(d) ==
    IF loop[d].tries + 1 < MaxDeliver
    THEN [stream EXCEPT ![[rec |-> loop[d].rec, tries |-> loop[d].tries + 1]] = @ + 1]
    ELSE stream

\* The message is done: acknowledged, or its acknowledgement is lost.
Acked(d) == \/ stream' = stream /\ UNCHANGED faults
            \/ Fails /\ stream' = Redelivered(d)
Naked(d) == Fails /\ stream' = Redelivered(d)

\* OpenTaskByPR: only a row in pr_open owns the pull request.
Owns == row.status = "pr_open"

\* handle, up to the lookup's answer.
Lookup(d) ==
    /\ loop[d].pc = "lookup"
    /\ \/ Owns /\ ~IsOwn(loop[d].rec) /\ loop' = Goto(d, "act") /\ UNCHANGED <<stream, faults>>
       \/ (~Owns \/ IsOwn(loop[d].rec)) /\ loop' = Drained(d) /\ Acked(d)
       \/ Naked(d) /\ loop' = Drained(d)
    /\ UNCHANGED <<setup, posted, hooked, window, row, run, begun, answers, replies, crashes>>
-----------------------------------------------------------------------------
(***************************************************************************)
(* What a reaction does to the row.                                        *)
(***************************************************************************)

Size(u) == (IF u.review = 0 THEN 0 ELSE Length[u.review]) + Cardinality(u.comments)

\* A clipped payload no longer decodes.
Clip(u) == IF Size(u) > MaxPayload THEN Broken ELSE u

Appended(u) == IF row.payload = u \/ u \in Range(row.pending) THEN row.pending ELSE Append(row.pending, u)

MutBeginRemediation(u) ==
    IF row.status = "pr_open"
    THEN [row EXCEPT !.status = "queued", !.remediate = TRUE]
    ELSE row

\* A run is queued with its unit; behind a run in flight the unit waits.
BeginRemediation(u) ==
    IF row.status = "pr_open"
    THEN [row EXCEPT !.status = "queued", !.remediate = TRUE, !.payload = Clip(u)]
    ELSE IF row.status \in {"queued", "running"} /\ row.remediate
    THEN [row EXCEPT !.pending = Appended(Clip(u))]
    ELSE row

\* The comment joins the first unit of its review that no run has claimed.
IsUnitOf(payload, r) == payload \in Unit /\ payload.review = r
Merged(payload, c) == [payload EXCEPT !.comments = @ \cup {c}]
UpdateReviewPayload(r, c) ==
    LET waiting == {i \in DOMAIN row.pending : IsUnitOf(row.pending[i], r)} IN
    IF ~row.remediate THEN row
    ELSE IF row.status = "queued" /\ IsUnitOf(row.payload, r)
    THEN [row EXCEPT !.payload = Clip(Merged(@, c))]
    ELSE IF waiting # {}
    THEN LET i == CHOOSE j \in waiting : \A k \in waiting : j <= k
         IN  [row EXCEPT !.pending[i] = Merged(@, c)]
    ELSE row

\* handleReview and handleComment.
Reaction(rec) ==
    IF rec[1] = "review"
    THEN IF Verdict[rec[2]] = "requested_changes"
         THEN BeginRemediation([review |-> rec[2], comments |-> {}]) ELSE row
    ELSE IF Parent[rec[2]] = 0
    THEN BeginRemediation([review |-> 0, comments |-> {rec[2]}])
    ELSE UpdateReviewPayload(Parent[rec[2]], rec[2])

Act(d) ==
    LET rec == loop[d].rec IN
    /\ loop[d].pc = "act"
    /\ \/ /\ row' = Reaction(rec)
          /\ begun' = [begun EXCEPT ![rec] = IF row' # row THEN @ + 1 ELSE @]
          /\ answers' = IF row' # row /\ rec \notin Own THEN answers + 1 ELSE answers
          /\ Acked(d)
       \/ Naked(d) /\ UNCHANGED <<row, begun, answers>>
    /\ loop' = Drained(d)
    /\ UNCHANGED <<setup, posted, hooked, window, run, replies, crashes>>
-----------------------------------------------------------------------------
(***************************************************************************)
(* The remediation run: review.start-round, the builder, review.reply, and *)
(* finish.                                                                 *)
(***************************************************************************)

\* drainNATS: what is queued is claimed, then the cycle waits for its ticker.
ClaimNext(d) ==
    /\ loop[d].pc = "claim"
    /\ row' = IF row.status = "queued" THEN [row EXCEPT !.status = "running"] ELSE row
    /\ run' = IF row.status = "queued"
              THEN [pc |-> "round", payload |-> row.payload, rounds |-> row.rounds] ELSE run
    /\ loop' = [loop EXCEPT ![d] = Idle]
    /\ UNCHANGED <<setup, posted, hooked, window, stream, begun, answers, replies, faults, crashes>>

Park ==
    /\ row' = [row EXCEPT !.status = IF @ = "running" THEN "parked" ELSE @]
    /\ run' = NoRun

AtCap == setup.rounds > 0 /\ run.rounds >= setup.rounds

\* A payload that does not decode, and the round cap, park.
StartRound ==
    /\ run.pc = "round"
    /\ IF run.payload \notin Unit \/ AtCap THEN Park
       ELSE run' = [run EXCEPT !.pc = "persist", !.rounds = @ + 1] /\ row' = row
    /\ UNCHANGED <<setup, posted, hooked, window, stream, loop, begun, answers, replies, faults, crashes>>

\* The next stage's write of the run's copy keeps the count.
PersistRound ==
    /\ run.pc = "persist"
    /\ row' = [row EXCEPT !.payload = run.payload, !.rounds = run.rounds]
    /\ run' = [run EXCEPT !.pc = "build"]
    /\ UNCHANGED <<setup, posted, hooked, window, stream, loop, begun, answers, replies, faults, crashes>>

Build ==
    /\ run.pc = "build"
    /\ \/ Park
       \/ run' = [run EXCEPT !.pc = "reply"] /\ row' = row
    /\ UNCHANGED <<setup, posted, hooked, window, stream, loop, begun, answers, replies, faults, crashes>>

\* The reply is posted, in the thread of the unit's comments if it has any,
\* and the payload cleared in the run's copy.
ReviewReply ==
    /\ run.pc = "reply"
    /\ \/ run.payload.comments = {} /\ posted' = posted
       \/ run.payload.comments # {} /\ \E r \in Own : CanPost(r) /\ posted' = posted \cup {r}
       \/ run.payload.comments # {} /\ (\A r \in Own : ~CanPost(r)) /\ posted' = posted
    /\ run' = [run EXCEPT !.pc = "update", !.payload = NoUnit]
    /\ replies' = replies + 1
    /\ UNCHANGED <<setup, hooked, window, stream, row, loop, begun, answers, faults, crashes>>

\* finish writes the copy, then moves the row.
Update ==
    /\ run.pc = "update"
    /\ row' = [row EXCEPT !.payload = run.payload, !.rounds = run.rounds]
    /\ run' = [run EXCEPT !.pc = "finish"]
    /\ UNCHANGED <<setup, posted, hooked, window, stream, loop, begun, answers, replies, faults, crashes>>

\* Transition to pr_open hands the row back to the queue while reviews wait.
Promoted ==
    IF row.remediate /\ row.pending # <<>>
    THEN [row EXCEPT !.status = "queued", !.payload = Head(row.pending), !.pending = Tail(row.pending)]
    ELSE [row EXCEPT !.status = "pr_open"]

MutFinish ==
    /\ run.pc = "finish"
    /\ run' = NoRun
    /\ UNCHANGED <<setup, posted, hooked, window, stream, row, loop, begun, answers, replies, faults, crashes>>

Finish ==
    /\ run.pc = "finish"
    /\ row' = IF row.status = "running" THEN Promoted ELSE row
    /\ run' = NoRun
    /\ UNCHANGED <<setup, posted, hooked, window, stream, loop, begun, answers, replies, faults, crashes>>
-----------------------------------------------------------------------------
\* The pull request is merged or closed, or an operator ends the task.
Close ==
    /\ row.status # "closed"
    /\ row' = [row EXCEPT !.status = "closed"]
    /\ UNCHANGED <<setup, posted, hooked, window, stream, loop, run, begun, answers, replies, faults, crashes>>

RetryTask ==
    /\ row.status = "parked"
    /\ row' = [row EXCEPT !.status = "queued"]
    /\ UNCHANGED <<setup, posted, hooked, window, stream, loop, run, begun, answers, replies, faults, crashes>>

\* The daemon restarts: a message in hand is redelivered, the run is gone, and
\* RecoverStale requeues the row.
Restart(d) ==
    /\ crashes < setup.crashes
    /\ crashes' = crashes + 1
    /\ stream' = IF loop[d].pc \in {"lookup", "act"} THEN Redelivered(d) ELSE stream
    /\ loop' = [loop EXCEPT ![d] = Idle]
    /\ run' = NoRun
    /\ row' = [row EXCEPT !.status = IF @ = "running" THEN "queued" ELSE @]
    /\ UNCHANGED <<setup, posted, hooked, window, begun, answers, replies, faults>>

Cycle(d) ==
    \/ ScanReviews(d) \/ ScanComments(d) \/ SkipScan(d) \/ SetReviewCursors(d)
    \/ Fetch(d) \/ StopDraining(d) \/ Lookup(d) \/ Act(d) \/ ClaimNext(d)

Remediate == StartRound \/ PersistRound \/ Build \/ ReviewReply \/ Update \/ Finish

Next ==
    \/ \E r \in Record : Post(r) \/ serveReviewEvent(r) \/ Expire(r)
    \/ \E d \in setup.daemons : Cycle(d) \/ Restart(d)
    \/ Remediate \/ Close \/ RetryTask

Spec == Init /\ [][Next]_vars

\* The daemon's loop and a started run go on.
Fairness ==
    /\ \A d \in Daemon : WF_vars(d \in setup.daemons /\ Cycle(d))
    /\ WF_vars(Remediate)
FairSpec == Spec /\ Fairness
-----------------------------------------------------------------------------
(***************************************************************************)
(* Properties                                                              *)
(***************************************************************************)

Remediable == {r \in Record : r[1] = "review" /\ Verdict[r[2]] = "requested_changes"}

InFlight(r) ==
    \/ \E m \in Message : stream[m] > 0 /\ m.rec = r
    \/ \E d \in Daemon : loop[d].pc \in {"lookup", "act"} /\ loop[d].rec = r

\* A review that arrives while a remediation owns the task is remediated after
\* it, never dropped: of a live task, no review that asked for changes is past
\* the scan's cursor, delivered, and yet was never made work.
NeverDropped ==
    \A r \in Remediable \cap posted :
        ~ /\ row.status # "closed"
          /\ r[2] <= row.cursor.review
          /\ setup.webhook => r \in hooked
          /\ ~InFlight(r)
          /\ begun[r] = 0

\* The scan's cursor keeps the poll from finding a record again: where one
\* daemon polls, no webhook is delivered and no call fails, no review or comment
\* is made work twice, whatever the stream forgets; and where the stream forgets
\* nothing, not by a restarted daemon either.
RemediatedOnce ==
    /\ ~setup.webhook /\ Cardinality(setup.daemons) = 1
    /\ setup.faults = 0
    /\ setup.crashes = 0 \/ setup.forgets = {}
    => \A r \in Record : begun[r] <= 1

\* A claimed remediation always has its input, the unit it was queued with,
\* as long as no daemon is restarted.
ClaimedHasInput == crashes = 0 /\ run.pc = "round" => run.payload \in Unit

\* A comment that names a review is collected into the review's unit while
\* that unit waits to be claimed.
CommentCollected ==
    [][\A d \in Daemon :
          LET rec == loop[d].rec IN
          loop[d].pc = "lookup" /\ loop'[d].pc = "drain" /\ faults' = faults =>
              ~ /\ rec[1] = "comment" /\ rec \notin Own
                /\ row.status = "queued"
                /\ IsUnitOf(row.payload, Parent[rec[2]])]_vars

\* Archie's replies never retrigger it: there are never more replies than
\* times a record of another author was made work, and one for each restart,
\* which may repeat a reply whose run had not finished.
RepliesAnswerReviewers == replies <= answers + crashes

\* The only review of a pull request becomes work, whatever deliveries repeat
\* and whichever calls fail on the way.
ReviewBecomesWork ==
    \A r \in Remediable : setup.records = {r} /\ r \in posted ~> (begun[r] > 0 \/ row.status = "closed")

\* A unit waiting behind a run is run in its turn, unless the task parks or
\* ends.
WaitingReviewRuns ==
    row.pending # <<>> ~> (row.pending = <<>> \/ row.status \in {"parked", "closed"})
=============================================================================
