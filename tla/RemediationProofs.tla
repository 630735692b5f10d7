-------------------------- MODULE RemediationProofs --------------------------
(***************************************************************************)
(* Proofs about reviews and their remediation: the types, that a claimed   *)
(* run has its input, that replies answer reviewers, and that a poll makes *)
(* no record work twice.                                                   *)
(***************************************************************************)
EXTENDS Remediation, FiniteSetTheorems, WellFoundedInduction, TLAPS
USE SMTT(20), ZenonT(20)

-----------------------------------------------------------------------------
(***************************************************************************)
(* Types                                                                   *)
(***************************************************************************)

\* What was replied and is owed stays covered when the answers grow.
LEMMA SumGrows ==
    ASSUME NEW r \in Nat, NEW e \in {0, 1}, NEW n \in Nat, NEW a \in Nat, NEW c \in Nat, NEW b \in Nat,
           r + e + n <= a + c, b >= a
    PROVE  r + e + n <= b + c
OBVIOUS

\* The first of some places in a list: UpdateReviewPayload merges a comment there.
LEMMA LeastIs ==
    ASSUME NEW T \in SUBSET Nat, T # {}
    PROVE  /\ (CHOOSE j \in T : \A k \in T : j <= k) \in T
           /\ \A k \in T : (CHOOSE j \in T : \A k2 \in T : j <= k2) <= k
<1>1. PICK m \in T : \A k \in T : ~(<<k, m>> \in OpToRel(<, Nat))
  BY NatLessThanWellFounded, WFMin, Zenon
<1>2. \A k \in T : ~(k < m)
  BY <1>1, Zenon DEF OpToRel
<1>3. \A k \in T : m <= k
  BY <1>2
<1>. QED  BY <1>3, Zenon

\* The highest id of a listing, which the scan's cursor moves to: a set of
\* numbers with a bound has a greatest member.
LEMMA MaxIs ==
    ASSUME NEW n \in Nat, NEW S \in SUBSET (0 .. n), S # {}
    PROVE  Max(S) \in S /\ \A x \in S : x <= Max(S)
<1> DEFINE T == {k \in Nat : \A x \in S : x <= k}
<1>1. n \in T /\ T \in SUBSET Nat
  OBVIOUS
<1>2. PICK m : m = CHOOSE k \in T : \A l \in T : k <= l
  BY Zenon
<1>3. m \in T /\ \A k \in T : m <= k
  BY <1>1, <1>2, LeastIs, Zenon
<1>4. m \in Nat /\ \A x \in S : x <= m
  BY <1>3, Zenon
<1>5. m \in S
  <2>1. SUFFICES ASSUME m \notin S PROVE FALSE
    BY Zenon
  <2>2. PICK x \in S : TRUE
    BY Zenon
  <2>3. m - 1 \in Nat /\ \A y \in S : y <= m - 1
    BY <1>4, <2>1, <2>2
  <2>4. m - 1 \in T
    BY <2>3, Zenon
  <2>. QED  BY <1>3, <1>4, <2>3, <2>4
<1>6. \A y \in S : m >= y
  BY <1>4, Zenon
<1>. QED  BY <1>5, <1>6, Zenon DEF Max

\* What a listing after cursor c moves a cursor k to: no listed record is above
\* it, and it stays or passes c.
LEMMA HighestIs ==
    ASSUME TypeOK, NEW kind, NEW n \in Nat, \A r \in Record : r[1] = kind => r[2] \in 0 .. n,
           NEW c \in 0 .. n, NEW k \in 0 .. n
    PROVE  /\ Highest(Listed(kind, c), k) \in 0 .. n
           /\ \A r \in Listed(kind, c) : r[2] <= Highest(Listed(kind, c), k)
           /\ Highest(Listed(kind, c), k) = k \/ Highest(Listed(kind, c), k) > c
<1>1. CASE Listed(kind, c) = {}
  BY <1>1, Zenon DEF Highest
<1>2. CASE Listed(kind, c) # {}
  <2> DEFINE S == {r[2] : r \in Listed(kind, c)}
  <2>1. \A x \in S : x \in 0 .. n /\ x > c
    BY Zenon DEF Listed, TypeOK
  <2>2. S \in SUBSET (0 .. n) /\ S # {}
    BY <1>2, <2>1, Zenon
  <2>3. Max(S) \in S /\ \A x \in S : x <= Max(S)
    <3> HIDE DEF S
    <3>. QED  BY <2>2, MaxIs, Zenon
  <2>4. Highest(Listed(kind, c), k) = Max(S)
    BY <1>2, Zenon DEF Highest
  <2>5. \A r \in Listed(kind, c) : r[2] \in S
    BY Zenon
  <2> HIDE DEF S
  <2>. QED  BY <2>1, <2>3, <2>4, <2>5, Zenon
<1>. QED  BY <1>1, <1>2, Zenon

\* A record is a review or a comment, with an id.
LEMMA RecordIs ==
    ASSUME NEW r \in Record
    PROVE  \/ r[1] = "review" /\ r[2] \in 1 .. NReviews /\ r = <<"review", r[2]>>
           \/ r[1] = "comment" /\ r[2] \in 1 .. NComments /\ r = <<"comment", r[2]>>
BY DEF Record, Review, Comment

\* The fields of a daemon's cycle, by where it is.
LEMMA LoopIs ==
    ASSUME TypeOK, NEW d \in Daemon
    PROVE  /\ loop[d].pc \in {"scan", "drain", "claim"} => loop[d] \in Waits
           /\ loop[d].pc \in {"comments", "cursors"} => loop[d] \in Scans
           /\ loop[d].pc \in {"lookup", "act"} => loop[d] \in Handles
           /\ loop[d].pc \in {"scan", "drain", "claim", "comments", "cursors", "lookup", "act"}
<1>1. loop[d] \in Waits \cup Scans \cup Handles
  BY Zenon DEF TypeOK
<1>. QED  BY <1>1, Zenon DEF Waits, Scans, Handles

\* The fields of the run.
LEMMA RunIs ==
    ASSUME TypeOK
    PROVE  /\ run.pc # "none" => run \in Runs
           /\ run.pc = "none" => run = NoRun
           /\ run.pc \in {"none", "round", "persist", "build", "reply", "update", "finish"}
<1>1. run \in {NoRun} \cup Runs
  BY Zenon DEF TypeOK
<1>. QED  BY <1>1 DEF Runs, NoRun

\* The installation's bounds.
LEMMA SetupIs ==
    ASSUME TypeOK
    PROVE  setup.daemons \subseteq Daemon /\ setup.faults \in Nat /\ setup.crashes \in Nat
BY SetupsAssumption, Zenon DEF TypeOK, Setup

\* A daemon's cycle is set to w, and the others stay.
LEMMA LoopSet ==
    ASSUME TypeOK, NEW d \in Daemon, NEW w \in Waits \cup Scans \cup Handles, loop' = [loop EXCEPT ![d] = w]
    PROVE  /\ loop' \in [Daemon -> Waits \cup Scans \cup Handles] /\ loop'[d] = w
           /\ \A e \in Daemon : e # d => loop'[e] = loop[e]
<1>1. loop \in [Daemon -> Waits \cup Scans \cup Handles]
  BY Zenon DEF TypeOK
<1>. QED  BY <1>1, Zenon

\* What is published joins the stream once, if the window does not hold it.
LEMMA PublishedIs ==
    ASSUME TypeOK, NEW recs \in SUBSET posted
    PROVE  /\ Published(recs) \in [Message -> Nat] /\ Remembered(recs) \subseteq posted
           /\ \A m \in Message : Published(recs)[m] \in {stream[m], stream[m] + 1}
           /\ \A m \in Message : Published(recs)[m] # stream[m] => m.tries = 0 /\ m.rec \in recs \ window
BY DEF Published, Remembered, TypeOK

\* What is not acknowledged joins it again.
LEMMA RedeliveredIs ==
    ASSUME TypeOK, NEW d \in Daemon, loop[d].pc \in {"lookup", "act"}
    PROVE  /\ Redelivered(d) \in [Message -> Nat]
           /\ \/ Redelivered(d) = stream
              \/ \E m \in Message : m.rec = loop[d].rec /\ Redelivered(d) = [stream EXCEPT ![m] = @ + 1]
<1>1. loop[d] \in Handles /\ stream \in [Message -> Nat]
  BY LoopIs, Zenon DEF TypeOK
<1>2. CASE loop[d].tries + 1 < MaxDeliver
  <2>0. loop[d].rec \in Record /\ loop[d].tries \in 0 .. MaxDeliver - 1
    BY <1>1, Zenon DEF Handles
  <2>1. PICK m : m = [rec |-> loop[d].rec, tries |-> loop[d].tries + 1]
    BY Zenon
  <2>2. m \in Message /\ m.rec = loop[d].rec
    BY <1>2, <2>0, <2>1, RemediationAssumption DEF Message
  <2>3. Redelivered(d) = [stream EXCEPT ![m] = @ + 1]
    BY <1>2, <2>1, Zenon DEF Redelivered
  <2>4. Redelivered(d) \in [Message -> Nat]
    BY <1>1, <2>2, <2>3
  <2>. QED  BY <2>2, <2>3, <2>4, Zenon
<1>3. CASE ~(loop[d].tries + 1 < MaxDeliver)
  BY <1>1, <1>3, Zenon DEF Redelivered
<1>. QED  BY <1>2, <1>3, Zenon

\* The row's types, and with them what is read of it.
LEMMA RowIs ==
    ASSUME TypeOK
    PROVE  /\ row.status \in Status /\ row.remediate \in BOOLEAN /\ row.payload \in Payload
           /\ row.pending \in Seq(Payload) /\ row.rounds \in Nat /\ row.cursor \in Cursors
BY Zenon DEF TypeOK, Row

\* What a reaction makes of the row is a row, at the same place of the scan.
LEMMA ReactionIs ==
    ASSUME TypeOK, NEW rec \in Record
    PROVE  Reaction(rec) \in Row /\ Reaction(rec).cursor = row.cursor /\ Reaction(rec).rounds = row.rounds
<1>0. row \in Row
  BY Zenon DEF TypeOK
<1>1. ASSUME NEW u \in Unit
      PROVE  /\ BeginRemediation(u) \in Row /\ BeginRemediation(u).cursor = row.cursor
             /\ BeginRemediation(u).rounds = row.rounds
  <2>1. Clip(u) \in Payload
    BY Zenon DEF Clip, Payload
  <2>2. Appended(Clip(u)) \in Seq(Payload)
    BY <2>1, RowIs DEF Appended
  <2>. QED  BY <1>0, <2>1, <2>2, Zenon DEF BeginRemediation, Row, Status
<1>2. ASSUME NEW r, NEW c \in Comment
      PROVE  /\ UpdateReviewPayload(r, c) \in Row /\ UpdateReviewPayload(r, c).cursor = row.cursor
             /\ UpdateReviewPayload(r, c).rounds = row.rounds
  <2>1. ASSUME NEW p, IsUnitOf(p, r) PROVE Merged(p, c) \in Unit /\ Clip(Merged(p, c)) \in Payload
    BY <2>1, Zenon DEF IsUnitOf, Merged, Unit, Clip, Payload
  <2> DEFINE waiting == {i \in DOMAIN row.pending : IsUnitOf(row.pending[i], r)}
  <2>2. CASE ~row.remediate
    BY <1>0, <2>2, Zenon DEF UpdateReviewPayload
  <2>3. CASE row.remediate /\ row.status = "queued" /\ IsUnitOf(row.payload, r)
    BY <1>0, <2>1, <2>3, Zenon DEF UpdateReviewPayload, Row
  <2>4. CASE row.remediate /\ ~(row.status = "queued" /\ IsUnitOf(row.payload, r)) /\ waiting # {}
    <3>1. PICK i \in waiting : UpdateReviewPayload(r, c) = [row EXCEPT !.pending[i] = Merged(@, c)]
      <4>1. PICK i : i = CHOOSE j \in waiting : \A k \in waiting : j <= k
        BY Zenon
      <4>2. waiting \in SUBSET Nat /\ waiting # {}
        BY <2>4, RowIs
      <4>3. i \in waiting
        <5> HIDE DEF waiting
        <5>. QED  BY <4>1, <4>2, LeastIs, Zenon
      <4>. QED  BY <2>4, <4>1, <4>3, Zenon DEF UpdateReviewPayload
    <3>2. Merged(row.pending[i], c) \in Payload
      BY <2>1, Zenon DEF Payload
    <3>3. [row.pending EXCEPT ![i] = Merged(row.pending[i], c)] \in Seq(Payload)
      BY <3>2, RowIs
    <3>. QED  BY <1>0, <3>1, <3>3, Zenon DEF Row
  <2>5. CASE row.remediate /\ ~(row.status = "queued" /\ IsUnitOf(row.payload, r)) /\ waiting = {}
    BY <1>0, <2>5, Zenon DEF UpdateReviewPayload
  <2>. QED  BY <2>2, <2>3, <2>4, <2>5, Zenon
<1>3. CASE rec[1] = "review"
  <2>1. [review |-> rec[2], comments |-> {}] \in Unit
    BY <1>3, RecordIs, Zenon DEF Unit, Review
  <2>. QED  BY <1>0, <1>1, <1>3, <2>1, Zenon DEF Reaction
<1>4. CASE rec[1] # "review"
  <2>1. [review |-> 0, comments |-> {rec[2]}] \in Unit /\ rec[2] \in Comment
    BY <1>4, RecordIs, Zenon DEF Unit, Comment
  <2>. QED  BY <1>1, <1>2, <1>4, <2>1, Zenon DEF Reaction
<1>. QED  BY <1>3, <1>4, Zenon

\* A listing's step: what is published, and where the cycle goes.
LEMMA ScanGoes ==
    ASSUME TypeOK, NEW d \in Daemon, NEW listed \in SUBSET posted, NEW next \in Scans, Scan(d, listed, next)
    PROVE  /\ \E recs \in SUBSET Reactions(listed) : stream' = Published(recs) /\ window' = Remembered(recs)
           /\ \/ loop' = [loop EXCEPT ![d] = next] /\ faults' = faults
              \/ Fails /\ loop' = [loop EXCEPT ![d] = [pc |-> "drain", n |-> 0]]
           /\ UNCHANGED <<setup, posted, hooked, row, run, begun, answers, replies, crashes>>
<1>1. UNCHANGED <<setup, posted, hooked, row, run, begun, answers, replies, crashes>>
  BY Zenon DEF Scan
<1>2. CASE /\ stream' = Published(Reactions(listed)) /\ window' = Remembered(Reactions(listed))
           /\ loop' = [loop EXCEPT ![d] = next] /\ UNCHANGED faults
  BY <1>1, <1>2, Zenon
<1>3. CASE /\ Fails /\ GivesUp(d, next)
           /\ \E id \in {0} \cup {r[2] : r \in Reactions(listed)} :
                 /\ stream' = Published({r \in Reactions(listed) : r[2] <= id})
                 /\ window' = Remembered({r \in Reactions(listed) : r[2] <= id})
  <2>1. PICK id : /\ stream' = Published({r \in Reactions(listed) : r[2] <= id})
                  /\ window' = Remembered({r \in Reactions(listed) : r[2] <= id})
    BY <1>3, Zenon
  <2>2. PICK recs : recs = {r \in Reactions(listed) : r[2] <= id}
    BY Zenon
  <2>3. recs \in SUBSET Reactions(listed) /\ stream' = Published(recs) /\ window' = Remembered(recs)
    BY <2>1, <2>2, Zenon
  <2>. QED  BY <1>1, <1>3, <2>3, Zenon DEF GivesUp, Drain
<1>. QED  BY <1>2, <1>3, Zenon DEF Scan

\* And its types.
LEMMA ScanTypes ==
    ASSUME TypeOK, NEW d \in Daemon, NEW listed \in SUBSET posted, NEW next \in Scans, Scan(d, listed, next)
    PROVE  TypeOK'
<1>1. PICK recs \in SUBSET Reactions(listed) : stream' = Published(recs) /\ window' = Remembered(recs)
  BY ScanGoes, Zenon
<1>2. recs \in SUBSET posted
  BY Zenon DEF Reactions
<1>3. stream' \in [Message -> Nat] /\ window' \subseteq posted
  BY <1>1, <1>2, PublishedIs, Zenon
<1>4. UNCHANGED <<setup, posted, hooked, row, run, begun, answers, replies, crashes>>
  BY ScanGoes, Zenon
<1>5. CASE loop' = [loop EXCEPT ![d] = next] /\ faults' = faults
  <2>1. loop' \in [Daemon -> Waits \cup Scans \cup Handles]
    BY <1>5, LoopSet, Zenon
  <2>. QED  BY <1>3, <1>4, <1>5, <2>1, Zenon DEF TypeOK
<1>6. CASE Fails /\ loop' = [loop EXCEPT ![d] = [pc |-> "drain", n |-> 0]]
  <2>1. [pc |-> "drain", n |-> 0] \in Waits
    BY Zenon DEF Waits
  <2>2. loop' \in [Daemon -> Waits \cup Scans \cup Handles]
    BY <1>6, <2>1, LoopSet, Zenon
  <2>3. faults' \in 0 .. setup.faults
    BY <1>6, SetupIs DEF Fails, TypeOK
  <2>. QED  BY <1>3, <1>4, <2>2, <2>3, Zenon DEF TypeOK
<1>. QED  BY <1>5, <1>6, ScanGoes, Zenon

\* The states a listing of the scan leads to.
LEMMA ScanNext ==
    ASSUME TypeOK, NEW d \in Daemon
    PROVE  /\ loop[d].pc = "scan" =>
                [pc |-> "comments", from |-> row.cursor,
                 to |-> [row.cursor EXCEPT !.review = Highest(Listed("review", row.cursor.review), @)]] \in Scans
           /\ loop[d].pc = "comments" =>
                [loop[d] EXCEPT !.pc = "cursors",
                                !.to.comment = Highest(Listed("comment", loop[d].from.comment), @)] \in Scans
<1>0. NReviews \in Nat /\ NComments \in Nat
  BY RemediationAssumption, Zenon
<1>1. ASSUME NEW c \in 0 .. NReviews, NEW k \in 0 .. NReviews
      PROVE  Highest(Listed("review", c), k) \in 0 .. NReviews
  <2>1. \A r \in Record : r[1] = "review" => r[2] \in 0 .. NReviews
    BY <1>0, RecordIs
  <2>. QED  BY <1>0, <2>1, HighestIs, Zenon
<1>2. ASSUME NEW c \in 0 .. NComments, NEW k \in 0 .. NComments
      PROVE  Highest(Listed("comment", c), k) \in 0 .. NComments
  <2>1. \A r \in Record : r[1] = "comment" => r[2] \in 0 .. NComments
    BY <1>0, RecordIs
  <2>. QED  BY <1>0, <2>1, HighestIs, Zenon
<1>3. row.cursor \in Cursors
  BY RowIs, Zenon
<1>4. CASE loop[d].pc = "scan"
  <2>1. Highest(Listed("review", row.cursor.review), row.cursor.review) \in 0 .. NReviews
    BY <1>1, <1>3, Zenon DEF Cursors
  <2>. QED  BY <1>3, <1>4, <2>1, Zenon DEF Scans, Cursors
<1>5. CASE loop[d].pc = "comments"
  <2>1. loop[d] \in Scans
    BY <1>5, LoopIs, Zenon
  <2>2. Highest(Listed("comment", loop[d].from.comment), loop[d].to.comment) \in 0 .. NComments
    BY <1>2, <2>1, Zenon DEF Scans, Cursors
  <2>. QED  BY <1>5, <2>1, <2>2, Zenon DEF Scans, Cursors
<1>. QED  BY <1>4, <1>5, Zenon

\* The cycle of a daemon keeps the types.
LEMMA CycleTypes ==
    ASSUME TypeOK, NEW d \in Daemon, Cycle(d)
    PROVE  TypeOK'
<1>0. /\ [pc |-> "drain", n |-> 0] \in Waits /\ Idle \in Waits
      /\ \A l \in Daemon : loop[l] \in Waits \cup Scans \cup Handles
  BY Zenon DEF Waits, Idle, TypeOK
<1>f. Fails => faults' \in 0 .. setup.faults
  BY SetupIs DEF Fails, TypeOK
<1>a. ASSUME loop[d].pc \in {"lookup", "act"}
      PROVE  /\ [pc |-> "drain", n |-> loop[d].n] \in Waits
             /\ Acked(d) \/ Naked(d) => stream' \in [Message -> Nat] /\ faults' \in 0 .. setup.faults
  <2>1. loop[d] \in Handles
    BY <1>a, LoopIs, Zenon
  <2>2. Redelivered(d) \in [Message -> Nat]
    BY <1>a, RedeliveredIs, ZenonT(30)
  <2>. QED  BY <1>f, <2>1, <2>2, Zenon DEF Handles, Waits, Acked, Naked, TypeOK
<1>1. CASE ScanReviews(d)
  <2>1. Listed("review", row.cursor.review) \in SUBSET posted
    BY ZenonT(30) DEF Listed
  <2>. QED  BY ZenonT(30), <1>1, <2>1, ScanNext, ScanTypes DEF ScanReviews
<1>2. CASE ScanComments(d)
  <2>1. Listed("comment", loop[d].from.comment) \in SUBSET posted
    BY Zenon DEF Listed
  <2>. QED  BY Zenon, <1>2, <2>1, ScanNext, ScanTypes DEF ScanComments
<1>3. CASE SkipScan(d)
  <2>1. loop' \in [Daemon -> Waits \cup Scans \cup Handles]
    BY <1>0, <1>3, LoopSet, Zenon DEF SkipScan, Drain
  <2>. QED  BY <1>3, <2>1, Zenon DEF SkipScan, TypeOK
<1>4. CASE SetReviewCursors(d)
  <2>1. loop' \in [Daemon -> Waits \cup Scans \cup Handles]
    BY <1>0, <1>4, LoopSet, Zenon DEF SetReviewCursors, Drain
  <2>2. loop[d] \in Scans
    BY <1>4, LoopIs, Zenon DEF SetReviewCursors
  <2>3. row' \in Row
    BY <1>4, <2>2, Zenon DEF SetReviewCursors, Scans, Row, TypeOK
  <2>4. faults' \in 0 .. setup.faults
    BY <1>4, <1>f, Zenon DEF SetReviewCursors, TypeOK
  <2>. QED  BY <1>4, <2>1, <2>3, <2>4, Zenon DEF SetReviewCursors, TypeOK
<1>5. CASE Fetch(d)
  <2>1. PICK m \in Message :
           /\ stream[m] > 0
           /\ loop' = [loop EXCEPT ![d] = [pc |-> "lookup", rec |-> m.rec, tries |-> m.tries, n |-> loop[d].n + 1]]
           /\ stream' = [stream EXCEPT ![m] = @ - 1]
    BY <1>5, Zenon DEF Fetch
  <2>2. loop[d] \in Waits
    BY <1>5, LoopIs, Zenon DEF Fetch
  <2>3. [pc |-> "lookup", rec |-> m.rec, tries |-> m.tries, n |-> loop[d].n + 1] \in Handles
    BY <2>2 DEF Waits, Handles, Message
  <2>4. loop' \in [Daemon -> Waits \cup Scans \cup Handles]
    BY <2>1, <2>3, LoopSet, Zenon
  <2>5. stream' \in [Message -> Nat]
    BY <2>1 DEF TypeOK
  <2>. QED  BY <1>5, <2>4, <2>5, Zenon DEF Fetch, TypeOK
<1>6. CASE StopDraining(d)
  <2>1. loop[d] \in Waits
    BY <1>6, LoopIs, Zenon DEF StopDraining
  <2>2. [loop[d] EXCEPT !.pc = "claim"] \in Waits
    BY <2>1, Zenon DEF Waits
  <2>3. loop' = [loop EXCEPT ![d] = [loop[d] EXCEPT !.pc = "claim"]]
    BY <1>6, Zenon DEF StopDraining, Goto
  <2>4. loop' \in [Daemon -> Waits \cup Scans \cup Handles]
    BY <2>2, <2>3, LoopSet, Zenon
  <2>5. faults' \in 0 .. setup.faults
    BY <1>6, <1>f, Zenon DEF StopDraining, TypeOK
  <2>. QED  BY <1>6, <2>4, <2>5, Zenon DEF StopDraining, TypeOK
<1>7. CASE Lookup(d)
  <2>0. loop[d].pc = "lookup"
    BY <1>7, Zenon DEF Lookup
  <2>1. CASE loop' = Goto(d, "act") /\ UNCHANGED <<stream, faults>>
    <3>1. loop[d] \in Handles
      BY <2>0, LoopIs, Zenon
    <3>2. [loop[d] EXCEPT !.pc = "act"] \in Handles /\ loop' = [loop EXCEPT ![d] = [loop[d] EXCEPT !.pc = "act"]]
      BY <2>1, <3>1, Zenon DEF Handles, Goto
    <3>3. loop' \in [Daemon -> Waits \cup Scans \cup Handles]
      BY <3>2, LoopSet, Zenon
    <3>. QED  BY <1>7, <2>1, <3>3, Zenon DEF Lookup, TypeOK
  <2>2. CASE loop' = Drained(d) /\ (Acked(d) \/ Naked(d))
    <3>1. loop' \in [Daemon -> Waits \cup Scans \cup Handles]
      BY Zenon, <1>a, <2>0, <2>2, LoopSet DEF Drained, Drain
    <3>2. stream' \in [Message -> Nat] /\ faults' \in 0 .. setup.faults
      BY <1>a, <2>0, <2>2, Zenon
    <3>. QED  BY <1>7, <3>1, <3>2, Zenon DEF Lookup, TypeOK
  <2>. QED  BY <1>7, <2>1, <2>2, Zenon DEF Lookup
<1>8. CASE Act(d)
  <2>0. loop[d].pc = "act" /\ loop' = Drained(d) /\ (Acked(d) \/ Naked(d))
    BY <1>8, Zenon DEF Act
  <2>1. loop[d] \in Handles /\ loop[d].rec \in Record
    BY <2>0, LoopIs, Zenon DEF Handles
  <2>2. loop' \in [Daemon -> Waits \cup Scans \cup Handles]
    BY <1>a, <2>0, LoopSet, Zenon DEF Drained, Drain
  <2>3. stream' \in [Message -> Nat] /\ faults' \in 0 .. setup.faults
    BY <1>a, <2>0, Zenon
  <2>4. row' \in Row /\ begun' \in [Record -> Nat] /\ answers' \in Nat
    <3>1. CASE UNCHANGED <<row, begun, answers>>
      BY <3>1, Zenon DEF TypeOK
    <3>2. CASE /\ row' = Reaction(loop[d].rec)
               /\ begun' = [begun EXCEPT ![loop[d].rec] = IF row' # row THEN @ + 1 ELSE @]
               /\ answers' = IF row' # row /\ loop[d].rec \notin Own THEN answers + 1 ELSE answers
      <4>1. row' \in Row
        BY <2>1, <3>2, ReactionIs, Zenon
      <4>. QED  BY <2>1, <3>2, <4>1 DEF TypeOK
    <3>. QED  BY <1>8, <3>1, <3>2, Zenon DEF Act
  <2>. QED  BY <1>8, <2>2, <2>3, <2>4, Zenon DEF Act, TypeOK
<1>9. CASE ClaimNext(d)
  <2>1. loop' \in [Daemon -> Waits \cup Scans \cup Handles]
    BY <1>0, <1>9, LoopSet, Zenon DEF ClaimNext
  <2>2. row' \in Row /\ run' \in {NoRun} \cup Runs
    BY <1>9, Zenon DEF ClaimNext, TypeOK, Row, Runs, Status
  <2>. QED  BY <1>9, <2>1, <2>2, Zenon DEF ClaimNext, TypeOK
<1>. QED  BY <1>1, <1>2, <1>3, <1>4, <1>5, <1>6, <1>7, <1>8, <1>9, Zenon DEF Cycle

\* The run, the operator and a restart keep the types.
LEMMA RunTypes ==
    ASSUME TypeOK, Remediate \/ Close \/ RetryTask
    PROVE  TypeOK'
<1>0. row \in Row /\ run \in {NoRun} \cup Runs /\ replies \in Nat
  BY Zenon DEF TypeOK
<1>1. CASE StartRound
  <2>1. run \in Runs
    BY <1>1, RunIs, Zenon DEF StartRound
  <2>2. row' \in Row /\ run' \in {NoRun} \cup Runs
    <3>1. CASE Park
      BY <1>0, <3>1, Zenon DEF Park, Row, Status
    <3>2. CASE run' = [run EXCEPT !.pc = "persist", !.rounds = @ + 1] /\ row' = row
      <4>1. PICK n \in Nat : n = run.rounds + 1
        BY <2>1 DEF Runs
      <4>2. run' = [run EXCEPT !.pc = "persist", !.rounds = n]
        BY <3>2, <4>1, Zenon
      <4>3. run' \in Runs
        BY <2>1, <4>2, Zenon DEF Runs
      <4>. QED  BY <1>0, <3>2, <4>3, Zenon
    <3>. QED  BY <1>1, <3>1, <3>2, Zenon DEF StartRound
  <2>. QED  BY <1>1, <2>2, Zenon DEF StartRound, TypeOK
<1>2. CASE PersistRound
  <2>1. run \in Runs
    BY <1>2, RunIs, Zenon DEF PersistRound
  <2>2. row' \in Row /\ run' \in {NoRun} \cup Runs
    BY <1>0, <1>2, <2>1, Zenon DEF PersistRound, Row, Runs
  <2>. QED  BY <1>2, <2>2, Zenon DEF PersistRound, TypeOK
<1>3. CASE Build
  <2>1. run \in Runs
    BY <1>3, RunIs, Zenon DEF Build
  <2>2. row' \in Row /\ run' \in {NoRun} \cup Runs
    BY <1>0, <1>3, <2>1, Zenon DEF Build, Park, Row, Runs, Status
  <2>. QED  BY <1>3, <2>2, Zenon DEF Build, TypeOK
<1>4. CASE ReviewReply
  <2>1. run \in Runs
    BY <1>4, RunIs, Zenon DEF ReviewReply
  <2>2. run' \in {NoRun} \cup Runs /\ replies' \in Nat
    <3>1. NoUnit \in Payload
      BY Zenon DEF Payload
    <3>2. run' = [run EXCEPT !.pc = "update", !.payload = NoUnit] /\ replies' = replies + 1
      BY <1>4, Zenon DEF ReviewReply
    <3>3. run' \in Runs
      BY <2>1, <3>1, <3>2, Zenon DEF Runs
    <3>. QED  BY <1>0, <3>2, <3>3
  <2>3. posted \subseteq posted' /\ posted' \subseteq Record
    BY <1>4, RemediationAssumption, Zenon DEF ReviewReply, Record, TypeOK
  <2>. QED  BY <1>4, <2>2, <2>3, Zenon DEF ReviewReply, TypeOK
<1>5. CASE Update
  <2>1. run \in Runs
    BY <1>5, RunIs, Zenon DEF Update
  <2>2. row' \in Row /\ run' \in {NoRun} \cup Runs
    BY <1>0, <1>5, <2>1, Zenon DEF Update, Row, Runs
  <2>. QED  BY <1>5, <2>2, Zenon DEF Update, TypeOK
<1>6. CASE Finish
  <2>1. Promoted \in Row
    <3>1. CASE row.remediate /\ row.pending # <<>>
      <4>1. Head(row.pending) \in Payload /\ Tail(row.pending) \in Seq(Payload)
        BY <3>1, RowIs
      <4>. QED  BY <1>0, <3>1, <4>1, Zenon DEF Promoted, Row, Status
    <3>2. CASE ~(row.remediate /\ row.pending # <<>>)
      BY <1>0, <3>2, Zenon DEF Promoted, Row, Status
    <3>. QED  BY <3>1, <3>2, Zenon
  <2>2. row' \in Row /\ run' = NoRun
    BY <1>0, <1>6, <2>1, Zenon DEF Finish
  <2>. QED  BY <1>6, <2>2, Zenon DEF Finish, TypeOK
<1>7. CASE Close
  <2>1. row' \in Row
    BY <1>0, <1>7, Zenon DEF Close, Row, Status
  <2>. QED  BY <1>7, <2>1, Zenon DEF Close, TypeOK
<1>8. CASE RetryTask
  <2>1. row' \in Row
    BY <1>0, <1>8, Zenon DEF RetryTask, Row, Status
  <2>. QED  BY <1>8, <2>1, Zenon DEF RetryTask, TypeOK
<1>. QED  BY <1>1, <1>2, <1>3, <1>4, <1>5, <1>6, <1>7, <1>8, Zenon DEF Remediate

\* So does every step.
LEMMA TypeStep ==
    ASSUME TypeOK, [Next]_vars
    PROVE  TypeOK'
<1>1. ASSUME NEW r \in Record, Post(r) \/ serveReviewEvent(r) \/ Expire(r) PROVE TypeOK'
  <2>1. CASE Post(r)
    BY <2>1, Zenon DEF Post, TypeOK
  <2>2. CASE serveReviewEvent(r)
    <3>1. {r} \in SUBSET posted
      BY <2>2, Zenon DEF serveReviewEvent
    <3>2. stream' \in [Message -> Nat] /\ window' \subseteq posted
      BY <2>2, <3>1, PublishedIs, Zenon DEF serveReviewEvent
    <3>. QED  BY <2>2, <3>2, Zenon DEF serveReviewEvent, TypeOK
  <2>3. CASE Expire(r)
    BY <2>3, Zenon DEF Expire, TypeOK
  <2>. QED  BY <1>1, <2>1, <2>2, <2>3, Zenon
<1>2. ASSUME NEW d \in setup.daemons, Cycle(d) \/ Restart(d) PROVE TypeOK'
  <2>0. d \in Daemon
    BY SetupIs, Zenon
  <2>1. CASE Cycle(d)
    BY <2>0, <2>1, CycleTypes, Zenon
  <2>2. CASE Restart(d)
    <3>1. loop' \in [Daemon -> Waits \cup Scans \cup Handles]
      <4>1. Idle \in Waits
        BY Zenon DEF Idle, Waits
      <4>. QED  BY <2>0, <2>2, <4>1, LoopSet, Zenon DEF Restart
    <3>2. stream' \in [Message -> Nat]
      BY <2>0, <2>2, RedeliveredIs, Zenon DEF Restart, TypeOK
    <3>3. row' \in Row
      BY <2>2, Zenon DEF Restart, Row, Status, TypeOK
    <3>4. crashes' \in 0 .. setup.crashes
      BY <2>2, SetupIs DEF Restart, TypeOK
    <3>. QED  BY <2>2, <3>1, <3>2, <3>3, <3>4, Zenon DEF Restart, TypeOK
  <2>. QED  BY <1>2, <2>1, <2>2, Zenon
<1>3. CASE Remediate \/ Close \/ RetryTask
  BY <1>3, RunTypes, Zenon
<1>4. CASE UNCHANGED vars
  BY <1>4, Zenon DEF vars, TypeOK
<1>. QED  BY <1>1, <1>2, <1>3, <1>4, Zenon DEF Next

\* The types hold at the start.
LEMMA TypeInit == Init => TypeOK
<1>. SUFFICES ASSUME Init PROVE TypeOK
  BY Zenon
<1>2. setup \in Setup
  BY SetupsAssumption, Zenon DEF Init
<1>3. row \in Row
  BY RemediationAssumption DEF Init, Row, Status, Payload, Cursors
<1>4. loop \in [Daemon -> Waits \cup Scans \cup Handles]
  BY Zenon DEF Init, Idle, Waits
<1>. QED  BY <1>2, <1>3, <1>4 DEF Init, TypeOK, Setup

\* The types of the reviews' state, through every handler and restart: the
\* theorems below rest on them.
THEOREM TypesHold == Spec => []TypeOK
<1>. QED  BY TypeInit, TypeStep, PTL DEF Spec
-----------------------------------------------------------------------------
(***************************************************************************)
(* Replies answer reviewers                                                *)
(***************************************************************************)

\* The run and the row agree: only a running row has a run, but for one that
\* was closed under it.
OneRun ==
    /\ run.pc = "none" => row.status # "running"
    /\ run.pc # "none" => row.status \in {"running", "closed"}

\* What is acted on is not archie's own.
NotOwn == \A d \in Daemon : loop[d].pc = "act" => loop[d].rec \notin Own

\* The replies still to come: that of the work queued, parked or under way, and
\* one for every unit that waits.
Due == IF row.status \in {"queued", "parked"} \/ run.pc \in {"round", "persist", "build", "reply"} THEN 1 ELSE 0
Owed == replies + Due + Len(row.pending) <= answers + crashes

ReplyInv == TypeOK /\ OneRun /\ NotOwn /\ Owed

\* What a reaction makes of the row: nothing, queued work, a unit that waits, a
\* comment in the unit that is queued, or one in a unit that waits.
Does(q) ==
    \/ q.status = row.status /\ q.payload = row.payload /\ q.pending = row.pending
    \/ \E u \in Unit : /\ row.status = "pr_open" /\ q.status = "queued" /\ q # row
                       /\ q.payload = Clip(u) /\ q.pending = row.pending
    \/ \E u \in Unit : /\ q.status = row.status /\ q # row
                       /\ q.payload = row.payload /\ q.pending = Append(row.pending, Clip(u))
    \/ \E u \in Unit : /\ q.status = row.status /\ row.status = "queued"
                       /\ q.payload = Clip(u) /\ q.pending = row.pending
    \/ \E u \in Unit, i \in DOMAIN row.pending :
          q.status = row.status /\ q.payload = row.payload /\ q.pending = [row.pending EXCEPT ![i] = u]

\* handleReview and handleComment do one of these.
LEMMA ReactionDoes ==
    ASSUME TypeOK, NEW rec \in Record
    PROVE  Does(Reaction(rec))
<1>0. row \in Row
  BY Zenon DEF TypeOK
<1>1. ASSUME NEW u \in Unit PROVE Does(BeginRemediation(u))
  <2>1. CASE row.status = "pr_open"
    <3>1. PICK q : q = BeginRemediation(u)
      BY Zenon
    <3>2. q.status = "queued" /\ q.payload = Clip(u) /\ q.pending = row.pending
      BY <1>0, <2>1, <3>1, Zenon DEF BeginRemediation, Row
    <3>. QED  BY <2>1, <3>1, <3>2, Zenon DEF Does
  <2>2. CASE row.status \in {"queued", "running"} /\ row.remediate
    <3>1. PICK q : q = BeginRemediation(u)
      BY Zenon
    <3>2. q.status = row.status /\ q.payload = row.payload /\ q.pending = Appended(Clip(u))
      BY <1>0, <2>2, <3>1, Zenon DEF BeginRemediation, Row
    <3>3. CASE Appended(Clip(u)) = row.pending
      BY <3>1, <3>2, <3>3, Zenon DEF Does
    <3>4. CASE Appended(Clip(u)) = Append(row.pending, Clip(u))
      <4>1. Append(row.pending, Clip(u)) # row.pending
        <5>1. Clip(u) \in Payload /\ row.pending \in Seq(Payload)
          BY RowIs, Zenon DEF Clip, Payload
        <5>2. Len(Append(row.pending, Clip(u))) = Len(row.pending) + 1 /\ Len(row.pending) \in Nat
          BY <5>1
        <5>. QED  BY <5>2
      <4>. QED  BY <3>1, <3>2, <3>4, <4>1, Zenon DEF Does
    <3>. QED  BY <3>3, <3>4, Zenon DEF Appended
  <2>3. CASE row.status # "pr_open" /\ ~(row.status \in {"queued", "running"} /\ row.remediate)
    BY <2>3, Zenon DEF BeginRemediation, Does
  <2>. QED  BY <2>1, <2>2, <2>3, Zenon
<1>2. ASSUME NEW r, NEW c \in Comment PROVE Does(UpdateReviewPayload(r, c))
  <2>1. ASSUME NEW p, IsUnitOf(p, r) PROVE Merged(p, c) \in Unit
    BY <2>1, Zenon DEF IsUnitOf, Merged, Unit
  <2> DEFINE waiting == {i \in DOMAIN row.pending : IsUnitOf(row.pending[i], r)}
  <2>2. CASE row.remediate /\ row.status = "queued" /\ IsUnitOf(row.payload, r)
    <3>1. PICK q : q = UpdateReviewPayload(r, c)
      BY Zenon
    <3>2. PICK u \in Unit : u = Merged(row.payload, c)
      BY <2>1, <2>2, Zenon
    <3>3. q.status = row.status /\ q.payload = Clip(u) /\ q.pending = row.pending
      BY <1>0, <2>2, <3>1, <3>2, Zenon DEF UpdateReviewPayload, Row
    <3>. QED  BY <2>2, <3>1, <3>3, Zenon DEF Does
  <2>3. CASE row.remediate /\ ~(row.status = "queued" /\ IsUnitOf(row.payload, r)) /\ waiting # {}
    <3>1. PICK i \in waiting : UpdateReviewPayload(r, c) = [row EXCEPT !.pending[i] = Merged(@, c)]
      <4>1. PICK i : i = CHOOSE j \in waiting : \A k \in waiting : j <= k
        BY Zenon
      <4>2. waiting \in SUBSET Nat /\ waiting # {}
        BY <2>3, RowIs
      <4>3. i \in waiting
        <5> HIDE DEF waiting
        <5>. QED  BY <4>1, <4>2, LeastIs, Zenon
      <4>. QED  BY <2>3, <4>1, <4>3, Zenon DEF UpdateReviewPayload
    <3>2. PICK q : q = UpdateReviewPayload(r, c)
      BY Zenon
    <3>3. PICK u \in Unit : u = Merged(row.pending[i], c)
      BY <2>1, Zenon
    <3>4. q.status = row.status /\ q.payload = row.payload /\ q.pending = [row.pending EXCEPT ![i] = u]
      BY <1>0, <3>1, <3>2, <3>3, Zenon DEF Row
    <3>. QED  BY <3>2, <3>4, Zenon DEF Does
  <2>4. CASE UpdateReviewPayload(r, c) = row
    BY <2>4, Zenon DEF Does
  <2>. QED  BY <2>2, <2>3, <2>4, Zenon DEF UpdateReviewPayload
<1>3. CASE rec[1] = "review"
  <2>1. [review |-> rec[2], comments |-> {}] \in Unit
    BY <1>3, RecordIs, Zenon DEF Unit, Review
  <2>2. Does(row)
    BY Zenon DEF Does
  <2>. QED  BY <1>1, <1>3, <2>1, <2>2, Zenon DEF Reaction
<1>4. CASE rec[1] # "review"
  <2>1. [review |-> 0, comments |-> {rec[2]}] \in Unit /\ rec[2] \in Comment
    BY <1>4, RecordIs, Zenon DEF Unit, Comment
  <2>. QED  BY <1>1, <1>2, <1>4, <2>1, Zenon DEF Reaction
<1>. QED  BY <1>3, <1>4, Zenon

\* The steps that leave the task's work alone: the forge, the stream and the
\* cycle but for a reaction and a claim.
Quiet ==
    /\ row'.status = row.status /\ row'.payload = row.payload /\ row'.pending = row.pending
    /\ UNCHANGED <<run, answers, replies, crashes>>

LooksOn(d) ==
    \/ ScanReviews(d) \/ ScanComments(d) \/ SkipScan(d) \/ SetReviewCursors(d)
    \/ Fetch(d) \/ StopDraining(d) \/ Lookup(d)

\* They do.
LEMMA QuietSteps ==
    ASSUME TypeOK,
           \/ \E r \in Record : Post(r) \/ serveReviewEvent(r) \/ Expire(r)
           \/ \E d \in Daemon : LooksOn(d)
           \/ UNCHANGED vars
    PROVE  Quiet
<1>0. row \in Row
  BY Zenon DEF TypeOK
<1>1. CASE row' = row /\ UNCHANGED <<run, answers, replies, crashes>>
  BY <1>1, Zenon DEF Quiet
<1>2. ASSUME NEW d \in Daemon, SetReviewCursors(d) PROVE Quiet
  BY <1>0, <1>2, Zenon DEF SetReviewCursors, Quiet, Row
<1>3. ASSUME NEW r \in Record, Post(r) \/ serveReviewEvent(r) \/ Expire(r) PROVE Quiet
  BY <1>1, <1>3, Zenon DEF Post, serveReviewEvent, Expire
<1>4. ASSUME NEW d \in Daemon, LooksOn(d) PROVE Quiet
  <2>1. CASE ScanReviews(d) \/ ScanComments(d)
    BY <1>1, <2>1, Zenon DEF ScanReviews, ScanComments, Scan
  <2>2. CASE SkipScan(d) \/ Fetch(d) \/ StopDraining(d) \/ Lookup(d)
    BY <1>1, <2>2, Zenon DEF SkipScan, Fetch, StopDraining, Lookup
  <2>. QED  BY <1>2, <1>4, <2>1, <2>2, Zenon DEF LooksOn
<1>5. CASE UNCHANGED vars
  BY <1>1, <1>5, Zenon DEF vars
<1>. QED  BY <1>3, <1>4, <1>5, Zenon

\* Every step is one of these.
LEMMA StepKinds ==
    ASSUME TypeOK, [Next]_vars
    PROVE  \/ Quiet
           \/ \E d \in setup.daemons : Act(d) \/ ClaimNext(d) \/ Restart(d)
           \/ Remediate \/ Close \/ RetryTask
<1>1. ASSUME NEW d \in setup.daemons, Cycle(d) PROVE LooksOn(d) \/ Act(d) \/ ClaimNext(d)
  BY <1>1, Zenon DEF Cycle, LooksOn
<1>2. setup.daemons \subseteq Daemon
  BY SetupIs, Zenon
<1>. QED  BY <1>1, <1>2, QuietSteps, Zenon DEF Next

\* What the lookup lets through is not archie's own, and stays so.
LEMMA NotOwnStep ==
    ASSUME TypeOK, NotOwn, [Next]_vars
    PROVE  NotOwn'
<1>0. setup.daemons \subseteq Daemon /\ loop \in [Daemon -> Waits \cup Scans \cup Handles]
  BY SetupIs, Zenon DEF TypeOK
<1>1. ASSUME NEW d \in Daemon, NEW w, loop' = [loop EXCEPT ![d] = w], w.pc # "act"
      PROVE  NotOwn'
  BY <1>0, <1>1, Zenon DEF NotOwn
<1>d. ASSUME NEW d \in Daemon, loop' = Drained(d) PROVE NotOwn'
  <2>1. PICK w : w = [pc |-> "drain", n |-> loop[d].n]
    BY Zenon
  <2>2. loop' = [loop EXCEPT ![d] = w] /\ w.pc # "act"
    BY <1>d, <2>1, Zenon DEF Drained, Drain
  <2>. QED  BY <1>1, <2>2, Zenon
<1>2. CASE loop' = loop
  BY <1>2, Zenon DEF NotOwn
<1>3. ASSUME NEW d \in Daemon, LooksOn(d) PROVE NotOwn'
  <2>0. PICK w : w = [pc |-> "drain", n |-> 0]
    BY Zenon
  <2>1. ASSUME NEW listed, NEW next \in Scans, Scan(d, listed, next) PROVE NotOwn'
    <3>1. next.pc # "act" /\ w.pc # "act"
      BY <2>0, Zenon DEF Scans
    <3>2. loop' = [loop EXCEPT ![d] = next] \/ loop' = [loop EXCEPT ![d] = w]
      BY <2>0, <2>1, Zenon DEF Scan, GivesUp, Drain
    <3>. QED  BY <1>1, <3>1, <3>2, Zenon
  <2>2. CASE ScanReviews(d)
    BY <2>1, <2>2, ScanNext, ZenonT(30) DEF ScanReviews
  <2>3. CASE ScanComments(d)
    BY ZenonT(30), <2>1, <2>3, ScanNext DEF ScanComments
  <2>4. CASE SkipScan(d) \/ SetReviewCursors(d)
    <3>1. loop' = [loop EXCEPT ![d] = w] /\ w.pc # "act"
      BY <2>0, <2>4, Zenon DEF SkipScan, SetReviewCursors, Drain
    <3>. QED  BY <1>1, <3>1, Zenon
  <2>5. CASE Fetch(d)
    <3>1. PICK m \in Message :
             loop' = [loop EXCEPT ![d] = [pc |-> "lookup", rec |-> m.rec, tries |-> m.tries, n |-> loop[d].n + 1]]
      BY <2>5, Zenon DEF Fetch
    <3>2. PICK v : v = [pc |-> "lookup", rec |-> m.rec, tries |-> m.tries, n |-> loop[d].n + 1]
      BY Zenon
    <3>3. loop' = [loop EXCEPT ![d] = v] /\ v.pc # "act"
      BY <3>1, <3>2, Zenon
    <3>. QED  BY <1>1, <3>3, Zenon
  <2>6. CASE StopDraining(d)
    <3>1. loop' = [loop EXCEPT ![d] = [loop[d] EXCEPT !.pc = "claim"]] /\ loop[d] \in Waits
      BY <2>6, LoopIs, Zenon DEF StopDraining, Goto
    <3>2. [loop[d] EXCEPT !.pc = "claim"].pc # "act"
      BY <3>1, Zenon DEF Waits
    <3>. QED  BY <1>1, <3>1, <3>2, Zenon
  <2>7. CASE Lookup(d)
    <3>0. loop[d] \in Handles
      BY <2>7, LoopIs, Zenon DEF Lookup
    <3>1. CASE ~IsOwn(loop[d].rec) /\ loop' = Goto(d, "act")
      <4>1. loop' = [loop EXCEPT ![d] = [loop[d] EXCEPT !.pc = "act"]]
        BY <3>1, Zenon DEF Goto
      <4>2. loop'[d].rec = loop[d].rec /\ \A e \in Daemon : e # d => loop'[e] = loop[e]
        BY <1>0, <3>0, <4>1, Zenon DEF Handles
      <4>. QED  BY <3>1, <4>2, Zenon DEF NotOwn, IsOwn
    <3>2. CASE loop' = Drained(d)
      BY <1>d, <3>2, Zenon
    <3>. QED  BY <2>7, <3>1, <3>2, Zenon DEF Lookup
  <2>. QED  BY <1>3, <2>2, <2>3, <2>4, <2>5, <2>6, <2>7, Zenon DEF LooksOn
<1>4. ASSUME NEW d \in Daemon, Act(d) \/ ClaimNext(d) \/ Restart(d) PROVE NotOwn'
  <2>1. CASE Act(d)
    BY <1>d, <2>1, Zenon DEF Act
  <2>2. CASE ClaimNext(d) \/ Restart(d)
    BY ZenonT(30), <1>1, <2>2 DEF ClaimNext, Restart, Idle
  <2>. QED  BY <1>4, <2>1, <2>2, Zenon
<1>5. ASSUME NEW r \in Record, Post(r) \/ serveReviewEvent(r) \/ Expire(r) PROVE NotOwn'
  BY <1>2, <1>5, Zenon DEF Post, serveReviewEvent, Expire
<1>6. CASE Remediate \/ Close \/ RetryTask \/ UNCHANGED vars
  BY <1>2, <1>6, Zenon DEF Remediate, StartRound, PersistRound, Build, ReviewReply, Update, Finish, Close, RetryTask, vars
<1>. QED  BY <1>0, <1>3, <1>4, <1>5, <1>6, Zenon DEF Next, Cycle, LooksOn

\* The run's steps, in what they do to the row, the run and the replies.
LEMMA RemediateDoes ==
    ASSUME TypeOK, Remediate
    PROVE  /\ UNCHANGED <<answers, crashes, loop>>
           /\ \/ /\ run.pc \in {"round", "build"} /\ run'.pc = "none" /\ replies' = replies
                 /\ row'.status = (IF row.status = "running" THEN "parked" ELSE row.status)
                 /\ row'.payload = row.payload /\ row'.pending = row.pending
              \/ /\ run.pc = "round" /\ run'.pc = "persist" /\ run'.payload = run.payload
                 /\ run.payload \in Unit /\ replies' = replies /\ row' = row
              \/ /\ run.pc = "persist" /\ run'.pc = "build" /\ run'.payload = run.payload /\ replies' = replies
                 /\ row'.status = row.status /\ row'.payload = run.payload /\ row'.pending = row.pending
              \/ /\ run.pc = "build" /\ run'.pc = "reply" /\ run'.payload = run.payload
                 /\ replies' = replies /\ row' = row
              \/ run.pc = "reply" /\ run'.pc = "update" /\ replies' = replies + 1 /\ row' = row
              \/ /\ run.pc = "update" /\ run'.pc = "finish" /\ replies' = replies
                 /\ row'.status = row.status /\ row'.pending = row.pending
              \/ /\ run.pc = "finish" /\ run'.pc = "none" /\ replies' = replies
                 /\ row' = IF row.status = "running" THEN Promoted ELSE row
<1>0. row \in Row
  BY Zenon DEF TypeOK
<1>p. ASSUME Park
      PROVE  /\ run'.pc = "none" /\ row'.payload = row.payload /\ row'.pending = row.pending
             /\ row'.status = (IF row.status = "running" THEN "parked" ELSE row.status)
  BY <1>0, <1>p, Zenon DEF Park, NoRun, Row
<1>1. CASE StartRound
  <2>1. run \in Runs /\ run.pc = "round" /\ UNCHANGED <<answers, crashes, loop, replies>>
    BY <1>1, RunIs, Zenon DEF StartRound
  <2>2. CASE Park
    BY <1>p, <2>1, <2>2, Zenon
  <2>3. CASE run' = [run EXCEPT !.pc = "persist", !.rounds = @ + 1] /\ row' = row /\ run.payload \in Unit
    <3>1. run'.pc = "persist" /\ run'.payload = run.payload
      BY <2>1, <2>3, Zenon DEF Runs
    <3>. QED  BY <2>1, <2>3, <3>1, Zenon
  <2>. QED  BY <1>1, <2>2, <2>3, Zenon DEF StartRound
<1>2. CASE PersistRound
  <2>1. run \in Runs /\ run.pc = "persist" /\ UNCHANGED <<answers, crashes, loop, replies>>
    BY <1>2, RunIs, Zenon DEF PersistRound
  <2>2. run'.pc = "build" /\ run'.payload = run.payload
    BY <1>2, <2>1, Zenon DEF PersistRound, Runs
  <2>3. row'.status = row.status /\ row'.payload = run.payload /\ row'.pending = row.pending
    BY <1>0, <1>2, ZenonT(30) DEF PersistRound, Row
  <2>. QED  BY <2>1, <2>2, <2>3, Zenon
<1>3. CASE Build
  <2>1. run \in Runs /\ run.pc = "build" /\ UNCHANGED <<answers, crashes, loop, replies>>
    BY <1>3, RunIs, ZenonT(30) DEF Build
  <2>2. CASE Park
    BY <1>p, <2>1, <2>2, Zenon
  <2>3. CASE run' = [run EXCEPT !.pc = "reply"] /\ row' = row
    <3>1. run'.pc = "reply" /\ run'.payload = run.payload
      BY <2>1, <2>3, Zenon DEF Runs
    <3>. QED  BY <2>1, <2>3, <3>1, Zenon
  <2>. QED  BY <1>3, <2>2, <2>3, Zenon DEF Build
<1>4. CASE ReviewReply
  <2>1. run \in Runs /\ run.pc = "reply" /\ UNCHANGED <<answers, crashes, loop, row>> /\ replies' = replies + 1
    BY <1>4, RunIs, Zenon DEF ReviewReply
  <2>2. run'.pc = "update"
    BY <1>4, <2>1, Zenon DEF ReviewReply, Runs
  <2>. QED  BY <2>1, <2>2, Zenon
<1>5. CASE Update
  <2>1. run \in Runs /\ run.pc = "update" /\ UNCHANGED <<answers, crashes, loop, replies>>
    BY <1>5, RunIs, Zenon DEF Update
  <2>2. run'.pc = "finish"
    BY <1>5, <2>1, Zenon DEF Update, Runs
  <2>3. row'.status = row.status /\ row'.pending = row.pending
    BY <1>0, <1>5, Zenon DEF Update, Row
  <2>. QED  BY <2>1, <2>2, <2>3, Zenon
<1>6. CASE Finish
  BY <1>6, Zenon DEF Finish, NoRun
<1>. QED  BY Zenon, <1>1, <1>2, <1>3, <1>4, <1>5, <1>6 DEF Remediate

\* Promoted hands the row a waiting unit, or back to the pull request.
LEMMA PromotedIs ==
    ASSUME TypeOK
    PROVE  \/ /\ row.pending # <<>> /\ Promoted.status = "queued"
              /\ Promoted.payload = Head(row.pending) /\ Promoted.pending = Tail(row.pending)
           \/ Promoted.status = "pr_open" /\ Promoted.payload = row.payload /\ Promoted.pending = row.pending
<1>0. row \in Row
  BY Zenon DEF TypeOK
<1>1. CASE row.remediate /\ row.pending # <<>>
  BY <1>0, <1>1, Zenon DEF Promoted, Row
<1>2. CASE ~(row.remediate /\ row.pending # <<>>)
  BY <1>0, <1>2, Zenon DEF Promoted, Row
<1>. QED  BY <1>1, <1>2, Zenon

\* Every step keeps count of the replies.
LEMMA ReplyStep ==
    ASSUME ReplyInv, [Next]_vars
    PROVE  ReplyInv'
<1>0. TypeOK /\ OneRun /\ NotOwn /\ Owed
  BY Zenon DEF ReplyInv
<1>t. TypeOK' /\ NotOwn'
  BY <1>0, TypeStep, NotOwnStep, ZenonT(30)
<1>n. /\ replies \in Nat /\ answers \in Nat /\ crashes \in Nat /\ Len(row.pending) \in Nat /\ row.pending \in Seq(Payload)
      /\ row \in Row /\ row.status \in Status
  BY <1>0, RowIs, SetupIs DEF TypeOK
<1>d. PICK e \in {0, 1}, f \in {0, 1}, n \in Nat, k \in Nat :
         Due = e /\ Due' = f /\ Len(row.pending) = n /\ Len(row'.pending) = k
  <2>1. Due \in {0, 1} /\ Due' \in {0, 1}
    BY Zenon DEF Due
  <2>2. row'.pending \in Seq(Payload)
    BY <1>t, Zenon DEF TypeOK, Row
  <2>3. Len(row.pending) \in Nat /\ Len(row'.pending) \in Nat
    BY <1>n, <2>2
  <2>. QED  BY <2>1, <2>3, Zenon
<1>o. replies + e + n <= answers + crashes
  BY <1>0, <1>d, Zenon DEF Owed
<1>m. ASSUME replies' + f + k <= answers' + crashes' PROVE Owed'
  BY <1>d, <1>m, Zenon DEF Owed
<1>1. ASSUME Quiet PROVE OneRun' /\ Owed'
  BY <1>0, <1>1, ZenonT(30) DEF Quiet, OneRun, Owed, Due
<1>2. ASSUME NEW d \in Daemon, Act(d) PROVE OneRun' /\ Owed'
  <2>1. loop[d].pc = "act" /\ loop[d].rec \in Record /\ UNCHANGED <<run, replies, crashes>>
    BY <1>0, <1>2, LoopIs, Zenon DEF Act, Handles
  <2>2. loop[d].rec \notin Own
    BY <1>0, <2>1, Zenon DEF NotOwn
  <2>3. CASE UNCHANGED <<row, answers>>
    BY <1>0, <2>1, <2>3, Zenon DEF OneRun, Owed, Due
  <2>4. CASE row' = Reaction(loop[d].rec) /\ answers' = IF row' # row THEN answers + 1 ELSE answers
    <3>0. answers' >= answers /\ answers' \in Nat /\ (row' # row => answers' = answers + 1)
      BY <1>n, <2>4
    <3>1. PICK q : q = row' /\ Does(q)
      <4>1. PICK q : q = Reaction(loop[d].rec)
        BY Zenon
      <4>2. Does(q)
        BY <1>0, <2>1, <4>1, ReactionDoes, Zenon
      <4>. QED  BY <2>4, <4>1, <4>2, Zenon
    <3>3. CASE row.status = "pr_open" /\ q.status = "queued" /\ q # row /\ q.pending = row.pending
      <4>1. OneRun' /\ Due = 0 /\ Due' = 1
        BY <1>0, <2>1, <3>1, <3>3, Zenon DEF OneRun, Due
      <4>2. row'.pending = row.pending /\ answers' = answers + 1
        BY <3>0, <3>1, <3>3, Zenon
      <4>. QED  BY <1>d, <1>m, <1>n, <1>o, <2>1, <4>1, <4>2
    <3>4. ASSUME NEW u \in Unit, q.status = row.status, q # row, q.pending = Append(row.pending, Clip(u))
          PROVE  OneRun' /\ Owed'
      <4>1. Clip(u) \in Payload
        BY Zenon DEF Clip, Payload
      <4>2. Len(q.pending) = Len(row.pending) + 1
        BY <1>n, <3>4, <4>1
      <4>3. OneRun' /\ Due' = Due
        BY <1>0, <2>1, <3>1, <3>4, Zenon DEF OneRun, Due
      <4>4. Len(row'.pending) = Len(row.pending) + 1 /\ answers' = answers + 1
        BY <3>0, <3>1, <3>4, <4>2, Zenon
      <4>. QED  BY <1>d, <1>m, <1>n, <1>o, <2>1, <4>3, <4>4
    <3>5. ASSUME q.status = row.status, Len(q.pending) = Len(row.pending)
          PROVE  OneRun' /\ Owed'
      <4>1. OneRun' /\ Due' = Due
        BY <1>0, <2>1, <3>1, <3>5, Zenon DEF OneRun, Due
      <4>2. Len(row'.pending) = Len(row.pending)
        BY <3>1, <3>5, Zenon
      <4>3. f = e /\ k = n /\ replies' = replies /\ crashes' = crashes
        BY <1>d, <2>1, <4>1, <4>2, Zenon
      <4>4. replies \in Nat /\ answers \in Nat /\ crashes \in Nat
        BY <1>n, Zenon
      <4>5. replies + e + n <= answers' + crashes
        BY <1>o, <3>0, <4>4, SumGrows, Zenon
      <4>. QED  BY <1>m, <4>1, <4>3, <4>5, Zenon
    <3>6. ASSUME NEW u, NEW i \in DOMAIN row.pending, q.status = row.status, q.pending = [row.pending EXCEPT ![i] = u]
          PROVE  OneRun' /\ Owed'
      <4>1. Len(q.pending) = Len(row.pending)
        BY <1>n, <3>6
      <4>. QED  BY <3>5, <3>6, <4>1, Zenon
    <3>7. CASE q.status = row.status /\ q.pending = row.pending
      BY <3>5, <3>7, Zenon
    <3>. QED  BY ZenonT(30), <3>1, <3>3, <3>4, <3>6, <3>7 DEF Does
  <2>. QED  BY <1>2, <2>2, <2>3, <2>4, Zenon DEF Act
<1>3. ASSUME NEW d \in Daemon, ClaimNext(d) PROVE OneRun' /\ Owed'
  <2>1. UNCHANGED <<answers, replies, crashes>>
    BY <1>3, Zenon DEF ClaimNext
  <2>2. CASE row.status = "queued"
    <3>1. row'.status = "running" /\ row'.pending = row.pending /\ run'.pc = "round"
      BY <1>3, <1>n, <2>2, Zenon DEF ClaimNext, Row
    <3>. QED  BY <1>d, <1>m, <1>n, <1>o, <2>1, <2>2, <3>1, Zenon DEF OneRun, Due
  <2>3. CASE row.status # "queued"
    <3>1. row' = row /\ run' = run
      BY <1>3, <2>3, Zenon DEF ClaimNext
    <3>. QED  BY <1>0, <2>1, <3>1, Zenon DEF OneRun, Owed, Due
  <2>. QED  BY <2>2, <2>3, Zenon
<1>4. ASSUME NEW d \in Daemon, Restart(d) PROVE OneRun' /\ Owed'
  <2>1. /\ UNCHANGED <<answers, replies>> /\ crashes' = crashes + 1 /\ run'.pc = "none"
        /\ row'.status = (IF row.status = "running" THEN "queued" ELSE row.status) /\ row'.pending = row.pending
    BY <1>4, <1>n, Zenon DEF Restart, NoRun, Row
  <2>2. OneRun' /\ Due' <= Due + 1
    BY <1>0, <2>1 DEF OneRun, Due
  <2>. QED  BY <1>d, <1>m, <1>n, <1>o, <2>1, <2>2
<1>5. ASSUME Remediate PROVE OneRun' /\ Owed'
  <2>1. UNCHANGED <<answers, crashes>>
    BY <1>0, <1>5, RemediateDoes, Zenon
  <2>2. CASE /\ run.pc = "finish" /\ run'.pc = "none" /\ replies' = replies
             /\ row' = IF row.status = "running" THEN Promoted ELSE row
    <3>1. PICK q : q = Promoted
      BY Zenon
    <3>2. CASE row.status = "running" /\ row.pending # <<>> /\ q.status = "queued" /\ q.pending = Tail(row.pending)
      <4>1. Len(Tail(row.pending)) = Len(row.pending) - 1 /\ Len(row.pending) > 0
        BY <1>n, <3>2
      <4>2. OneRun' /\ Due = 0 /\ Due' = 1
        BY <1>0, <2>2, <3>1, <3>2, Zenon DEF OneRun, Due
      <4>3. row'.pending = Tail(row.pending)
        BY <2>2, <3>1, <3>2, Zenon
      <4>4. e = 0 /\ f = 1 /\ n > 0 /\ k = n - 1
        BY <1>d, <4>1, <4>2, <4>3, Zenon
      <4>. QED  BY <1>m, <1>n, <1>o, <2>1, <2>2, <4>2, <4>4
    <3>3. CASE row.status = "running" /\ q.status = "pr_open" /\ q.pending = row.pending
      BY <1>d, <1>m, <1>n, <1>o, <2>1, <2>2, <3>1, <3>3, Zenon DEF OneRun, Due
    <3>4. CASE row.status # "running"
      BY <1>d, <1>m, <1>n, <1>o, <2>1, <2>2, <3>4, Zenon DEF OneRun, Due
    <3>. QED  BY <1>0, <3>1, <3>2, <3>3, <3>4, PromotedIs, Zenon
  <2>3. CASE ~(run.pc = "finish" /\ run'.pc = "none")
    <3>1. OneRun' /\ row'.pending = row.pending
      BY <1>0, <1>5, <2>3, RemediateDoes, Zenon DEF OneRun
    <3>2. CASE replies' = replies
      <4>1. Due' <= Due
        BY <1>0, <1>5, <2>3, <3>2, RemediateDoes DEF OneRun, Due
      <4>. QED  BY <1>d, <1>m, <1>n, <1>o, <2>1, <3>1, <3>2, <4>1
    <3>3. CASE run.pc = "reply" /\ run'.pc = "update" /\ replies' = replies + 1 /\ row' = row
      <4>1. Due = 1 /\ Due' = 0
        BY <1>0, <3>3, Zenon DEF OneRun, Due
      <4>. QED  BY <1>d, <1>m, <1>n, <1>o, <2>1, <3>1, <3>3, <4>1
    <3>. QED  BY <1>0, <1>5, <3>2, <3>3, RemediateDoes, Zenon
  <2>. QED  BY <1>0, <1>5, <2>2, <2>3, RemediateDoes, Zenon
<1>6. ASSUME Close \/ RetryTask PROVE OneRun' /\ Owed'
  <2>1. /\ UNCHANGED <<answers, replies, crashes, run>> /\ row'.pending = row.pending
        /\ \/ row'.status = "closed"
           \/ row.status = "parked" /\ row'.status = "queued"
    BY <1>6, <1>n, Zenon DEF Close, RetryTask, Row
  <2>2. OneRun' /\ Due' <= Due
    BY <1>0, <2>1 DEF OneRun, Due
  <2>. QED  BY <1>d, <1>m, <1>n, <1>o, <2>1, <2>2
<1>. QED  BY <1>0, <1>1, <1>2, <1>3, <1>4, <1>5, <1>6, <1>t, StepKinds, SetupIs, Zenon DEF ReplyInv

\* The count starts at nothing.
LEMMA ReplyInit == Init => ReplyInv
<1>. SUFFICES ASSUME Init PROVE ReplyInv
  BY Zenon
<1>1. /\ row.status = "pr_open" /\ row.pending = <<>> /\ run.pc = "none" /\ replies = 0 /\ answers = 0 /\ crashes = 0
      /\ \A d \in Daemon : loop[d].pc = "scan"
  BY Zenon DEF Init, NoRun, Idle
<1>. QED  BY <1>1, TypeInit DEF ReplyInv, OneRun, NotOwn, Owed, Due

\* Archie's replies never retrigger it: whatever is written, delivered again or
\* forgotten, whatever calls fail and however many daemons poll, it posts no
\* more replies than records of other authors were made work, and one for each
\* restart.
THEOREM RepliesAreAnswers == Spec => []RepliesAnswerReviewers
<1>1. ReplyInv => RepliesAnswerReviewers
  <2>. SUFFICES ASSUME ReplyInv PROVE RepliesAnswerReviewers
    BY Zenon
  <2>1. TypeOK
    BY Zenon DEF ReplyInv
  <2>2. row.pending \in Seq(Payload) /\ replies \in Nat /\ answers \in Nat /\ crashes \in Nat
    BY <2>1, RowIs, SetupIs DEF TypeOK
  <2>3. PICK n \in Nat : n = Len(row.pending)
    BY <2>2
  <2>4. PICK e \in Nat : e = Due
    BY Zenon DEF Due
  <2>5. replies + e + n <= answers + crashes
    BY <2>3, <2>4, Zenon DEF ReplyInv, Owed
  <2>. QED  BY <2>2, <2>5 DEF RepliesAnswerReviewers
<1>. QED  BY <1>1, ReplyInit, ReplyStep, PTL DEF Spec
-----------------------------------------------------------------------------
(***************************************************************************)
(* A claimed remediation has its input                                     *)
(***************************************************************************)

\* Every unit encodes to fewer bytes than a payload is clipped to.
Fitting == \A u \in Unit : Size(u) <= MaxPayload

\* Until a daemon restarts, whatever waits is a unit: in the queue, in a row
\* that may be claimed or retried, and in a run that has not replied.
HasInput ==
    crashes = 0 =>
        /\ \A i \in DOMAIN row.pending : row.pending[i] \in Unit
        /\ row.status \in {"queued", "parked"} => row.payload \in Unit
        /\ run.pc \in {"round", "persist", "build", "reply"} => run.payload \in Unit
        /\ row.status = "running" /\ run.pc \in {"round", "persist", "build"} => row.payload \in Unit

\* Every step keeps it.
LEMMA InputStep ==
    ASSUME Fitting, ReplyInv, HasInput, [Next]_vars
    PROVE  HasInput'
<1>0. TypeOK /\ OneRun
  BY Zenon DEF ReplyInv
<1>n. row \in Row /\ row.pending \in Seq(Payload) /\ crashes \in Nat
  BY <1>0, RowIs, SetupIs DEF TypeOK
<1>c. \A u \in Unit : Clip(u) = u
  <2>1. ASSUME NEW u \in Unit PROVE ~(Size(u) > MaxPayload)
    <3>1. Size(u) <= MaxPayload
      BY Zenon DEF Fitting
    <3>2. Size(u) \in Nat /\ MaxPayload \in Nat
      <4>1. u.review \in {0} \cup Review /\ u.comments \in SUBSET Comment
        BY Zenon DEF Unit
      <4>2. IsFiniteSet(u.comments)
        <5>1. IsFiniteSet(Comment)
          <6>1. 1 \in Int /\ NComments \in Int
            BY RemediationAssumption
          <6>. QED  BY <6>1, FS_Interval, Zenon DEF Comment
        <5>. QED  BY <4>1, <5>1, FS_Subset, Zenon
      <4>3. Cardinality(u.comments) \in Nat
        BY <4>2, FS_CardinalityType, Zenon
      <4>4. u.review # 0 => Length[u.review] \in Nat
        BY <4>1, RemediationAssumption, Zenon
      <4>. QED  BY <4>3, <4>4, RemediationAssumption DEF Size
    <3>. QED  BY <3>1, <3>2
  <2>. QED  BY <2>1, Zenon DEF Clip
<1>1. CASE Quiet
  BY <1>1, Zenon DEF Quiet, HasInput
<1>2. ASSUME NEW d \in Daemon, Act(d) PROVE HasInput'
  <2>1. loop[d].rec \in Record /\ UNCHANGED <<run, crashes>>
    BY <1>0, <1>2, LoopIs, Zenon DEF Act, Handles
  <2>2. CASE row' = row
    BY <2>1, <2>2, Zenon DEF HasInput
  <2>3. CASE row' = Reaction(loop[d].rec)
    <3>1. PICK q : q = row' /\ Does(q)
      <4>1. PICK q : q = Reaction(loop[d].rec)
        BY Zenon
      <4>2. Does(q)
        BY <1>0, <2>1, <4>1, ReactionDoes, Zenon
      <4>. QED  BY <2>3, <4>1, <4>2, Zenon
    <3>2. CASE q.status = row.status /\ q.payload = row.payload /\ q.pending = row.pending
      BY <2>1, <3>1, <3>2, Zenon DEF HasInput
    <3>3. ASSUME NEW u \in Unit, row.status = "pr_open", q.status = "queued", q.payload = Clip(u), q.pending = row.pending
          PROVE  HasInput'
      BY <1>0, <1>c, <2>1, <3>1, <3>3, Zenon DEF HasInput, OneRun
    <3>4. ASSUME NEW u \in Unit, q.status = row.status, q.payload = row.payload, q.pending = Append(row.pending, Clip(u))
          PROVE  HasInput'
      <4>1. u \in Payload /\ q.pending = Append(row.pending, u)
        BY <1>c, <3>4, Zenon DEF Payload
      <4>2. \A i \in DOMAIN q.pending : q.pending[i] = u \/ (i \in DOMAIN row.pending /\ q.pending[i] = row.pending[i])
        BY <1>n, <4>1
      <4>. QED  BY <2>1, <3>1, <3>4, <4>2, Zenon DEF HasInput
    <3>5. ASSUME NEW u \in Unit, q.status = row.status, row.status = "queued", q.payload = Clip(u), q.pending = row.pending
          PROVE  HasInput'
      BY <1>c, <2>1, <3>1, <3>5, Zenon DEF HasInput
    <3>6. ASSUME NEW u \in Unit, NEW i \in DOMAIN row.pending, q.status = row.status, q.payload = row.payload,
                 q.pending = [row.pending EXCEPT ![i] = u]
          PROVE  HasInput'
      <4>1. \A j \in DOMAIN q.pending : j \in DOMAIN row.pending /\ q.pending[j] \in {u, row.pending[j]}
        BY <1>n, <3>6, Zenon
      <4>. QED  BY <2>1, <3>1, <3>6, <4>1, Zenon DEF HasInput
    <3>. QED  BY Zenon, <3>1, <3>2, <3>3, <3>4, <3>5, <3>6 DEF Does
  <2>. QED  BY <1>2, <2>2, <2>3, Zenon DEF Act
<1>3. ASSUME NEW d \in Daemon, ClaimNext(d) PROVE HasInput'
  <2>1. crashes' = crashes
    BY <1>3, Zenon DEF ClaimNext
  <2>2. CASE row.status = "queued"
    <3>1. /\ row'.status = "running" /\ row'.pending = row.pending /\ row'.payload = row.payload
          /\ run'.pc = "round" /\ run'.payload = row.payload
      BY <1>3, <1>n, <2>2, Zenon DEF ClaimNext, Row
    <3>. QED  BY <2>1, <2>2, <3>1, Zenon DEF HasInput
  <2>3. CASE row.status # "queued"
    BY <1>3, <2>1, <2>3, Zenon DEF ClaimNext, HasInput
  <2>. QED  BY <2>2, <2>3, Zenon
<1>4. ASSUME NEW d \in Daemon, Restart(d) PROVE HasInput'
  <2>1. crashes' # 0
    BY <1>4, <1>n DEF Restart
  <2>. QED  BY <2>1, Zenon DEF HasInput
<1>5. CASE Remediate
  <2>1. crashes' = crashes
    BY <1>0, <1>5, RemediateDoes, Zenon
  <2>2. CASE /\ run.pc = "finish" /\ run'.pc = "none"
             /\ row' = IF row.status = "running" THEN Promoted ELSE row
    <3>1. PICK q : q = Promoted
      BY Zenon
    <3>2. CASE /\ row.status = "running" /\ row.pending # <<>>
               /\ q.status = "queued" /\ q.payload = Head(row.pending) /\ q.pending = Tail(row.pending)
      <4>1. /\ 1 \in DOMAIN row.pending /\ q.payload = row.pending[1]
            /\ \A i \in DOMAIN q.pending : i + 1 \in DOMAIN row.pending /\ q.pending[i] = row.pending[i + 1]
        BY <1>n, <3>2
      <4>. QED  BY ZenonT(30), <2>1, <2>2, <3>1, <3>2, <4>1 DEF HasInput
    <3>3. CASE row.status = "running" /\ q.status = "pr_open" /\ q.pending = row.pending
      BY <2>1, <2>2, <3>1, <3>3, Zenon DEF HasInput
    <3>4. CASE row.status # "running"
      BY <2>1, <2>2, <3>4, Zenon DEF HasInput
    <3>. QED  BY <1>0, <3>1, <3>2, <3>3, <3>4, PromotedIs, Zenon
  <2>3. CASE ~(run.pc = "finish" /\ run'.pc = "none")
    BY <1>0, <1>5, <2>1, <2>3, RemediateDoes, Zenon DEF OneRun, HasInput
  <2>. QED  BY <1>0, <1>5, <2>2, <2>3, RemediateDoes, Zenon
<1>6. CASE Close \/ RetryTask
  <2>1. /\ UNCHANGED <<crashes, run>> /\ row'.pending = row.pending /\ row'.payload = row.payload
        /\ \/ row'.status = "closed"
           \/ row.status = "parked" /\ row'.status = "queued"
    BY <1>6, <1>n, Zenon DEF Close, RetryTask, Row
  <2>. QED  BY <2>1, Zenon DEF HasInput
<1>. QED  BY <1>0, <1>1, <1>2, <1>3, <1>4, <1>5, <1>6, StepKinds, SetupIs, Zenon

\* A claimed remediation has the unit it was queued with, as long as no daemon
\* is restarted: whichever daemon queued it, whether it was queued by a reaction,
\* promoted from those that waited or retried by an operator, and whatever was
\* merged into it meanwhile.  Where units fit the clip: a longer one is cut and
\* decodes no more.
THEOREM ClaimedRunsHaveInput ==
    ASSUME Fitting
    PROVE  Spec => []ClaimedHasInput
<1>1. Init => ReplyInv /\ HasInput
  <2>. SUFFICES ASSUME Init PROVE ReplyInv /\ HasInput
    BY Zenon
  <2>1. row.status = "pr_open" /\ row.pending = <<>> /\ run.pc = "none"
    BY Zenon DEF Init, NoRun
  <2>. QED  BY <2>1, ReplyInit DEF HasInput
<1>2. ReplyInv /\ HasInput /\ [Next]_vars => (ReplyInv /\ HasInput)'
  BY ReplyStep, InputStep, Zenon
<1>3. ReplyInv /\ HasInput => ClaimedHasInput
  BY Zenon DEF HasInput, ClaimedHasInput
<1>. QED  BY <1>1, <1>2, <1>3, PTL DEF Spec
-----------------------------------------------------------------------------
(***************************************************************************)
(* A poll makes a record work once                                         *)
(***************************************************************************)

\* One daemon polls, no webhook is delivered and no call fails; and it is not
\* restarted, or the stream forgets nothing.
Alone ==
    /\ ~setup.webhook /\ Cardinality(setup.daemons) = 1
    /\ setup.faults = 0
    /\ setup.crashes = 0 \/ setup.forgets = {}

Held(d, r) == loop[d].pc \in {"lookup", "act"} /\ loop[d].rec = r
Waiting(r) == \E m \in Message : stream[m] > 0 /\ m.rec = r
Seen(d, r) == Waiting(r) \/ Held(d, r) \/ begun[r] > 0

\* A record is in one message, or in the daemon's hand, or was made work once.
Single(d) ==
    /\ \A m \in Message : stream[m] <= 1
    /\ \A m, k \in Message : stream[m] > 0 /\ stream[k] > 0 /\ m.rec = k.rec => m = k
    /\ \A r \in Record : Held(d, r) => ~Waiting(r)
    /\ \A r \in Record : begun[r] > 0 => begun[r] = 1 /\ ~Held(d, r) /\ ~Waiting(r)

\* While it scans nothing but an end of the task moves the row.
Scanning(d) == loop[d].pc \in {"comments", "cursors"}
Scanned(d) ==
    Scanning(d) =>
        /\ loop[d].from = row.cursor /\ row.status \in {"pr_open", "closed"}
        /\ loop[d].to.review >= row.cursor.review /\ loop[d].to.comment >= row.cursor.comment

\* The record is behind the cursor of its kind, the row's or the one the scan is
\* about to write.
Behind(r, c) ==
    \/ r[1] = "review" /\ r[2] <= c.review
    \/ r[1] = "comment" /\ r[2] <= c.comment
Past(d, r) ==
    \/ Behind(r, row.cursor)
    \/ loop[d].pc = "comments" /\ r[1] = "review" /\ r[2] <= loop[d].to.review
    \/ loop[d].pc = "cursors" /\ Behind(r, loop[d].to)

\* So no scan lists a record that was seen, or the window still holds it.
Known(d) ==
    \A r \in Record : Seen(d, r) =>
        /\ setup.crashes = 0 => Past(d, r) \/ (row.status = "closed" /\ loop[d].pc # "comments")
        /\ setup.forgets = {} => r \in window

OnceInv == Alone => \A d \in setup.daemons : Single(d) /\ Scanned(d) /\ Known(d)

\* A step that adds no message, takes none in hand and makes none work.
LEMMA SingleStays ==
    ASSUME NEW d \in Daemon, Single(d), stream' = stream, begun' = begun,
           \A r \in Record : Held(d, r)' => Held(d, r)
    PROVE  Single(d)' /\ \A r \in Record : Seen(d, r)' => Seen(d, r)
<1>1. \A r \in Record : Waiting(r)' <=> Waiting(r)
  BY ZenonT(30) DEF Waiting
<1>. QED  BY <1>1, Zenon DEF Single, Seen

\* A step that leaves the scan and the row's place in it.
LEMMA KnownStays ==
    ASSUME NEW d \in Daemon, Scanned(d), Known(d), setup' = setup, window' = window, row'.cursor = row.cursor,
           row.status = "closed" => row'.status = "closed",
           Scanning(d) /\ row.status = "pr_open" => row'.status \in {"pr_open", "closed"},
           loop'[d] = loop[d] \/ (~Scanning(d) /\ ~Scanning(d)'),
           \A r \in Record : Seen(d, r)' => Seen(d, r)
    PROVE  Scanned(d)' /\ Known(d)'
<1>1. Scanned(d)'
  BY Zenon DEF Scanned, Scanning
<1>2. ASSUME NEW r \in Record, Past(d, r) PROVE Past(d, r)'
  BY <1>2, Zenon DEF Past, Behind, Scanning
<1>3. row.status = "closed" /\ loop[d].pc # "comments" => row'.status = "closed" /\ loop'[d].pc # "comments"
  BY Zenon DEF Scanning
<1>. QED  BY <1>1, <1>2, <1>3, Zenon DEF Known

\* The run and the operator leave the row's cursors, an ended task, and a pull
\* request that waits for a review, but for its end.
LEMMA RowMoves ==
    ASSUME ReplyInv, Remediate \/ Close \/ RetryTask
    PROVE  /\ row'.cursor = row.cursor
           /\ row.status = "closed" => row'.status = "closed"
           /\ row.status = "pr_open" => row'.status \in {"pr_open", "closed"}
           /\ UNCHANGED <<setup, window, stream, loop, begun>>
<1>0. TypeOK /\ OneRun /\ row \in Row
  BY Zenon DEF ReplyInv, TypeOK
<1>1. UNCHANGED <<setup, window, stream, loop, begun>>
  BY Zenon DEF Remediate, StartRound, PersistRound, Build, ReviewReply, Update, Finish, Close, RetryTask
<1>2. CASE Close \/ RetryTask
  BY <1>0, <1>1, <1>2, Zenon DEF Close, RetryTask, Row
<1>3. CASE Remediate
  <2>1. run.pc # "none"
    BY <1>3, Zenon DEF Remediate, StartRound, PersistRound, Build, ReviewReply, Update, Finish
  <2>2. row.status \in {"running", "closed"}
    BY <1>0, <2>1, ZenonT(30) DEF OneRun
  <2>3. row'.cursor = row.cursor /\ (row.status = "closed" => row'.status = "closed")
    <3>1. CASE StartRound \/ Build
      BY <1>0, <3>1, Zenon DEF StartRound, Build, Park, Row
    <3>2. CASE PersistRound \/ Update
      BY <1>0, <3>2, Zenon DEF PersistRound, Update, Row
    <3>3. CASE ReviewReply
      BY <3>3, Zenon DEF ReviewReply
    <3>4. CASE Finish
      BY <1>0, <3>4, ZenonT(30) DEF Finish, Promoted, Row
    <3>. QED  BY <1>3, <3>1, <3>2, <3>3, <3>4, Zenon DEF Remediate
  <2>. QED  BY <1>1, <2>2, <2>3, Zenon
<1>. QED  BY <1>2, <1>3, Zenon

\* A listing publishes what was not seen.
LEMMA PublishOnce ==
    ASSUME TypeOK, NEW d \in Daemon, Single(d), ~(loop[d].pc \in {"lookup", "act"}), Scanning(d)',
           NEW recs \in SUBSET posted, \A r \in recs \ window : ~Seen(d, r),
           stream' = Published(recs), begun' = begun
    PROVE  Single(d)' /\ \A r \in Record : Seen(d, r)' => Seen(d, r) \/ r \in recs
<1>0. stream \in [Message -> Nat] /\ \A m \in Message : m.rec \in Record
  BY Zenon DEF TypeOK, Message
<1>1. \A m \in Message : stream'[m] = stream[m] \/ (m.tries = 0 /\ m.rec \in recs \ window /\ stream'[m] = stream[m] + 1)
  BY PublishedIs, Zenon
<1>2. \A r \in Record : ~Held(d, r)'
  BY Zenon DEF Held, Scanning
<1>3. \A m \in Message : m.rec \in recs \ window => stream[m] = 0 /\ begun[m.rec] = 0
  <2>1. \A m \in Message : m.rec \in recs \ window => ~(stream[m] > 0) /\ ~(begun[m.rec] > 0)
    BY ZenonT(30) DEF Seen, Waiting
  <2>. QED  BY <1>0, <2>1 DEF TypeOK
<1>4. \A m \in Message : stream'[m] = stream[m] \/ (m.tries = 0 /\ m.rec \in recs \ window /\ stream[m] = 0 /\ stream'[m] = 1)
  BY <1>0, <1>1, <1>3
<1>5. \A m \in Message : stream'[m] <= 1
  BY <1>4 DEF Single
<1>6. ASSUME NEW m \in Message, NEW k \in Message, stream'[m] > 0, stream'[k] > 0, m.rec = k.rec PROVE m = k
  <2>1. CASE m.rec \in recs \ window
    <3>1. m.tries = 0 /\ k.tries = 0
      BY <1>3, <1>4, <1>6, <2>1
    <3>. QED  BY <1>6, <3>1 DEF Message
  <2>2. CASE m.rec \notin recs \ window
    BY <1>4, <1>6, <2>2, Zenon DEF Single
  <2>. QED  BY <2>1, <2>2, Zenon
<1>7. \A r \in Record : Waiting(r)' => Waiting(r) \/ r \in recs \ window
  BY <1>4, Zenon DEF Waiting
<1>8. \A r \in Record : begun[r] > 0 => begun[r] = 1 /\ ~Waiting(r)'
  BY <1>7, Zenon DEF Single, Seen
<1>9. \A r \in Record : Seen(d, r)' => Seen(d, r) \/ r \in recs
  BY <1>2, <1>7, ZenonT(30) DEF Seen
<1>. QED  BY <1>2, <1>5, <1>6, <1>8, <1>9, Zenon DEF Single

\* A listing of the scan publishes and moves on, as no call fails.
LEMMA ScanOnce ==
    ASSUME TypeOK, NEW d \in Daemon, Single(d), Known(d), setup.faults = 0, ~(loop[d].pc \in {"lookup", "act"}),
           setup.crashes = 0 \/ setup.forgets = {},
           NEW listed \in SUBSET posted, NEW next \in Scans, Scan(d, listed, next),
           setup.crashes = 0 =>
               \A r \in listed : ~Past(d, r) /\ ~(row.status = "closed" /\ loop[d].pc # "comments")
    PROVE  /\ Single(d)' /\ loop'[d] = next
           /\ \A r \in Record : Seen(d, r)' => Seen(d, r) \/ r \in listed
           /\ \A r \in Record : Seen(d, r)' /\ setup.forgets = {} => r \in window'
           /\ UNCHANGED <<setup, row>>
<1>0. faults = 0 /\ ~Fails
  BY SetupIs DEF TypeOK, Fails
<1>1. PICK recs : recs = Reactions(listed)
  BY Zenon
<1>2. /\ stream' = Published(recs) /\ window' = Remembered(recs) /\ loop' = [loop EXCEPT ![d] = next]
      /\ UNCHANGED <<setup, row, begun>>
  BY <1>0, <1>1, Zenon DEF Scan
<1>3. recs \subseteq listed /\ recs \in SUBSET posted
  BY <1>1, Zenon DEF Reactions
<1>4. loop'[d] = next
  BY <1>2, LoopSet, Zenon
<1>5. Scanning(d)'
  BY <1>4, Zenon DEF Scanning, Scans
<1>6. ASSUME NEW r \in recs \ window PROVE ~Seen(d, r)
  <2>1. r \in Record /\ r \in listed
    BY <1>3, Zenon DEF TypeOK
  <2>2. CASE setup.crashes = 0
    BY <2>1, <2>2, Zenon DEF Known
  <2>3. CASE setup.forgets = {}
    BY <1>6, <2>1, <2>3, Zenon DEF Known
  <2>. QED  BY <2>2, <2>3, Zenon
<1>7. Single(d)' /\ \A r \in Record : Seen(d, r)' => Seen(d, r) \/ r \in recs
  BY ZenonT(30), <1>2, <1>3, <1>5, <1>6, PublishOnce
<1>8. window' = window \cup recs
  BY <1>2, ZenonT(30) DEF Remembered
<1>9. ASSUME NEW r \in Record, Seen(d, r)', setup.forgets = {} PROVE r \in window'
  <2>1. CASE Seen(d, r)
    BY ZenonT(30), <1>8, <1>9, <2>1 DEF Known
  <2>2. CASE r \in recs
    BY <1>8, <2>2, Zenon
  <2>. QED  BY <1>7, <1>9, <2>1, <2>2, Zenon
<1>. QED  BY <1>2, <1>3, <1>4, <1>7, <1>9, Zenon

\* ScanReviews lists what is ahead of the row's cursor, and what it publishes is
\* behind the one it is about to write.
LEMMA ScanReviewsOnce ==
    ASSUME TypeOK, NEW d \in Daemon, Single(d), Known(d), setup.faults = 0,
           setup.crashes = 0 \/ setup.forgets = {}, ScanReviews(d)
    PROVE  Single(d)' /\ Scanned(d)' /\ Known(d)'
<1>0. loop[d].pc = "scan" /\ row.status = "pr_open" /\ row.cursor \in Cursors
  BY RowIs, Zenon DEF ScanReviews
<1>1. PICK listed : listed = Listed("review", row.cursor.review)
  BY Zenon
<1>2. PICK h : h = Highest(listed, row.cursor.review)
  BY Zenon
<1>3. PICK next : next = [pc |-> "comments", from |-> row.cursor, to |-> [row.cursor EXCEPT !.review = h]]
  BY ZenonT(30)
<1>4. next \in Scans /\ Scan(d, listed, next)
  BY ZenonT(30), <1>0, <1>1, <1>2, <1>3, ScanNext DEF ScanReviews
<1>5. listed \in SUBSET posted /\ \A r \in listed : r \in Record /\ r[1] = "review" /\ r[2] > row.cursor.review
  BY <1>1, ZenonT(30) DEF Listed, TypeOK
<1>6. \A r \in listed : ~Past(d, r)
  <2>1. \A r \in listed : ~(r[2] <= row.cursor.review)
    <3>1. \A r \in listed : r[2] \in Nat
      BY <1>5, RecordIs
    <3>2. row.cursor.review \in Nat
      BY <1>0 DEF Cursors
    <3>. QED  BY <1>5, <3>1, <3>2
  <2>. QED  BY <1>0, <1>5, <2>1, Zenon DEF Past, Behind
<1>7. /\ Single(d)' /\ loop'[d] = next
      /\ \A r \in Record : Seen(d, r)' => Seen(d, r) \/ r \in listed
      /\ \A r \in Record : Seen(d, r)' /\ setup.forgets = {} => r \in window'
      /\ UNCHANGED <<setup, row>>
  BY Zenon, <1>0, <1>4, <1>5, <1>6, ScanOnce
<1>8. h \in Nat /\ h >= row.cursor.review /\ \A r \in listed : r[2] <= h
  <2>1. \A r \in Record : r[1] = "review" => r[2] \in 0 .. NReviews
    BY RecordIs, RemediationAssumption
  <2>2. row.cursor.review \in 0 .. NReviews /\ NReviews \in Nat
    BY <1>0, RemediationAssumption, Zenon DEF Cursors
  <2>3. h \in 0 .. NReviews /\ (\A r \in listed : r[2] <= h) /\ (h = row.cursor.review \/ h > row.cursor.review)
    BY ZenonT(30), <1>1, <1>2, <2>1, <2>2, HighestIs
  <2>. QED  BY <2>2, <2>3
<1>9. next.pc = "comments" /\ next.from = row.cursor /\ next.to.review = h /\ next.to.comment = row.cursor.comment
  BY <1>0, <1>3, Zenon DEF Cursors
<1>10. Scanned(d)'
  <2>1. row.cursor.comment >= row.cursor.comment
    BY <1>0 DEF Cursors
  <2>. QED  BY <1>0, <1>7, <1>8, <1>9, <2>1, Zenon DEF Scanned
<1>11. ASSUME NEW r \in Record, Seen(d, r)', setup.crashes = 0 PROVE Past(d, r)'
  <2>1. CASE Seen(d, r)
    <3>1. Past(d, r)
      BY <1>0, <1>11, <2>1, Zenon DEF Known
    <3>2. Behind(r, row.cursor)
      BY <1>0, <3>1, Zenon DEF Past
    <3>. QED  BY <1>7, <3>2, Zenon DEF Past
  <2>2. CASE r \in listed
    BY <1>5, <1>7, <1>8, <1>9, <2>2, Zenon DEF Past
  <2>. QED  BY <1>7, <1>11, <2>1, <2>2, Zenon
<1>. QED  BY ZenonT(30), <1>7, <1>10, <1>11 DEF Known

\* So does ScanComments, after the cursor it read.
LEMMA ScanCommentsOnce ==
    ASSUME TypeOK, NEW d \in Daemon, Single(d), Scanned(d), Known(d), setup.faults = 0,
           setup.crashes = 0 \/ setup.forgets = {}, ScanComments(d)
    PROVE  Single(d)' /\ Scanned(d)' /\ Known(d)'
<1>0. /\ loop[d].pc = "comments" /\ loop[d] \in Scans /\ row.cursor \in Cursors /\ loop[d].to \in Cursors
      /\ loop[d].from = row.cursor /\ row.status \in {"pr_open", "closed"}
      /\ loop[d].to.review >= row.cursor.review /\ loop[d].to.comment >= row.cursor.comment
  <2>1. loop[d].pc = "comments"
    BY Zenon DEF ScanComments
  <2>2. loop[d] \in Scans /\ row.cursor \in Cursors
    BY <2>1, LoopIs, RowIs, Zenon
  <2>. QED  BY <2>1, <2>2, Zenon DEF Scans, Scanned, Scanning
<1>1. PICK listed : listed = Listed("comment", row.cursor.comment)
  BY Zenon
<1>2. PICK h : h = Highest(listed, loop[d].to.comment)
  BY Zenon
<1>3. PICK next : next = [loop[d] EXCEPT !.pc = "cursors", !.to.comment = h]
  BY ZenonT(30)
<1>4. next \in Scans /\ Scan(d, listed, next)
  BY ZenonT(30), <1>0, <1>1, <1>2, <1>3, ScanNext DEF ScanComments
<1>5. listed \in SUBSET posted /\ \A r \in listed : r \in Record /\ r[1] = "comment" /\ r[2] > row.cursor.comment
  BY <1>1, Zenon DEF Listed, TypeOK
<1>6. \A r \in listed : ~Past(d, r)
  <2>1. \A r \in listed : ~(r[2] <= row.cursor.comment)
    <3>1. \A r \in listed : r[2] \in Nat
      BY <1>5, RecordIs
    <3>2. row.cursor.comment \in Nat
      BY <1>0 DEF Cursors
    <3>. QED  BY <1>5, <3>1, <3>2
  <2>. QED  BY <1>0, <1>5, <2>1, Zenon DEF Past, Behind
<1>7. /\ Single(d)' /\ loop'[d] = next
      /\ \A r \in Record : Seen(d, r)' => Seen(d, r) \/ r \in listed
      /\ \A r \in Record : Seen(d, r)' /\ setup.forgets = {} => r \in window'
      /\ UNCHANGED <<setup, row>>
  BY <1>0, <1>4, <1>5, <1>6, ScanOnce, Zenon
<1>8. h \in Nat /\ h >= row.cursor.comment /\ \A r \in listed : r[2] <= h
  <2>1. \A r \in Record : r[1] = "comment" => r[2] \in 0 .. NComments
    BY RecordIs, RemediationAssumption
  <2>2. row.cursor.comment \in 0 .. NComments /\ loop[d].to.comment \in 0 .. NComments /\ NComments \in Nat
    BY <1>0, RemediationAssumption, Zenon DEF Cursors
  <2>3. h \in 0 .. NComments /\ (\A r \in listed : r[2] <= h) /\ (h = loop[d].to.comment \/ h > row.cursor.comment)
    BY <1>1, <1>2, <2>1, <2>2, HighestIs, ZenonT(30)
  <2>. QED  BY <1>0, <2>2, <2>3
<1>9. next.pc = "cursors" /\ next.from = row.cursor /\ next.to.review = loop[d].to.review /\ next.to.comment = h
  BY <1>0, <1>3, Zenon DEF Scans, Cursors
<1>10. Scanned(d)'
  BY ZenonT(30), <1>0, <1>7, <1>8, <1>9 DEF Scanned
<1>11. ASSUME NEW r \in Record, Seen(d, r)', setup.crashes = 0 PROVE Past(d, r)'
  <2>1. CASE Seen(d, r)
    <3>1. Past(d, r)
      BY <1>0, <1>11, <2>1, Zenon DEF Known
    <3>2. Behind(r, row.cursor) \/ (r[1] = "review" /\ r[2] <= loop[d].to.review)
      BY <1>0, <3>1, Zenon DEF Past
    <3>. QED  BY <1>7, <1>9, <3>2, Zenon DEF Past, Behind
  <2>2. CASE r \in listed
    BY <1>5, <1>7, <1>8, <1>9, <2>2, Zenon DEF Past, Behind
  <2>. QED  BY ZenonT(30), <1>7, <1>11, <2>1, <2>2
<1>. QED  BY ZenonT(30), <1>7, <1>10, <1>11 DEF Known

\* SetReviewCursors moves the row's cursors to where the scan ended, or leaves
\* the row: none had moved, or the task ended.
LEMMA CursorsOnce ==
    ASSUME TypeOK, NEW d \in Daemon, Single(d), Scanned(d), Known(d), setup.faults = 0, SetReviewCursors(d)
    PROVE  Single(d)' /\ Scanned(d)' /\ Known(d)'
<1>0. /\ loop[d].pc = "cursors" /\ loop[d] \in Scans /\ row \in Row /\ row.cursor \in Cursors /\ loop[d].to \in Cursors
      /\ loop[d].from = row.cursor /\ row.status \in {"pr_open", "closed"}
      /\ loop[d].to.review >= row.cursor.review /\ loop[d].to.comment >= row.cursor.comment
  <2>1. loop[d].pc = "cursors"
    BY Zenon DEF SetReviewCursors
  <2>2. loop[d] \in Scans /\ row \in Row /\ row.cursor \in Cursors
    BY <2>1, LoopIs, RowIs, Zenon DEF TypeOK
  <2>. QED  BY <2>1, <2>2, Zenon DEF Scans, Scanned, Scanning
<1>1. ~Fails
  BY SetupIs DEF TypeOK, Fails
<1>2. /\ row' = IF row.status = "pr_open" /\ loop[d].to # loop[d].from THEN [row EXCEPT !.cursor = loop[d].to] ELSE row
      /\ loop' = [loop EXCEPT ![d] = [pc |-> "drain", n |-> 0]]
      /\ UNCHANGED <<setup, window, stream, begun>>
  BY <1>1, ZenonT(30) DEF SetReviewCursors, Drain
<1>3. loop'[d].pc = "drain"
  <2>1. [pc |-> "drain", n |-> 0] \in Waits
    BY Zenon DEF Waits
  <2>2. loop'[d] = [pc |-> "drain", n |-> 0]
    BY Zenon, <1>2, <2>1, LoopSet
  <2>. QED  BY <2>2
<1>4. Single(d)' /\ \A r \in Record : Seen(d, r)' => Seen(d, r)
  <2>1. \A r \in Record : ~Held(d, r)'
    BY <1>3, Zenon DEF Held
  <2>. QED  BY <1>2, <2>1, SingleStays, Zenon
<1>5. Scanned(d)'
  BY <1>3, Zenon DEF Scanned, Scanning
<1>6. row.status = "pr_open" => row'.cursor = loop[d].to
  BY <1>0, <1>2, Zenon DEF Row
<1>7. row.status = "closed" => row'.status = "closed"
  BY <1>0, <1>2, Zenon
<1>8. ASSUME NEW r \in Record, Seen(d, r)', setup.crashes = 0
      PROVE  Past(d, r)' \/ row'.status = "closed"
  <2>1. CASE row.status = "pr_open"
    <3>1. Past(d, r)
      BY <1>4, <1>8, <2>1, Zenon DEF Known
    <3>2. Behind(r, row.cursor) \/ Behind(r, loop[d].to)
      BY <1>0, <3>1, Zenon DEF Past
    <3>3. Behind(r, row.cursor) => Behind(r, loop[d].to)
      <4>1. r[2] \in Nat
        BY RecordIs
      <4>2. /\ row.cursor.review \in Nat /\ row.cursor.comment \in Nat
            /\ loop[d].to.review \in Nat /\ loop[d].to.comment \in Nat
        BY <1>0 DEF Cursors
      <4>. QED  BY <1>0, <4>1, <4>2 DEF Behind
    <3>4. Behind(r, row'.cursor)
      BY <1>6, <2>1, <3>2, <3>3, Zenon
    <3>. QED  BY <3>4, Zenon DEF Past
  <2>2. CASE row.status = "closed"
    BY <1>7, <2>2, Zenon
  <2>. QED  BY <1>0, <2>1, <2>2, Zenon
<1>. QED  BY <1>2, <1>3, <1>4, <1>5, <1>8, Zenon DEF Known

\* Fetch takes the record's one message in hand.
LEMMA FetchOnce ==
    ASSUME TypeOK, NEW d \in Daemon, Single(d), Scanned(d), Known(d), Fetch(d)
    PROVE  Single(d)' /\ Scanned(d)' /\ Known(d)'
<1>0. /\ loop[d].pc = "drain" /\ loop[d] \in Waits /\ stream \in [Message -> Nat]
      /\ UNCHANGED <<setup, window, row, begun>>
  BY LoopIs, Zenon DEF Fetch, TypeOK
<1>1. PICK m \in Message :
         /\ stream[m] > 0
         /\ loop' = [loop EXCEPT ![d] = [pc |-> "lookup", rec |-> m.rec, tries |-> m.tries, n |-> loop[d].n + 1]]
         /\ stream' = [stream EXCEPT ![m] = @ - 1]
  BY Zenon DEF Fetch
<1>2. PICK w : w = [pc |-> "lookup", rec |-> m.rec, tries |-> m.tries, n |-> loop[d].n + 1]
  BY ZenonT(30)
<1>3. w \in Handles /\ w.pc = "lookup" /\ w.rec = m.rec /\ m.rec \in Record
  BY <1>0, <1>2 DEF Waits, Handles, Message
<1>4. loop'[d] = w
  BY <1>1, <1>2, <1>3, LoopSet, Zenon
<1>5. stream'[m] = 0 /\ \A k \in Message : k # m => stream'[k] = stream[k]
  <2>1. stream[m] = 1
    BY <1>0, <1>1 DEF Single
  <2>. QED  BY <1>0, <1>1, <2>1
<1>6. \A k \in Message : stream'[k] > 0 => stream[k] > 0 /\ k # m /\ k.rec # m.rec
  BY <1>1, <1>5 DEF Single
<1>7. \A r \in Record : Waiting(r)' => Waiting(r) /\ r # m.rec
  BY <1>6, Zenon DEF Waiting
<1>8. \A r \in Record : Held(d, r)' <=> r = m.rec
  BY <1>3, <1>4, Zenon DEF Held
<1>9. Waiting(m.rec)
  BY <1>1, ZenonT(30) DEF Waiting
<1>10. Single(d)'
  <2>1. \A k \in Message : stream'[k] <= 1
    BY <1>5 DEF Single
  <2>2. \A k, l \in Message : stream'[k] > 0 /\ stream'[l] > 0 /\ k.rec = l.rec => k = l
    BY <1>6, Zenon DEF Single
  <2>3. \A r \in Record : Held(d, r)' => ~Waiting(r)'
    BY <1>7, <1>8, Zenon
  <2>4. \A r \in Record : begun[r] > 0 => begun[r] = 1 /\ ~Held(d, r)' /\ ~Waiting(r)'
    BY <1>3, <1>7, <1>8, <1>9, Zenon DEF Single
  <2>. QED  BY <1>0, <2>1, <2>2, <2>3, <2>4, Zenon DEF Single
<1>11. \A r \in Record : Seen(d, r)' => Seen(d, r)
  BY <1>0, <1>7, <1>8, <1>9, Zenon DEF Seen
<1>12. ~Scanning(d) /\ ~Scanning(d)'
  BY <1>0, <1>3, <1>4, Zenon DEF Scanning
<1>. QED  BY <1>0, <1>10, <1>11, <1>12, KnownStays, Zenon

\* Acting on the record in hand makes it work at most once, and lets go of it.
LEMMA ActOnce ==
    ASSUME TypeOK, NEW d \in Daemon, Single(d), Scanned(d), Known(d), setup.faults = 0, Act(d)
    PROVE  Single(d)' /\ Scanned(d)' /\ Known(d)'
<1>1. ~Fails
  BY SetupIs DEF TypeOK, Fails
<1>2. PICK rec \in Record : loop[d].rec = rec /\ loop[d].pc = "act"
  BY LoopIs, Zenon DEF Act, Handles
<1>3. /\ row' = Reaction(rec) /\ stream' = stream /\ loop' = Drained(d) /\ UNCHANGED <<setup, window>>
      /\ begun' = [begun EXCEPT ![rec] = IF row' # row THEN @ + 1 ELSE @]
  BY <1>1, <1>2, Zenon DEF Act, Acked, Naked
<1>4. loop'[d].pc = "drain"
  <2>1. [pc |-> "drain", n |-> loop[d].n] \in Waits
    BY <1>2, LoopIs, Zenon DEF Handles, Waits
  <2>2. loop'[d] = [pc |-> "drain", n |-> loop[d].n]
    BY Zenon, <1>3, <2>1, LoopSet DEF Drained, Drain
  <2>. QED  BY <2>2
<1>5. Held(d, rec) /\ \A r \in Record : ~Held(d, r)'
  BY <1>2, <1>4, Zenon DEF Held
<1>6. begun \in [Record -> Nat] /\ begun[rec] = 0 /\ ~Waiting(rec)
  BY <1>5 DEF Single, TypeOK
<1>7. begun'[rec] \in {0, 1} /\ \A r \in Record : r # rec => begun'[r] = begun[r]
  BY <1>3, <1>6
<1>8. \A r \in Record : Waiting(r)' <=> Waiting(r)
  BY <1>3, Zenon DEF Waiting
<1>9. Single(d)'
  <2>1. \A r \in Record : begun'[r] > 0 => begun'[r] = 1 /\ ~Held(d, r)' /\ ~Waiting(r)'
    BY <1>5, <1>6, <1>7, <1>8, Zenon DEF Single
  <2>. QED  BY <1>3, <1>5, <2>1, Zenon DEF Single
<1>10. \A r \in Record : Seen(d, r)' => Seen(d, r)
  BY <1>5, <1>7, <1>8, Zenon DEF Seen
<1>11. row'.cursor = row.cursor /\ (row.status = "closed" => row'.status = "closed")
  <2>1. PICK q : q = Reaction(rec)
    BY ZenonT(30)
  <2>2. Does(q) /\ q.cursor = row.cursor
    BY <2>1, ReactionDoes, ReactionIs, Zenon
  <2>3. row.status = "closed" => q.status = "closed"
    BY <2>2, Zenon DEF Does
  <2>. QED  BY <1>3, <2>1, <2>2, <2>3, Zenon
<1>12. ~Scanning(d) /\ ~Scanning(d)'
  BY <1>2, <1>4, Zenon DEF Scanning
<1>. QED  BY ZenonT(30), <1>3, <1>9, <1>10, <1>11, <1>12, KnownStays

\* A restart hands the record in hand back to the stream, or drops it; the
\* stream forgets nothing then.
LEMMA RestartOnce ==
    ASSUME TypeOK, NEW d \in Daemon, Single(d), Known(d), Restart(d)
    PROVE  Single(d)' /\ Scanned(d)' /\ Known(d)'
<1>0. setup.crashes # 0 /\ UNCHANGED <<setup, window, begun>> /\ stream \in [Message -> Nat]
  BY SetupIs DEF Restart, TypeOK
<1>1. loop'[d] = Idle /\ loop'[d].pc = "scan"
  <2>1. Idle \in Waits /\ Idle.pc = "scan"
    BY Zenon DEF Idle, Waits
  <2>2. loop'[d] = Idle
    BY <2>1, LoopSet, Zenon DEF Restart
  <2>. QED  BY <2>1, <2>2, Zenon
<1>2. \A r \in Record : ~Held(d, r)'
  BY <1>1, ZenonT(30) DEF Held
<1>3. CASE stream' = stream
  <2>1. Single(d)' /\ \A r \in Record : Seen(d, r)' => Seen(d, r)
    BY <1>0, <1>2, <1>3, SingleStays, Zenon
  <2>. QED  BY <1>0, <1>1, <2>1, Zenon DEF Known, Scanned, Scanning
<1>4. ASSUME NEW m \in Message, loop[d].pc \in {"lookup", "act"}, m.rec = loop[d].rec,
             stream' = [stream EXCEPT ![m] = @ + 1]
      PROVE  Single(d)' /\ Scanned(d)' /\ Known(d)'
  <2>1. m.rec \in Record /\ Held(d, m.rec)
    BY <1>4, ZenonT(30) DEF Held, Message
  <2>2. ~Waiting(m.rec) /\ begun[m.rec] = 0
    BY <2>1 DEF Single, TypeOK
  <2>3. \A k \in Message : k.rec = m.rec => stream[k] = 0
    BY <1>0, <2>2 DEF Waiting
  <2>4. stream'[m] = 1 /\ \A k \in Message : k # m => stream'[k] = stream[k]
    BY <1>0, <1>4, <2>3
  <2>5. \A k \in Message : stream'[k] > 0 => k = m \/ (k.rec # m.rec /\ stream[k] > 0)
    BY <2>3, <2>4
  <2>6. \A r \in Record : Waiting(r)' => Waiting(r) \/ r = m.rec
    BY <2>5, ZenonT(30) DEF Waiting
  <2>7. Single(d)'
    <3>1. \A k \in Message : stream'[k] <= 1
      BY <2>4 DEF Single
    <3>2. \A k, l \in Message : stream'[k] > 0 /\ stream'[l] > 0 /\ k.rec = l.rec => k = l
      BY <2>5, ZenonT(30) DEF Single
    <3>3. \A r \in Record : begun[r] > 0 => begun[r] = 1 /\ ~Waiting(r)'
      BY <2>2, <2>6 DEF Single
    <3>. QED  BY <1>0, <1>2, <3>1, <3>2, <3>3, Zenon DEF Single
  <2>8. \A r \in Record : Seen(d, r)' => Seen(d, r)
    BY <1>0, <1>2, <2>1, <2>6, Zenon DEF Seen
  <2>. QED  BY ZenonT(30), <1>0, <1>1, <2>7, <2>8 DEF Known, Scanned, Scanning
<1>5. CASE loop[d].pc \in {"lookup", "act"}
  <2>1. stream' = Redelivered(d)
    BY <1>5, Zenon DEF Restart
  <2>. QED  BY <1>3, <1>4, <1>5, <2>1, RedeliveredIs, Zenon
<1>6. CASE ~(loop[d].pc \in {"lookup", "act"})
  BY <1>3, <1>6, Zenon DEF Restart
<1>. QED  BY <1>5, <1>6, Zenon

\* The rest of the cycle moves on.
LEMMA CycleOnce ==
    ASSUME TypeOK, NEW d \in Daemon, Single(d), Scanned(d), Known(d), setup.faults = 0,
           SkipScan(d) \/ StopDraining(d) \/ Lookup(d) \/ ClaimNext(d)
    PROVE  Single(d)' /\ Scanned(d)' /\ Known(d)'
<1>0. ~Fails /\ row \in Row /\ loop \in [Daemon -> Waits \cup Scans \cup Handles]
  BY SetupIs DEF TypeOK, Fails
<1>1. UNCHANGED <<setup, window, stream, begun>>
  BY <1>0, Zenon DEF SkipScan, StopDraining, Lookup, ClaimNext, Acked, Naked
<1>2. row'.cursor = row.cursor /\ (row.status = "closed" => row'.status = "closed")
  BY <1>0, ZenonT(30) DEF SkipScan, StopDraining, Lookup, ClaimNext, Row
<1>3. ~Scanning(d) /\ ~Scanning(d)' /\ \A r \in Record : Held(d, r)' => Held(d, r)
  <2>1. CASE SkipScan(d) \/ ClaimNext(d)
    <3>1. [pc |-> "drain", n |-> 0] \in Waits /\ Idle \in Waits
      BY Zenon DEF Waits, Idle
    <3>2. loop'[d].pc \in {"drain", "scan"}
      BY <2>1, <3>1, LoopSet DEF SkipScan, ClaimNext, Drain, Idle
    <3>. QED  BY <2>1, <3>2, Zenon DEF SkipScan, ClaimNext, Scanning, Held
  <2>2. CASE StopDraining(d)
    <3>1. loop[d] \in Waits /\ loop[d].pc = "drain"
      BY <2>2, LoopIs, Zenon DEF StopDraining
    <3>2. loop'[d].pc = "claim"
      BY <1>0, <2>2, <3>1, Zenon DEF StopDraining, Goto, Waits
    <3>. QED  BY <3>1, <3>2, Zenon DEF Scanning, Held
  <2>3. CASE Lookup(d)
    <3>1. loop[d] \in Handles /\ loop[d].pc = "lookup"
      BY <2>3, LoopIs, Zenon DEF Lookup
    <3>2. CASE loop' = Goto(d, "act")
      <4>1. loop'[d].pc = "act" /\ loop'[d].rec = loop[d].rec
        BY <1>0, <3>1, <3>2, Zenon DEF Goto, Handles
      <4>. QED  BY <3>1, <4>1, Zenon DEF Scanning, Held
    <3>3. CASE loop' = Drained(d)
      <4>1. loop'[d].pc = "drain"
        BY <1>0, <3>3, Zenon DEF Drained, Drain
      <4>. QED  BY <3>1, <4>1, Zenon DEF Scanning, Held
    <3>. QED  BY ZenonT(30), <2>3, <3>2, <3>3 DEF Lookup
  <2>. QED  BY <2>1, <2>2, <2>3, Zenon
<1>4. Single(d)' /\ \A r \in Record : Seen(d, r)' => Seen(d, r)
  BY <1>1, <1>3, SingleStays, Zenon
<1>. QED  BY <1>1, <1>2, <1>3, <1>4, KnownStays, Zenon

\* Every step of such an installation keeps it.
LEMMA OnceStep ==
    ASSUME ReplyInv, OnceInv, [Next]_vars
    PROVE  OnceInv'
<1>. SUFFICES ASSUME Alone', NEW d \in setup'.daemons PROVE Single(d)' /\ Scanned(d)' /\ Known(d)'
  BY Zenon DEF OnceInv
<1>0. TypeOK
  BY ZenonT(30) DEF ReplyInv
<1>1. setup' = setup
  BY ZenonT(30) DEF Next, vars, Post, serveReviewEvent, Expire, Cycle, ScanReviews, ScanComments, Scan, SkipScan,
         SetReviewCursors, Fetch, StopDraining, Lookup, Act, ClaimNext, Restart, Remediate, StartRound,
         PersistRound, Build, ReviewReply, Update, Finish, Close, RetryTask
<1>2. /\ ~setup.webhook /\ Cardinality(setup.daemons) = 1 /\ setup.faults = 0
      /\ setup.crashes = 0 \/ setup.forgets = {}
  BY <1>1, Zenon DEF Alone
<1>3. d \in Daemon /\ \A e \in setup.daemons : e = d
  <2>1. setup.daemons \subseteq Daemon /\ IsFiniteSet(Daemon)
    BY <1>0, SetupIs, RemediationAssumption, Zenon
  <2>2. IsFiniteSet(setup.daemons)
    BY <2>1, FS_Subset, Zenon
  <2>3. \E x : setup.daemons = {x}
    BY Zenon, <1>2, <2>2, FS_Singleton
  <2>. QED  BY <1>1, <2>1, <2>3, Zenon
<1>4. Single(d) /\ Scanned(d) /\ Known(d)
  BY <1>1, <1>2, Zenon DEF OnceInv, Alone
<1>5. ASSUME UNCHANGED <<window, stream, loop, begun>>, row'.cursor = row.cursor,
             row.status = "closed" => row'.status = "closed",
             row.status = "pr_open" => row'.status \in {"pr_open", "closed"}
      PROVE  Single(d)' /\ Scanned(d)' /\ Known(d)'
  <2>1. \A r \in Record : Held(d, r)' => Held(d, r)
    BY <1>5, ZenonT(30) DEF Held
  <2>2. Single(d)' /\ \A r \in Record : Seen(d, r)' => Seen(d, r)
    BY ZenonT(30), <1>3, <1>4, <1>5, <2>1, SingleStays
  <2>. QED  BY Zenon, <1>1, <1>3, <1>4, <1>5, <2>2, KnownStays
<1>6. ASSUME NEW r \in Record, Post(r) \/ serveReviewEvent(r) PROVE Single(d)' /\ Scanned(d)' /\ Known(d)'
  BY ZenonT(30), <1>2, <1>5, <1>6 DEF Post, serveReviewEvent
<1>7. ASSUME NEW r \in Record, Expire(r) PROVE Single(d)' /\ Scanned(d)' /\ Known(d)'
  <2>1. setup.forgets # {} /\ UNCHANGED <<stream, loop, begun, row>>
    BY <1>7, Zenon DEF Expire
  <2>2. \A x \in Record : Held(d, x)' => Held(d, x)
    BY <2>1, ZenonT(30) DEF Held
  <2>3. Single(d)' /\ \A x \in Record : Seen(d, x)' => Seen(d, x)
    BY ZenonT(30), <1>3, <1>4, <2>1, <2>2, SingleStays
  <2>4. Scanned(d)'
    BY <1>4, <2>1, Zenon DEF Scanned, Scanning
  <2>5. \A x \in Record : Past(d, x)' <=> Past(d, x)
    BY <2>1, ZenonT(30) DEF Past
  <2>6. Known(d)'
    BY ZenonT(30), <1>1, <1>4, <2>1, <2>3, <2>5 DEF Known
  <2>. QED  BY <2>3, <2>4, <2>6, Zenon
<1>8. CASE Cycle(d)
  <2>1. CASE ScanReviews(d)
    BY <1>0, <1>2, <1>3, <1>4, <2>1, ScanReviewsOnce, Zenon
  <2>2. CASE ScanComments(d)
    BY <1>0, <1>2, <1>3, <1>4, <2>2, ScanCommentsOnce, Zenon
  <2>3. CASE SetReviewCursors(d)
    BY <1>0, <1>2, <1>3, <1>4, <2>3, CursorsOnce, Zenon
  <2>4. CASE Fetch(d)
    BY <1>0, <1>3, <1>4, <2>4, FetchOnce, Zenon
  <2>5. CASE Act(d)
    BY <1>0, <1>2, <1>3, <1>4, <2>5, ActOnce, Zenon
  <2>6. CASE SkipScan(d) \/ StopDraining(d) \/ Lookup(d) \/ ClaimNext(d)
    BY <1>0, <1>2, <1>3, <1>4, <2>6, CycleOnce, Zenon
  <2>. QED  BY ZenonT(30), <1>8, <2>1, <2>2, <2>3, <2>4, <2>5, <2>6 DEF Cycle
<1>9. CASE Restart(d)
  BY <1>0, <1>3, <1>4, <1>9, RestartOnce, Zenon
<1>10. CASE Remediate \/ Close \/ RetryTask
  BY <1>5, <1>10, RowMoves, Zenon
<1>11. CASE UNCHANGED vars
  BY <1>5, <1>11, Zenon DEF vars
<1>. QED  BY ZenonT(30), <1>3, <1>6, <1>7, <1>8, <1>9, <1>10, <1>11 DEF Next

\* Where one daemon polls, no webhook is delivered and no call fails, a review
\* or a comment is made work at most once, however many there are and whatever
\* the stream forgets, as the cursors keep the scan from listing it again; and
\* however often the daemon is restarted in the middle of a scan, if the stream
\* forgets nothing, as its window then suppresses what is listed again.
THEOREM PollsRemediateOnce == Spec => []RemediatedOnce
<1>1. Init => OnceInv
  <2>. SUFFICES ASSUME Init, NEW d \in setup.daemons PROVE Single(d) /\ Scanned(d) /\ Known(d)
    BY Zenon DEF OnceInv
  <2>1. d \in Daemon
    BY TypeInit, SetupIs, Zenon
  <2>2. loop[d].pc = "scan" /\ (\A m \in Message : stream[m] = 0) /\ (\A r \in Record : begun[r] = 0)
    BY <2>1, ZenonT(30) DEF Init, Idle
  <2>3. \A r \in Record : ~Seen(d, r)
    BY <2>2 DEF Seen, Held, Waiting
  <2>. QED  BY <2>2, <2>3 DEF Single, Scanned, Scanning, Known, Seen
<1>2. ReplyInv /\ OnceInv /\ [Next]_vars => (ReplyInv /\ OnceInv)'
  BY ReplyStep, OnceStep, Zenon
<1>3. ReplyInv /\ OnceInv => RemediatedOnce
  <2>. SUFFICES ASSUME ReplyInv, OnceInv, Alone, NEW r \in Record PROVE begun[r] <= 1
    BY Zenon DEF RemediatedOnce, Alone
  <2>1. TypeOK /\ IsFiniteSet(Daemon)
    BY RemediationAssumption, Zenon DEF ReplyInv
  <2>2. PICK d : d \in setup.daemons
    <3>1. IsFiniteSet(setup.daemons)
      BY <2>1, SetupIs, FS_Subset, Zenon
    <3>2. setup.daemons # {}
      BY <3>1, FS_EmptySet DEF Alone
    <3>. QED  BY <3>2, Zenon
  <2>3. begun[r] \in Nat /\ (begun[r] > 0 => begun[r] = 1)
    BY <2>1, <2>2, Zenon DEF OnceInv, Single, TypeOK
  <2>. QED  BY <2>3
<1>. QED  BY <1>1, <1>2, <1>3, ReplyInit, PTL DEF Spec
=============================================================================
