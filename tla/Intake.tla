------------------------------- MODULE Intake -------------------------------
(***************************************************************************)
(* How a forge issue becomes a task, and how a withdrawn one stops being   *)
(* one: the poll loops and the webhook receiver that discover issues, the  *)
(* JetStream work queue between them and the daemon's drain loop, and the  *)
(* handler of one delivered message (internal/daemon/daemon.go,            *)
(* internal/forge/webhook/receiver.go).                                    *)
(*                                                                         *)
(* Every store, forge and stream call is one step; between two of them     *)
(* anything may happen.  A message is named by its slot in the stream, and *)
(* a slot is used again only when nothing refers to it.  Of a row only the *)
(* part intake can tell apart is kept: "settled" is every status a run     *)
(* ends in (TaskRuns models those), "declined" is closed_wont_do.          *)
(***************************************************************************)
EXTENDS Naturals, FiniteSets

CONSTANTS Identity, Issue,
          Rule,         \* dispatch rules: trigger, label and bot user
          MaxMsg,       \* bounds the messages in the stream at once
          MaxDeliver,   \* the consumer's MaxDeliver
          Setups,       \* the installs an instance explores
          Faults,       \* the ways a store, forge or stream call may fail
          MaxFaults,    \* bounds failed calls and crashes together
          MaxChanges,   \* bounds what people change
          NoMsg, Unseen

\* How issues are found: polling each identity's repositories, polling the
\* root identity's, or by webhook; and whether a run may outlast AckWait.
Setup == [intake : {"identities", "root", "webhook"}, slow : BOOLEAN]

ASSUME IntakeAssumption ==
    /\ MaxDeliver \in Nat \ {0} /\ MaxMsg \in Nat
    /\ Setups \subseteq Setup
    /\ Faults \subseteq {"fail", "lost"}
    /\ MaxFaults \in Nat /\ MaxChanges \in Nat
    /\ NoMsg \notin 1 .. MaxMsg
    /\ NoMsg \notin [key : Identity \X Issue, n : Nat, out : BOOLEAN]

VARIABLES setup,     \* the install; never changes
          eligible,  \* the forge: the keys each rule selects
          rule,      \* the rule in the running configuration
          hooks,     \* webhook deliveries on their way
          may,       \* the identities whose lifecycle is active
          row,       \* the tasks table
          stream,    \* the ARCHIE_TASKS stream
          window,    \* the idempotency keys JetStream still remembers
          work,      \* the runs submitted to the dispatcher
          poll,      \* the poll loop of each identity
          last,      \* Daemon.lastPolled
          withdrawn, \* history: keys the forge took out of a rule's selection
          noticed,   \* history: withdrawals a poll pass completed without error
          accepted,  \* history: keys whose webhook was answered 202
          faults, changes

forge == <<setup, eligible, rule, may, withdrawn, changes>>
bus == <<stream, window>>
web == <<hooks, accepted>>
loops == <<poll, last, noticed>>
vars == <<setup, eligible, rule, hooks, may, row, stream, window, work, poll, last,
          withdrawn, noticed, accepted, faults, changes>>

Msg == 1 .. MaxMsg

\* The unique key of a task row and, with its org, of a published envelope.
Key == Identity \X Issue

RowStatus == {"none", "queued", "running", "settled", "declined"}
Active == {"queued", "running"}

\* A delivery being handled, or (msg = NoMsg) a row ClaimNext handed out.
Work == [msg : Msg \cup {NoMsg}, n : Nat,
         pc : {"submitted", "inserted", "processing"}, key : Key]

Idle == [pc |-> "idle", rule |-> CHOOSE r \in Rule : TRUE,
         found |-> {}, todo |-> {}, at |-> {}, drop |-> {}]

TypeOK ==
    /\ setup \in Setup
    /\ eligible \in [Rule -> SUBSET Key] /\ rule \in Rule /\ may \subseteq Identity
    /\ hooks \subseteq [key : Key, on : BOOLEAN]
    /\ row \in [Key -> RowStatus]
    /\ stream \in [Msg -> {NoMsg} \cup [key : Key, n : 0 .. MaxDeliver, out : BOOLEAN]]
    /\ window \subseteq Key /\ withdrawn \subseteq Key /\ noticed \subseteq Key /\ accepted \subseteq Key
    /\ work \subseteq Work
    /\ poll \in [Identity -> [pc : {"idle", "listed", "withdrawing", "publishing"}, rule : Rule,
                              found : SUBSET Issue, todo : SUBSET Issue,
                              at : SUBSET Issue, drop : SUBSET Key]]
    /\ last \in [Identity -> {Unseen} \cup [rule : Rule, eligible : SUBSET Issue]]
    /\ faults \in 0 .. MaxFaults /\ changes \in 0 .. MaxChanges

Init ==
    /\ setup \in Setups
    /\ eligible \in [Rule -> SUBSET Key] /\ rule \in Rule /\ may = Identity
    /\ hooks = {}
    /\ row = [k \in Key |-> "none"]
    /\ stream = [m \in Msg |-> NoMsg] /\ window = {}
    /\ work = {}
    /\ poll = [i \in Identity |-> Idle] /\ last = [i \in Identity |-> Unseen]
    /\ withdrawn = {} /\ noticed = {} /\ accepted = {}
    /\ faults = 0 /\ changes = 0
-----------------------------------------------------------------------------
(***************************************************************************)
(* The forge, the configuration and the identities, changed by people.     *)
(***************************************************************************)
Change == changes < MaxChanges /\ changes' = changes + 1

\* GitHub delivers one webhook per change of an issue.
Hook(k, on) == hooks' = IF setup.intake = "webhook" THEN hooks \cup {[key |-> k, on |-> on]} ELSE hooks

Assign(r, k) ==
    /\ Change /\ k \notin eligible[r]
    /\ eligible' = [eligible EXCEPT ![r] = @ \cup {k}]
    /\ noticed' = noticed \ {k}
    /\ Hook(k, TRUE)
    /\ UNCHANGED <<setup, rule, may, row, bus, work, poll, last, withdrawn, accepted, faults>>

Withdrawal(r, k) ==
    /\ Change /\ k \in eligible[r]
    /\ eligible' = [eligible EXCEPT ![r] = @ \ {k}]
    /\ withdrawn' = withdrawn \cup {k}
    /\ Hook(k, FALSE)
    /\ UNCHANGED <<setup, rule, may, row, bus, work, loops, accepted, faults>>

Reload(r) ==
    /\ Change /\ r # rule /\ rule' = r
    /\ UNCHANGED <<setup, eligible, web, may, row, bus, work, loops, withdrawn, faults>>

SetLifecycle(i) ==
    /\ Change
    /\ may' = IF i \in may THEN may \ {i} ELSE may \cup {i}
    /\ UNCHANGED <<setup, eligible, rule, web, row, bus, work, loops, withdrawn, faults>>
-----------------------------------------------------------------------------
(***************************************************************************)
(* The stream, external: JetStream with explicit acknowledgement.          *)
(***************************************************************************)

\* A call answers, fails before it takes effect, or takes effect and loses
\* its answer.
Reply(r) ==
    \/ r = "ok" /\ UNCHANGED faults
    \/ r \in Faults /\ faults < MaxFaults /\ faults' = faults + 1

Fetchable(m) == stream[m] # NoMsg /\ ~stream[m].out /\ stream[m].n < MaxDeliver

\* A message delivered MaxDeliver times stays in the stream undelivered.
Free(m) ==
    /\ stream[m] # NoMsg => ~stream[m].out /\ stream[m].n = MaxDeliver
    /\ \A w \in work : w.msg # m

\* PublishUnique: a key JetStream remembers is accepted and not stored again.
PublishUnique(k, reply) ==
    IF reply = "fail" \/ k \in window THEN UNCHANGED bus
    ELSE /\ window' = window \cup {k}
         /\ \E m \in Msg : /\ Free(m) /\ \A x \in 1 .. (m - 1) : ~Free(x)
                           /\ stream' = [stream EXCEPT ![m] = [key |-> k, n |-> 0, out |-> FALSE]]

\* Acknowledging removes the message, whichever delivery of it is handled.
Ack(m) == IF m = NoMsg THEN stream ELSE [stream EXCEPT ![m] = NoMsg]
Nak(m) == IF stream[m] = NoMsg THEN stream ELSE [stream EXCEPT ![m].out = FALSE]

MutForgetKey(k) ==
    /\ k \in window /\ row[k] # "none" /\ window' = window \ {k}
    /\ UNCHANGED <<forge, web, row, stream, work, loops, faults>>

ForgetKey(k) ==
    /\ k \in window /\ window' = window \ {k}
    /\ UNCHANGED <<forge, web, row, stream, work, loops, faults>>

AckWaitElapsed(m) ==
    /\ stream[m] # NoMsg /\ stream[m].out
    /\ setup.slow \/ \A w \in work : w.msg # m
    /\ stream' = Nak(m)
    /\ UNCHANGED <<forge, web, row, window, work, loops, faults>>
-----------------------------------------------------------------------------
(***************************************************************************)
(* Store calls.                                                            *)
(***************************************************************************)
RowsOf(n) == {k \in Key : k[2] = n /\ row[k] # "none"}

EnqueueIssue(k) ==
    IF row[k] = "none" THEN [row EXCEPT ![k] = "queued"] ELSE row

Started(ks) == [k \in Key |-> IF k \in ks THEN "running" ELSE row[k]]

MutClaimed(n) == {k \in Key : k[2] = n /\ row[k] # "none"}

\* ClaimByIssue names the issue and not the identity.
Claimed(n) == {k \in Key : k[2] = n /\ row[k] = "queued"}

\* taskactions.Withdraw: the row is read again; CancelExecution declines it.
Withdraw(k) ==
    IF row[k] \in Active THEN [row EXCEPT ![k] = "declined"] ELSE row
-----------------------------------------------------------------------------
(***************************************************************************)
(* Discovery by polling: pollForIdentity, or poll for the root identity.   *)
(***************************************************************************)
Loop(i, p) == poll' = [poll EXCEPT ![i] = p]

\* The pass goes on to publish what it found, or is over.
Publishing(todo) == IF todo = {} THEN Idle
                       ELSE [Idle EXCEPT !.pc = "publishing", !.todo = todo]

\* The forge's issues under the rule read at the start of the pass.  A failed
\* part leaves an incomplete list, which is published but withdraws nothing.
ListIssues(i) ==
    /\ poll[i].pc = "idle" /\ i \in may /\ setup.intake # "webhook"
    /\ \E found \in SUBSET Issue, r \in {"ok", "fail"} :
        /\ Reply(r)
        /\ \A n \in found : <<i, n>> \in eligible[rule]
        /\ r = "ok" => \A n \in Issue : <<i, n>> \in eligible[rule] => n \in found
        /\ LET p == [Idle EXCEPT !.pc = "listed", !.rule = rule, !.found = found]
           IN Loop(i, IF r = "ok" THEN p ELSE Publishing(found))
    /\ UNCHANGED <<forge, web, row, bus, work, last, noticed>>

MutWithdrawn(i, r) ==
    {k \in Key : /\ k[1] = i /\ row[k] \in Active
                 /\ k[2] \notin poll[i].found}

\* The work withdrawUnpolled declines: found under the same rule last time,
\* and not now.
Withdrawn(i, r) ==
    {k \in Key : /\ k[1] = i /\ row[k] \in Active
                 /\ last[i] # Unseen /\ last[i].rule = r
                 /\ k[2] \in last[i].eligible /\ k[2] \notin poll[i].found}

\* poll() reads the configuration again for the rule it records.
PassRule(i) == IF setup.intake = "root" THEN rule ELSE poll[i].rule

\* rememberPoll and the page of active tasks; the page may be unavailable.
WithdrawUnpolled(i) ==
    /\ poll[i].pc = "listed"
    /\ last' = [last EXCEPT ![i] = [rule |-> PassRule(i), eligible |-> poll[i].found]]
    /\ \E r \in {"ok", "fail"} :
        /\ Reply(r)
        /\ LET drop == IF r = "ok" THEN Withdrawn(i, PassRule(i)) ELSE {}
               gone == IF last[i] = Unseen \/ last[i].rule # PassRule(i) THEN {}
                       ELSE last[i].eligible \ poll[i].found
           IN /\ Loop(i, IF drop = {} THEN Publishing(poll[i].found)
                         ELSE [poll[i] EXCEPT !.pc = "withdrawing", !.drop = drop])
              /\ noticed' = IF r = "fail" THEN noticed
                            ELSE noticed \cup {k \in {i} \X gone : k \notin eligible[rule]}
    /\ UNCHANGED <<forge, web, row, bus, work>>

WithdrawTask(i, k) ==
    /\ poll[i].pc = "withdrawing" /\ k \in poll[i].drop
    /\ \E r \in {"ok", "fail"} :
        /\ Reply(r)
        /\ row' = IF r = "ok" THEN Withdraw(k) ELSE row
        /\ noticed' = IF r = "fail" THEN noticed \ {k} ELSE noticed
    /\ Loop(i, IF poll[i].drop = {k} THEN Publishing(poll[i].found)
               ELSE [poll[i] EXCEPT !.drop = @ \ {k}])
    /\ UNCHANGED <<forge, web, bus, work, last>>

Published(i) == Publishing(poll[i].todo \ poll[i].at)

\* pollNATS passes over an issue that has a row, any identity's, or whose
\* lookup failed.
Lookup(i, n) ==
    /\ poll[i].pc = "publishing" /\ n \in poll[i].todo /\ poll[i].at = {}
    /\ \E r \in {"ok", "fail"} :
        /\ Reply(r)
        /\ Loop(i, IF r = "fail" \/ RowsOf(n) # {} THEN Publishing(poll[i].todo \ {n})
                   ELSE [poll[i] EXCEPT !.at = {n}])
    /\ UNCHANGED <<forge, web, row, bus, work, last, noticed>>

Publish(i) ==
    /\ poll[i].at # {}
    /\ \E n \in poll[i].at, r \in {"ok"} \cup Faults : Reply(r) /\ PublishUnique(<<i, n>>, r)
    /\ Loop(i, Published(i))
    /\ UNCHANGED <<forge, web, row, work, last, noticed>>
-----------------------------------------------------------------------------
(***************************************************************************)
(* Discovery by webhook: serveIssueEvent.  Deliveries are unordered, may be*)
(* lost, and one answered with an error is not sent again.                 *)
(***************************************************************************)
ServeIssueEvent(e) ==
    /\ e \in hooks /\ hooks' = hooks \ {e}
    /\ \E r \in {"ok"} \cup Faults :
        /\ Reply(r)
        /\ IF e.on
           THEN PublishUnique(e.key, r) /\ UNCHANGED row
           ELSE row' = (IF r = "fail" THEN row ELSE Withdraw(e.key)) /\ UNCHANGED bus
        /\ accepted' = IF e.on /\ r = "ok" THEN accepted \cup {e.key} ELSE accepted
    /\ UNCHANGED <<forge, work, loops>>

LoseHook(e) ==
    /\ e \in hooks /\ hooks' = hooks \ {e} /\ Reply("fail")
    /\ UNCHANGED <<forge, accepted, row, bus, work, loops>>
-----------------------------------------------------------------------------
(***************************************************************************)
(* The drain loop and the handler of one message.                          *)
(***************************************************************************)

\* Fetch hands the message to the dispatcher, which admits it when it can.
Fetch(m) ==
    /\ Fetchable(m)
    /\ stream' = [stream EXCEPT ![m] = [key |-> @.key, n |-> @.n + 1, out |-> TRUE]]
    /\ work' = work \cup {[msg |-> m, n |-> stream[m].n + 1, pc |-> "submitted",
                           key |-> stream[m].key]}
    /\ UNCHANGED <<forge, web, row, window, loops, faults>>

\* identityMayAct: the root identity, which single-identity polling and the
\* webhook publish under, is never refused here.
MayAct(i) == setup.intake # "identities" \/ i \in may

Replace(w, v) == (work \ {w}) \cup {v}

MutEnqueue(w) ==
    /\ w \in work /\ w.pc = "submitted"
    /\ \E r \in {"ok"} \cup Faults :
        /\ Reply(r)
        /\ IF ~MayAct(w.key[1])
           THEN r = "ok" /\ UNCHANGED row /\ stream' = Ack(w.msg) /\ work' = work \ {w}
           ELSE /\ row' = IF r = "fail" THEN row ELSE EnqueueIssue(w.key)
                /\ stream' = Ack(w.msg)
                /\ work' = IF r = "ok" /\ row[w.key] = "none"
                           THEN Replace(w, [w EXCEPT !.pc = "inserted"]) ELSE work \ {w}
    /\ UNCHANGED <<forge, web, window, loops>>

\* processNATSTask up to the insert: refused identities and rows already there
\* are acknowledged, an error is returned for redelivery.
Enqueue(w) ==
    /\ w \in work /\ w.pc = "submitted"
    /\ \E r \in {"ok"} \cup Faults :
        /\ Reply(r)
        /\ IF ~MayAct(w.key[1])
           THEN r = "ok" /\ UNCHANGED row /\ stream' = Ack(w.msg) /\ work' = work \ {w}
           ELSE /\ row' = IF r = "fail" THEN row ELSE EnqueueIssue(w.key)
                /\ LET new == r = "ok" /\ row[w.key] = "none"
                   IN /\ work' = IF new THEN Replace(w, [w EXCEPT !.pc = "inserted"])
                                 ELSE work \ {w}
                      /\ stream' = IF r # "ok" THEN Nak(w.msg)
                                   ELSE IF new THEN stream ELSE Ack(w.msg)
    /\ UNCHANGED <<forge, web, window, loops>>

\* ClaimByIssue and what follows it: every queued row of the issue is claimed,
\* and the one the answer names is run.
Claim(w) ==
    /\ w \in work /\ w.pc = "inserted"
    /\ \E r \in {"ok"} \cup Faults :
        /\ Reply(r)
        /\ row' = IF r = "fail" THEN row ELSE Started(Claimed(w.key[2]))
        /\ \/ /\ r # "ok"
              /\ stream' = Nak(w.msg) /\ work' = work \ {w}
           \/ /\ r = "ok" /\ Claimed(w.key[2]) = {}
              /\ stream' = Ack(w.msg) /\ work' = work \ {w}
           \/ /\ r = "ok"
              /\ \E k \in Claimed(w.key[2]) : work' = Replace(w, [w EXCEPT !.pc = "processing", !.key = k])
              /\ UNCHANGED stream
    /\ UNCHANGED <<forge, web, window, loops>>

Executing(k) == {w \in work : w.pc = "processing" /\ w.key = k}

MutClaimNext ==
    /\ \A m \in Msg : stream[m] = NoMsg
    /\ \E k \in Key :
        /\ row[k] = "queued"
        /\ row' = Started({k})
        /\ work' = work \cup {[msg |-> NoMsg, n |-> Cardinality(Executing(k)),
                               pc |-> "processing", key |-> k]}
    /\ UNCHANGED <<forge, web, bus, loops, faults>>

\* The fallback once the stream is drained; an error only ends the pass.
ClaimNext ==
    /\ \A m \in Msg : ~Fetchable(m)
    /\ \E k \in Key, r \in {"ok"} \cup (Faults \ {"fail"}) :
        /\ row[k] = "queued"
        /\ Reply(r)
        /\ row' = Started({k})
        /\ work' = IF r # "ok" THEN work
                   ELSE work \cup {[msg |-> NoMsg, n |-> Cardinality(Executing(k)),
                                    pc |-> "processing", key |-> k]}
    /\ UNCHANGED <<forge, web, bus, loops>>

MutFinish(w) ==
    /\ w \in work /\ w.pc = "processing"
    /\ row' = [row EXCEPT ![w.key] = "settled"]
    /\ stream' = Ack(w.msg)
    /\ work' = work \ {w}
    /\ UNCHANGED <<forge, web, window, loops, faults>>

\* process() returns, having settled its row unless it was taken from it.
Finish(w) ==
    /\ w \in work /\ w.pc = "processing"
    /\ row' = IF row[w.key] = "running" THEN [row EXCEPT ![w.key] = "settled"] ELSE row
    /\ stream' = Ack(w.msg)
    /\ work' = work \ {w}
    /\ UNCHANGED <<forge, web, window, loops, faults>>

\* A crash forgets the loops and the runs; Startup requeues what was running.
Restart ==
    /\ faults < MaxFaults /\ faults' = faults + 1
    /\ work' = {} /\ poll' = [i \in Identity |-> Idle] /\ last' = [i \in Identity |-> Unseen]
    /\ row' = [k \in Key |-> IF row[k] = "running"
                             THEN "queued" ELSE row[k]]
    /\ UNCHANGED <<forge, web, bus, noticed>>
-----------------------------------------------------------------------------
Drain == \/ \E m \in Msg : Fetch(m)
         \/ ClaimNext
Handle == \E w \in work : Enqueue(w) \/ Claim(w) \/ Finish(w)
Poll(i) == \/ ListIssues(i) \/ WithdrawUnpolled(i)
           \/ Publish(i) \/ \E n \in Issue : Lookup(i, n)
           \/ \E k \in Key : WithdrawTask(i, k)
Serve == \E e \in hooks : ServeIssueEvent(e)

Next == \/ \E r \in Rule, k \in Key : Assign(r, k) \/ Withdrawal(r, k)
        \/ \E r \in Rule : Reload(r)
        \/ \E i \in Identity : SetLifecycle(i) \/ Poll(i)
        \/ \E k \in Key : ForgetKey(k)
        \/ \E m \in Msg : AckWaitElapsed(m)
        \/ Serve \/ (\E e \in hooks : LoseHook(e))
        \/ Drain \/ Handle \/ Restart

Spec == Init /\ [][Next]_vars

\* The loops tick, JetStream's timers fire, the dispatcher admits every run it
\* is given and every run ends.
Fairness ==
    /\ \A i \in Identity : WF_vars(Poll(i))
    /\ \A k \in Key : WF_vars(ForgetKey(k))
    /\ \A m \in Msg : WF_vars(AckWaitElapsed(m))
    /\ WF_vars(Serve) /\ WF_vars(Drain) /\ WF_vars(Handle)

FairSpec == Spec /\ Fairness
-----------------------------------------------------------------------------
\* A row is run by one run at a time, however often its message is delivered
\* and whichever of the handler and the fallback claims it; and a running row
\* is always some run's, so that it does not stay running until the next
\* restart (ClaimByIssue, ClaimNext, RecoverStale).
RunByOne ==
    \A k \in Key : /\ Cardinality(Executing(k)) <= 1
                   /\ row[k] = "running" => Executing(k) # {}

\* Only work the forge really withdrew is declined: not the work of an issue
\* an incomplete poll missed, one a changed rule no longer selects, or one the
\* first poll after a restart does not know (withdrawUnpolled).
DeclinedWasWithdrawn ==
    \A k \in Key : row[k] = "declined" => k \in withdrawn

\* An issue whose webhook was accepted is a task, or will be: its message is
\* in the stream to be delivered again, or a run has it (ServeIssueEvent,
\* processNATSTask's Ack and Nak).  Fewer failures than deliveries allowed,
\* and runs admitted within AckWait, are assumed.
AcceptedIsKept ==
    ~setup.slow => \A k \in accepted :
        \/ row[k] # "none"
        \/ \E m \in Msg : stream[m] # NoMsg /\ stream[m].key = k
                          /\ (stream[m].out \/ stream[m].n < MaxDeliver)

\* Work declined stays declined: neither a redelivery, a crash recovery nor
\* the end of the run that was cancelled brings it back.
DeclinedIsFinal ==
    [][\A k \in Key : row[k] = "declined" => row'[k] = "declined"]_vars

\* Once a poll has noticed that an issue was withdrawn, and nothing failed,
\* its work is neither queued nor running.
NoticedIsDeclined ==
    \A k \in noticed : row[k] \in Active => k \in poll[k[1]].drop

\* An issue that stays selected, for an identity that stays active, becomes a
\* task where issues are polled, whatever was lost on the way.
EligibleIsTaken ==
    \A k \in Key : <>[](/\ setup.intake # "webhook"
                        /\ k \in eligible[rule] /\ k[1] \in may) => <>(RowsOf(k[2]) # {})

\* A queued task is run or withdrawn: what no message announces, the fallback
\* of the drain loop claims.
QueuedIsRun ==
    \A k \in Key : row[k] = "queued" ~> row[k] \in {"settled", "declined"}
=============================================================================
