--------------------------- MODULE WorkflowCalls ---------------------------
(***************************************************************************)
(* workflow.call: an execution starts another workflow as an execution of  *)
(* its own and, where the step says wait, polls it until it has ended.     *)
(* The call's key makes a retry of the call site find the child it already *)
(* started; the open call step of the current attempt is what a cancel of  *)
(* the caller follows to the callees it waits on.                          *)
(*                                                                         *)
(* The dispatcher runs one attempt of an execution at a time and starts    *)
(* what is queued; a run's stages other than its calls are one step.       *)
(***************************************************************************)
EXTENDS TaskState, Naturals, Sequences, FiniteSets

CONSTANTS Plans,         \* the trees of workflows looked at
          MaxCallDepth,
          MaxExecs, MaxRetries, MaxActs, MaxCallFaults

\* The workflows of a tree of calls, by depth: the call sites of each, with
\* whether it waits, and how its run may end.
Plan == [sites : [0 .. MaxCallDepth -> Seq(BOOLEAN)],
         ends : [0 .. MaxCallDepth -> SUBSET {"completed", "pr_open", "waiting_human", "parked"}]]

ASSUME CallsAssumption ==
    /\ Plans \subseteq Plan
    /\ MaxCallDepth \in Nat /\ MaxExecs \in Nat \ {0} /\ MaxRetries \in Nat
    /\ MaxActs \in Nat /\ MaxCallFaults \in Nat

VARIABLES plan,       \* the tree, fixed
          exec,       \* the rows of the executions, in the order they were started
          callStep,   \* the callee of the open call step of each current attempt, 0 for none
          engine,     \* the run of each execution
          cancel,     \* an operator's cancel
          owed,       \* the callees a cancel found waited on and has not cancelled
          succeeded,  \* the executions that have ended in success
          acts, callFaults

callsVars == <<plan, exec, callStep, engine, cancel, owed, succeeded, acts, callFaults>>

Exec == 1 .. MaxExecs
Rows == DOMAIN exec
Asleep == [pc |-> "none"]
NoCancel == [todo |-> <<>>, to |-> "none", root |-> 0, failed |-> FALSE]

Row(parent, key, depth) ==
    [status |-> "queued", parent |-> parent, key |-> key, depth |-> depth, retries |-> 0]

CallsInit ==
    /\ plan \in Plans
    /\ exec = <<Row(0, 0, 0)>>
    /\ callStep = [t \in Exec |-> 0]
    /\ engine = [t \in Exec |-> Asleep]
    /\ cancel = NoCancel
    /\ owed = {} /\ succeeded = {} /\ acts = 0 /\ callFaults = 0

\* A call to the store fails, before it has taken effect or after it.
CallFails == callFaults < MaxCallFaults /\ callFaults' = callFaults + 1

\* An operator acts, a bounded number of times.
OperatorActs == acts < MaxActs /\ acts' = acts + 1

Sites(t) == plan.sites[exec[t].depth]
Goto(t, pc) == [engine EXCEPT ![t].pc = pc]

\* A stage that fails parks, unless its context was cancelled meanwhile.
StageFails(t) == IF engine[t].cut THEN [engine EXCEPT ![t] = Asleep] ELSE Goto(t, "park")
-----------------------------------------------------------------------------
(***************************************************************************)
(* The run of an execution.                                                *)
(***************************************************************************)

\* The next call site of the run, or its end.
Passed(t) ==
    IF engine[t].site < Len(Sites(t))
    THEN [Goto(t, "start") EXCEPT ![t].site = @ + 1]
    ELSE Goto(t, "finish")

\* The steps an earlier attempt left open are not the new attempt's.
ClaimExec(t) ==
    /\ exec[t].status = "queued" /\ engine[t] = Asleep
    /\ exec' = [exec EXCEPT ![t].status = "running"]
    /\ callStep' = [callStep EXCEPT ![t] = 0]
    /\ engine' = [engine EXCEPT ![t] = [pc |-> IF Sites(t) = <<>> THEN "finish" ELSE "start", site |-> 1,
                                       callee |-> 0, ok |-> FALSE, cut |-> FALSE]]
    /\ UNCHANGED <<plan, cancel, owed, succeeded, acts, callFaults>>

MutKeyed(t, key) ==
    {c \in Rows : exec[c].parent = t /\ exec[c].key = key
                  /\ exec[c].status \notin {"dead", "closed_wont_do", "parked", "archived"}}
\* The child that holds the key: one that ended dead or declined freed it.
Keyed(t, key) ==
    {c \in Rows : exec[c].parent = t /\ exec[c].key = key
                  /\ exec[c].status \notin {"dead", "closed_wont_do", "archived"}}

\* EnqueueCallTask: the keyed child, or a new one, of a caller that is running
\* and within the depth.
MayCall(t) == exec[t].status = "running" /\ exec[t].depth + 1 <= MaxCallDepth
CalleeOf(t, key) == IF Keyed(t, key) = {} THEN Len(exec) + 1 ELSE CHOOSE c \in Keyed(t, key) : TRUE
Called(t, key) ==
    \/ Keyed(t, key) # {} /\ exec' = exec
    \/ Keyed(t, key) = {} /\ Len(exec) < MaxExecs /\ exec' = Append(exec, Row(t, key, exec[t].depth + 1))

StartCall(t) ==
    /\ engine[t].pc = "start"
    /\ \/ /\ MayCall(t)
          /\ Called(t, engine[t].site)
          /\ engine' = [Goto(t, "record") EXCEPT ![t].callee = CalleeOf(t, engine[t].site)]
          /\ UNCHANGED callFaults
       \/ /\ ~MayCall(t)
          /\ exec' = exec /\ engine' = StageFails(t)
          /\ UNCHANGED callFaults
       \/ /\ CallFails
          /\ \/ exec' = exec
             \/ MayCall(t) /\ Called(t, engine[t].site)
          /\ engine' = StageFails(t)
    /\ UNCHANGED <<plan, callStep, cancel, owed, succeeded, acts>>

\* StartStep of the call: only a running execution records one.
StartCallStep(t) ==
    /\ engine[t].pc = "record"
    /\ \/ /\ exec[t].status = "running"
          /\ callStep' = [callStep EXCEPT ![t] = engine[t].callee]
          /\ engine' = Goto(t, IF Sites(t)[engine[t].site] THEN "await" ELSE "unwaited")
          /\ UNCHANGED callFaults
       \/ /\ exec[t].status # "running"
          /\ engine' = StageFails(t)
          /\ UNCHANGED <<callStep, callFaults>>
       \/ /\ CallFails
          /\ callStep' \in {callStep, IF exec[t].status = "running"
                                     THEN [callStep EXCEPT ![t] = engine[t].callee] ELSE callStep}
          /\ engine' = StageFails(t)
    /\ UNCHANGED <<plan, exec, cancel, owed, succeeded, acts>>

callSucceeded == {"completed", "pr_open", "merged"}
MutCallEnded == callSucceeded \cup {"dead", "rejected", "closed_wont_do"}
callEnded == callSucceeded \cup {"parked", "dead", "rejected", "closed_wont_do"}

MutVerdict(status) == status \in callSucceeded \cup {"closed_wont_do"}
Verdict(status) == status \in callSucceeded

\* A read of the callee's status.  A failure that will pass is retried, which
\* changes nothing; another, or a row that is gone, fails the call.
CallStatus(t) ==
    LET status == exec[engine[t].callee].status IN
    /\ engine[t].pc = "await"
    /\ \/ ~engine[t].cut /\ status \in callEnded /\ UNCHANGED callFaults
          /\ engine' = [Goto(t, "close") EXCEPT ![t].ok = Verdict(status)]
       \/ ~engine[t].cut /\ status = "archived" /\ engine' = Goto(t, "close") /\ UNCHANGED callFaults
       \/ ~engine[t].cut /\ CallFails /\ engine' = Goto(t, "close")
       \/ engine[t].cut /\ engine' = StageFails(t) /\ UNCHANGED callFaults
    /\ UNCHANGED <<plan, exec, callStep, cancel, owed, succeeded, acts>>

\* FinishStep closes a step that is still open.
Closed(t) ==
    IF callStep[t] = engine[t].callee THEN [callStep EXCEPT ![t] = 0] ELSE callStep

\* The call step is closed with the callee's outcome.
FinishCallStep(t) ==
    /\ engine[t].pc = "close"
    /\ \/ /\ callStep' = Closed(t)
          /\ engine' = IF engine[t].ok /\ callStep[t] = engine[t].callee
                       THEN [Passed(t) EXCEPT ![t].ok = FALSE] ELSE StageFails(t)
          /\ UNCHANGED callFaults
       \/ /\ CallFails
          /\ callStep' \in {callStep, Closed(t)}
          /\ engine' = StageFails(t)
    /\ UNCHANGED <<plan, exec, cancel, owed, succeeded, acts>>

\* A call that does not wait closes its step at once; the callee runs on.
CloseUnwaitedCall(t) ==
    /\ engine[t].pc = "unwaited"
    /\ \/ /\ callStep' = Closed(t)
          /\ engine' = IF callStep[t] = engine[t].callee THEN Passed(t) ELSE StageFails(t)
          /\ UNCHANGED callFaults
       \/ /\ CallFails
          /\ callStep' \in {callStep, Closed(t)}
          /\ engine' = StageFails(t)
    /\ UNCHANGED <<plan, exec, cancel, owed, succeeded, acts>>

\* The guarded transition that ends a run, refused when the row has moved on.
Settle(t, to) ==
    /\ exec' = [exec EXCEPT ![t].status = IF @ = "running" THEN to ELSE @]
    /\ engine' = [engine EXCEPT ![t] = Asleep]
    /\ succeeded' = IF exec'[t].status \in callSucceeded THEN succeeded \cup {t} ELSE succeeded
    /\ UNCHANGED <<plan, callStep, cancel, owed, acts, callFaults>>

ParkExec(t) == engine[t].pc = "park" /\ Settle(t, "parked")
FinishExec(t) == engine[t].pc = "finish" /\ \E to \in plan.ends[exec[t].depth] : Settle(t, to)

RunExec(t) ==
    \/ ClaimExec(t) \/ StartCall(t) \/ StartCallStep(t) \/ CallStatus(t)
    \/ FinishCallStep(t) \/ CloseUnwaitedCall(t) \/ ParkExec(t) \/ FinishExec(t)
-----------------------------------------------------------------------------
(***************************************************************************)
(* Operators, and the daemon's restart.                                    *)
(***************************************************************************)

\* An action that cancels: stop parks, the others decline.
RequestCancel(t, action) ==
    /\ OperatorActs
    /\ cancel = NoCancel
    /\ action \in Actions(exec[t].status) \cap {"stop", "cancel", "reject", "abandon"}
    /\ cancel' = [todo |-> <<t>>, to |-> ActionTarget(action), root |-> t, failed |-> FALSE]
    /\ UNCHANGED <<plan, exec, callStep, engine, owed, succeeded, callFaults>>

MutWaitingCallSteps(t) == <<>>
\* The open call steps, read before the cancel closes them.
WaitingCallSteps(t) == IF callStep[t] = 0 THEN <<>> ELSE <<callStep[t]>>

\* One CancelExecution of the cascade: the row and its open steps in one
\* transaction, then the callees it waited on, each in its own.  What cannot be
\* cancelled is reported; the cancels before it stand.
CancelExecution ==
    /\ cancel.todo # <<>>
    /\ LET t == Head(cancel.todo) IN
       \/ /\ CanTransition(exec[t].status, cancel.to)
          /\ exec' = [exec EXCEPT ![t].status = cancel.to]
          /\ callStep' = [callStep EXCEPT ![t] = 0]
          /\ cancel' = [cancel EXCEPT !.todo = WaitingCallSteps(t) \o Tail(@)]
          /\ owed' = (owed \ {t}) \cup (IF callStep[t] = 0 THEN {} ELSE {callStep[t]})
          /\ UNCHANGED callFaults
       \/ /\ ~CanTransition(exec[t].status, cancel.to)
          /\ cancel' = [cancel EXCEPT !.todo = Tail(@), !.failed = TRUE]
          /\ UNCHANGED <<exec, callStep, owed, callFaults>>
       \/ /\ CallFails
          /\ cancel' = [cancel EXCEPT !.todo = Tail(@), !.failed = TRUE]
          /\ UNCHANGED <<exec, callStep, owed>>
    /\ UNCHANGED <<plan, engine, succeeded, acts>>

\* The cancel has returned: without an error, the run of the execution the
\* operator named is told.
DeliverCancel ==
    /\ cancel.todo = <<>> /\ cancel.root # 0
    /\ engine' = IF ~cancel.failed /\ engine[cancel.root] # Asleep
                 THEN [engine EXCEPT ![cancel.root].cut = TRUE] ELSE engine
    /\ cancel' = NoCancel
    /\ owed' = {}
    /\ UNCHANGED <<plan, exec, callStep, succeeded, acts, callFaults>>

RetriesSpent(t) == exec[t].retries >= MaxRetries

\* A retry, which past the cap ends the execution for good, and an approval.
Requeue(t) ==
    /\ OperatorActs
    /\ \/ /\ "retry" \in Actions(exec[t].status)
          /\ exec' = [exec EXCEPT ![t].status = IF RetriesSpent(t) THEN "dead" ELSE "queued",
                                  ![t].retries = IF RetriesSpent(t) THEN @ ELSE @ + 1]
       \/ /\ "approve" \in Actions(exec[t].status)
          /\ exec' = [exec EXCEPT ![t].status = "queued"]
    /\ UNCHANGED <<plan, callStep, engine, cancel, owed, succeeded, callFaults>>

\* The pull request is merged or closed, or an ended execution is archived.
EndExec(t) ==
    /\ OperatorActs
    /\ \/ exec[t].status = "pr_open" /\ \E to \in {"merged", "rejected"} : exec' = [exec EXCEPT ![t].status = to]
       \/ "archive" \in Actions(exec[t].status) /\ exec' = [exec EXCEPT ![t].status = "archived"]
    /\ UNCHANGED <<plan, callStep, engine, cancel, owed, succeeded, callFaults>>

\* The daemon restarts: its runs and a cancel under way are gone, and
\* RecoverStale requeues what was running, its open steps interrupted.
RestartCalls ==
    /\ CallFails
    /\ engine' = [t \in Exec |-> Asleep]
    /\ exec' = [t \in Rows |-> [exec[t] EXCEPT !.status = IF @ = "running" THEN "queued" ELSE @]]
    /\ callStep' = [t \in Exec |-> IF t \in Rows /\ exec[t].status = "running" THEN 0 ELSE callStep[t]]
    /\ cancel' = NoCancel /\ owed' = {}
    /\ UNCHANGED <<plan, succeeded, acts>>

CallsNext ==
    \/ \E t \in Rows : RunExec(t) \/ Requeue(t) \/ EndExec(t)
    \/ \E t \in Rows, a \in {"stop", "cancel", "reject", "abandon"} : RequestCancel(t, a)
    \/ CancelExecution \/ DeliverCancel \/ RestartCalls

CallsSpec == CallsInit /\ [][CallsNext]_callsVars
-----------------------------------------------------------------------------
(***************************************************************************)
(* Properties                                                              *)
(***************************************************************************)

CallsTypeOK ==
    /\ Len(exec) \in 1 .. MaxExecs
    /\ \A t \in Rows : exec[t] \in [status : Status \cup Absent, parent : 0 .. MaxExecs, key : Nat,
                                    depth : 0 .. MaxCallDepth, retries : 0 .. MaxRetries]
    /\ callStep \in [Exec -> 0 .. Len(exec)]
    /\ owed \subseteq Rows /\ succeeded \subseteq Rows

Freed == {"dead", "closed_wont_do", "archived"}

\* A retry of a call site returns the child already started: no call site ever
\* has two children that can still do its work, whatever was retried, cancelled
\* or requeued in between.
OneLiveChild ==
    \A c, d \in Rows :
        c # d /\ exec[c].parent = exec[d].parent /\ exec[c].key = exec[d].key =>
            exec[c].status \in Freed \/ exec[d].status \in Freed

\* An execution that completed got past its waited calls because each of them
\* had a child that succeeded.
CompletedCallsSucceeded ==
    \A t \in Rows : exec[t].status = "completed" =>
        \A k \in DOMAIN Sites(t) : Sites(t)[k] =>
            \E c \in succeeded : exec[c].parent = t /\ exec[c].key = k

\* A cancel that returns without an error has cancelled every callee that a
\* cancelled execution was waiting on, and so on down.
CancelReaches == cancel.todo = <<>> /\ ~cancel.failed => owed = {}

\* No caller waits forever on a callee that has ended or that nothing but an
\* operator will move: the runs keep coming to where none does.
WaitEnds ==
    []<>(\A t \in Rows :
            engine[t].pc = "await" => exec[engine[t].callee].status \notin Terminal \cup {"parked", "pr_open"})
=============================================================================
