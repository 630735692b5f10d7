----------------------------- MODULE TaskRuns -----------------------------
(***************************************************************************)
(* The life of a task: its row and its steps in the State Store, the       *)
(* daemon's process() for each claimed attempt, the agent that runs the    *)
(* workflow in a container and writes back through the store, operators,   *)
(* and daemon crashes.                                                     *)
(*                                                                         *)
(* Every store call is one transaction under the row's lock, so one step.  *)
(* What is not atomic is everything around it: a run works on the copy of  *)
(* the row it claimed, an operator on the row read before acting, and an   *)
(* agent keeps writing until its container is released.  A run is named by *)
(* its task and attempt, since every claim starts a new attempt.           *)
(***************************************************************************)
EXTENDS Naturals, FiniteSets, TaskState

CONSTANTS Task, MaxAttempt,
          NStages,          \* stages of every workflow
          Workflow, Remediate, NoResume,
          MaxRetries,       \* the retry cap; 0 is no cap
          Operator,
          Action,           \* the operator actions an instance explores
          ResumeAt,         \* the stages a retry of theirs may resume at
          StageResult,      \* the ways a stage body ends that it explores
          AgentCalls,       \* do stages record agent calls below them
          AllowConcurrent,  \* the repository's allow_concurrent
          Faults,           \* may a store call or an orphan's removal fail
          Stops,            \* may a container be stopped from outside
          MaxCrashes

ASSUME TaskRunsAssumption ==
    /\ MaxAttempt \in Nat \ {0} /\ NStages \in Nat \ {0}
    /\ MaxRetries \in Nat /\ MaxCrashes \in Nat
    /\ Remediate \in Workflow
    /\ AgentCalls \in BOOLEAN
    /\ AllowConcurrent \in BOOLEAN /\ Faults \in BOOLEAN /\ Stops \in BOOLEAN

VARIABLES row,      \* the tasks table
          step,     \* the step_executions table
          run,      \* the daemon's process() of each attempt
          agent,    \* the agent of each attempt
          running,  \* the daemon's runningTasks: the attempt listed, 0 for none
          op,       \* operators between reading a task and acting on it
          up, crashes

vars == <<row, step, run, agent, running, op, up, crashes>>

Attempt == 1 .. MaxAttempt
Stage == 1 .. NStages
ResumePoint == (Workflow \X Stage) \cup {NoResume}

\* What a run copies when it claims the row.  Update writes all of it back
\* but the resume point; outputs is the attempt that wrote them.
Fields == [wf : Workflow, retries : Nat,
           outputs : 0 .. MaxAttempt, pr : BOOLEAN, resume : ResumePoint]

\* A step is the stage's own or the agent call below it.  "failed_past" is a
\* failed step whose run moved on (continue_on_failure) and kept its results.
StepId == Task \X Attempt \X Stage \X {"stage", "agent"}
StepValue == StepStatus \cup {"none", "failed_past"}
StepDone == StepTerminal \cup {"failed_past"}

Outcome == {"waiting_human", "pr_open", "completed", "queued", "closed_wont_do"}

\* How a stage body may end: what its step records, and what the run does next.
Result == ({"succeeded"} \X (Outcome \cup {"next", "parked"}))
            \cup {<<"failed", "parked">>, <<"failed_past", "next">>, <<"skipped", "next">>}
NoResult == <<"succeeded", "next">>

ASSUME StageResultAssumption == StageResult \subseteq Result /\ ResumeAt \subseteq Stage

AgentAt(pc, stage, result) == [pc |-> pc, stage |-> stage, result |-> result]
NoAgent == AgentAt("none", 1, NoResult)
DeadAgent == AgentAt("dead", 1, NoResult)
AgentPc == {"none", "compile", "update", "start", "body", "child", "record",
            "finish", "transition", "parkUpdate", "park", "replied", "refused", "dead"}
Working == AgentPc \ {"none", "dead", "replied", "refused"}

RunPc == {"none", "submitted", "setup", "launch", "waiting", "ending", "done"}
Executing == {"setup", "launch", "waiting", "ending"}

Verb == {"cancel", "reject", "stop", "approve", "rereview", "retry", "abandon",
         "merge", "archive", "withdraw"}
NoOp == [pc |-> "idle"]

TypeOK ==
    /\ row \in [Task -> [status : Status \cup Absent, attempt : 0 .. MaxAttempt, task : Fields]]
    /\ step \in [StepId -> StepValue]
    /\ run \in [Task -> [Attempt -> [pc : RunPc, cancelled : BOOLEAN, ran : Workflow, task : Fields]]]
    /\ agent \in [Task -> [Attempt -> [pc : AgentPc, stage : Stage, result : Result]]]
    /\ running \in [Task -> 0 .. MaxAttempt]
    /\ op \in [Operator -> {NoOp} \cup [pc : {"act", "deliver"}, task : Task, action : Verb,
                                        seen : Status, retries : Nat,
                                        resume : ResumePoint]]
    /\ up \in {"up", "down", "recovering"}
    /\ crashes \in 0 .. MaxCrashes

Blank(w) == [wf |-> w, retries |-> 0, outputs |-> 0, pr |-> FALSE, resume |-> NoResume]

Init ==
    \E w \in Workflow :
        /\ row = [t \in Task |-> [status |-> "none", attempt |-> 0, task |-> Blank(w)]]
        /\ step = [s \in StepId |-> "none"]
        /\ run = [t \in Task |-> [a \in Attempt |->
                    [pc |-> "none", cancelled |-> FALSE, ran |-> w, task |-> Blank(w)]]]
        /\ agent = [t \in Task |-> [a \in Attempt |-> NoAgent]]
        /\ running = [t \in Task |-> 0]
        /\ op = [o \in Operator |-> NoOp]
        /\ up = "up"
        /\ crashes = 0
-----------------------------------------------------------------------------
(***************************************************************************)
(* Store transactions: what each leaves in the row and the steps.          *)
(***************************************************************************)

\* A call answers, fails before its commit, or commits and loses its answer.
Reply == IF Faults THEN {"ok", "fail", "lost"} ELSE {"ok"}

guardTransition(t, from, to) ==
    /\ row[t].status = from
    /\ CanTransition(from, to)

Moved(t, to) == [row EXCEPT ![t].status = to]

Transition(t, from, to, reply) ==
    IF reply # "fail" /\ guardTransition(t, from, to) THEN Moved(t, to) ELSE row

\* The daemon's park: guarded on running, and nothing else.
MutParkRunningTask(t, reply) == row
parkRunningTask(t, reply) == Transition(t, "running", "parked", reply)

\* Update has no guard beyond the row's id.
Update(t, fields, reply) ==
    IF reply # "fail" /\ row[t].status \notin Absent
    THEN [row EXCEPT ![t].task = [fields EXCEPT !.resume = row[t].task.resume]]
    ELSE row

ParentOf(s) == <<s[1], s[2], s[3], "stage">>
UnderTerminal(s) == s[4] = "agent" /\ step[ParentOf(s)] \in StepDone

MutStartAllowed(s) == CheckStepStart(row[s[1]].status, UnderTerminal(s))

\* The attempt must be the row's, the execution running, the parent open.
StartAllowed(s) ==
    /\ row[s[1]].attempt = s[2]
    /\ CheckStepStart(row[s[1]].status, UnderTerminal(s))

StartStep(s, reply) ==
    IF reply # "fail" /\ StartAllowed(s) THEN [step EXCEPT ![s] = "running"] ELSE step

FinishAllowed(s) == step[s] = "running" /\ row[s[1]].status \notin Absent

FinishStep(s, to, reply) ==
    IF reply # "fail" /\ FinishAllowed(s) THEN [step EXCEPT ![s] = to] ELSE step

MutSwept(tasks, open, to) == step

\* The open steps of the row's current attempt, as a sweep leaves them.
Swept(tasks, open, to) ==
    [s \in StepId |-> IF s[1] \in tasks /\ s[2] = row[s[1]].attempt /\ step[s] \in open
                      THEN to ELSE step[s]]

\* The most recent finished run of stage i of w kept its results.
Finished(t, w, i) == {a \in Attempt : /\ run[t][a].ran = w
                                      /\ step[<<t, a, i, "stage">>] \in {"succeeded", "failed", "failed_past"}}
MutResumeResults(t, resume) ==
    resume = NoResume \/ resume[2] = 1 \/ Finished(t, resume[1], resume[2] - 1) # {}

resumeResults(t, resume) ==
    \/ resume = NoResume
    \/ resume[2] = 1
    \/ \E a \in Finished(t, resume[1], resume[2] - 1) :
          /\ \A b \in Finished(t, resume[1], resume[2] - 1) : b <= a
          /\ step[<<t, a, resume[2] - 1, "stage">>] # "failed"
-----------------------------------------------------------------------------
(***************************************************************************)
(* The daemon: claims, and process() for each attempt.                     *)
(***************************************************************************)

Enqueue(t) ==
    /\ row[t].status = "none"
    /\ row' = Moved(t, "queued")
    /\ UNCHANGED <<step, run, agent, running, op, up, crashes>>

\* ClaimNext, then Submit: the claim is committed before the run may start.
ClaimNext(t) ==
    /\ up = "up"
    /\ row[t].status = "queued"
    /\ row[t].attempt < MaxAttempt
    /\ LET a == row[t].attempt + 1
           claimed == [status |-> "running", attempt |-> a,
                       task |-> [row[t].task EXCEPT !.outputs = 0]]
       IN  /\ row' = [row EXCEPT ![t] = claimed]
           /\ run' = [run EXCEPT ![t][a] = [pc |-> "submitted", cancelled |-> FALSE,
                                            ran |-> claimed.task.wf, task |-> claimed.task]]
    /\ UNCHANGED <<step, agent, running, op, up, crashes>>

MutMayStart(t, a) == run[t][a].pc = "submitted"
MutMayStartFirst(t, a) ==
    /\ run[t][a].pc = "submitted"
    /\ \A b \in Attempt : b < a => run[t][b].pc = "none"

\* The repository's baton: without allow_concurrent an attempt starts once
\* the earlier ones have returned.
MayStart(t, a) ==
    /\ run[t][a].pc = "submitted"
    /\ AllowConcurrent \/ \A b \in Attempt : b < a => run[t][b].pc \in {"none", "done"}

Goto(t, a, pc) == [run EXCEPT ![t][a].pc = pc]

\* A run that returned keeps nothing but the workflow it ran.
Returned(r) == [pc |-> "done", cancelled |-> FALSE, ran |-> r.ran, task |-> Blank(r.ran)]

\* adoptWorkflowIdentity refuses: parked before the run is registered.
RefuseIdentity(t, a) ==
    /\ MayStart(t, a)
    /\ \E reply \in Reply : row' = parkRunningTask(t, reply)
    /\ run' = [run EXCEPT ![t][a] = Returned(@)]
    /\ UNCHANGED <<step, agent, running, op, up, crashes>>

begin(t, a) ==
    /\ MayStart(t, a)
    /\ run' = Goto(t, a, "setup")
    /\ running' = [running EXCEPT ![t] = a]
    /\ UNCHANGED <<row, step, agent, op, up, crashes>>

\* prepareWorkspace persists the copy; a failed write is only logged, and a
\* cancelled context fails it.
prepareWorkspace(t, a) ==
    /\ run[t][a].pc = "setup"
    /\ \E reply \in (IF run[t][a].cancelled THEN {"fail"} ELSE Reply) :
          row' = Update(t, run[t][a].task, reply)
    /\ run' = Goto(t, a, "launch")
    /\ UNCHANGED <<step, agent, running, op, up, crashes>>

\* Every other way setup ends parks the row and unwinds.
SetupFails(t, a) ==
    /\ run[t][a].pc \in {"setup", "launch"}
    /\ \E reply \in Reply : row' = parkRunningTask(t, reply)
    /\ run' = Goto(t, a, "ending")
    /\ UNCHANGED <<step, agent, running, op, up, crashes>>

acquireTaskContainer(t, a) ==
    /\ run[t][a].pc = "launch"
    /\ ~run[t][a].cancelled
    /\ run' = Goto(t, a, "waiting")
    /\ agent' = [agent EXCEPT ![t][a] = AgentAt("compile", 1, NoResult)]
    /\ UNCHANGED <<row, step, running, op, up, crashes>>

\* The request ends without an answer: cancelled, past its time limit, its
\* container exited, or the broker failed it.
RequestFails(t, a) ==
    /\ run[t][a].pc = "waiting"
    /\ \E reply \in Reply : row' = parkRunningTask(t, reply)
    /\ run' = Goto(t, a, "ending")
    /\ UNCHANGED <<step, agent, running, op, up, crashes>>

\* An answer: with an error the daemon parks, without one it leaves the row.
runViaAgent(t, a) ==
    /\ run[t][a].pc = "waiting"
    /\ \/ /\ agent[t][a].pc = "replied"
          /\ row' = row
       \/ /\ agent[t][a].pc = "refused"
          /\ \E reply \in Reply : row' = parkRunningTask(t, reply)
    /\ run' = Goto(t, a, "ending")
    /\ UNCHANGED <<step, agent, running, op, up, crashes>>

\* The retire function of begin deletes the task's entry, whoever's it is.
Retired(t, a) == [running EXCEPT ![t] = 0]

\* The deferred unwind: the credential is revoked, the container released,
\* the entry retired.
finished(t, a) ==
    /\ run[t][a].pc = "ending"
    /\ run' = [run EXCEPT ![t][a] = Returned(@)]
    /\ agent' = [agent EXCEPT ![t][a] = DeadAgent]
    /\ running' = Retired(t, a)
    /\ UNCHANGED <<row, step, op, up, crashes>>

Process(t, a) ==
    \/ RefuseIdentity(t, a) \/ begin(t, a) \/ prepareWorkspace(t, a) \/ SetupFails(t, a)
    \/ acquireTaskContainer(t, a) \/ RequestFails(t, a) \/ runViaAgent(t, a) \/ finished(t, a)
-----------------------------------------------------------------------------
(***************************************************************************)
(* The agent: workflow.Run in the task's container.                        *)
(***************************************************************************)

AgentGoto(t, a, pc) == [agent EXCEPT ![t][a].pc = pc]
StageStep(t, a) == <<t, a, agent[t][a].stage, "stage">>
ChildStep(t, a) == <<t, a, agent[t][a].stage, "agent">>

\* CompilePinnedWorkflow, then resumeStages: an error of the first answers the
\* request, an unknown resume point parks.
resumeStages(t, a) ==
    LET resume == run[t][a].task.resume IN
    /\ agent[t][a].pc = "compile"
    /\ agent' = [agent EXCEPT ![t][a] =
           IF resume = NoResume THEN AgentAt("update", 1, NoResult)
           ELSE IF resume[1] = run[t][a].task.wf THEN AgentAt("update", resume[2], NoResult)
           ELSE AgentAt("parkUpdate", 1, NoResult)]
    /\ UNCHANGED <<row, step, run, running, op, up, crashes>>

CompileFails(t, a) ==
    /\ agent[t][a].pc = "compile"
    /\ agent' = AgentGoto(t, a, "refused")
    /\ UNCHANGED <<row, step, run, running, op, up, crashes>>

PersistStage(t, a) ==
    /\ agent[t][a].pc = "update"
    /\ \E reply \in Reply :
          /\ row' = Update(t, run[t][a].task, reply)
          /\ agent' = AgentGoto(t, a, IF reply = "ok" THEN "start" ELSE "parkUpdate")
    /\ UNCHANGED <<step, run, running, op, up, crashes>>

StartStage(t, a) ==
    /\ agent[t][a].pc = "start"
    /\ \E reply \in Reply :
          /\ step' = StartStep(StageStep(t, a), reply)
          /\ agent' = AgentGoto(t, a, IF reply = "ok" /\ StartAllowed(StageStep(t, a))
                                      THEN "body" ELSE "parkUpdate")
    /\ UNCHANGED <<row, run, running, op, up, crashes>>

\* A stage body that fails, with or without continue_on_failure.
Failure == {<<"failed", "parked">>} \cup ({<<"failed_past", "next">>} \cap StageResult)
BodyEnds(t, a, result) == [agent EXCEPT ![t][a] = AgentAt("record", @.stage, result)]

\* RunAgentChild: a child that cannot be recorded fails the body.
startChildStep(t, a) ==
    /\ AgentCalls
    /\ agent[t][a].pc = "body"
    /\ step[ChildStep(t, a)] = "none"
    /\ \E reply \in Reply :
          /\ step' = StartStep(ChildStep(t, a), reply)
          /\ IF reply = "ok" /\ StartAllowed(ChildStep(t, a))
             THEN agent' = AgentGoto(t, a, "child")
             ELSE \E result \in Failure : agent' = BodyEnds(t, a, result)
    /\ UNCHANGED <<row, run, running, op, up, crashes>>

finishChildStep(t, a) ==
    /\ agent[t][a].pc = "child"
    /\ \E reply \in Reply, to \in {"succeeded", "failed"} :
          /\ step' = FinishStep(ChildStep(t, a), to, reply)
          /\ IF reply = "ok" /\ FinishAllowed(ChildStep(t, a))
             THEN agent' = AgentGoto(t, a, "body")
             ELSE \E result \in Failure : agent' = BodyEnds(t, a, result)
    /\ UNCHANGED <<row, run, running, op, up, crashes>>

\* What the stage leaves in the run's copy of the task: its outputs, the pull
\* request it opened, the workflow the task is handed to.
EndBody(t, a) ==
    /\ agent[t][a].pc = "body"
    /\ \E result \in StageResult, w \in Workflow :
          /\ result[2] \in {"queued", "waiting_human"} \/ w = run[t][a].task.wf
          /\ agent' = BodyEnds(t, a, result)
          /\ run' = [run EXCEPT ![t][a].task =
                       [wf |-> w, retries |-> @.retries, resume |-> @.resume,
                        outputs |-> IF result[1] = "succeeded" THEN a ELSE @.outputs,
                        pr |-> @.pr \/ result[2] = "pr_open"]]
    /\ UNCHANGED <<row, step, running, op, up, crashes>>

\* What follows a recorded stage: its outcome, the next stage, or, running out
\* of stages, success.
AfterStage(t, a, next) ==
    IF next # "next" THEN AgentAt("finish", 1, <<"succeeded", next>>)
    ELSE IF agent[t][a].stage < NStages THEN AgentAt("update", agent[t][a].stage + 1, NoResult)
    ELSE AgentAt("finish", 1, <<"succeeded", "completed">>)

\* FinishStep and endsRun: a write that fails, or a failure, parks.
FinishStage(t, a) ==
    LET to == agent[t][a].result[1]
        next == agent[t][a].result[2]
    IN  /\ agent[t][a].pc = "record"
        /\ \E reply \in Reply :
              /\ step' = FinishStep(StageStep(t, a), to, reply)
              /\ agent' = [agent EXCEPT ![t][a] =
                    IF reply # "ok" \/ ~FinishAllowed(StageStep(t, a)) \/ next = "parked"
                    THEN AgentAt("parkUpdate", 1, NoResult)
                    ELSE AfterStage(t, a, next)]
        /\ UNCHANGED <<row, run, running, op, up, crashes>>

\* finish: outputs that break the declaration, or a failed write, park.
Finish(t, a) ==
    /\ agent[t][a].pc = "finish"
    /\ \/ /\ agent' = AgentGoto(t, a, "parkUpdate")
          /\ row' = row
       \/ \E reply \in Reply :
             /\ row' = Update(t, run[t][a].task, reply)
             /\ agent' = AgentGoto(t, a, IF reply = "ok" THEN "transition" ELSE "parkUpdate")
    /\ UNCHANGED <<step, run, running, op, up, crashes>>

\* A failed outcome transition is only logged.
FinishTransition(t, a) ==
    /\ agent[t][a].pc = "transition"
    /\ \E reply \in Reply : row' = Transition(t, "running", agent[t][a].result[2], reply)
    /\ agent' = [agent EXCEPT ![t][a] = AgentAt("replied", 1, NoResult)]
    /\ UNCHANGED <<step, run, running, op, up, crashes>>

ParkUpdate(t, a) ==
    /\ agent[t][a].pc = "parkUpdate"
    /\ \E reply \in Reply : row' = Update(t, run[t][a].task, reply)
    /\ agent' = AgentGoto(t, a, "park")
    /\ UNCHANGED <<step, run, running, op, up, crashes>>

ParkTransition(t, a) ==
    /\ agent[t][a].pc = "park"
    /\ \E reply \in Reply : row' = Transition(t, "running", "parked", reply)
    /\ agent' = AgentGoto(t, a, "replied")
    /\ UNCHANGED <<step, run, running, op, up, crashes>>

\* The container is told to stop.  A body that fails on it has its step recorded
\* as interrupted on a detached context, and Run returns without parking;
\* elsewhere every write of the cancelled run fails, its park included.
Interrupted(t, a) ==
    /\ Stops
    /\ agent[t][a].pc \in Working \ {"compile"}
    /\ IF agent[t][a].pc \in {"body", "child"}
       THEN \E reply \in Reply : step' = FinishStep(StageStep(t, a), "interrupted", reply)
       ELSE step' = step
    /\ agent' = [agent EXCEPT ![t][a] = AgentAt("replied", 1, NoResult)]
    /\ UNCHANGED <<row, run, running, op, up, crashes>>

ContainerDies(t, a) ==
    /\ Stops
    /\ agent[t][a].pc \in Working
    /\ agent' = [agent EXCEPT ![t][a] = DeadAgent]
    /\ UNCHANGED <<row, step, run, running, op, up, crashes>>

AgentStep(t, a) ==
    \/ resumeStages(t, a) \/ CompileFails(t, a) \/ PersistStage(t, a) \/ StartStage(t, a)
    \/ startChildStep(t, a) \/ finishChildStep(t, a) \/ EndBody(t, a) \/ FinishStage(t, a)
    \/ Finish(t, a) \/ FinishTransition(t, a) \/ ParkUpdate(t, a) \/ ParkTransition(t, a)
-----------------------------------------------------------------------------
(***************************************************************************)
(* Operators and the forge.  Apply reads the task, checks the action       *)
(* against the status it read, and then runs the store operation.          *)
(***************************************************************************)

Offered(t) ==
    (Actions(row[t].status) \ {"open_pr", "open_issue"})
      \cup (IF row[t].status \in {"queued", "running"} /\ ~row[t].task.pr
            THEN {"withdraw"} ELSE {})

Apply(o, t) ==
    /\ up = "up"
    /\ op[o] = NoOp
    /\ row[t].status \notin Absent
    /\ \E action \in Offered(t) \cap Action, resume \in ResumePoint :
          /\ resume # NoResume =>
                action = "retry" /\ resume[1] = row[t].task.wf /\ resume[2] \in ResumeAt
          /\ op' = [op EXCEPT ![o] = [pc |-> "act", task |-> t, action |-> action,
                                      seen |-> row[t].status, retries |-> row[t].task.retries,
                                      resume |-> resume]]
    /\ UNCHANGED <<row, step, run, agent, running, up, crashes>>

Cancels == {"reject", "cancel", "abandon", "stop", "withdraw"}
CancelTarget(action) == IF action = "withdraw" THEN "closed_wont_do" ELSE ActionTarget(action)

\* CancelExecution judges the status the row has now.  Abandon delivers no
\* cancel to the run.
CancelExecution(o) ==
    LET t == op[o].task
        to == CancelTarget(op[o].action)
        legal == row[t].status \notin Absent /\ CanTransition(row[t].status, to)
    IN  /\ op[o].pc = "act"
        /\ op[o].action \in Cancels
        /\ row' = IF legal THEN Moved(t, to) ELSE row
        /\ step' = IF legal THEN Swept({t}, {"pending", "running"}, "cancelled") ELSE step
        /\ op' = [op EXCEPT ![o] = IF legal /\ @.action # "abandon"
                                   THEN [@ EXCEPT !.pc = "deliver"] ELSE NoOp]
        /\ UNCHANGED <<run, agent, running, up, crashes>>

\* The in-memory cancel reaches whichever run the daemon lists for the task.
CancelTask(o) ==
    /\ op[o].pc = "deliver"
    /\ LET t == op[o].task IN
          run' = IF running[t] = 0 THEN run ELSE [run EXCEPT ![t][running[t]].cancelled = TRUE]
    /\ op' = [op EXCEPT ![o] = NoOp]
    /\ UNCHANGED <<row, step, agent, running, up, crashes>>

\* approve and rereview requeue from the status that was read.
applyApprove(o) ==
    LET t == op[o].task IN
    /\ op[o].pc = "act"
    /\ op[o].action \in {"approve", "rereview"}
    /\ row' = Transition(t, op[o].seen, "queued", "ok")
    /\ op' = [op EXCEPT ![o] = NoOp]
    /\ UNCHANGED <<step, run, agent, running, up, crashes>>

\* The cap is judged on the count that was read; the store guards the status.
AtRetryCap(count) == MaxRetries > 0 /\ count >= MaxRetries

applyRetry(o) ==
    LET t == op[o].task IN
    /\ op[o].pc = "act"
    /\ op[o].action = "retry"
    /\ row' = IF AtRetryCap(op[o].retries) THEN Transition(t, "parked", "dead", "ok")
              ELSE IF guardTransition(t, "parked", "queued") /\ resumeResults(t, op[o].resume)
              THEN [row EXCEPT ![t] = [status |-> "queued", attempt |-> row[t].attempt,
                       task |-> [row[t].task EXCEPT !.retries = @ + 1, !.resume = op[o].resume]]]
              ELSE row
    /\ op' = [op EXCEPT ![o] = NoOp]
    /\ UNCHANGED <<step, run, agent, running, up, crashes>>

\* The forge merges first, or refuses; then the row follows.
applyMerge(o) ==
    LET t == op[o].task IN
    /\ op[o].pc = "act"
    /\ op[o].action = "merge"
    /\ row' \in {row, Transition(t, op[o].seen, "merged", "ok")}
    /\ op' = [op EXCEPT ![o] = NoOp]
    /\ UNCHANGED <<step, run, agent, running, up, crashes>>

applyArchive(o) ==
    LET t == op[o].task IN
    /\ op[o].pc = "act"
    /\ op[o].action = "archive"
    /\ row' = IF row[t].status = op[o].seen THEN Moved(t, "archived") ELSE row
    /\ op' = [op EXCEPT ![o] = NoOp]
    /\ UNCHANGED <<step, run, agent, running, up, crashes>>

\* reconcilePRs and the review reactions, each one guarded transition.
reconcilePRs(t) ==
    /\ up = "up"
    /\ row[t].status = "pr_open"
    /\ \E to \in {"merged", "rejected"} : row' = Transition(t, "pr_open", to, "ok")
    /\ UNCHANGED <<step, run, agent, running, op, up, crashes>>

BeginRemediation(t) ==
    /\ up = "up"
    /\ guardTransition(t, "pr_open", "queued")
    /\ row' = [row EXCEPT ![t] = [status |-> "queued", attempt |-> row[t].attempt,
                  task |-> [row[t].task EXCEPT !.wf = Remediate, !.resume = NoResume]]]
    /\ UNCHANGED <<step, run, agent, running, op, up, crashes>>
-----------------------------------------------------------------------------
(***************************************************************************)
(* Crash and restart.  The store and the agents' containers outlive the    *)
(* daemon; the pool removes orphans before Startup recovers the rows.      *)
(***************************************************************************)

Crash ==
    /\ up = "up"
    /\ crashes < MaxCrashes
    /\ up' = "down"
    /\ crashes' = crashes + 1
    /\ run' = [t \in Task |-> [a \in Attempt |->
                 IF run[t][a].pc = "none" THEN run[t][a] ELSE [run[t][a] EXCEPT !.pc = "done"]]]
    /\ running' = [t \in Task |-> 0]
    /\ op' = [o \in Operator |-> NoOp]
    /\ UNCHANGED <<row, step, agent>>

Orphans == {r \in Task \X Attempt : agent[r[1]][r[2]].pc \notin {"none", "dead"}}

\* A failed listing, stop or removal leaves the container alive.
recoverOrphans ==
    /\ up = "down"
    /\ \E left \in (IF Faults THEN SUBSET Orphans ELSE {{}}) :
          agent' = [t \in Task |-> [a \in Attempt |->
                       IF <<t, a>> \in Orphans \ left THEN DeadAgent ELSE agent[t][a]]]
    /\ up' = "recovering"
    /\ UNCHANGED <<row, step, run, running, op, crashes>>

\* The rows a crashed daemon left running.
Recovered == {t \in Task : row[t].status = "running"}

RecoverStale ==
    /\ up = "recovering"
    /\ row' = [t \in Task |-> IF t \in Recovered THEN [row[t] EXCEPT !.status = "queued"] ELSE row[t]]
    /\ step' = Swept(Recovered, {"running"}, "interrupted")
    /\ up' = "up"
    /\ UNCHANGED <<run, agent, running, op, crashes>>
-----------------------------------------------------------------------------
Operate(o) ==
    \/ \E t \in Task : Apply(o, t)
    \/ CancelExecution(o) \/ CancelTask(o) \/ applyApprove(o) \/ applyRetry(o)
    \/ applyMerge(o) \/ applyArchive(o)

Next ==
    \/ \E t \in Task : Enqueue(t) \/ ClaimNext(t) \/ reconcilePRs(t) \/ BeginRemediation(t)
    \/ \E t \in Task, a \in Attempt :
          Process(t, a) \/ AgentStep(t, a) \/ Interrupted(t, a) \/ ContainerDies(t, a)
    \/ \E o \in Operator : Operate(o)
    \/ Crash \/ recoverOrphans \/ RecoverStale

Spec == Init /\ [][Next]_vars
-----------------------------------------------------------------------------
(***************************************************************************)
(* Properties.                                                             *)
(***************************************************************************)

Exec == INSTANCE Execution WITH
            status <- [t \in Task |-> row[t].status],
            attempt <- [t \in Task |-> row[t].attempt],
            stepStatus <- [s \in StepId |-> IF step[s] = "failed_past" THEN "failed" ELSE step[s]]

\* Whatever claims, runs, stale agents, operators, crashes and recoveries do,
\* rows and steps keep to the tables: no terminal row is revived, no attempt
\* begins without a claim, and once an attempt is superseded or its row has
\* left running, none of its steps starts.
Lifecycle == Exec!Spec

\* A row that says running has a run: an attempt the daemon is processing, or
\* one that recovery is about to requeue.  Otherwise the row would stay running
\* until the next restart.
RunningHasRun ==
    \A t \in Task : row[t].status = "running" =>
        \/ run[t][row[t].attempt].pc \notin {"none", "done"}
        \/ up # "up"

\* An execution that ended, or waits on a person or a pull request, has no
\* step still open in the attempt that brought it there.
SettledIsQuiet ==
    \A s \in StepId :
        (/\ row[s[1]].status \in {"closed_wont_do", "completed", "waiting_human",
                                  "pr_open", "merged", "rejected"}
         /\ row[s[1]].attempt = s[2])
            => step[s] # "running"

\* Every executing run is the one runningTasks lists, so a stop reaches it:
\* "runningTasks tracks executing tasks so they can be cancelled".
ExecutingIsListed ==
    \A t \in Task, a \in Attempt : run[t][a].pc \in Executing => running[t] = a

\* A run decides only about its own attempt: once a later attempt is claimed,
\* neither the agent nor the daemon's unwind of an earlier one moves the row.
OwnAttemptOnly ==
    [][\A t \in Task, a \in Attempt :
          (Process(t, a) \/ AgentStep(t, a)) /\ row'[t].status # row[t].status
              => row[t].attempt = a]_vars

\* "outputs is attempt-scoped, so nothing the previous attempt wrote survives".
OutputsOfAttempt ==
    \A t \in Task : row[t].status = "running" => row[t].task.outputs \in {0, row[t].attempt}

\* A retry beyond the cap is refused: "how many operator-triggered retries a
\* parked task gets before it moves to dead".
RetriesCapped == \A t \in Task : MaxRetries > 0 => row[t].task.retries <= MaxRetries

\* An attempt that starts past the first stage skips only what ran: an earlier
\* attempt of the same workflow recorded the stage before, and moved past it.
SkippedStagesRan ==
    \A t \in Task, a \in Attempt, i \in Stage \ {1} :
        (step[<<t, a, i, "stage">>] # "none" /\ step[<<t, a, i - 1, "stage">>] = "none")
            => \E b \in Attempt : /\ b < a
                                  /\ run[t][b].ran = run[t][a].ran
                                  /\ step[<<t, b, i - 1, "stage">>] \in {"succeeded", "failed_past"}

\* A task handed to another workflow does not carry the resume point of the
\* one it leaves: resume_from "names the stage the next attempt starts at".
HandoffStartsAfresh ==
    [][\A t \in Task, a \in Attempt :
          FinishTransition(t, a) /\ row[t].status = "running" /\ row'[t].status = "queued"
              => row'[t].task.resume = NoResume \/ row'[t].task.resume[1] = row'[t].task.wf]_vars

\* What the code's scheduling justifies: goroutines and agents keep going, the
\* request of a run ends by its time limit, and a crashed daemon is restarted.
Fairness ==
    /\ \A t \in Task, a \in Attempt : WF_vars(Process(t, a)) /\ WF_vars(AgentStep(t, a))
    /\ WF_vars(recoverOrphans) /\ WF_vars(RecoverStale)

FairSpec == Spec /\ Fairness

\* Every attempt that runs comes to an end the row records, through crashes and
\* whatever operators do.
RunSettles ==
    \A t \in Task, a \in Attempt :
        (row[t].status = "running" /\ row[t].attempt = a)
            ~> ~(row[t].status = "running" /\ row[t].attempt = a)
=============================================================================
