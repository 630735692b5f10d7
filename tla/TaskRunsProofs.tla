--------------------------- MODULE TaskRunsProofs ---------------------------
(***************************************************************************)
(* Type correctness of TaskRuns, and what its actions do to the rows, the  *)
(* steps and the agents: no step is started twice, as the steps an agent   *)
(* has yet to reach were never started and no attempt has two agents.      *)
(* Then the refinement: TaskRuns implements Execution.                     *)
(***************************************************************************)
EXTENDS TaskRuns, TLAPS
USE SMTT(20), ZenonT(20)

RowType == [Task -> [status : Status \cup Absent, attempt : 0 .. MaxAttempt, task : Fields]]
RunType == [Task -> [Attempt -> [pc : RunPc, cancelled : BOOLEAN, ran : Workflow, task : Fields]]]
AgentType == [Task -> [Attempt -> [pc : AgentPc, stage : Stage, result : Result]]]

OpType == {NoOp} \cup [pc : {"act", "deliver"}, task : Task, action : Verb,
                        seen : Status, retries : Nat, resume : ResumePoint]

\* A move of a row's status, which Transition and the cancels make.
LEMMA MovedType ==
    ASSUME row \in RowType, NEW t \in Task, NEW to \in Status \cup Absent
    PROVE  Moved(t, to) \in RowType
BY Zenon DEF Moved, RowType

\* Store.Transition leaves a row table, whether or not it commits.
LEMMA TransitionType ==
    ASSUME row \in RowType, NEW t \in Task, NEW from, NEW to \in Status, NEW reply
    PROVE  Transition(t, from, to, reply) \in RowType
BY MovedType, Zenon DEF Transition

\* The daemon's park does too.
LEMMA ParkType ==
    ASSUME row \in RowType, NEW t \in Task, NEW reply
    PROVE  parkRunningTask(t, reply) \in RowType
BY TransitionType, Zenon DEF parkRunningTask, Status

\* Store.Update writes a run's copy over the row and keeps the resume point.
LEMMA UpdateType ==
    ASSUME row \in RowType, NEW t \in Task, NEW fields \in Fields, NEW reply
    PROVE  Update(t, fields, reply) \in RowType
BY Zenon DEF Update, RowType, Fields

\* StartStep and FinishStep leave a step table.
LEMMA StepType ==
    ASSUME step \in [StepId -> StepValue], NEW s \in StepId, NEW to \in StepValue, NEW reply
    PROVE  /\ StartStep(s, reply) \in [StepId -> StepValue]
           /\ FinishStep(s, to, reply) \in [StepId -> StepValue]
BY Zenon DEF StartStep, FinishStep, StepValue, StepStatus

\* So does a sweep.
LEMMA SweptType ==
    ASSUME step \in [StepId -> StepValue], NEW tasks, NEW open, NEW to \in StepValue
    PROVE  Swept(tasks, open, to) \in [StepId -> StepValue]
BY Zenon DEF Swept

\* A run moves from one point of process() to another.
LEMMA GotoType ==
    ASSUME run \in RunType, NEW t \in Task, NEW a \in Attempt, NEW pc \in RunPc
    PROVE  Goto(t, a, pc) \in RunType
BY DEF Goto, RunType

\* An agent moves from one point of Run to another.
LEMMA AgentGotoType ==
    ASSUME agent \in AgentType, NEW t \in Task, NEW a \in Attempt, NEW pc \in AgentPc
    PROVE  AgentGoto(t, a, pc) \in AgentType
BY DEF AgentGoto, AgentType

\* The records an agent is set to are agent records.
LEMMA AgentValues ==
    /\ DeadAgent \in [pc : AgentPc, stage : Stage, result : Result]
    /\ \A pc \in AgentPc : AgentAt(pc, 1, NoResult) \in [pc : AgentPc, stage : Stage, result : Result]
<1>1. NoResult \in Result
  BY Zenon DEF NoResult, Result
<1>2. 1 \in Stage
  BY TaskRunsAssumption DEF Stage
<1>. QED  BY <1>1, <1>2, Zenon DEF DeadAgent, AgentAt, AgentPc

\* The fields of a task nothing was written to.
LEMMA BlankType == ASSUME NEW w \in Workflow PROVE Blank(w) \in Fields
BY TaskRunsAssumption DEF Blank, Fields, ResumePoint

\* What a run keeps when it returns.
LEMMA ReturnedType ==
    ASSUME run \in RunType, NEW t \in Task, NEW a \in Attempt
    PROVE  [run EXCEPT ![t][a] = Returned(@)] \in RunType
<1>1. run[t][a].ran \in Workflow
  BY Zenon DEF RunType
<1>2. Blank(run[t][a].ran) \in Fields
  BY <1>1, BlankType, Zenon
<1>3. Returned(run[t][a]) \in [pc : RunPc, cancelled : BOOLEAN, ran : Workflow, task : Fields]
  BY <1>1, <1>2, Zenon DEF Returned, RunPc
<1>. QED  BY <1>3, Zenon DEF RunType

\* Setting a run to one of its records keeps the types.
LEMMA RunSet ==
    ASSUME run \in RunType, NEW t \in Task, NEW a \in Attempt,
           NEW r \in [pc : RunPc, cancelled : BOOLEAN, ran : Workflow, task : Fields]
    PROVE  [run EXCEPT ![t][a] = r] \in RunType
BY Zenon DEF RunType

\* A cancel delivered to a run, and a stage's writes to its copy of the task.
LEMMA RunChanges ==
    ASSUME run \in RunType, NEW t \in Task, NEW a \in Attempt, NEW fields \in Fields
    PROVE  /\ [run EXCEPT ![t][a].cancelled = TRUE] \in RunType
           /\ [run EXCEPT ![t][a].task = fields] \in RunType
<1>. DEFINE Rec == [pc : RunPc, cancelled : BOOLEAN, ran : Workflow, task : Fields]
<1>1. run[t][a] \in Rec
  BY Zenon DEF RunType
<1>2. [run[t][a] EXCEPT !.cancelled = TRUE] \in Rec
  BY <1>1, Zenon
<1>3. [run[t][a] EXCEPT !.task = fields] \in Rec
  BY <1>1, Zenon
<1>4. [run EXCEPT ![t][a] = [run[t][a] EXCEPT !.cancelled = TRUE]] \in RunType
  BY <1>2, RunSet, Zenon
<1>5. [run EXCEPT ![t][a] = [run[t][a] EXCEPT !.task = fields]] \in RunType
  BY <1>3, RunSet, Zenon
<1>. QED  BY <1>4, <1>5, Zenon

\* What a retry changes in the task's fields.
LEMMA RetriedFields ==
    ASSUME NEW f \in Fields, NEW p \in ResumePoint
    PROVE  [f EXCEPT !.retries = @ + 1, !.resume = p] \in Fields
<1>1. [f EXCEPT !.retries = f.retries + 1] \in Fields
  BY DEF Fields
<1>2. \A g \in Fields : [g EXCEPT !.resume = p] \in Fields
  BY Zenon DEF Fields
<1>. QED  BY <1>1, <1>2, Zenon

\* What a remediation changes in them.
LEMMA RemediatedFields ==
    ASSUME NEW f \in Fields
    PROVE  [f EXCEPT !.wf = Remediate, !.resume = NoResume] \in Fields
<1>1. [f EXCEPT !.wf = Remediate] \in Fields
  BY TaskRunsAssumption, Zenon DEF Fields
<1>2. \A g \in Fields : [g EXCEPT !.resume = NoResume] \in Fields
  BY Zenon DEF Fields, ResumePoint
<1>. QED  BY <1>1, <1>2, Zenon

\* Setting a row keeps the types.
LEMMA RowSet ==
    ASSUME row \in RowType, NEW t \in Task, NEW status \in Status \cup Absent,
           NEW attempt \in 0 .. MaxAttempt, NEW fields \in Fields
    PROVE  [row EXCEPT ![t] = [status |-> status, attempt |-> attempt, task |-> fields]] \in RowType
<1>1. [status |-> status, attempt |-> attempt, task |-> fields]
         \in [status : Status \cup Absent, attempt : 0 .. MaxAttempt, task : Fields]
  BY Zenon
<1>. QED  BY <1>1, Zenon DEF RowType

\* The actions offered in a status are among those an operator takes.
LEMMA ActionNames ==
    ASSUME NEW t \in Task, row[t].status \in Status
    PROVE  Offered(t) \subseteq Verb
<1>. DEFINE s == row[t].status
<1>1. Actions(s) \ {"open_pr", "open_issue"} \subseteq Verb
  <2>1. CASE s \in {"queued", "running", "waiting_human"}
    BY <2>1, Zenon DEF Actions, Verb
  <2>2. CASE s \in {"parked", "pr_open"}
    BY <2>2, Zenon DEF Actions, Verb
  <2>3. CASE s \in Terminal
    BY <2>3, Zenon DEF Actions, Verb, Terminal
  <2>. QED  BY <2>1, <2>2, <2>3, Zenon DEF Status, Terminal
<1>. QED  BY <1>1, Zenon DEF Offered, Verb

\* TypeOK, one conjunct per variable.
LEMMA TypeParts ==
    /\ TypeOK <=> /\ row \in RowType
                  /\ step \in [StepId -> StepValue]
                  /\ run \in RunType
                  /\ agent \in AgentType
                  /\ running \in [Task -> 0 .. MaxAttempt]
                  /\ op \in [Operator -> OpType]
                  /\ up \in {"up", "down", "recovering"}
                  /\ crashes \in 0 .. MaxCrashes
    /\ TypeOK' <=> /\ row' \in RowType
                   /\ step' \in [StepId -> StepValue]
                   /\ run' \in RunType
                   /\ agent' \in AgentType
                   /\ running' \in [Task -> 0 .. MaxAttempt]
                   /\ op' \in [Operator -> OpType]
                   /\ up' \in {"up", "down", "recovering"}
                   /\ crashes' \in 0 .. MaxCrashes
BY Zenon DEF TypeOK, RowType, RunType, AgentType, OpType

\* Each step of process() keeps the types.
LEMMA ProcessType ==
    ASSUME TypeOK, NEW t \in Task, NEW a \in Attempt, Process(t, a)
    PROVE  TypeOK'
<1>. USE TypeParts
<1>1. CASE RefuseIdentity(t, a)
  BY <1>1, ParkType, ReturnedType, Zenon DEF RefuseIdentity
<1>2. CASE begin(t, a)
  BY <1>2, GotoType DEF begin, RunPc, Attempt
<1>3. CASE prepareWorkspace(t, a)
  <2>1. run[t][a].task \in Fields
    BY Zenon DEF RunType
  <2>. QED  BY <1>3, <2>1, UpdateType, GotoType, Zenon DEF prepareWorkspace, RunPc
<1>4. CASE SetupFails(t, a)
  BY <1>4, ParkType, GotoType, Zenon DEF SetupFails, RunPc
<1>5. CASE acquireTaskContainer(t, a)
  <2>1. [agent EXCEPT ![t][a] = AgentAt("compile", 1, NoResult)] \in AgentType
    BY AgentValues, Zenon DEF AgentPc, AgentType
  <2>. QED  BY <1>5, <2>1, GotoType, Zenon DEF acquireTaskContainer, RunPc
<1>6. CASE RequestFails(t, a)
  BY <1>6, ParkType, GotoType, Zenon DEF RequestFails, RunPc
<1>7. CASE runViaAgent(t, a)
  BY <1>7, ParkType, GotoType, Zenon DEF runViaAgent, RunPc
<1>8. CASE finished(t, a)
  <2>1. DeadAgent \in [pc : AgentPc, stage : Stage, result : Result]
    BY AgentValues, Zenon
  <2>2. [agent EXCEPT ![t][a] = DeadAgent] \in AgentType
    BY <2>1, Zenon DEF AgentType
  <2>3. Retired(t, a) \in [Task -> 0 .. MaxAttempt]
    BY TaskRunsAssumption DEF Retired
  <2>. QED  BY <1>8, <2>2, <2>3, ReturnedType, Zenon DEF finished
<1>. QED  BY <1>1, <1>2, <1>3, <1>4, <1>5, <1>6, <1>7, <1>8, Zenon DEF Process

\* Setting an agent to one of its records keeps the types.
LEMMA AgentSet ==
    ASSUME agent \in AgentType, NEW t \in Task, NEW a \in Attempt,
           NEW r \in [pc : AgentPc, stage : Stage, result : Result]
    PROVE  [agent EXCEPT ![t][a] = r] \in AgentType
BY Zenon DEF AgentType

\* The end of a stage body is an agent record.
LEMMA BodyEndsType ==
    ASSUME agent \in AgentType, NEW t \in Task, NEW a \in Attempt, NEW result \in Result
    PROVE  BodyEnds(t, a, result) \in AgentType
BY Zenon DEF BodyEnds, AgentAt, AgentType, AgentPc

\* What follows a recorded stage is an agent record: the stage number stays
\* within the workflow.
LEMMA AfterStageType ==
    ASSUME agent \in AgentType, NEW t \in Task, NEW a \in Attempt,
           agent[t][a].result[2] # "parked"
    PROVE  AfterStage(t, a, agent[t][a].result[2])
              \in [pc : AgentPc, stage : Stage, result : Result]
<1>. DEFINE next == agent[t][a].result[2]
            i == agent[t][a].stage
<1>1. agent[t][a].result \in Result /\ i \in Stage
  BY Zenon DEF AgentType
<1>2. next \in Outcome \cup {"next"}
  BY <1>1 DEF Result
<1>3. /\ \A x \in Outcome \cup {"completed"} : <<"succeeded", x>> \in Result
      /\ NoResult \in Result /\ 1 \in Stage /\ {"finish", "update"} \subseteq AgentPc
      /\ i < NStages => i + 1 \in Stage
  BY <1>1, TaskRunsAssumption DEF Result, Outcome, NoResult, Stage, AgentPc
<1>. QED  BY <1>1, <1>2, <1>3, Zenon DEF AfterStage, AgentAt

\* Each step of the agent keeps the types.
LEMMA AgentType1 ==
    ASSUME TypeOK, NEW t \in Task, NEW a \in Attempt,
           \/ resumeStages(t, a) \/ CompileFails(t, a) \/ PersistStage(t, a) \/ StartStage(t, a)
           \/ startChildStep(t, a) \/ finishChildStep(t, a)
    PROVE  TypeOK'
<1>. USE TypeParts
<1>1. run[t][a].task \in Fields
  BY Zenon DEF RunType
<1>2. StageStep(t, a) \in StepId /\ ChildStep(t, a) \in StepId
  BY DEF StageStep, ChildStep, StepId, AgentType
<1>3. Failure \subseteq Result
  BY StageResultAssumption, Zenon DEF Failure, Result
<1>4. CASE resumeStages(t, a)
  <2>. DEFINE resume == run[t][a].task.resume
  <2>1. resume \in ResumePoint
    BY <1>1, Zenon DEF Fields
  <2>2. resume # NoResume => resume[2] \in Stage
    BY <2>1, Zenon DEF ResumePoint
  <2>3. \A i \in Stage : AgentAt("update", i, NoResult) \in [pc : AgentPc, stage : Stage, result : Result]
    BY AgentValues, Zenon DEF AgentAt, AgentPc
  <2>4. PICK r \in [pc : AgentPc, stage : Stage, result : Result] : agent' = [agent EXCEPT ![t][a] = r]
    <3>1. {"update", "parkUpdate"} \subseteq AgentPc
      BY Zenon DEF AgentPc
    <3>. QED  BY <1>4, <2>2, <2>3, <3>1, AgentValues, Zenon DEF resumeStages
  <2>5. agent' \in AgentType
    BY <2>4, AgentSet, Zenon
  <2>. QED  BY <1>4, <2>5, Zenon DEF resumeStages
<1>5. CASE CompileFails(t, a)
  BY <1>5, AgentGotoType, Zenon DEF CompileFails, AgentPc
<1>6. CASE PersistStage(t, a)
  BY <1>6, <1>1, UpdateType, AgentGotoType, Zenon DEF PersistStage, AgentPc
<1>7. CASE StartStage(t, a)
  <2>1. "running" \in StepValue
    BY Zenon DEF StepValue, StepStatus
  <2>. QED  BY <1>7, <1>2, <2>1, StepType, AgentGotoType DEF StartStage, AgentPc
<1>8. CASE startChildStep(t, a)
  <2>1. "running" \in StepValue
    BY Zenon DEF StepValue, StepStatus
  <2>. QED  BY <1>8, <1>2, <1>3, <2>1, StepType, AgentGotoType, BodyEndsType DEF startChildStep, AgentPc
<1>9. CASE finishChildStep(t, a)
  <2>1. {"succeeded", "failed"} \subseteq StepValue
    BY Zenon DEF StepValue, StepStatus
  <2>. QED  BY <1>9, <1>2, <1>3, <2>1, StepType, AgentGotoType, BodyEndsType DEF finishChildStep, AgentPc
<1>. QED  BY <1>4, <1>5, <1>6, <1>7, <1>8, <1>9, Zenon

\* The rest of the agent's steps, and a container stopped or killed.
LEMMA AgentType2 ==
    ASSUME TypeOK, NEW t \in Task, NEW a \in Attempt,
           \/ EndBody(t, a) \/ FinishStage(t, a) \/ Finish(t, a) \/ FinishTransition(t, a)
           \/ ParkUpdate(t, a) \/ ParkTransition(t, a)
           \/ Interrupted(t, a) \/ ContainerDies(t, a)
    PROVE  TypeOK'
<1>. USE TypeParts
<1>1. run[t][a].task \in Fields
  BY Zenon DEF RunType
<1>2. StageStep(t, a) \in StepId
  BY DEF StageStep, StepId, AgentType
<1>3. {"replied", "parkUpdate", "transition", "park"} \subseteq AgentPc
  BY Zenon DEF AgentPc
<1>4. agent[t][a].result \in Result
  BY Zenon DEF AgentType
<1>5. CASE EndBody(t, a)
  <2>1. PICK result \in StageResult, w \in Workflow :
           /\ agent' = BodyEnds(t, a, result)
           /\ run' = [run EXCEPT ![t][a].task =
                       [wf |-> w, retries |-> @.retries, resume |-> @.resume,
                        outputs |-> IF result[1] = "succeeded" THEN a ELSE @.outputs,
                        pr |-> @.pr \/ result[2] = "pr_open"]]
    BY <1>5, Zenon DEF EndBody
  <2>2. [wf |-> w, retries |-> run[t][a].task.retries, resume |-> run[t][a].task.resume,
         outputs |-> IF result[1] = "succeeded" THEN a ELSE run[t][a].task.outputs,
         pr |-> run[t][a].task.pr \/ result[2] = "pr_open"] \in Fields
    BY <1>1, TaskRunsAssumption DEF Fields, Attempt
  <2>3. run' \in RunType
    BY <2>1, <2>2, RunChanges, Zenon
  <2>4. agent' \in AgentType
    BY <2>1, BodyEndsType, StageResultAssumption, Zenon
  <2>. QED  BY <1>5, <2>3, <2>4, Zenon DEF EndBody
<1>6. CASE FinishStage(t, a)
  <2>1. agent[t][a].result[1] \in StepValue
    BY SMTT(60), <1>4 DEF Result, StepValue, StepStatus
  <2>2. step' \in [StepId -> StepValue]
    <3>1. PICK reply : step' = FinishStep(StageStep(t, a), agent[t][a].result[1], reply)
      BY <1>6, Zenon DEF FinishStage
    <3>2. StageStep(t, a) \in StepId
      BY <1>2, Zenon
    <3>. QED  BY <2>1, <3>1, <3>2, StepType, Zenon
  <2>3. PICK r \in [pc : AgentPc, stage : Stage, result : Result] : agent' = [agent EXCEPT ![t][a] = r]
    BY <1>6, <1>3, AgentValues, AfterStageType, Zenon DEF FinishStage
  <2>. QED  BY <1>6, <2>2, <2>3, AgentSet, Zenon DEF FinishStage
<1>7. CASE Finish(t, a)
  BY <1>7, <1>1, <1>3, UpdateType, AgentGotoType, Zenon DEF Finish
<1>8. CASE FinishTransition(t, a)
  <2>1. row' \in RowType
    <3>1. Transition(t, "running", agent[t][a].result[2], "ok") \in RowType
              /\ Transition(t, "running", agent[t][a].result[2], "lost") \in RowType
              /\ Transition(t, "running", agent[t][a].result[2], "fail") \in RowType
      <4>1. CASE CanTransition("running", agent[t][a].result[2])
        <5>1. agent[t][a].result[2] \in Status
          BY <4>1, Zenon DEF CanTransition, executionTransitions, Status
        <5>. QED  BY <5>1, TransitionType, Zenon
      <4>2. CASE ~CanTransition("running", agent[t][a].result[2])
        BY <4>2, Zenon DEF Transition, guardTransition
      <4>. QED  BY <4>1, <4>2, Zenon
    <3>. QED  BY <1>8, <3>1, Zenon DEF FinishTransition, Reply
  <2>. QED  BY <1>8, <2>1, <1>3, AgentValues, AgentSet, Zenon DEF FinishTransition
<1>9. CASE ParkUpdate(t, a)
  BY <1>9, <1>1, <1>3, UpdateType, AgentGotoType, Zenon DEF ParkUpdate
<1>10. CASE ParkTransition(t, a)
  BY <1>10, <1>3, TransitionType, AgentGotoType, Zenon DEF ParkTransition, Status
<1>11. CASE Interrupted(t, a)
  <2>1. "interrupted" \in StepValue
    BY Zenon DEF StepValue, StepStatus
  <2>2. step' \in [StepId -> StepValue]
    BY <1>11, <1>2, <2>1, StepType DEF Interrupted
  <2>3. agent' \in AgentType
    BY <1>11, <1>3, AgentValues, AgentSet, Zenon DEF Interrupted
  <2>. QED  BY <1>11, <2>2, <2>3, Zenon DEF Interrupted
<1>12. CASE ContainerDies(t, a)
  BY <1>12, AgentValues, AgentSet, Zenon DEF ContainerDies
<1>. QED  BY <1>5, <1>6, <1>7, <1>8, <1>9, <1>10, <1>11, <1>12, Zenon

\* Operators between reading and acting keep the types.
LEMMA OperateType ==
    ASSUME TypeOK, NEW o \in Operator, Operate(o)
    PROVE  TypeOK'
<1>. USE TypeParts
<1>. DEFINE t == op[o].task
<1>1. NoOp \in OpType /\ [op EXCEPT ![o] = NoOp] \in [Operator -> OpType]
  BY Zenon DEF OpType
<1>2. op[o].pc # "idle" =>
         op[o] \in [pc : {"act", "deliver"}, task : Task, action : Verb,
                    seen : Status, retries : Nat, resume : ResumePoint]
  BY DEF OpType, NoOp
<1>3. CASE \E u \in Task : Apply(o, u)
  <2>1. PICK u \in Task : Apply(o, u)
    BY <1>3, Zenon
  <2>2. PICK action \in Offered(u) \cap Action, resume \in ResumePoint :
          op' = [op EXCEPT ![o] = [pc |-> "act", task |-> u, action |-> action,
                                   seen |-> row[u].status, retries |-> row[u].task.retries,
                                   resume |-> resume]]
    BY <2>1, Zenon DEF Apply
  <2>3. row[u].status \in Status /\ row[u].task.retries \in Nat
    BY <2>1, Zenon DEF Apply, RowType, Fields
  <2>4. action \in Verb
    BY <2>3, ActionNames, Zenon
  <2>5. [pc |-> "act", task |-> u, action |-> action, seen |-> row[u].status,
         retries |-> row[u].task.retries, resume |-> resume] \in OpType
    BY <2>3, <2>4, Zenon DEF OpType
  <2>. QED  BY <2>1, <2>2, <2>5, Zenon DEF Apply
<1>4. CASE CancelExecution(o)
  <2>1. t \in Task
    BY <1>2, <1>4, Zenon DEF CancelExecution
  <2>2. row' \in RowType
    <3>1. CASE CanTransition(row[t].status, CancelTarget(op[o].action))
      <4>1. CancelTarget(op[o].action) \in Status
        BY <3>1, Zenon DEF CanTransition, executionTransitions, Status
      <4>. QED  BY <1>4, <2>1, <4>1, MovedType, Zenon DEF CancelExecution
    <3>2. CASE ~CanTransition(row[t].status, CancelTarget(op[o].action))
      BY <1>4, <3>2, Zenon DEF CancelExecution
    <3>. QED  BY <3>1, <3>2, Zenon
  <2>3. step' \in [StepId -> StepValue]
    <3>1. "cancelled" \in StepValue
      BY Zenon DEF StepValue, StepStatus
    <3>. QED  BY <1>4, <3>1, SweptType, Zenon DEF CancelExecution
  <2>4. [op[o] EXCEPT !.pc = "deliver"] \in OpType
    BY <1>2, <1>4, Zenon DEF CancelExecution, OpType
  <2>5. op' \in [Operator -> OpType]
    BY <1>1, <1>4, <2>4, Zenon DEF CancelExecution
  <2>. QED  BY <1>4, <2>2, <2>3, <2>5, Zenon DEF CancelExecution
<1>5. CASE CancelTask(o)
  <2>1. t \in Task
    BY <1>2, <1>5, Zenon DEF CancelTask
  <2>2. running[t] # 0 => running[t] \in Attempt
    BY <2>1, TaskRunsAssumption DEF Attempt
  <2>3. running[t] # 0 => [run EXCEPT ![t][running[t]].cancelled = TRUE] \in RunType
    BY <2>1, <2>2, RunChanges, BlankType, TaskRunsAssumption, Zenon
  <2>. QED  BY <1>1, <1>5, <2>3, Zenon DEF CancelTask
<1>6. CASE applyApprove(o)
  BY <1>1, <1>2, <1>6, TransitionType, Zenon DEF applyApprove, Status
<1>7. CASE applyRetry(o)
  <2>1. t \in Task /\ op[o].resume \in ResumePoint
    BY <1>2, <1>7, Zenon DEF applyRetry
  <2>2. row[t].attempt \in 0 .. MaxAttempt /\ row[t].task \in Fields
    BY <2>1, Zenon DEF RowType
  <2>3. [row[t].task EXCEPT !.retries = @ + 1, !.resume = op[o].resume] \in Fields
    BY <2>1, <2>2, RetriedFields, Zenon
  <2>4. "queued" \in Status
    BY Zenon DEF Status
  <2>5. [row EXCEPT ![t] = [status |-> "queued", attempt |-> row[t].attempt,
           task |-> [row[t].task EXCEPT !.retries = @ + 1, !.resume = op[o].resume]]] \in RowType
    <3>. HIDE DEF t
    <3>. QED  BY <2>1, <2>2, <2>3, <2>4, RowSet, Zenon
  <2>6. Transition(t, "parked", "dead", "ok") \in RowType
    BY <2>1, TransitionType, Zenon DEF Status
  <2>7. row' \in RowType
    BY <1>7, <2>5, <2>6, Zenon DEF applyRetry
  <2>. QED  BY <1>1, <1>7, <2>7, Zenon DEF applyRetry
<1>8. CASE applyMerge(o)
  BY <1>1, <1>2, <1>8, TransitionType DEF applyMerge, Status
<1>9. CASE applyArchive(o)
  BY <1>1, <1>2, <1>9, MovedType, Zenon DEF applyArchive, Absent
<1>. QED  BY <1>3, <1>4, <1>5, <1>6, <1>7, <1>8, <1>9, Zenon DEF Operate

\* Intake, claims, the forge, crash and recovery keep the types.
LEMMA StoreType ==
    ASSUME TypeOK,
           \/ \E t \in Task : Enqueue(t) \/ ClaimNext(t) \/ reconcilePRs(t) \/ BeginRemediation(t)
           \/ Crash \/ recoverOrphans \/ RecoverStale
    PROVE  TypeOK'
<1>. USE TypeParts
<1>0. \A t \in Task : row[t].attempt \in 0 .. MaxAttempt /\ row[t].task \in Fields
  BY Zenon DEF RowType
<1>1. ASSUME NEW t \in Task, Enqueue(t) PROVE TypeOK'
  BY <1>1, MovedType, Zenon DEF Enqueue, Status
<1>2. ASSUME NEW t \in Task, ClaimNext(t) PROVE TypeOK'
  <2>. DEFINE a == row[t].attempt + 1
              f == [row[t].task EXCEPT !.outputs = 0]
  <2>1. a \in Attempt /\ a \in 0 .. MaxAttempt
    BY <1>0, <1>2, TaskRunsAssumption DEF ClaimNext, Attempt
  <2>2. f \in Fields /\ f.wf \in Workflow
    BY <1>0, TaskRunsAssumption DEF Fields
  <2>3. row' = [row EXCEPT ![t] = [status |-> "running", attempt |-> a, task |-> f]]
    BY <1>2, Zenon DEF ClaimNext
  <2>4. run' = [run EXCEPT ![t][a] = [pc |-> "submitted", cancelled |-> FALSE, ran |-> f.wf, task |-> f]]
    BY <1>2, Zenon DEF ClaimNext
  <2>5. "running" \in Status /\ "submitted" \in RunPc
    BY Zenon DEF Status, RunPc
  <2>. HIDE DEF a, f
  <2>6. row' \in RowType
    BY <2>1, <2>2, <2>3, <2>5, RowSet, Zenon
  <2>7. [pc |-> "submitted", cancelled |-> FALSE, ran |-> f.wf, task |-> f]
           \in [pc : RunPc, cancelled : BOOLEAN, ran : Workflow, task : Fields]
    BY <2>2, <2>5, Zenon
  <2>8. run' \in RunType
    BY <2>1, <2>4, <2>7, RunSet, Zenon
  <2>. QED  BY <1>2, <2>6, <2>8, Zenon DEF ClaimNext
<1>3. ASSUME NEW t \in Task, reconcilePRs(t) PROVE TypeOK'
  BY <1>3, TransitionType, Zenon DEF reconcilePRs, Status
<1>4. ASSUME NEW t \in Task, BeginRemediation(t) PROVE TypeOK'
  <2>1. "queued" \in Status
    BY Zenon DEF Status
  <2>2. row' \in RowType
    BY <1>0, <1>4, <2>1, RemediatedFields, RowSet, Zenon DEF BeginRemediation
  <2>. QED  BY <1>4, <2>2, Zenon DEF BeginRemediation
<1>5. CASE Crash
  <2>1. \A t \in Task, a \in Attempt :
          [run[t][a] EXCEPT !.pc = "done"] \in [pc : RunPc, cancelled : BOOLEAN, ran : Workflow, task : Fields]
    BY DEF RunType, RunPc
  <2>2. run' \in RunType
    BY <1>5, <2>1 DEF Crash, RunType
  <2>3. op' \in [Operator -> OpType]
    BY <1>5, Zenon DEF Crash, OpType
  <2>4. running' \in [Task -> 0 .. MaxAttempt] /\ crashes' \in 0 .. MaxCrashes
    BY <1>5, TaskRunsAssumption DEF Crash
  <2>. QED  BY <1>5, <2>2, <2>3, <2>4, Zenon DEF Crash
<1>6. CASE recoverOrphans
  <2>1. agent' \in AgentType
    BY <1>6, AgentValues DEF recoverOrphans, AgentType
  <2>. QED  BY <1>6, <2>1, Zenon DEF recoverOrphans
<1>7. CASE RecoverStale
  <2>1. \A t \in Task : [row[t] EXCEPT !.status = "queued"]
           \in [status : Status \cup Absent, attempt : 0 .. MaxAttempt, task : Fields]
    BY Zenon DEF RowType, Status
  <2>2. row' \in RowType
    BY <1>7, <2>1, Zenon DEF RecoverStale, RowType
  <2>3. "interrupted" \in StepValue
    BY Zenon DEF StepValue, StepStatus
  <2>. QED  BY <1>7, <2>2, <2>3, SweptType, Zenon DEF RecoverStale
<1>. QED  BY <1>1, <1>2, <1>3, <1>4, <1>5, <1>6, <1>7, Zenon

\* The state before any task keeps them.
LEMMA InitType == Init => TypeOK
<1>. SUFFICES ASSUME Init PROVE TypeOK
  BY Zenon
<1>. USE TypeParts
<1>1. PICK w \in Workflow :
        /\ row = [t \in Task |-> [status |-> "none", attempt |-> 0, task |-> Blank(w)]]
        /\ run = [t \in Task |-> [a \in Attempt |->
                    [pc |-> "none", cancelled |-> FALSE, ran |-> w, task |-> Blank(w)]]]
  BY Zenon DEF Init
<1>2. Blank(w) \in Fields
  BY BlankType, Zenon
<1>3. row \in RowType
  BY <1>1, <1>2, TaskRunsAssumption DEF RowType, Absent
<1>4. run \in RunType
  BY <1>1, <1>2, Zenon DEF RunType, RunPc
<1>5. NoAgent \in [pc : AgentPc, stage : Stage, result : Result]
  BY AgentValues, Zenon DEF NoAgent, AgentPc
<1>6. agent \in AgentType
  BY SMTT(60), <1>5 DEF Init, AgentType
<1>7. step \in [StepId -> StepValue]
  BY Zenon DEF Init, StepValue
<1>8. /\ running \in [Task -> 0 .. MaxAttempt] /\ op \in [Operator -> OpType]
      /\ up \in {"up", "down", "recovering"} /\ crashes \in 0 .. MaxCrashes
  BY TaskRunsAssumption DEF Init, OpType
<1>. QED  BY <1>3, <1>4, <1>6, <1>7, <1>8, Zenon

\* Every step keeps the types: stage numbers stay in the workflow, attempts
\* and registry entries name attempts that were claimed.
LEMMA NextType == TypeOK /\ [Next]_vars => TypeOK'
<1>. SUFFICES ASSUME TypeOK, [Next]_vars PROVE TypeOK'
  BY Zenon
<1>1. CASE Next
  BY <1>1, ProcessType, AgentType1, AgentType2, OperateType, StoreType, Zenon DEF Next, AgentStep
<1>2. CASE UNCHANGED vars
  BY <1>2, Zenon DEF vars, TypeOK
<1>. QED  BY <1>1, <1>2, Zenon

\* TypeOK holds for any tasks, attempts, workflows, operators and faults.
THEOREM TypeCorrect == Spec => []TypeOK
BY InitType, NextType, PTL DEF Spec

-----------------------------------------------------------------------------

\* The stages an agent has not started yet.
Unreached(g) ==
    {i \in Stage : \/ g.pc \in {"none", "compile"}
                   \/ g.pc \in {"update", "start"} /\ i >= g.stage
                   \/ g.pc \in {"body", "child", "record"} /\ i > g.stage}

StepsAreFresh ==
    \A t \in Task, a \in Attempt : \A i \in Unreached(agent[t][a]), k \in {"stage", "agent"} :
        step[<<t, a, i, k>>] = "none"

\* An attempt has no agent before its run acquires a container, and no run
\* before it is claimed.
OneAgent ==
    \A t \in Task, a \in Attempt :
        /\ run[t][a].pc \in {"none", "submitted", "setup", "launch"} => agent[t][a].pc = "none"
        /\ a > row[t].attempt => run[t][a].pc = "none"

\* Only a terminal row is archived.
ArchivesTerminal ==
    \A o \in Operator : op[o].pc = "act" /\ op[o].action = "archive" => op[o].seen \in Terminal

IInv == TypeOK /\ StepsAreFresh /\ OneAgent /\ ArchivesTerminal

\* What any step may do to a row, and what all but the claims do.
Keeps(t) == row'[t].status = row[t].status /\ row'[t].attempt = row[t].attempt
Moves(t) ==
    /\ CanTransition(row[t].status, row'[t].status)
    /\ row'[t].status # "running"
    /\ row'[t].attempt = row[t].attempt
RowsMove == \A t \in Task : Keeps(t) \/ Moves(t)

\* What any step may do to a step.
StepsMove ==
    \A s \in StepId :
        \/ step'[s] = step[s]
        \/ /\ step[s] = "none" /\ step'[s] = "running"
           /\ row[s[1]].status = "running" /\ row[s[1]].attempt = s[2]
        \/ step[s] \in {"pending", "running"} /\ step'[s] = "cancelled"
        \/ step[s] = "running" /\ step'[s] \in StepDone

\* A guarded transition moves its row along the table or leaves it.
LEMMA TransitionMoves ==
    ASSUME TypeOK, NEW t \in Task, NEW from, NEW to, to # "running", NEW reply,
           row' = Transition(t, from, to, reply)
    PROVE  RowsMove
<1>1. row \in [Task -> [status : Status \cup Absent, attempt : 0 .. MaxAttempt, task : Fields]]
  BY Zenon DEF TypeOK
<1>2. CASE row' = row
  BY <1>2, Zenon DEF RowsMove, Keeps
<1>3. CASE row' = Moved(t, to) /\ CanTransition(row[t].status, to)
  BY <1>1, <1>3 DEF Moved, RowsMove, Keeps, Moves
<1>. QED  BY <1>2, <1>3, Zenon DEF Transition, guardTransition

\* The daemon's park is one.
LEMMA ParkMoves ==
    ASSUME TypeOK, NEW t \in Task, NEW reply, row' = parkRunningTask(t, reply)
    PROVE  RowsMove
BY TransitionMoves, Zenon DEF parkRunningTask

\* Update changes no status and no attempt.
LEMMA UpdateKeeps ==
    ASSUME TypeOK, NEW t \in Task, NEW fields, NEW reply, row' = Update(t, fields, reply)
    PROVE  RowsMove
BY Zenon DEF Update, TypeOK, RowsMove, Keeps

\* The invariant survives when no step is touched, no agent but one that dies
\* or starts is, and no run goes back before its container.
LEMMA RunStep ==
    ASSUME IInv, TypeOK', NEW t \in Task, NEW a \in Attempt,
           RowsMove, step' = step, op' = op,
           \A u \in Task, b \in Attempt : <<u, b>> # <<t, a>> =>
               run'[u][b].pc = run[u][b].pc /\ agent'[u][b] = agent[u][b],
           run[t][a].pc # "none", run'[t][a].pc # "none",
           Unreached(agent'[t][a]) \subseteq Unreached(agent[t][a]),
           run'[t][a].pc \in {"submitted", "setup", "launch"} => agent'[t][a].pc = "none"
    PROVE  IInv' /\ RowsMove /\ StepsMove
<1>1. \A u \in Task : row'[u].attempt = row[u].attempt
  BY Zenon DEF RowsMove, Keeps, Moves
<1>2. StepsAreFresh'
  <2>1. ASSUME NEW u \in Task, NEW b \in Attempt
        PROVE  Unreached(agent'[u][b]) \subseteq Unreached(agent[u][b])
    BY <2>1, Zenon
  <2>. QED  BY <2>1, Zenon DEF IInv, StepsAreFresh
<1>3. OneAgent'
  BY <1>1 DEF IInv, OneAgent
<1>4. ArchivesTerminal'
  BY Zenon DEF IInv, ArchivesTerminal
<1>5. StepsMove
  BY Zenon DEF StepsMove
<1>. QED  BY <1>2, <1>3, <1>4, <1>5, Zenon DEF IInv

\* What a run's pc becomes when Goto, Returned or a launch sets it.
LEMMA RunPcs ==
    ASSUME TypeOK, NEW t \in Task, NEW a \in Attempt, NEW pc
    PROVE  /\ Goto(t, a, pc)[t][a].pc = pc
           /\ [run EXCEPT ![t][a] = Returned(@)][t][a].pc = "done"
           /\ \A u \in Task, b \in Attempt : <<u, b>> # <<t, a>> =>
                 /\ Goto(t, a, pc)[u][b] = run[u][b]
                 /\ [run EXCEPT ![t][a] = Returned(@)][u][b] = run[u][b]
BY DEF TypeOK, Goto, Returned

\* Every step of process() keeps the invariant and moves rows by the table.
LEMMA ProcessStep ==
    ASSUME IInv, NEW t \in Task, NEW a \in Attempt, Process(t, a)
    PROVE  IInv' /\ RowsMove /\ StepsMove
<1>1. TypeOK /\ TypeOK'
  BY ProcessType, Zenon DEF IInv
<1>2. CASE RefuseIdentity(t, a)
  <2>1. RowsMove
    BY <1>1, <1>2, ParkMoves, Zenon DEF RefuseIdentity
  <2>2. run[t][a].pc # "none" /\ step' = step /\ op' = op /\ agent' = agent
    BY <1>2, Zenon DEF RefuseIdentity, MayStart
  <2>3. run' = [run EXCEPT ![t][a] = Returned(@)]
    BY <1>2, Zenon DEF RefuseIdentity
  <2>. QED  BY <1>1, <2>1, <2>2, <2>3, RunPcs, RunStep
<1>3. CASE begin(t, a)
  <2>1. RowsMove
    BY <1>3, Zenon DEF begin, RowsMove, Keeps
  <2>2. run[t][a].pc = "submitted" /\ step' = step /\ op' = op /\ agent' = agent
    BY <1>3, Zenon DEF begin, MayStart
  <2>3. run' = Goto(t, a, "setup")
    BY <1>3, Zenon DEF begin
  <2>4. agent[t][a].pc = "none"
    BY <2>2, Zenon DEF IInv, OneAgent
  <2>. QED  BY <1>1, <2>1, <2>2, <2>3, <2>4, RunPcs, RunStep
<1>4. CASE prepareWorkspace(t, a)
  <2>1. RowsMove
    BY <1>1, <1>4, UpdateKeeps, Zenon DEF prepareWorkspace
  <2>2. run[t][a].pc = "setup" /\ step' = step /\ op' = op /\ agent' = agent
    BY <1>4, Zenon DEF prepareWorkspace
  <2>3. run' = Goto(t, a, "launch")
    BY <1>4, Zenon DEF prepareWorkspace
  <2>4. agent[t][a].pc = "none"
    BY <2>2, Zenon DEF IInv, OneAgent
  <2>. QED  BY <1>1, <2>1, <2>2, <2>3, <2>4, RunPcs, RunStep
<1>5. CASE SetupFails(t, a) \/ RequestFails(t, a) \/ runViaAgent(t, a)
  <2>1. RowsMove
    <3>1. ASSUME row' = row PROVE RowsMove
      BY <3>1, Zenon DEF RowsMove, Keeps
    <3>. QED  BY <1>1, <1>5, <3>1, ParkMoves, Zenon DEF SetupFails, RequestFails, runViaAgent
  <2>2. run[t][a].pc # "none" /\ step' = step /\ op' = op /\ agent' = agent
    BY <1>5, Zenon DEF SetupFails, RequestFails, runViaAgent
  <2>3. run' = Goto(t, a, "ending")
    BY <1>5, Zenon DEF SetupFails, RequestFails, runViaAgent
  <2>. QED  BY <1>1, <2>1, <2>2, <2>3, RunPcs, RunStep
<1>6. CASE acquireTaskContainer(t, a)
  <2>1. RowsMove
    BY <1>6, Zenon DEF acquireTaskContainer, RowsMove, Keeps
  <2>2. run[t][a].pc = "launch" /\ step' = step /\ op' = op
    BY <1>6, Zenon DEF acquireTaskContainer
  <2>3. run' = Goto(t, a, "waiting") /\ agent' = [agent EXCEPT ![t][a] = AgentAt("compile", 1, NoResult)]
    BY <1>6, Zenon DEF acquireTaskContainer
  <2>4. agent[t][a].pc = "none"
    BY <2>2, Zenon DEF IInv, OneAgent
  <2>5. Unreached(agent'[t][a]) \subseteq Unreached(agent[t][a])
    BY <2>4, Zenon DEF Unreached
  <2>6. \A u \in Task, b \in Attempt : <<u, b>> # <<t, a>> => agent'[u][b] = agent[u][b]
    BY <1>1, <2>3, Zenon DEF TypeOK
  <2>7. /\ run'[t][a].pc = "waiting"
        /\ \A u \in Task, b \in Attempt : <<u, b>> # <<t, a>> => run'[u][b].pc = run[u][b].pc
    BY <1>1, <2>3, RunPcs
  <2>. QED  BY <1>1, <2>1, <2>2, <2>5, <2>6, <2>7, RunStep, Zenon
<1>7. CASE finished(t, a)
  <2>1. RowsMove
    BY <1>7, Zenon DEF finished, RowsMove, Keeps
  <2>2. run[t][a].pc = "ending" /\ step' = step /\ op' = op
    BY <1>7, Zenon DEF finished
  <2>3. run' = [run EXCEPT ![t][a] = Returned(@)] /\ agent' = [agent EXCEPT ![t][a] = DeadAgent]
    BY <1>7, Zenon DEF finished
  <2>4. /\ agent'[t][a] = DeadAgent
        /\ \A u \in Task, b \in Attempt : <<u, b>> # <<t, a>> => agent'[u][b] = agent[u][b]
    BY <1>1, <2>3 DEF TypeOK
  <2>5. Unreached(agent'[t][a]) \subseteq Unreached(agent[t][a])
    BY <2>4 DEF Unreached, DeadAgent, AgentAt
  <2>6. /\ run'[t][a].pc = "done"
        /\ \A u \in Task, b \in Attempt : <<u, b>> # <<t, a>> => run'[u][b].pc = run[u][b].pc
    BY <1>1, <2>3, RunPcs
  <2>. QED  BY <1>1, <2>1, <2>2, <2>4, <2>5, <2>6, RunStep, Zenon
<1>. QED  BY <1>2, <1>3, <1>4, <1>5, <1>6, <1>7, Zenon DEF Process

\* The invariant survives a step of one agent that reaches no stage twice.
LEMMA AgentMove ==
    ASSUME IInv, TypeOK', NEW t \in Task, NEW a \in Attempt, NEW g,
           agent[t][a].pc # "none",
           agent' = [agent EXCEPT ![t][a] = g],
           Unreached(g) \subseteq Unreached(agent[t][a]),
           RowsMove, StepsMove, op' = op,
           \A u \in Task, b \in Attempt : run'[u][b].pc = run[u][b].pc,
           \A s \in StepId : step[s] = "none" /\ step'[s] # "none" =>
               s[1] = t /\ s[2] = a /\ s[3] \notin Unreached(g)
    PROVE  IInv'
<1>1. \A u \in Task : row'[u].attempt = row[u].attempt
  BY Zenon DEF RowsMove, Keeps, Moves
<1>2. /\ agent'[t][a] = g
      /\ \A u \in Task, b \in Attempt : <<u, b>> # <<t, a>> => agent'[u][b] = agent[u][b]
  BY DEF IInv, TypeOK
<1>3. StepsAreFresh'
  <2>1. SUFFICES ASSUME NEW u \in Task, NEW b \in Attempt, NEW i \in Unreached(agent'[u][b]),
                        NEW k \in {"stage", "agent"}
                 PROVE  step'[<<u, b, i, k>>] = "none"
    BY Zenon DEF StepsAreFresh
  <2>2. i \in Unreached(agent[u][b])
    BY <1>2, Zenon
  <2>3. step[<<u, b, i, k>>] = "none"
    BY <2>2, Zenon DEF IInv, StepsAreFresh
  <2>4. <<u, b, i, k>> \in StepId
    BY <2>2, Zenon DEF StepId, Unreached
  <2>5. u = t /\ b = a => i \in Unreached(g)
    BY <1>2, Zenon
  <2>. QED  BY <2>3, <2>4, <2>5, Zenon
<1>4. OneAgent'
  BY <1>1, <1>2 DEF IInv, OneAgent
<1>5. ArchivesTerminal'
  BY Zenon DEF IInv, ArchivesTerminal
<1>. QED  BY <1>3, <1>4, <1>5, Zenon DEF IInv

\* A start touches its own step, and only in the running attempt.
LEMMA StartMoves ==
    ASSUME TypeOK, NEW s \in StepId, NEW reply, step[s] = "none", step' = StartStep(s, reply)
    PROVE  StepsMove /\ \A r \in StepId : r # s => step'[r] = step[r]
BY Zenon DEF TypeOK, StartStep, StartAllowed, CheckStepStart, StepsMove

\* A finish closes an open step, and starts none.
LEMMA FinishMoves ==
    ASSUME TypeOK, NEW s \in StepId, NEW to \in StepDone, NEW reply, step' = FinishStep(s, to, reply)
    PROVE  StepsMove /\ \A r \in StepId : step[r] = "none" => step'[r] = "none"
BY Zenon DEF TypeOK, FinishStep, FinishAllowed, StepsMove

\* Where an agent stands, and what it has not reached, when its pc moves on.
LEMMA Reach ==
    ASSUME TypeOK, NEW t \in Task, NEW a \in Attempt, NEW pc
    PROVE  \E g : /\ AgentGoto(t, a, pc) = [agent EXCEPT ![t][a] = g]
                  /\ g.pc = pc /\ g.stage = agent[t][a].stage
<1>. DEFINE g == [agent[t][a] EXCEPT !.pc = pc]
<1>1. AgentGoto(t, a, pc) = [agent EXCEPT ![t][a] = g]
  BY Zenon DEF AgentGoto
<1>2. g.pc = pc /\ g.stage = agent[t][a].stage
  BY DEF TypeOK
<1>. QED  BY <1>1, <1>2, Zenon

\* An agent leaves its stages behind in order, so a step that only moves it on,
\* or ends its run, keeps the invariant.
LEMMA AgentQuiet ==
    ASSUME IInv, TypeOK', NEW t \in Task, NEW a \in Attempt, NEW g,
           agent[t][a].pc # "none", agent' = [agent EXCEPT ![t][a] = g],
           Unreached(g) \subseteq Unreached(agent[t][a]),
           RowsMove, step' = step, op' = op,
           \A u \in Task, b \in Attempt : run'[u][b].pc = run[u][b].pc
    PROVE  IInv' /\ StepsMove
<1>1. StepsMove
  BY Zenon DEF StepsMove
<1>. QED  BY <1>1, AgentMove, Zenon

\* The points of Run at which no stage is left to start.
LEMMA NothingLeft ==
    ASSUME NEW g, g.pc \in {"refused", "replied", "dead", "finish", "transition", "parkUpdate", "park"}
    PROVE  Unreached(g) = {}
BY Zenon DEF Unreached

\* The agent's steps that write no step row.
LEMMA AgentQuietSteps ==
    ASSUME IInv, NEW t \in Task, NEW a \in Attempt,
           \/ resumeStages(t, a) \/ CompileFails(t, a) \/ PersistStage(t, a) \/ EndBody(t, a)
           \/ Finish(t, a) \/ FinishTransition(t, a) \/ ParkUpdate(t, a) \/ ParkTransition(t, a)
           \/ ContainerDies(t, a)
    PROVE  IInv' /\ RowsMove /\ StepsMove
<1>1. TypeOK /\ TypeOK'
  BY AgentType1, AgentType2, Zenon DEF IInv
<1>2. step' = step /\ op' = op
  BY Zenon DEF resumeStages, CompileFails, PersistStage, EndBody, Finish, FinishTransition,
         ParkUpdate, ParkTransition, ContainerDies
<1>3. agent[t][a].pc # "none"
  BY Zenon DEF resumeStages, CompileFails, PersistStage, EndBody, Finish, FinishTransition,
         ParkUpdate, ParkTransition, ContainerDies, Working
<1>4. \A u \in Task, b \in Attempt : run'[u][b].pc = run[u][b].pc
  <2>1. CASE EndBody(t, a)
    <3>1. PICK f : run' = [run EXCEPT ![t][a].task = f]
      BY <2>1, Zenon DEF EndBody
    <3>. QED  BY <1>1, <3>1 DEF TypeOK
  <2>2. CASE run' = run
    BY <2>2, Zenon
  <2>. QED
    BY <2>1, <2>2, Zenon DEF resumeStages, CompileFails, PersistStage, Finish, FinishTransition,
                      ParkUpdate, ParkTransition, ContainerDies
<1>5. RowsMove
  <2>1. CASE row' = row
    BY <2>1, Zenon DEF RowsMove, Keeps
  <2>2. CASE \E fields, reply : row' = Update(t, fields, reply)
    BY <1>1, <2>2, UpdateKeeps, Zenon
  <2>3. CASE \E to, reply : to # "running" /\ row' = Transition(t, "running", to, reply)
    BY <1>1, <2>3, TransitionMoves, Zenon
  <2>4. agent[t][a].result[2] # "running"
    <3>1. agent[t][a].result \in Result
      BY <1>1 DEF TypeOK
    <3>. QED  BY <3>1 DEF Result, Outcome
  <2>. QED
    BY <2>1, <2>2, <2>3, <2>4, Zenon
       DEF resumeStages, CompileFails, PersistStage, EndBody, Finish, FinishTransition,
           ParkUpdate, ParkTransition, ContainerDies
<1>6. \E g : agent' = [agent EXCEPT ![t][a] = g] /\ Unreached(g) \subseteq Unreached(agent[t][a])
  <2>1. CASE resumeStages(t, a)
    <3>1. agent[t][a].pc = "compile"
      BY <2>1, Zenon DEF resumeStages
    <3>2. Unreached(agent[t][a]) = Stage
      BY <3>1, Zenon DEF Unreached
    <3>3. \A g : Unreached(g) \subseteq Stage
      BY Zenon DEF Unreached
    <3>. QED  BY <2>1, <3>2, <3>3, Zenon DEF resumeStages
  <2>2. CASE PersistStage(t, a)
    <3>1. agent[t][a].pc = "update" /\ (agent' = AgentGoto(t, a, "start") \/ agent' = AgentGoto(t, a, "parkUpdate"))
      BY <2>2, Zenon DEF PersistStage
    <3>2. PICK g : agent' = [agent EXCEPT ![t][a] = g] /\ g.pc \in {"start", "parkUpdate"}
                   /\ g.stage = agent[t][a].stage
      BY <1>1, <3>1, Reach
    <3>3. Unreached(g) \subseteq Unreached(agent[t][a])
      BY <3>1, <3>2, Zenon DEF Unreached
    <3>. QED  BY <3>2, <3>3, Zenon
  <2>3. CASE EndBody(t, a)
    <3>1. PICK result : agent' = [agent EXCEPT ![t][a] = AgentAt("record", agent[t][a].stage, result)]
      BY <2>3, Zenon DEF EndBody, BodyEnds
    <3>2. agent[t][a].pc = "body"
      BY <2>3, Zenon DEF EndBody
    <3>3. Unreached(AgentAt("record", agent[t][a].stage, result)) \subseteq Unreached(agent[t][a])
      BY <3>2, Zenon DEF Unreached, AgentAt
    <3>. QED  BY <3>1, <3>3, Zenon
  <2>4. CASE \E pc \in {"refused", "transition", "parkUpdate", "park", "replied"} : agent' = AgentGoto(t, a, pc)
    <3>1. PICK pc \in {"refused", "transition", "parkUpdate", "park", "replied"} : agent' = AgentGoto(t, a, pc)
      BY <2>4, Zenon
    <3>2. PICK g : agent' = [agent EXCEPT ![t][a] = g] /\ g.pc = pc
      BY <1>1, <3>1, Reach
    <3>3. Unreached(g) = {}
      BY <3>2, NothingLeft
    <3>. QED  BY <3>2, <3>3, Zenon
  <2>5. CASE agent' = [agent EXCEPT ![t][a] = AgentAt("replied", 1, NoResult)]
    <3>1. Unreached(AgentAt("replied", 1, NoResult)) = {}
      BY Zenon DEF Unreached, AgentAt
    <3>. QED  BY <2>5, <3>1, Zenon
  <2>6. CASE agent' = [agent EXCEPT ![t][a] = DeadAgent]
    <3>1. Unreached(DeadAgent) = {}
      BY Zenon DEF Unreached, DeadAgent, AgentAt
    <3>. QED  BY <2>6, <3>1, Zenon
  <2>. QED
    BY <2>1, <2>2, <2>3, <2>4, <2>5, <2>6, Zenon
       DEF CompileFails, Finish, FinishTransition, ParkUpdate, ParkTransition, ContainerDies
<1>. QED  BY <1>1, <1>2, <1>3, <1>4, <1>5, <1>6, AgentQuiet, Zenon

\* Where an agent stands when a stage body has ended.
LEMMA BodyReach ==
    ASSUME NEW t \in Task, NEW a \in Attempt, NEW result, agent[t][a].pc \in {"body", "child"}
    PROVE  \E g : /\ BodyEnds(t, a, result) = [agent EXCEPT ![t][a] = g]
                  /\ Unreached(g) \subseteq Unreached(agent[t][a])
                  /\ agent[t][a].stage \notin Unreached(g)
<1>. DEFINE g == AgentAt("record", agent[t][a].stage, result)
<1>1. BodyEnds(t, a, result) = [agent EXCEPT ![t][a] = g]
  BY Zenon DEF BodyEnds
<1>2. g.pc = "record" /\ g.stage = agent[t][a].stage
  BY Zenon DEF AgentAt
<1>3. Unreached(g) \subseteq Unreached(agent[t][a])
  BY <1>2, Zenon DEF Unreached
<1>4. agent[t][a].stage \notin Unreached(g)
  BY SMTT(30), <1>2 DEF Unreached, Stage
<1>. QED  BY <1>1, <1>3, <1>4, Zenon

\* The agent's steps that start one.
LEMMA AgentStarts ==
    ASSUME IInv, NEW t \in Task, NEW a \in Attempt, StartStage(t, a) \/ startChildStep(t, a)
    PROVE  IInv' /\ RowsMove /\ StepsMove
<1>1. TypeOK /\ TypeOK'
  BY AgentType1, Zenon DEF IInv
<1>2. RowsMove /\ run' = run /\ op' = op
  BY Zenon DEF StartStage, startChildStep, RowsMove, Keeps
<1>3. agent[t][a].stage \in Stage /\ StageStep(t, a) \in StepId /\ ChildStep(t, a) \in StepId
  BY <1>1 DEF TypeOK, StageStep, ChildStep, StepId
<1>4. CASE StartStage(t, a)
  <2>1. agent[t][a].pc = "start"
    BY <1>4, Zenon DEF StartStage
  <2>2. agent[t][a].stage \in Unreached(agent[t][a])
    BY <1>3, <2>1 DEF Unreached, Stage
  <2>3. step[StageStep(t, a)] = "none"
    BY <2>2, Zenon DEF IInv, StepsAreFresh, StageStep
  <2>4. PICK reply : step' = StartStep(StageStep(t, a), reply)
    BY <1>4, Zenon DEF StartStage
  <2>5. StepsMove /\ \A s \in StepId : s # StageStep(t, a) => step'[s] = step[s]
    BY <1>1, <1>3, <2>3, <2>4, StartMoves, Zenon
  <2>6. PICK pc \in {"body", "parkUpdate"} : agent' = AgentGoto(t, a, pc)
    BY <1>4, Zenon DEF StartStage
  <2>7. PICK g : agent' = [agent EXCEPT ![t][a] = g] /\ g.pc = pc /\ g.stage = agent[t][a].stage
    BY <1>1, <2>6, Reach
  <2>8. Unreached(g) \subseteq Unreached(agent[t][a]) /\ agent[t][a].stage \notin Unreached(g)
    BY <1>3, <2>1, <2>6, <2>7 DEF Unreached, Stage
  <2>9. \A s \in StepId : step[s] = "none" /\ step'[s] # "none" =>
           s[1] = t /\ s[2] = a /\ s[3] \notin Unreached(g)
    BY <2>5, <2>8 DEF StageStep
  <2>. QED  BY <1>1, <1>2, <2>1, <2>5, <2>7, <2>8, <2>9, AgentMove, Zenon
<1>5. CASE startChildStep(t, a)
  <2>1. agent[t][a].pc = "body" /\ step[ChildStep(t, a)] = "none"
    BY <1>5, Zenon DEF startChildStep
  <2>2. PICK reply : step' = StartStep(ChildStep(t, a), reply)
    BY <1>5, Zenon DEF startChildStep
  <2>3. StepsMove /\ \A s \in StepId : s # ChildStep(t, a) => step'[s] = step[s]
    BY <1>1, <1>3, <2>1, <2>2, StartMoves, Zenon
  <2>4. PICK g : /\ agent' = [agent EXCEPT ![t][a] = g]
                 /\ Unreached(g) \subseteq Unreached(agent[t][a])
                 /\ agent[t][a].stage \notin Unreached(g)
    <3>1. CASE agent' = AgentGoto(t, a, "child")
      <4>1. PICK g : agent' = [agent EXCEPT ![t][a] = g] /\ g.pc = "child" /\ g.stage = agent[t][a].stage
        BY <1>1, <3>1, Reach
      <4>2. Unreached(g) \subseteq Unreached(agent[t][a]) /\ agent[t][a].stage \notin Unreached(g)
        BY <1>3, <2>1, <4>1 DEF Unreached, Stage
      <4>. QED  BY <4>1, <4>2, Zenon
    <3>2. CASE \E result : agent' = BodyEnds(t, a, result)
      BY <2>1, <3>2, BodyReach
    <3>. QED  BY <1>5, <3>1, <3>2, Zenon DEF startChildStep
  <2>5. \A s \in StepId : step[s] = "none" /\ step'[s] # "none" =>
           s[1] = t /\ s[2] = a /\ s[3] \notin Unreached(g)
    BY <2>3, <2>4 DEF ChildStep
  <2>. QED  BY <1>1, <1>2, <2>1, <2>3, <2>4, <2>5, AgentMove, Zenon
<1>. QED  BY <1>4, <1>5, Zenon

\* The agent's steps that finish one.
LEMMA AgentFinishes ==
    ASSUME IInv, NEW t \in Task, NEW a \in Attempt,
           finishChildStep(t, a) \/ FinishStage(t, a) \/ Interrupted(t, a)
    PROVE  IInv' /\ RowsMove /\ StepsMove
<1>1. TypeOK /\ TypeOK'
  BY AgentType1, AgentType2, Zenon DEF IInv
<1>2. RowsMove /\ run' = run /\ op' = op
  BY Zenon DEF finishChildStep, FinishStage, Interrupted, RowsMove, Keeps
<1>3. /\ agent[t][a].stage \in Stage /\ agent[t][a].result \in Result
      /\ StageStep(t, a) \in StepId /\ ChildStep(t, a) \in StepId
  BY <1>1 DEF TypeOK, StageStep, ChildStep, StepId
<1>4. agent[t][a].pc # "none"
  BY Zenon DEF finishChildStep, FinishStage, Interrupted, Working
<1>5. StepsMove /\ \A s \in StepId : step[s] = "none" => step'[s] = "none"
  <2>1. CASE \E s \in StepId, to \in StepDone : \E reply : step' = FinishStep(s, to, reply)
    BY <1>1, <2>1, FinishMoves, Zenon
  <2>2. CASE step' = step
    BY <2>2, Zenon DEF StepsMove
  <2>3. agent[t][a].result[1] \in StepDone
    BY <1>3 DEF Result, StepDone, StepTerminal
  <2>4. {"succeeded", "failed", "interrupted"} \subseteq StepDone
    BY Zenon DEF StepDone, StepTerminal
  <2>. QED  BY <1>3, <2>1, <2>2, <2>3, <2>4 DEF finishChildStep, FinishStage, Interrupted
<1>6. \E g : agent' = [agent EXCEPT ![t][a] = g] /\ Unreached(g) \subseteq Unreached(agent[t][a])
  <2>1. CASE finishChildStep(t, a)
    <3>1. agent[t][a].pc = "child"
      BY <2>1, Zenon DEF finishChildStep
    <3>2. CASE agent' = AgentGoto(t, a, "body")
      <4>1. PICK g : agent' = [agent EXCEPT ![t][a] = g] /\ g.pc = "body" /\ g.stage = agent[t][a].stage
        BY <1>1, <3>2, Reach
      <4>2. Unreached(g) \subseteq Unreached(agent[t][a])
        BY <3>1, <4>1, Zenon DEF Unreached
      <4>. QED  BY <4>1, <4>2, Zenon
    <3>3. CASE \E result : agent' = BodyEnds(t, a, result)
      BY <3>1, <3>3, BodyReach
    <3>. QED  BY <2>1, <3>2, <3>3, Zenon DEF finishChildStep
  <2>2. CASE FinishStage(t, a)
    <3>1. agent[t][a].pc = "record"
      BY <2>2, Zenon DEF FinishStage
    <3>2. Unreached(AgentAt("parkUpdate", 1, NoResult)) = {}
      BY Zenon DEF Unreached, AgentAt
    <3>3. Unreached(AfterStage(t, a, agent[t][a].result[2])) \subseteq Unreached(agent[t][a])
      BY SMTT(60), <1>3, <3>1 DEF AfterStage, Unreached, AgentAt, Stage
    <3>. QED  BY <2>2, <3>2, <3>3, Zenon DEF FinishStage
  <2>3. CASE Interrupted(t, a)
    <3>1. Unreached(AgentAt("replied", 1, NoResult)) = {}
      BY Zenon DEF Unreached, AgentAt
    <3>. QED  BY <2>3, <3>1, Zenon DEF Interrupted
  <2>. QED  BY <2>1, <2>2, <2>3, Zenon
<1>. QED  BY <1>1, <1>2, <1>4, <1>5, <1>6, AgentMove

-----------------------------------------------------------------------------
(***************************************************************************)
(* TaskRuns implements Execution: operators, intake, claims, crash and     *)
(* recovery, and the refinement itself.                                    *)
(***************************************************************************)

\* What a step may do to a row beyond a move along the table.
Creates(t) ==
    /\ row[t].status = "none" /\ row'[t].status = "queued"
    /\ row'[t].attempt = row[t].attempt
Claims(t) ==
    /\ CanTransition(row[t].status, "running") /\ row'[t].status = "running"
    /\ row'[t].attempt = row[t].attempt + 1
Archives(t) ==
    /\ row[t].status \in Terminal /\ row'[t].status = "archived"
    /\ row'[t].attempt = row[t].attempt
RowsFollow == \A t \in Task : Keeps(t) \/ Moves(t) \/ Creates(t) \/ Claims(t) \/ Archives(t)

\* The invariant survives a step that touches neither agents nor the runs'
\* progress, starts no step and claims nothing.
LEMMA StoreKeeps ==
    ASSUME IInv, TypeOK', agent' = agent,
           \A u \in Task, b \in Attempt : run'[u][b].pc = run[u][b].pc,
           \A u \in Task : row'[u].attempt = row[u].attempt,
           \A s \in StepId : step[s] = "none" => step'[s] = "none",
           ArchivesTerminal'
    PROVE  IInv'
<1>1. StepsAreFresh'
  <2>1. \A u \in Task, b \in Attempt : \A i \in Unreached(agent[u][b]), k \in {"stage", "agent"} :
          <<u, b, i, k>> \in StepId
    BY Zenon DEF StepId, Unreached
  <2>2. \A u \in Task, b \in Attempt : Unreached(agent'[u][b]) = Unreached(agent[u][b])
    BY Zenon
  <2>. QED  BY <2>1, <2>2, Zenon DEF IInv, StepsAreFresh
<1>2. OneAgent'
  BY Zenon DEF IInv, OneAgent
<1>. QED  BY <1>1, <1>2, Zenon DEF IInv

\* A sweep closes open steps, and starts none.
LEMMA SweepMoves ==
    ASSUME TypeOK, NEW tasks, NEW open, NEW to, step' = Swept(tasks, open, to),
           \/ open = {"pending", "running"} /\ to = "cancelled"
           \/ open = {"running"} /\ to = "interrupted"
    PROVE  StepsMove /\ \A s \in StepId : step[s] = "none" => step'[s] = "none"
BY Zenon DEF TypeOK, Swept, StepsMove, StepDone, StepTerminal

\* Only terminal statuses offer archive.
LEMMA ArchiveOffered ==
    ASSUME NEW t \in Task, row[t].status \in Status, "archive" \in Offered(t)
    PROVE  row[t].status \in Terminal
<1>1. "archive" \in Actions(row[t].status)
  BY Zenon DEF Offered
<1>. QED  BY <1>1, Zenon DEF Actions, Status, Terminal

\* What operators do: each acts on the row as it is by then, not as it was read.
LEMMA OperateStep ==
    ASSUME IInv, NEW o \in Operator, Operate(o)
    PROVE  IInv' /\ RowsFollow /\ StepsMove /\ \A u \in Task : row'[u].attempt = row[u].attempt
<1>. DEFINE t == op[o].task
<1>1. TypeOK /\ TypeOK'
  BY OperateType, Zenon DEF IInv
<1>2. /\ row \in [Task -> [status : Status \cup Absent, attempt : 0 .. MaxAttempt, task : Fields]]
      /\ op[o].pc \in {"act", "deliver"} => t \in Task
      /\ op \in [Operator -> {NoOp} \cup [pc : {"act", "deliver"}, task : Task, action : Verb,
                                        seen : Status, retries : Nat, resume : ResumePoint]]
  BY <1>1 DEF TypeOK, NoOp
<1>3. agent' = agent
  BY Zenon DEF Operate, Apply, CancelExecution, CancelTask, applyApprove, applyRetry, applyMerge, applyArchive
<1>4. \A u \in Task, b \in Attempt : run'[u][b].pc = run[u][b].pc
  <2>1. CASE run' = run
    BY <2>1, Zenon
  <2>2. CASE CancelTask(o)
    BY SMTT(60), <1>1, <2>2 DEF CancelTask, TypeOK
  <2>. QED
    BY <2>1, <2>2, Zenon DEF Operate, Apply, CancelExecution, applyApprove, applyRetry, applyMerge, applyArchive
<1>5. StepsMove /\ \A s \in StepId : step[s] = "none" => step'[s] = "none"
  <2>1. CASE step' = step
    BY <2>1, Zenon DEF StepsMove
  <2>2. CASE CancelExecution(o)
    BY <1>1, <2>1, <2>2, SweepMoves, Zenon DEF CancelExecution
  <2>. QED
    BY <2>1, <2>2, Zenon DEF Operate, Apply, CancelTask, applyApprove, applyRetry, applyMerge, applyArchive
<1>6. ArchivesTerminal'
  <2>1. CASE \E u \in Task : Apply(o, u)
    <3>1. PICK u \in Task : Apply(o, u)
      BY <2>1, Zenon
    <3>2. PICK action \in Offered(u), resume \in ResumePoint :
            op' = [op EXCEPT ![o] = [pc |-> "act", task |-> u, action |-> action,
                                     seen |-> row[u].status, retries |-> row[u].task.retries,
                                     resume |-> resume]]
      BY <3>1, Zenon DEF Apply
    <3>3. row[u].status \in Status
      BY <1>2, <3>1, Zenon DEF Apply
    <3>4. action = "archive" => row[u].status \in Terminal
      BY <3>3, ArchiveOffered, Zenon
    <3>. QED  BY <1>2, <3>2, <3>4, Zenon DEF IInv, ArchivesTerminal
  <2>2. CASE op' = [op EXCEPT ![o] = NoOp]
    BY <1>2, <2>2, Zenon DEF IInv, ArchivesTerminal, NoOp
  <2>3. CASE op' = [op EXCEPT ![o] = [@ EXCEPT !.pc = "deliver"]] /\ op[o].pc = "act"
    BY <1>2, <2>3 DEF IInv, ArchivesTerminal, NoOp
  <2>. QED
    BY <2>1, <2>2, <2>3, Zenon DEF Operate, CancelExecution, CancelTask, applyApprove, applyRetry, applyMerge, applyArchive
<1>7. RowsFollow /\ \A u \in Task : row'[u].attempt = row[u].attempt
  <2>0. RowsMove => RowsFollow /\ \A u \in Task : row'[u].attempt = row[u].attempt
    BY Zenon DEF RowsMove, RowsFollow, Keeps, Moves
  <2>1. CASE row' = row
    BY <2>0, <2>1, Zenon DEF RowsMove, Keeps
  <2>2. CASE CancelExecution(o)
    <3>1. CancelTarget(op[o].action) # "running"
      BY <2>2, Zenon DEF CancelExecution, CancelTarget, ActionTarget, Cancels
    <3>. QED  BY <1>2, <2>0, <2>2, <3>1, Zenon DEF CancelExecution, Moved, RowsMove, Keeps, Moves
  <2>3. CASE applyApprove(o)
    BY <1>1, <1>2, <2>0, <2>3, TransitionMoves, Zenon DEF applyApprove
  <2>4. CASE applyRetry(o)
    <3>1. CASE AtRetryCap(op[o].retries)
      BY <1>1, <1>2, <2>0, <2>4, <3>1, TransitionMoves, Zenon DEF applyRetry
    <3>2. CASE ~AtRetryCap(op[o].retries)
      <4>1. \/ row' = row
            \/ /\ guardTransition(t, "parked", "queued")
               /\ \E f : row' = [row EXCEPT ![t] = [status |-> "queued", attempt |-> row[t].attempt, task |-> f]]
        BY <2>4, <3>2, Zenon DEF applyRetry
      <4>2. t \in Task
        BY <1>2, <2>4, Zenon DEF applyRetry
      <4>. HIDE DEF t
      <4>. QED  BY <1>2, <2>0, <4>1, <4>2 DEF guardTransition, RowsMove, Keeps, Moves
    <3>. QED  BY <3>1, <3>2, Zenon
  <2>5. CASE applyMerge(o)
    BY <1>1, <1>2, <2>0, <2>1, <2>5, TransitionMoves, Zenon DEF applyMerge
  <2>6. CASE applyArchive(o)
    <3>1. op[o].seen \in Terminal
      BY <2>6, Zenon DEF IInv, ArchivesTerminal, applyArchive
    <3>. QED  BY <1>2, <2>6, <3>1 DEF applyArchive, Moved, RowsFollow, Keeps, Archives
  <2>. QED
    BY <2>1, <2>2, <2>3, <2>4, <2>5, <2>6, Zenon DEF Operate, Apply, CancelTask
<1>. QED  BY <1>1, <1>3, <1>4, <1>5, <1>6, <1>7, StoreKeeps, Zenon

\* Intake, claims and the forge: a claim takes an attempt no run has had.
LEMMA IntakeStep ==
    ASSUME IInv, NEW t \in Task, Enqueue(t) \/ ClaimNext(t) \/ reconcilePRs(t) \/ BeginRemediation(t)
    PROVE  IInv' /\ RowsFollow /\ StepsMove
<1>1. TypeOK /\ TypeOK'
  BY StoreType, Zenon DEF IInv
<1>2. row \in [Task -> [status : Status \cup Absent, attempt : 0 .. MaxAttempt, task : Fields]]
  BY <1>1, Zenon DEF TypeOK
<1>3. step' = step /\ agent' = agent /\ op' = op
  BY Zenon DEF Enqueue, ClaimNext, reconcilePRs, BeginRemediation
<1>4. StepsMove /\ ArchivesTerminal'
  BY <1>3, Zenon DEF IInv, StepsMove, ArchivesTerminal
<1>5. RowsMove => RowsFollow /\ \A u \in Task : row'[u].attempt = row[u].attempt
  BY Zenon DEF RowsMove, RowsFollow, Keeps, Moves
<1>6. CASE Enqueue(t)
  <2>1. RowsFollow /\ \A u \in Task : row'[u].attempt = row[u].attempt
    BY <1>2, <1>6 DEF Enqueue, Moved, RowsFollow, Keeps, Creates
  <2>. QED  BY <1>1, <1>3, <1>4, <1>6, <2>1, StoreKeeps, Zenon DEF Enqueue
<1>7. CASE reconcilePRs(t)
  <2>1. RowsMove
    BY <1>1, <1>7, TransitionMoves, Zenon DEF reconcilePRs
  <2>. QED  BY <1>1, <1>3, <1>4, <1>5, <1>7, <2>1, StoreKeeps, Zenon DEF reconcilePRs
<1>8. CASE BeginRemediation(t)
  <2>1. PICK f : row' = [row EXCEPT ![t] = [status |-> "queued", attempt |-> row[t].attempt, task |-> f]]
    BY <1>8, Zenon DEF BeginRemediation
  <2>2. CanTransition(row[t].status, "queued")
    BY <1>8, Zenon DEF BeginRemediation, guardTransition
  <2>3. RowsMove
    BY <1>2, <2>1, <2>2, Zenon DEF RowsMove, Keeps, Moves
  <2>. QED  BY <1>1, <1>3, <1>4, <1>5, <1>8, <2>3, StoreKeeps, Zenon DEF BeginRemediation
<1>9. CASE ClaimNext(t)
  <2>. DEFINE a == row[t].attempt + 1
              f == [row[t].task EXCEPT !.outputs = 0]
  <2>a. row[t].status = "queued" /\ a \in Attempt
    BY <1>2, <1>9, TaskRunsAssumption DEF ClaimNext, Attempt
  <2>b. row' = [row EXCEPT ![t] = [status |-> "running", attempt |-> a, task |-> f]]
    BY <1>9, Zenon DEF ClaimNext
  <2>c. run' = [run EXCEPT ![t][a] = [pc |-> "submitted", cancelled |-> FALSE, ran |-> f.wf, task |-> f]]
    BY <1>9, Zenon DEF ClaimNext
  <2>. HIDE DEF f
  <2>1. /\ row[t].status = "queued" /\ a \in Attempt
        /\ \E g : row' = [row EXCEPT ![t] = [status |-> "running", attempt |-> a, task |-> g]]
        /\ \E w, g : run' = [run EXCEPT ![t][a] = [pc |-> "submitted", cancelled |-> FALSE,
                                                    ran |-> w, task |-> g]]
    BY <2>a, <2>b, <2>c, Zenon
  <2>2. /\ row'[t].status = "running" /\ row'[t].attempt = a
        /\ \A u \in Task : u # t => row'[u] = row[u]
    BY <1>2, <2>1
  <2>3. CanTransition("queued", "running")
    BY Zenon DEF CanTransition, executionTransitions
  <2>4. RowsFollow
    BY <2>1, <2>2, <2>3, Zenon DEF RowsFollow, Keeps, Claims
  <2>5. agent[t][a].pc = "none"
    <3>1. a > row[t].attempt
      BY <1>2
    <3>. QED  BY <2>1, <3>1, Zenon DEF IInv, OneAgent
  <2>6. /\ run'[t][a].pc = "submitted"
        /\ \A u \in Task, b \in Attempt : <<u, b>> # <<t, a>> => run'[u][b] = run[u][b]
    BY <1>1, <2>1 DEF TypeOK
  <2>7. OneAgent'
    <3>1. ASSUME NEW u \in Task, NEW b \in Attempt
          PROVE  run'[u][b].pc \in {"none", "submitted", "setup", "launch"} => agent'[u][b].pc = "none"
      BY <1>3, <2>5, <2>6, Zenon DEF IInv, OneAgent
    <3>2. ASSUME NEW u \in Task, NEW b \in Attempt, b > row'[u].attempt
          PROVE  run'[u][b].pc = "none"
      <4>1. b > row[u].attempt /\ <<u, b>> # <<t, a>>
        <5>1. CASE u = t
          BY <1>2, <2>2, <3>2, <5>1 DEF Attempt
        <5>2. CASE u # t
          BY <2>2, <3>2, <5>2, Zenon
        <5>. QED  BY <5>1, <5>2, Zenon
      <4>. QED  BY <2>6, <4>1 DEF IInv, OneAgent
    <3>. QED  BY <3>1, <3>2, Zenon DEF OneAgent
  <2>8. StepsAreFresh'
    BY <1>3, Zenon DEF IInv, StepsAreFresh
  <2>. QED  BY <1>1, <1>4, <2>4, <2>7, <2>8, Zenon DEF IInv
<1>. QED  BY <1>6, <1>7, <1>8, <1>9, Zenon

\* Crash and recovery: containers that outlive the daemon go on from where
\* they stand, and recovery moves rows and steps by the tables.
LEMMA CrashStep ==
    ASSUME IInv, Crash \/ recoverOrphans \/ RecoverStale
    PROVE  IInv' /\ RowsFollow /\ StepsMove
<1>1. TypeOK /\ TypeOK'
  BY StoreType, Zenon DEF IInv
<1>2. row \in [Task -> [status : Status \cup Absent, attempt : 0 .. MaxAttempt, task : Fields]]
  BY <1>1, Zenon DEF TypeOK
<1>3. CASE Crash
  <2>1. \A t \in Task, a \in Attempt :
          run'[t][a].pc = IF run[t][a].pc = "none" THEN "none" ELSE "done"
    BY <1>1, <1>3 DEF Crash, TypeOK
  <2>2. OneAgent'
    BY <1>3, <2>1 DEF Crash, IInv, OneAgent
  <2>3. StepsAreFresh'
    BY <1>3, Zenon DEF Crash, IInv, StepsAreFresh
  <2>4. ArchivesTerminal'
    BY <1>3, Zenon DEF Crash, ArchivesTerminal, NoOp
  <2>. QED  BY <1>1, <1>3, <2>2, <2>3, <2>4, Zenon DEF Crash, IInv, RowsFollow, Keeps, StepsMove
<1>4. CASE recoverOrphans
  <2>1. \A t \in Task, a \in Attempt :
          \/ agent'[t][a] = agent[t][a]
          \/ agent'[t][a] = DeadAgent /\ agent[t][a].pc # "none"
    <3>1. PICK left : agent' = [t \in Task |-> [a \in Attempt |->
                          IF <<t, a>> \in Orphans \ left THEN DeadAgent ELSE agent[t][a]]]
      BY <1>4, Zenon DEF recoverOrphans
    <3>2. ASSUME NEW t \in Task, NEW a \in Attempt, <<t, a>> \in Orphans
          PROVE  agent[t][a].pc # "none"
      BY <3>2, Zenon DEF Orphans
    <3>. HIDE DEF Orphans
    <3>. QED  BY <3>1, <3>2, Zenon
  <2>2. Unreached(DeadAgent) = {}
    BY Zenon DEF Unreached, DeadAgent, AgentAt
  <2>3. \A t \in Task, a \in Attempt : Unreached(agent'[t][a]) \subseteq Unreached(agent[t][a])
    BY <2>1, <2>2, Zenon
  <2>4. StepsAreFresh'
    BY <1>4, <2>3, Zenon DEF recoverOrphans, IInv, StepsAreFresh
  <2>5. OneAgent'
    BY <1>4, <2>1, Zenon DEF recoverOrphans, IInv, OneAgent
  <2>6. ArchivesTerminal'
    BY <1>4, Zenon DEF recoverOrphans, IInv, ArchivesTerminal
  <2>. QED  BY <1>1, <1>4, <2>4, <2>5, <2>6, Zenon DEF recoverOrphans, IInv, RowsFollow, Keeps, StepsMove
<1>5. CASE RecoverStale
  <2>1. StepsMove /\ \A s \in StepId : step[s] = "none" => step'[s] = "none"
    BY <1>1, <1>5, SweepMoves, Zenon DEF RecoverStale
  <2>2. CanTransition("running", "queued")
    BY Zenon DEF CanTransition, executionTransitions
  <2>3. RowsMove
    BY <1>2, <1>5, <2>2, Zenon DEF RecoverStale, Recovered, RowsMove, Keeps, Moves
  <2>4. RowsFollow /\ \A u \in Task : row'[u].attempt = row[u].attempt
    BY <2>3, Zenon DEF RowsMove, RowsFollow, Keeps, Moves
  <2>5. agent' = agent /\ run' = run /\ ArchivesTerminal'
    BY <1>5, Zenon DEF RecoverStale, IInv, ArchivesTerminal
  <2>. QED  BY <1>1, <2>1, <2>4, <2>5, StoreKeeps, Zenon
<1>. QED  BY <1>3, <1>4, <1>5, Zenon

\* Before any task there is no run, no agent, no step and no operator's action.
LEMMA InitInv == Init => IInv /\ Exec!Init
<1>. SUFFICES ASSUME Init PROVE IInv /\ Exec!Init
  BY Zenon
<1>1. PICK w \in Workflow :
        /\ row = [t \in Task |-> [status |-> "none", attempt |-> 0, task |-> Blank(w)]]
        /\ run = [t \in Task |-> [a \in Attempt |->
                    [pc |-> "none", cancelled |-> FALSE, ran |-> w, task |-> Blank(w)]]]
  BY Zenon DEF Init
<1>2. StepsAreFresh
  <2>1. \A t \in Task, a \in Attempt : \A i \in Unreached(agent[t][a]), k \in {"stage", "agent"} :
          <<t, a, i, k>> \in StepId
    BY Zenon DEF StepId, Unreached
  <2>. QED  BY <2>1, Zenon DEF Init, StepsAreFresh
<1>3. OneAgent
  BY <1>1 DEF Init, OneAgent, NoAgent, AgentAt
<1>4. ArchivesTerminal
  BY DEF Init, ArchivesTerminal, NoOp
<1>5. Exec!Init
  <2>1. [t \in Task |-> row[t].status] = [t \in Task |-> "none"]
    BY <1>1, Zenon
  <2>2. [t \in Task |-> row[t].attempt] = [t \in Task |-> 0]
    BY <1>1, Zenon
  <2>3. [s \in StepId |-> IF step[s] = "failed_past" THEN "failed" ELSE step[s]] = [s \in StepId |-> "none"]
    BY Zenon DEF Init
  <2>. QED  BY <2>1, <2>2, <2>3, Zenon DEF Exec!Init
<1>. QED  BY <1>2, <1>3, <1>4, <1>5, InitType, Zenon DEF IInv

\* Every step keeps the invariant, moves rows as the store allows, and moves
\* steps along their table.
LEMMA NextInv ==
    ASSUME IInv, [Next]_vars
    PROVE  IInv' /\ RowsFollow /\ StepsMove
<1>1. RowsMove => RowsFollow
  BY Zenon DEF RowsMove, RowsFollow
<1>2. ASSUME NEW t \in Task, NEW a \in Attempt, AgentStep(t, a) \/ Interrupted(t, a) \/ ContainerDies(t, a)
      PROVE  IInv' /\ RowsFollow /\ StepsMove
  <2>1. CASE StartStage(t, a) \/ startChildStep(t, a)
    BY <1>1, <2>1, AgentStarts, Zenon
  <2>2. CASE finishChildStep(t, a) \/ FinishStage(t, a) \/ Interrupted(t, a)
    BY <1>1, <2>2, AgentFinishes, Zenon
  <2>3. CASE ~(StartStage(t, a) \/ startChildStep(t, a) \/ finishChildStep(t, a)
               \/ FinishStage(t, a) \/ Interrupted(t, a))
    BY <1>1, <1>2, <2>3, AgentQuietSteps, Zenon DEF AgentStep
  <2>. QED  BY <2>1, <2>2, <2>3, Zenon
<1>3. CASE Next
  BY <1>1, <1>2, <1>3, ProcessStep, OperateStep, IntakeStep, CrashStep, Zenon DEF Next
<1>4. CASE UNCHANGED vars
  BY <1>4 DEF vars, IInv, TypeOK, StepsAreFresh, OneAgent, ArchivesTerminal, RowsFollow, Keeps, StepsMove
<1>. QED  BY <1>3, <1>4, Zenon

\* Such a step is one of Execution's.
LEMMA NextRefines ==
    ASSUME TypeOK, TypeOK', RowsFollow, StepsMove
    PROVE  Exec!Next
<1>. DEFINE st == [t \in Task |-> row[t].status]
            at == [t \in Task |-> row[t].attempt]
            ss == [s \in StepId |-> IF step[s] = "failed_past" THEN "failed" ELSE step[s]]
<1>1. st' \in [Task -> Status \cup Absent] /\ DOMAIN at' = Task /\ DOMAIN ss' = StepId
  BY Zenon DEF TypeOK
<1>2. ASSUME NEW t \in Task
      PROVE  Exec!Enqueued(t) \/ Exec!Claimed(t) \/ Exec!Transitioned(t) \/ Exec!Archived(t) \/ Exec!RowStays(t)
  <2>1. Keeps(t) \/ Moves(t) \/ Creates(t) \/ Claims(t) \/ Archives(t)
    BY Zenon DEF RowsFollow
  <2>. QED
    BY <2>1, Zenon DEF Keeps, Moves, Creates, Claims, Archives, CanTransition, executionTransitions, Terminal,
                Exec!Enqueued, Exec!Claimed, Exec!Transitioned, Exec!Archived, Exec!RowStays,
                Exec!CanTransition, Exec!executionTransitions, Exec!Terminal
<1>3. ASSUME NEW s \in StepId
      PROVE  Exec!StepStarted(s) \/ Exec!StepFinished(s) \/ Exec!StepStays(s)
  <2>0. s[1] \in Task /\ step[s] \in StepValue
    BY Zenon DEF StepId, TypeOK
  <2>1. CASE step'[s] = step[s]
    BY <2>1, Zenon DEF Exec!StepStays
  <2>2. CASE /\ step[s] = "none" /\ step'[s] = "running"
             /\ row[s[1]].status = "running" /\ row[s[1]].attempt = s[2]
    BY <2>0, <2>2, Zenon DEF Exec!StepStarted
  <2>3. CASE step[s] \in {"pending", "running"} /\ step'[s] = "cancelled"
    BY <2>3, Zenon DEF Exec!StepFinished, Exec!CanStepTransition, Exec!stepTransitions
  <2>4. CASE step[s] = "running" /\ step'[s] \in StepDone
    BY <2>4, Zenon DEF StepDone, StepTerminal, Exec!StepFinished, Exec!CanStepTransition, Exec!stepTransitions
  <2>. QED  BY <2>1, <2>2, <2>3, <2>4, Zenon DEF StepsMove
<1>. QED  BY <1>1, <1>2, <1>3, Zenon DEF Exec!Next, Exec!Status, Exec!Absent, Status, Absent

\* No attempt has two agents, no agent starts a step twice, and only terminal
\* rows are archived, for any tasks, attempts, operators and faults.
THEOREM Inductive == Spec => []IInv
BY InitInv, NextInv, PTL DEF Spec

\* The store keeps its promise about executions whatever runs, stale agents,
\* operators, crashes and recoveries do: rows and steps move by the tables of
\* taskstate, a claim alone begins an attempt, and a step starts only in the
\* attempt that is running.
THEOREM Implements == Spec => Lifecycle
<1>1. IInv /\ [Next]_vars => [Exec!Next]_Exec!execVars
  BY NextInv, NextRefines, Zenon DEF IInv
<1>. QED  BY <1>1, InitInv, Inductive, PTL DEF Spec, Lifecycle, Exec!Spec
=============================================================================
