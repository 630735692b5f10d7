--------------------------- MODULE TaskRunsSafety ---------------------------
(***************************************************************************)
(* The safety invariants of TaskRuns that need more than IInv: no row says *)
(* running without a run, the registry lists what executes, a settled row  *)
(* has no open step, and an attempt skips only what an earlier one ran.    *)
(***************************************************************************)
EXTENDS TaskRunsProofs

USE SMTT(20), ZenonT(20)

\* The row no longer says that attempt a is running.
Left(t, a) == ~(row[t].status = "running" /\ row[t].attempt = a)

\* Where every store call answers and no container is stopped from outside, a run
\* unwinds, and an agent answers, only after the row has left the attempt.
RunsAreAnswered ==
    /\ \A t \in Task, a \in Attempt : run[t][a].pc = "ending" \/ agent[t][a].pc = "replied" => Left(t, a)
    /\ \A t \in Task, a \in Attempt : agent[t][a].pc \in {"finish", "transition"} => agent[t][a].result[2] \in Outcome
    /\ \A t \in Task : row[t].status = "running" => row[t].attempt \in Attempt
    /\ RunningHasRun

\* Under the repository's baton an attempt that started found the earlier ones over.
BatonHolds ==
    \A t \in Task, a, b \in Attempt :
        a < b /\ run[t][b].pc \notin {"none", "submitted"} => run[t][a].pc \in {"none", "done"}

\* A run that is over leaves no live agent, but for the time a crashed daemon is
\* down: so no two agents of a task are alive.
AgentsGo ==
    /\ MaxCrashes = 0 => up = "up"
    /\ up # "up" => \A t \in Task, a \in Attempt : run[t][a].pc \in {"none", "done"}
    /\ up # "down" => \A t \in Task, a \in Attempt :
          run[t][a].pc \in {"none", "done"} => agent[t][a].pc \in {"none", "dead"}
    /\ \A t \in Task, a, b \in Attempt :
          a < b /\ agent[t][b].pc # "none" => agent[t][a].pc \in {"none", "dead"}

\* The steps agent g may have open: none between stages and on its way to an
\* outcome, its stage's own in a body and after one that goes on, and the agent
\* call's too while it makes one.  Once it gives up, any.
Inside(g) == g.pc \in {"body", "child"} \/ (g.pc = "record" /\ g.result[2] # "parked")
Fits(g, i, k) ==
    /\ g.pc \notin {"update", "start", "finish", "transition"}
    /\ Inside(g) => i = g.stage /\ (k = "stage" \/ g.pc = "child")

\* An agent leaves no step open behind it, as long as the row is there.
StepsAreClosed ==
    /\ \A t \in Task : row[t].status = "none" => row[t].attempt = 0
    /\ \A t \in Task, a \in Attempt : agent[t][a].pc = "child" => AgentCalls
    /\ \A t \in Task, a \in Attempt, i \in Stage, k \in {"stage", "agent"} :
          row[t].status \notin Absent /\ step[<<t, a, i, k>>] = "running" => Fits(agent[t][a], i, k)

\* An attempt before a recorded stage i of w, and moved past it.
Ran(t, a, i, w) ==
    \E b \in Attempt : /\ b < a /\ run[t][b].ran = w
                       /\ step[<<t, b, i, "stage">>] \in {"succeeded", "failed_past"}

\* A resume point names a stage whose predecessor an earlier attempt ran.
Reachable(t, a, p) == p = NoResume \/ p[2] = 1 \/ Ran(t, a, p[2] - 1, p[1])

\* The stage an agent stands at is the first, or follows one that ran.
Follows(t, a) ==
    agent[t][a].pc \in {"update", "start", "body", "child", "record"} /\ agent[t][a].stage # 1 =>
        \/ step[<<t, a, agent[t][a].stage - 1, "stage">>] # "none"
        \/ Ran(t, a, agent[t][a].stage - 1, run[t][a].ran)

\* Resume points are good where they are kept, a run that has not begun runs the
\* workflow it claimed, and an agent's stage follows one that ran.
SkipsAreEarned ==
    /\ \A t \in Task : Reachable(t, row[t].attempt + 1, row[t].task.resume)
    /\ \A t \in Task, a \in Attempt : Reachable(t, a, run[t][a].task.resume)
    /\ \A t \in Task, a \in Attempt :
          agent[t][a].pc \in {"none", "compile"} => run[t][a].task.wf = run[t][a].ran
    /\ \A t \in Task, a \in Attempt : Follows(t, a)
    /\ SkippedStagesRan
-----------------------------------------------------------------------------
(***************************************************************************)
(* What the steps do to runs and agents                                    *)
(***************************************************************************)

\* A run that moves on keeps its workflow and its copy; one that returns keeps
\* the workflow.
LEMMA RunValues ==
    ASSUME TypeOK, NEW t \in Task, NEW a \in Attempt
    PROVE  /\ \A pc : /\ Goto(t, a, pc)[t][a].pc = pc /\ Goto(t, a, pc)[t][a].ran = run[t][a].ran
                      /\ Goto(t, a, pc)[t][a].task = run[t][a].task
           /\ \A pc : \A u \in Task, b \in Attempt : <<u, b>> # <<t, a>> => Goto(t, a, pc)[u][b] = run[u][b]
           /\ LET back == [run EXCEPT ![t][a] = Returned(@)]
              IN  /\ back[t][a].pc = "done" /\ back[t][a].ran = run[t][a].ran
                  /\ back[t][a].task = Blank(run[t][a].ran)
                  /\ \A u \in Task, b \in Attempt : <<u, b>> # <<t, a>> => back[u][b] = run[u][b]
<1>1. run \in RunType
  BY TypeParts, Zenon
<1>2. \A pc : /\ Goto(t, a, pc)[t][a].pc = pc /\ Goto(t, a, pc)[t][a].ran = run[t][a].ran
              /\ Goto(t, a, pc)[t][a].task = run[t][a].task
  BY <1>1 DEF RunType, Goto
<1>3. \A pc : \A u \in Task, b \in Attempt : <<u, b>> # <<t, a>> => Goto(t, a, pc)[u][b] = run[u][b]
  BY <1>1, Zenon DEF RunType, Goto
<1>4. PICK r : r = Returned(run[t][a])
  BY Zenon
<1>5. r.pc = "done" /\ r.ran = run[t][a].ran /\ r.task = Blank(run[t][a].ran)
  BY <1>4, Zenon DEF Returned
<1>6. [run EXCEPT ![t][a] = Returned(@)] = [run EXCEPT ![t][a] = r]
  BY <1>4, Zenon
<1>7. /\ [run EXCEPT ![t][a] = r][t][a] = r
      /\ \A u \in Task, b \in Attempt : <<u, b>> # <<t, a>> => [run EXCEPT ![t][a] = r][u][b] = run[u][b]
  BY <1>1, Zenon DEF RunType
<1>. QED  BY <1>2, <1>3, <1>5, <1>6, <1>7

\* process(): each step moves its own run, by one of these.
ProcessMoves(t, a) ==
    \/ MayStart(t, a) /\ run'[t][a].pc = "done" /\ agent' = agent /\ running' = running
    \/ MayStart(t, a) /\ run'[t][a].pc = "setup" /\ agent' = agent /\ running' = [running EXCEPT ![t] = a]
    \/ /\ run[t][a].pc \in {"setup", "launch", "waiting"} /\ run'[t][a].pc \in {"launch", "ending"}
       /\ (run'[t][a].pc = "launch" => run[t][a].pc = "setup") /\ agent' = agent /\ running' = running
    \/ /\ run[t][a].pc = "launch" /\ run'[t][a].pc = "waiting" /\ running' = running
       /\ agent' = [agent EXCEPT ![t][a] = AgentAt("compile", 1, NoResult)]
    \/ /\ run[t][a].pc = "ending" /\ run'[t][a].pc = "done" /\ running' = [running EXCEPT ![t] = 0]
       /\ agent' = [agent EXCEPT ![t][a] = DeadAgent]

\* And keeps the workflow of its run.
LEMMA ProcessRun ==
    ASSUME TypeOK, NEW t \in Task, NEW a \in Attempt, Process(t, a)
    PROVE  /\ step' = step /\ op' = op /\ up' = up
           /\ \A u \in Task, b \in Attempt : <<u, b>> # <<t, a>> => run'[u][b] = run[u][b]
           /\ run'[t][a].ran = run[t][a].ran
           /\ run'[t][a].task \in {run[t][a].task, Blank(run[t][a].ran)}
           /\ ProcessMoves(t, a)
<1>1. step' = step /\ op' = op /\ up' = up
  BY Zenon DEF Process, RefuseIdentity, begin, prepareWorkspace, SetupFails, acquireTaskContainer, RequestFails,
         runViaAgent, finished
<1>2. \/ run' = [run EXCEPT ![t][a] = Returned(@)]
      \/ \E pc : run' = Goto(t, a, pc)
  BY Zenon DEF Process, RefuseIdentity, begin, prepareWorkspace, SetupFails, acquireTaskContainer, RequestFails,
         runViaAgent, finished
<1>3. /\ \A u \in Task, b \in Attempt : <<u, b>> # <<t, a>> => run'[u][b] = run[u][b]
      /\ run'[t][a].ran = run[t][a].ran
      /\ run'[t][a].task \in {run[t][a].task, Blank(run[t][a].ran)}
  <2>1. CASE run' = [run EXCEPT ![t][a] = Returned(@)]
    BY <2>1, RunValues
  <2>2. ASSUME NEW pc, run' = Goto(t, a, pc)
        PROVE  /\ \A u \in Task, b \in Attempt : <<u, b>> # <<t, a>> => run'[u][b] = run[u][b]
               /\ run'[t][a].ran = run[t][a].ran
               /\ run'[t][a].task \in {run[t][a].task, Blank(run[t][a].ran)}
    BY <2>2, RunValues
  <2>. QED  BY <1>2, <2>1, <2>2, Zenon
<1>4. ProcessMoves(t, a)
  <2>1. CASE RefuseIdentity(t, a)
    BY <2>1, RunValues, Zenon DEF RefuseIdentity, ProcessMoves
  <2>2. CASE begin(t, a)
    BY <2>2, RunValues DEF begin, ProcessMoves
  <2>3. CASE prepareWorkspace(t, a)
    BY <2>3, RunValues DEF prepareWorkspace, ProcessMoves
  <2>4. CASE SetupFails(t, a) \/ RequestFails(t, a) \/ runViaAgent(t, a)
    <3>1. /\ run[t][a].pc \in {"setup", "launch", "waiting"} /\ run' = Goto(t, a, "ending")
          /\ agent' = agent /\ running' = running
      BY <2>4, Zenon DEF SetupFails, RequestFails, runViaAgent
    <3>. QED  BY <3>1, RunValues DEF ProcessMoves
  <2>5. CASE acquireTaskContainer(t, a)
    BY <2>5, RunValues DEF acquireTaskContainer, ProcessMoves
  <2>6. CASE finished(t, a)
    BY <2>6, RunValues, Zenon DEF finished, ProcessMoves, Retired
  <2>. QED  BY <2>1, <2>2, <2>3, <2>4, <2>5, <2>6, Zenon DEF Process
<1>. QED  BY <1>1, <1>3, <1>4, Zenon

\* What an agent's step leaves of the runs.
AgentLeaves(t, a) ==
    /\ running' = running /\ up' = up /\ op' = op /\ agent[t][a].pc \in Working
    /\ \A u \in Task, b \in Attempt :
          /\ run'[u][b].pc = run[u][b].pc /\ run'[u][b].ran = run[u][b].ran
          /\ run'[u][b].task.resume = run[u][b].task.resume
          /\ run'[u][b].task = run[u][b].task \/ (u = t /\ b = a /\ agent[t][a].pc = "body")

\* An agent moves itself; of the runs it changes only its own copy of the task,
\* and only from a stage body.
LEMMA AgentRun ==
    ASSUME TypeOK, NEW t \in Task, NEW a \in Attempt,
           AgentStep(t, a) \/ Interrupted(t, a) \/ ContainerDies(t, a)
    PROVE  AgentLeaves(t, a)
<1>1. running' = running /\ up' = up /\ op' = op
  BY ZenonT(30) DEF AgentStep, resumeStages, CompileFails, PersistStage, StartStage, startChildStep, finishChildStep, EndBody,
         FinishStage, Finish, FinishTransition, ParkUpdate, ParkTransition, Interrupted, ContainerDies
<1>2. agent[t][a].pc \in Working
  BY Zenon DEF AgentStep, resumeStages, CompileFails, PersistStage, StartStage, startChildStep, finishChildStep, EndBody,
         FinishStage, Finish, FinishTransition, ParkUpdate, ParkTransition, Interrupted, ContainerDies, Working, AgentPc
<1>3. CASE EndBody(t, a)
  <2>1. run \in RunType /\ agent[t][a].pc = "body"
    BY <1>3, TypeParts, Zenon DEF EndBody
  <2>2. PICK f : run' = [run EXCEPT ![t][a].task = f] /\ f.resume = run[t][a].task.resume
    <3>1. PICK result \in StageResult, w \in Workflow :
             run' = [run EXCEPT ![t][a].task =
                       [wf |-> w, retries |-> @.retries, resume |-> @.resume,
                        outputs |-> IF result[1] = "succeeded" THEN a ELSE @.outputs,
                        pr |-> @.pr \/ result[2] = "pr_open"]]
      BY <1>3, Zenon DEF EndBody
    <3>2. PICK f : f = [wf |-> w, retries |-> run[t][a].task.retries, resume |-> run[t][a].task.resume,
                        outputs |-> IF result[1] = "succeeded" THEN a ELSE run[t][a].task.outputs,
                        pr |-> run[t][a].task.pr \/ result[2] = "pr_open"]
      BY Zenon
    <3>3. run' = [run EXCEPT ![t][a].task = f]
      BY <3>1, <3>2, Zenon
    <3>4. f.resume = run[t][a].task.resume
      BY <3>2, Zenon
    <3>. QED  BY <3>3, <3>4, Zenon
  <2>3. /\ run'[t][a].pc = run[t][a].pc /\ run'[t][a].ran = run[t][a].ran /\ run'[t][a].task = f
        /\ \A u \in Task, b \in Attempt : <<u, b>> # <<t, a>> => run'[u][b] = run[u][b]
    BY <2>1, <2>2 DEF RunType
  <2>. QED  BY <1>1, <1>2, <2>1, <2>2, <2>3, Zenon DEF AgentLeaves
<1>4. CASE run' = run
  BY <1>1, <1>2, <1>4, Zenon DEF AgentLeaves
<1>. QED
  BY <1>3, <1>4, ZenonT(30) DEF AgentStep, resumeStages, CompileFails, PersistStage, StartStage, startChildStep, finishChildStep,
                    FinishStage, Finish, FinishTransition, ParkUpdate, ParkTransition, Interrupted, ContainerDies

\* Operators change nothing of a run but its cancelled flag.
LEMMA OperateRun ==
    ASSUME TypeOK, NEW o \in Operator, Operate(o)
    PROVE  /\ running' = running /\ up' = up /\ agent' = agent
           /\ \A u \in Task, b \in Attempt :
                 /\ run'[u][b].pc = run[u][b].pc /\ run'[u][b].ran = run[u][b].ran
                 /\ run'[u][b].task = run[u][b].task
<1>1. running' = running /\ up' = up /\ agent' = agent
  BY Zenon DEF Operate, Apply, CancelExecution, CancelTask, applyApprove, applyRetry, applyMerge, applyArchive
<1>2. CASE run' = run
  BY <1>1, <1>2, Zenon
<1>3. CASE CancelTask(o)
  <2>1. run \in RunType
    BY TypeParts, Zenon
  <2>3. ASSUME NEW x, NEW c, run' = [run EXCEPT ![x][c].cancelled = TRUE], NEW u \in Task, NEW b \in Attempt
        PROVE  /\ run'[u][b].pc = run[u][b].pc /\ run'[u][b].ran = run[u][b].ran
               /\ run'[u][b].task = run[u][b].task
    BY <2>1, <2>3 DEF RunType
  <2>4. run' = run \/ \E x, c : run' = [run EXCEPT ![x][c].cancelled = TRUE]
    BY <1>3, Zenon DEF CancelTask
  <2>. QED  BY <1>1, <1>2, <2>3, <2>4, Zenon
<1>. QED  BY <1>2, <1>3, ZenonT(30) DEF Operate, Apply, CancelExecution, applyApprove, applyRetry, applyMerge, applyArchive

\* A claim begins the attempt after the row's, which had no run.
LEMMA ClaimRun ==
    ASSUME IInv, NEW t \in Task, ClaimNext(t)
    PROVE  \E a \in Attempt :
              /\ a = row[t].attempt + 1 /\ up = "up" /\ row[t].status = "queued"
              /\ row'[t].status = "running" /\ row'[t].attempt = a
              /\ row'[t].task.resume = row[t].task.resume
              /\ \A u \in Task : u # t => row'[u] = row[u]
              /\ run[t][a].pc = "none" /\ agent[t][a].pc = "none"
              /\ run'[t][a].pc = "submitted" /\ run'[t][a].ran = run'[t][a].task.wf
              /\ run'[t][a].task.resume = row[t].task.resume
              /\ \A u \in Task, b \in Attempt : <<u, b>> # <<t, a>> => run'[u][b] = run[u][b]
              /\ step' = step /\ agent' = agent /\ running' = running /\ up' = up /\ op' = op
<1>0. TypeOK /\ row \in RowType /\ run \in RunType
  BY TypeParts, Zenon DEF IInv
<1>1. PICK a : a = row[t].attempt + 1
  BY Zenon
<1>2. a \in Attempt /\ a > row[t].attempt
  BY <1>0, <1>1, TaskRunsAssumption DEF ClaimNext, Attempt, RowType
<1>3. PICK f : f = [row[t].task EXCEPT !.outputs = 0]
  BY Zenon
<1>4. f.resume = row[t].task.resume
  BY <1>0, <1>3, Zenon DEF RowType, Fields
<1>5. /\ row' = [row EXCEPT ![t] = [status |-> "running", attempt |-> a, task |-> f]]
      /\ run' = [run EXCEPT ![t][a] = [pc |-> "submitted", cancelled |-> FALSE, ran |-> f.wf, task |-> f]]
  BY <1>1, <1>3, Zenon DEF ClaimNext
<1>6. /\ up = "up" /\ row[t].status = "queued"
      /\ step' = step /\ agent' = agent /\ running' = running /\ up' = up /\ op' = op
  BY Zenon DEF ClaimNext
<1>7. run[t][a].pc = "none" /\ agent[t][a].pc = "none"
  BY <1>2, Zenon DEF IInv, OneAgent
<1>8. /\ row'[t].status = "running" /\ row'[t].attempt = a /\ row'[t].task = f
      /\ \A u \in Task : u # t => row'[u] = row[u]
  BY <1>0, <1>5, Zenon DEF RowType
<1>9. /\ run'[t][a].pc = "submitted" /\ run'[t][a].ran = f.wf /\ run'[t][a].task = f
      /\ \A u \in Task, b \in Attempt : <<u, b>> # <<t, a>> => run'[u][b] = run[u][b]
  BY <1>0, <1>2, <1>5, Zenon DEF RunType
<1>. QED  BY <1>1, <1>2, <1>4, <1>6, <1>7, <1>8, <1>9, Zenon

\* A crash ends every run and forgets the registry.
LEMMA CrashRun ==
    ASSUME TypeOK, Crash
    PROVE  /\ \A u \in Task, b \in Attempt :
                 /\ run'[u][b].pc \in {"none", "done"} /\ run'[u][b].ran = run[u][b].ran
                 /\ run'[u][b].task = run[u][b].task /\ (run'[u][b].pc = "none" <=> run[u][b].pc = "none")
           /\ row' = row /\ step' = step /\ agent' = agent /\ up' = "down" /\ crashes' = crashes + 1
<1>1. run \in RunType
  BY TypeParts, Zenon
<1>2. ASSUME NEW u \in Task, NEW b \in Attempt
      PROVE  /\ run'[u][b].pc \in {"none", "done"} /\ run'[u][b].ran = run[u][b].ran
             /\ run'[u][b].task = run[u][b].task /\ (run'[u][b].pc = "none" <=> run[u][b].pc = "none")
  <2>1. run'[u][b] = IF run[u][b].pc = "none" THEN run[u][b] ELSE [run[u][b] EXCEPT !.pc = "done"]
    BY Zenon DEF Crash
  <2>. QED  BY <1>1, <2>1 DEF RunType
<1>. QED  BY <1>2, Zenon DEF Crash

\* The rest touch no run.
LEMMA OtherRun ==
    ASSUME \/ \E t \in Task : Enqueue(t) \/ reconcilePRs(t) \/ BeginRemediation(t)
           \/ recoverOrphans \/ RecoverStale \/ UNCHANGED vars
    PROVE  run' = run /\ running' = running
BY Zenon DEF Enqueue, reconcilePRs, BeginRemediation, recoverOrphans, RecoverStale, vars
-----------------------------------------------------------------------------
(***************************************************************************)
(* The registry                                                            *)
(***************************************************************************)

\* One run of a task executes at a time, and it is the one that is listed.
Listed == BatonHolds /\ ExecutingIsListed

\* Nothing is listed wrongly while the runs stay where they are.
LEMMA ListedStays ==
    ASSUME Listed, running' = running, \A u \in Task, b \in Attempt : run'[u][b].pc = run[u][b].pc
    PROVE  Listed'
BY DEF Listed, BatonHolds, ExecutingIsListed

\* Every step keeps the registry right, without allow_concurrent.
LEMMA ListedStep ==
    ASSUME ~AllowConcurrent, IInv, Listed, [Next]_vars
    PROVE  Listed'
<1>0. TypeOK /\ running \in [Task -> 0 .. MaxAttempt]
  BY TypeParts, Zenon DEF IInv
<1>1. ASSUME NEW t \in Task, NEW a \in Attempt, Process(t, a) PROVE Listed'
  <2>1. /\ \A u \in Task, b \in Attempt : <<u, b>> # <<t, a>> => run'[u][b] = run[u][b]
        /\ ProcessMoves(t, a)
    BY <1>0, <1>1, ProcessRun, Zenon
  <2>2. \A u \in Task, b \in Attempt : <<u, b>> # <<t, a>> => run'[u][b].pc = run[u][b].pc
    BY <2>1, Zenon
  <2>3. run[t][a].pc \in {"submitted", "setup", "launch", "waiting", "ending"} /\ run'[t][a].pc # "none"
    BY <2>1, Zenon DEF ProcessMoves, MayStart
  <2>4. \A b \in Attempt : b < a => run[t][b].pc \in {"none", "done"}
    <3>1. CASE MayStart(t, a)
      BY <3>1, Zenon DEF MayStart
    <3>2. CASE ~MayStart(t, a)
      <4>1. run[t][a].pc \notin {"none", "submitted"}
        BY <2>1, <3>2, Zenon DEF ProcessMoves
      <4>. QED  BY <4>1, Zenon DEF Listed, BatonHolds
    <3>. QED  BY <3>1, <3>2, Zenon
  <2>5. \A b \in Attempt : a < b => run[t][b].pc \in {"none", "submitted"}
    BY <2>3, Zenon DEF Listed, BatonHolds
  <2>6. BatonHolds'
    <3>1. SUFFICES ASSUME NEW u \in Task, NEW b \in Attempt, NEW c \in Attempt, b < c,
                          run'[u][c].pc \notin {"none", "submitted"}
                   PROVE  run'[u][b].pc \in {"none", "done"}
      BY Zenon DEF BatonHolds
    <3>2. CASE u = t /\ c = a
      <4>1. b # a
        BY <3>1, <3>2 DEF Attempt
      <4>. QED  BY <2>2, <2>4, <3>1, <3>2, <4>1, Zenon
    <3>3. CASE u = t /\ b = a
      <4>1. c # a
        BY <3>1, <3>3 DEF Attempt
      <4>. QED  BY <2>2, <2>5, <3>1, <3>3, <4>1, Zenon
    <3>4. CASE ~(u = t /\ c = a) /\ ~(u = t /\ b = a)
      BY <2>2, <3>1, <3>4 DEF Listed, BatonHolds
    <3>. QED  BY <3>2, <3>3, <3>4, Zenon
  <2>7. \A b \in Attempt : b # a => run[t][b].pc \notin Executing
    <3>1. \A b \in Attempt : b # a => b < a \/ a < b
      BY DEF Attempt
    <3>. QED  BY <2>4, <2>5, <3>1, Zenon DEF Executing
  <2>8. \A u \in Task : u # t => running'[u] = running[u]
    BY <1>0, <2>1, Zenon DEF ProcessMoves
  <2>9. run'[t][a].pc \in Executing => running'[t] = a
    <3>1. CASE run'[t][a].pc = "setup"
      BY <1>0, <2>1, <3>1, Zenon DEF ProcessMoves
    <3>2. CASE run'[t][a].pc \in {"launch", "waiting", "ending"}
      <4>1. running' = running /\ run[t][a].pc \in Executing
        BY <2>1, <3>2, Zenon DEF ProcessMoves, Executing
      <4>. QED  BY <4>1, Zenon DEF Listed, ExecutingIsListed
    <3>. QED  BY <3>1, <3>2, Zenon DEF Executing
  <2>10. ExecutingIsListed'
    <3>1. SUFFICES ASSUME NEW u \in Task, NEW b \in Attempt, run'[u][b].pc \in Executing
                   PROVE  running'[u] = b
      BY Zenon DEF ExecutingIsListed
    <3>2. CASE u = t
      BY <2>2, <2>7, <2>9, <3>1, <3>2, Zenon
    <3>3. CASE u # t
      BY <2>2, <2>8, <3>1, <3>3, Zenon DEF Listed, ExecutingIsListed
    <3>. QED  BY <3>2, <3>3, Zenon
  <2>. QED  BY <2>6, <2>10, Zenon DEF Listed
<1>2. ASSUME NEW t \in Task, ClaimNext(t) PROVE Listed'
  <2>1. PICK a \in Attempt :
           /\ a = row[t].attempt + 1 /\ run'[t][a].pc = "submitted" /\ running' = running
           /\ \A u \in Task, b \in Attempt : <<u, b>> # <<t, a>> => run'[u][b] = run[u][b]
    BY <1>2, ClaimRun, Zenon
  <2>2. \A b \in Attempt : a < b => run[t][b].pc = "none"
    <3>1. row[t].attempt \in Nat
      BY <1>0, TypeParts DEF RowType
    <3>2. \A b \in Attempt : a < b => b > row[t].attempt
      BY <2>1, <3>1 DEF Attempt
    <3>. QED  BY <3>2, Zenon DEF IInv, OneAgent
  <2>3. BatonHolds'
    <3>1. SUFFICES ASSUME NEW u \in Task, NEW b \in Attempt, NEW c \in Attempt, b < c,
                          run'[u][c].pc \notin {"none", "submitted"}
                   PROVE  run'[u][b].pc \in {"none", "done"}
      BY Zenon DEF BatonHolds
    <3>2. ~(u = t /\ c = a)
      BY <2>1, <3>1, Zenon
    <3>3. ~(u = t /\ b = a)
      BY <2>1, <2>2, <3>1, <3>2
    <3>. QED  BY <2>1, <3>1, <3>2, <3>3, Zenon DEF Listed, BatonHolds
  <2>4. ExecutingIsListed'
    BY <2>1, Zenon DEF Listed, ExecutingIsListed, Executing
  <2>. QED  BY <2>3, <2>4, Zenon DEF Listed
<1>3. CASE Crash
  BY <1>0, <1>3, CrashRun, Zenon DEF Listed, BatonHolds, ExecutingIsListed, Executing
<1>4. ASSUME NEW t \in Task, NEW a \in Attempt, AgentStep(t, a) \/ Interrupted(t, a) \/ ContainerDies(t, a)
      PROVE  Listed'
  <2>1. AgentLeaves(t, a)
    BY <1>0, <1>4, AgentRun, Zenon
  <2>. QED  BY <2>1, ListedStays, Zenon DEF AgentLeaves
<1>5. ASSUME NEW o \in Operator, Operate(o) PROVE Listed'
  BY <1>0, <1>5, OperateRun, ListedStays, Zenon
<1>6. CASE \/ \E t \in Task : Enqueue(t) \/ reconcilePRs(t) \/ BeginRemediation(t)
           \/ recoverOrphans \/ RecoverStale \/ UNCHANGED vars
  BY <1>6, OtherRun, ListedStays, Zenon
<1>. QED  BY <1>1, <1>2, <1>3, <1>4, <1>5, <1>6, Zenon DEF Next

\* Before any claim no run executes.
LEMMA ListedInit == Init => Listed
<1> SUFFICES ASSUME Init PROVE Listed
  BY Zenon
<1>1. \A t \in Task, a \in Attempt : run[t][a].pc = "none"
  BY DEF Init
<1>. QED  BY <1>1, Zenon DEF Listed, BatonHolds, ExecutingIsListed, Executing

\* Every executing run is the one runningTasks lists, so that a stop reaches it,
\* in a repository whose runs take turns: begin and its retire function write
\* the entry of the task without looking at the attempt.
THEOREM ExecutingRunsAreListed == ASSUME ~AllowConcurrent PROVE Spec => []ExecutingIsListed
<1>1. IInv /\ Listed /\ [Next]_vars => Listed'
  BY ListedStep, Zenon
<1>2. Listed => ExecutingIsListed
  BY Zenon DEF Listed
<1>. QED  BY <1>1, <1>2, ListedInit, Inductive, PTL DEF Spec
-----------------------------------------------------------------------------
(***************************************************************************)
(* No row runs without a run                                               *)
(***************************************************************************)

\* An agent is set to g, and the others stay.
Others(t, a) == \A u \in Task, b \in Attempt : <<u, b>> # <<t, a>> => agent'[u][b] = agent[u][b]
Becomes(t, a, g) == agent' = [agent EXCEPT ![t][a] = g]

\* What an agent that moves on by its pc alone keeps.
LEMMA AgentGone ==
    ASSUME TypeOK, NEW t \in Task, NEW a \in Attempt, NEW pc, agent' = AgentGoto(t, a, pc)
    PROVE  /\ agent'[t][a].pc = pc /\ agent'[t][a].stage = agent[t][a].stage
           /\ agent'[t][a].result = agent[t][a].result
           /\ Others(t, a)
<1>1. agent \in AgentType
  BY TypeParts, Zenon
<1>. QED  BY <1>1 DEF AgentType, AgentGoto, Others

\* What an agent that is set becomes.
LEMMA AgentBecomes ==
    ASSUME TypeOK, NEW t \in Task, NEW a \in Attempt, NEW pc, NEW i, NEW result,
           Becomes(t, a, AgentAt(pc, i, result))
    PROVE  /\ agent'[t][a].pc = pc /\ agent'[t][a].stage = i /\ agent'[t][a].result = result
           /\ Others(t, a)
<1>1. PICK g : g = AgentAt(pc, i, result)
  BY Zenon
<1>2. g.pc = pc /\ g.stage = i /\ g.result = result
  BY <1>1, Zenon DEF AgentAt
<1>3. agent \in AgentType /\ agent' = [agent EXCEPT ![t][a] = g]
  BY <1>1, TypeParts, Zenon DEF Becomes
<1>4. agent'[t][a] = g /\ Others(t, a)
  BY <1>3, Zenon DEF AgentType, Others
<1>. QED  BY <1>2, <1>4, Zenon

\* What an agent whose stage body ends becomes.
LEMMA AgentRecords ==
    ASSUME TypeOK, NEW t \in Task, NEW a \in Attempt, NEW result, agent' = BodyEnds(t, a, result)
    PROVE  /\ agent'[t][a].pc = "record" /\ agent'[t][a].stage = agent[t][a].stage
           /\ agent'[t][a].result = result
           /\ Others(t, a)
<1>1. Becomes(t, a, AgentAt("record", agent[t][a].stage, result))
  BY Zenon DEF BodyEnds, Becomes
<1>. QED  BY <1>1, AgentBecomes

\* Where the agent of a step goes.
AgentMoves(t, a) ==
    /\ Others(t, a)
    /\ \/ /\ agent[t][a].pc = "compile" /\ agent'[t][a].pc = "update"
          /\ \/ agent'[t][a].stage = 1
             \/ /\ run[t][a].task.resume # NoResume /\ run[t][a].task.resume[1] = run[t][a].task.wf
                /\ agent'[t][a].stage = run[t][a].task.resume[2]
       \/ PersistStage(t, a) /\ agent'[t][a].pc = "start" /\ agent'[t][a].stage = agent[t][a].stage
       \/ StartStage(t, a) /\ agent'[t][a].pc = "body" /\ agent'[t][a].stage = agent[t][a].stage
       \/ startChildStep(t, a) /\ agent'[t][a].pc = "child" /\ agent'[t][a].stage = agent[t][a].stage
       \/ finishChildStep(t, a) /\ agent'[t][a].pc = "body" /\ agent'[t][a].stage = agent[t][a].stage
       \/ /\ startChildStep(t, a) \/ finishChildStep(t, a)
          /\ agent'[t][a].pc = "record" /\ agent'[t][a].stage = agent[t][a].stage /\ agent'[t][a].result \in Failure
       \/ EndBody(t, a) /\ agent'[t][a].pc = "record" /\ agent'[t][a].stage = agent[t][a].stage
       \/ /\ FinishStage(t, a) /\ agent'[t][a].pc = "update" /\ agent'[t][a].stage = agent[t][a].stage + 1
          /\ FinishAllowed(StageStep(t, a)) /\ agent[t][a].result[2] # "parked"
          /\ step' = FinishStep(StageStep(t, a), agent[t][a].result[1], "ok")
       \/ /\ FinishStage(t, a) /\ agent'[t][a].pc = "finish" /\ agent'[t][a].result[2] \in Outcome
          /\ FinishAllowed(StageStep(t, a)) /\ agent[t][a].result[2] # "parked"
          /\ step' = FinishStep(StageStep(t, a), agent[t][a].result[1], "ok")
       \/ Finish(t, a) /\ agent'[t][a].pc = "transition" /\ agent'[t][a].result = agent[t][a].result
       \/ agent'[t][a].pc \in {"parkUpdate", "park", "refused", "dead"}
       \/ (FinishTransition(t, a) \/ ParkTransition(t, a) \/ Interrupted(t, a)) /\ agent'[t][a].pc = "replied"

\* The agent that takes a step goes there, and the others stay.
LEMMA AgentGoes ==
    ASSUME TypeOK, NEW t \in Task, NEW a \in Attempt,
           AgentStep(t, a) \/ Interrupted(t, a) \/ ContainerDies(t, a)
    PROVE  AgentMoves(t, a)
<1>1. CASE resumeStages(t, a)
  <2>1. PICK resume : resume = run[t][a].task.resume
    BY Zenon
  <2>2. /\ agent[t][a].pc = "compile"
        /\ agent' = [agent EXCEPT ![t][a] =
              IF resume = NoResume THEN AgentAt("update", 1, NoResult)
              ELSE IF resume[1] = run[t][a].task.wf THEN AgentAt("update", resume[2], NoResult)
              ELSE AgentAt("parkUpdate", 1, NoResult)]
    BY <1>1, <2>1, Zenon DEF resumeStages
  <2>3. CASE resume = NoResume
    <3>1. Becomes(t, a, AgentAt("update", 1, NoResult))
      BY <2>2, <2>3, Zenon DEF Becomes
    <3>2. Others(t, a) /\ agent'[t][a].pc = "update" /\ agent'[t][a].stage = 1
      BY <3>1, AgentBecomes
    <3>. QED  BY <2>1, <2>2, <2>3, <3>2, Zenon DEF AgentMoves
  <2>4. CASE resume # NoResume /\ resume[1] = run[t][a].task.wf
    <3>1. Becomes(t, a, AgentAt("update", resume[2], NoResult))
      BY <2>2, <2>4, Zenon DEF Becomes
    <3>2. Others(t, a) /\ agent'[t][a].pc = "update" /\ agent'[t][a].stage = resume[2]
      BY <3>1, AgentBecomes
    <3>. QED  BY <2>1, <2>2, <2>4, <3>2, Zenon DEF AgentMoves
  <2>5. CASE resume # NoResume /\ resume[1] # run[t][a].task.wf
    <3>1. Becomes(t, a, AgentAt("parkUpdate", 1, NoResult))
      BY <2>2, <2>5, Zenon DEF Becomes
    <3>2. Others(t, a) /\ agent'[t][a].pc = "parkUpdate" /\ agent'[t][a].stage = 1
      BY <3>1, AgentBecomes
    <3>. QED  BY <2>1, <2>2, <2>5, <3>2, Zenon DEF AgentMoves
  <2>. QED  BY <2>3, <2>4, <2>5, Zenon
<1>2. CASE CompileFails(t, a)
  <2>0. agent' = AgentGoto(t, a, "refused")
    BY <1>2, Zenon DEF CompileFails
  <2>1. CASE agent' = AgentGoto(t, a, "refused")
    <3>1. Others(t, a) /\ agent'[t][a].pc = "refused"
      BY <2>1, AgentGone, Zenon
    <3>. QED  BY <1>2, <2>1, <3>1, ZenonT(30) DEF AgentMoves
  <2>. QED  BY <2>0, <2>1, Zenon
<1>3. CASE PersistStage(t, a)
  <2>0. agent' = AgentGoto(t, a, "start") \/ agent' = AgentGoto(t, a, "parkUpdate")
    BY <1>3, Zenon DEF PersistStage
  <2>1. CASE agent' = AgentGoto(t, a, "start")
    <3>1. Others(t, a) /\ agent'[t][a].pc = "start" /\ agent'[t][a].stage = agent[t][a].stage
      BY <2>1, AgentGone, Zenon
    <3>. QED  BY <1>3, <2>1, <3>1, ZenonT(30) DEF AgentMoves
  <2>2. CASE agent' = AgentGoto(t, a, "parkUpdate")
    <3>1. Others(t, a) /\ agent'[t][a].pc = "parkUpdate"
      BY <2>2, AgentGone, Zenon
    <3>. QED  BY <1>3, <2>2, <3>1, Zenon DEF AgentMoves
  <2>. QED  BY <2>0, <2>1, <2>2, Zenon
<1>4. CASE StartStage(t, a)
  <2>0. agent' = AgentGoto(t, a, "body") \/ agent' = AgentGoto(t, a, "parkUpdate")
    BY <1>4, Zenon DEF StartStage
  <2>1. CASE agent' = AgentGoto(t, a, "body")
    <3>1. Others(t, a) /\ agent'[t][a].pc = "body" /\ agent'[t][a].stage = agent[t][a].stage
      BY <2>1, AgentGone, Zenon
    <3>. QED  BY <1>4, <2>1, <3>1, ZenonT(30) DEF AgentMoves
  <2>2. CASE agent' = AgentGoto(t, a, "parkUpdate")
    <3>1. Others(t, a) /\ agent'[t][a].pc = "parkUpdate"
      BY <2>2, AgentGone, Zenon
    <3>. QED  BY <1>4, <2>2, <3>1, Zenon DEF AgentMoves
  <2>. QED  BY <2>0, <2>1, <2>2, Zenon
<1>5. CASE startChildStep(t, a)
  <2>0. agent' = AgentGoto(t, a, "child") \/ \E result \in Failure : agent' = BodyEnds(t, a, result)
    BY <1>5, Zenon DEF startChildStep
  <2>1. CASE agent' = AgentGoto(t, a, "child")
    <3>1. Others(t, a) /\ agent'[t][a].pc = "child" /\ agent'[t][a].stage = agent[t][a].stage
      BY <2>1, AgentGone, Zenon
    <3>. QED  BY <1>5, <2>1, <3>1, ZenonT(30) DEF AgentMoves
  <2>2. ASSUME NEW result \in Failure, agent' = BodyEnds(t, a, result) PROVE AgentMoves(t, a)
    <3>1. Others(t, a) /\ agent'[t][a].pc = "record" /\ agent'[t][a].stage = agent[t][a].stage /\ agent'[t][a].result = result
      BY <2>2, AgentRecords
    <3>. QED  BY <1>5, <2>2, <3>1, Zenon DEF AgentMoves
  <2>. QED  BY <2>0, <2>1, <2>2, Zenon
<1>6. CASE finishChildStep(t, a)
  <2>0. agent' = AgentGoto(t, a, "body") \/ \E result \in Failure : agent' = BodyEnds(t, a, result)
    BY <1>6, Zenon DEF finishChildStep
  <2>1. CASE agent' = AgentGoto(t, a, "body")
    <3>1. Others(t, a) /\ agent'[t][a].pc = "body" /\ agent'[t][a].stage = agent[t][a].stage
      BY <2>1, AgentGone, Zenon
    <3>. QED  BY <1>6, <2>1, <3>1, ZenonT(30) DEF AgentMoves
  <2>2. ASSUME NEW result \in Failure, agent' = BodyEnds(t, a, result) PROVE AgentMoves(t, a)
    <3>1. Others(t, a) /\ agent'[t][a].pc = "record" /\ agent'[t][a].stage = agent[t][a].stage /\ agent'[t][a].result = result
      BY <2>2, AgentRecords, Zenon
    <3>. QED  BY <1>6, <2>2, <3>1, Zenon DEF AgentMoves
  <2>. QED  BY <2>0, <2>1, <2>2, Zenon
<1>7. CASE EndBody(t, a)
  <2>0. \E result : agent' = BodyEnds(t, a, result)
    BY <1>7, Zenon DEF EndBody
  <2>1. ASSUME NEW result, agent' = BodyEnds(t, a, result) PROVE AgentMoves(t, a)
    <3>1. Others(t, a) /\ agent'[t][a].pc = "record" /\ agent'[t][a].stage = agent[t][a].stage /\ agent'[t][a].result = result
      BY <2>1, AgentRecords
    <3>. QED  BY <1>7, <2>1, <3>1, Zenon DEF AgentMoves
  <2>. QED  BY <2>0, <2>1, Zenon
<1>8. CASE FinishStage(t, a)
  <2>0. PICK next, i : next = agent[t][a].result[2] /\ i = agent[t][a].stage
    BY Zenon
  <2>1. PICK reply \in Reply :
          /\ step' = FinishStep(StageStep(t, a), agent[t][a].result[1], reply)
          /\ agent' = [agent EXCEPT ![t][a] =
                IF reply # "ok" \/ ~FinishAllowed(StageStep(t, a)) \/ next = "parked"
                THEN AgentAt("parkUpdate", 1, NoResult)
                ELSE AfterStage(t, a, next)]
    BY <1>8, <2>0, Zenon DEF FinishStage
  <2>2. CASE reply # "ok" \/ ~FinishAllowed(StageStep(t, a)) \/ next = "parked"
    <3>1. Becomes(t, a, AgentAt("parkUpdate", 1, NoResult))
      BY <2>1, <2>2, Zenon DEF Becomes
    <3>2. Others(t, a) /\ agent'[t][a].pc = "parkUpdate"
      BY <3>1, AgentBecomes, Zenon
    <3>. QED  BY <3>2, Zenon DEF AgentMoves
  <2>3. CASE reply = "ok" /\ FinishAllowed(StageStep(t, a)) /\ next # "parked"
    <3>1. agent' = [agent EXCEPT ![t][a] = AfterStage(t, a, next)]
      BY <2>1, <2>3, Zenon
    <3>2. step' = FinishStep(StageStep(t, a), agent[t][a].result[1], "ok")
      BY <2>1, <2>3, Zenon
    <3>3. CASE next # "next"
      <4>1. Becomes(t, a, AgentAt("finish", 1, <<"succeeded", next>>))
        BY <3>1, <3>3, Zenon DEF AfterStage, Becomes
      <4>2. next \in Outcome
        <5>1. agent[t][a].result \in Result
          BY TypeParts, Zenon DEF AgentType
        <5>. QED  BY <2>0, <2>3, <3>3, <5>1 DEF Result
      <4>3. Others(t, a) /\ agent'[t][a].pc = "finish" /\ agent'[t][a].result = <<"succeeded", next>>
        BY <4>1, AgentBecomes
      <4>4. agent'[t][a].result[2] \in Outcome
        BY <4>2, <4>3
      <4>. QED  BY <1>8, <2>0, <2>3, <3>2, <4>3, <4>4, Zenon DEF AgentMoves
    <3>4. CASE next = "next" /\ i < NStages
      <4>1. Becomes(t, a, AgentAt("update", i + 1, NoResult))
        BY <2>0, <3>1, <3>4, Zenon DEF AfterStage, Becomes
      <4>2. Others(t, a) /\ agent'[t][a].pc = "update" /\ agent'[t][a].stage = i + 1
        BY <4>1, AgentBecomes, Zenon
      <4>. QED  BY <1>8, <2>0, <2>3, <3>2, <4>2, Zenon DEF AgentMoves
    <3>5. CASE next = "next" /\ ~(i < NStages)
      <4>1. Becomes(t, a, AgentAt("finish", 1, <<"succeeded", "completed">>))
        BY <2>0, <3>1, <3>5, Zenon DEF AfterStage, Becomes
      <4>2. Others(t, a) /\ agent'[t][a].pc = "finish" /\ agent'[t][a].result = <<"succeeded", "completed">>
        BY <4>1, AgentBecomes
      <4>3. agent'[t][a].result[2] \in Outcome
        BY <4>2 DEF Outcome
      <4>. QED  BY <1>8, <2>0, <2>3, <3>2, <4>2, <4>3, Zenon DEF AgentMoves
    <3>. QED  BY <3>3, <3>4, <3>5, Zenon
  <2>. QED  BY <2>2, <2>3, Zenon
<1>9. CASE Finish(t, a)
  <2>0. agent' = AgentGoto(t, a, "transition") \/ agent' = AgentGoto(t, a, "parkUpdate")
    BY <1>9, Zenon DEF Finish
  <2>1. CASE agent' = AgentGoto(t, a, "transition")
    <3>1. Others(t, a) /\ agent'[t][a].pc = "transition" /\ agent'[t][a].result = agent[t][a].result
      BY <2>1, AgentGone, Zenon
    <3>. QED  BY <1>9, <2>1, <3>1, ZenonT(30) DEF AgentMoves
  <2>2. CASE agent' = AgentGoto(t, a, "parkUpdate")
    <3>1. Others(t, a) /\ agent'[t][a].pc = "parkUpdate"
      BY <2>2, AgentGone, Zenon
    <3>. QED  BY <1>9, <2>2, <3>1, Zenon DEF AgentMoves
  <2>. QED  BY <2>0, <2>1, <2>2, Zenon
<1>10. CASE FinishTransition(t, a)
  <2>0. Becomes(t, a, AgentAt("replied", 1, NoResult))
    BY <1>10, Zenon DEF FinishTransition, Becomes
  <2>1. CASE Becomes(t, a, AgentAt("replied", 1, NoResult))
    <3>1. Others(t, a) /\ agent'[t][a].pc = "replied" /\ agent'[t][a].stage = 1 /\ agent'[t][a].result = NoResult
      BY <2>1, AgentBecomes
    <3>. QED  BY <1>10, <2>1, <3>1, ZenonT(30) DEF AgentMoves
  <2>. QED  BY <2>0, <2>1, Zenon
<1>11. CASE ParkUpdate(t, a)
  <2>0. agent' = AgentGoto(t, a, "park")
    BY <1>11, Zenon DEF ParkUpdate
  <2>1. CASE agent' = AgentGoto(t, a, "park")
    <3>1. Others(t, a) /\ agent'[t][a].pc = "park"
      BY <2>1, AgentGone, Zenon
    <3>. QED  BY <1>11, <2>1, <3>1, ZenonT(30) DEF AgentMoves
  <2>. QED  BY <2>0, <2>1, Zenon
<1>12. CASE ParkTransition(t, a)
  <2>0. agent' = AgentGoto(t, a, "replied")
    BY <1>12, Zenon DEF ParkTransition
  <2>1. CASE agent' = AgentGoto(t, a, "replied")
    <3>1. Others(t, a) /\ agent'[t][a].pc = "replied"
      BY <2>1, AgentGone, Zenon
    <3>. QED  BY <1>12, <2>1, <3>1, ZenonT(30) DEF AgentMoves
  <2>. QED  BY <2>0, <2>1, Zenon
<1>13. CASE Interrupted(t, a)
  <2>0. Becomes(t, a, AgentAt("replied", 1, NoResult))
    BY <1>13, Zenon DEF Interrupted, Becomes
  <2>1. CASE Becomes(t, a, AgentAt("replied", 1, NoResult))
    <3>1. Others(t, a) /\ agent'[t][a].pc = "replied" /\ agent'[t][a].stage = 1 /\ agent'[t][a].result = NoResult
      BY <2>1, AgentBecomes
    <3>. QED  BY <1>13, <2>1, <3>1, Zenon DEF AgentMoves
  <2>. QED  BY <2>0, <2>1, Zenon
<1>14. CASE ContainerDies(t, a)
  <2>0. Becomes(t, a, AgentAt("dead", 1, NoResult))
    BY <1>14, Zenon DEF ContainerDies, DeadAgent, Becomes
  <2>1. CASE Becomes(t, a, AgentAt("dead", 1, NoResult))
    <3>1. Others(t, a) /\ agent'[t][a].pc = "dead" /\ agent'[t][a].stage = 1 /\ agent'[t][a].result = NoResult
      BY <2>1, AgentBecomes
    <3>. QED  BY <1>14, <2>1, <3>1, ZenonT(30) DEF AgentMoves
  <2>. QED  BY <2>0, <2>1, Zenon
<1>. QED  BY <1>1, <1>2, <1>3, <1>4, <1>5, <1>6, <1>7, <1>8, <1>9, <1>10, <1>11, <1>12, <1>13, <1>14, Zenon DEF AgentStep

\* An agent's steps move rows along the table.
LEMMA AgentRows ==
    ASSUME IInv, NEW t \in Task, NEW a \in Attempt,
           AgentStep(t, a) \/ Interrupted(t, a) \/ ContainerDies(t, a)
    PROVE  RowsMove
<1>1. CASE StartStage(t, a) \/ startChildStep(t, a)
  BY <1>1, AgentStarts, Zenon
<1>2. CASE finishChildStep(t, a) \/ FinishStage(t, a) \/ Interrupted(t, a)
  BY <1>2, AgentFinishes, Zenon
<1>3. CASE \/ resumeStages(t, a) \/ CompileFails(t, a) \/ PersistStage(t, a) \/ EndBody(t, a)
           \/ Finish(t, a) \/ FinishTransition(t, a) \/ ParkUpdate(t, a) \/ ParkTransition(t, a)
           \/ ContainerDies(t, a)
  BY <1>3, AgentQuietSteps, Zenon
<1>. QED  BY <1>1, <1>2, <1>3, Zenon DEF AgentStep

\* Only a claim begins an attempt.
LEMMA OnlyClaims ==
    ASSUME IInv, [Next]_vars, NEW t \in Task, ~ClaimNext(t)
    PROVE  row'[t].attempt = row[t].attempt
<1>0. row \in RowType
  BY TypeParts, Zenon DEF IInv
<1>1. RowsMove => row'[t].attempt = row[t].attempt
  BY Zenon DEF RowsMove, Keeps, Moves
<1>2. ASSUME NEW u \in Task, NEW a \in Attempt, Process(u, a) PROVE row'[t].attempt = row[t].attempt
  BY <1>1, <1>2, ProcessStep, Zenon
<1>3. ASSUME NEW u \in Task, NEW a \in Attempt, AgentStep(u, a) \/ Interrupted(u, a) \/ ContainerDies(u, a)
      PROVE row'[t].attempt = row[t].attempt
  BY <1>1, <1>3, AgentRows, Zenon
<1>4. ASSUME NEW o \in Operator, Operate(o) PROVE row'[t].attempt = row[t].attempt
  BY <1>4, OperateStep, Zenon
<1>5. ASSUME NEW u \in Task, ClaimNext(u) PROVE row'[t].attempt = row[t].attempt
  <2>1. u # t
    BY <1>5, Zenon
  <2>. QED  BY <1>5, <2>1, ClaimRun, Zenon
<1>6. ASSUME NEW u \in Task, Enqueue(u) \/ reconcilePRs(u) PROVE row'[t].attempt = row[t].attempt
  <2>1. row' = row \/ \E to : row' = Moved(u, to)
    BY <1>6, Zenon DEF Enqueue, reconcilePRs, Transition
  <2>. QED  BY <1>0, <2>1 DEF Moved, RowType
<1>7. ASSUME NEW u \in Task, BeginRemediation(u) PROVE row'[t].attempt = row[t].attempt
  <2>1. PICK f : row' = [row EXCEPT ![u] = [status |-> "queued", attempt |-> row[u].attempt, task |-> f]]
    BY <1>7, Zenon DEF BeginRemediation
  <2>. QED  BY <1>0, <2>1, Zenon DEF RowType
<1>8. CASE RecoverStale
  <2>1. row'[t] \in {row[t], [row[t] EXCEPT !.status = "queued"]}
    BY <1>8, Zenon DEF RecoverStale
  <2>. QED  BY <1>0, <2>1, Zenon DEF RowType
<1>9. CASE Crash \/ recoverOrphans \/ UNCHANGED vars
  BY <1>9, Zenon DEF Crash, recoverOrphans, vars
<1>. QED  BY <1>2, <1>3, <1>4, <1>5, <1>6, <1>7, <1>8, <1>9, Zenon DEF Next

\* A row that says running and was not just claimed said so before.
LEMMA StillRunning ==
    ASSUME IInv, [Next]_vars, NEW t \in Task, row'[t].status = "running", ~ClaimNext(t)
    PROVE  row[t].status = "running" /\ row'[t].attempt = row[t].attempt
<1>1. RowsFollow
  BY NextInv, Zenon
<1>2. row'[t].attempt = row[t].attempt
  BY OnlyClaims, Zenon
<1>3. row[t].attempt \in Nat
  BY TypeParts DEF IInv, RowType
<1>4. ~Claims(t)
  BY <1>2, <1>3 DEF Claims
<1>. QED  BY <1>1, <1>2, <1>4, Zenon DEF RowsFollow, Keeps, Moves, Creates, Archives

\* A row that left an attempt never says again that it is running.
LEMMA LeftStays ==
    ASSUME IInv, [Next]_vars, NEW t \in Task, NEW a \in Attempt, Left(t, a), run[t][a].pc # "none"
    PROVE  Left(t, a)'
<1>1. CASE ClaimNext(t)
  <2>1. PICK b \in Attempt : b = row[t].attempt + 1 /\ row'[t].attempt = b /\ run[t][b].pc = "none"
    BY <1>1, ClaimRun, Zenon
  <2>. QED  BY <2>1, Zenon DEF Left
<1>2. CASE ~ClaimNext(t)
  BY <1>2, StillRunning, Zenon DEF Left
<1>. QED  BY <1>1, <1>2, Zenon

\* A run or an agent that has ended or answered was claimed.
LEMMA WasClaimed ==
    ASSUME IInv, NEW t \in Task, NEW a \in Attempt, run[t][a].pc = "ending" \/ agent[t][a].pc # "none"
    PROVE  run[t][a].pc # "none"
BY Zenon DEF IInv, OneAgent

\* Where the store answers, a transition out of running leaves it.
LEMMA MoveLeaves ==
    ASSUME TypeOK, ~Faults, NEW t \in Task, NEW to \in Outcome \cup {"parked"}, NEW reply \in Reply,
           row' = Transition(t, "running", to, reply)
    PROVE  row'[t].status # "running"
<1>1. row \in RowType /\ reply = "ok"
  BY TypeParts, Zenon DEF Reply
<1>2. to # "running" /\ CanTransition("running", to)
  BY Zenon DEF Outcome, CanTransition, executionTransitions
<1>3. CASE row[t].status = "running"
  <2>1. row' = Moved(t, to)
    BY <1>1, <1>2, <1>3, Zenon DEF Transition, guardTransition
  <2>. QED  BY <1>1, <1>2, <2>1, Zenon DEF Moved, RowType
<1>4. CASE row[t].status # "running"
  BY <1>4, Zenon DEF Transition, guardTransition
<1>. QED  BY <1>3, <1>4, Zenon

\* process() unwinds, or returns, only after the row has left the attempt.
LEMMA Unwinds ==
    ASSUME IInv, ~Faults, RunsAreAnswered, NEW t \in Task, NEW a \in Attempt, Process(t, a),
           run'[t][a].pc \in {"ending", "done"}
    PROVE  Left(t, a)'
<1>0. TypeOK
  BY Zenon DEF IInv
<1>1. CASE \E reply \in Reply : row' = parkRunningTask(t, reply)
  <2>1. row'[t].status # "running"
    BY <1>0, <1>1, MoveLeaves, Zenon DEF parkRunningTask
  <2>. QED  BY <2>1, Zenon DEF Left
<1>2. CASE row' = row /\ (run[t][a].pc = "ending" \/ agent[t][a].pc = "replied")
  BY <1>2, Zenon DEF RunsAreAnswered, Left
<1>3. CASE \E pc \in {"setup", "launch", "waiting"} : run' = Goto(t, a, pc)
  BY <1>0, <1>3, RunValues
<1>. QED
  BY <1>1, <1>2, <1>3, Zenon DEF Process, RefuseIdentity, begin, prepareWorkspace, SetupFails, acquireTaskContainer,
                          RequestFails, runViaAgent, finished

\* An agent that is not interrupted answers after moving the row.
LEMMA Answers ==
    ASSUME IInv, ~Faults, ~Stops, RunsAreAnswered, NEW t \in Task, NEW a \in Attempt,
           AgentStep(t, a) \/ Interrupted(t, a) \/ ContainerDies(t, a), agent'[t][a].pc = "replied"
    PROVE  Left(t, a)'
<1>0. TypeOK
  BY Zenon DEF IInv
<1>1. FinishTransition(t, a) \/ ParkTransition(t, a) \/ Interrupted(t, a)
  <2>1. AgentMoves(t, a)
    BY <1>0, AgentGoes, Zenon
  <2>. QED  BY <2>1, Zenon DEF AgentMoves
<1>2. ~Interrupted(t, a)
  BY Zenon DEF Interrupted
<1>3. CASE FinishTransition(t, a)
  <2>1. agent[t][a].result[2] \in Outcome
    BY <1>3, Zenon DEF FinishTransition, RunsAreAnswered
  <2>2. row'[t].status # "running"
    BY <1>0, <1>3, <2>1, MoveLeaves, Zenon DEF FinishTransition
  <2>. QED  BY <2>2, Zenon DEF Left
<1>4. CASE ParkTransition(t, a)
  <2>1. row'[t].status # "running"
    BY <1>0, <1>4, MoveLeaves, Zenon DEF ParkTransition
  <2>. QED  BY <2>1, Zenon DEF Left
<1>. QED  BY <1>1, <1>2, <1>3, <1>4, Zenon

\* What a step that is no claim does to runs and agents: those that end or answer
\* in it have left their attempt, and no row runs when a restart completes.
NewlyLeft ==
    /\ \A t \in Task, a \in Attempt :
          /\ run'[t][a].pc = "ending" /\ run[t][a].pc # "ending" => Left(t, a)'
          /\ agent'[t][a].pc = "replied" /\ agent[t][a].pc # "replied" => Left(t, a)'
          /\ (/\ run'[t][a].pc \in {"none", "done"} /\ run[t][a].pc \notin {"none", "done"}
              /\ up' = "up") => Left(t, a)'
          /\ agent'[t][a].pc \in {"finish", "transition"} => agent'[t][a].result[2] \in Outcome
    /\ up' = "up" /\ up # "up" => \A t \in Task : row'[t].status # "running"

\* Every such step does.
LEMMA EndsLeft ==
    ASSUME IInv, ~Faults, ~Stops, RunsAreAnswered, [Next]_vars, \A t \in Task : ~ClaimNext(t)
    PROVE  NewlyLeft
<1>0. TypeOK /\ row \in RowType /\ agent \in AgentType
  BY TypeParts, Zenon DEF IInv
<1>1. \A t \in Task, a \in Attempt :
         agent[t][a].pc \in {"finish", "transition"} => agent[t][a].result[2] \in Outcome
  BY Zenon DEF RunsAreAnswered
<1>2. ASSUME up' = up, agent' = agent, \A t \in Task, a \in Attempt : run'[t][a].pc = run[t][a].pc
      PROVE  NewlyLeft
  BY <1>1, <1>2, Zenon DEF NewlyLeft
<1>3. ASSUME NEW t \in Task, NEW a \in Attempt, Process(t, a) PROVE NewlyLeft
  <2>1. /\ up' = up
        /\ \A u \in Task, b \in Attempt : <<u, b>> # <<t, a>> => run'[u][b] = run[u][b]
        /\ ProcessMoves(t, a)
    BY <1>0, <1>3, ProcessRun, Zenon
  <2>2. run'[t][a].pc \in {"ending", "done"} => Left(t, a)'
    BY <1>3, Unwinds, Zenon
  <2>3. run'[t][a].pc # "none"
    BY <2>1, Zenon DEF ProcessMoves
  <2>4. \A u \in Task, b \in Attempt : agent'[u][b] = agent[u][b] \/ agent'[u][b].pc \in {"compile", "dead"}
    <3>1. CASE agent' = agent
      BY <3>1, Zenon
    <3>2. CASE Becomes(t, a, AgentAt("compile", 1, NoResult)) \/ Becomes(t, a, AgentAt("dead", 1, NoResult))
      BY <1>0, <3>2, AgentBecomes DEF Others
    <3>. QED  BY <2>1, <3>1, <3>2, Zenon DEF ProcessMoves, Becomes, DeadAgent
  <2>. QED  BY <1>1, <2>1, <2>2, <2>3, <2>4 DEF NewlyLeft
<1>4. ASSUME NEW t \in Task, NEW a \in Attempt, AgentStep(t, a) \/ Interrupted(t, a) \/ ContainerDies(t, a)
      PROVE  NewlyLeft
  <2>1. up' = up /\ \A u \in Task, b \in Attempt : run'[u][b].pc = run[u][b].pc
    <3>1. AgentLeaves(t, a)
      BY <1>0, <1>4, AgentRun, Zenon
    <3>. QED  BY <3>1, Zenon DEF AgentLeaves
  <2>2. AgentMoves(t, a)
    BY <1>0, <1>4, AgentGoes, Zenon
  <2>3. agent'[t][a].pc = "replied" => Left(t, a)'
    BY <1>4, Answers, Zenon
  <2>4. agent'[t][a].pc \in {"finish", "transition"} => agent'[t][a].result[2] \in Outcome
    <3>1. CASE agent'[t][a].pc = "finish"
      BY <2>2, <3>1, ZenonT(30) DEF AgentMoves
    <3>2. CASE agent'[t][a].pc = "transition"
      <4>1. Finish(t, a) /\ agent'[t][a].result = agent[t][a].result
        BY <2>2, <3>2, ZenonT(30) DEF AgentMoves
      <4>. QED  BY <1>1, <4>1, Zenon DEF Finish
    <3>. QED  BY <3>1, <3>2, Zenon
  <2>5. Others(t, a)
    BY <2>2, ZenonT(30) DEF AgentMoves
  <2>. QED  BY <1>1, <2>1, <2>3, <2>4, <2>5 DEF NewlyLeft, Others
<1>5. ASSUME NEW o \in Operator, Operate(o) PROVE NewlyLeft
  BY <1>0, <1>2, <1>5, OperateRun, Zenon
<1>6. CASE Crash
  BY <1>0, <1>1, <1>6, CrashRun, Zenon DEF NewlyLeft
<1>7. CASE recoverOrphans
  <2>1. up' = "recovering" /\ run' = run
    BY <1>7, Zenon DEF recoverOrphans
  <2>2. \A t \in Task, a \in Attempt : agent'[t][a] \in {agent[t][a], DeadAgent}
    BY <1>7, Zenon DEF recoverOrphans
  <2>3. DeadAgent.pc = "dead"
    BY Zenon DEF DeadAgent, AgentAt
  <2>. QED  BY <1>1, <2>1, <2>2, <2>3, Zenon DEF NewlyLeft
<1>8. CASE RecoverStale
  <2>1. run' = run /\ agent' = agent
    BY <1>8, Zenon DEF RecoverStale
  <2>2. ASSUME NEW t \in Task PROVE row'[t].status # "running"
    <3>1. row'[t] = IF row[t].status = "running" THEN [row[t] EXCEPT !.status = "queued"] ELSE row[t]
      BY <1>8, Zenon DEF RecoverStale, Recovered
    <3>. QED  BY <1>0, <3>1, Zenon DEF RowType
  <2>. QED  BY <1>1, <2>1, <2>2, Zenon DEF NewlyLeft
<1>9. CASE \/ \E t \in Task : Enqueue(t) \/ reconcilePRs(t) \/ BeginRemediation(t)
           \/ UNCHANGED vars
  BY <1>2, <1>9, Zenon DEF Enqueue, reconcilePRs, BeginRemediation, vars
<1>. QED  BY <1>3, <1>4, <1>5, <1>6, <1>7, <1>8, <1>9, Zenon DEF Next

\* So no step leaves a row running without a run.
LEMMA AnsweredStep ==
    ASSUME IInv, ~Faults, ~Stops, RunsAreAnswered, [Next]_vars
    PROVE  RunsAreAnswered'
<1>0. TypeOK /\ row \in RowType
  BY TypeParts, Zenon DEF IInv
<1>1. ASSUME NEW t \in Task, NEW a \in Attempt, run[t][a].pc = "ending" \/ agent[t][a].pc = "replied"
      PROVE  Left(t, a)'
  BY <1>1, LeftStays, WasClaimed, Zenon DEF RunsAreAnswered
<1>2. CASE \E t \in Task : ClaimNext(t)
  <2>1. PICK t \in Task : ClaimNext(t)
    BY <1>2, Zenon
  <2>2. PICK a \in Attempt :
          /\ row'[t].attempt = a
          /\ \A u \in Task : u # t => row'[u] = row[u]
          /\ agent[t][a].pc = "none" /\ run'[t][a].pc = "submitted"
          /\ \A u \in Task, b \in Attempt : <<u, b>> # <<t, a>> => run'[u][b] = run[u][b]
          /\ agent' = agent /\ up' = up
    BY <2>1, ClaimRun, ZenonT(30)
  <2>3. ASSUME NEW u \in Task, NEW b \in Attempt, run'[u][b].pc = "ending" \/ agent'[u][b].pc = "replied"
        PROVE  Left(u, b)'
    BY <1>1, <2>2, <2>3
  <2>4. ASSUME NEW u \in Task, NEW b \in Attempt, agent'[u][b].pc \in {"finish", "transition"}
        PROVE  agent'[u][b].result[2] \in Outcome
    BY <2>2, <2>4, Zenon DEF RunsAreAnswered
  <2>5. ASSUME NEW u \in Task, row'[u].status = "running"
        PROVE  /\ row'[u].attempt \in Attempt
               /\ run'[u][row'[u].attempt].pc \notin {"none", "done"} \/ up' # "up"
    <3>1. CASE u = t
      BY <2>2, <3>1, Zenon
    <3>2. CASE u # t
      BY <2>2, <2>5, <3>2 DEF RunsAreAnswered, RunningHasRun
    <3>. QED  BY <3>1, <3>2, Zenon
  <2>. QED  BY <2>3, <2>4, <2>5, Zenon DEF RunsAreAnswered, RunningHasRun
<1>3. CASE \A t \in Task : ~ClaimNext(t)
  <2>1. NewlyLeft
    BY <1>3, EndsLeft, Zenon
  <2>2. ASSUME NEW u \in Task, NEW b \in Attempt, run'[u][b].pc = "ending" \/ agent'[u][b].pc = "replied"
        PROVE  Left(u, b)'
    BY <1>1, <2>1, <2>2, Zenon DEF NewlyLeft
  <2>3. ASSUME NEW u \in Task, row'[u].status = "running"
        PROVE  /\ row'[u].attempt \in Attempt
               /\ run'[u][row'[u].attempt].pc \notin {"none", "done"} \/ up' # "up"
    <3>1. row[u].status = "running" /\ row'[u].attempt = row[u].attempt
      BY <1>3, <2>3, StillRunning, Zenon
    <3>2. PICK a \in Attempt : a = row[u].attempt
      BY <3>1, Zenon DEF RunsAreAnswered
    <3>3. ~Left(u, a)'
      BY <2>3, <3>1, <3>2, Zenon DEF Left
    <3>4. run[u][a].pc \notin {"none", "done"} \/ up # "up"
      BY <3>1, <3>2, Zenon DEF RunsAreAnswered, RunningHasRun
    <3>5. run'[u][a].pc \notin {"none", "done"} \/ up' # "up"
      BY <2>1, <2>3, <3>3, <3>4, Zenon DEF NewlyLeft
    <3>. QED  BY <3>1, <3>2, <3>5, Zenon
  <2>. QED  BY <2>1, <2>2, <2>3, Zenon DEF RunsAreAnswered, RunningHasRun, NewlyLeft
<1>. QED  BY <1>2, <1>3, Zenon

\* Before any claim no row runs.
LEMMA AnsweredInit == Init => RunsAreAnswered
<1> SUFFICES ASSUME Init PROVE RunsAreAnswered
  BY Zenon
<1>1. \A t \in Task : row[t].status = "none"
  BY DEF Init
<1>2. \A t \in Task, a \in Attempt : agent[t][a].pc = "none"
  BY DEF Init, NoAgent, AgentAt
<1>. QED  BY <1>1, <1>2, Zenon DEF RunsAreAnswered, RunningHasRun, Left

\* Where every store call answers and no container is stopped from outside, a row
\* that says running has a run, or a restart that will requeue it: process() and
\* the agent leave the row before they leave the attempt.
THEOREM RunningRowsHaveRuns == ASSUME ~Faults, ~Stops PROVE Spec => []RunningHasRun
<1>1. IInv /\ RunsAreAnswered /\ [Next]_vars => RunsAreAnswered'
  BY AnsweredStep, Zenon
<1>2. RunsAreAnswered => RunningHasRun
  BY Zenon DEF RunsAreAnswered
<1>. QED  BY <1>1, <1>2, AnsweredInit, Inductive, PTL DEF Spec
-----------------------------------------------------------------------------
(***************************************************************************)
(* What a resumed attempt skips                                            *)
(***************************************************************************)

\* An attempt that was not claimed has recorded no step.
LEMMA UnclaimedIsFresh ==
    ASSUME IInv, NEW t \in Task, NEW a \in Attempt, run[t][a].pc = "none", NEW i \in Stage
    PROVE  step[<<t, a, i, "stage">>] = "none"
<1>1. agent[t][a].pc = "none"
  BY Zenon DEF IInv, OneAgent
<1>2. i \in Unreached(agent[t][a])
  BY <1>1, Zenon DEF Unreached
<1>. QED  BY <1>2, ZenonT(30) DEF IInv, StepsAreFresh

\* A run keeps the workflow it ran, from its claim on.
LEMMA RanKept ==
    ASSUME IInv, [Next]_vars, NEW t \in Task, NEW a \in Attempt, run[t][a].pc # "none"
    PROVE  run'[t][a].ran = run[t][a].ran
<1>0. TypeOK
  BY Zenon DEF IInv
<1>1. ASSUME NEW u \in Task, NEW b \in Attempt, Process(u, b) PROVE run'[t][a].ran = run[t][a].ran
  BY <1>0, <1>1, ProcessRun
<1>2. ASSUME NEW u \in Task, NEW b \in Attempt, AgentStep(u, b) \/ Interrupted(u, b) \/ ContainerDies(u, b)
      PROVE  run'[t][a].ran = run[t][a].ran
  <2>1. AgentLeaves(u, b)
    BY <1>0, <1>2, AgentRun, Zenon
  <2>. QED  BY <2>1, Zenon DEF AgentLeaves
<1>3. ASSUME NEW o \in Operator, Operate(o) PROVE run'[t][a].ran = run[t][a].ran
  BY <1>0, <1>3, OperateRun, Zenon
<1>4. ASSUME NEW u \in Task, ClaimNext(u) PROVE run'[t][a].ran = run[t][a].ran
  <2>1. PICK b \in Attempt : /\ run[u][b].pc = "none"
                             /\ \A x \in Task, c \in Attempt : <<x, c>> # <<u, b>> => run'[x][c] = run[x][c]
    BY <1>4, ClaimRun
  <2>. QED  BY <2>1, Zenon
<1>5. CASE Crash
  BY <1>0, <1>5, CrashRun, Zenon
<1>6. CASE \/ \E u \in Task : Enqueue(u) \/ reconcilePRs(u) \/ BeginRemediation(u)
           \/ recoverOrphans \/ RecoverStale \/ UNCHANGED vars
  BY <1>6, OtherRun, Zenon
<1>. QED  BY <1>1, <1>2, <1>3, <1>4, <1>5, <1>6, Zenon DEF Next

\* What an earlier attempt ran, it ran for good.
LEMMA RanStays ==
    ASSUME IInv, [Next]_vars, NEW t \in Task, NEW a, NEW i \in Stage, NEW w, Ran(t, a, i, w)
    PROVE  Ran(t, a, i, w)'
<1>1. PICK b \in Attempt : b < a /\ run[t][b].ran = w
                           /\ step[<<t, b, i, "stage">>] \in {"succeeded", "failed_past"}
  BY Zenon DEF Ran
<1>2. run[t][b].pc # "none"
  BY <1>1, UnclaimedIsFresh, Zenon
<1>3. run'[t][b].ran = w
  BY <1>1, <1>2, RanKept, Zenon
<1>4. StepsMove /\ <<t, b, i, "stage">> \in StepId
  BY NextInv, Zenon DEF StepId
<1>5. step'[<<t, b, i, "stage">>] = step[<<t, b, i, "stage">>]
  BY <1>1, <1>4, Zenon DEF StepsMove
<1>. QED  BY <1>1, <1>3, <1>5, Zenon DEF Ran

\* So a resume point that could be reached still can, and by later attempts too.
LEMMA ReachableStays ==
    ASSUME IInv, [Next]_vars, NEW t \in Task, NEW a \in Nat, NEW b \in Nat, a <= b, NEW p \in ResumePoint,
           Reachable(t, a, p)
    PROVE  \/ p = NoResume \/ p[2] = 1
           \/ \E c \in Attempt : /\ c < b /\ run'[t][c].ran = p[1]
                                 /\ step'[<<t, c, p[2] - 1, "stage">>] \in {"succeeded", "failed_past"}
<1>1. CASE p # NoResume /\ p[2] # 1
  <2>1. p[2] - 1 \in Stage
    BY <1>1, TaskRunsAssumption DEF ResumePoint, Stage
  <2>2. Ran(t, a, p[2] - 1, p[1])
    BY <1>1, Zenon DEF Reachable
  <2>3. PICK i, w : i = p[2] - 1 /\ w = p[1]
    BY Zenon
  <2>4. Ran(t, a, i, w)'
    BY <2>1, <2>2, <2>3, RanStays, Zenon
  <2>5. PICK c \in Attempt : c < a /\ run'[t][c].ran = w
                             /\ step'[<<t, c, i, "stage">>] \in {"succeeded", "failed_past"}
    BY <2>4, Zenon DEF Ran
  <2>6. c < b
    BY <2>5 DEF Attempt
  <2>. QED  BY <2>3, <2>5, <2>6, Zenon
<1>2. CASE p = NoResume \/ p[2] = 1
  BY <1>2, Zenon
<1>. QED  BY <1>1, <1>2, Zenon

\* A step starts only by its own agent, at the agent's stage.
LEMMA StepsStart ==
    ASSUME IInv, [Next]_vars, NEW t \in Task, NEW a \in Attempt, NEW i \in Stage, NEW k \in {"stage", "agent"},
           step[<<t, a, i, k>>] = "none", step'[<<t, a, i, k>>] # "none"
    PROVE  /\ agent[t][a].stage = i
           /\ \/ k = "stage" /\ StartStage(t, a)
              \/ k = "agent" /\ startChildStep(t, a)
<1>0. TypeOK /\ <<t, a, i, k>> \in StepId /\ step \in [StepId -> StepValue]
  BY TypeParts, ZenonT(30) DEF IInv, StepId
<1>1. step' # step
  BY Zenon
<1>2. ASSUME \A s \in StepId : step[s] = "none" => step'[s] = "none"
      PROVE  FALSE
  BY <1>0, <1>2, Zenon
<1>3. ASSUME NEW u \in Task, NEW b \in Attempt, Process(u, b) PROVE FALSE
  BY <1>0, <1>1, <1>3, ProcessRun, Zenon
<1>4. ASSUME NEW u \in Task, NEW b \in Attempt, StartStage(u, b)
      PROVE  agent[t][a].stage = i /\ k = "stage" /\ StartStage(t, a)
  <2>1. PICK s : s = StageStep(u, b)
    BY Zenon
  <2>2. step' = step \/ step' = [step EXCEPT ![s] = "running"]
    BY <1>4, <2>1, Zenon DEF StartStage, StartStep
  <2>3. <<t, a, i, k>> = s
    BY <1>0, <2>2, Zenon
  <2>4. t = u /\ a = b /\ i = agent[u][b].stage /\ k = "stage"
    BY <2>1, <2>3 DEF StageStep
  <2>. QED  BY <1>4, <2>4, Zenon
<1>5. ASSUME NEW u \in Task, NEW b \in Attempt, startChildStep(u, b)
      PROVE  agent[t][a].stage = i /\ k = "agent" /\ startChildStep(t, a)
  <2>1. PICK s : s = ChildStep(u, b)
    BY Zenon
  <2>2. step' = step \/ step' = [step EXCEPT ![s] = "running"]
    BY <1>5, <2>1, Zenon DEF startChildStep, StartStep
  <2>3. <<t, a, i, k>> = s
    BY <1>0, <2>2, Zenon
  <2>4. t = u /\ a = b /\ i = agent[u][b].stage /\ k = "agent"
    BY <2>1, <2>3 DEF ChildStep
  <2>. QED  BY <1>5, <2>4, Zenon
<1>6. ASSUME NEW u \in Task, NEW b \in Attempt, finishChildStep(u, b) \/ FinishStage(u, b) \/ Interrupted(u, b)
      PROVE  FALSE
  <2>1. PICK s, to : step' = step \/ (step[s] = "running" /\ step' = [step EXCEPT ![s] = to])
    BY <1>6, ZenonT(30) DEF finishChildStep, FinishStage, Interrupted, FinishStep, FinishAllowed
  <2>. QED  BY <1>0, <2>1, Zenon
<1>7. ASSUME NEW u \in Task, NEW b \in Attempt,
             \/ resumeStages(u, b) \/ CompileFails(u, b) \/ PersistStage(u, b) \/ EndBody(u, b)
             \/ Finish(u, b) \/ FinishTransition(u, b) \/ ParkUpdate(u, b) \/ ParkTransition(u, b)
             \/ ContainerDies(u, b)
      PROVE  FALSE
  BY <1>1, <1>7, ZenonT(30) DEF resumeStages, CompileFails, PersistStage, EndBody, Finish, FinishTransition,
                    ParkUpdate, ParkTransition, ContainerDies
<1>8. ASSUME NEW o \in Operator, Operate(o) PROVE FALSE
  <2>1. CASE CancelExecution(o)
    BY <1>0, <1>1, <1>2, <2>1, SweepMoves, Zenon DEF CancelExecution
  <2>. QED  BY <1>1, <1>8, <2>1, ZenonT(30) DEF Operate, Apply, CancelTask, applyApprove, applyRetry, applyMerge, applyArchive
<1>9. CASE RecoverStale
  BY <1>0, <1>2, <1>9, SweepMoves, Zenon DEF RecoverStale
<1>10. CASE \/ \E u \in Task : Enqueue(u) \/ ClaimNext(u) \/ reconcilePRs(u) \/ BeginRemediation(u)
            \/ Crash \/ recoverOrphans \/ UNCHANGED vars
  BY <1>1, <1>10, Zenon DEF Enqueue, ClaimNext, reconcilePRs, BeginRemediation, Crash, recoverOrphans, vars
<1>. QED  BY <1>3, <1>4, <1>5, <1>6, <1>7, <1>8, <1>9, <1>10, ZenonT(30) DEF Next, AgentStep

\* What a row's resume point becomes: a claim, a move and a write-back keep it, a
\* remediation clears it, and a retry sets one whose stage before has results.
ResumeMoves(t) ==
    \/ row'[t].task.resume = row[t].task.resume
    \/ row'[t].task.resume = NoResume
    \/ row'[t].attempt = row[t].attempt /\ Reachable(t, row[t].attempt + 1, row'[t].task.resume)

\* The row writes of runs and agents keep it.
LEMMA WritesKeepResume ==
    ASSUME TypeOK, NEW t \in Task,
           \/ row' = row
           \/ \E u, to : row' = Moved(u, to)
           \/ \E u \in Task, f \in Fields : \E reply : row' = Update(u, f, reply)
    PROVE  row'[t].task.resume = row[t].task.resume
<1>0. row \in RowType
  BY TypeParts, Zenon
<1>1. ASSUME NEW u, NEW to, row' = Moved(u, to) PROVE row'[t].task.resume = row[t].task.resume
  BY <1>0, <1>1 DEF Moved, RowType
<1>2. ASSUME NEW u \in Task, NEW f \in Fields, NEW reply, row' = Update(u, f, reply)
      PROVE  row'[t].task.resume = row[t].task.resume
  <2>1. PICK g : g = [f EXCEPT !.resume = row[u].task.resume]
    BY Zenon
  <2>2. g.resume = row[u].task.resume
    BY <2>1, Zenon DEF Fields
  <2>3. row' = row \/ row' = [row EXCEPT ![u].task = g]
    BY <1>2, <2>1, Zenon DEF Update
  <2>. QED  BY <1>0, <2>2, <2>3, Zenon DEF RowType
<1>. QED  BY <1>1, <1>2, Zenon

\* A retry accepts a resume point only if the last finished run of the stage
\* before it, in any attempt so far, kept its results.
LEMMA ResultsReachable ==
    ASSUME IInv, NEW t \in Task, NEW p \in ResumePoint, resumeResults(t, p)
    PROVE  Reachable(t, row[t].attempt + 1, p)
<1>1. CASE p = NoResume \/ p[2] = 1
  BY <1>1, Zenon DEF Reachable
<1>2. CASE p # NoResume /\ p[2] # 1
  <2>1. PICK i, w : i = p[2] - 1 /\ w = p[1]
    BY Zenon
  <2>2. i \in Stage
    BY <1>2, <2>1, TaskRunsAssumption DEF ResumePoint, Stage
  <2>3. PICK a \in Finished(t, w, i) : step[<<t, a, i, "stage">>] # "failed"
    BY <1>2, <2>1, Zenon DEF resumeResults
  <2>4. a \in Attempt /\ run[t][a].ran = w /\ step[<<t, a, i, "stage">>] \in {"succeeded", "failed_past"}
    BY <2>3, Zenon DEF Finished
  <2>5. run[t][a].pc # "none"
    BY <2>2, <2>4, UnclaimedIsFresh, Zenon
  <2>6. ~(a > row[t].attempt)
    BY <2>4, <2>5, Zenon DEF IInv, OneAgent
  <2>7. row[t].attempt \in Nat /\ a \in Nat
    BY <2>4, TypeParts DEF IInv, RowType, Attempt
  <2>8. a < row[t].attempt + 1
    BY <2>6, <2>7
  <2>. QED  BY <2>1, <2>4, <2>8, Zenon DEF Reachable, Ran
<1>. QED  BY <1>1, <1>2, Zenon

\* Every step does one of these.
LEMMA RowResume ==
    ASSUME IInv, [Next]_vars, NEW t \in Task
    PROVE  ResumeMoves(t)
<1>0. TypeOK /\ row \in RowType /\ run \in RunType /\ op \in [Operator -> OpType]
  BY TypeParts, Zenon DEF IInv
<1>1. ASSUME \/ row' = row
             \/ \E u, to : row' = Moved(u, to)
             \/ \E u \in Task, f \in Fields : \E reply : row' = Update(u, f, reply)
      PROVE  ResumeMoves(t)
  BY <1>0, <1>1, WritesKeepResume, Zenon DEF ResumeMoves
<1>2. ASSUME NEW u \in Task, NEW a \in Attempt, Process(u, a) PROVE ResumeMoves(t)
  <2>1. run[u][a].task \in Fields
    BY <1>0, Zenon DEF RunType
  <2>2. \/ row' = row
        \/ \E reply : row' = parkRunningTask(u, reply)
        \/ \E reply : row' = Update(u, run[u][a].task, reply)
    BY <1>2, Zenon DEF Process, RefuseIdentity, begin, prepareWorkspace, SetupFails, acquireTaskContainer,
                RequestFails, runViaAgent, finished
  <2>. QED  BY <1>1, <2>1, <2>2, Zenon DEF parkRunningTask, Transition
<1>3. ASSUME NEW u \in Task, NEW a \in Attempt, AgentStep(u, a) \/ Interrupted(u, a) \/ ContainerDies(u, a)
      PROVE  ResumeMoves(t)
  <2>1. run[u][a].task \in Fields
    BY <1>0, Zenon DEF RunType
  <2>2. \/ row' = row
        \/ \E to, reply : row' = Transition(u, "running", to, reply)
        \/ \E reply : row' = Update(u, run[u][a].task, reply)
    BY <1>3, ZenonT(30) DEF AgentStep, resumeStages, CompileFails, PersistStage, StartStage, startChildStep, finishChildStep,
                EndBody, FinishStage, Finish, FinishTransition, ParkUpdate, ParkTransition, Interrupted, ContainerDies
  <2>. QED  BY <1>1, <2>1, <2>2, Zenon DEF Transition
<1>4. ASSUME NEW o \in Operator, Operate(o) PROVE ResumeMoves(t)
  <2>1. CASE applyRetry(o)
    <3>1. PICK u, p : u = op[o].task /\ p = op[o].resume
      BY Zenon
    <3>2. u \in Task /\ p \in ResumePoint
      BY <1>0, <2>1, <3>1 DEF applyRetry, OpType, NoOp
    <3>3. CASE AtRetryCap(op[o].retries)
      BY <1>1, <2>1, <3>3, Zenon DEF applyRetry, Transition
    <3>4. CASE ~AtRetryCap(op[o].retries) /\ guardTransition(u, "parked", "queued") /\ resumeResults(u, p)
      <4>1. PICK f : f = [row[u].task EXCEPT !.retries = @ + 1, !.resume = p]
        BY Zenon
      <4>2. row' = [row EXCEPT ![u] = [status |-> "queued", attempt |-> row[u].attempt, task |-> f]]
        BY <2>1, <3>1, <3>4, <4>1, ZenonT(30) DEF applyRetry
      <4>3. f.resume = p
        <5>1. row[u].task \in Fields
          BY <1>0, <3>2, Zenon DEF RowType
        <5>2. PICK g : g = [row[u].task EXCEPT !.retries = row[u].task.retries + 1]
          BY ZenonT(30)
        <5>3. f = [g EXCEPT !.resume = p]
          BY <4>1, <5>2, Zenon
        <5>4. DOMAIN g = DOMAIN row[u].task
          BY <5>2, Zenon
        <5>. QED  BY <5>1, <5>3, <5>4, Zenon DEF Fields
      <4>4. CASE t = u
        <5>1. row'[t].attempt = row[t].attempt /\ row'[t].task.resume = p
          BY <1>0, <4>2, <4>3, <4>4, Zenon DEF RowType
        <5>2. Reachable(t, row[t].attempt + 1, p)
          BY <3>2, <3>4, <4>4, ResultsReachable, Zenon
        <5>. QED  BY <5>1, <5>2, Zenon DEF ResumeMoves
      <4>5. CASE t # u
        BY <1>0, <4>2, <4>5, Zenon DEF RowType, ResumeMoves
      <4>. QED  BY <4>4, <4>5, Zenon
    <3>5. CASE ~AtRetryCap(op[o].retries) /\ ~(guardTransition(u, "parked", "queued") /\ resumeResults(u, p))
      BY <1>1, <2>1, <3>1, <3>5, Zenon DEF applyRetry
    <3>. QED  BY <3>3, <3>4, <3>5, Zenon
  <2>2. CASE CancelExecution(o) \/ applyApprove(o) \/ applyMerge(o) \/ applyArchive(o)
    <3>1. row' = row \/ \E u, to : row' = Moved(u, to)
      BY <2>2, Zenon DEF CancelExecution, applyApprove, applyMerge, applyArchive, Transition
    <3>. QED  BY <1>1, <3>1, Zenon
  <2>3. CASE CancelTask(o) \/ \E u \in Task : Apply(o, u)
    BY <1>1, <2>3, Zenon DEF CancelTask, Apply
  <2>. QED  BY <1>4, <2>1, <2>2, <2>3, Zenon DEF Operate
<1>5. ASSUME NEW u \in Task, ClaimNext(u) PROVE ResumeMoves(t)
  BY <1>5, ClaimRun, Zenon DEF ResumeMoves
<1>6. ASSUME NEW u \in Task, Enqueue(u) \/ reconcilePRs(u) PROVE ResumeMoves(t)
  BY <1>1, <1>6, Zenon DEF Enqueue, reconcilePRs, Transition
<1>7. ASSUME NEW u \in Task, BeginRemediation(u) PROVE ResumeMoves(t)
  <2>1. PICK f : f = [row[u].task EXCEPT !.wf = Remediate, !.resume = NoResume]
    BY Zenon
  <2>2. row' = [row EXCEPT ![u] = [status |-> "queued", attempt |-> row[u].attempt, task |-> f]]
    BY <1>7, <2>1, Zenon DEF BeginRemediation
  <2>3. f.resume = NoResume
    <3>1. row[u].task \in Fields
      BY <1>0, Zenon DEF RowType
    <3>2. PICK g : g = [row[u].task EXCEPT !.wf = Remediate]
      BY Zenon
    <3>3. f = [g EXCEPT !.resume = NoResume]
      BY <2>1, <3>2, Zenon
    <3>4. DOMAIN g = DOMAIN row[u].task
      BY <3>2, Zenon
    <3>. QED  BY <3>1, <3>3, <3>4, Zenon DEF Fields
  <2>. QED  BY <1>0, <2>2, <2>3, Zenon DEF RowType, ResumeMoves
<1>8. CASE RecoverStale
  <2>1. row'[t] \in {row[t], [row[t] EXCEPT !.status = "queued"]}
    BY <1>8, Zenon DEF RecoverStale
  <2>. QED  BY <1>0, <2>1, Zenon DEF RowType, ResumeMoves
<1>9. CASE Crash \/ recoverOrphans \/ UNCHANGED vars
  BY <1>1, <1>9, Zenon DEF Crash, recoverOrphans, vars
<1>. QED  BY <1>2, <1>3, <1>4, <1>5, <1>6, <1>7, <1>8, <1>9, Zenon DEF Next

\* An agent that takes no step itself stays, starts at compile, or dies.
LEMMA AgentStays ==
    ASSUME IInv, [Next]_vars, NEW t \in Task, NEW a \in Attempt,
           ~(AgentStep(t, a) \/ Interrupted(t, a) \/ ContainerDies(t, a))
    PROVE  agent'[t][a] = agent[t][a] \/ agent'[t][a].pc \in {"compile", "dead"}
<1>0. TypeOK /\ agent \in AgentType
  BY TypeParts, Zenon DEF IInv
<1>1. ASSUME NEW u \in Task, NEW b \in Attempt, Process(u, b)
      PROVE  agent'[t][a] = agent[t][a] \/ agent'[t][a].pc \in {"compile", "dead"}
  <2>1. ProcessMoves(u, b)
    BY <1>0, <1>1, ProcessRun, ZenonT(30)
  <2>2. CASE agent' = agent
    BY <2>2, ZenonT(30)
  <2>3. CASE Becomes(u, b, AgentAt("compile", 1, NoResult)) \/ Becomes(u, b, AgentAt("dead", 1, NoResult))
    BY <1>0, <2>3, AgentBecomes DEF Others
  <2>. QED  BY <2>1, <2>2, <2>3, Zenon DEF ProcessMoves, Becomes, DeadAgent
<1>2. ASSUME NEW u \in Task, NEW b \in Attempt, AgentStep(u, b) \/ Interrupted(u, b) \/ ContainerDies(u, b)
      PROVE  agent'[t][a] = agent[t][a]
  <2>1. AgentMoves(u, b)
    BY <1>0, <1>2, AgentGoes, Zenon
  <2>2. <<t, a>> # <<u, b>>
    BY <1>2, Zenon
  <2>. QED  BY <2>1, <2>2, Zenon DEF AgentMoves, Others
<1>3. ASSUME NEW o \in Operator, Operate(o) PROVE agent'[t][a] = agent[t][a]
  BY <1>0, <1>3, OperateRun, Zenon
<1>4. CASE recoverOrphans
  <2>1. agent'[t][a] \in {agent[t][a], DeadAgent} /\ DeadAgent.pc = "dead"
    BY <1>4 DEF recoverOrphans, DeadAgent, AgentAt
  <2>. QED  BY <2>1, Zenon
<1>5. CASE \/ \E u \in Task : Enqueue(u) \/ ClaimNext(u) \/ reconcilePRs(u) \/ BeginRemediation(u)
           \/ Crash \/ RecoverStale \/ UNCHANGED vars
  BY <1>5, ZenonT(30) DEF Enqueue, ClaimNext, reconcilePRs, BeginRemediation, Crash, RecoverStale, vars
<1>. QED  BY <1>1, <1>2, <1>3, <1>4, <1>5, ZenonT(30) DEF Next

\* What a step does to the runs and agents that carry resume points.
RunKeeps(t, a) ==
    /\ run'[t][a].ran = run[t][a].ran
    /\ run'[t][a].task.resume \in {run[t][a].task.resume, NoResume}
    /\ \/ run'[t][a].task = run[t][a].task \/ run'[t][a].task.wf = run[t][a].ran
       \/ agent'[t][a].pc \notin {"none", "compile"}
    /\ agent'[t][a].pc \in {"none", "compile"} => agent[t][a].pc \in {"none", "compile"}

\* Every step that is no claim of it.
LEMMA RunsKeep ==
    ASSUME IInv, [Next]_vars, NEW t \in Task, NEW a \in Attempt, ~(ClaimNext(t) /\ a = row[t].attempt + 1)
    PROVE  RunKeeps(t, a)
<1>0. TypeOK /\ agent \in AgentType
  BY TypeParts, Zenon DEF IInv
<1>1. ASSUME NEW u \in Task, NEW b \in Attempt, Process(u, b) PROVE RunKeeps(t, a)
  <2>1. /\ \A x \in Task, c \in Attempt : <<x, c>> # <<u, b>> => run'[x][c] = run[x][c]
        /\ run'[u][b].ran = run[u][b].ran
        /\ run'[u][b].task \in {run[u][b].task, Blank(run[u][b].ran)}
        /\ ProcessMoves(u, b)
    BY <1>0, <1>1, ProcessRun, Zenon
  <2>2. Blank(run[u][b].ran).wf = run[u][b].ran /\ Blank(run[u][b].ran).resume = NoResume
    BY Zenon DEF Blank
  <2>3. agent'[t][a].pc \in {"none", "compile"} => agent[t][a].pc \in {"none", "compile"}
    <3>1. CASE agent' = agent
      BY <3>1, Zenon
    <3>2. CASE run[u][b].pc = "launch" /\ Becomes(u, b, AgentAt("compile", 1, NoResult))
      <4>1. agent[u][b].pc = "none"
        BY <3>2, Zenon DEF IInv, OneAgent
      <4>2. Others(u, b)
        BY <1>0, <3>2, AgentBecomes, Zenon
      <4>3. CASE <<t, a>> = <<u, b>>
        BY <4>1, <4>3, Zenon
      <4>4. CASE <<t, a>> # <<u, b>>
        BY <4>2, <4>4, Zenon DEF Others
      <4>. QED  BY <4>3, <4>4, Zenon
    <3>3. CASE Becomes(u, b, AgentAt("dead", 1, NoResult))
      BY <1>0, <3>3, AgentBecomes DEF Others
    <3>. QED  BY <2>1, <3>1, <3>2, <3>3, Zenon DEF ProcessMoves, Becomes, DeadAgent
  <2>4. CASE <<t, a>> = <<u, b>>
    BY <2>1, <2>2, <2>3, <2>4, Zenon DEF RunKeeps
  <2>5. CASE <<t, a>> # <<u, b>>
    BY <2>1, <2>3, <2>5, ZenonT(30) DEF RunKeeps
  <2>. QED  BY <2>4, <2>5, Zenon
<1>2. ASSUME NEW u \in Task, NEW b \in Attempt, AgentStep(u, b) \/ Interrupted(u, b) \/ ContainerDies(u, b)
      PROVE  RunKeeps(t, a)
  <2>1. /\ run'[t][a].ran = run[t][a].ran /\ run'[t][a].task.resume = run[t][a].task.resume
        /\ run'[t][a].task = run[t][a].task \/ (t = u /\ a = b)
    <3>1. AgentLeaves(u, b)
      BY <1>0, <1>2, AgentRun, Zenon
    <3>. QED  BY <3>1, Zenon DEF AgentLeaves
  <2>2. AgentMoves(u, b)
    BY <1>0, <1>2, AgentGoes, Zenon
  <2>3. Others(u, b) /\ agent'[u][b].pc \notin {"none", "compile"}
    BY <2>2, ZenonT(30) DEF AgentMoves
  <2>. QED  BY <2>1, <2>3, ZenonT(30) DEF RunKeeps, Others
<1>3. ASSUME NEW o \in Operator, Operate(o) PROVE RunKeeps(t, a)
  BY <1>0, <1>3, OperateRun, ZenonT(30) DEF RunKeeps
<1>4. ASSUME NEW u \in Task, ClaimNext(u) PROVE RunKeeps(t, a)
  BY <1>4, ClaimRun DEF RunKeeps
<1>5. CASE Crash
  BY <1>0, <1>5, CrashRun, Zenon DEF RunKeeps
<1>6. CASE recoverOrphans
  <2>1. agent'[t][a] \in {agent[t][a], DeadAgent} /\ DeadAgent.pc = "dead" /\ run' = run
    BY <1>6 DEF recoverOrphans, DeadAgent, AgentAt
  <2>. QED  BY <2>1, Zenon DEF RunKeeps
<1>7. CASE \/ \E u \in Task : Enqueue(u) \/ reconcilePRs(u) \/ BeginRemediation(u)
           \/ RecoverStale \/ UNCHANGED vars
  BY <1>7, ZenonT(30) DEF Enqueue, reconcilePRs, BeginRemediation, RecoverStale, vars, RunKeeps
<1>. QED  BY <1>1, <1>2, <1>3, <1>4, <1>5, <1>6, <1>7, ZenonT(30) DEF Next

\* What ran before an agent's stage still did.
LEMMA StillFollows ==
    ASSUME IInv, [Next]_vars, NEW t \in Task, NEW a \in Attempt, run[t][a].pc # "none",
           NEW i \in Stage, step[<<t, a, i, "stage">>] # "none" \/ Ran(t, a, i, run[t][a].ran)
    PROVE  step'[<<t, a, i, "stage">>] # "none" \/ Ran(t, a, i, run[t][a].ran)'
<1>1. CASE step[<<t, a, i, "stage">>] # "none"
  <2>1. StepsMove /\ <<t, a, i, "stage">> \in StepId
    BY NextInv, Zenon DEF StepId
  <2>. QED  BY <1>1, <2>1, Zenon DEF StepsMove, StepDone, StepTerminal
<1>2. CASE Ran(t, a, i, run[t][a].ran)
  <2>1. PICK w : w = run[t][a].ran
    BY Zenon
  <2>2. Ran(t, a, i, w)'
    BY <1>2, <2>1, RanStays, Zenon
  <2>3. run'[t][a].ran = w
    BY <2>1, RanKept, Zenon
  <2>. QED  BY <2>2, <2>3, Zenon DEF Ran
<1>. QED  BY <1>1, <1>2, Zenon

\* An agent's own step keeps its stage, goes to the next one from a recorded one,
\* or begins at the resume point of its run.
LEMMA AgentFollows ==
    ASSUME IInv, SkipsAreEarned, [Next]_vars, NEW t \in Task, NEW a \in Attempt,
           AgentStep(t, a) \/ Interrupted(t, a) \/ ContainerDies(t, a),
           agent'[t][a].pc \in {"update", "start", "body", "child", "record"}, agent'[t][a].stage # 1
    PROVE  LET i == agent'[t][a].stage - 1
           IN  /\ i \in Stage
               /\ step[<<t, a, i, "stage">>] # "none" \/ Ran(t, a, i, run[t][a].ran)
<1>0. TypeOK /\ agent \in AgentType /\ agent' \in AgentType /\ run \in RunType
  BY TypeParts, NextInv, ZenonT(30) DEF IInv
<1>1. PICK i : i = agent'[t][a].stage - 1
  BY Zenon
<1>2. i \in Stage /\ agent[t][a].stage \in Stage
  BY <1>0, <1>1, TaskRunsAssumption DEF AgentType, Stage
<1>3. AgentMoves(t, a)
  BY <1>0, AgentGoes, ZenonT(30)
<1>4. CASE /\ agent[t][a].pc = "compile" /\ run[t][a].task.resume # NoResume
           /\ run[t][a].task.resume[1] = run[t][a].task.wf
           /\ agent'[t][a].stage = run[t][a].task.resume[2]
  <2>1. run[t][a].task.wf = run[t][a].ran /\ Reachable(t, a, run[t][a].task.resume)
    BY <1>4, ZenonT(30) DEF SkipsAreEarned
  <2>2. Ran(t, a, i, run[t][a].ran)
    BY <1>1, <1>4, <2>1, ZenonT(30) DEF Reachable
  <2>. QED  BY <1>1, <1>2, <2>2, Zenon
<1>5. CASE /\ agent[t][a].pc \in {"update", "start", "body", "child", "record"}
           /\ agent'[t][a].stage = agent[t][a].stage
  BY <1>1, <1>2, <1>5, ZenonT(30) DEF SkipsAreEarned, Follows
<1>6. CASE agent'[t][a].stage = agent[t][a].stage + 1 /\ FinishAllowed(StageStep(t, a))
  <2>1. i = agent[t][a].stage
    BY <1>1, <1>2, <1>6 DEF Stage
  <2>. QED  BY <1>1, <1>2, <1>6, <2>1, ZenonT(30) DEF FinishAllowed, StageStep
<1>. QED
  <2>1. CASE agent'[t][a].pc = "update"
    BY <1>3, <1>4, <1>6, <2>1, ZenonT(30) DEF AgentMoves
  <2>2. CASE agent'[t][a].pc \in {"start", "body", "child", "record"}
    <3>1. /\ agent'[t][a].stage = agent[t][a].stage
          /\ \/ PersistStage(t, a) \/ StartStage(t, a) \/ startChildStep(t, a) \/ finishChildStep(t, a)
             \/ EndBody(t, a)
      BY <1>3, <2>2, ZenonT(30) DEF AgentMoves
    <3>2. agent[t][a].pc \in {"update", "start", "body", "child", "record"}
      BY <3>1, Zenon DEF PersistStage, StartStage, startChildStep, finishChildStep, EndBody
    <3>. QED  BY <1>5, <3>1, <3>2, ZenonT(30)
  <2>. QED  BY <2>1, <2>2, ZenonT(30)

\* Every step keeps the resume points, and what they let an attempt skip, earned.
LEMMA SkipsStep ==
    ASSUME IInv, SkipsAreEarned, [Next]_vars
    PROVE  SkipsAreEarned'
<1>0. /\ TypeOK /\ row \in RowType /\ row' \in RowType /\ run \in RunType /\ run' \in RunType
      /\ agent \in AgentType /\ agent' \in AgentType /\ RowsFollow /\ StepsMove /\ IInv'
  BY TypeParts, NextInv, Zenon DEF IInv
<1>1. ASSUME NEW t \in Task PROVE Reachable(t, row[t].attempt + 1, row[t].task.resume)'
  <2>1. PICK p \in ResumePoint, a \in Nat, b \in Nat :
           p = row'[t].task.resume /\ a = row[t].attempt + 1 /\ b = row'[t].attempt + 1
    BY <1>0 DEF RowType, Fields
  <2>2. a <= b
    <3>1. row'[t].attempt = row[t].attempt \/ row'[t].attempt = row[t].attempt + 1
      BY <1>0, Zenon DEF RowsFollow, Keeps, Moves, Creates, Claims, Archives
    <3>. QED  BY <1>0, <2>1, <3>1 DEF RowType
  <2>3. p = NoResume \/ Reachable(t, a, p)
    <3>1. ResumeMoves(t)
      BY RowResume, Zenon
    <3>. QED  BY <2>1, <3>1, Zenon DEF ResumeMoves, SkipsAreEarned
  <2>4. CASE p = NoResume
    BY <2>1, <2>4, Zenon DEF Reachable
  <2>5. CASE Reachable(t, a, p)
    <3>1. \/ p = NoResume \/ p[2] = 1
          \/ \E c \in Attempt : /\ c < b /\ run'[t][c].ran = p[1]
                                /\ step'[<<t, c, p[2] - 1, "stage">>] \in {"succeeded", "failed_past"}
      BY <2>2, <2>5, ReachableStays, Zenon
    <3>. QED  BY <2>1, <3>1, Zenon DEF Reachable, Ran
  <2>. QED  BY <2>3, <2>4, <2>5, Zenon
<1>2. ASSUME NEW t \in Task, NEW a \in Attempt PROVE Reachable(t, a, run[t][a].task.resume)'
  <2>1. PICK p \in ResumePoint : p = run'[t][a].task.resume
    BY <1>0, Zenon DEF RunType, Fields
  <2>2. p = NoResume \/ Reachable(t, a, p)
    <3>1. CASE ClaimNext(t) /\ a = row[t].attempt + 1
      <4>1. run'[t][a].task.resume = row[t].task.resume
        BY <3>1, ClaimRun
      <4>. QED  BY <2>1, <3>1, <4>1, Zenon DEF SkipsAreEarned
    <3>2. CASE ~(ClaimNext(t) /\ a = row[t].attempt + 1)
      <4>1. RunKeeps(t, a)
        BY <3>2, RunsKeep, Zenon
      <4>. QED  BY <2>1, <4>1, Zenon DEF RunKeeps, SkipsAreEarned
    <3>. QED  BY <3>1, <3>2, Zenon
  <2>3. CASE p = NoResume
    BY <2>1, <2>3, Zenon DEF Reachable
  <2>4. CASE Reachable(t, a, p)
    <3>1. a \in Nat /\ a <= a
      BY DEF Attempt
    <3>2. \/ p = NoResume \/ p[2] = 1
          \/ \E c \in Attempt : /\ c < a /\ run'[t][c].ran = p[1]
                                /\ step'[<<t, c, p[2] - 1, "stage">>] \in {"succeeded", "failed_past"}
      BY <2>4, <3>1, ReachableStays, Zenon
    <3>. QED  BY <2>1, <3>2, Zenon DEF Reachable, Ran
  <2>. QED  BY <2>2, <2>3, <2>4, Zenon
<1>3. ASSUME NEW t \in Task, NEW a \in Attempt, agent'[t][a].pc \in {"none", "compile"}
      PROVE  run'[t][a].task.wf = run'[t][a].ran
  <2>1. CASE ClaimNext(t) /\ a = row[t].attempt + 1
    BY <2>1, ClaimRun
  <2>2. CASE ~(ClaimNext(t) /\ a = row[t].attempt + 1)
    <3>1. RunKeeps(t, a)
      BY <2>2, RunsKeep, Zenon
    <3>. QED  BY <1>3, <3>1, ZenonT(30) DEF RunKeeps, SkipsAreEarned
  <2>. QED  BY <2>1, <2>2, Zenon
<1>4. ASSUME NEW t \in Task, NEW a \in Attempt,
             agent'[t][a].pc \in {"update", "start", "body", "child", "record"}, agent'[t][a].stage # 1
      PROVE  \/ step'[<<t, a, agent'[t][a].stage - 1, "stage">>] # "none"
             \/ Ran(t, a, agent[t][a].stage - 1, run[t][a].ran)'
  <2>1. PICK i : i = agent'[t][a].stage - 1
    BY Zenon
  <2>2. i \in Stage
    BY <1>0, <1>4, <2>1, TaskRunsAssumption DEF AgentType, Stage
  <2>3. /\ run[t][a].pc # "none"
        /\ step[<<t, a, i, "stage">>] # "none" \/ Ran(t, a, i, run[t][a].ran)
    <3>1. CASE agent'[t][a] = agent[t][a]
      <4>1. run[t][a].pc # "none"
        BY <1>4, <3>1, WasClaimed, Zenon
      <4>. QED  BY <1>4, <2>1, <3>1, <4>1, Zenon DEF SkipsAreEarned, Follows
    <3>2. CASE AgentStep(t, a) \/ Interrupted(t, a) \/ ContainerDies(t, a)
      <4>1. agent[t][a].pc # "none"
        <5>1. AgentLeaves(t, a)
          BY <1>0, <3>2, AgentRun, Zenon
        <5>. QED  BY <5>1, Zenon DEF AgentLeaves, Working
      <4>2. run[t][a].pc # "none"
        BY <4>1, WasClaimed, Zenon
      <4>. QED  BY <1>4, <2>1, <3>2, <4>2, AgentFollows, Zenon
    <3>. QED  BY <1>4, <3>1, <3>2, AgentStays, ZenonT(30)
  <2>4. step'[<<t, a, i, "stage">>] # "none" \/ Ran(t, a, i, run[t][a].ran)'
    BY <2>2, <2>3, StillFollows, Zenon
  <2>. QED  BY <2>1, <2>4, Zenon DEF Ran
<1>5. ASSUME NEW t \in Task, NEW a \in Attempt, NEW i \in Stage \ {1},
             step'[<<t, a, i, "stage">>] # "none", step'[<<t, a, i - 1, "stage">>] = "none"
      PROVE  Ran(t, a, i - 1, run[t][a].ran)'
  <2>1. PICK j : j = i - 1
    BY Zenon
  <2>2. j \in Stage
    BY <2>1, TaskRunsAssumption DEF Stage
  <2>3. step[<<t, a, j, "stage">>] = "none"
    <3>1. <<t, a, j, "stage">> \in StepId
      BY <2>2, Zenon DEF StepId
    <3>. QED  BY <1>0, <1>5, <2>1, <3>1, Zenon DEF StepsMove, StepDone, StepTerminal
  <2>4. run[t][a].pc # "none" /\ Ran(t, a, j, run[t][a].ran)
    <3>1. CASE step[<<t, a, i, "stage">>] # "none"
      <4>1. run[t][a].pc # "none"
        BY <3>1, UnclaimedIsFresh, Zenon
      <4>. QED  BY <2>1, <2>3, <3>1, <4>1, ZenonT(30) DEF SkipsAreEarned, SkippedStagesRan, Ran
    <3>2. CASE step[<<t, a, i, "stage">>] = "none"
      <4>1. agent[t][a].pc = "start" /\ agent[t][a].stage = i
        BY <1>5, <3>2, StepsStart, ZenonT(30) DEF StartStage
      <4>2. run[t][a].pc # "none"
        BY <4>1, WasClaimed, Zenon
      <4>. QED  BY <2>1, <2>3, <4>1, <4>2, ZenonT(30) DEF SkipsAreEarned, Follows
    <3>. QED  BY <3>1, <3>2, Zenon
  <2>5. step'[<<t, a, j, "stage">>] # "none" \/ Ran(t, a, j, run[t][a].ran)'
    BY <2>2, <2>4, StillFollows, Zenon
  <2>. QED  BY <1>5, <2>1, <2>5, Zenon DEF Ran
<1>6. SkippedStagesRan'
  BY <1>5, Zenon DEF SkippedStagesRan, Ran
<1>7. (\A t \in Task, a \in Attempt : Follows(t, a))'
  BY <1>4, Zenon DEF Follows
<1>. QED  BY <1>1, <1>2, <1>3, <1>6, <1>7, Zenon DEF SkipsAreEarned

\* Before any step, none was skipped.
LEMMA SkipsInit == Init => SkipsAreEarned
<1> SUFFICES ASSUME Init PROVE SkipsAreEarned
  BY Zenon
<1>1. PICK w \in Workflow :
        /\ row = [t \in Task |-> [status |-> "none", attempt |-> 0, task |-> Blank(w)]]
        /\ run = [t \in Task |-> [a \in Attempt |->
                    [pc |-> "none", cancelled |-> FALSE, ran |-> w, task |-> Blank(w)]]]
  BY Zenon DEF Init
<1>2. Blank(w).resume = NoResume /\ Blank(w).wf = w
  BY Zenon DEF Blank
<1>3. \A t \in Task : row[t].task.resume = NoResume
  BY <1>1, <1>2, Zenon
<1>4. \A t \in Task, a \in Attempt : run[t][a].task.resume = NoResume /\ run[t][a].task.wf = run[t][a].ran
  BY <1>1, <1>2, Zenon
<1>5. \A t \in Task, a \in Attempt : agent[t][a].pc = "none"
  BY DEF Init, NoAgent, AgentAt
<1>6. SkippedStagesRan
  <2>1. \A t \in Task, a \in Attempt, i \in Stage : step[<<t, a, i, "stage">>] = "none"
    BY Zenon DEF Init, StepId
  <2>. QED  BY <2>1, Zenon DEF SkippedStagesRan
<1>. QED  BY <1>3, <1>4, <1>5, <1>6, Zenon DEF SkipsAreEarned, Follows, Reachable

\* Whatever operators resume, stale runs write back and crashes interrupt, an
\* attempt that starts past the first stage skips only what ran: an earlier one
\* of the same workflow recorded the stage before, and moved past it.
THEOREM OnlyRanIsSkipped == Spec => []SkippedStagesRan
<1>1. IInv /\ SkipsAreEarned /\ [Next]_vars => SkipsAreEarned'
  BY SkipsStep, Zenon
<1>2. SkipsAreEarned => SkippedStagesRan
  BY ZenonT(30) DEF SkipsAreEarned
<1>. QED  BY <1>1, <1>2, SkipsInit, Inductive, PTL DEF Spec
-----------------------------------------------------------------------------
(***************************************************************************)
(* Settled executions                                                      *)
(***************************************************************************)

\* A step of process() leaves the agents be, or starts or releases its own.
LEMMA ProcessAgents ==
    ASSUME IInv, NEW t \in Task, NEW a \in Attempt, Process(t, a)
    PROVE  /\ Others(t, a)
           /\ \/ agent'[t][a] = agent[t][a]
              \/ run[t][a].pc = "launch" /\ run'[t][a].pc = "waiting" /\ agent'[t][a].pc = "compile"
              \/ run[t][a].pc = "ending" /\ agent'[t][a].pc = "dead"
<1>0. TypeOK
  BY Zenon DEF IInv
<1>1. ProcessMoves(t, a)
  BY <1>0, ProcessRun, Zenon
<1>2. CASE agent' = agent
  BY <1>2, Zenon DEF Others
<1>3. CASE /\ run[t][a].pc = "launch" /\ run'[t][a].pc = "waiting"
           /\ Becomes(t, a, AgentAt("compile", 1, NoResult))
  BY <1>0, <1>3, AgentBecomes, ZenonT(30)
<1>4. CASE run[t][a].pc = "ending" /\ Becomes(t, a, AgentAt("dead", 1, NoResult))
  BY <1>0, <1>4, AgentBecomes
<1>. QED  BY <1>1, <1>2, <1>3, <1>4, Zenon DEF ProcessMoves, Becomes, DeadAgent

\* A step of process(): a container is acquired only when the earlier attempts
\* have returned, and released before its own does.
LEMMA ProcessGo ==
    ASSUME IInv, Listed, AgentsGo, NEW t \in Task, NEW a \in Attempt, Process(t, a)
    PROVE  AgentsGo'
<1>0. TypeOK
  BY Zenon DEF IInv
<1>1. /\ up' = up
      /\ \A u \in Task, b \in Attempt : <<u, b>> # <<t, a>> => run'[u][b] = run[u][b]
      /\ ProcessMoves(t, a)
  BY <1>0, ProcessRun, Zenon
<1>2. run[t][a].pc \in {"submitted", "setup", "launch", "waiting", "ending"} /\ run'[t][a].pc # "none"
  BY <1>1, Zenon DEF ProcessMoves, MayStart
<1>3. up = "up"
  BY <1>2, Zenon DEF AgentsGo
<1>4. /\ Others(t, a)
      /\ \/ agent'[t][a] = agent[t][a]
         \/ run[t][a].pc = "launch" /\ run'[t][a].pc = "waiting" /\ agent'[t][a].pc = "compile"
         \/ run[t][a].pc = "ending" /\ agent'[t][a].pc = "dead"
  BY ProcessAgents, Zenon
<1>5. ASSUME NEW u \in Task, NEW b \in Attempt, run'[u][b].pc \in {"none", "done"}
      PROVE  agent'[u][b].pc \in {"none", "dead"}
  <2>1. CASE <<u, b>> = <<t, a>>
    <3>1. u = t /\ b = a
      BY <2>1, Zenon
    <3>2. CASE run[t][a].pc = "submitted"
      <4>1. agent[t][a].pc = "none"
        BY <3>2, Zenon DEF IInv, OneAgent
      <4>. QED  BY <1>4, <3>1, <3>2, <4>1, Zenon
    <3>3. CASE run[t][a].pc # "submitted"
      <4>1. run[t][a].pc = "ending" /\ agent' = [agent EXCEPT ![t][a] = DeadAgent]
        BY <1>1, <1>5, <3>1, <3>3, Zenon DEF ProcessMoves, MayStart
      <4>2. Becomes(t, a, AgentAt("dead", 1, NoResult))
        BY <4>1, Zenon DEF Becomes, DeadAgent
      <4>. QED  BY <1>0, <3>1, <4>2, AgentBecomes
    <3>. QED  BY <3>2, <3>3, Zenon
  <2>2. CASE <<u, b>> # <<t, a>>
    BY <1>1, <1>3, <1>4, <1>5, <2>2, ZenonT(30) DEF AgentsGo, Others
  <2>. QED  BY <2>1, <2>2, Zenon
<1>6. ASSUME NEW u \in Task, NEW b \in Attempt, NEW c \in Attempt, b < c, agent'[u][c].pc # "none"
      PROVE  agent'[u][b].pc \in {"none", "dead"}
  <2>0. b # c
    BY <1>6 DEF Attempt
  <2>1. CASE agent'[t][a] = agent[t][a]
    <3>1. agent'[u][b] = agent[u][b] /\ agent'[u][c] = agent[u][c]
      BY <1>4, <2>1, Zenon DEF Others
    <3>. QED  BY <1>6, <3>1, Zenon DEF AgentsGo
  <2>2. CASE run[t][a].pc \in {"launch", "ending"} /\ u = t /\ c = a
    <3>1. run[t][b].pc \in {"none", "done"}
      BY <1>6, <2>2, Zenon DEF Listed, BatonHolds
    <3>2. agent[t][b].pc \in {"none", "dead"}
      BY <1>3, <3>1, Zenon DEF AgentsGo
    <3>. QED  BY <1>4, <2>0, <2>2, <3>2, Zenon DEF Others
  <2>3. CASE agent'[t][a].pc = "dead" /\ u = t /\ b = a
    BY <2>3, Zenon
  <2>4. CASE run[t][a].pc = "launch" /\ u = t /\ b = a
    <3>1. agent[t][c].pc # "none"
      BY <1>4, <1>6, <2>0, <2>4, Zenon DEF Others
    <3>2. run[t][c].pc \notin {"none", "submitted"}
      BY <3>1, Zenon DEF IInv, OneAgent
    <3>. QED  BY <1>6, <2>4, <3>2, Zenon DEF Listed, BatonHolds
  <2>5. CASE ~(u = t /\ c = a) /\ ~(u = t /\ b = a)
    <3>1. agent'[u][b] = agent[u][b] /\ agent'[u][c] = agent[u][c]
      BY <1>4, <2>5, Zenon DEF Others
    <3>. QED  BY <1>6, <3>1, Zenon DEF AgentsGo
  <2>. QED  BY <1>4, <2>1, <2>2, <2>3, <2>4, <2>5, Zenon
<1>. QED  BY <1>1, <1>3, <1>5, <1>6, Zenon DEF AgentsGo

\* An agent's own step: it was alive, so its run is, and it is the last agent.
LEMMA AgentGo ==
    ASSUME IInv, AgentsGo, NEW t \in Task, NEW a \in Attempt,
           AgentStep(t, a) \/ Interrupted(t, a) \/ ContainerDies(t, a)
    PROVE  AgentsGo'
<1>0. TypeOK
  BY Zenon DEF IInv
<1>1. /\ up' = up /\ agent[t][a].pc \in Working
      /\ \A u \in Task, b \in Attempt : run'[u][b].pc = run[u][b].pc
  <2>1. AgentLeaves(t, a)
    BY <1>0, AgentRun, Zenon
  <2>. QED  BY <2>1, Zenon DEF AgentLeaves
<1>2. agent[t][a].pc \notin {"none", "dead"}
  BY <1>1, Zenon DEF Working
<1>3. Others(t, a)
  <2>1. AgentMoves(t, a)
    BY <1>0, AgentGoes, Zenon
  <2>. QED  BY <2>1, Zenon DEF AgentMoves
<1>4. ASSUME NEW u \in Task, NEW b \in Attempt, up # "down", run[u][b].pc \in {"none", "done"}
      PROVE  agent'[u][b].pc \in {"none", "dead"}
  <2>1. agent[u][b].pc \in {"none", "dead"}
    BY <1>4, Zenon DEF AgentsGo
  <2>2. <<u, b>> # <<t, a>>
    BY <1>2, <2>1, Zenon
  <2>. QED  BY <1>3, <2>1, <2>2, Zenon DEF Others
<1>5. ASSUME NEW u \in Task, NEW b \in Attempt, NEW c \in Attempt, b < c, agent'[u][c].pc # "none"
      PROVE  agent'[u][b].pc \in {"none", "dead"}
  <2>1. agent[u][c].pc # "none"
    BY <1>2, <1>3, <1>5, Zenon DEF Others
  <2>2. agent[u][b].pc \in {"none", "dead"}
    BY <1>5, <2>1, Zenon DEF AgentsGo
  <2>3. <<u, b>> # <<t, a>>
    BY <1>2, <2>2, Zenon
  <2>. QED  BY <1>3, <2>2, <2>3, Zenon DEF Others
<1>. QED  BY <1>1, <1>4, <1>5 DEF AgentsGo

\* No step lets a live agent stay without its run.  A crash does, until the
\* restart removes the orphans: all of them, if no removal fails.
LEMMA GoStep ==
    ASSUME MaxCrashes = 0 \/ ~Faults, IInv, Listed, AgentsGo, [Next]_vars
    PROVE  AgentsGo'
<1>0. TypeOK /\ agent \in AgentType /\ crashes \in 0 .. MaxCrashes
  BY TypeParts, Zenon DEF IInv
<1>1. ASSUME up' = up, agent' = agent, \A t \in Task, a \in Attempt : run'[t][a].pc = run[t][a].pc
      PROVE  AgentsGo'
  BY <1>1 DEF AgentsGo
<1>2. ASSUME NEW t \in Task, NEW a \in Attempt, Process(t, a) PROVE AgentsGo'
  BY <1>2, ProcessGo, Zenon
<1>3. ASSUME NEW t \in Task, NEW a \in Attempt, AgentStep(t, a) \/ Interrupted(t, a) \/ ContainerDies(t, a)
      PROVE  AgentsGo'
  BY <1>3, AgentGo, Zenon
<1>4. ASSUME NEW o \in Operator, Operate(o) PROVE AgentsGo'
  BY <1>0, <1>1, <1>4, OperateRun, Zenon
<1>5. ASSUME NEW t \in Task, ClaimNext(t) PROVE AgentsGo'
  <2>1. PICK a \in Attempt :
          /\ up = "up" /\ up' = up /\ run'[t][a].pc = "submitted" /\ agent' = agent
          /\ \A u \in Task, b \in Attempt : <<u, b>> # <<t, a>> => run'[u][b] = run[u][b]
    BY <1>5, ClaimRun, Zenon
  <2>2. \A u \in Task, b \in Attempt :
          run'[u][b].pc \in {"none", "done"} => run[u][b].pc \in {"none", "done"}
    BY <2>1, Zenon
  <2>. QED  BY <2>1, <2>2, Zenon DEF AgentsGo
<1>6. CASE Crash
  <2>1. MaxCrashes # 0
    BY <1>0, <1>6, TaskRunsAssumption DEF Crash
  <2>2. up' = "down" /\ agent' = agent /\ \A t \in Task, a \in Attempt : run'[t][a].pc \in {"none", "done"}
    BY <1>0, <1>6, CrashRun, Zenon
  <2>. QED  BY <2>1, <2>2, Zenon DEF AgentsGo
<1>7. CASE recoverOrphans
  <2>1. up = "down" /\ up' = "recovering" /\ run' = run
    BY <1>7, Zenon DEF recoverOrphans
  <2>2. MaxCrashes # 0 /\ ~Faults
    BY <2>1, Zenon DEF AgentsGo
  <2>3. ASSUME NEW t \in Task, NEW a \in Attempt PROVE agent'[t][a].pc \in {"none", "dead"}
    <3>1. agent'[t][a] = IF <<t, a>> \in Orphans THEN DeadAgent ELSE agent[t][a]
      BY <1>7, <2>2, Zenon DEF recoverOrphans
    <3>2. <<t, a>> \notin Orphans => agent[t][a].pc \in {"none", "dead"}
      BY Zenon DEF Orphans
    <3>. QED  BY <3>1, <3>2 DEF DeadAgent, AgentAt
  <2>. QED  BY <2>1, <2>2, <2>3, Zenon DEF AgentsGo
<1>8. CASE RecoverStale
  <2>1. up = "recovering" /\ up' = "up" /\ run' = run /\ agent' = agent
    BY <1>8, Zenon DEF RecoverStale
  <2>. QED  BY <2>1, Zenon DEF AgentsGo
<1>9. CASE \/ \E t \in Task : Enqueue(t) \/ reconcilePRs(t) \/ BeginRemediation(t)
           \/ UNCHANGED vars
  BY <1>1, <1>9, Zenon DEF Enqueue, reconcilePRs, BeginRemediation, vars
<1>. QED  BY <1>2, <1>3, <1>4, <1>5, <1>6, <1>7, <1>8, <1>9 DEF Next

\* Nothing is open in an attempt whose agent has not started.
LEMMA UnstartedIsQuiet ==
    ASSUME IInv, NEW t \in Task, NEW a \in Attempt, agent[t][a].pc \in {"none", "compile"},
           NEW i \in Stage, NEW k \in {"stage", "agent"}
    PROVE  step[<<t, a, i, k>>] = "none"
<1>1. i \in Unreached(agent[t][a])
  BY Zenon DEF Unreached
<1>. QED  BY <1>1, ZenonT(30) DEF IInv, StepsAreFresh

\* A row that is there was there before, unless it is new and has no attempt.
LEMMA RowWasThere ==
    ASSUME IInv, StepsAreClosed, [Next]_vars, NEW t \in Task, row'[t].status \notin Absent,
           NEW a \in Attempt, NEW i \in Stage, NEW k \in {"stage", "agent"}, step'[<<t, a, i, k>>] = "running"
    PROVE  row[t].status \notin Absent
<1>1. RowsFollow /\ StepsMove /\ <<t, a, i, k>> \in StepId
  BY NextInv, Zenon DEF StepId
<1>2. CASE row[t].status = "none"
  <2>1. row[t].attempt = 0
    BY <1>2, Zenon DEF StepsAreClosed
  <2>2. a > row[t].attempt
    BY <2>1 DEF Attempt
  <2>3. agent[t][a].pc = "none"
    BY <2>2, Zenon DEF IInv, OneAgent
  <2>4. step[<<t, a, i, k>>] = "none"
    BY <2>3, UnstartedIsQuiet, Zenon
  <2>5. row[t].status = "running"
    BY <1>1, <2>4, Zenon DEF StepsMove
  <2>. QED  BY <1>2, <2>5, Zenon
<1>3. CASE row[t].status = "archived"
  BY <1>1, <1>3, ZenonT(30) DEF RowsFollow, Keeps, Moves, Creates, Claims, Archives, CanTransition, executionTransitions,
                    Absent, Terminal
<1>. QED  BY <1>2, <1>3, Zenon DEF Absent

\* The failure of a stage body leaves no agent call open behind it, unless it
\* parks: a failed_past one is not explored, no calls are recorded, or the store
\* answers every call.
LEMMA FailureFits ==
    ASSUME <<"failed_past", "next">> \notin StageResult \/ ~AgentCalls \/ ~Faults,
           IInv, StepsAreClosed, NEW t \in Task, NEW a \in Attempt,
           startChildStep(t, a) \/ finishChildStep(t, a),
           agent'[t][a].pc = "record", agent'[t][a].result \in Failure, agent'[t][a].stage = agent[t][a].stage,
           row[t].status \notin Absent, NEW i \in Stage, NEW k \in {"stage", "agent"},
           step'[<<t, a, i, k>>] = "running"
    PROVE  Fits(agent'[t][a], i, k)
<1>0. TypeOK /\ agent \in AgentType
  BY TypeParts, ZenonT(30) DEF IInv
<1>1. CASE agent'[t][a].result = <<"failed", "parked">>
  BY <1>1 DEF Fits, Inside
<1>2. CASE agent'[t][a].result # <<"failed", "parked">>
  <2>1. <<"failed_past", "next">> \in StageResult
    BY <1>2, Zenon DEF Failure
  <2>2. AgentCalls
    BY ZenonT(30) DEF startChildStep, finishChildStep, StepsAreClosed
  <2>3. Reply = {"ok"}
    BY <2>1, <2>2, ZenonT(30) DEF Reply
  <2>4. CASE startChildStep(t, a)
    <3>1. CASE StartAllowed(ChildStep(t, a))
      <4>1. agent' = AgentGoto(t, a, "child")
        BY <2>3, <2>4, <3>1, ZenonT(30) DEF startChildStep
      <4>. QED  BY <1>0, <4>1, AgentGone
    <3>2. CASE ~StartAllowed(ChildStep(t, a))
      <4>1. step' = step /\ agent[t][a].pc = "body"
        BY <2>4, <3>2, ZenonT(30) DEF startChildStep, StartStep
      <4>2. Fits(agent[t][a], i, k)
        BY <4>1, ZenonT(30) DEF StepsAreClosed
      <4>. QED  BY <4>1, <4>2, ZenonT(30) DEF Fits, Inside
    <3>. QED  BY <3>1, <3>2, Zenon
  <2>5. CASE finishChildStep(t, a)
    <3>1. CASE FinishAllowed(ChildStep(t, a))
      <4>1. agent' = AgentGoto(t, a, "body")
        BY <2>3, <2>5, <3>1, ZenonT(30) DEF finishChildStep
      <4>. QED  BY <1>0, <4>1, AgentGone, ZenonT(30)
    <3>2. CASE ~FinishAllowed(ChildStep(t, a))
      <4>1. step' = step /\ agent[t][a].pc = "child"
        BY <2>5, <3>2, ZenonT(30) DEF finishChildStep, FinishStep
      <4>2. Fits(agent[t][a], i, k)
        BY <4>1, ZenonT(30) DEF StepsAreClosed
      <4>3. i = agent[t][a].stage
        BY <4>1, <4>2, ZenonT(30) DEF Fits, Inside
      <4>4. step[ChildStep(t, a)] # "running"
        BY <3>2, Zenon DEF FinishAllowed, ChildStep
      <4>5. k = "stage"
        BY <4>1, <4>3, <4>4, Zenon DEF ChildStep
      <4>. QED  BY <4>3, <4>5, Zenon DEF Fits
    <3>. QED  BY <3>1, <3>2, Zenon
  <2>. QED  BY <2>4, <2>5, Zenon
<1>. QED  BY <1>1, <1>2, Zenon

\* A call that was recorded as finished is not open in the body it returns to.
LEMMA FinishedCallFits ==
    ASSUME IInv, StepsAreClosed, NEW t \in Task, NEW a \in Attempt, finishChildStep(t, a),
           agent'[t][a].pc = "body", agent'[t][a].stage = agent[t][a].stage,
           row[t].status \notin Absent, NEW i \in Stage, NEW k \in {"stage", "agent"},
           step[<<t, a, i, k>>] = "running", step'[<<t, a, i, k>>] = "running"
    PROVE  Fits(agent'[t][a], i, k)
<1>0. TypeOK /\ step \in [StepId -> StepValue]
  BY TypeParts, ZenonT(30) DEF IInv
<1>1. agent[t][a].pc = "child"
  BY ZenonT(30) DEF finishChildStep
<1>2. i = agent[t][a].stage
  BY <1>1, ZenonT(30) DEF StepsAreClosed, Fits, Inside
<1>3. PICK s : s = ChildStep(t, a)
  BY ZenonT(30)
<1>4. PICK reply \in Reply, to \in {"succeeded", "failed"} :
        /\ step' = FinishStep(s, to, reply)
        /\ IF reply = "ok" /\ FinishAllowed(s)
           THEN agent' = AgentGoto(t, a, "body")
           ELSE \E result \in Failure : agent' = BodyEnds(t, a, result)
  BY <1>3, ZenonT(30) DEF finishChildStep
<1>5. reply = "ok" /\ FinishAllowed(s)
  <2>1. ASSUME NEW result, agent' = BodyEnds(t, a, result) PROVE FALSE
    BY <1>0, <2>1, AgentRecords, Zenon
  <2>. QED  BY <1>4, <2>1, Zenon
<1>6. step' = [step EXCEPT ![s] = to]
  BY <1>4, <1>5, Zenon DEF FinishStep
<1>7. s \in StepId => step'[s] # "running"
  BY <1>0, <1>4, <1>6, ZenonT(30)
<1>8. k = "stage"
  BY <1>2, <1>3, <1>7, Zenon DEF ChildStep, StepId
<1>. QED  BY <1>2, <1>8, Zenon DEF Fits

\* A recorded stage that goes on is not open.
LEMMA RecordedFits ==
    ASSUME IInv, StepsAreClosed, NEW t \in Task, NEW a \in Attempt, FinishStage(t, a),
           FinishAllowed(StageStep(t, a)), agent[t][a].result[2] # "parked",
           step' = FinishStep(StageStep(t, a), agent[t][a].result[1], "ok"),
           row[t].status \notin Absent, NEW i \in Stage, NEW k \in {"stage", "agent"},
           step[<<t, a, i, k>>] = "running", step'[<<t, a, i, k>>] = "running"
    PROVE  FALSE
<1>0. step \in [StepId -> StepValue] /\ agent[t][a].result \in Result
  BY TypeParts, Zenon DEF IInv, AgentType
<1>1. agent[t][a].pc = "record"
  BY Zenon DEF FinishStage
<1>2. i = agent[t][a].stage /\ k = "stage"
  BY <1>1, ZenonT(30) DEF StepsAreClosed, Fits, Inside
<1>3. PICK s : s = StageStep(t, a)
  BY Zenon
<1>4. s = <<t, a, i, k>> /\ s \in StepId
  BY <1>2, <1>3, Zenon DEF StageStep, StepId
<1>5. step' = [step EXCEPT ![s] = agent[t][a].result[1]]
  BY <1>3, Zenon DEF FinishStep
<1>6. agent[t][a].result[1] # "running"
  BY <1>0 DEF Result
<1>. QED  BY <1>0, <1>4, <1>5, <1>6, ZenonT(30)

\* An agent's own step closes what it opened before it goes on.
LEMMA AgentCloses ==
    ASSUME <<"failed_past", "next">> \notin StageResult \/ ~AgentCalls \/ ~Faults,
           IInv, StepsAreClosed, [Next]_vars, NEW t \in Task, NEW a \in Attempt,
           AgentStep(t, a) \/ Interrupted(t, a) \/ ContainerDies(t, a),
           row[t].status \notin Absent, NEW i \in Stage, NEW k \in {"stage", "agent"},
           step'[<<t, a, i, k>>] = "running"
    PROVE  Fits(agent'[t][a], i, k)
<1>0. TypeOK /\ StepsMove /\ <<t, a, i, k>> \in StepId
  BY NextInv, ZenonT(30) DEF IInv, StepId
<1>1. \/ step[<<t, a, i, k>>] = "running" /\ Fits(agent[t][a], i, k)
      \/ /\ step[<<t, a, i, k>>] = "none" /\ agent[t][a].stage = i
         /\ \/ k = "stage" /\ StartStage(t, a)
            \/ k = "agent" /\ startChildStep(t, a)
  <2>1. step[<<t, a, i, k>>] \in {"none", "running"}
    BY <1>0, ZenonT(30) DEF StepsMove, StepDone, StepTerminal
  <2>2. CASE step[<<t, a, i, k>>] = "none"
    BY <2>2, StepsStart, ZenonT(30)
  <2>3. CASE step[<<t, a, i, k>>] = "running"
    BY <2>3, ZenonT(30) DEF StepsAreClosed
  <2>. QED  BY <2>1, <2>2, <2>3, ZenonT(30)
<1>2. AgentMoves(t, a)
  BY <1>0, AgentGoes, Zenon
<1>3. agent[t][a].pc \in {"update", "compile", "record", "finish"} => step[<<t, a, i, k>>] = "running"
  BY <1>1, ZenonT(30) DEF StartStage, startChildStep
<1>4. CASE agent'[t][a].pc \notin {"update", "start", "body", "child", "record", "finish", "transition"}
  BY <1>4, ZenonT(30) DEF Fits, Inside
<1>5. CASE agent'[t][a].pc = "update"
  <2>1. CASE agent[t][a].pc = "compile"
    BY <1>3, <2>1, UnstartedIsQuiet, ZenonT(30)
  <2>2. CASE agent[t][a].pc # "compile"
    <3>1. /\ FinishStage(t, a) /\ FinishAllowed(StageStep(t, a)) /\ agent[t][a].result[2] # "parked"
          /\ step' = FinishStep(StageStep(t, a), agent[t][a].result[1], "ok")
      BY <1>2, <1>5, <2>2, ZenonT(30) DEF AgentMoves
    <3>2. step[<<t, a, i, k>>] = "running"
      BY <1>3, <3>1, Zenon DEF FinishStage
    <3>. QED  BY <3>1, <3>2, RecordedFits, Zenon
  <2>. QED  BY <2>1, <2>2, Zenon
<1>6. CASE agent'[t][a].pc = "finish"
  <2>1. /\ FinishStage(t, a) /\ FinishAllowed(StageStep(t, a)) /\ agent[t][a].result[2] # "parked"
        /\ step' = FinishStep(StageStep(t, a), agent[t][a].result[1], "ok")
    BY <1>2, <1>6, ZenonT(30) DEF AgentMoves
  <2>2. step[<<t, a, i, k>>] = "running"
    BY <1>3, <2>1, Zenon DEF FinishStage
  <2>. QED  BY <2>1, <2>2, RecordedFits, Zenon
<1>7. CASE agent'[t][a].pc \in {"start", "transition"}
  <2>1. PersistStage(t, a) \/ Finish(t, a)
    BY <1>2, <1>7, ZenonT(30) DEF AgentMoves
  <2>2. agent[t][a].pc \in {"update", "finish"}
    BY <2>1, ZenonT(30) DEF PersistStage, Finish
  <2>. QED  BY <1>1, <1>3, <2>2, ZenonT(30) DEF Fits, StartStage, startChildStep
<1>8. CASE agent'[t][a].pc = "child"
  <2>1. startChildStep(t, a) /\ agent'[t][a].stage = agent[t][a].stage
    BY <1>2, <1>8, ZenonT(30) DEF AgentMoves
  <2>2. agent[t][a].pc = "body"
    BY <2>1, ZenonT(30) DEF startChildStep
  <2>3. i = agent[t][a].stage
    BY <1>1, <2>2, ZenonT(30) DEF Fits, Inside
  <2>. QED  BY <1>8, <2>1, <2>3, ZenonT(30) DEF Fits
<1>9. CASE agent'[t][a].pc = "body"
  <2>1. agent'[t][a].stage = agent[t][a].stage /\ (StartStage(t, a) \/ finishChildStep(t, a))
    BY <1>2, <1>9, ZenonT(30) DEF AgentMoves
  <2>2. CASE StartStage(t, a)
    <3>1. agent[t][a].pc = "start"
      BY <2>2, ZenonT(30) DEF StartStage
    <3>2. agent[t][a].stage = i /\ k = "stage"
      BY <1>1, <3>1, ZenonT(30) DEF Fits, startChildStep
    <3>. QED  BY <1>9, <2>1, <3>2, ZenonT(30) DEF Fits
  <2>3. CASE finishChildStep(t, a)
    <3>1. step[<<t, a, i, k>>] = "running"
      BY <1>1, <2>3, ZenonT(30) DEF finishChildStep, StartStage, startChildStep
    <3>. QED  BY <1>9, <2>1, <2>3, <3>1, FinishedCallFits, ZenonT(30)
  <2>. QED  BY <2>1, <2>2, <2>3, ZenonT(30)
<1>10. CASE agent'[t][a].pc = "record"
  <2>1. /\ agent'[t][a].stage = agent[t][a].stage
        /\ \/ EndBody(t, a)
           \/ (startChildStep(t, a) \/ finishChildStep(t, a)) /\ agent'[t][a].result \in Failure
    BY <1>2, <1>10, ZenonT(30) DEF AgentMoves
  <2>2. CASE EndBody(t, a)
    <3>1. agent[t][a].pc = "body" /\ step' = step
      BY <2>2, Zenon DEF EndBody
    <3>2. step[<<t, a, i, k>>] = "running"
      BY <3>1, ZenonT(30)
    <3>3. i = agent[t][a].stage /\ k = "stage"
      BY <1>1, <3>1, <3>2, ZenonT(30) DEF Fits, Inside
    <3>. QED  BY <1>10, <2>1, <3>3, ZenonT(30) DEF Fits
  <2>3. CASE (startChildStep(t, a) \/ finishChildStep(t, a)) /\ agent'[t][a].result \in Failure
    BY <1>10, <2>1, <2>3, FailureFits, ZenonT(30)
  <2>. QED  BY <2>1, <2>2, <2>3, ZenonT(30)
<1>. QED  BY <1>4, <1>5, <1>6, <1>7, <1>8, <1>9, <1>10, ZenonT(30)

\* So every step keeps the steps closed behind the agents.
LEMMA ClosedStep ==
    ASSUME <<"failed_past", "next">> \notin StageResult \/ ~AgentCalls \/ ~Faults,
           IInv, StepsAreClosed, [Next]_vars
    PROVE  StepsAreClosed'
<1>0. TypeOK /\ RowsFollow /\ StepsMove
  BY NextInv, Zenon DEF IInv
<1>1. ASSUME NEW t \in Task, row'[t].status = "none" PROVE row'[t].attempt = 0
  <2>1. Keeps(t)
    BY <1>0, <1>1, ZenonT(30) DEF RowsFollow, Moves, Creates, Claims, Archives, CanTransition, executionTransitions
  <2>. QED  BY <1>1, <2>1, ZenonT(30) DEF Keeps, StepsAreClosed
<1>2. ASSUME NEW t \in Task, NEW a \in Attempt, agent'[t][a].pc = "child" PROVE AgentCalls
  <2>1. CASE AgentStep(t, a) \/ Interrupted(t, a) \/ ContainerDies(t, a)
    <3>1. AgentMoves(t, a)
      BY <1>0, <2>1, AgentGoes, Zenon
    <3>2. startChildStep(t, a)
      BY <1>2, <3>1, ZenonT(30) DEF AgentMoves
    <3>. QED  BY <3>2, Zenon DEF startChildStep
  <2>2. CASE agent'[t][a] = agent[t][a]
    BY <1>2, <2>2, Zenon DEF StepsAreClosed
  <2>. QED  BY <1>2, <2>1, <2>2, AgentStays, Zenon
<1>3. ASSUME NEW t \in Task, NEW a \in Attempt, NEW i \in Stage, NEW k \in {"stage", "agent"},
             row'[t].status \notin Absent, step'[<<t, a, i, k>>] = "running"
      PROVE  Fits(agent'[t][a], i, k)
  <2>1. row[t].status \notin Absent
    BY <1>3, RowWasThere, ZenonT(30)
  <2>2. CASE AgentStep(t, a) \/ Interrupted(t, a) \/ ContainerDies(t, a)
    BY <1>3, <2>1, <2>2, AgentCloses, Zenon
  <2>3. CASE ~(AgentStep(t, a) \/ Interrupted(t, a) \/ ContainerDies(t, a))
    <3>1. CASE agent'[t][a].pc \in {"compile", "dead"}
      BY <3>1, Zenon DEF Fits, Inside
    <3>2. CASE agent'[t][a] = agent[t][a]
      <4>1. <<t, a, i, k>> \in StepId
        BY Zenon DEF StepId
      <4>2. step[<<t, a, i, k>>] \in {"none", "running"}
        BY <1>0, <1>3, <4>1, ZenonT(30) DEF StepsMove, StepDone, StepTerminal
      <4>3. step[<<t, a, i, k>>] # "none"
        BY <1>3, <2>3, StepsStart, ZenonT(30) DEF AgentStep
      <4>. QED  BY <2>1, <3>2, <4>2, <4>3, ZenonT(30) DEF StepsAreClosed
    <3>. QED  BY <2>3, <3>1, <3>2, AgentStays, ZenonT(30)
  <2>. QED  BY <2>2, <2>3, Zenon
<1>. QED  BY <1>1, <1>2, <1>3, ZenonT(30) DEF StepsAreClosed

\* The statuses SettledIsQuiet is about.
Settled == {"closed_wont_do", "completed", "waiting_human", "pr_open", "merged", "rejected"}

\* What a row becomes in a step that is neither an outcome nor a cancel.
Unsettling(t) == row'[t].status = row[t].status \/ row'[t].status \notin Settled \/ row[t].status \in Settled

\* A guarded transition settles nothing if it starts from a settled status or
\* ends in one that is not.
LEMMA TransitionUnsettles ==
    ASSUME TypeOK, NEW t \in Task, NEW u, NEW from, NEW to, NEW reply, row' = Transition(u, from, to, reply),
           from \in Settled \/ to \notin Settled
    PROVE  Unsettling(t)
<1>0. row \in RowType
  BY TypeParts, Zenon
<1>1. CASE row' = row
  BY <1>1, Zenon DEF Unsettling
<1>2. CASE row[u].status = from /\ row' = Moved(u, to)
  <2>1. row' = [row EXCEPT ![u].status = to]
    BY <1>2, Zenon DEF Moved
  <2>2. t = u => row'[t].status = to
    BY <1>0, <2>1, Zenon DEF RowType
  <2>3. t # u => row'[t] = row[t]
    BY <1>0, <2>1, Zenon DEF RowType
  <2>. QED  BY <1>2, <2>2, <2>3, Zenon DEF Unsettling
<1>. QED  BY <1>1, <1>2, Zenon DEF Transition, guardTransition

\* Update keeps the status.
LEMMA UpdateUnsettles ==
    ASSUME TypeOK, NEW t \in Task, NEW u, NEW f, NEW reply, row' = Update(u, f, reply)
    PROVE  Unsettling(t)
<1>0. row \in RowType
  BY TypeParts, Zenon
<1>1. row' = row \/ \E g : row' = [row EXCEPT ![u].task = g]
  BY ZenonT(30) DEF Update
<1>2. row'[t].status = row[t].status
  BY <1>0, <1>1 DEF RowType
<1>. QED  BY <1>2, Zenon DEF Unsettling

\* An execution settles by an agent's outcome or by a cancel.
LEMMA Settles ==
    ASSUME IInv, [Next]_vars, NEW t \in Task
    PROVE  \/ Unsettling(t)
           \/ \E a \in Attempt : FinishTransition(t, a)
           \/ \E o \in Operator : CancelExecution(o) /\ op[o].task = t
<1>0. TypeOK /\ row \in RowType /\ op \in [Operator -> OpType]
  BY TypeParts, Zenon DEF IInv
<1>1. ASSUME row'[t].status = row[t].status PROVE Unsettling(t)
  BY <1>1, Zenon DEF Unsettling
<1>2. "parked" \notin Settled /\ "queued" \notin Settled /\ "dead" \notin Settled /\ "running" \notin Settled
      /\ "archived" \notin Settled /\ "pr_open" \in Settled
  BY Zenon DEF Settled
<1>3. ASSUME NEW u \in Task, NEW a \in Attempt, Process(u, a) PROVE Unsettling(t)
  <2>1. \/ row' = row
        \/ \E reply : row' = Transition(u, "running", "parked", reply)
        \/ \E reply : row' = Update(u, run[u][a].task, reply)
    BY <1>3, Zenon DEF Process, RefuseIdentity, begin, prepareWorkspace, SetupFails, acquireTaskContainer,
                RequestFails, runViaAgent, finished, parkRunningTask
  <2>. QED  BY <1>0, <1>1, <1>2, <2>1, TransitionUnsettles, UpdateUnsettles, Zenon
<1>4. ASSUME NEW u \in Task, NEW a \in Attempt, AgentStep(u, a) \/ Interrupted(u, a) \/ ContainerDies(u, a),
             ~FinishTransition(t, a)
      PROVE  Unsettling(t)
  <2>1. CASE FinishTransition(u, a)
    <3>1. u # t
      BY <1>4, <2>1, Zenon
    <3>2. row' = row \/ \E to : row' = Moved(u, to)
      BY <2>1, Zenon DEF FinishTransition, Transition
    <3>3. row'[t] = row[t]
      BY <1>0, <3>1, <3>2 DEF Moved, RowType
    <3>. QED  BY <1>1, <3>3, Zenon
  <2>2. CASE ~FinishTransition(u, a)
    <3>1. \/ row' = row
          \/ \E reply : row' = Transition(u, "running", "parked", reply)
          \/ \E reply : row' = Update(u, run[u][a].task, reply)
      BY <1>4, <2>2, ZenonT(30) DEF AgentStep, resumeStages, CompileFails, PersistStage, StartStage, startChildStep,
            finishChildStep, EndBody, FinishStage, Finish, ParkUpdate, ParkTransition, Interrupted, ContainerDies
    <3>. QED  BY <1>0, <1>1, <1>2, <3>1, TransitionUnsettles, UpdateUnsettles, Zenon
  <2>. QED  BY <2>1, <2>2, Zenon
<1>5. ASSUME NEW o \in Operator, Operate(o), ~(CancelExecution(o) /\ op[o].task = t) PROVE Unsettling(t)
  <2>1. CASE CancelExecution(o)
    <3>1. row' = row \/ \E to : row' = Moved(op[o].task, to)
      BY <2>1, Zenon DEF CancelExecution
    <3>2. row'[t] = row[t]
      BY <1>0, <1>5, <2>1, <3>1, Zenon DEF Moved, RowType
    <3>. QED  BY <1>1, <3>2, Zenon
  <2>2. CASE applyApprove(o)
    BY <1>0, <1>2, <2>2, TransitionUnsettles, Zenon DEF applyApprove
  <2>3. CASE applyRetry(o)
    <3>1. CASE AtRetryCap(op[o].retries)
      BY <1>0, <1>2, <2>3, <3>1, TransitionUnsettles, Zenon DEF applyRetry
    <3>2. CASE ~AtRetryCap(op[o].retries)
      <4>1. PICK u, f : row' = row \/ row' = [row EXCEPT ![u] = [status |-> "queued",
                                                                 attempt |-> row[u].attempt, task |-> f]]
        BY <2>3, <3>2, Zenon DEF applyRetry
      <4>2. row'[t] = row[t] \/ row'[t].status = "queued"
        BY <1>0, <4>1 DEF RowType
      <4>. QED  BY <1>2, <4>2, Zenon DEF Unsettling
    <3>. QED  BY <3>1, <3>2, Zenon
  <2>4. CASE applyMerge(o)
    <3>1. CASE row' = row
      BY <1>1, <3>1, Zenon
    <3>2. CASE row' = Transition(op[o].task, op[o].seen, "merged", "ok") /\ row' # row
      <4>1. CanTransition(op[o].seen, "merged")
        BY <3>2, Zenon DEF Transition, guardTransition
      <4>2. op[o].seen = "pr_open"
        BY <4>1, Zenon DEF CanTransition, executionTransitions
      <4>. QED  BY <1>0, <1>2, <3>2, <4>2, TransitionUnsettles, Zenon
    <3>. QED  BY <2>4, <3>1, <3>2, Zenon DEF applyMerge
  <2>5. CASE applyArchive(o)
    <3>1. row' = row \/ row' = [row EXCEPT ![op[o].task].status = "archived"]
      BY <2>5, Zenon DEF applyArchive, Moved
    <3>2. row'[t] = row[t] \/ row'[t].status = "archived"
      BY <1>0, <3>1, Zenon DEF RowType
    <3>. QED  BY <1>2, <3>2, Zenon DEF Unsettling
  <2>6. CASE CancelTask(o) \/ \E u \in Task : Apply(o, u)
    BY <1>1, <2>6, Zenon DEF CancelTask, Apply
  <2>. QED  BY <1>5, <2>1, <2>2, <2>3, <2>4, <2>5, <2>6, Zenon DEF Operate
<1>6. ASSUME NEW u \in Task, ClaimNext(u) PROVE Unsettling(t)
  BY <1>2, <1>6, ClaimRun, Zenon DEF Unsettling
<1>7. ASSUME NEW u \in Task, Enqueue(u) PROVE Unsettling(t)
  <2>1. row' = [row EXCEPT ![u].status = "queued"]
    BY <1>7, Zenon DEF Enqueue, Moved
  <2>2. row'[t] = row[t] \/ row'[t].status = "queued"
    BY <1>0, <2>1, Zenon DEF RowType
  <2>. QED  BY <1>2, <2>2, Zenon DEF Unsettling
<1>8. ASSUME NEW u \in Task, reconcilePRs(u) PROVE Unsettling(t)
  BY <1>0, <1>2, <1>8, TransitionUnsettles, ZenonT(30) DEF reconcilePRs
<1>9. ASSUME NEW u \in Task, BeginRemediation(u) PROVE Unsettling(t)
  <2>1. PICK f : row' = [row EXCEPT ![u] = [status |-> "queued", attempt |-> row[u].attempt, task |-> f]]
    BY <1>9, Zenon DEF BeginRemediation
  <2>2. row'[t] = row[t] \/ row'[t].status = "queued"
    BY <1>0, <2>1, Zenon DEF RowType
  <2>. QED  BY <1>2, <2>2, Zenon DEF Unsettling
<1>10. CASE RecoverStale
  <2>1. row'[t] \in {row[t], [row[t] EXCEPT !.status = "queued"]}
    BY <1>10, Zenon DEF RecoverStale
  <2>2. row'[t] = row[t] \/ row'[t].status = "queued"
    BY <1>0, <2>1, Zenon DEF RowType
  <2>. QED  BY <1>2, <2>2, Zenon DEF Unsettling
<1>11. CASE Crash \/ recoverOrphans \/ UNCHANGED vars
  BY <1>1, <1>11, Zenon DEF Crash, recoverOrphans, vars
<1>. QED  BY <1>3, <1>4, <1>5, <1>6, <1>7, <1>8, <1>9, <1>10, <1>11, Zenon DEF Next

\* The outcome of an agent finds no step of the row's attempt open: its own are
\* closed, and if the row is already at a later attempt, that one has no agent yet.
LEMMA OutcomeIsQuiet ==
    ASSUME IInv, AgentsGo, StepsAreClosed, NEW t \in Task, NEW c \in Attempt, FinishTransition(t, c),
           row'[t].status # row[t].status,
           NEW a \in Attempt, NEW i \in Stage, NEW k \in {"stage", "agent"}, row[t].attempt = a
    PROVE  step'[<<t, a, i, k>>] # "running"
<1>1. agent[t][c].pc = "transition" /\ step' = step
  BY Zenon DEF FinishTransition
<1>2. row[t].status = "running"
  BY Zenon DEF FinishTransition, Transition, guardTransition
<1>3. ~(c > a)
  BY <1>1, ZenonT(30) DEF IInv, OneAgent
<1>4. CASE c = a
  <2>1. row[t].status \notin Absent
    BY <1>2, Zenon DEF Absent
  <2>. QED  BY <1>1, <1>4, <2>1, ZenonT(30) DEF StepsAreClosed, Fits
<1>5. CASE c < a
  <2>1. agent[t][a].pc = "none"
    BY <1>1, <1>5, Zenon DEF AgentsGo
  <2>2. step[<<t, a, i, k>>] = "none"
    BY <2>1, UnstartedIsQuiet, Zenon
  <2>. QED  BY <1>1, <2>2, Zenon
<1>. QED  BY <1>3, <1>4, <1>5 DEF Attempt

\* A cancel closes what is open.
LEMMA CancelIsQuiet ==
    ASSUME IInv, NEW o \in Operator, CancelExecution(o), NEW t \in Task, op[o].task = t,
           row'[t].status # row[t].status,
           NEW a \in Attempt, NEW i \in Stage, NEW k \in {"stage", "agent"}, row[t].attempt = a
    PROVE  step'[<<t, a, i, k>>] # "running"
<1>1. step' = Swept({t}, {"pending", "running"}, "cancelled")
  BY Zenon DEF CancelExecution
<1>2. <<t, a, i, k>> \in StepId
  BY Zenon DEF StepId
<1>. QED  BY <1>1, <1>2, Zenon DEF Swept

\* Every step leaves settled executions quiet.
LEMMA SettledStep ==
    ASSUME IInv, AgentsGo, StepsAreClosed, SettledIsQuiet, [Next]_vars
    PROVE  SettledIsQuiet'
<1>0. RowsFollow /\ StepsMove /\ row \in RowType
  BY NextInv, TypeParts, Zenon DEF IInv
<1>. SUFFICES ASSUME NEW s \in StepId, row'[s[1]].status \in Settled, row'[s[1]].attempt = s[2]
             PROVE  step'[s] # "running"
  BY Zenon DEF SettledIsQuiet, Settled
<1>. PICK t \in Task, a \in Attempt, i \in Stage, k \in {"stage", "agent"} : s = <<t, a, i, k>>
  BY DEF StepId
<1>1. row'[t].status \in Settled /\ row'[t].attempt = a
  BY Zenon
<1>2. <<t, a, i, k>> \in StepId
  BY Zenon DEF StepId
<1>3. row[t].attempt = a
  BY <1>0, <1>1, Zenon DEF RowsFollow, Keeps, Moves, Creates, Claims, Archives, Settled
<1>4. CASE row[t].status \in Settled
  <2>1. step[<<t, a, i, k>>] # "running" /\ row[t].status # "running"
    BY <1>2, <1>3, <1>4, ZenonT(30) DEF SettledIsQuiet, Settled
  <2>. QED  BY <1>0, <1>2, <2>1, Zenon DEF StepsMove, StepDone, StepTerminal
<1>5. CASE row[t].status \notin Settled
  <2>1. row'[t].status # row[t].status /\ ~Unsettling(t)
    BY <1>1, <1>5, Zenon DEF Unsettling
  <2>2. \/ \E c \in Attempt : FinishTransition(t, c)
        \/ \E o \in Operator : CancelExecution(o) /\ op[o].task = t
    BY <2>1, Settles, Zenon
  <2>. QED  BY <1>3, <2>1, <2>2, OutcomeIsQuiet, CancelIsQuiet, ZenonT(30)
<1>. QED  BY <1>4, <1>5, ZenonT(30)

\* Before any task there is nothing to settle.
LEMMA SettledInit == Init => AgentsGo /\ StepsAreClosed /\ SettledIsQuiet
<1> SUFFICES ASSUME Init PROVE AgentsGo /\ StepsAreClosed /\ SettledIsQuiet
  BY Zenon
<1>1. \A t \in Task : row[t].status = "none" /\ row[t].attempt = 0
  BY DEF Init
<1>2. \A t \in Task, a \in Attempt : agent[t][a].pc = "none"
  BY DEF Init, NoAgent, AgentAt
<1>3. up = "up" /\ \A s \in StepId : step[s] = "none"
  BY Zenon DEF Init
<1>4. \A t \in Task, a \in Attempt, i \in Stage, k \in {"stage", "agent"} : <<t, a, i, k>> \in StepId
  BY Zenon DEF StepId
<1>. QED  BY <1>1, <1>2, <1>3, <1>4, Zenon DEF AgentsGo, StepsAreClosed, SettledIsQuiet

\* An execution that ended, or waits on a person or a pull request, has no step
\* open in its attempt.  It takes that the repository's runs take turns; that a
\* restart removes every orphan, or there is none; and that no stage goes on past
\* a failure in which the record of an agent call was lost.
THEOREM SettledExecutionsAreQuiet ==
    ASSUME ~AllowConcurrent,
           MaxCrashes = 0 \/ ~Faults,
           <<"failed_past", "next">> \notin StageResult \/ ~AgentCalls \/ ~Faults
    PROVE  Spec => []SettledIsQuiet
<1>. DEFINE Quiet == Listed /\ AgentsGo /\ StepsAreClosed /\ SettledIsQuiet
<1>1. Init => Quiet
  BY ListedInit, SettledInit, Zenon
<1>2. IInv /\ Quiet /\ [Next]_vars => Quiet'
  BY ListedStep, GoStep, ClosedStep, SettledStep, Zenon
<1>3. Quiet => SettledIsQuiet
  BY Zenon
<1>. HIDE DEF Quiet
<1>. QED  BY <1>1, <1>2, <1>3, Inductive, PTL DEF Spec

=============================================================================
