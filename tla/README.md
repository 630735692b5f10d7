# A TLA+ model of archie-core

This directory specifies the concurrent core of archie-core in TLA+, checks it
with TLC on small instances and proves its main invariants with TLAPS for every
value of the constants. Every definition is written from the code; the "map" of
`PROJECT.json` names the lines each one stands for. Paths below are relative to
`src/internal/`.

## 1. The system

archie turns events into agent work: *source → event type → mapping → binding →
workflow → agent*. The processes are `archied` (the daemon), `archie-state-store`
(PostgreSQL behind RPC), `archie-gateway` (chat), `archie-messaging` (chat
channels), `archie-ui`, and one `archie-agent` container per executing task. NATS
JetStream carries tasks and review reactions.

| Part | State | Operations | Interacts with |
| --- | --- | --- | --- |
| task dispatcher (`daemon/daemon.go`, `call_waits.go`) | slots, repository chains, holds | Submit, name, finishRun, setCallWaits, reacquire, SetMaxConcurrency, Wait | task processing, the store's call steps |
| state tables (`taskstate`) | none | transition and action tables | the store, task actions |
| task store (`infrastructure/postgres/store.go`, `steps.go`) | task rows, steps, attempts | Enqueue, Claim, Transition, ParkTask, Update, StartStep, FinishStep, CancelExecution, RetryTask, RecoverStale, ArchiveTask, BeginRemediation | everything |
| task processing (`daemon/daemon.go` process, `running.go`) | the run's copy of the row, the running table | process, begin and retire, CancelTask, Startup | dispatcher, containers, agents, store |
| workflow engine (`domain/workflow/workflow.go`) in the agent | position, results, steps | Run, resumeStages, finish, park | store |
| operator actions (`domain/taskactions`) | the task as it was read | stop, cancel, reject, abandon, withdraw, approve, rereview, retry, merge, archive | store, running table, forge |
| reviews (`daemon/reactions.go`, `review_scan.go`, `domain/workflow/remediate.go`) | cursors, stream, waiting reviews, rounds | webhook, scan, drain, BeginRemediation, the remediate workflow | forge, NATS, store |
| binding dispatch (`daemon/daemon.go` dispatchBindings, `edastore.go`) | captures, bindings, mappings, ledger | InsertCapture, the dispatch pass, approve, pause, resume, edit, delete | store, operators |
| task intake (`daemon/daemon.go` poll, drainNATS, processNATSTask; `forge/webhook`; `domain/workintake`) | last poll per repository, the task stream, rows | poll, publish, webhook, fetch, enqueue, claim, withdraw | forge, NATS, store, dispatcher |
| workflow calls (`domain/workflow/workflow_call.go`, `steps.go`) | child rows, call steps | StartCall, StartStep, awaitCallee, FinishStep, CancelExecution's cascade, refuseCallCycles | store, dispatcher |
| container pool (`container/pool.go`) | count, teardowns, timers | Acquire, Release, reapMaxUptime, Close, recoverOrphans | Docker, task processing |
| channel supervisor (`app/archiemessaging/supervise.go`, `reconcile.go`) | instance, pending restart, token | reconcileOnce, setChannelState, runChannel, awaitChannel | control plane, adapters |
| scheduling engine (`domain/scheduling/ticker.go`, `app/archied/scheduling.go`) | claims, queue, slots, the schedules document | tick, dispatch, runJob, MarkRun, Stop | settings, event bus |
| everything else | — | — | `PROJECT.json`, "components", with the reason each is left out |

What makes the code hard, and is therefore modelled: a run works on the copy of
the row it claimed while operators, a later attempt and recovery write the row;
an operator acts on a row read earlier; an agent goes on writing after its daemon
gave up on it or died; a store call may commit and lose its answer; the stream
repeats messages and forgets what it has seen; several daemons may share the
store; goroutines sleep on one condition variable and on channels handed from
task to task. `PROJECT.json` lists each hazard with its line and the properties
that would catch it.

## 2. The modules

| Module | Models |
| --- | --- |
| `TaskState` | the tables of `taskstate`, as operators |
| `Execution` | abstract: what the store promises about rows, attempts and steps |
| `TaskRuns` | store, daemon, agent, operators, crash and recovery, for tasks with numbered attempts |
| `Dispatcher` | the dispatcher's slots and chains and the call-wait watcher |
| `Remediation` | one pull request: forge, stream, consumer, waiting reviews, remediate runs |
| `Bindings` | captures, bindings, ledger and the dispatch passes of several daemons |
| `Intake` | issues of a forge becoming rows that are claimed once: poll or webhook, stream, withdrawal |
| `WorkflowCalls` | trees of executions that call each other, with operators, faults and restarts |
| `CallCycles` | refuseCallCycles' walk, against a definition of a cycle |
| `ContainerPool` | the pool's count, the max-uptime timer and Release |
| `ChannelSupervisor` | one chat channel: its reconcile loop and its supervisor |
| `Scheduling` | the ticker, its two pools, recording runs, Stop |
| `MC*` | instances for TLC |
| `DispatcherProofs` | proofs about `Dispatcher` |
| `TaskRunsProofs`, `TaskRunsSafety` | proofs about `TaskRuns`: types and that it implements `Execution`; its safety invariants |
| `RemediationProofs`, `BindingsProofs`, `IntakeProofs` | proofs about the modules of those names |
| `SchedulingProofs` | proofs about `Scheduling` and `CallCycles`, which reason about sequences |
| `ServicesProofs` | proofs about `ContainerPool`, `ChannelSupervisor` and `WorkflowCalls` |

Names beginning with `Mut`, and the definitions marked "Mutant" in `Dispatcher`,
are faulty variants of a definition below them (a dropped guard, a missing
broadcast). They are not part of any specification: replacing the definition by
its variant must make the named property fail, which shows that the property
depends on that code.

**Dispatcher.** One action per critical section under `d.mu`; the broadcast that
follows an unlock belongs to it. A hold is one submitted run, a place the Go
channel ("baton") the next run of the repository blocks on. Goroutine `<<h, 0>>`
is Submit's, `<<h, k>>` the run's k-th reacquire. The store's call steps appear as
`call`; the watcher reads them (`WatchRead`) and applies the count in a later step
(`ApplyRefused`, `ApplyWaiting`, `ApplyResumed`).

**TaskRuns.** Each store method is one transaction under the row's lock, so one
step. `run[t][a]` is the daemon's process of attempt `a` with the copy of the row
it claimed, `agent[t][a]` the workflow in its container, `op[o]` an operator
between reading a task and acting on it, `running` the table a stop looks in.
`Reply` lets a store call answer, fail, or commit and lose its answer. A stage's
body is a choice among the ways a stage may end; all control around it is kept.
A crash empties the daemon's memory; containers survive until `recoverOrphans`,
and `RecoverStale` requeues. Task fields are cut down to those a property needs.

**Execution** is the specification a reader of the store would expect: a row moves
along the table, an attempt begins with a claim and only then, a step starts once,
in the running attempt, and then moves along the step table. `TaskRuns` implements
it under the mapping that reads status, attempt and steps (`Lifecycle`).

**Remediation.** `posted` is the forge, `window` what the stream still remembers,
`stream` how many of each message wait (it redelivers, so their order says nothing),
`loop[d]` a daemon's cycle of scan, drain and claim, `run` the remediate workflow.
A listing is the set of records after a cursor; a scan that fails has published those
up to some id. `begun`, `answers` and `replies` count what the properties are about.
The consumer looks the task up and acts on it in two steps. `OpenTaskByPR` finds
only a row in `pr_open`, so a review reaches the waiting list only if the row
leaves `pr_open` between the two: with a second daemon on the consumer. Hence the
installation with two daemons. The installation is `setup`, a variable that never
changes, so that one run looks at several.

**Bindings.** A capture is its place in the order of arrival. `pass[d]` is what a
daemon's pass has read: the batch, the enabled workflows, the armed bindings of the
capture in hand. The claim, the task and its number in the ledger are three steps,
each of which may fail or be cut by a crash. Approval is the read and the write
that `ApproveBinding` makes.

**Intake.** An issue is eligible under a dispatch rule or not, and the forge, the
configuration and an identity's lifecycle change at will. `poll[i]` is a pass: it
lists under the rule it read, remembers and withdraws, then looks each issue up and
publishes it. `work` holds the deliveries being processed, from the fetch through
insertion and claim to the acknowledgement; a run that outlasts the ack deadline
(`slow`) meets its own redelivery. How issues are found is `setup`, fixed.

**WorkflowCalls.** `exec` is the list of rows in the order they were started, each
with its parent and the key of its call site; `engine[t]` is the run of `t`, stage by
stage but with everything that is not a call in one step; `cancel` is an operator's
cancel on its way down the callees. `plan`, fixed, says which workflows call which.
**CallCycles** does one step of the recursive walk per action; `graph` is every
graph of `Workflows` workflows, and `Loops` is what a cycle is.

**ContainerPool.** A user is one Acquire and its Release. Docker's calls and the
critical sections under the pool's lock are separate steps, so a timer fires and a
second user acquires between any two. `entry` is the teardown record for which
Release and the timer's callback compete; `torn` counts who won.

**ChannelSupervisor.** `stored` is what the control plane has, `config` what the loop
last applied, `channel` what the instance holds, `sup` the goroutine that runs it.
`pending` and `notify` are the two ways a restart reaches the supervisor, and `cut`
the context of the run. Settings are numbered, 0 for off.

**Scheduling.** `doc` is the versioned schedules document, `tick` the loop with what
is left of its last answer from Due, `jobRun` a run in either pool; a parallel job's
goroutine first waits for a slot. `stop` is Stop with its deadline.

## 3. The runs

Deadlock is not checked: in each system a finite supply of work runs out and
nothing more need happen. Liveness properties say what must not stop.

| Run | Instance | Shows |
| --- | --- | --- |
| `dispatcher_resume` | 3 runs, a caller with two callees, one in a concurrent repository; limits 1 and 2 change freely; 2 reacquires per run | slots counted exactly and given back, no orphaned baton, no lost wakeup |
| `dispatcher_live` | two attempts of one task and a callee in the same repository; limits 1, 2 | every submitted run ends, the shutdown wait returns |
| `dispatcher_serial` | a caller, its callee and two other runs | **violated**: one run per repository (finding 1) |
| `tasks_life` | 1 task, 2 attempts, 1 stage with agent calls; store faults, stopped containers, seven actions | implements `Execution`; no open step in a settled execution |
| `tasks_settle` | 1 task, 2 attempts, 2 stages, resume points, handoff, one crash | a running row has a run, an executing run can be stopped, a resumed attempt skips only what ran, every attempt settles |
| `tasks_superseded` | stop and retry | **violated**: a run decides only about its own attempt (finding 2) |
| `remediation_reviews` | four installations: the poll alone with 3 reviews and 2 comments, one archie's own (`Poll`); with one review, 2 comments, two restarts and a stream that forgets nothing (`Restarts`); one review by webhook and poll, a fault and a restart (`Single`); 2 reviews and 2 daemons, cap of one round (`Pair`) | each is made work once, a claimed run has its input, archie does not answer itself, waiting reviews are run |
| `remediation_midrun` | 2 reviews, 1 daemon | **violated**: a review that arrives mid-run is never dropped (finding 3) |
| `bindings_once` | 2 daemons, a retried delivery and an unsigned one, one edit, one fault, one crash | at most one task per delivery, a truthful ledger, every capture settled |
| `bindings_starved` | 2 captures, batch of 1 | **violated**: each capture is offered (finding 4) |
| `intake_poll` | 1 issue, 2 rules, 2 changes of anything, one fault; poll with slow runs, or webhook | a row is run by one delivery, only withdrawn work is declined and stays so, an accepted message's row is kept, an eligible issue is taken and a queued row run |
| `services` | one of five components per behaviour: three trees of calls with 3 executions, 2 operator actions, 1 retry, 1 fault; all graphs of 3 workflows; 2 users, caps 0 and 1, with and without a lifetime, 1 change, 1 fault; 3 settings, 2 attempts; 2 jobs in either pool, 1 slot, a queue of 1, 1 edit, 1 fault | see below |

`services` puts side by side components that share no state; `part`, fixed, says
which takes steps, so its state count is the sum and not the product of theirs. It
shows: a call site has one live child, a completed caller's waited calls succeeded, a
cancel that reports success has cancelled every callee waited on, waits end; a set of
workflows is accepted only without a cycle, and a refusal names one; the pool's count
is exact, a container is torn down once, lifetimes are capped; no replacement of a
channel is lost, and the replacement runs; jobs never overlap, a clean Stop leaves
nothing running, recording a run touches that job only, what is due is run.

The runs list what several steps of several actors could break. The types are left to
the proofs of section 4, and so are `ChainIsLive`, `EntryRemovedByItsRun`,
`PausedNeedsApproval`, `CapHolds` and `ReleasedIsGone`.

**Bounds.** Each is a constant or a guard named in the module: `MaxResumes`,
`MaxAttempt`, `NStages`, `MaxCrashes`, `MaxFaults`, `MaxDeliver`, `MaxOperations`,
`NCaptures`, `MaxMsg`, `MaxChanges`, `MaxExecs`, `MaxCallDepth`, `MaxActs`,
`MaxCallFaults`, `MaxPoolChanges`, `MaxPoolFaults`, `MaxVersion`, `MaxNow`,
`MaxEdits`, `MaxRunFaults`. Two attempts are the fewest in which a stale attempt meets
a newer one; two stages the fewest with one to skip; three runs the fewest in which a
resumed run queues behind one while another queues behind it (four for the run
that slips past, `dispatcher_serial`); two daemons, users or jobs the fewest that
race; three executions the fewest with a callee that calls; three settings the
fewest in which a replacement is itself replaced. One task is enough in `TaskRuns`,
one pull request in `Remediation`, one issue in `Intake`, because nothing there
relates two: the store locks single rows, and what tasks share is the
dispatcher. One message is enough in `Intake` to be redelivered, dropped and
published again, because its place in the stream is reused. The batch limit is 100 in
the code and 1 or 2 here: the code only compares it with the number of stored captures.

**Fairness.** Weak fairness of each goroutine's and each agent's next step (the Go
scheduler; an agent's request has a time limit), of the daemon's cycle, the poll, the
reconcile loop and the tick (their tickers), of a run whose context has ended, and of
recovery (the service is restarted). In `Dispatcher` the watcher's read is strongly
fair: it reads every listed hold on each tick, so a hold that is listed again and again
is read. A run ends only when it is not waiting on a callee or the daemon's context is
cancelled. Operators, reviewers, forges, settings, faults and crashes are never
assumed to act. Where the code only promises to catch up once the changes stop,
the property is `[]<>`: the bounded changes run out, and after that it must hold
again and again.

## 4. The proofs

| Theorem | Statement |
| --- | --- |
| `DispatcherProofs!TypeCorrect` | types; the slot counter is never negative |
| `SlotsAreCounted` | the counter equals the number of runs with a slot |
| `CapacityIsReturned` | a run that ended or waits holds neither slot nor place |
| `ChainsHaveOwners` | an open baton is the one its run records; chains stay in their repository |
| `NoWakeupIsLost` | nobody sleeps while what it waits for holds |
| `OwnEntryOnly` | a listing is removed by its own run only |
| `TaskRunsProofs!TypeCorrect` | types |
| `Implements` | `TaskRuns` implements `Execution` |
| `TaskRunsSafety!ExecutingRunsAreListed` | a stop finds every executing run, *if runs take turns* |
| `RunningRowsHaveRuns` | a running row has a run or a restart coming, *if the store answers and nobody stops a container* |
| `OnlyRanIsSkipped` | a resumed attempt skips only what an earlier one ran |
| `SettledExecutionsAreQuiet` | a settled execution has no open step, *under three conditions, below* |
| `RemediationProofs!TypesHold` | types |
| `RepliesAreAnswers` | archie posts no more replies than records of others were made work, and one for each restart |
| `ClaimedRunsHaveInput` | until a restart, a claimed remediation has its unit, *if units fit the clip* |
| `PollsRemediateOnce` | one daemon that polls, whose calls do not fail, makes a record work at most once: restarted or not, if the stream forgets nothing, and whatever it forgets, if not restarted |
| `BindingsProofs!FiresOnce` | at most one task for a binding and delivery |
| `LedgerHolds` | the ledger tells the truth |
| `SoleApprover` | with one approver, a paused binding is armed only through a resume and an approval |
| `IntakeProofs!TypeCorrect` | types |
| `NeverTwoRuns` | a row never has two runs |
| `RunsAreKept` | and a running row has one, *with one identity and no lost answer* |
| `DeclinedStays` | declined work stays declined |
| `OnlyWithdrawnIsDeclined` | only withdrawn work is declined, *except by the root identity's poll* |
| `AcceptedStays` | an accepted webhook is a row or a message yet to be delivered, *with fewer faults than deliveries* |
| `SchedulingProofs!EngineAgrees`, `SchedTypeCorrect` | the engine's claims, queue, slots, wait group and versions agree; types |
| `JobsNeverOverlap` | a job never overlaps itself, and the sequential pool runs one at a time |
| `StopLeavesNothing` | a Stop without an error leaves no run in flight |
| `SlotsNeverExceeded` | parallel runs stay within the slots |
| `RecordsTouchTheirOwn` | recording a run touches that job only |
| `VerdictsAreRight` | a set of workflows is accepted only without a cycle, and refused only for one that the refusal names |
| `ServicesProofs!CountIsExact` | the pool's count is the number of reservations held |
| `CapIsKept` | while the settings do not change, the count stays within the cap |
| `OneTeardown` | a container's teardown is claimed once |
| `ReleaseLeavesNone` | a released container is gone, unless Docker failed or the timer is at it |
| `RestartIsNotLost` | the run of a replaced channel is being ended and its restart recorded; a holding supervisor has its token or is about to |
| `OneLiveChildAlways` | a call site has at most one child that holds its key |
| `CancelReachesAll` | a cancel that reports success has cancelled every callee waited on |
| `CompletionIsEarned` | an execution completes only if each waited call had a child that succeeded |

They hold for every value of the constants that satisfies the named ASSUMEs: any
number of runs, attempts, stages, operators, daemons, reviews, comments, captures, issues,
jobs, workflows, containers, settings, executions, crashes and faults. The conditions in italics are
hypotheses of the theorem; each is met by the instance whose run checks the property,
and without it the property is false (below, and section 6).

*Dispatcher.* The inductive invariant `IInv` is the conjunction of the properties
with `StartedFirst`: only a started run is listed, waits, resumes or has a slot,
and the place a run records is its own and still open. Without it, capacity taken
by a reacquire could belong to a run that has not started, and the count of slots
breaks. `GiveBackFacts` and `JoinFacts` say once
what the shared effects do to slots and chains; there is one lemma per action
after that. The slot count uses the cardinality theorems for adding and removing
one element.

*TaskRuns.* `IInv` adds three facts to the types. `StepsAreFresh`: no step exists
of an attempt that was not claimed, or of a stage its agent has not reached, so
StartStep never restarts a step. `OneAgent`: an attempt's agent exists only after
its run launched it. `ArchivesTerminal`: an operator about to archive read a
terminal status. Every action is shown to keep a row, or to move it along one of
`Execution`'s alternatives (`RowsFollow`), and likewise its steps (`StepsMove`).

*The safety of TaskRuns.* Four more inductive invariants rest on `IInv`. First it is
said once what each action does to the runs and to the agents (`ProcessMoves`,
`AgentMoves`); the lemmas after that speak of these few moves and not of the actions.

- `ExecutingIsListed` needs `BatonHolds`: an attempt that began found the earlier ones
  over. In a concurrent repository it did not, and a late attempt's `retire` unlists
  the newer one (section 6).
- `RunningHasRun` needs `RunsAreAnswered`: a run unwinds, and its agent answers, only
  once the row has left the attempt. That is false when a park is refused by the store
  or when an agent is stopped (section 6), which the hypotheses leave out.
- `SkippedStagesRan` needs `SkipsAreEarned`. A resume point is kept in the row, copied
  to the run by a claim, and written back by the Update of any run, a stale one
  included: wherever it is, the stage before it was recorded by an earlier attempt of
  that workflow (`Reachable`), and the stage an agent stands at follows one that ran
  (`Follows`). It needs no hypothesis.
- `SettledIsQuiet` needs `Listed`, `AgentsGo` (a run that is over leaves no live agent,
  so an agent of an earlier attempt is not alive beside a later one) and
  `StepsAreClosed` (what an agent may have open at each point; nothing on its way to an
  outcome). An execution settles by an agent's outcome or by a cancel only (`Settles`);
  the first finds the steps closed, the second closes them. Of its hypotheses, the
  first is that runs take turns. The second is that there is no crash or a restart's
  `recoverOrphans` does not fail: a container it leaves behind goes on opening steps.
  The third is that a stage does not go on past a failure in which the record of an
  agent call was lost: `FinishStep` of the call failed, the stage continues, and the
  call's step stays open. TLC finds a counterexample when any one of the three is
  dropped.

*Remediation.* Three inductive invariants rest on the types.

- `RepliesAnswerReviewers` needs `Owed`: what was replied, the reply that is due (a row
  queued or parked, a run that has not replied) and the units that wait are together no
  more than the answers and the restarts. Nothing makes work of archie's own records, as
  the consumer asks for their author before it acts (`NotOwn`), and only a running row
  has a run (`OneRun`). A restart is counted because it may requeue a run that has replied.
- `ClaimedHasInput` needs `HasInput`: whatever waits, in the list, in a row that may be
  claimed or retried, or in a run that has not replied, is a unit. The hypothesis
  `Fitting` leaves out units longer than the clip, which cuts them (section 6).
- `RemediatedOnce` needs `OnceInv`. A record is in one message, or in the daemon's
  hand, or was made work once (`Single`); while the daemon scans only an end of the task
  moves the row, so the cursor it will write is the later one (`Scanned`); and a record
  that was seen is behind the cursor, or behind the one about to be written, or the
  stream's window still holds it (`Known`), so that no scan publishes it again. A second
  daemon, a webhook or a refused write of the cursor breaks `Known` (section 6).

*Bindings.* `Owned` says that a claim between the ledger and its task belongs to
exactly one daemon's pass, and that nothing was started for it yet; with it
`AtMostOnce` and `LedgerTellsTruth` are inductive. `SoleApprover` adds that the
binding an approver has read is still pending or deleted; with a second approver
that is false (section 6).

*Intake.* `BaseInv` is the types, that no two runs have the same row and the row of a
run was claimed (`OneRunEach`), and that only the fallback's runs have no message.
`NeverTwoRuns` follows, with no hypothesis, as a claim takes a queued row only.
`RunByOne`'s other half is not so: a claim whose answer is lost, or one that took the
row of another identity, leaves a running row without a run. `DeclinedWasWithdrawn`
needs `WithdrawInv`: what a poll loop remembers was selected by the rule it was listed
with or has been withdrawn since, and so was what it is about to decline; the root
identity's poll, which reads the rule a second time, breaks it. `AcceptedIsKept` needs
`HandlersHold`: a message has one handler, while it is out, and every delivery before
this one cost a fault, so that fewer faults than `MaxDeliver` leave a delivery.

*Scheduling.* `SchedInv` relates the places where the engine notes that a job is busy. A
job with a run has its claim, and one run only (`ClaimCovers`, which is what keeps a job
whose pool was edited from running in both); the queue holds waiting sequential runs,
each once, and one that left it is the worker's (`QueueWaits`); the wait group counts
the loops and goroutines that are left, and is empty after a clean Stop
(`WaitGroupCounts`, `CleanIsEmpty`); a document that was read and has the version in
force is the one in force (`ReadIsCurrent`), so that a conditional replace undoes no edit.

*Call cycles.* `CyclesInv`: the open workflows are those of the path, each once and each
called by the one before (`PathIsOpen`), so a callee found open closes a cycle; a callee
that was looked at is done or the next of the path (`LookedAtIsDone`); what a done
workflow calls is done, and it is on no cycle (`DoneIsClosed`, `DoneIsAcyclic`). The last
rests on `DoneStays`: a path of calls from a done workflow stays among the done ones. That
is an induction over the path, made by contradiction with the least place that is not
done, which exists as the order of the naturals is well-founded.

*Container pool.* `PoolInv` adds to the properties that an Acquire still holds the
settings it took (`SeenIsCurrent`, which only matters until they change, and is what
makes the cap inductive: a reservation is judged by the settings read before the
image was pulled), what the teardown entry says of both competitors (`EntryTells`:
open only while neither has won, closed once one has) and what has become of the
container at each point of a release (`StopTells`). The count uses the cardinality
theorems for adding and removing one element.

*Channel supervisor.* `SupInv` adds that inFlight says where the supervisor is
(`InFlightTells`), that a replacement is known wherever the supervisor stands, at a
run, behind it, deciding or holding (`ReplacementIsKnown`; `NoLostRestart` is its
first and last cases), and that a run starts only with an attempt left
(`AttemptLeft`, without which the counter leaves its type).

*Workflow calls.* `CallsInv` has the types in a form that separates an engine that
sleeps from one that runs, `OneLiveChild`, and `CancelOwes`: what a cancel
that has met no error still owes is what it has still to visit. Row updates are shown
once to keep parent and key, and never to revive a row that has freed its key (`Moves`,
`MovesKeep`): that an ended child stays ended is what makes `OneLiveChild` inductive.
For `CompletedCallsSucceeded`, `CallsEarned` says of each run that the waited call sites
it has passed were won by a child that succeeded, that the callee it is about is a child
of its call site, and that a good verdict it holds was given by that callee (`Earns`);
a row in a status that counts as success is remembered as one (`SuccessIsKept`).

Only model-checked: every liveness property, as fairness and ENABLED are beyond the
prover. All other invariants and action properties that the runs check and find to hold are
proved, under the hypotheses given.

## 5. Findings

1. *Two tasks in one repository.* `daemon/daemon.go:1001` promises one task per
   repository at a time. A run resumed from a `workflow.call` queues behind the run
   that took its place; if it ends while queued, it closes its own baton and
   releases the run behind it, while the one ahead still executes.
2. *A stopped run parks its successor.* `taskactions/service.go:499` says the
   unwind "cannot win the race any more". ParkTask and Transition check the status
   and not the attempt: after stop, retry and a new claim they move the new one.
3. *A review during a remediation is dropped.* `store.go:343` says "never dropped";
   the lookup before it finds only `pr_open` rows and acknowledges the reaction.
4. *A capture is never offered.* Captures that cannot dispatch are never entered in
   the ledger and are listed first for ever; a batch of them hides older ones.

## 6. Other disagreements

The modules state these too, as properties no run lists or as instances the runs
leave out; each is found within seconds on the instance given.

| Property | Instance | What happens | The source says |
| --- | --- | --- | --- |
| `OutputsOfAttempt` | `tasks_superseded` with a stage that succeeds | a stopped attempt's late Update writes its outputs into the next attempt's row (`store.go:308`) | `queries/tasks.sql:5` "outputs is attempt-scoped" |
| `RetriesCapped` | `tasks_superseded`, MaxRetries 1, two operators | both read the count before either adds to it (`taskactions/service.go:439`) | `config.example.toml:30` |
| `ExecutingIsListed` | `tasks_settle`, AllowConcurrent | a late attempt unlists the executing one (`running.go:40`) | `running.go:15` "so they can be cancelled" |
| `HandoffStartsAfresh` | `tasks_settle`, two workflows, three attempts | the resume point survives the handoff and the next attempt parks (`workflow.go:429`) | `migrations/0030_resume_from_step.sql:7` |
| `RunningHasRun` | `tasks_settle`, Stops TRUE | a stopped agent answers without error and without parking; the row stays running until a restart (`workflow.go:353`) | `workflow.go:306` "never silently" |
| `CommentCollected` | `Single` with one comment that names the review | the comment finds no `pr_open` row and is dropped | `reactions.go:187` |
| `RemediatedOnce` without its premise | `Single` | the cursor write is refused, the window expires, the scan publishes again | `review_scan.go:128` |
| `ClaimedHasInput` without its premise | `Single`, a restart between finish's two writes | the requeued run has no review (`workflow.go:489`) | `store.go:341` |
| `ClaimedHasInput` | `Single`, a review longer than `MaxPayload` | the clip at 4000 bytes cuts the JSON (`store.go:373`) | `store.go:341` |
| `OnlyArmedDispatch` | `bindings_once` | a binding paused after it was read still dispatches | `domain/binding/binding.go:14` "only armed" |
| `PausedNeedsApproval` | `bindings_once`, two approvers, two operations | the second one's unguarded write re-arms (`edastore.go:493`) | `domain/binding/binding.go:16` "Resume returns it to pending_approval" |
| `DeclinedWasWithdrawn` | `intake_poll` as the root identity (`Root`) | poll() reads the configuration for the list and again for the rule it records (`daemon.go:1258`): a reload between the two declines work that nobody withdrew | `daemon.go:1306` "tasks picked up under the old rule were not withdrawn by anyone" |
| `RunByOne` | `intake_poll`, two identities | ClaimByIssue claims the queued rows of every identity (`store.go:211`, `queries/tasks.sql:187`), so one identity's message starts the other's row | `queries/tasks.sql:168` "two orgs may work the same issue under their own identities" |
| `NoticedIsDeclined` | `intake_poll` | a withdrawal that the poll saw is forgotten when its page or its write fails: the next poll compares with the new set | `daemon.go:1293` "declines the queued or running work of an identity's issues in repo that a complete poll no longer returns" |
| `DeliveredOnce` | `services` | Due's answer may list a job whose run is in flight and be dispatched after that run was recorded and released: one occurrence is delivered twice | `domain/scheduling/contract.go:52` "later ticks that report the same ID are skipped rather than stacked" |
| `DisableReportsStopped` | `services` | a disable whose wait timed out is applied by the next tick, which finds the channel off already (`supervise.go:303`) | `supervise.go:299` "reports only once it has stopped" |
| `ParkedUntilRestart` | `services` | a token left by an earlier change wakes a parked channel once | `supervise.go:112` "parked until an explicit restart" |

Read off the models, without a property of their own:

- A cancel between StartCall and the start of the call step finds no open step and
  leaves the callee running; so does a cancel after a restart has requeued the caller.
- The stop of a caller whose callee is still queued meets an illegal transition
  (queued to parked): the stop reports an error although the caller is parked, and its
  run is not signalled. A callee's own run is never signalled.
- `CHANGELOG.md:54` says a call's key "is freed once the callee reaches a terminal
  state"; `call_tasks.sql:29` frees it only when the callee is dead, closed_wont_do or
  archived.
- A Release that lost the teardown to the max-uptime callback gives its place back
  while that callback's stop is still under way: Docker may then run more containers
  than the cap (`pool.go:480`). `CapHolds` is about the count.
- Stop "drops queued runs" (`ticker.go:180`); a worker that finds both the queue and the
  end of its context ready may still take one.

## 7. Not modelled

The map covers a few percent of the repository's lines, and a model of thirty percent is
out of reach of this kind of specification: of some 159,000 lines the greater part is
adapters and clients of chat services, forges and models, web pages, tools that an
agent may call, RPC encoding, wiring, configuration and command lines. They hold no
state that a property relates, or only state of a service outside the repository, and a
module for them could only restate their assignments. What has state of its own and is
left:

- the gateway's chat sessions, turns and approvals, and its message dedup;
- the review gate's answer (RespondReviewGate) and the re-review cap;
- run-credential grants of the State Store; backup and restore, where Restore drops
  tables before pg_restore's own transaction (`postgres/maintenance.go:153`);
- kit tasks as a kind of run (their containers are `ContainerPool`'s);
- the evaluation of mappings and filters, which is pure.

Smaller things the modelled parts leave out: the daemon's park of a task whose agent
died leaves the attempt's steps open (`daemon/daemon.go:1919`); the dedup of waiting
reviews compares whole units, so one merged with a comment no longer equals its
redelivery (`queries/tasks.sql:203`); a job of a kind without a runner is refused on every
tick (every job of `Scheduling` has one). `WorkflowCalls` takes the dispatcher as
something that starts what is queued, `Dispatcher` the calls as something that opens and
closes: a composition of the two would relate only the open call step, which both
have.

## 8. Running it

    tlc -workers 2 -config MCBindingsOnce.cfg MCBindings
    tlapm DispatcherProofs.tla

Each passing run takes less than four minutes on two cores, and all proofs together about
an hour and a half.
