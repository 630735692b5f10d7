----------------------------- MODULE Execution -----------------------------
(***************************************************************************)
(* What the store promises about an execution, whoever writes to it: its   *)
(* status moves along the transition table, an attempt begins with each    *)
(* claim and at no other time, a deleted row was terminal, and a step      *)
(* starts once, only in the running attempt, and then moves along the step *)
(* table.  TaskRuns is shown to implement it.                              *)
(***************************************************************************)
EXTENDS Naturals, TaskState

CONSTANTS Task,
          StepId  \* tuples: the task, the attempt, and what names the step in it

VARIABLES status, attempt, stepStatus

execVars == <<status, attempt, stepStatus>>

Init ==
    /\ status = [t \in Task |-> "none"]
    /\ attempt = [t \in Task |-> 0]
    /\ stepStatus = [s \in StepId |-> "none"]

Enqueued(t) == status[t] = "none" /\ status'[t] = "queued" /\ attempt'[t] = attempt[t]

Claimed(t) ==
    /\ CanTransition(status[t], "running")
    /\ status'[t] = "running"
    /\ attempt'[t] = attempt[t] + 1

Transitioned(t) ==
    /\ CanTransition(status[t], status'[t])
    /\ status'[t] # "running"
    /\ attempt'[t] = attempt[t]

Archived(t) ==
    /\ status[t] \in Terminal
    /\ status'[t] = "archived"
    /\ attempt'[t] = attempt[t]

RowStays(t) == status'[t] = status[t] /\ attempt'[t] = attempt[t]

StepStarted(s) ==
    /\ stepStatus[s] = "none"
    /\ stepStatus'[s] = "running"
    /\ status[s[1]] = "running"
    /\ attempt[s[1]] = s[2]

StepFinished(s) == CanStepTransition(stepStatus[s], stepStatus'[s])

StepStays(s) == stepStatus'[s] = stepStatus[s]

Next ==
    /\ status' \in [Task -> Status \cup Absent]
    /\ DOMAIN attempt' = Task /\ DOMAIN stepStatus' = StepId
    /\ \A t \in Task : Enqueued(t) \/ Claimed(t) \/ Transitioned(t) \/ Archived(t) \/ RowStays(t)
    /\ \A s \in StepId : StepStarted(s) \/ StepFinished(s) \/ StepStays(s)

Spec == Init /\ [][Next]_execVars
=============================================================================
