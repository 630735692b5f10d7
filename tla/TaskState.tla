----------------------------- MODULE TaskState -----------------------------
(***************************************************************************)
(* The lifecycle tables of internal/taskstate: what an execution and a     *)
(* step may become, and which actions an operator is offered in a status.  *)
(* Every store transaction and every operator action is judged by them.    *)
(***************************************************************************)

Status == {"queued", "running", "waiting_human", "parked", "pr_open",
           "merged", "rejected", "dead", "closed_wont_do", "completed"}

Terminal == {"merged", "rejected", "dead", "closed_wont_do", "completed"}

\* A row that was never inserted, and one that an archive deleted.
Absent == {"none", "archived"}

executionTransitions ==
    ({"queued"} \X {"running", "closed_wont_do"})
      \cup ({"running"} \X {"queued", "waiting_human", "pr_open", "completed",
                            "parked", "closed_wont_do"})
      \cup ({"waiting_human"} \X {"queued", "closed_wont_do"})
      \cup ({"parked"} \X {"queued", "dead", "closed_wont_do"})
      \cup ({"pr_open"} \X {"merged", "rejected", "queued", "closed_wont_do"})

CanTransition(from, to) == <<from, to>> \in executionTransitions

StepStatus == {"pending", "running", "succeeded", "failed", "cancelled",
               "interrupted", "skipped"}

stepTransitions ==
    ({"pending"} \X {"running", "cancelled"})
      \cup ({"running"} \X {"succeeded", "failed", "cancelled", "interrupted",
                            "skipped"})

CanStepTransition(from, to) == <<from, to>> \in stepTransitions

StepTerminal == {"succeeded", "failed", "cancelled", "interrupted", "skipped"}

\* A step starts only while its execution runs and its parent has not finished.
CheckStepStart(status, parentTerminal) ==
    /\ status = "running"
    /\ ~parentTerminal

\* The actions offered in each status; a terminal row can only be archived.
\* open_pr and open_issue are links: they change no task.
Actions(status) ==
    CASE status = "queued" -> {"cancel", "reject"}
      [] status = "running" -> {"stop", "reject"}
      [] status = "waiting_human" -> {"approve", "reject", "rereview"}
      [] status = "parked" -> {"retry", "abandon", "reject"}
      [] status = "pr_open" -> {"merge", "open_pr", "open_issue", "reject"}
      [] status \in Terminal -> {"archive"}
      [] OTHER -> {}

ActionTarget(action) ==
    CASE action \in {"approve", "retry", "rereview"} -> "queued"
      [] action \in {"reject", "cancel", "abandon"} -> "closed_wont_do"
      [] action = "stop" -> "parked"
      [] action = "merge" -> "merged"
=============================================================================
