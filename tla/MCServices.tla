----------------------------- MODULE MCServices -----------------------------
(***************************************************************************)
(* The components that share no state with the others, side by side: in a  *)
(* behaviour one of them takes steps and the others stay as they began.    *)
(***************************************************************************)
EXTENDS WorkflowCalls, CallCycles, ContainerPool, ChannelSupervisor, Scheduling, TLC

CONSTANTS u1, u2, j1, j2

VARIABLE part  \* the component that takes steps

\* Two waited calls, one inside the other; a waited call and one that is not,
\* whose callees end in every way; calls down to the limit and past it.
Chain == [sites |-> 0 :> <<TRUE>> @@ 1 :> <<TRUE>> @@ 2 :> <<>>,
          ends |-> 0 :> {"completed"} @@ 1 :> {"completed"} @@ 2 :> {"completed", "parked"}]
Fan == [sites |-> 0 :> <<TRUE, FALSE>> @@ 1 :> <<>> @@ 2 :> <<>>,
        ends |-> 0 :> {"completed"} @@ 1 :> {"completed", "parked", "pr_open", "waiting_human"} @@ 2 :> {}]
Deep == [sites |-> [d \in 0 .. 2 |-> <<TRUE>>], ends |-> [d \in 0 .. 2 |-> {"completed"}]]
ThreePlans == {Chain, Fan, Deep}

Users == {u1, u2}
Jobs == {j1, j2}
OnceJobs == {j2}
OneOrNoCap == {0, 1}

servicesVars == <<part, callsVars, cycleVars, poolVars, supVars, schedVars>>

ServicesInit ==
    /\ part \in {"calls", "cycles", "pool", "channel", "scheduling"}
    /\ CallsInit /\ CyclesInit /\ PoolInit /\ SupInit /\ SchedInit
    /\ part # "calls" => plan = Chain
    /\ part # "cycles" => graph = [w \in Workflow |-> {}]
    /\ part # "pool" => settings = [cap |-> 0, uptime |-> FALSE]
    /\ part # "scheduling" => doc.pool = [j \in Job |-> "sequential"]

ServicesNext ==
    /\ UNCHANGED part
    /\ \/ part = "calls" /\ CallsNext /\ UNCHANGED <<cycleVars, poolVars, supVars, schedVars>>
       \/ part = "cycles" /\ CyclesNext /\ UNCHANGED <<callsVars, poolVars, supVars, schedVars>>
       \/ part = "pool" /\ PoolNext /\ UNCHANGED <<callsVars, cycleVars, supVars, schedVars>>
       \/ part = "channel" /\ SupNext /\ UNCHANGED <<callsVars, cycleVars, poolVars, schedVars>>
       \/ part = "scheduling" /\ SchedNext /\ UNCHANGED <<callsVars, cycleVars, poolVars, supVars>>

\* The goroutines go on: a run goes on to its next step; an acquire, a release
\* and a timer go on; the reconcile loop ticks, the supervisor goes on and a run
\* whose context has ended returns; the engine ticks, its worker and its waiting
\* goroutines take their turn, and a run ends.
Fairness ==
    /\ \A t \in Exec : WF_callsVars(part = "calls" /\ t \in Rows /\ RunExec(t))
    /\ \A u \in User : WF_poolVars(part = "pool" /\ UserStep(u)) /\ WF_poolVars(part = "pool" /\ ReaperStep(u))
    /\ WF_supVars(part = "channel" /\ Reconcile)
    /\ WF_supVars(part = "channel" /\ Supervise)
    /\ WF_supVars(part = "channel" /\ CutReturns)
    /\ WF_schedVars(part = "scheduling" /\ TickStep)
    /\ WF_schedVars(part = "scheduling" /\ sequentialWorker)
    /\ \A j \in Job : WF_schedVars(part = "scheduling" /\ takeSlot(j))
    /\ \A r \in Run : WF_schedVars(part = "scheduling" /\ RunStep(r))

\* The components' state is of its types.
TypeOK == CallsTypeOK /\ PoolTypeOK /\ SupTypeOK /\ SchedTypeOK

ServicesSpec == ServicesInit /\ [][ServicesNext]_servicesVars /\ Fairness
=============================================================================
