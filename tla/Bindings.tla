------------------------------ MODULE Bindings ------------------------------
(***************************************************************************)
(* Captured events and the bindings that start tasks from them.  A webhook *)
(* stores captures; each cycle of a daemon lists the ones some armed       *)
(* binding has not dispatched, offers them one binding at a time, claims   *)
(* the dispatch in the ledger and enqueues the task.  Operators approve,   *)
(* pause, edit and delete bindings meanwhile.                              *)
(*                                                                         *)
(* One source, one org and one event type: the queries separate the        *)
(* others.  A capture is its place in the order of arrival.                *)
(***************************************************************************)
EXTENDS Integers, FiniteSets

CONSTANTS Daemon, Approver, Binding, Delivery,
          NCaptures,
          DeliveryOf,    \* the delivery each capture is an arrival of
          Dispatchable,  \* the captures with a valid signature or a source that needs none
          MaxEvents,     \* how many captures retention keeps
          BatchLimit,    \* how many captures one cycle lists
          MaxOperations, MaxFaults, MaxCrashes

Capture == 1 .. NCaptures

ASSUME BindingsAssumption ==
    /\ NCaptures \in Nat
    /\ DeliveryOf \in [Capture -> Delivery]
    /\ Dispatchable \subseteq Capture
    /\ MaxEvents \in Nat \ {0} /\ BatchLimit \in Nat \ {0}

VARIABLES arrived,   \* how many captures have arrived
          captures,  \* the ones retention keeps
          status,    \* of each binding
          enabled,   \* is the binding's workflow enabled
          mapping,   \* does the binding's mapping match the event type
          ledger,    \* the outcome of each binding for each delivery
          tasks,     \* how many tasks each binding started for each delivery
          pc,        \* where each daemon is in dispatchBindings
          pass,      \* its pass over the captures
          approval,  \* the binding each approver has read
          operations, faults, crashes

vars == <<arrived, captures, status, enabled, mapping, ledger, tasks, pc, pass, approval,
          operations, faults, crashes>>

operated == <<status, enabled, mapping, approval, operations>>
stored == <<arrived, captures>>

Status == {"pending_approval", "armed", "paused", "deleted"}
Outcome == {"none", "evaluated", "claimed", "started"}
Pc == {"idle", "capture", "offer", "evaluated", "claim", "enqueue", "record"}

None == "none"

\* A pass: the captures still to do with the enablement it read, the capture
\* in hand with the bindings still to offer it to, and the binding in hand.
Pass == [todo : SUBSET Capture, enabled : SUBSET Binding, capture : {0} \cup Capture,
         offers : SUBSET Binding, binding : Binding \cup {None}]

NoPass == [todo |-> {}, enabled |-> {}, capture |-> 0, offers |-> {}, binding |-> None]

TypeOK ==
    /\ arrived \in 0 .. NCaptures
    /\ captures \subseteq Capture
    /\ status \in [Binding -> Status]
    /\ enabled \subseteq Binding
    /\ mapping \in [Binding -> {"matches", "other", "gone"}]
    /\ ledger \in [Binding -> [Delivery -> Outcome]]
    /\ tasks \in [Binding -> [Delivery -> Nat]]
    /\ pc \in [Daemon -> Pc] /\ pass \in [Daemon -> Pass]
    /\ approval \in [Approver -> Binding \cup {None}]
    /\ operations \in Nat /\ faults \in Nat /\ crashes \in Nat

Init ==
    /\ arrived = 0 /\ captures = {}
    /\ status = [b \in Binding |-> "pending_approval"]
    /\ enabled = Binding
    /\ mapping = [b \in Binding |-> "matches"]
    /\ ledger = [b \in Binding |-> [v \in Delivery |-> "none"]]
    /\ tasks = [b \in Binding |-> [v \in Delivery |-> 0]]
    /\ pc = [d \in Daemon |-> "idle"] /\ pass = [d \in Daemon |-> NoPass]
    /\ approval = [a \in Approver |-> None]
    /\ operations = 0 /\ faults = 0 /\ crashes = 0

\* A call may fail, MaxFaults times in all.
Fails == faults < MaxFaults /\ faults' = faults + 1
-----------------------------------------------------------------------------
(***************************************************************************)
(* Intake and the operators.                                               *)
(***************************************************************************)

Newest(S, n) == {c \in S : Cardinality({e \in S : e > c}) < n}

\* The insert, then the prunes by age and by count.
InsertCapture ==
    /\ arrived < NCaptures
    /\ arrived' = arrived + 1
    /\ \E oldest \in 1 .. arrived + 1 :
          captures' = Newest({c \in captures \cup {arrived + 1} : c >= oldest}, MaxEvents)
    /\ UNCHANGED <<operated, ledger, tasks, pc, pass, faults, crashes>>

Approvable(b) == status[b] = "pending_approval"

\* ApproveBinding reads the status, then arms the row whatever it holds by then.
ReadForApproval(a, b) ==
    /\ approval[a] = None
    /\ Approvable(b)
    /\ approval' = [approval EXCEPT ![a] = b]
    /\ UNCHANGED <<stored, status, enabled, mapping, operations, ledger, tasks, pc, pass, faults, crashes>>

SetBindingArmed(a) ==
    /\ approval[a] # None
    /\ status' = [status EXCEPT ![approval[a]] = IF @ = "deleted" THEN @ ELSE "armed"]
    /\ approval' = [approval EXCEPT ![a] = None]
    /\ UNCHANGED <<stored, enabled, mapping, operations, ledger, tasks, pc, pass, faults, crashes>>

\* Pauses, edits and the rest, MaxOperations of them in all.
Operation == operations < MaxOperations /\ operations' = operations + 1

TransitionTo(from) == IF from = "armed" THEN "paused" ELSE "pending_approval"

\* PauseBinding and ResumeBinding.
transitionBinding(b) ==
    /\ Operation
    /\ status[b] \in {"armed", "paused"}
    /\ status' = [status EXCEPT ![b] = TransitionTo(@)]
    /\ UNCHANGED <<stored, enabled, mapping, approval, ledger, tasks, pc, pass, faults, crashes>>

\* An edit of the filter, the inputs or the target.
UpdateBinding(b) ==
    /\ Operation
    /\ status[b] # "deleted"
    /\ status' = [status EXCEPT ![b] = "pending_approval"]
    /\ UNCHANGED <<stored, enabled, mapping, approval, ledger, tasks, pc, pass, faults, crashes>>

DeleteBinding(b) ==
    /\ Operation
    /\ status[b] # "deleted"
    /\ status' = [status EXCEPT ![b] = "deleted"]
    /\ UNCHANGED <<stored, enabled, mapping, approval, ledger, tasks, pc, pass, faults, crashes>>

\* UpdateMapping and DeleteMapping.
ChangeMapping(b) ==
    /\ Operation
    /\ mapping[b] # "gone"
    /\ \E m \in {"matches", "other", "gone"} \ {mapping[b]} : mapping' = [mapping EXCEPT ![b] = m]
    /\ UNCHANGED <<stored, status, enabled, approval, ledger, tasks, pc, pass, faults, crashes>>

SetEnabled(b) ==
    /\ Operation
    /\ enabled' = IF b \in enabled THEN enabled \ {b} ELSE enabled \cup {b}
    /\ UNCHANGED <<stored, status, mapping, approval, ledger, tasks, pc, pass, faults, crashes>>
-----------------------------------------------------------------------------
(***************************************************************************)
(* One daemon's dispatchBindings.                                          *)
(***************************************************************************)

Undispatched(c) ==
    \E b \in Binding : status[b] = "armed" /\ mapping[b] = "matches" /\ ledger[b][DeliveryOf[c]] = "none"

MutBatch == Newest({c \in captures : Undispatched(c)}, BatchLimit - 1)

\* The newest, up to the limit; signatures are not looked at.
Batch == Newest({c \in captures : Undispatched(c)}, BatchLimit)

\* dispatchOrgBindings reads the captures, then the enablement.  One step stands for
\* both: neither read depends on what may change between them.
ListUndispatchedCaptures(d) ==
    /\ pc[d] = "idle"
    /\ \E b \in Binding : status[b] = "armed"
    /\ \/ /\ pc' = [pc EXCEPT ![d] = "capture"]
          /\ pass' = [pass EXCEPT ![d] = [todo |-> Batch, enabled |-> enabled, capture |-> 0, offers |-> {}, binding |-> None]]
          /\ UNCHANGED faults
       \/ Fails /\ UNCHANGED <<pc, pass>>
    /\ UNCHANGED <<stored, operated, ledger, tasks, crashes>>

\* dispatchCapture keeps the armed bindings that match and whose workflow the pass read as enabled.
Offers(c, on) == {b \in Binding : status[b] = "armed" /\ c \in Dispatchable /\ b \in on}

\* It takes the newest capture; when the read fails, that capture waits for the next pass.
ArmedBindingsForSource(d, c) ==
    LET Takes(offers) == pass' = [pass EXCEPT ![d] =
            [todo |-> pass[d].todo \ {c}, enabled |-> pass[d].enabled, capture |-> c, offers |-> offers, binding |-> None]] IN
    /\ pc[d] = "capture"
    /\ c \in pass[d].todo /\ \A e \in pass[d].todo : e <= c
    /\ \/ Takes(Offers(c, pass[d].enabled)) /\ UNCHANGED faults
       \/ Takes({}) /\ Fails
    /\ pc' = [pc EXCEPT ![d] = "offer"]
    /\ UNCHANGED <<stored, operated, ledger, tasks, crashes>>

EndPass(d) ==
    /\ pc[d] = "capture" /\ pass[d].todo = {}
    /\ pc' = [pc EXCEPT ![d] = "idle"]
    /\ pass' = [pass EXCEPT ![d] = NoPass]
    /\ UNCHANGED <<stored, operated, ledger, tasks, faults, crashes>>

EndCapture(d) ==
    /\ pc[d] = "offer" /\ pass[d].offers = {}
    /\ pc' = [pc EXCEPT ![d] = "capture"]
    /\ UNCHANGED <<stored, operated, ledger, tasks, pass, faults, crashes>>

\* dispatchOneBinding up to the ledger: a missing mapping, a failed field, an
\* excluding filter, an unusable target and a denial are final; a mapping of
\* another type and a failed read leave the capture listed.
Offer(d, b) ==
    /\ pc[d] = "offer" /\ b \in pass[d].offers
    /\ \E next \in {"claim", "evaluated", "offer"} :
          /\ pc' = [pc EXCEPT ![d] = next]
          /\ \/ mapping[b] = "matches" /\ next \in {"claim", "evaluated"} /\ UNCHANGED faults
             \/ mapping[b] = "gone" /\ next = "evaluated" /\ UNCHANGED faults
             \/ mapping[b] = "other" /\ next = "offer" /\ UNCHANGED faults
             \/ next = "offer" /\ Fails
    /\ pass' = [pass EXCEPT ![d] = [todo |-> pass[d].todo, enabled |-> pass[d].enabled, capture |-> pass[d].capture,
                                    offers |-> pass[d].offers \ {b}, binding |-> b]]
    /\ UNCHANGED <<stored, operated, ledger, tasks, crashes>>

\* The row the ledger's unique key admits, for a capture that is still stored.
Admits(d) ==
    /\ pass[d].capture \in captures
    /\ ledger[pass[d].binding][DeliveryOf[pass[d].capture]] = "none"

Written(d, outcome) ==
    ledger' = [ledger EXCEPT ![pass[d].binding][DeliveryOf[pass[d].capture]] = outcome]

Goto(d, next) == pc' = [pc EXCEPT ![d] = next]

\* recordEvaluated.
RecordEvaluated(d) ==
    /\ pc[d] = "evaluated"
    /\ \/ Admits(d) /\ Written(d, "evaluated") /\ UNCHANGED faults
       \/ ~Admits(d) /\ UNCHANGED <<ledger, faults>>
       \/ Fails /\ UNCHANGED ledger
    /\ Goto(d, "offer")
    /\ UNCHANGED <<stored, operated, tasks, pass, crashes>>

\* claimAndEnqueue: the claim, which may be written although its answer is
\* lost, then the task, then its number in the ledger.
RecordDispatch(d) ==
    /\ pc[d] = "claim"
    /\ \/ Admits(d) /\ Written(d, "claimed") /\ Goto(d, "enqueue") /\ UNCHANGED faults
       \/ Admits(d) /\ Written(d, "claimed") /\ Goto(d, "offer") /\ Fails
       \/ ~Admits(d) /\ Goto(d, "offer") /\ UNCHANGED <<ledger, faults>>
       \/ Fails /\ Goto(d, "offer") /\ UNCHANGED ledger
    /\ UNCHANGED <<stored, operated, tasks, pass, crashes>>

Started(d) ==
    tasks' = [tasks EXCEPT ![pass[d].binding][DeliveryOf[pass[d].capture]] = @ + 1]

MutEnqueueFailed(d) == "enqueue"
MutEnqueueUnchecked(d) == "record"
EnqueueFailed(d) == "offer"

\* The insert, then the stamp: the task exists although the stamp failed.
EnqueueBindingTask(d) ==
    /\ pc[d] = "enqueue"
    /\ \/ Started(d) /\ Goto(d, "record") /\ UNCHANGED faults
       \/ Started(d) /\ Goto(d, EnqueueFailed(d)) /\ Fails
       \/ Fails /\ Goto(d, EnqueueFailed(d)) /\ UNCHANGED tasks
    /\ UNCHANGED <<stored, operated, ledger, pass, crashes>>

SetDispatchTask(d) ==
    /\ pc[d] = "record"
    /\ \/ Written(d, "started") /\ UNCHANGED faults
       \/ Fails /\ UNCHANGED ledger
    /\ Goto(d, "offer")
    /\ UNCHANGED <<stored, operated, tasks, pass, crashes>>

Crash(d) ==
    /\ pc[d] # "idle" /\ crashes < MaxCrashes
    /\ crashes' = crashes + 1
    /\ pc' = [pc EXCEPT ![d] = "idle"]
    /\ pass' = [pass EXCEPT ![d] = NoPass]
    /\ UNCHANGED <<stored, operated, ledger, tasks, faults>>
-----------------------------------------------------------------------------
dispatchBindings(d) ==
    \/ ListUndispatchedCaptures(d) \/ EndPass(d) \/ EndCapture(d)
    \/ \E c \in Capture : ArmedBindingsForSource(d, c)
    \/ \E b \in Binding : Offer(d, b)
    \/ RecordEvaluated(d) \/ RecordDispatch(d) \/ EnqueueBindingTask(d) \/ SetDispatchTask(d)

Operate ==
    \/ \E a \in Approver : SetBindingArmed(a) \/ \E b \in Binding : ReadForApproval(a, b)
    \/ \E b \in Binding : \/ transitionBinding(b) \/ UpdateBinding(b) \/ DeleteBinding(b)
                          \/ ChangeMapping(b) \/ SetEnabled(b)

Next ==
    \/ InsertCapture
    \/ Operate
    \/ \E d \in Daemon : dispatchBindings(d) \/ Crash(d)

Spec == Init /\ [][Next]_vars

\* Every daemon keeps cycling.
FairSpec == Spec /\ \A d \in Daemon : WF_vars(dispatchBindings(d))
-----------------------------------------------------------------------------
(***************************************************************************)
(* Properties.                                                             *)
(***************************************************************************)

\* A binding starts at most one task for a delivery, however often the
\* delivery is retried, the binding edited, a claim or an enqueue failed and
\* the daemon restarted (RecordDispatch's key, claimed before the enqueue).
AtMostOnce == \A b \in Binding, v \in Delivery : tasks[b][v] <= 1

\* A pair the ledger records as evaluated without a task has none, and one it
\* records as started has one: what ListDispatches shows an operator.
LedgerTellsTruth ==
    \A b \in Binding, v \in Delivery :
        /\ ledger[b][v] \in {"none", "evaluated"} => tasks[b][v] = 0
        /\ ledger[b][v] = "started" => tasks[b][v] = 1

\* A paused binding is armed again only through a resume and an approval.
PausedNeedsApproval == [][\A b \in Binding : status[b] = "paused" => status'[b] # "armed"]_vars

\* A task starts from a binding only while that binding is armed.
OnlyArmedDispatch ==
    [][\A b \in Binding, v \in Delivery : tasks'[b][v] # tasks[b][v] => status[b] = "armed"]_vars

\* A stored capture that may dispatch is in the end settled by every binding
\* that stays armed, enabled and mapped to its event type.
EveryCaptureOffered ==
    \A b \in Binding : \A c \in Dispatchable :
        <>[](c \in captures /\ status[b] = "armed" /\ b \in enabled /\ mapping[b] = "matches")
            => <>(ledger[b][DeliveryOf[c]] # "none")
=============================================================================
