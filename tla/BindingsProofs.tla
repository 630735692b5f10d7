--------------------------- MODULE BindingsProofs ---------------------------
(***************************************************************************)
(* A binding starts at most one task for a delivery, for any number of     *)
(* daemons, bindings, deliveries, faults and crashes.                      *)
(***************************************************************************)
EXTENDS Bindings, TLAPS
USE SMTT(20), ZenonT(20)

Held == {"evaluated", "claim", "enqueue", "record"}

\* The pair d has in hand.
Of(d, f) == f[pass[d].binding][DeliveryOf[pass[d].capture]]

SameKey(d, e) ==
    /\ pass[d].binding = pass[e].binding
    /\ DeliveryOf[pass[d].capture] = DeliveryOf[pass[e].capture]

\* Between the claim and SetDispatchTask the pair belongs to the daemon whose
\* row the unique key admitted: the ledger says claimed, no other daemon is
\* at the same pair, and the task is there exactly when the insert is done.
\* That is what keeps a second insert out; AtMostOnce alone does not say it.
Owned ==
    /\ \A d \in Daemon : pc[d] = "offer" => pass[d].capture \in Capture
    /\ \A d \in Daemon : pc[d] \in Held => pass[d].capture \in Capture /\ pass[d].binding \in Binding
    /\ \A d \in Daemon : pc[d] = "enqueue" => Of(d, ledger) = "claimed" /\ Of(d, tasks) = 0
    /\ \A d \in Daemon : pc[d] = "record" => Of(d, ledger) = "claimed" /\ Of(d, tasks) = 1
    /\ \A d, e \in Daemon : d # e /\ pc[d] \in {"enqueue", "record"} /\ pc[e] \in {"enqueue", "record"} => ~SameKey(d, e)

IInv == TypeOK /\ Owned /\ AtMostOnce /\ LedgerTellsTruth
-----------------------------------------------------------------------------
\* Init has the invariant: nothing is stored and every daemon is idle.
LEMMA InitInv == Init => IInv
BY BindingsAssumption DEF Init, IInv, TypeOK, Owned, AtMostOnce, LedgerTellsTruth, Status, Outcome, Pc, Pass, NoPass, Held, None, Capture

\* The captures a prune or a batch keeps are captures.
LEMMA NewestSubset == ASSUME NEW S, NEW n PROVE Newest(S, n) \subseteq S
BY DEF Newest

\* The steps of intake and of the operators keep the types.
LEMMA OperateTypes == ASSUME TypeOK, InsertCapture \/ Operate PROVE TypeOK'
<1>1. CASE InsertCapture
  <2>1. arrived + 1 \in Capture /\ arrived' \in 0 .. NCaptures
    BY <1>1, BindingsAssumption DEF InsertCapture, TypeOK, Capture
  <2>2. PICK S \in SUBSET Capture : captures' = Newest(S, MaxEvents)
    BY <1>1, <2>1 DEF InsertCapture, TypeOK
  <2>3. captures' \subseteq Capture
    BY <2>2, NewestSubset
  <2> QED BY <1>1, <2>1, <2>3 DEF InsertCapture, TypeOK, operated
<1>2. ASSUME NEW a \in Approver, SetBindingArmed(a) PROVE TypeOK'
  BY <1>2 DEF SetBindingArmed, TypeOK, stored, Status
<1>3. ASSUME NEW a \in Approver, NEW b \in Binding, ReadForApproval(a, b) PROVE TypeOK'
  BY <1>3 DEF ReadForApproval, TypeOK, stored
<1>4. ASSUME NEW b \in Binding, transitionBinding(b) PROVE TypeOK'
  BY <1>4 DEF transitionBinding, TransitionTo, Operation, TypeOK, stored, Status
<1>5. ASSUME NEW b \in Binding, UpdateBinding(b) PROVE TypeOK'
  BY <1>5 DEF UpdateBinding, Operation, TypeOK, stored, Status
<1>6. ASSUME NEW b \in Binding, DeleteBinding(b) PROVE TypeOK'
  BY <1>6 DEF DeleteBinding, Operation, TypeOK, stored, Status
<1>7. ASSUME NEW b \in Binding, ChangeMapping(b) PROVE TypeOK'
  BY <1>7 DEF ChangeMapping, Operation, TypeOK, stored
<1>8. ASSUME NEW b \in Binding, SetEnabled(b) PROVE TypeOK'
  BY <1>8 DEF SetEnabled, Operation, TypeOK, stored
<1> QED BY <1>1, <1>2, <1>3, <1>4, <1>5, <1>6, <1>7, <1>8 DEF Operate

\* Intake and the operators touch neither the ledger nor the tasks nor a
\* daemon's pass, so they keep what a daemon owns.
LEMMA OperateOwned == ASSUME IInv, InsertCapture \/ Operate PROVE IInv'
<1>1. TypeOK'
  BY OperateTypes DEF IInv
<1>2. UNCHANGED <<pc, pass, ledger, tasks>>
  BY DEF Operate, InsertCapture, SetBindingArmed, ReadForApproval, transitionBinding, UpdateBinding, DeleteBinding, ChangeMapping, SetEnabled
<1> QED BY <1>1, <1>2 DEF IInv, Owned, AtMostOnce, LedgerTellsTruth, Of, SameKey, Held

\* The steps of a pass before the ledger: a capture and a binding taken in
\* hand are a capture and a binding.
LEMMA PassTypes ==
    ASSUME TypeOK, Owned, NEW d \in Daemon,
           \/ ListUndispatchedCaptures(d) \/ EndPass(d) \/ EndCapture(d) \/ Crash(d)
           \/ \E c \in Capture : ArmedBindingsForSource(d, c)
           \/ \E b \in Binding : Offer(d, b)
    PROVE  /\ TypeOK'
           /\ pc'[d] \in {"idle", "capture", "offer", "evaluated", "claim"}
           /\ pc'[d] = "offer" => pass'[d].capture \in Capture
           /\ pc'[d] \in Held => pass'[d].capture \in Capture /\ pass'[d].binding \in Binding
           /\ \A e \in Daemon \ {d} : pc'[e] = pc[e] /\ pass'[e] = pass[e]
           /\ UNCHANGED <<ledger, tasks>>
<1> USE DEF TypeOK, Held
<1>n. NoPass \in Pass
  BY DEF NoPass, Pass, None
<1>1. CASE ListUndispatchedCaptures(d)
  <2>1. Batch \subseteq Capture
    BY NewestSubset DEF Batch
  <2>2. [todo |-> Batch, enabled |-> enabled, capture |-> 0, offers |-> {}, binding |-> None] \in Pass
    BY <2>1 DEF Pass
  <2>3. CASE UNCHANGED <<pc, pass>>
    BY <1>1, <2>3 DEF ListUndispatchedCaptures, Fails, stored, operated, Pc
  <2>4. CASE /\ pc' = [pc EXCEPT ![d] = "capture"]
             /\ pass' = [pass EXCEPT ![d] = [todo |-> Batch, enabled |-> enabled, capture |-> 0, offers |-> {}, binding |-> None]]
    BY <1>1, <2>2, <2>4 DEF ListUndispatchedCaptures, Fails, stored, operated, Pc
  <2> QED BY <1>1, <2>3, <2>4 DEF ListUndispatchedCaptures
<1>2. CASE EndPass(d)
  BY <1>2, <1>n DEF EndPass, stored, operated, Pc
<1>3. CASE EndCapture(d)
  BY <1>3 DEF EndCapture, stored, operated, Pc
<1>4. CASE Crash(d)
  BY <1>4, <1>n DEF Crash, stored, operated, Pc
<1>5. ASSUME NEW c \in Capture, ArmedBindingsForSource(d, c)
      PROVE  /\ TypeOK'
             /\ pc'[d] = "offer" /\ pass'[d].capture \in Capture
             /\ \A e \in Daemon \ {d} : pc'[e] = pc[e] /\ pass'[e] = pass[e]
             /\ UNCHANGED <<ledger, tasks>>
  <2>1. PICK offers \in SUBSET Binding : pass' = [pass EXCEPT ![d] =
            [todo |-> pass[d].todo \ {c}, enabled |-> pass[d].enabled, capture |-> c, offers |-> offers, binding |-> None]]
    BY <1>5 DEF ArmedBindingsForSource, Offers
  <2>2. [todo |-> pass[d].todo \ {c}, enabled |-> pass[d].enabled, capture |-> c, offers |-> offers, binding |-> None] \in Pass
    BY DEF Pass
  <2> QED BY <1>5, <2>1, <2>2 DEF ArmedBindingsForSource, Fails, stored, operated, Pc
<1>6. ASSUME NEW b \in Binding, Offer(d, b)
      PROVE  /\ TypeOK'
             /\ pc'[d] \in {"offer", "evaluated", "claim"}
             /\ pass'[d].capture \in Capture /\ pass'[d].binding \in Binding
             /\ \A e \in Daemon \ {d} : pc'[e] = pc[e] /\ pass'[e] = pass[e]
             /\ UNCHANGED <<ledger, tasks>>
  <2>1. pass[d].capture \in Capture
    BY <1>6 DEF Offer, Owned
  <2>2. [todo |-> pass[d].todo, enabled |-> pass[d].enabled, capture |-> pass[d].capture,
         offers |-> pass[d].offers \ {b}, binding |-> b] \in Pass
    BY DEF Pass
  <2> QED BY <1>6, <2>1, <2>2 DEF Offer, Fails, stored, operated, Pc
<1> QED BY <1>1, <1>2, <1>3, <1>4, <1>5, <1>6

\* None of them claims a pair, so what the daemons own stays theirs.
LEMMA PassOwned ==
    ASSUME IInv, NEW d \in Daemon,
           \/ ListUndispatchedCaptures(d) \/ EndPass(d) \/ EndCapture(d) \/ Crash(d)
           \/ \E c \in Capture : ArmedBindingsForSource(d, c)
           \/ \E b \in Binding : Offer(d, b)
    PROVE  IInv'
<1>1. /\ TypeOK'
      /\ pc'[d] \in {"idle", "capture", "offer", "evaluated", "claim"}
      /\ pc'[d] = "offer" => pass'[d].capture \in Capture
      /\ pc'[d] \in Held => pass'[d].capture \in Capture /\ pass'[d].binding \in Binding
      /\ \A e \in Daemon \ {d} : pc'[e] = pc[e] /\ pass'[e] = pass[e]
      /\ UNCHANGED <<ledger, tasks>>
  BY PassTypes DEF IInv
<1>2. Owned'
  <2>1. ASSUME NEW e \in Daemon, pc'[e] \in {"enqueue", "record"}
        PROVE  e # d /\ pc'[e] = pc[e] /\ pass'[e] = pass[e]
    BY <1>1, <2>1
  <2>2. /\ \A e \in Daemon : pc'[e] = "offer" => pass'[e].capture \in Capture
        /\ \A e \in Daemon : pc'[e] \in Held => pass'[e].capture \in Capture /\ pass'[e].binding \in Binding
    BY <1>1 DEF IInv, Owned
  <2>3. ASSUME NEW e \in Daemon
        PROVE  /\ pc'[e] = "enqueue" => Of(e, ledger)' = "claimed" /\ Of(e, tasks)' = 0
               /\ pc'[e] = "record" => Of(e, ledger)' = "claimed" /\ Of(e, tasks)' = 1
    BY SMTT(60), <1>1, <2>1 DEF IInv, Owned, Of
  <2>4. ASSUME NEW e \in Daemon, NEW f \in Daemon, e # f, pc'[e] \in {"enqueue", "record"}, pc'[f] \in {"enqueue", "record"}
        PROVE  ~SameKey(e, f)'
    BY <2>1, <2>4 DEF IInv, Owned, SameKey
  <2> QED BY <2>2, <2>3, <2>4 DEF Owned
<1> QED BY <1>1, <1>2 DEF IInv, AtMostOnce, LedgerTellsTruth

\* What writing one pair of the ledger or of the tasks changes.
LEMMA PairWritten ==
    ASSUME NEW S, NEW f \in [Binding -> [Delivery -> S]], NEW b \in Binding, NEW v \in Delivery, NEW x \in S
    PROVE  LET g == [f EXCEPT ![b][v] = x] IN
           /\ g \in [Binding -> [Delivery -> S]]
           /\ g[b][v] = x
           /\ \A c \in Binding, w \in Delivery : c # b \/ w # v => g[c][w] = f[c][w]
OBVIOUS

\* The steps at the ledger keep the types and the rest of the pass.
LEMMA LedgerTypes ==
    ASSUME TypeOK, Owned, NEW d \in Daemon,
           RecordEvaluated(d) \/ RecordDispatch(d) \/ EnqueueBindingTask(d) \/ SetDispatchTask(d)
    PROVE  TypeOK' /\ pass[d].binding \in Binding /\ DeliveryOf[pass[d].capture] \in Delivery
<1>1. pass[d].binding \in Binding /\ DeliveryOf[pass[d].capture] \in Delivery
  BY BindingsAssumption DEF Owned, Held, RecordEvaluated, RecordDispatch, EnqueueBindingTask, SetDispatchTask
<1>2. ledger' \in [Binding -> [Delivery -> Outcome]]
  <2>1. \A x \in Outcome : Written(d, x) => ledger' \in [Binding -> [Delivery -> Outcome]]
    BY <1>1, PairWritten DEF TypeOK, Written
  <2>2. ledger' = ledger \/ \E x \in Outcome : Written(d, x)
    BY DEF Outcome, RecordEvaluated, RecordDispatch, EnqueueBindingTask, SetDispatchTask
  <2> QED BY <2>1, <2>2 DEF TypeOK
<1>3. tasks' \in [Binding -> [Delivery -> Nat]]
  <2>1. Started(d) => tasks' \in [Binding -> [Delivery -> Nat]]
    <3>1. tasks \in [Binding -> [Delivery -> Nat]]
      BY DEF TypeOK
    <3> QED BY <1>1, <3>1 DEF Started
  <2>2. tasks' = tasks \/ Started(d)
    BY DEF RecordEvaluated, RecordDispatch, EnqueueBindingTask, SetDispatchTask
  <2> QED BY <2>1, <2>2 DEF TypeOK
<1>4. pc' \in [Daemon -> Pc] /\ faults' \in Nat
  BY DEF TypeOK, Pc, RecordEvaluated, RecordDispatch, EnqueueBindingTask, SetDispatchTask, Goto, EnqueueFailed, Fails
<1>5. UNCHANGED <<stored, operated, pass, crashes>>
  BY DEF RecordEvaluated, RecordDispatch, EnqueueBindingTask, SetDispatchTask
<1> QED BY <1>1, <1>2, <1>3, <1>4, <1>5 DEF TypeOK, stored, operated

\* The daemon whose row the key admits takes a pair that nobody owns, inserts
\* one task for it and gives it up; nobody else writes that pair meanwhile.
LEMMA LedgerOwned ==
    ASSUME IInv, NEW d \in Daemon,
           RecordEvaluated(d) \/ RecordDispatch(d) \/ EnqueueBindingTask(d) \/ SetDispatchTask(d)
    PROVE  IInv'
<1> DEFINE b == pass[d].binding
           v == DeliveryOf[pass[d].capture]
           Elsewhere(f, g) == \A c \in Binding, w \in Delivery : c # b \/ w # v => g[c][w] = f[c][w]
<1>0. TypeOK' /\ b \in Binding /\ v \in Delivery
  BY LedgerTypes DEF IInv
<1>t. TypeOK /\ Owned /\ AtMostOnce /\ LedgerTellsTruth
  BY DEF IInv
<1>k. /\ \A e \in Daemon : pc[e] \in Held => pass[e].binding \in Binding /\ DeliveryOf[pass[e].capture] \in Delivery
      /\ pc[d] \in Held /\ pass[d].capture \in Capture
  BY <1>t, BindingsAssumption DEF Owned, Held, RecordEvaluated, RecordDispatch, EnqueueBindingTask, SetDispatchTask
<1>p. pass' = pass /\ \A e \in Daemon \ {d} : pc'[e] = pc[e]
  BY <1>t DEF TypeOK, RecordEvaluated, RecordDispatch, EnqueueBindingTask, SetDispatchTask, Goto
<1>w. \A x \in Outcome : Written(d, x) => ledger'[b][v] = x /\ Elsewhere(ledger, ledger')
  <2>1. ledger \in [Binding -> [Delivery -> Outcome]]
    BY <1>t DEF TypeOK
  <2> QED BY <1>0, <2>1 DEF Written
<1>u. Started(d) => tasks'[b][v] = tasks[b][v] + 1 /\ Elsewhere(tasks, tasks')
  <2>1. tasks \in [Binding -> [Delivery -> Nat]]
    BY <1>t DEF TypeOK
  <2> QED BY SMTT(60), <1>0, <2>1 DEF Started
<1>s. ASSUME UNCHANGED <<ledger, tasks>>, pc'[d] = "offer" PROVE IInv'
  <2>1. AtMostOnce' /\ LedgerTellsTruth'
    BY <1>s, <1>t DEF AtMostOnce, LedgerTellsTruth
  <2>2. Owned'
    <3>1. ASSUME NEW e \in Daemon, pc'[e] \in {"enqueue", "record"}
          PROVE  e # d /\ pc'[e] = pc[e] /\ pass'[e] = pass[e]
      BY <1>s, <1>p, <3>1
    <3>2. /\ \A e \in Daemon : pc'[e] = "offer" => pass'[e].capture \in Capture
          /\ \A e \in Daemon : pc'[e] \in Held => pass'[e].capture \in Capture /\ pass'[e].binding \in Binding
      BY <1>0, <1>t, <1>k, <1>p DEF Owned
    <3>3. ASSUME NEW e \in Daemon
          PROVE  /\ pc'[e] = "enqueue" => Of(e, ledger)' = "claimed" /\ Of(e, tasks)' = 0
                 /\ pc'[e] = "record" => Of(e, ledger)' = "claimed" /\ Of(e, tasks)' = 1
      BY <1>s, <1>t, <3>1 DEF Owned, Of
    <3>4. ASSUME NEW e \in Daemon, NEW f \in Daemon, e # f, pc'[e] \in {"enqueue", "record"}, pc'[f] \in {"enqueue", "record"}
          PROVE  ~SameKey(e, f)'
      BY <1>t, <3>1, <3>4 DEF Owned, SameKey
    <3> QED BY <3>2, <3>3, <3>4 DEF Owned
  <2> QED BY <1>0, <2>1, <2>2 DEF IInv
<1>o. ASSUME Elsewhere(ledger, ledger'), Elsewhere(tasks, tasks'),
             \A e \in Daemon \ {d} : pc[e] \in {"enqueue", "record"} => ~SameKey(d, e),
             pc'[d] \in {"offer", "enqueue", "record"},
             pc'[d] = "enqueue" => ledger'[b][v] = "claimed" /\ tasks'[b][v] = 0,
             pc'[d] = "record" => ledger'[b][v] = "claimed" /\ tasks'[b][v] = 1
      PROVE  Owned'
  <2>1. ASSUME NEW e \in Daemon, e # d, pc[e] \in {"enqueue", "record"}
        PROVE  /\ ledger'[pass[e].binding][DeliveryOf[pass[e].capture]] = ledger[pass[e].binding][DeliveryOf[pass[e].capture]]
               /\ tasks'[pass[e].binding][DeliveryOf[pass[e].capture]] = tasks[pass[e].binding][DeliveryOf[pass[e].capture]]
    <3>1. /\ pass[e].binding \in Binding /\ DeliveryOf[pass[e].capture] \in Delivery
          /\ pass[e].binding # b \/ DeliveryOf[pass[e].capture] # v
      BY <1>o, <1>k, <2>1 DEF SameKey, Held
    <3> QED BY <1>o, <3>1
  <2>2. /\ \A e \in Daemon : pc'[e] = "offer" => pass'[e].capture \in Capture
        /\ \A e \in Daemon : pc'[e] \in Held => pass'[e].capture \in Capture /\ pass'[e].binding \in Binding
    BY <1>0, <1>t, <1>k, <1>p DEF Owned
  <2>3. ASSUME NEW e \in Daemon
        PROVE  /\ pc'[e] = "enqueue" => Of(e, ledger)' = "claimed" /\ Of(e, tasks)' = 0
               /\ pc'[e] = "record" => Of(e, ledger)' = "claimed" /\ Of(e, tasks)' = 1
    <3>1. CASE e = d
      BY <1>o, <1>p, <3>1 DEF Of
    <3>2. CASE e # d
      BY <1>t, <1>p, <2>1, <3>2 DEF Owned, Of
    <3> QED BY <3>1, <3>2
  <2>4. ASSUME NEW e \in Daemon, NEW f \in Daemon, e # f, pc'[e] \in {"enqueue", "record"}, pc'[f] \in {"enqueue", "record"}
        PROVE  ~SameKey(e, f)'
    <3>1. SameKey(e, f)' = SameKey(e, f)
      BY <1>p DEF SameKey
    <3>2. CASE e = d
      BY <1>o, <1>p, <2>4, <3>1, <3>2
    <3>3. CASE f = d
      BY <1>o, <1>p, <2>4, <3>1, <3>3 DEF SameKey
    <3>4. CASE e # d /\ f # d
      BY <1>t, <1>p, <2>4, <3>1, <3>4 DEF Owned
    <3> QED BY <3>2, <3>3, <3>4
  <2> QED BY <2>2, <2>3, <2>4 DEF Owned
<1>1. CASE RecordEvaluated(d)
  <2>1. pc'[d] = "offer" /\ tasks' = tasks
    BY <1>1, <1>t DEF RecordEvaluated, Goto, TypeOK
  <2>2. CASE Admits(d) /\ Written(d, "evaluated")
    <3>1. ledger[b][v] = "none" /\ ledger'[b][v] = "evaluated" /\ Elsewhere(ledger, ledger')
      BY <2>2, <1>w DEF Admits, Outcome
    <3>2. LedgerTellsTruth' /\ AtMostOnce'
      BY SMTT(60), <1>0, <1>t, <2>1, <3>1 DEF AtMostOnce, LedgerTellsTruth
    <3>3. \A e \in Daemon : pc[e] \in {"enqueue", "record"} => ~SameKey(d, e)
      BY <1>t, <3>1 DEF Owned, Of, SameKey
    <3>4. Owned'
      BY <1>o, <2>1, <3>1, <3>3
    <3> QED BY <1>0, <3>2, <3>4 DEF IInv
  <2> QED BY <1>1, <1>s, <2>1, <2>2 DEF RecordEvaluated
<1>2. CASE RecordDispatch(d)
  <2>1. tasks' = tasks /\ pc'[d] \in {"offer", "enqueue"}
    BY <1>2, <1>t DEF RecordDispatch, Goto, TypeOK
  <2>2. CASE ledger' = ledger
    <3>1. CASE pc'[d] = "offer"
      BY <1>s, <2>1, <2>2, <3>1
    <3>2. CASE Admits(d) /\ Written(d, "claimed")
      BY <1>w, <2>2, <3>2 DEF Admits, Outcome
    <3> QED BY <1>2, <1>t, <3>1, <3>2 DEF RecordDispatch, Goto, TypeOK
  <2>3. CASE Admits(d) /\ Written(d, "claimed")
    <3>1. ledger[b][v] = "none" /\ ledger'[b][v] = "claimed" /\ Elsewhere(ledger, ledger')
      BY <2>3, <1>w DEF Admits, Outcome
    <3>2. tasks[b][v] = 0
      BY <1>0, <1>t, <3>1 DEF LedgerTellsTruth
    <3>3. LedgerTellsTruth' /\ AtMostOnce'
      BY SMTT(60), <1>0, <1>t, <2>1, <3>1, <3>2 DEF AtMostOnce, LedgerTellsTruth
    <3>4. \A e \in Daemon : pc[e] \in {"enqueue", "record"} => ~SameKey(d, e)
      BY <1>t, <3>1 DEF Owned, Of, SameKey
    <3>5. Owned'
      BY <1>o, <2>1, <3>1, <3>2, <3>4
    <3> QED BY <1>0, <3>3, <3>5 DEF IInv
  <2> QED BY <1>2, <2>2, <2>3 DEF RecordDispatch
<1>3. CASE EnqueueBindingTask(d)
  <2>1. ledger' = ledger /\ ledger[b][v] = "claimed" /\ tasks[b][v] = 0 /\ pc[d] = "enqueue"
    BY <1>3, <1>t DEF EnqueueBindingTask, Owned, Of
  <2>2. CASE Started(d)
    <3>1. tasks'[b][v] = 1 /\ Elsewhere(tasks, tasks')
      BY SMTT(60), <1>u, <2>1, <2>2
    <3>2. pc'[d] \in {"offer", "record"}
      BY <1>3, <1>t DEF EnqueueBindingTask, Goto, EnqueueFailed, TypeOK
    <3>3. LedgerTellsTruth' /\ AtMostOnce'
      BY <1>0, <1>t, <2>1, <3>1 DEF AtMostOnce, LedgerTellsTruth
    <3>4. \A e \in Daemon \ {d} : pc[e] \in {"enqueue", "record"} => ~SameKey(d, e)
      BY <1>t, <2>1 DEF Owned
    <3>5. Owned'
      BY <1>o, <2>1, <3>1, <3>2, <3>4
    <3> QED BY <1>0, <3>3, <3>5 DEF IInv
  <2>3. CASE tasks' = tasks /\ Goto(d, EnqueueFailed(d))
    <3>1. pc'[d] = "offer"
      BY <1>t, <2>3 DEF Goto, EnqueueFailed, TypeOK
    <3> QED BY <1>s, <2>1, <2>3, <3>1
  <2> QED BY <1>3, <2>2, <2>3 DEF EnqueueBindingTask
<1>4. CASE SetDispatchTask(d)
  <2>1. /\ tasks' = tasks /\ pc'[d] = "offer" /\ pc[d] = "record"
        /\ ledger[b][v] = "claimed" /\ tasks[b][v] = 1
    BY <1>4, <1>t DEF SetDispatchTask, Goto, Owned, Of, TypeOK
  <2>2. CASE Written(d, "started")
    <3>1. ledger'[b][v] = "started" /\ Elsewhere(ledger, ledger')
      BY <2>2, <1>w DEF Outcome
    <3>2. LedgerTellsTruth' /\ AtMostOnce'
      BY SMTT(60), <1>0, <1>t, <2>1, <3>1 DEF AtMostOnce, LedgerTellsTruth
    <3>3. \A e \in Daemon \ {d} : pc[e] \in {"enqueue", "record"} => ~SameKey(d, e)
      BY <1>t, <2>1 DEF Owned
    <3>4. Owned'
      BY <1>o, <2>1, <3>1, <3>3
    <3> QED BY <1>0, <3>2, <3>4 DEF IInv
  <2> QED BY <1>4, <1>s, <2>1, <2>2 DEF SetDispatchTask
<1> QED BY <1>1, <1>2, <1>3, <1>4

\* The invariant is inductive, for every number of daemons, bindings,
\* deliveries, captures, faults and crashes.
THEOREM Inductive == Spec => []IInv
<1>1. IInv /\ [Next]_vars => IInv'
  <2> SUFFICES ASSUME IInv, [Next]_vars PROVE IInv'
    OBVIOUS
  <2>1. CASE InsertCapture \/ Operate
    BY <2>1, OperateOwned
  <2>2. ASSUME NEW d \in Daemon, dispatchBindings(d) \/ Crash(d) PROVE IInv'
    BY <2>2, PassOwned, LedgerOwned DEF dispatchBindings
  <2>3. CASE UNCHANGED vars
    <3>1. TypeOK'
      BY <2>3 DEF vars, stored, operated, IInv, TypeOK
    <3>2. UNCHANGED <<pc, pass, ledger, tasks>>
      BY <2>3 DEF vars, stored, operated
    <3>3. Owned'
      BY <3>2 DEF IInv, Owned, Of, SameKey
    <3>4. AtMostOnce' /\ LedgerTellsTruth'
      BY <3>2 DEF IInv, AtMostOnce, LedgerTellsTruth
    <3> QED BY <3>1, <3>3, <3>4 DEF IInv
  <2> QED BY <2>1, <2>2, <2>3 DEF Next
<1> QED BY InitInv, <1>1, PTL DEF Spec

\* claimAndEnqueue's promise: each binding fires at most once per delivery.
THEOREM FiresOnce == Spec => []AtMostOnce
<1>1. IInv => AtMostOnce
  BY DEF IInv
<1> QED BY Inductive, <1>1, PTL

\* The dispatch ledger an operator reads agrees with the tasks that exist.
THEOREM LedgerHolds == Spec => []LedgerTellsTruth
<1>1. IInv => LedgerTellsTruth
  BY DEF IInv
<1> QED BY Inductive, <1>1, PTL

\* A step arms a binding only in ApproveBinding's write, never in a pause, a
\* resume or an edit.
LEMMA OnlyApprovalArms ==
    ASSUME TypeOK, [Next]_vars, NEW b \in Binding, status'[b] = "armed", status[b] # "armed"
    PROVE  \E a \in Approver : SetBindingArmed(a) /\ approval[a] = b
<1>1. ASSUME NEW a \in Approver, SetBindingArmed(a) PROVE approval[a] = b
  BY <1>1 DEF SetBindingArmed, TypeOK
<1>2. ASSUME NEW c \in Binding, transitionBinding(c) PROVE FALSE
  BY <1>2 DEF transitionBinding, TransitionTo, TypeOK
<1>3. ASSUME NEW c \in Binding, UpdateBinding(c) \/ DeleteBinding(c) \/ ChangeMapping(c) \/ SetEnabled(c) PROVE FALSE
  BY <1>3 DEF UpdateBinding, DeleteBinding, ChangeMapping, SetEnabled, TypeOK
<1>4. ASSUME NEW a \in Approver, NEW c \in Binding, ReadForApproval(a, c) PROVE FALSE
  BY <1>4 DEF ReadForApproval
<1>5. ~InsertCapture
  BY DEF InsertCapture, operated
<1>6. ASSUME NEW d \in Daemon, dispatchBindings(d) \/ Crash(d) PROVE FALSE
  BY <1>6 DEF dispatchBindings, Crash, ListUndispatchedCaptures, EndPass, EndCapture, ArmedBindingsForSource, Offer,
              RecordEvaluated, RecordDispatch, EnqueueBindingTask, SetDispatchTask, operated
<1>7. ~UNCHANGED vars
  BY DEF vars
<1> QED BY <1>1, <1>2, <1>3, <1>4, <1>5, <1>6, <1>7 DEF Next, Operate

\* With one approver at a time, the binding it has read still waits for its
\* approval when SetBindingArmed is written.
Pending == \A a \in Approver : approval[a] # None => status[approval[a]] \in {"pending_approval", "deleted"}

\* With one approver at a time, a paused binding is approved before it fires
\* again; ApproveBinding's unguarded write breaks it only for two.
THEOREM SoleApprover == ASSUME NEW x, Approver = {x} PROVE Spec => PausedNeedsApproval
<1>1. Init => Pending
  BY DEF Init, Pending
<1>2. TypeOK /\ Pending /\ [Next]_vars => Pending'
  <2> SUFFICES ASSUME TypeOK, Pending, [Next]_vars PROVE Pending'
    OBVIOUS
  <2>1. ASSUME NEW a \in Approver, SetBindingArmed(a) PROVE Pending'
    BY <2>1 DEF SetBindingArmed, Pending, TypeOK
  <2>2. ASSUME NEW a \in Approver, NEW b \in Binding, ReadForApproval(a, b) PROVE Pending'
    BY <2>2 DEF ReadForApproval, Approvable, Pending, TypeOK
  <2>3. ASSUME NEW b \in Binding, transitionBinding(b) PROVE Pending'
    BY <2>3 DEF transitionBinding, TransitionTo, Pending, TypeOK
  <2>4. ASSUME NEW b \in Binding, UpdateBinding(b) \/ DeleteBinding(b) PROVE Pending'
    BY <2>4 DEF UpdateBinding, DeleteBinding, Pending, TypeOK
  <2>5. CASE UNCHANGED <<status, approval>>
    BY <2>5 DEF Pending
  <2>6. ASSUME NEW b \in Binding, ChangeMapping(b) \/ SetEnabled(b) PROVE Pending'
    BY <2>5, <2>6 DEF ChangeMapping, SetEnabled
  <2>7. CASE InsertCapture
    BY <2>5, <2>7 DEF InsertCapture, operated
  <2>8. ASSUME NEW d \in Daemon, dispatchBindings(d) \/ Crash(d) PROVE Pending'
    BY <2>5, <2>8 DEF dispatchBindings, Crash, ListUndispatchedCaptures, EndPass, EndCapture, ArmedBindingsForSource, Offer,
                RecordEvaluated, RecordDispatch, EnqueueBindingTask, SetDispatchTask, operated
  <2>9. CASE UNCHANGED vars
    BY <2>5, <2>9 DEF vars
  <2> QED BY <2>1, <2>2, <2>3, <2>4, <2>6, <2>7, <2>8, <2>9 DEF Next, Operate
<1>3. TypeOK /\ Pending /\ [Next]_vars => [\A b \in Binding : status[b] = "paused" => status'[b] # "armed"]_vars
  <2> SUFFICES ASSUME TypeOK, Pending, [Next]_vars, NEW b \in Binding, status[b] = "paused", status'[b] = "armed" PROVE FALSE
    OBVIOUS
  <2>1. PICK a \in Approver : SetBindingArmed(a) /\ approval[a] = b
    BY OnlyApprovalArms
  <2> QED BY <2>1 DEF SetBindingArmed, Pending
<1>4. IInv => TypeOK
  BY DEF IInv
<1> QED BY Inductive, <1>1, <1>2, <1>3, <1>4, PTL DEF Spec, PausedNeedsApproval
=============================================================================
