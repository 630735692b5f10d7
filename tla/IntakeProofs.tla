---------------------------- MODULE IntakeProofs ----------------------------
(***************************************************************************)
(* Intake, for any identities, issues, rules, messages, deliveries, faults *)
(* and changes: a row has one run at a time; work declined stays declined, *)
(* and was withdrawn on the forge; an issue whose webhook was accepted is  *)
(* a task or a message.                                                    *)
(***************************************************************************)
EXTENDS Intake, FiniteSetTheorems, TLAPS

USE SMTT(20), ZenonT(20)

\* What the stream holds of one message.
Entry == [key : Key, n : 0 .. MaxDeliver, out : BOOLEAN]
Pass == [pc : {"idle", "listed", "withdrawing", "publishing"}, rule : Rule,
         found : SUBSET Issue, todo : SUBSET Issue, at : SUBSET Issue, drop : SUBSET Key]

\* No two runs have the same row, and the row of a run was claimed.
OneRunEach ==
    /\ \A v, w \in work : v.pc = "processing" /\ w.pc = "processing" /\ v.key = w.key => v = w
    /\ \A w \in work : w.pc = "processing" => row[w.key] \notin {"none", "queued"}

\* Only the fallback's runs have no message.
MessagesAreHandled == \A w \in work : w.msg = NoMsg => w.pc = "processing"

\* A running row has a run.
RunningIsRun == \A k \in Key : row[k] = "running" => \E w \in work : w.pc = "processing" /\ w.key = k

\* What the poll loops remember was selected by the rule it was listed with, or
\* has been withdrawn since; and so was what they are about to decline.
Selected(i, r, n) == <<i, n>> \in eligible[r] \cup withdrawn
PassesAreRight ==
    \A i \in Identity :
        /\ last[i] # Unseen => \A n \in last[i].eligible : Selected(i, last[i].rule, n)
        /\ poll[i].pc = "listed" =>
              /\ \A n \in poll[i].found : Selected(i, poll[i].rule, n)
              /\ last[i] # Unseen /\ last[i].rule = poll[i].rule =>
                    \A n \in last[i].eligible \ poll[i].found : <<i, n>> \in withdrawn
        /\ poll[i].pc = "withdrawing" => poll[i].drop \subseteq withdrawn
WithdrawInv ==
    /\ PassesAreRight
    /\ \A e \in hooks : ~e.on => e.key \in withdrawn
    /\ DeclinedWasWithdrawn

\* Where runs are admitted within AckWait a message has one handler at most,
\* while it is out, and every delivery before this one cost a fault.
Handled(m) == \E w \in work : w.msg = m
HandlersHold ==
    /\ \A w \in work : w.msg # NoMsg =>
          /\ stream[w.msg] # NoMsg /\ stream[w.msg].out
          /\ w.pc = "submitted" => stream[w.msg].key = w.key
          /\ w.pc # "submitted" => row[stream[w.msg].key] # "none"
    /\ \A v, w \in work : v.msg # NoMsg /\ v.msg = w.msg => v = w
    /\ \A m \in Msg : stream[m] # NoMsg => stream[m].n <= faults + (IF Handled(m) THEN 1 ELSE 0)

\* A key that was published is a row or is in the stream.
Kept(k) == row[k] # "none" \/ \E m \in Msg : stream[m] # NoMsg /\ stream[m].key = k
-----------------------------------------------------------------------------
(***************************************************************************)
(* Types                                                                   *)
(***************************************************************************)

\* A key is an identity and an issue.
LEMMA KeyPairs ==
    /\ \A k \in Key : k[1] \in Identity /\ k[2] \in Issue /\ k = <<k[1], k[2]>>
    /\ \A i \in Identity, n \in Issue : <<i, n>> \in Key
BY DEF Key

\* Acknowledging, refusing and publishing leave a stream.
LEMMA StreamTypes ==
    ASSUME TypeOK
    PROVE  /\ \A m \in Msg \cup {NoMsg} : Ack(m) \in [Msg -> {NoMsg} \cup Entry]
           /\ \A m \in Msg : Nak(m) \in [Msg -> {NoMsg} \cup Entry]
<1>1. stream \in [Msg -> {NoMsg} \cup Entry]
  BY Zenon DEF TypeOK, Entry
<1>2. ASSUME NEW m \in Msg PROVE Nak(m) \in [Msg -> {NoMsg} \cup Entry]
  <2>1. CASE stream[m] = NoMsg
    BY <1>1, <2>1, Zenon DEF Nak
  <2>2. CASE stream[m] # NoMsg
    <3>1. stream[m] \in Entry
      BY <1>1, <2>2, Zenon
    <3>2. [stream[m] EXCEPT !.out = FALSE] \in Entry
      BY <3>1, Zenon DEF Entry
    <3>3. Nak(m) = [stream EXCEPT ![m] = [stream[m] EXCEPT !.out = FALSE]]
      BY <1>1, <2>2, Zenon DEF Nak
    <3>. QED  BY <1>1, <3>2, <3>3, Zenon
  <2>. QED  BY <2>1, <2>2, Zenon
<1>. QED  BY <1>1, <1>2, Zenon DEF Ack

\* PublishUnique stores at most one new, undelivered message.
LEMMA PublishTypes ==
    ASSUME TypeOK, NEW k \in Key, NEW reply, PublishUnique(k, reply)
    PROVE  stream' \in [Msg -> {NoMsg} \cup Entry] /\ window' \subseteq Key
<1>1. stream \in [Msg -> {NoMsg} \cup Entry] /\ window \subseteq Key
  BY Zenon DEF TypeOK, Entry
<1>2. CASE UNCHANGED bus
  BY <1>1, <1>2, Zenon DEF bus
<1>3. ASSUME NEW m \in Msg, window' = window \cup {k},
             stream' = [stream EXCEPT ![m] = [key |-> k, n |-> 0, out |-> FALSE]]
      PROVE  stream' \in [Msg -> {NoMsg} \cup Entry] /\ window' \subseteq Key
  <2>1. [key |-> k, n |-> 0, out |-> FALSE] \in Entry
    BY IntakeAssumption DEF Entry
  <2>. QED  BY <1>1, <1>3, <2>1, Zenon
<1>. QED  BY <1>2, <1>3, Zenon DEF PublishUnique

\* A store call leaves a table.
LEMMA RowTypes ==
    ASSUME TypeOK
    PROVE  /\ \A k \in Key : EnqueueIssue(k) \in [Key -> RowStatus] /\ Withdraw(k) \in [Key -> RowStatus]
           /\ \A ks : Started(ks) \in [Key -> RowStatus]
BY Zenon DEF TypeOK, EnqueueIssue, Withdraw, Started, RowStatus

\* A pass is one of the poll loop's.
LEMMA PassTypes ==
    ASSUME TypeOK
    PROVE  /\ Idle \in Pass
           /\ Idle.pc = "idle"
           /\ \A todo \in SUBSET Issue : Publishing(todo) \in Pass /\ Publishing(todo).pc \in {"idle", "publishing"}
           /\ \A found \in SUBSET Issue :
                 LET p == [Idle EXCEPT !.pc = "listed", !.rule = rule, !.found = found]
                 IN  p \in Pass /\ p.pc = "listed" /\ p.rule = rule /\ p.found = found
           /\ \A p \in Pass, drop \in SUBSET Key :
                 LET u == [p EXCEPT !.pc = "withdrawing", !.drop = drop]
                 IN  u \in Pass /\ u.pc = "withdrawing" /\ u.drop = drop
<1> DEFINE r0 == CHOOSE r \in Rule : TRUE
<1>1. r0 \in Rule
  BY Zenon DEF TypeOK
<1>2. Idle = [pc |-> "idle", rule |-> r0, found |-> {}, todo |-> {}, at |-> {}, drop |-> {}]
  BY Zenon DEF Idle
<1> HIDE DEF r0
<1>3. Idle \in Pass
  BY <1>1, <1>2, Zenon DEF Pass
<1>4. ASSUME NEW todo \in SUBSET Issue 
      PROVE  /\ [Idle EXCEPT !.pc = "publishing", !.todo = todo] \in Pass
             /\ [Idle EXCEPT !.pc = "publishing", !.todo = todo].pc = "publishing"
  <2>1. PICK q : q = [Idle EXCEPT !.pc = "publishing"]
    BY Zenon
  <2>2. q = [pc |-> "publishing", rule |-> r0, found |-> {}, todo |-> {}, at |-> {}, drop |-> {}]
    BY <1>2, <2>1, Zenon
  <2>3. [q EXCEPT !.todo = todo]
           = [pc |-> "publishing", rule |-> r0, found |-> {}, todo |-> todo, at |-> {}, drop |-> {}]
    BY <2>2
  <2>4. [q EXCEPT !.todo = todo] \in Pass /\ [q EXCEPT !.todo = todo].pc = "publishing"
    BY <1>1, <2>3, Zenon DEF Pass
  <2>. QED  BY <2>1, <2>4, Zenon
<1>5. ASSUME NEW found \in SUBSET Issue
      PROVE  LET p == [Idle EXCEPT !.pc = "listed", !.rule = rule, !.found = found]
             IN  p \in Pass /\ p.pc = "listed" /\ p.rule = rule /\ p.found = found
  <2> DEFINE p == [Idle EXCEPT !.pc = "listed", !.rule = rule, !.found = found]
  <2>0. PICK q : q = [Idle EXCEPT !.pc = "listed"]
    BY Zenon
  <2>a. PICK u : u = [q EXCEPT !.rule = rule]
    BY Zenon
  <2>b. q = [pc |-> "listed", rule |-> r0, found |-> {}, todo |-> {}, at |-> {}, drop |-> {}]
    BY <1>2, <2>0, Zenon
  <2>c. u = [pc |-> "listed", rule |-> rule, found |-> {}, todo |-> {}, at |-> {}, drop |-> {}]
    BY <2>a, <2>b, Zenon
  <2>d. [u EXCEPT !.found = found] = [pc |-> "listed", rule |-> rule, found |-> found, todo |-> {}, at |-> {}, drop |-> {}]
    BY <2>c
  <2>1. p = [pc |-> "listed", rule |-> rule, found |-> found, todo |-> {}, at |-> {}, drop |-> {}]
    BY <2>0, <2>a, <2>d, Zenon
  <2> HIDE DEF p
  <2>2. rule \in Rule
    BY Zenon DEF TypeOK
  <2>3. p \in Pass /\ p.pc = "listed" /\ p.rule = rule /\ p.found = found
    BY <2>1, <2>2, Zenon DEF Pass
  <2>. QED  BY <2>3, Zenon DEF p
<1>6. ASSUME NEW p \in Pass, NEW drop \in SUBSET Key 
      PROVE  LET u == [p EXCEPT !.pc = "withdrawing", !.drop = drop]
             IN  u \in Pass /\ u.pc = "withdrawing" /\ u.drop = drop
  <2>1. p = [pc |-> p.pc, rule |-> p.rule, found |-> p.found, todo |-> p.todo, at |-> p.at, drop |-> p.drop]
    BY Zenon DEF Pass
  <2>2. [p EXCEPT !.pc = "withdrawing", !.drop = drop]
           = [pc |-> "withdrawing", rule |-> p.rule, found |-> p.found, todo |-> p.todo, at |-> p.at, drop |-> drop]
    <3>1. PICK q : q = [p EXCEPT !.pc = "withdrawing"]
      BY Zenon
    <3>2. q = [pc |-> "withdrawing", rule |-> p.rule, found |-> p.found, todo |-> p.todo, at |-> p.at, drop |-> p.drop]
      BY <2>1, <3>1, Zenon
    <3>3. [q EXCEPT !.drop = drop]
             = [pc |-> "withdrawing", rule |-> p.rule, found |-> p.found, todo |-> p.todo, at |-> p.at, drop |-> drop]
      BY <3>2
    <3>. QED  BY <3>1, <3>3, Zenon
  <2>3. PICK u : u = [p EXCEPT !.pc = "withdrawing", !.drop = drop]
    BY Zenon
  <2>4. u \in Pass /\ u.pc = "withdrawing" /\ u.drop = drop
    BY <2>2, <2>3, Zenon DEF Pass
  <2>. QED  BY <2>3, <2>4, Zenon
<1>7. ASSUME NEW todo \in SUBSET Issue PROVE Publishing(todo) \in Pass /\ Publishing(todo).pc \in {"idle", "publishing"}
  BY <1>2, <1>3, <1>4, Zenon DEF Publishing
<1>8. Idle.pc = "idle"
  BY <1>2, Zenon
<1>. QED  BY <1>3, <1>5, <1>6, <1>7, <1>8, Zenon

\* A failed call is counted.
LEMMA ReplyTypes == ASSUME TypeOK, NEW r, Reply(r) PROVE faults' \in 0 .. MaxFaults /\ faults <= faults'
BY IntakeAssumption DEF TypeOK, Reply

\* The handler's moves leave works.
LEMMA WorkTypes ==
    ASSUME NEW w \in Work
    PROVE  /\ [w EXCEPT !.pc = "inserted"] \in Work /\ [w EXCEPT !.pc = "inserted"].pc = "inserted"
           /\ [w EXCEPT !.pc = "inserted"].msg = w.msg /\ [w EXCEPT !.pc = "inserted"].key = w.key
           /\ \A k \in Key : LET u == [w EXCEPT !.pc = "processing", !.key = k]
                             IN  u \in Work /\ u.pc = "processing" /\ u.key = k /\ u.msg = w.msg
<1>1. w = [msg |-> w.msg, n |-> w.n, pc |-> w.pc, key |-> w.key] /\ w.msg \in Msg \cup {NoMsg} /\ w.n \in Nat
  BY Zenon DEF Work
<1>2. ASSUME NEW k \in Key
      PROVE  LET u == [w EXCEPT !.pc = "processing", !.key = k]
             IN  u \in Work /\ u.pc = "processing" /\ u.key = k /\ u.msg = w.msg
  <2>1. PICK q : q = [w EXCEPT !.pc = "processing"]
    BY Zenon
  <2>2. q = [msg |-> w.msg, n |-> w.n, pc |-> "processing", key |-> w.key]
    BY <1>1, <2>1, Zenon
  <2>3. PICK u : u = [q EXCEPT !.key = k]
    BY Zenon
  <2>4. u = [msg |-> w.msg, n |-> w.n, pc |-> "processing", key |-> k]
    BY <2>2, <2>3, Zenon
  <2>5. u \in Work /\ u.pc = "processing" /\ u.key = k /\ u.msg = w.msg
    BY <1>1, <2>4, Zenon DEF Work
  <2>6. u = [w EXCEPT !.pc = "processing", !.key = k]
    BY <2>1, <2>3, Zenon
  <2>. QED  BY <2>5, <2>6, Zenon
<1>3. [w EXCEPT !.pc = "inserted"] = [msg |-> w.msg, n |-> w.n, pc |-> "inserted", key |-> w.key]
  BY <1>1
<1>4. /\ [w EXCEPT !.pc = "inserted"] \in Work /\ [w EXCEPT !.pc = "inserted"].pc = "inserted"
      /\ [w EXCEPT !.pc = "inserted"].msg = w.msg /\ [w EXCEPT !.pc = "inserted"].key = w.key
  BY <1>1, <1>3, Zenon DEF Work
<1>. QED  BY <1>2, <1>4, Zenon

\* The runs survive when none starts and no row goes back to be claimed.
LEMMA RunsStay ==
    ASSUME OneRunEach, \A w \in work' : w.pc = "processing" => w \in work,
           \A w \in work : w.pc = "processing" => row'[w.key] = row[w.key] \/ row'[w.key] \notin {"none", "queued"}
    PROVE  OneRunEach'
BY Zenon DEF OneRunEach

BaseInv == TypeOK /\ OneRunEach /\ MessagesAreHandled

\* Intake starts empty.
LEMMA BaseInit == Init => BaseInv
<1> SUFFICES ASSUME Init PROVE BaseInv
  BY Zenon
<1> DEFINE r0 == CHOOSE r \in Rule : TRUE
<1>1. r0 \in Rule
  BY Zenon DEF Init
<1>2. Idle = [pc |-> "idle", rule |-> r0, found |-> {}, todo |-> {}, at |-> {}, drop |-> {}]
  BY Zenon DEF Idle
<1> HIDE DEF r0
<1>3. poll \in [Identity -> [pc : {"idle", "listed", "withdrawing", "publishing"}, rule : Rule,
                              found : SUBSET Issue, todo : SUBSET Issue, at : SUBSET Issue, drop : SUBSET Key]]
  BY <1>1, <1>2, Zenon DEF Init
<1>4. TypeOK
  BY <1>3, IntakeAssumption DEF Init, TypeOK, RowStatus
<1>. QED  BY <1>4, Zenon DEF Init, BaseInv, OneRunEach, MessagesAreHandled

\* A webhook on its way is about a key.
LEMMA HookTypes ==
    ASSUME TypeOK, NEW k \in Key, NEW on \in BOOLEAN, Hook(k, on) PROVE hooks' \subseteq [key : Key, on : BOOLEAN]
BY DEF TypeOK, Hook

\* What people change.
LEMMA PeopleEffects ==
    ASSUME TypeOK, \/ \E r \in Rule, k \in Key : Assign(r, k) \/ Withdrawal(r, k)
                   \/ \E r \in Rule : Reload(r)
                   \/ \E i \in Identity : SetLifecycle(i)
    PROVE  /\ UNCHANGED <<setup, row, stream, window, work, poll, last, accepted, faults>>
           /\ TypeOK'
<1> DEFINE Same == UNCHANGED <<setup, row, stream, window, work, poll, last, accepted, faults>>
           Rest == /\ Same /\ eligible' \in [Rule -> SUBSET Key] /\ rule' \in Rule /\ may' \subseteq Identity
                   /\ hooks' \subseteq [key : Key, on : BOOLEAN] /\ withdrawn' \subseteq Key /\ noticed' \subseteq Key
                   /\ changes' \in 0 .. MaxChanges
<1>0. Change => changes' \in 0 .. MaxChanges
  BY IntakeAssumption DEF Change, TypeOK
<1>1. ASSUME NEW r \in Rule, NEW k \in Key, Assign(r, k) PROVE Rest
  <2>1. Same /\ Change /\ Hook(k, TRUE) /\ rule' = rule /\ may' = may /\ withdrawn' = withdrawn /\ noticed' = noticed \ {k}
    BY <1>1, Zenon DEF Assign, bus
  <2>2. eligible' \in [Rule -> SUBSET Key]
    BY <1>1, Zenon DEF Assign, TypeOK
  <2>. QED  BY <1>0, <2>1, <2>2, HookTypes, Zenon DEF TypeOK
<1>2. ASSUME NEW r \in Rule, NEW k \in Key, Withdrawal(r, k) PROVE Rest
  <2>1. Same /\ Change /\ Hook(k, FALSE) /\ rule' = rule /\ may' = may /\ withdrawn' = withdrawn \cup {k} /\ noticed' = noticed
    BY <1>2, Zenon DEF Withdrawal, bus, loops
  <2>2. eligible' \in [Rule -> SUBSET Key]
    BY <1>2, Zenon DEF Withdrawal, TypeOK
  <2>. QED  BY <1>0, <2>1, <2>2, HookTypes, Zenon DEF TypeOK
<1>3. ASSUME NEW r \in Rule, Reload(r) PROVE Rest
  BY <1>0, <1>3, Zenon DEF Reload, bus, loops, web, TypeOK
<1>4. ASSUME NEW i \in Identity, SetLifecycle(i) PROVE Rest
  BY <1>0, <1>4, Zenon DEF SetLifecycle, bus, loops, web, TypeOK
<1>5. Rest
  BY <1>1, <1>2, <1>3, <1>4, Zenon
<1>. QED  BY <1>5, Zenon DEF TypeOK

\* What people do on the forge or in the configuration starts no run.
LEMMA PeopleBase ==
    ASSUME BaseInv, \/ \E r \in Rule, k \in Key : Assign(r, k) \/ Withdrawal(r, k)
                    \/ \E r \in Rule : Reload(r)
                    \/ \E i \in Identity : SetLifecycle(i)
    PROVE  BaseInv'
<1>1. TypeOK' /\ row' = row /\ work' = work
  BY PeopleEffects, Zenon DEF BaseInv
<1>. QED  BY <1>1, Zenon DEF BaseInv, OneRunEach, MessagesAreHandled

\* The types survive a step that leaves the forge and its history alone, and
\* keeps the table, the stream, the works and the passes what they are.
LEMMA StepTypes ==
    ASSUME TypeOK, UNCHANGED forge, hooks' \subseteq hooks, accepted' \subseteq Key,
           row' \in [Key -> RowStatus], stream' \in [Msg -> {NoMsg} \cup Entry], window' \subseteq Key,
           work' \subseteq Work, poll' \in [Identity -> Pass],
           last' \in [Identity -> {Unseen} \cup [rule : Rule, eligible : SUBSET Issue]],
           noticed' \subseteq Key, faults' \in 0 .. MaxFaults
    PROVE  TypeOK'
BY Zenon DEF TypeOK, forge, Entry, Pass

\* The types by name.
LEMMA TypeFacts ==
    ASSUME TypeOK
    PROVE  /\ stream \in [Msg -> {NoMsg} \cup Entry] /\ poll \in [Identity -> Pass]
           /\ row \in [Key -> RowStatus] /\ window \subseteq Key /\ work \subseteq Work
           /\ last \in [Identity -> {Unseen} \cup [rule : Rule, eligible : SUBSET Issue]]
           /\ noticed \subseteq Key /\ accepted \subseteq Key /\ faults \in 0 .. MaxFaults
           /\ hooks \subseteq [key : Key, on : BOOLEAN] /\ rule \in Rule
BY Zenon DEF TypeOK, Entry, Pass

\* A message in the stream, and the count of faults, before and after a step.
LEMMA EntryFacts ==
    ASSUME TypeOK
    PROVE  /\ faults \in Nat
           /\ \A m \in Msg : stream[m] # NoMsg =>
                 stream[m] \in Entry /\ stream[m].key \in Key /\ stream[m].n \in Nat
<1>1. faults \in 0 .. MaxFaults /\ stream \in [Msg -> {NoMsg} \cup Entry]
  BY TypeFacts, Zenon
<1>. QED  BY <1>1 DEF Entry

\* The same after the step.
LEMMA EntryFactsNext ==
    ASSUME TypeOK'
    PROVE  /\ faults' \in Nat
           /\ \A m \in Msg : stream'[m] # NoMsg => stream'[m].n \in Nat
<1>1. faults' \in 0 .. MaxFaults /\ stream' \in [Msg -> {NoMsg} \cup Entry]
  BY Zenon DEF TypeOK, Entry
<1>. QED  BY <1>1 DEF Entry

\* A loop's next pass.
LEMMA LoopTypes ==
    ASSUME TypeOK, NEW i \in Identity, NEW p \in Pass, Loop(i, p)
    PROVE  /\ poll' \in [Identity -> Pass] /\ poll'[i] = p
           /\ \A j \in Identity : j # i => poll'[j] = poll[j]
BY TypeFacts, Zenon DEF Loop

\* The steps of a poll loop: what they leave alone, and the pass they leave.
LEMMA ListEffects ==
    ASSUME TypeOK, NEW i \in Identity, ListIssues(i)
    PROVE  /\ UNCHANGED <<row, work, stream, window, last, noticed>> /\ UNCHANGED forge /\ UNCHANGED web
           /\ TypeOK'
<1> PICK found \in SUBSET Issue, r \in {"ok", "fail"} :
        /\ Reply(r)
        /\ Loop(i, IF r = "ok" THEN [Idle EXCEPT !.pc = "listed", !.rule = rule, !.found = found] ELSE Publishing(found))
  BY Zenon DEF ListIssues
<1>1. UNCHANGED <<row, work, stream, window, last, noticed>> /\ UNCHANGED forge /\ UNCHANGED web
  BY Zenon DEF ListIssues, bus
<1>2. (IF r = "ok" THEN [Idle EXCEPT !.pc = "listed", !.rule = rule, !.found = found] ELSE Publishing(found)) \in Pass
  BY PassTypes, Zenon
<1>3. poll' \in [Identity -> Pass] /\ faults' \in 0 .. MaxFaults
  BY <1>2, LoopTypes, ReplyTypes, Zenon
<1>4. TypeOK'
  BY <1>1, <1>3, TypeFacts, StepTypes, Zenon DEF web
<1>. QED  BY <1>1, <1>4, Zenon

\* withdrawUnpolled: the keys no longer listed are set aside to be withdrawn.
LEMMA UnpolledEffects ==
    ASSUME TypeOK, NEW i \in Identity, WithdrawUnpolled(i)
    PROVE  /\ UNCHANGED <<row, work, stream, window>> /\ UNCHANGED forge /\ UNCHANGED web
           /\ TypeOK'
<1> DEFINE gone == IF last[i] = Unseen \/ last[i].rule # PassRule(i) THEN {} ELSE last[i].eligible \ poll[i].found
<1>1. PICK r \in {"ok", "fail"} :
        LET drop == IF r = "ok" THEN Withdrawn(i, PassRule(i)) ELSE {}
        IN /\ Reply(r)
           /\ Loop(i, IF drop = {} THEN Publishing(poll[i].found)
                      ELSE [poll[i] EXCEPT !.pc = "withdrawing", !.drop = drop])
           /\ noticed' = IF r = "fail" THEN noticed ELSE noticed \cup {k \in {i} \X gone : k \notin eligible[rule]}
  BY Zenon DEF WithdrawUnpolled
<1>2. UNCHANGED <<row, work, stream, window>> /\ UNCHANGED forge /\ UNCHANGED web
  BY Zenon DEF WithdrawUnpolled, bus
<1>3. poll[i] \in Pass /\ poll[i].found \in SUBSET Issue /\ poll[i].rule \in Rule
  BY TypeFacts, Zenon DEF Pass
<1>4. Withdrawn(i, PassRule(i)) \in SUBSET Key
  BY Zenon DEF Withdrawn
<1>5. poll' \in [Identity -> Pass]
  <2> DEFINE drop == IF r = "ok" THEN Withdrawn(i, PassRule(i)) ELSE {}
             p == IF drop = {} THEN Publishing(poll[i].found) ELSE [poll[i] EXCEPT !.pc = "withdrawing", !.drop = drop]
  <2>1. drop \in SUBSET Key
    BY <1>4, Zenon
  <2>2. p \in Pass
    BY <1>3, <2>1, PassTypes, Zenon
  <2>3. Loop(i, p)
    BY <1>1, Zenon
  <2> HIDE DEF p
  <2>. QED  BY <2>2, <2>3, LoopTypes, Zenon
<1>6. faults' \in 0 .. MaxFaults
  BY <1>1, ReplyTypes, Zenon
<1>7. noticed' \subseteq Key
  <2>1. gone \subseteq Issue
    BY TypeFacts, Zenon
  <2>2. noticed' \subseteq noticed \cup ({i} \X gone)
    BY <1>1, Zenon
  <2>. QED  BY <2>1, <2>2, TypeFacts, Zenon DEF Key
<1>8. last' \in [Identity -> {Unseen} \cup [rule : Rule, eligible : SUBSET Issue]]
  <2>1. PassRule(i) \in Rule
    BY <1>3, TypeFacts, Zenon DEF PassRule
  <2>2. last' = [last EXCEPT ![i] = [rule |-> PassRule(i), eligible |-> poll[i].found]]
    BY Zenon DEF WithdrawUnpolled
  <2>. QED  BY <1>3, <2>1, <2>2, TypeFacts, Zenon
<1>9. TypeOK'
  BY <1>2, <1>5, <1>6, <1>7, <1>8, TypeFacts, StepTypes, Zenon DEF web
<1>. QED  BY <1>2, <1>9, Zenon

\* Withdrawing one task of the pass.
LEMMA WithdrawTaskEffects ==
    ASSUME TypeOK, NEW i \in Identity, NEW k \in Key, WithdrawTask(i, k)
    PROVE  /\ row' \in {row, Withdraw(k)} /\ k \in poll[i].drop /\ poll[i].pc = "withdrawing"
           /\ UNCHANGED <<work, stream, window, last>> /\ UNCHANGED forge /\ UNCHANGED web
           /\ TypeOK'
<1>1. PICK r \in {"ok", "fail"} :
        /\ Reply(r)
        /\ row' = IF r = "ok" THEN Withdraw(k) ELSE row
        /\ noticed' = IF r = "fail" THEN noticed \ {k} ELSE noticed
  BY Zenon DEF WithdrawTask
<1>2. UNCHANGED <<work, stream, window, last>> /\ UNCHANGED forge /\ UNCHANGED web
  BY Zenon DEF WithdrawTask, bus
<1>3. poll[i] \in Pass /\ poll[i].found \in SUBSET Issue
  BY TypeFacts, Zenon DEF Pass
<1>4. [poll[i] EXCEPT !.drop = @ \ {k}] \in Pass
  BY <1>3, Zenon DEF Pass
<1>5. Loop(i, IF poll[i].drop = {k} THEN Publishing(poll[i].found) ELSE [poll[i] EXCEPT !.drop = @ \ {k}])
  BY Zenon DEF WithdrawTask
<1>6. poll' \in [Identity -> Pass]
  <2> DEFINE p == IF poll[i].drop = {k} THEN Publishing(poll[i].found) ELSE [poll[i] EXCEPT !.drop = @ \ {k}]
  <2>1. p \in Pass
    BY <1>3, <1>4, PassTypes, Zenon
  <2> HIDE DEF p
  <2>2. Loop(i, p)
    BY <1>5, Zenon DEF p
  <2>. QED  BY <2>1, <2>2, LoopTypes, Zenon
<1>7. faults' \in 0 .. MaxFaults /\ row' \in {row, Withdraw(k)} /\ noticed' \subseteq noticed
  BY <1>1, ReplyTypes, Zenon
<1>8. row' \in [Key -> RowStatus]
  BY <1>7, RowTypes, TypeFacts, Zenon
<1>9. TypeOK'
  BY <1>2, <1>6, <1>7, <1>8, TypeFacts, StepTypes, Zenon DEF web
<1>10. k \in poll[i].drop /\ poll[i].pc = "withdrawing"
  BY Zenon DEF WithdrawTask
<1>. QED  BY <1>2, <1>7, <1>9, <1>10, Zenon

\* Looking up one listed issue before it is published.
LEMMA LookupEffects ==
    ASSUME TypeOK, NEW i \in Identity, NEW n \in Issue, Lookup(i, n)
    PROVE  /\ UNCHANGED <<row, work, stream, window, last, noticed>> /\ UNCHANGED forge /\ UNCHANGED web
           /\ TypeOK'
<1>1. PICK r \in {"ok", "fail"} :
        /\ Reply(r)
        /\ Loop(i, IF r = "fail" \/ RowsOf(n) # {} THEN Publishing(poll[i].todo \ {n}) ELSE [poll[i] EXCEPT !.at = {n}])
  BY Zenon DEF Lookup
<1>2. UNCHANGED <<row, work, stream, window, last, noticed>> /\ UNCHANGED forge /\ UNCHANGED web
  BY Zenon DEF Lookup, bus
<1>3. poll[i] \in Pass /\ poll[i].todo \ {n} \in SUBSET Issue
  BY TypeFacts, Zenon DEF Pass
<1>4. [poll[i] EXCEPT !.at = {n}] \in Pass
  BY <1>3, Zenon DEF Pass
<1>5. poll' \in [Identity -> Pass]
  <2> DEFINE p == IF r = "fail" \/ RowsOf(n) # {} THEN Publishing(poll[i].todo \ {n}) ELSE [poll[i] EXCEPT !.at = {n}]
  <2>1. p \in Pass
    BY <1>3, <1>4, PassTypes, Zenon
  <2> HIDE DEF p
  <2>2. Loop(i, p)
    BY <1>1, Zenon DEF p
  <2>. QED  BY <2>1, <2>2, LoopTypes, Zenon
<1>6. faults' \in 0 .. MaxFaults
  BY <1>1, ReplyTypes, Zenon
<1>7. TypeOK'
  BY <1>2, <1>5, <1>6, TypeFacts, StepTypes, Zenon DEF web
<1>. QED  BY <1>2, <1>7, Zenon

\* Publishing one listed issue.
LEMMA PublishEffects ==
    ASSUME TypeOK, NEW i \in Identity, Publish(i)
    PROVE  /\ \E k \in Key : \E r : Reply(r) /\ PublishUnique(k, r)
           /\ UNCHANGED <<row, work, last, noticed>> /\ UNCHANGED forge /\ UNCHANGED web
           /\ poll'[i].pc \in {"idle", "publishing"}
           /\ \A j \in Identity : j # i => poll'[j] = poll[j]
           /\ TypeOK'
<1>1. PICK n \in poll[i].at, r \in {"ok"} \cup Faults : Reply(r) /\ PublishUnique(<<i, n>>, r)
  BY Zenon DEF Publish
<1>2. UNCHANGED <<row, work, last, noticed>> /\ UNCHANGED forge /\ UNCHANGED web
  BY Zenon DEF Publish
<1>3. poll[i].at \in SUBSET Issue /\ poll[i].todo \in SUBSET Issue
  BY TypeFacts, Zenon DEF Pass
<1>4. <<i, n>> \in Key
  BY <1>3, KeyPairs, Zenon
<1>5. stream' \in [Msg -> {NoMsg} \cup Entry] /\ window' \subseteq Key /\ faults' \in 0 .. MaxFaults
  BY <1>1, <1>4, PublishTypes, ReplyTypes, Zenon
<1>6. Published(i) \in Pass /\ Published(i).pc \in {"idle", "publishing"}
  <2>1. poll[i].todo \ poll[i].at \in SUBSET Issue
    BY <1>3, Zenon
  <2>. QED  BY <2>1, PassTypes, Zenon DEF Published
<1>7. Loop(i, Published(i))
  BY Zenon DEF Publish
<1>8. poll' \in [Identity -> Pass] /\ poll'[i] = Published(i) /\ \A j \in Identity : j # i => poll'[j] = poll[j]
  BY <1>6, <1>7, LoopTypes, Zenon
<1>9. TypeOK'
  BY <1>2, <1>5, <1>8, TypeFacts, StepTypes, Zenon DEF web
<1>. QED  BY <1>1, <1>2, <1>4, <1>6, <1>8, <1>9, Zenon

\* The handler of a message that is not a run yet: it is refused or finds its
\* row, it fails, or it has inserted the row.
LEMMA EnqueueCases ==
    ASSUME TypeOK, NEW w \in work, Enqueue(w)
    PROVE  /\ w.pc = "submitted" /\ UNCHANGED <<window, poll, last, noticed>> /\ UNCHANGED forge /\ UNCHANGED web
           /\ \/ /\ ~MayAct(w.key[1]) \/ row[w.key] # "none"
                 /\ row' = row /\ stream' = Ack(w.msg) /\ work' = work \ {w} /\ faults' = faults
              \/ /\ row' \in {row, EnqueueIssue(w.key)} /\ stream' = Nak(w.msg) /\ work' = work \ {w}
                 /\ faults' = faults + 1 /\ faults < MaxFaults
              \/ /\ row[w.key] = "none" /\ row' = EnqueueIssue(w.key) /\ stream' = stream
                 /\ work' = Replace(w, [w EXCEPT !.pc = "inserted"]) /\ faults' = faults
<1>0. "ok" \notin Faults
  BY IntakeAssumption, Zenon
<1>1. w.pc = "submitted" /\ UNCHANGED <<window, poll, last, noticed>> /\ UNCHANGED forge /\ UNCHANGED web
  BY Zenon DEF Enqueue, loops
<1>2. PICK r \in {"ok"} \cup Faults :
        /\ Reply(r)
        /\ IF ~MayAct(w.key[1])
           THEN r = "ok" /\ UNCHANGED row /\ stream' = Ack(w.msg) /\ work' = work \ {w}
           ELSE /\ row' = IF r = "fail" THEN row ELSE EnqueueIssue(w.key)
                /\ work' = IF r = "ok" /\ row[w.key] = "none" THEN Replace(w, [w EXCEPT !.pc = "inserted"])
                           ELSE work \ {w}
                /\ stream' = IF r # "ok" THEN Nak(w.msg)
                             ELSE IF r = "ok" /\ row[w.key] = "none" THEN stream ELSE Ack(w.msg)
  BY Zenon DEF Enqueue
<1>3. r = "ok" => faults' = faults
  BY <1>0, <1>2, Zenon DEF Reply
<1>4. r # "ok" => faults' = faults + 1 /\ faults < MaxFaults
  BY <1>2, Zenon DEF Reply
<1>5. CASE ~MayAct(w.key[1])
  BY <1>1, <1>2, <1>3, <1>5, Zenon
<1>6. CASE MayAct(w.key[1]) /\ r # "ok"
  BY <1>1, <1>2, <1>4, <1>6, Zenon
<1>7. CASE MayAct(w.key[1]) /\ r = "ok" /\ row[w.key] = "none"
  BY <1>1, <1>2, <1>3, <1>7, Zenon
<1>8. CASE MayAct(w.key[1]) /\ r = "ok" /\ row[w.key] # "none"
  <2>1. EnqueueIssue(w.key) = row
    BY <1>8, Zenon DEF EnqueueIssue
  <2>. QED  BY <1>1, <1>2, <1>3, <1>8, <2>1, Zenon
<1>. QED  BY <1>5, <1>6, <1>7, <1>8, Zenon

\* The claim fails, finds the rows of the issue taken, or starts them and runs
\* one.
LEMMA ClaimCases ==
    ASSUME TypeOK, NEW w \in work, Claim(w)
    PROVE  /\ w.pc = "inserted" /\ UNCHANGED <<window, poll, last, noticed>> /\ UNCHANGED forge /\ UNCHANGED web
           /\ \/ /\ row' = row \/ ("lost" \in Faults /\ row' = Started(Claimed(w.key[2])))
                 /\ stream' = Nak(w.msg) /\ work' = work \ {w}
                 /\ faults' = faults + 1 /\ faults < MaxFaults
              \/ row' = row /\ stream' = Ack(w.msg) /\ work' = work \ {w} /\ faults' = faults
              \/ /\ row' = Started(Claimed(w.key[2])) /\ stream' = stream /\ faults' = faults
                 /\ \E k \in Claimed(w.key[2]) : work' = Replace(w, [w EXCEPT !.pc = "processing", !.key = k])
<1>0. "ok" \notin Faults /\ "ok" # "fail" /\ Faults \subseteq {"fail", "lost"}
  BY IntakeAssumption, Zenon
<1>1. w.pc = "inserted" /\ UNCHANGED <<window, poll, last, noticed>> /\ UNCHANGED forge /\ UNCHANGED web
  BY Zenon DEF Claim, loops
<1>2. PICK r \in {"ok"} \cup Faults :
        /\ Reply(r)
        /\ row' = IF r = "fail" THEN row ELSE Started(Claimed(w.key[2]))
        /\ \/ /\ r # "ok"
              /\ stream' = Nak(w.msg) /\ work' = work \ {w}
           \/ /\ r = "ok" /\ Claimed(w.key[2]) = {}
              /\ stream' = Ack(w.msg) /\ work' = work \ {w}
           \/ /\ r = "ok"
              /\ \E k \in Claimed(w.key[2]) : work' = Replace(w, [w EXCEPT !.pc = "processing", !.key = k])
              /\ UNCHANGED stream
  BY ZenonT(30) DEF Claim
<1>3. r = "ok" => faults' = faults
  BY <1>0, <1>2, ZenonT(30) DEF Reply
<1>4. r # "ok" => faults' = faults + 1 /\ faults < MaxFaults
  BY <1>2, Zenon DEF Reply
<1>5. CASE r # "ok"
  <2>1. row' = row \/ ("lost" \in Faults /\ row' = Started(Claimed(w.key[2])))
    BY <1>0, <1>2, <1>5, Zenon
  <2>. QED  BY <1>1, <1>2, <1>4, <1>5, <2>1, ZenonT(30)
<1>6. CASE r = "ok" /\ Claimed(w.key[2]) = {}
  <2>1. Started({}) = row
    BY TypeFacts, Zenon DEF Started
  <2>2. row' = row
    BY <1>0, <1>2, <1>6, <2>1, Zenon
  <2>. QED  BY <1>1, <1>2, <1>3, <1>6, <2>2, Zenon
<1>7. CASE r = "ok" /\ Claimed(w.key[2]) # {}
  <2>1. row' = Started(Claimed(w.key[2]))
    BY <1>0, <1>2, <1>7, Zenon
  <2>. QED  BY <1>1, <1>2, <1>3, <1>7, <2>1, ZenonT(30)
<1>. QED  BY <1>5, <1>6, <1>7, Zenon

\* The fallback starts a queued row and runs it, or loses the answer.
LEMMA ClaimNextCases ==
    ASSUME TypeOK, ClaimNext
    PROVE  /\ UNCHANGED <<stream, window, poll, last, noticed>> /\ UNCHANGED forge /\ UNCHANGED web
           /\ \E k \in Key :
                 /\ row[k] = "queued" /\ row' = Started({k})
                 /\ \/ "lost" \in Faults /\ work' = work
                    \/ work' = work \cup {[msg |-> NoMsg, n |-> Cardinality(Executing(k)), pc |-> "processing", key |-> k]}
           /\ faults' \in 0 .. MaxFaults /\ faults <= faults'
<1>1. UNCHANGED <<stream, window, poll, last, noticed>> /\ UNCHANGED forge /\ UNCHANGED web
  BY Zenon DEF ClaimNext, loops, bus
<1>2. PICK k \in Key, r \in {"ok"} \cup (Faults \ {"fail"}) :
        /\ row[k] = "queued"
        /\ Reply(r)
        /\ row' = Started({k})
        /\ work' = IF r # "ok" THEN work
                   ELSE work \cup {[msg |-> NoMsg, n |-> Cardinality(Executing(k)), pc |-> "processing", key |-> k]}
  BY Zenon DEF ClaimNext
<1>3. r # "ok" => "lost" \in Faults
  BY IntakeAssumption, Zenon
<1>4. faults' \in 0 .. MaxFaults /\ faults <= faults'
  BY <1>2, ReplyTypes, Zenon
<1>. QED  BY <1>1, <1>2, <1>3, <1>4, Zenon

\* A webhook is answered: the issue is published, or its work declined.
LEMMA ServeCases ==
    ASSUME TypeOK, NEW e \in hooks, ServeIssueEvent(e)
    PROVE  /\ hooks' \subseteq hooks /\ UNCHANGED <<work, poll, last, noticed>> /\ UNCHANGED forge
           /\ e.key \in Key /\ faults' \in 0 .. MaxFaults /\ faults <= faults'
           /\ \/ \E r : /\ e.on /\ PublishUnique(e.key, r) /\ row' = row
                        /\ accepted' = IF r = "ok" THEN accepted \cup {e.key} ELSE accepted
              \/ ~e.on /\ row' \in {row, Withdraw(e.key)} /\ UNCHANGED <<stream, window, accepted>>
<1>1. hooks' \subseteq hooks /\ UNCHANGED <<work, poll, last, noticed>> /\ UNCHANGED forge
  BY Zenon DEF ServeIssueEvent, loops
<1>2. PICK r \in {"ok"} \cup Faults :
        /\ Reply(r)
        /\ IF e.on
           THEN PublishUnique(e.key, r) /\ UNCHANGED row
           ELSE row' = (IF r = "fail" THEN row ELSE Withdraw(e.key)) /\ UNCHANGED bus
        /\ accepted' = IF e.on /\ r = "ok" THEN accepted \cup {e.key} ELSE accepted
  BY Zenon DEF ServeIssueEvent
<1>3. e.key \in Key /\ e.on \in BOOLEAN
  BY TypeFacts, Zenon
<1>4. faults' \in 0 .. MaxFaults /\ faults <= faults'
  BY <1>2, ReplyTypes, Zenon
<1>5. CASE e.on
  BY <1>1, <1>2, <1>3, <1>4, <1>5, Zenon
<1>6. CASE ~e.on
  BY <1>1, <1>2, <1>3, <1>4, <1>6, Zenon DEF bus
<1>. QED  BY <1>5, <1>6, Zenon

\* What a store call does to each row.
LEMMA RowMoves ==
    ASSUME TypeOK, NEW j \in Key
    PROVE  /\ \A k \in Key : EnqueueIssue(k)[j] = IF j = k /\ row[k] = "none" THEN "queued" ELSE row[j]
           /\ \A k \in Key : Withdraw(k)[j] = IF j = k /\ row[k] \in Active THEN "declined" ELSE row[j]
           /\ \A ks : Started(ks)[j] = IF j \in ks THEN "running" ELSE row[j]
BY TypeFacts, Zenon DEF EnqueueIssue, Withdraw, Started

\* The base invariant survives a step that starts no run and takes no row back.
LEMMA BaseStays ==
    ASSUME BaseInv, TypeOK', \A w \in work' : w.msg = NoMsg \/ w.pc = "processing" => w \in work,
           \A w \in work : w.pc = "processing" => row'[w.key] = row[w.key] \/ row'[w.key] \notin {"none", "queued"}
    PROVE  BaseInv'
<1>1. OneRunEach'
  BY RunsStay, Zenon DEF BaseInv
<1>2. MessagesAreHandled'
  BY Zenon DEF BaseInv, MessagesAreHandled
<1>. QED  BY <1>1, <1>2, Zenon DEF BaseInv

\* The poll loops start no run.
LEMMA PollBase == ASSUME BaseInv, NEW i \in Identity, Poll(i) PROVE BaseInv'
<1>0. TypeOK
  BY Zenon DEF BaseInv
<1>1. CASE ListIssues(i) \/ WithdrawUnpolled(i) \/ Publish(i) \/ \E n \in Issue : Lookup(i, n)
  <2>1. TypeOK' /\ work' = work /\ row' = row
    BY <1>0, <1>1, ListEffects, UnpolledEffects, PublishEffects, LookupEffects, Zenon
  <2>. QED  BY <2>1, BaseStays, Zenon
<1>2. ASSUME NEW k \in Key, WithdrawTask(i, k) PROVE BaseInv'
  <2>1. TypeOK' /\ work' = work /\ row' \in {row, Withdraw(k)}
    BY <1>0, <1>2, WithdrawTaskEffects, Zenon
  <2>2. \A j \in Key : row'[j] = row[j] \/ row'[j] = "declined"
    BY <1>0, <2>1, RowMoves
  <2>3. \A w \in work : w.key \in Key
    BY <1>0, TypeFacts, Zenon DEF Work
  <2>. QED  BY <2>1, <2>2, <2>3, BaseStays, Zenon
<1>. QED  BY <1>1, <1>2, Zenon DEF Poll

\* Nor does a webhook, or the stream.
LEMMA BusBase ==
    ASSUME BaseInv, \/ Serve \/ (\E e \in hooks : LoseHook(e)) \/ (\E k \in Key : ForgetKey(k))
                    \/ \E m \in Msg : AckWaitElapsed(m)
    PROVE  BaseInv'
<1>0. TypeOK
  BY Zenon DEF BaseInv
<1>a. \A w \in work : w.key \in Key
  BY <1>0, TypeFacts, Zenon DEF Work
<1>1. ASSUME NEW e \in hooks, ServeIssueEvent(e) PROVE BaseInv'
  <2>1. /\ hooks' \subseteq hooks /\ UNCHANGED <<work, poll, last, noticed>> /\ UNCHANGED forge
        /\ e.key \in Key /\ faults' \in 0 .. MaxFaults
    BY <1>0, <1>1, ServeCases, Zenon
  <2>2. CASE \E r : /\ e.on /\ PublishUnique(e.key, r) /\ row' = row
                    /\ accepted' = IF r = "ok" THEN accepted \cup {e.key} ELSE accepted
    <3>1. stream' \in [Msg -> {NoMsg} \cup Entry] /\ window' \subseteq Key
      BY <1>0, <2>1, <2>2, PublishTypes, Zenon
    <3>2. accepted' \subseteq Key
      BY <1>0, <2>1, <2>2, TypeFacts, Zenon
    <3>3. TypeOK'
      BY <1>0, <2>1, <2>2, <3>1, <3>2, TypeFacts, StepTypes, Zenon
    <3>. QED  BY <2>1, <2>2, <3>3, BaseStays, Zenon
  <2>3. CASE ~e.on /\ row' \in {row, Withdraw(e.key)} /\ UNCHANGED <<stream, window, accepted>>
    <3>1. row' \in [Key -> RowStatus]
      BY <1>0, <2>1, <2>3, RowTypes, TypeFacts, Zenon
    <3>2. TypeOK'
      BY <1>0, <2>1, <2>3, <3>1, TypeFacts, StepTypes, Zenon
    <3>3. \A j \in Key : row'[j] = row[j] \/ row'[j] = "declined"
      BY <1>0, <2>1, <2>3, RowMoves
    <3>. QED  BY <1>a, <2>1, <3>2, <3>3, BaseStays, Zenon
  <2>. QED  BY <1>0, <1>1, <2>2, <2>3, ServeCases, Zenon
<1>2. ASSUME NEW e \in hooks, LoseHook(e) PROVE BaseInv'
  <2>1. /\ hooks' \subseteq hooks /\ UNCHANGED <<accepted, row, stream, window, work, poll, last, noticed>>
        /\ UNCHANGED forge /\ Reply("fail")
    BY <1>2, Zenon DEF LoseHook, loops, bus
  <2>2. faults' \in 0 .. MaxFaults
    BY <1>0, <2>1, ReplyTypes, Zenon
  <2>3. TypeOK'
    BY <1>0, <2>1, <2>2, TypeFacts, StepTypes, Zenon
  <2>. QED  BY <2>1, <2>3, BaseStays, Zenon
<1>3. ASSUME NEW k \in Key, ForgetKey(k) PROVE BaseInv'
  <2>1. /\ window' \subseteq window /\ UNCHANGED <<hooks, accepted, row, stream, work, poll, last, noticed, faults>>
        /\ UNCHANGED forge
    BY <1>3, Zenon DEF ForgetKey, loops, web
  <2>2. TypeOK'
    BY <1>0, <2>1, TypeFacts, StepTypes, Zenon
  <2>. QED  BY <2>1, <2>2, BaseStays, Zenon
<1>4. ASSUME NEW m \in Msg, AckWaitElapsed(m) PROVE BaseInv'
  <2>1. /\ stream' = Nak(m) /\ UNCHANGED <<hooks, accepted, row, window, work, poll, last, noticed, faults>>
        /\ UNCHANGED forge
    BY <1>4, Zenon DEF AckWaitElapsed, loops, web
  <2>2. TypeOK'
    BY <1>0, <2>1, TypeFacts, StreamTypes, StepTypes, Zenon
  <2>. QED  BY <2>1, <2>2, BaseStays, Zenon
<1>. QED  BY <1>1, <1>2, <1>3, <1>4, Zenon DEF Serve

\* A fetched message is one more work, which is no run yet.
LEMMA FetchEffects ==
    ASSUME TypeOK, NEW m \in Msg, Fetch(m)
    PROVE  LET w == [msg |-> m, n |-> stream[m].n + 1, pc |-> "submitted", key |-> stream[m].key]
               x == [key |-> stream[m].key, n |-> stream[m].n + 1, out |-> TRUE]
           IN  /\ work' = work \cup {w} /\ w \in Work /\ stream[m] \in Entry /\ ~stream[m].out
               /\ x \in Entry /\ stream' = [stream EXCEPT ![m] = x]
               /\ UNCHANGED <<hooks, accepted, row, window, poll, last, noticed, faults>> /\ UNCHANGED forge
<1> DEFINE w == [msg |-> m, n |-> stream[m].n + 1, pc |-> "submitted", key |-> stream[m].key]
           x == [key |-> stream[m].key, n |-> stream[m].n + 1, out |-> TRUE]
<1>1. stream \in [Msg -> {NoMsg} \cup Entry] /\ stream[m] # NoMsg /\ ~stream[m].out /\ stream[m].n < MaxDeliver
  BY TypeFacts, Zenon DEF Fetch, Fetchable
<1>2. stream[m] \in Entry
  BY <1>1, Zenon
<1>3. stream[m].key \in Key /\ stream[m].n \in Nat /\ stream[m].n + 1 \in 0 .. MaxDeliver /\ stream[m].n + 1 \in Nat
      /\ stream[m] = [key |-> stream[m].key, n |-> stream[m].n, out |-> stream[m].out]
  BY <1>1, <1>2, IntakeAssumption DEF Entry
<1>4. w \in Work /\ x \in Entry
  BY <1>3, Zenon DEF Work, Entry
<1>5. stream' = [stream EXCEPT ![m] = x]
  BY <1>1, Zenon DEF Fetch
<1>6. work' = work \cup {w} /\ UNCHANGED <<hooks, accepted, row, window, poll, last, noticed, faults>> /\ UNCHANGED forge
  BY Zenon DEF Fetch, loops, web
<1>. QED  BY <1>1, <1>2, <1>4, <1>5, <1>6, Zenon

\* The drain loop hands out works, and the fallback a row that no run had.
LEMMA DrainBase == ASSUME BaseInv, Drain PROVE BaseInv'
<1>0. TypeOK
  BY Zenon DEF BaseInv
<1>1. ASSUME NEW m \in Msg, Fetch(m) PROVE BaseInv'
  <2> DEFINE w == [msg |-> m, n |-> stream[m].n + 1, pc |-> "submitted", key |-> stream[m].key]
             x == [key |-> stream[m].key, n |-> stream[m].n + 1, out |-> TRUE]
  <2>1. /\ work' = work \cup {w} /\ w \in Work /\ x \in Entry /\ stream' = [stream EXCEPT ![m] = x]
        /\ UNCHANGED <<hooks, accepted, row, window, poll, last, noticed, faults>> /\ UNCHANGED forge
    BY <1>0, <1>1, FetchEffects, Zenon
  <2>2. stream' \in [Msg -> {NoMsg} \cup Entry]
    BY <1>0, <2>1, TypeFacts, Zenon
  <2>3. TypeOK'
    BY <1>0, <2>1, <2>2, TypeFacts, StepTypes, Zenon
  <2>4. w.pc = "submitted" /\ w.msg # NoMsg
    BY IntakeAssumption, Zenon DEF Msg
  <2> HIDE DEF w
  <2>. QED  BY <2>1, <2>3, <2>4, BaseStays, Zenon
<1>2. CASE ClaimNext
  <2>1. /\ UNCHANGED <<stream, window, poll, last, noticed>> /\ UNCHANGED forge /\ UNCHANGED web
        /\ faults' \in 0 .. MaxFaults
    BY <1>0, <1>2, ClaimNextCases, Zenon
  <2>2. PICK k \in Key :
          /\ row[k] = "queued" /\ row' = Started({k})
          /\ \/ work' = work
             \/ work' = work \cup {[msg |-> NoMsg, n |-> Cardinality(Executing(k)), pc |-> "processing", key |-> k]}
    BY <1>0, <1>2, ClaimNextCases, Zenon
  <2> DEFINE u == [msg |-> NoMsg, n |-> Cardinality(Executing(k)), pc |-> "processing", key |-> k]
  <2>3. \A v \in work : v.pc = "processing" => v.key # k
    BY <2>2, Zenon DEF BaseInv, OneRunEach
  <2>4. Executing(k) = {}
    BY <2>3, Zenon DEF Executing
  <2>5. u \in Work /\ u.pc = "processing" /\ u.key = k
    BY <2>4, FS_EmptySet DEF Work
  <2> HIDE DEF u
  <2>6. work' \subseteq work \cup {u}
    BY <2>2, Zenon DEF u
  <2>7. row' \in [Key -> RowStatus] /\ \A j \in Key : row'[j] = IF j = k THEN "running" ELSE row[j]
    BY <1>0, <2>2, RowTypes, RowMoves, Zenon
  <2>8. TypeOK'
    BY <1>0, <2>1, <2>5, <2>6, <2>7, TypeFacts, StepTypes, Zenon DEF web
  <2>9. \A v \in work : v.key \in Key
    BY <1>0, TypeFacts, Zenon DEF Work
  <2>10. OneRunEach'
    BY <2>3, <2>5, <2>6, <2>7, <2>9, Zenon DEF BaseInv, OneRunEach
  <2>11. MessagesAreHandled'
    BY <2>5, <2>6, Zenon DEF BaseInv, MessagesAreHandled
  <2>. QED  BY <2>8, <2>10, <2>11, Zenon DEF BaseInv
<1>. QED  BY <1>1, <1>2, Zenon DEF Drain

\* A work's message, while it is no run.
LEMMA WorkHasMessage ==
    ASSUME BaseInv, NEW w \in work
    PROVE  /\ w \in Work /\ w.key \in Key /\ w.key[2] \in Issue /\ w.msg \in Msg \cup {NoMsg}
           /\ w.pc # "processing" => w.msg \in Msg
<1>1. w \in Work
  BY TypeFacts, Zenon DEF BaseInv
<1>2. w.key \in Key /\ w.msg \in Msg \cup {NoMsg}
  BY <1>1, Zenon DEF Work
<1>3. w.msg = NoMsg => w.pc = "processing"
  BY Zenon DEF BaseInv, MessagesAreHandled
<1>. QED  BY <1>1, <1>2, <1>3, KeyPairs, Zenon

\* A handler that ends gives up its work; one that claims a row is its first run.
LEMMA HandleBase == ASSUME BaseInv, NEW w \in work, Enqueue(w) \/ Claim(w) \/ Finish(w) PROVE BaseInv'
<1>0. TypeOK
  BY Zenon DEF BaseInv
<1>a. /\ w \in Work /\ w.key \in Key /\ w.key[2] \in Issue /\ w.msg \in Msg \cup {NoMsg}
      /\ w.pc # "processing" => w.msg \in Msg
  BY WorkHasMessage, Zenon
<1>b. \A v \in work : v.key \in Key
  BY WorkHasMessage, Zenon
<1>c. /\ faults \in 0 .. MaxFaults /\ (faults < MaxFaults => faults + 1 \in 0 .. MaxFaults)
  BY <1>0, TypeFacts, IntakeAssumption
<1>1. CASE Enqueue(w)
  <2>1. w.pc = "submitted" /\ UNCHANGED <<window, poll, last, noticed>> /\ UNCHANGED forge /\ UNCHANGED web
    BY <1>0, <1>1, EnqueueCases, Zenon
  <2>2. row' \in {row, EnqueueIssue(w.key)} /\ stream' \in {stream, Ack(w.msg), Nak(w.msg)} /\ faults' \in 0 .. MaxFaults
        /\ work' \subseteq work \cup {[w EXCEPT !.pc = "inserted"]}
    BY <1>0, <1>1, <1>c, EnqueueCases, Zenon DEF Replace
  <2>3. row' \in [Key -> RowStatus] /\ stream' \in [Msg -> {NoMsg} \cup Entry]
    BY <1>0, <1>a, <2>1, <2>2, RowTypes, StreamTypes, TypeFacts, Zenon
  <2>4. PICK u : u = [w EXCEPT !.pc = "inserted"]
    BY Zenon
  <2>5. u \in Work /\ u.pc = "inserted" /\ u.msg = w.msg
    BY <1>a, <2>4, WorkTypes, Zenon
  <2>6. TypeOK'
    BY <1>0, <2>1, <2>2, <2>3, <2>4, <2>5, TypeFacts, StepTypes, Zenon DEF web
  <2>7. \A v \in work : v.pc = "processing" => row'[v.key] = row[v.key]
    <3>1. \A v \in work : v.pc = "processing" => row[v.key] # "none"
      BY Zenon DEF BaseInv, OneRunEach
    <3>. QED  BY <1>0, <1>a, <1>b, <2>2, <3>1, RowMoves
  <2>8. \A v \in work' : v.msg = NoMsg \/ v.pc = "processing" => v \in work
    BY <1>a, <2>1, <2>2, <2>4, <2>5, IntakeAssumption, ZenonT(30) DEF Msg
  <2>. QED  BY <2>6, <2>7, <2>8, BaseStays, Zenon
<1>2. CASE Claim(w)
  <2>1. w.pc = "inserted" /\ UNCHANGED <<window, poll, last, noticed>> /\ UNCHANGED forge /\ UNCHANGED web
    BY <1>0, <1>2, ClaimCases, ZenonT(30)
  <2>2. row' \in {row, Started(Claimed(w.key[2]))} /\ stream' \in {stream, Ack(w.msg), Nak(w.msg)}
        /\ faults' \in 0 .. MaxFaults
    BY <1>0, <1>2, <1>c, ClaimCases, ZenonT(30)
  <2>3. row' \in [Key -> RowStatus] /\ stream' \in [Msg -> {NoMsg} \cup Entry]
    BY <1>0, <1>a, <2>1, <2>2, RowTypes, StreamTypes, TypeFacts
  <2>4. \A j \in Key : row'[j] = row[j] \/ row'[j] = "running"
    BY <1>0, <2>2, RowMoves
  <2>5. CASE work' \subseteq work
    <3>1. TypeOK'
      BY <1>0, <2>1, <2>2, <2>3, <2>5, TypeFacts, StepTypes, Zenon DEF web
    <3>. QED  BY <1>b, <2>4, <2>5, <3>1, BaseStays, Zenon
  <2>6. ASSUME NEW k \in Claimed(w.key[2]), work' = Replace(w, [w EXCEPT !.pc = "processing", !.key = k]),
               row' = Started(Claimed(w.key[2]))
        PROVE  BaseInv'
    <3>1. k \in Key /\ row[k] = "queued"
      BY <2>6, Zenon DEF Claimed
    <3>2. PICK u : u = [w EXCEPT !.pc = "processing", !.key = k]
      BY Zenon
    <3>3. u \in Work /\ u.pc = "processing" /\ u.key = k /\ u.msg = w.msg
      BY <1>a, <3>1, <3>2, WorkTypes, ZenonT(60)
    <3>4. work' = (work \ {w}) \cup {u}
      BY <2>6, <3>2, Zenon DEF Replace
    <3>5. TypeOK'
      BY <1>0, <2>1, <2>2, <2>3, <3>3, <3>4, TypeFacts, StepTypes, Zenon DEF web
    <3>6. \A v \in work : v.pc = "processing" => v.key # k
      BY <3>1, Zenon DEF BaseInv, OneRunEach
    <3>7. row'[k] = "running"
      BY <1>0, <2>6, <3>1, RowMoves, Zenon
    <3>8. OneRunEach'
      BY <1>b, <2>4, <3>3, <3>4, <3>6, <3>7 DEF BaseInv, OneRunEach
    <3>9. MessagesAreHandled'
      BY <3>3, <3>4, Zenon DEF BaseInv, MessagesAreHandled
    <3>. QED  BY <3>5, <3>8, <3>9, Zenon DEF BaseInv
  <2>. QED  BY <1>0, <1>2, <2>5, <2>6, ClaimCases, Zenon
<1>3. CASE Finish(w)
  <2>1. /\ w.pc = "processing" /\ stream' = Ack(w.msg) /\ work' = work \ {w}
        /\ UNCHANGED <<window, poll, last, noticed, faults>> /\ UNCHANGED forge /\ UNCHANGED web
    BY <1>3, Zenon DEF Finish, loops
  <2>2. row' \in [Key -> RowStatus] /\ \A j \in Key : row'[j] = row[j] \/ row'[j] = "settled"
    BY <1>0, <1>3, <1>a, TypeFacts, Zenon DEF Finish, RowStatus
  <2>3. TypeOK'
    BY <1>0, <1>a, <2>1, <2>2, StreamTypes, TypeFacts, StepTypes, Zenon DEF web
  <2>. QED  BY <1>b, <2>1, <2>2, <2>3, BaseStays, Zenon
<1>. QED  BY <1>1, <1>2, <1>3, Zenon

\* A restart leaves no work.
LEMMA RestartEffects ==
    ASSUME TypeOK, Restart
    PROVE  /\ work' = {} /\ poll' = [i \in Identity |-> Idle] /\ last' = [i \in Identity |-> Unseen]
           /\ faults' = faults + 1 /\ faults < MaxFaults
           /\ \A j \in Key : row'[j] = IF row[j] = "running" THEN "queued" ELSE row[j]
           /\ UNCHANGED <<hooks, accepted, stream, window, noticed>> /\ UNCHANGED forge
           /\ TypeOK'
<1>1. /\ work' = {} /\ poll' = [i \in Identity |-> Idle] /\ last' = [i \in Identity |-> Unseen]
      /\ faults' = faults + 1 /\ faults < MaxFaults
      /\ row' = [k \in Key |-> IF row[k] = "running" THEN "queued" ELSE row[k]]
      /\ UNCHANGED <<hooks, accepted, stream, window, noticed>> /\ UNCHANGED forge
  BY Zenon DEF Restart, web, bus
<1>2. row' \in [Key -> RowStatus]
  BY <1>1, TypeFacts, Zenon DEF RowStatus
<1>3. poll' \in [Identity -> Pass] /\ last' \in [Identity -> {Unseen} \cup [rule : Rule, eligible : SUBSET Issue]]
  BY <1>1, PassTypes, Zenon
<1>4. faults' \in 0 .. MaxFaults
  BY <1>1, TypeFacts, IntakeAssumption
<1>5. TypeOK'
  BY <1>1, <1>2, <1>3, <1>4, TypeFacts, StepTypes, Zenon
<1>. QED  BY <1>1, <1>5, Zenon

\* A restart forgets every handler, and the recovery takes the rows back.
LEMMA RestartBase == ASSUME BaseInv, Restart PROVE BaseInv'
<1>1. TypeOK' /\ work' = {}
  BY RestartEffects, Zenon DEF BaseInv
<1>. QED  BY <1>1, Zenon DEF BaseInv, OneRunEach, MessagesAreHandled

\* Every step keeps the base invariant.
LEMMA BaseStep == BaseInv /\ [Next]_vars => BaseInv'
<1> SUFFICES ASSUME BaseInv, [Next]_vars PROVE BaseInv'
  BY Zenon
<1>1. CASE Next
  BY <1>1, PeopleBase, PollBase, BusBase, DrainBase, HandleBase, RestartBase, Zenon DEF Next, Handle
<1>2. CASE UNCHANGED vars
  BY <1>2, Zenon DEF vars, BaseInv, TypeOK, OneRunEach, MessagesAreHandled
<1>. QED  BY <1>1, <1>2, Zenon

\* The base invariant holds throughout.
LEMMA BaseHolds == Spec => []BaseInv
BY BaseInit, BaseStep, PTL DEF Spec

\* The types.
THEOREM TypeCorrect == Spec => []TypeOK
<1>1. BaseInv => TypeOK
  BY Zenon DEF BaseInv
<1>. QED  BY <1>1, BaseHolds, PTL
-----------------------------------------------------------------------------
(***************************************************************************)
(* One run per row                                                         *)
(***************************************************************************)

\* The runs of a row are none or one.
LEMMA AtMostOne == ASSUME BaseInv, NEW k \in Key PROVE Cardinality(Executing(k)) <= 1
<1>1. CASE Executing(k) = {}
  <2>1. Cardinality(Executing(k)) = 0
    BY <1>1, FS_EmptySet, Zenon
  <2>. QED  BY <2>1
<1>2. ASSUME NEW w \in Executing(k) PROVE Cardinality(Executing(k)) <= 1
  <2>1. \A v \in Executing(k) : v = w
    BY <1>2, Zenon DEF BaseInv, OneRunEach, Executing
  <2>2. Executing(k) = {w}
    BY <1>2, <2>1, Zenon
  <2>3. Cardinality(Executing(k)) = 1
    BY <2>2, FS_Singleton, Zenon
  <2>. QED  BY <2>3
<1>. QED  BY <1>1, <1>2, Zenon

\* A row is run by one run at a time, whatever is delivered twice, lost or
\* claimed by the fallback meanwhile, and however many identities there are
\* (processNATSTask, ClaimByIssue, ClaimNext, RecoverStale).
THEOREM NeverTwoRuns == Spec => [](\A k \in Key : Cardinality(Executing(k)) <= 1)
<1>1. BaseInv => \A k \in Key : Cardinality(Executing(k)) <= 1
  BY AtMostOne, Zenon
<1>. QED  BY <1>1, BaseHolds, PTL

\* A running row keeps its run, where no claim's answer is lost and an issue has
\* one row: a claim whose answer is lost leaves its row running until the next
\* restart, and a claim starts every row of the issue and runs one.
LEMMA RunningStep ==
    ASSUME "lost" \notin Faults, \A i, j \in Identity : i = j, BaseInv, RunningIsRun, [Next]_vars
    PROVE  RunningIsRun'
<1>0. TypeOK
  BY Zenon DEF BaseInv
<1>a. ASSUME row' = row, \A v \in work : v.pc = "processing" => v \in work' PROVE RunningIsRun'
  BY <1>a, Zenon DEF RunningIsRun
<1>b. ASSUME \A j \in Key : row'[j] = row[j] \/ row'[j] # "running", \A v \in work : v.pc = "processing" => v \in work'
      PROVE  RunningIsRun'
  BY <1>b, Zenon DEF RunningIsRun
<1>1. CASE \/ \E r \in Rule, k \in Key : Assign(r, k) \/ Withdrawal(r, k)
           \/ \E r \in Rule : Reload(r)
           \/ \E i \in Identity : SetLifecycle(i)
  <2>1. row' = row /\ work' = work
    BY <1>0, <1>1, PeopleEffects, Zenon
  <2>. QED  BY <1>a, <2>1, Zenon
<1>2. ASSUME NEW i \in Identity, Poll(i) PROVE RunningIsRun'
  <2>1. CASE ListIssues(i) \/ WithdrawUnpolled(i) \/ Publish(i) \/ \E n \in Issue : Lookup(i, n)
    <3>1. work' = work /\ row' = row
      BY <1>0, <2>1, ListEffects, UnpolledEffects, PublishEffects, LookupEffects, Zenon
    <3>. QED  BY <1>a, <3>1, Zenon
  <2>2. ASSUME NEW k \in Key, WithdrawTask(i, k) PROVE RunningIsRun'
    <3>1. work' = work /\ row' \in {row, Withdraw(k)}
      BY <1>0, <2>2, WithdrawTaskEffects, Zenon
    <3>2. \A j \in Key : row'[j] = row[j] \/ row'[j] = "declined"
      BY <1>0, <3>1, RowMoves
    <3>. QED  BY <1>b, <3>1, <3>2, Zenon
  <2>. QED  BY <1>2, <2>1, <2>2, Zenon DEF Poll
<1>3. ASSUME NEW e \in hooks, ServeIssueEvent(e) PROVE RunningIsRun'
  <2>1. work' = work /\ row' \in {row, Withdraw(e.key)} /\ e.key \in Key
    BY <1>0, <1>3, ServeCases, Zenon
  <2>2. \A j \in Key : row'[j] = row[j] \/ row'[j] = "declined"
    BY <1>0, <2>1, RowMoves
  <2>. QED  BY <1>b, <2>1, <2>2, Zenon
<1>4. CASE (\E e \in hooks : LoseHook(e)) \/ (\E k \in Key : ForgetKey(k)) \/ \E m \in Msg : AckWaitElapsed(m)
  <2>1. work' = work /\ row' = row
    BY <1>4, Zenon DEF LoseHook, ForgetKey, AckWaitElapsed
  <2>. QED  BY <1>a, <2>1, Zenon
<1>5. ASSUME NEW m \in Msg, Fetch(m) PROVE RunningIsRun'
  <2>1. work \subseteq work' /\ row' = row
    BY <1>5, Zenon DEF Fetch
  <2>. QED  BY <1>a, <2>1, Zenon
<1>6. CASE ClaimNext
  <2>1. PICK k \in Key :
          /\ row[k] = "queued" /\ row' = Started({k})
          /\ work' = work \cup {[msg |-> NoMsg, n |-> Cardinality(Executing(k)), pc |-> "processing", key |-> k]}
    BY <1>0, <1>6, ClaimNextCases, Zenon
  <2>2. \A j \in Key : j # k => row'[j] = row[j]
    BY <1>0, <2>1, RowMoves, Zenon
  <2>3. \E w \in work' : w.pc = "processing" /\ w.key = k
    <3>1. PICK u : u = [msg |-> NoMsg, n |-> Cardinality(Executing(k)), pc |-> "processing", key |-> k]
      BY ZenonT(30)
    <3>2. u \in work' /\ u.pc = "processing" /\ u.key = k
      BY <2>1, <3>1, Zenon
    <3>. QED  BY <3>2, Zenon
  <2>. QED  BY <2>1, <2>2, <2>3, Zenon DEF RunningIsRun
<1>7. ASSUME NEW w \in work, Enqueue(w) PROVE RunningIsRun'
  <2>0. w.key \in Key
    BY WorkHasMessage, Zenon
  <2>1. w.pc = "submitted" /\ row' \in {row, EnqueueIssue(w.key)} /\ \A v \in work : v # w => v \in work'
    BY <1>0, <1>7, EnqueueCases, Zenon DEF Replace
  <2>2. \A j \in Key : row'[j] = row[j] \/ row'[j] = "queued"
    BY <1>0, <2>0, <2>1, RowMoves
  <2>. QED  BY <1>b, <2>1, <2>2, Zenon
<1>8. ASSUME NEW w \in work, Claim(w) PROVE RunningIsRun'
  <2>0. w.key[2] \in Issue /\ w \in Work
    BY WorkHasMessage, Zenon
  <2>1. w.pc = "inserted"
    BY <1>0, <1>8, ClaimCases, Zenon
  <2>2. CASE row' = row /\ work' = work \ {w}
    BY <1>a, <2>1, <2>2, Zenon
  <2>3. ASSUME NEW k \in Claimed(w.key[2]), work' = Replace(w, [w EXCEPT !.pc = "processing", !.key = k]),
               row' = Started(Claimed(w.key[2]))
        PROVE  RunningIsRun'
    <3>1. k \in Key /\ k[2] = w.key[2]
      BY <2>3, Zenon DEF Claimed
    <3>2. \A j \in Claimed(w.key[2]) : j = k
      <4> TAKE j \in Claimed(w.key[2])
      <4>1. j \in Key /\ j[2] = k[2]
        BY <3>1, Zenon DEF Claimed
      <4>2. j[1] = k[1]
        BY <3>1, <4>1, KeyPairs, Zenon
      <4>. QED  BY <3>1, <4>1, <4>2, KeyPairs, Zenon
    <3>3. \A j \in Key : j # k => row'[j] = row[j]
      BY <1>0, <2>3, <3>2, RowMoves, Zenon
    <3>4. PICK u : u = [w EXCEPT !.pc = "processing", !.key = k]
      BY Zenon
    <3>5. u.pc = "processing" /\ u.key = k
      BY <2>0, <3>1, <3>4, WorkTypes, ZenonT(60)
    <3>6. work' = (work \ {w}) \cup {u}
      BY <2>3, <3>4, Zenon DEF Replace
    <3>. QED  BY <2>1, <3>3, <3>5, <3>6, Zenon DEF RunningIsRun
  <2>. QED  BY <1>0, <1>8, <2>2, <2>3, ClaimCases, Zenon
<1>9. ASSUME NEW w \in work, Finish(w) PROVE RunningIsRun'
  <2>0. w.key \in Key
    BY WorkHasMessage, Zenon
  <2>1. /\ work' = work \ {w} /\ row'[w.key] # "running"
        /\ \A j \in Key : j # w.key => row'[j] = row[j]
    BY <1>0, <1>9, <2>0, TypeFacts, Zenon DEF Finish
  <2>. QED  BY <2>1, Zenon DEF RunningIsRun
<1>10. CASE Restart
  <2>1. \A j \in Key : row'[j] # "running"
    BY <1>0, <1>10, RestartEffects, Zenon
  <2>. QED  BY <2>1, Zenon DEF RunningIsRun
<1>11. CASE UNCHANGED vars
  BY <1>11, Zenon DEF vars, RunningIsRun
<1>. QED  BY <1>1, <1>2, <1>3, <1>4, <1>5, <1>6, <1>7, <1>8, <1>9, <1>10, <1>11, Zenon DEF Next, Serve, Drain, Handle

\* A row is run by one run at a time, and a running row is always some run's.
\* The second half assumes what it needs: no claim's answer is lost, and an
\* issue belongs to one identity.
THEOREM RunsAreKept ==
    ASSUME "lost" \notin Faults, \A i, j \in Identity : i = j PROVE Spec => []RunByOne
<1>1. Init => RunningIsRun
  BY Zenon DEF Init, RunningIsRun
<1>2. BaseInv /\ RunningIsRun /\ [Next]_vars => RunningIsRun'
  BY RunningStep, Zenon
<1>3. BaseInv /\ RunningIsRun => RunByOne
  <2> SUFFICES ASSUME BaseInv, RunningIsRun, NEW k \in Key
               PROVE  Cardinality(Executing(k)) <= 1 /\ (row[k] = "running" => Executing(k) # {})
    BY Zenon DEF RunByOne
  <2>. QED  BY AtMostOne, Zenon DEF RunningIsRun, Executing
<1>. QED  BY <1>1, <1>2, <1>3, BaseHolds, PTL DEF Spec
-----------------------------------------------------------------------------
(***************************************************************************)
(* Work declined                                                           *)
(***************************************************************************)

\* The steps that leave every declined row declined, and decline none.
LEMMA OtherRows ==
    ASSUME BaseInv, \/ \E r \in Rule, k \in Key : Assign(r, k) \/ Withdrawal(r, k)
                    \/ \E r \in Rule : Reload(r)
                    \/ \E i \in Identity : \/ SetLifecycle(i) \/ ListIssues(i) \/ WithdrawUnpolled(i)
                                           \/ Publish(i) \/ \E n \in Issue : Lookup(i, n)
                    \/ \E e \in hooks : LoseHook(e)
                    \/ \E k \in Key : ForgetKey(k)
                    \/ \E m \in Msg : AckWaitElapsed(m) \/ Fetch(m)
                    \/ ClaimNext \/ Restart
                    \/ \E w \in work : Enqueue(w) \/ Claim(w) \/ Finish(w)
    PROVE  \A j \in Key : row'[j] = "declined" <=> row[j] = "declined"
<1>0. TypeOK
  BY Zenon DEF BaseInv
<1>1. CASE \/ \E r \in Rule, k \in Key : Assign(r, k) \/ Withdrawal(r, k)
           \/ \E r \in Rule : Reload(r)
           \/ \E i \in Identity : SetLifecycle(i)
  <2>1. row' = row
    BY <1>0, <1>1, PeopleEffects, Zenon
  <2>. QED  BY <2>1, Zenon
<1>2. CASE \E i \in Identity : ListIssues(i) \/ WithdrawUnpolled(i) \/ Publish(i) \/ \E n \in Issue : Lookup(i, n)
  <2>1. row' = row
    BY <1>0, <1>2, ListEffects, UnpolledEffects, PublishEffects, LookupEffects, Zenon
  <2>. QED  BY <2>1, Zenon
<1>3. CASE \/ \E e \in hooks : LoseHook(e)
           \/ \E k \in Key : ForgetKey(k)
           \/ \E m \in Msg : AckWaitElapsed(m) \/ Fetch(m)
  <2>1. row' = row
    BY <1>3, Zenon DEF LoseHook, ForgetKey, AckWaitElapsed, Fetch
  <2>. QED  BY <2>1, Zenon
<1>4. CASE ClaimNext
  <2>1. PICK k \in Key : row[k] = "queued" /\ row' = Started({k})
    BY <1>0, <1>4, ClaimNextCases, Zenon
  <2>. QED  BY <1>0, <2>1, RowMoves, Zenon
<1>5. CASE Restart
  BY <1>0, <1>5, RestartEffects, Zenon
<1>6. ASSUME NEW w \in work, Enqueue(w) PROVE \A j \in Key : row'[j] = "declined" <=> row[j] = "declined"
  <2>1. w.key \in Key /\ row' \in {row, EnqueueIssue(w.key)}
    BY <1>0, <1>6, WorkHasMessage, EnqueueCases, ZenonT(30)
  <2>2. \A j \in Key : EnqueueIssue(w.key)[j] = "declined" <=> row[j] = "declined"
    <3> TAKE j \in Key
    <3>1. EnqueueIssue(w.key)[j] = IF j = w.key /\ row[w.key] = "none" THEN "queued" ELSE row[j]
      BY <1>0, <2>1, RowMoves, Zenon
    <3>. QED  BY <3>1, Zenon
  <2>3. CASE row' = row
    BY <2>3, Zenon
  <2>4. CASE row' = EnqueueIssue(w.key)
    BY <2>2, <2>4, Zenon
  <2>. QED  BY <2>1, <2>3, <2>4, Zenon
<1>7. ASSUME NEW w \in work, Claim(w) PROVE \A j \in Key : row'[j] = "declined" <=> row[j] = "declined"
  <2>1. row' \in {row, Started(Claimed(w.key[2]))}
    BY <1>0, <1>7, ClaimCases, Zenon
  <2>2. \A j \in Claimed(w.key[2]) : row[j] = "queued"
    BY Zenon DEF Claimed
  <2>3. \A j \in Key : Started(Claimed(w.key[2]))[j] = "declined" <=> row[j] = "declined"
    <3> TAKE j \in Key
    <3>1. Started(Claimed(w.key[2]))[j] = IF j \in Claimed(w.key[2]) THEN "running" ELSE row[j]
      BY <1>0, RowMoves, ZenonT(30)
    <3>. QED  BY <2>2, <3>1, Zenon
  <2>4. CASE row' = row
    BY <2>4, Zenon
  <2>5. CASE row' = Started(Claimed(w.key[2]))
    BY <2>3, <2>5, Zenon
  <2>. QED  BY <2>1, <2>4, <2>5, Zenon
<1>8. ASSUME NEW w \in work, Finish(w) PROVE \A j \in Key : row'[j] = "declined" <=> row[j] = "declined"
  BY <1>0, <1>8, TypeFacts, WorkHasMessage, Zenon DEF Finish
<1>. QED  BY <1>1, <1>2, <1>3, <1>4, <1>5, <1>6, <1>7, <1>8, Zenon

\* Work declined stays declined: no redelivery, recovery, claim or late end of
\* the cancelled run brings it back (Withdraw, EnqueueIssue, ClaimByIssue,
\* RecoverStale and process's settling write).
THEOREM DeclinedStays == Spec => DeclinedIsFinal
<1>1. BaseInv /\ [Next]_vars => [\A k \in Key : row[k] = "declined" => row'[k] = "declined"]_vars
  <2> SUFFICES ASSUME BaseInv, Next, NEW k \in Key, row[k] = "declined" PROVE row'[k] = "declined"
    BY Zenon
  <2>0. TypeOK
    BY Zenon DEF BaseInv
  <2>1. ASSUME NEW i \in Identity, NEW j \in Key, WithdrawTask(i, j) PROVE row'[k] = "declined"
    <3>1. row' \in {row, Withdraw(j)}
      BY <2>0, <2>1, WithdrawTaskEffects, Zenon
    <3>2. Withdraw(j)[k] = "declined"
      BY <2>0, RowMoves, Zenon
    <3>. QED  BY <3>1, <3>2, Zenon
  <2>2. ASSUME NEW e \in hooks, ServeIssueEvent(e) PROVE row'[k] = "declined"
    <3>1. e.key \in Key /\ row' \in {row, Withdraw(e.key)}
      BY <2>0, <2>2, ServeCases, Zenon
    <3>. QED  BY <2>0, <3>1, RowMoves
  <2>. QED  BY <2>1, <2>2, OtherRows, Zenon DEF Next, Poll, Serve, Drain, Handle
<1>. QED  BY <1>1, BaseHolds, PTL DEF Spec, DeclinedIsFinal

\* The passes stay right when the loops do nothing: a key leaves a rule's
\* selection only by being withdrawn.
LEMMA PassesStay ==
    ASSUME TypeOK, PassesAreRight, poll' = poll, last' = last, withdrawn \subseteq withdrawn',
           \A r \in Rule : eligible[r] \subseteq eligible'[r] \cup withdrawn'
    PROVE  PassesAreRight'
<1> SUFFICES ASSUME NEW i \in Identity
             PROVE  /\ last[i] # Unseen => \A n \in last[i].eligible : Selected(i, last[i].rule, n)'
                    /\ poll[i].pc = "listed" =>
                          /\ \A n \in poll[i].found : Selected(i, poll[i].rule, n)'
                          /\ last[i] # Unseen /\ last[i].rule = poll[i].rule =>
                                \A n \in last[i].eligible \ poll[i].found : <<i, n>> \in withdrawn'
                    /\ poll[i].pc = "withdrawing" => poll[i].drop \subseteq withdrawn'
  BY Zenon DEF PassesAreRight, Selected
<1>1. \A r \in Rule : \A n : Selected(i, r, n) => Selected(i, r, n)'
  BY Zenon DEF Selected
<1>2. poll[i].rule \in Rule /\ (last[i] # Unseen => last[i].rule \in Rule)
  BY TypeFacts, Zenon DEF Pass
<1>. QED  BY <1>1, <1>2, Zenon DEF PassesAreRight

\* What the forge withdraws is withdrawn from then on.
LEMMA PeopleWithdraw ==
    ASSUME TypeOK, WithdrawInv, row' = row, poll' = poll, last' = last,
           \/ \E r \in Rule, k \in Key : Assign(r, k) \/ Withdrawal(r, k)
           \/ \E r \in Rule : Reload(r)
           \/ \E i \in Identity : SetLifecycle(i)
    PROVE  WithdrawInv'
<1> DEFINE Grows == /\ withdrawn \subseteq withdrawn'
                    /\ \A r \in Rule : eligible[r] \subseteq eligible'[r] \cup withdrawn'
                    /\ \A e \in hooks' : e \in hooks \/ e.on \/ e.key \in withdrawn'
<1>1. ASSUME NEW r \in Rule, NEW k \in Key, Assign(r, k) PROVE Grows
  BY <1>1 DEF Assign, Hook, TypeOK
<1>2. ASSUME NEW r \in Rule, NEW k \in Key, Withdrawal(r, k) PROVE Grows
  BY <1>2 DEF Withdrawal, Hook, TypeOK
<1>3. ASSUME NEW r \in Rule, Reload(r) PROVE Grows
  BY <1>3, Zenon DEF Reload, web
<1>4. ASSUME NEW i \in Identity, SetLifecycle(i) PROVE Grows
  BY <1>4, Zenon DEF SetLifecycle, web
<1>5. Grows
  BY <1>1, <1>2, <1>3, <1>4, Zenon
<1>6. PassesAreRight'
  BY <1>5, PassesStay, Zenon DEF WithdrawInv
<1>7. \A e \in hooks' : ~e.on => e.key \in withdrawn'
  BY <1>5, Zenon DEF WithdrawInv
<1>8. DeclinedWasWithdrawn'
  BY <1>5, Zenon DEF WithdrawInv, DeclinedWasWithdrawn
<1>. QED  BY <1>6, <1>7, <1>8, Zenon DEF WithdrawInv

\* The invariant for the loop of one identity.
PassIsRight(i) ==
    /\ last[i] # Unseen => \A n \in last[i].eligible : Selected(i, last[i].rule, n)
    /\ poll[i].pc = "listed" =>
          /\ \A n \in poll[i].found : Selected(i, poll[i].rule, n)
          /\ last[i] # Unseen /\ last[i].rule = poll[i].rule =>
                \A n \in last[i].eligible \ poll[i].found : <<i, n>> \in withdrawn
    /\ poll[i].pc = "withdrawing" => poll[i].drop \subseteq withdrawn

\* The other loops are as they were.
LEMMA OneLoopMoves ==
    ASSUME PassesAreRight, NEW i \in Identity, UNCHANGED forge,
           \A j \in Identity : j # i => poll'[j] = poll[j] /\ last'[j] = last[j],
           PassIsRight(i)'
    PROVE  PassesAreRight'
<1>1. ASSUME NEW j \in Identity, j # i PROVE PassIsRight(j)'
  <2>1. PassIsRight(j)
    BY Zenon DEF PassesAreRight, PassIsRight
  <2>2. eligible' = eligible /\ withdrawn' = withdrawn /\ poll'[j] = poll[j] /\ last'[j] = last[j]
    BY <1>1, Zenon DEF forge
  <2>. QED  BY <2>1, <2>2, Zenon DEF PassIsRight, Selected
<1>2. \A j \in Identity : PassIsRight(j)'
  BY <1>1, Zenon
<1>. QED  BY <1>2, ZenonT(30) DEF PassesAreRight, PassIsRight

\* A pass lists what the rule selects: of what it listed under the same rule
\* before, it misses only what was withdrawn.
LEMMA ListPasses == ASSUME TypeOK, PassesAreRight, NEW i \in Identity, ListIssues(i) PROVE PassesAreRight'
<1>1. PICK found \in SUBSET Issue, r \in {"ok", "fail"} :
        /\ \A n \in found : <<i, n>> \in eligible[rule]
        /\ r = "ok" => \A n \in Issue : <<i, n>> \in eligible[rule] => n \in found
        /\ Loop(i, IF r = "ok" THEN [Idle EXCEPT !.pc = "listed", !.rule = rule, !.found = found] ELSE Publishing(found))
  BY Zenon DEF ListIssues
<1>2. last' = last /\ UNCHANGED forge
  BY ListEffects, Zenon
<1>3. PICK p : p = IF r = "ok" THEN [Idle EXCEPT !.pc = "listed", !.rule = rule, !.found = found] ELSE Publishing(found)
  BY Zenon
<1>4. /\ p \in Pass /\ Loop(i, p)
      /\ r = "ok" => p.pc = "listed" /\ p.rule = rule /\ p.found = found
      /\ r # "ok" => p.pc \in {"idle", "publishing"}
  BY <1>1, <1>3, PassTypes, ZenonT(30)
<1>5. poll'[i] = p /\ \A j \in Identity : j # i => poll'[j] = poll[j]
  BY <1>4, LoopTypes, Zenon
<1>6. eligible' = eligible /\ withdrawn' = withdrawn
  BY <1>2, Zenon DEF forge
<1>7. last[i] # Unseen => last[i].eligible \in SUBSET Issue
  BY TypeFacts, Zenon
<1>8. PassIsRight(i)'
  <2>1. last[i] # Unseen => \A n \in last[i].eligible : Selected(i, last[i].rule, n)
    BY ZenonT(30) DEF PassesAreRight
  <2>2. CASE r # "ok"
    BY <1>2, <1>4, <1>5, <1>6, <2>1, <2>2, Zenon DEF PassIsRight, Selected
  <2>3. CASE r = "ok"
    <3>1. \A n \in found : Selected(i, rule, n)
      BY <1>1, Zenon DEF Selected
    <3>2. last[i] # Unseen /\ last[i].rule = rule => \A n \in last[i].eligible \ found : <<i, n>> \in withdrawn
      BY <1>1, <1>7, <2>3, Zenon DEF PassesAreRight, Selected
    <3>. QED  BY <1>2, <1>4, <1>5, <1>6, <2>1, <2>3, <3>1, <3>2, Zenon DEF PassIsRight, Selected
  <2>. QED  BY <2>2, <2>3, Zenon
<1>. QED  BY <1>2, <1>5, <1>8, OneLoopMoves, Zenon

\* A pass that records under the rule it listed with is about to decline only
\* what was withdrawn.
LEMMA UnpolledPasses ==
    ASSUME TypeOK, setup.intake # "root", PassesAreRight, NEW i \in Identity, WithdrawUnpolled(i)
    PROVE  PassesAreRight'
<1>1. PICK r \in {"ok", "fail"} :
        LET drop == IF r = "ok" THEN Withdrawn(i, PassRule(i)) ELSE {}
        IN  Loop(i, IF drop = {} THEN Publishing(poll[i].found) ELSE [poll[i] EXCEPT !.pc = "withdrawing", !.drop = drop])
  BY Zenon DEF WithdrawUnpolled
<1>2. UNCHANGED forge
  BY UnpolledEffects, Zenon
<1>3. poll[i] \in Pass /\ poll[i].found \in SUBSET Issue /\ poll[i].pc = "listed"
  BY TypeFacts, Zenon DEF Pass, WithdrawUnpolled
<1>4. PassRule(i) = poll[i].rule
  BY Zenon DEF PassRule
<1>5. PICK drop : drop = IF r = "ok" THEN Withdrawn(i, PassRule(i)) ELSE {}
  BY Zenon
<1>6. drop \in SUBSET Key /\ drop \subseteq withdrawn
  <2>1. drop \subseteq Withdrawn(i, poll[i].rule)
    BY <1>4, <1>5, Zenon
  <2>2. Withdrawn(i, poll[i].rule) \subseteq Key
    BY Zenon DEF Withdrawn
  <2>3. ASSUME NEW k \in Withdrawn(i, poll[i].rule) PROVE k \in withdrawn
    <3>1. /\ k \in Key /\ k[1] = i /\ last[i] # Unseen /\ last[i].rule = poll[i].rule
          /\ k[2] \in last[i].eligible \ poll[i].found
      BY <2>3, Zenon DEF Withdrawn
    <3>2. <<i, k[2]>> \in withdrawn
      BY <1>3, <3>1, Zenon DEF PassesAreRight
    <3>. QED  BY <3>1, <3>2, KeyPairs, Zenon
  <2>. QED  BY <2>1, <2>2, <2>3, Zenon
<1>7. PICK p : p = IF drop = {} THEN Publishing(poll[i].found) ELSE [poll[i] EXCEPT !.pc = "withdrawing", !.drop = drop]
  BY Zenon
<1>8. /\ p \in Pass /\ Loop(i, p) /\ p.pc # "listed" /\ (p.pc = "withdrawing" => p.drop = drop)
  <2>1. CASE drop = {}
    <3>1. p = Publishing(poll[i].found) /\ Loop(i, p)
      BY <1>1, <1>5, <1>7, <2>1, Zenon
    <3>. QED  BY <1>3, <3>1, PassTypes, Zenon
  <2>2. CASE drop # {}
    <3>1. p = [poll[i] EXCEPT !.pc = "withdrawing", !.drop = drop] /\ Loop(i, p)
      BY <1>1, <1>5, <1>7, <2>2, Zenon
    <3>2. p \in Pass /\ p.pc = "withdrawing" /\ p.drop = drop
      <4>1. \A q \in Pass, d \in SUBSET Key :
               LET u == [q EXCEPT !.pc = "withdrawing", !.drop = d]
               IN  u \in Pass /\ u.pc = "withdrawing" /\ u.drop = d
        BY PassTypes, ZenonT(30)
      <4>. QED  BY <1>3, <1>6, <3>1, <4>1, Zenon
    <3>. QED  BY <3>1, <3>2, Zenon
  <2>. QED  BY <2>1, <2>2, Zenon
<1>9. poll'[i] = p /\ \A j \in Identity : j # i => poll'[j] = poll[j]
  BY <1>8, LoopTypes, Zenon
<1>10. /\ last'[i] = [rule |-> poll[i].rule, eligible |-> poll[i].found]
       /\ \A j \in Identity : j # i => last'[j] = last[j]
  BY <1>4, TypeFacts, Zenon DEF WithdrawUnpolled
<1>11. eligible' = eligible /\ withdrawn' = withdrawn
  BY <1>2, Zenon DEF forge
<1>12. \A n \in poll[i].found : Selected(i, poll[i].rule, n)
  BY <1>3, Zenon DEF PassesAreRight
<1>13. PassIsRight(i)'
  <2>1. poll'[i].pc # "listed" /\ (poll'[i].pc = "withdrawing" => poll'[i].drop \subseteq withdrawn')
    BY <1>6, <1>8, <1>9, <1>11, Zenon
  <2>2. last'[i].rule = poll[i].rule /\ last'[i].eligible = poll[i].found
    BY <1>10
  <2>. QED  BY <1>11, <1>12, <2>1, <2>2, Zenon DEF PassIsRight, Selected
<1>. QED  BY <1>2, <1>9, <1>10, <1>13, OneLoopMoves, Zenon

\* The rest of a pass lists nothing and declines no more.
LEMMA RestOfPass ==
    ASSUME TypeOK, PassesAreRight, NEW i \in Identity,
           Publish(i) \/ (\E n \in Issue : Lookup(i, n)) \/ \E k \in Key : WithdrawTask(i, k)
    PROVE  PassesAreRight'
<1>0. last' = last /\ UNCHANGED forge
  BY PublishEffects, LookupEffects, WithdrawTaskEffects, Zenon
<1>1. eligible' = eligible /\ withdrawn' = withdrawn
  BY <1>0, Zenon DEF forge
<1>2. poll[i] \in Pass /\ poll[i].found \in SUBSET Issue /\ poll[i].todo \in SUBSET Issue
  BY TypeFacts, Zenon DEF Pass
<1>3. SUFFICES ASSUME NEW p \in Pass, Loop(i, p), p.pc \in {"idle", "publishing", "withdrawing"},
                      p.pc = "withdrawing" => poll[i].pc = "withdrawing" /\ p.drop \subseteq poll[i].drop
               PROVE  PassesAreRight'
  <2>1. CASE Publish(i)
    <3>1. poll[i].todo \ poll[i].at \in SUBSET Issue
      BY <1>2, Zenon
    <3>2. Published(i) \in Pass /\ Published(i).pc \in {"idle", "publishing"}
      BY <3>1, PassTypes, Zenon DEF Published
    <3>. QED  BY <1>3, <2>1, <3>2, ZenonT(30) DEF Publish
  <2>2. ASSUME NEW n \in Issue, Lookup(i, n) PROVE PassesAreRight'
    <3>1. PICK p : /\ p \in {Publishing(poll[i].todo \ {n}), [poll[i] EXCEPT !.at = {n}]}
                   /\ Loop(i, p)
      BY <2>2, Zenon DEF Lookup
    <3>2. poll[i].todo \ {n} \in SUBSET Issue /\ poll[i].pc = "publishing"
      BY <1>2, <2>2, Zenon DEF Lookup
    <3>3. [poll[i] EXCEPT !.at = {n}] \in Pass /\ [poll[i] EXCEPT !.at = {n}].pc = "publishing"
      BY <1>2, <3>2, Zenon DEF Pass
    <3>4. p \in Pass /\ p.pc \in {"idle", "publishing"}
      <4>1. Publishing(poll[i].todo \ {n}) \in Pass /\ Publishing(poll[i].todo \ {n}).pc \in {"idle", "publishing"}
        BY <3>2, PassTypes, Zenon
      <4>. QED  BY <3>1, <3>3, <4>1, Zenon
    <3>. QED  BY <1>3, <3>1, <3>4, Zenon
  <2>3. ASSUME NEW k \in Key, WithdrawTask(i, k) PROVE PassesAreRight'
    <3>1. PICK p : /\ p \in {Publishing(poll[i].found), [poll[i] EXCEPT !.drop = @ \ {k}]}
                   /\ Loop(i, p)
      BY <2>3, Zenon DEF WithdrawTask
    <3>2. poll[i].pc = "withdrawing"
      BY <2>3, Zenon DEF WithdrawTask
    <3>3. CASE p = Publishing(poll[i].found)
      <4>1. p \in Pass /\ p.pc \in {"idle", "publishing"}
        BY <1>2, <3>3, PassTypes, Zenon
      <4>. QED  BY <1>3, <3>1, <4>1, Zenon
    <3>4. CASE p = [poll[i] EXCEPT !.drop = @ \ {k}]
      <4>1. p \in Pass /\ p.pc = "withdrawing" /\ p.drop = poll[i].drop \ {k}
        BY <1>2, <3>2, <3>4, Zenon DEF Pass
      <4>. QED  BY <1>3, <3>1, <3>2, <4>1, Zenon
    <3>. QED  BY <3>1, <3>3, <3>4, Zenon
  <2>. QED  BY <2>1, <2>2, <2>3, ZenonT(30)
<1>4. poll'[i] = p /\ \A j \in Identity : j # i => poll'[j] = poll[j]
  BY <1>3, LoopTypes, Zenon
<1>5. PassIsRight(i)
  BY ZenonT(30) DEF PassesAreRight, PassIsRight
<1>6. PassIsRight(i)'
  BY <1>0, <1>1, <1>3, <1>4, <1>5, ZenonT(30) DEF PassIsRight, Selected
<1>. QED  BY <1>0, <1>4, <1>6, OneLoopMoves, Zenon

\* Every step declines only what was withdrawn, where the rule a pass records
\* under is the one it listed with.
LEMMA WithdrawStep ==
    ASSUME BaseInv, setup.intake # "root", WithdrawInv, [Next]_vars PROVE WithdrawInv'
<1>0. TypeOK /\ PassesAreRight /\ DeclinedWasWithdrawn /\ \A e \in hooks : ~e.on => e.key \in withdrawn
  BY Zenon DEF BaseInv, WithdrawInv
<1>a. ASSUME PassesAreRight', UNCHANGED forge, hooks' \subseteq hooks,
             \A j \in Key : row'[j] = "declined" => row[j] = "declined" \/ j \in withdrawn
      PROVE  WithdrawInv'
  <2>1. withdrawn' = withdrawn
    BY <1>a, Zenon DEF forge
  <2>. QED  BY <1>0, <1>a, <2>1, Zenon DEF WithdrawInv, DeclinedWasWithdrawn
<1>b. ASSUME UNCHANGED forge, poll' = poll, last' = last PROVE PassesAreRight'
  <2>1. withdrawn' = withdrawn /\ eligible' = eligible
    BY <1>b, Zenon DEF forge
  <2>. QED  BY <1>0, <1>b, <2>1, PassesStay, Zenon
<1>1. CASE \/ \E r \in Rule, k \in Key : Assign(r, k) \/ Withdrawal(r, k)
           \/ \E r \in Rule : Reload(r)
           \/ \E i \in Identity : SetLifecycle(i)
  <2>1. row' = row /\ poll' = poll /\ last' = last
    BY <1>0, <1>1, PeopleEffects, Zenon
  <2>. QED  BY <1>0, <1>1, <2>1, PeopleWithdraw, Zenon
<1>2. ASSUME NEW i \in Identity, ListIssues(i) \/ WithdrawUnpolled(i) \/ Publish(i) \/ \E n \in Issue : Lookup(i, n)
      PROVE  WithdrawInv'
  <2>1. PassesAreRight'
    BY <1>0, <1>2, ListPasses, UnpolledPasses, RestOfPass, Zenon
  <2>2. UNCHANGED forge /\ UNCHANGED web /\ row' = row
    BY <1>0, <1>2, ListEffects, UnpolledEffects, PublishEffects, LookupEffects, ZenonT(30)
  <2>. QED  BY <1>a, <2>1, <2>2, Zenon DEF web
<1>3. ASSUME NEW i \in Identity, NEW k \in Key, WithdrawTask(i, k) PROVE WithdrawInv'
  <2>1. PassesAreRight'
    BY <1>0, <1>3, RestOfPass, Zenon
  <2>2. /\ row' \in {row, Withdraw(k)} /\ k \in poll[i].drop /\ poll[i].pc = "withdrawing"
        /\ UNCHANGED forge /\ UNCHANGED web
    BY <1>0, <1>3, WithdrawTaskEffects, Zenon
  <2>3. k \in withdrawn
    BY <1>0, <2>2, Zenon DEF PassesAreRight
  <2>4. \A j \in Key : row'[j] = "declined" => row[j] = "declined" \/ j \in withdrawn
    BY <1>0, <2>2, <2>3, RowMoves
  <2>. QED  BY <1>a, <2>1, <2>2, <2>4, Zenon DEF web
<1>4. ASSUME NEW e \in hooks, ServeIssueEvent(e) PROVE WithdrawInv'
  <2>1. /\ hooks' \subseteq hooks /\ UNCHANGED <<poll, last>> /\ UNCHANGED forge /\ e.key \in Key
        /\ row' = row \/ (~e.on /\ row' = Withdraw(e.key))
    BY <1>0, <1>4, ServeCases, Zenon
  <2>2. \A j \in Key : row'[j] = "declined" => row[j] = "declined" \/ j \in withdrawn
    BY <1>0, <2>1, RowMoves
  <2>. QED  BY <1>a, <1>b, <2>1, <2>2, ZenonT(30)
<1>5. CASE \/ \E e \in hooks : LoseHook(e)
           \/ \E k \in Key : ForgetKey(k)
           \/ \E m \in Msg : AckWaitElapsed(m) \/ Fetch(m)
           \/ ClaimNext
           \/ \E w \in work : Enqueue(w) \/ Claim(w) \/ Finish(w)
  <2>1. \A j \in Key : row'[j] = "declined" => row[j] = "declined"
    BY <1>5, OtherRows, Zenon
  <2>2. UNCHANGED forge /\ poll' = poll /\ last' = last
    BY <1>5, ZenonT(30) DEF LoseHook, ForgetKey, AckWaitElapsed, Fetch, ClaimNext, Enqueue, Claim, Finish, loops
  <2>3. hooks' \subseteq hooks
    BY <1>5, Zenon DEF LoseHook, ForgetKey, AckWaitElapsed, Fetch, ClaimNext, Enqueue, Claim, Finish, web
  <2>. QED  BY <1>a, <1>b, <2>1, <2>2, <2>3, Zenon
<1>6. CASE Restart
  <2>1. \A j \in Key : row'[j] = "declined" => row[j] = "declined"
    BY <1>6, OtherRows, Zenon
  <2>2. /\ poll' = [i \in Identity |-> Idle] /\ last' = [i \in Identity |-> Unseen]
        /\ UNCHANGED hooks /\ UNCHANGED forge
    BY <1>0, <1>6, RestartEffects, Zenon
  <2>3. Idle.pc = "idle"
    BY <1>0, PassTypes, ZenonT(30)
  <2>4. PassesAreRight'
    BY <2>2, <2>3, Zenon DEF PassesAreRight
  <2>. QED  BY <1>a, <2>1, <2>2, <2>4, Zenon
<1>7. CASE UNCHANGED vars
  <2>1. UNCHANGED forge /\ poll' = poll /\ last' = last /\ hooks' = hooks /\ row' = row
    BY <1>7, Zenon DEF vars, forge
  <2>. QED  BY <1>a, <1>b, <2>1, Zenon
<1>. QED  BY <1>1, <1>2, <1>3, <1>4, <1>5, <1>6, <1>7, Zenon DEF Next, Poll, Serve, Drain, Handle

\* The install never changes.
LEMMA SetupStays == [Next]_vars => setup' = setup
BY ZenonT(30) DEF vars, Next, Poll, Serve, Drain, Handle, Assign, Withdrawal, Reload, SetLifecycle, ListIssues, WithdrawUnpolled,
       Publish, Lookup, WithdrawTask, ForgetKey, AckWaitElapsed, ServeIssueEvent, LoseHook, Fetch, ClaimNext, Enqueue,
       Claim, Finish, Restart, forge

\* Work is declined only when the forge withdrew it, however polls fail, rules
\* change, webhooks race and the daemon restarts (withdrawUnpolled,
\* ServeIssueEvent).  The root identity's poll, which reads the configuration a
\* second time for the rule it records, is left out: a reload between the two
\* reads breaks it.
THEOREM OnlyWithdrawnIsDeclined ==
    ASSUME \A s \in Setups : s.intake # "root" PROVE Spec => []DeclinedWasWithdrawn
<1> DEFINE NotRoot == setup.intake # "root"
<1>1. Init => NotRoot /\ WithdrawInv
  <2> SUFFICES ASSUME Init PROVE NotRoot /\ WithdrawInv
    BY Zenon
  <2>1. TypeOK
    BY BaseInit, Zenon DEF BaseInv
  <2>2. Idle.pc = "idle"
    BY <2>1, PassTypes, Zenon
  <2>. QED  BY <2>2, Zenon DEF Init, WithdrawInv, PassesAreRight, DeclinedWasWithdrawn
<1>2. BaseInv /\ NotRoot /\ WithdrawInv /\ [Next]_vars => NotRoot' /\ WithdrawInv'
  BY SetupStays, WithdrawStep, Zenon
<1>3. WithdrawInv => DeclinedWasWithdrawn
  BY Zenon DEF WithdrawInv
<1>. QED  BY <1>1, <1>2, <1>3, BaseHolds, PTL DEF Spec
-----------------------------------------------------------------------------
(***************************************************************************)
(* Work accepted                                                           *)
(***************************************************************************)

\* An entry is not the mark of an empty slot.
LEMMA EntryIsThere == ASSUME NEW x \in Entry PROVE x # NoMsg
<1>1. Entry \subseteq [key : Identity \X Issue, n : Nat, out : BOOLEAN]
  BY IntakeAssumption DEF Entry, Key
<1>. QED  BY <1>1, IntakeAssumption, Zenon

\* What acknowledging and refusing do to each slot.
LEMMA StreamMoves ==
    ASSUME TypeOK, NEW m \in Msg
    PROVE  /\ Ack(m)[m] = NoMsg /\ \A x \in Msg : x # m => Ack(m)[x] = stream[x]
           /\ Ack(NoMsg) = stream
           /\ \A x \in Msg : x # m => Nak(m)[x] = stream[x]
           /\ stream[m] # NoMsg => /\ stream[m] \in Entry /\ Nak(m)[m] # NoMsg /\ Nak(m)[m].key = stream[m].key
                                   /\ Nak(m)[m].n = stream[m].n
           /\ stream[m] = NoMsg => Nak(m)[m] = NoMsg
<1>0. stream \in [Msg -> {NoMsg} \cup Entry] /\ m # NoMsg
  BY TypeFacts, IntakeAssumption, Zenon DEF Msg
<1>1. Ack(m)[m] = NoMsg /\ (\A x \in Msg : x # m => Ack(m)[x] = stream[x]) /\ Ack(NoMsg) = stream
  BY <1>0, Zenon DEF Ack
<1>2. CASE stream[m] = NoMsg
  BY <1>1, <1>2, Zenon DEF Nak
<1>3. CASE stream[m] # NoMsg
  <2>1. stream[m] \in Entry
    BY <1>0, <1>3, Zenon
  <2>2. PICK x : x = [stream[m] EXCEPT !.out = FALSE]
    BY Zenon
  <2>3. x \in Entry /\ x.key = stream[m].key /\ x.n = stream[m].n
    BY <2>1, <2>2, Zenon DEF Entry
  <2>4. Nak(m) = [stream EXCEPT ![m] = x]
    BY <1>0, <1>3, <2>2, Zenon DEF Nak
  <2>5. Nak(m)[m] = x /\ \A y \in Msg : y # m => Nak(m)[y] = stream[y]
    BY <1>0, <2>4, Zenon
  <2>. QED  BY <1>1, <1>3, <2>1, <2>3, <2>5, EntryIsThere, Zenon
<1>. QED  BY <1>2, <1>3, Zenon

\* No row goes away.
LEMMA RowsStay == ASSUME BaseInv, [Next]_vars PROVE \A j \in Key : row[j] # "none" => row'[j] # "none"
<1>0. TypeOK
  BY Zenon DEF BaseInv
<1>1. CASE \/ \E r \in Rule, k \in Key : Assign(r, k) \/ Withdrawal(r, k)
           \/ \E r \in Rule : Reload(r)
           \/ \E i \in Identity : SetLifecycle(i)
  <2>1. row' = row
    BY <1>0, <1>1, PeopleEffects, Zenon
  <2>. QED  BY <2>1, Zenon
<1>2. CASE \E i \in Identity : ListIssues(i) \/ WithdrawUnpolled(i) \/ Publish(i) \/ \E n \in Issue : Lookup(i, n)
  <2>1. row' = row
    BY <1>0, <1>2, ListEffects, UnpolledEffects, PublishEffects, LookupEffects, ZenonT(30)
  <2>. QED  BY <2>1, Zenon
<1>3. CASE \/ \E e \in hooks : LoseHook(e)
           \/ \E k \in Key : ForgetKey(k)
           \/ \E m \in Msg : AckWaitElapsed(m) \/ Fetch(m)
           \/ UNCHANGED vars
  <2>1. row' = row
    BY <1>3, Zenon DEF LoseHook, ForgetKey, AckWaitElapsed, Fetch, vars
  <2>. QED  BY <2>1, Zenon
<1>4. CASE ClaimNext
  <2>1. PICK k \in Key : row[k] = "queued" /\ row' = Started({k})
    BY <1>0, <1>4, ClaimNextCases, Zenon
  <2>. QED  BY <1>0, <2>1, RowMoves, Zenon
<1>5. CASE Restart
  BY <1>0, <1>5, RestartEffects, Zenon
<1>6. ASSUME NEW w \in work, Enqueue(w) \/ Claim(w) PROVE \A j \in Key : row[j] # "none" => row'[j] # "none"
  <2>1. w.key \in Key /\ row' \in {row, EnqueueIssue(w.key), Started(Claimed(w.key[2]))}
    BY <1>0, <1>6, WorkHasMessage, EnqueueCases, ClaimCases, ZenonT(30)
  <2>. QED  BY <1>0, <2>1, RowMoves
<1>7. ASSUME NEW w \in work, Finish(w) PROVE \A j \in Key : row[j] # "none" => row'[j] # "none"
  BY <1>0, <1>7, TypeFacts, WorkHasMessage, Zenon DEF Finish
<1>8. ASSUME NEW i \in Identity, NEW k \in Key, WithdrawTask(i, k) PROVE \A j \in Key : row[j] # "none" => row'[j] # "none"
  BY <1>0, <1>8, WithdrawTaskEffects, RowMoves
<1>9. ASSUME NEW e \in hooks, ServeIssueEvent(e) PROVE \A j \in Key : row[j] # "none" => row'[j] # "none"
  <2>1. e.key \in Key /\ row' \in {row, Withdraw(e.key)}
    BY <1>0, <1>9, ServeCases, Zenon
  <2>. QED  BY <1>0, <2>1, RowMoves
<1>. QED  BY <1>1, <1>2, <1>3, <1>4, <1>5, <1>6, <1>7, <1>8, <1>9, Zenon DEF Next, Poll, Serve, Drain, Handle

\* A message that is not out has no handler, and was delivered fewer times than
\* allowed: no slot in use is free.
LEMMA NotExhausted ==
    ASSUME BaseInv, HandlersHold, MaxFaults < MaxDeliver, NEW m \in Msg, stream[m] # NoMsg, ~stream[m].out
    PROVE  ~Handled(m) /\ stream[m].n < MaxDeliver /\ ~Free(m)
<1>1. ~Handled(m)
  <2>1. \A w \in work : w.msg = m => w.msg # NoMsg
    BY IntakeAssumption, Zenon DEF Msg
  <2>. QED  BY <2>1, Zenon DEF HandlersHold, Handled
<1>2. stream[m].n <= faults
  <2>1. stream[m].n <= faults + 0
    BY <1>1, Zenon DEF HandlersHold
  <2>2. faults \in Nat /\ stream[m].n \in Nat
    BY TypeFacts DEF BaseInv, Entry
  <2>. QED  BY <2>1, <2>2
<1>3. faults \in 0 .. MaxFaults /\ stream[m].n \in Nat
  BY TypeFacts, IntakeAssumption DEF BaseInv, Entry
<1>4. stream[m].n < MaxDeliver
  BY <1>2, <1>3, IntakeAssumption
<1>. QED  BY <1>1, <1>3, <1>4, IntakeAssumption DEF Free

\* Each slot is as it was, with its handler if it had one, or has no handler and
\* cost a fault for each delivery.
SlotStays(m) ==
    \/ stream'[m] = stream[m] /\ (Handled(m) => Handled(m)')
    \/ ~Handled(m)' /\ (stream'[m] # NoMsg => stream'[m].n <= faults')

\* Handlers that were there keep their messages when every slot stays.
LEMMA HandlersStay ==
    ASSUME BaseInv, HandlersHold, BaseInv', \A j \in Key : row[j] # "none" => row'[j] # "none", faults <= faults',
           \A w \in work' : w.msg = NoMsg \/ w \in work,
           \A m \in Msg : SlotStays(m)
    PROVE  HandlersHold'
<1>a. TypeOK /\ TypeOK'
  BY Zenon DEF BaseInv
<1>0. faults \in Nat /\ faults' \in Nat
  BY <1>a, EntryFacts, EntryFactsNext, Zenon
<1>1. ASSUME NEW w \in work', w.msg # NoMsg
      PROVE  /\ stream'[w.msg] # NoMsg /\ stream'[w.msg].out
             /\ w.pc = "submitted" => stream'[w.msg].key = w.key
             /\ w.pc # "submitted" => row'[stream'[w.msg].key] # "none"
  <2>1. w \in work /\ w.msg \in Msg
    BY <1>1, WorkHasMessage, Zenon
  <2>2. stream'[w.msg] = stream[w.msg]
    BY <1>1, <2>1, Zenon DEF SlotStays, Handled
  <2>3. /\ stream[w.msg] # NoMsg /\ stream[w.msg].out
        /\ w.pc = "submitted" => stream[w.msg].key = w.key
        /\ w.pc # "submitted" => row[stream[w.msg].key] # "none"
    BY <1>1, <2>1, Zenon DEF HandlersHold
  <2>4. stream[w.msg].key \in Key
    BY <2>1, <2>3, TypeFacts, Zenon DEF BaseInv, Entry
  <2>. QED  BY <2>2, <2>3, <2>4, Zenon
<1>2. \A v, w \in work' : v.msg # NoMsg /\ v.msg = w.msg => v = w
  BY Zenon DEF HandlersHold
<1>3. ASSUME NEW m \in Msg, stream'[m] # NoMsg PROVE stream'[m].n <= faults' + (IF Handled(m)' THEN 1 ELSE 0)
  <2>1. CASE stream'[m] = stream[m] /\ (Handled(m) => Handled(m)')
    <3>1. stream[m].n <= faults + (IF Handled(m) THEN 1 ELSE 0)
      BY <1>3, <2>1, Zenon DEF HandlersHold
    <3>2. stream[m].n \in Nat
      BY <1>3, <2>1, TypeFacts DEF BaseInv, Entry
    <3>. QED  BY <1>0, <2>1, <3>1, <3>2
  <2>2. CASE ~Handled(m)' /\ stream'[m].n <= faults'
    <3>1. stream'[m].n \in Nat
      BY <1>a, <1>3, EntryFactsNext, Zenon
    <3>. QED  BY <1>0, <2>2, <3>1
  <2>. QED  BY <1>3, <2>1, <2>2, Zenon DEF SlotStays
<1>. QED  BY <1>1, <1>2, <1>3, Zenon DEF HandlersHold

\* What was kept stays kept when a message goes only for a row that is there.
KeysStay ==
    \A m \in Msg : stream[m] # NoMsg =>
        (stream'[m] # NoMsg /\ stream'[m].key = stream[m].key) \/ row'[stream[m].key] # "none"

\* What is a task or a message stays one.
LEMMA KeptStays ==
    ASSUME \A j \in Key : row[j] # "none" => row'[j] # "none", KeysStay, NEW k \in Key, Kept(k) PROVE Kept(k)'
BY Zenon DEF Kept, KeysStay

\* A step that changes neither the works nor the stream.
LEMMA QuietHandlers ==
    ASSUME BaseInv, HandlersHold, BaseInv', \A j \in Key : row[j] # "none" => row'[j] # "none", faults <= faults',
           work' = work, stream' = stream
    PROVE  HandlersHold' /\ KeysStay
<1>1. \A m \in Msg : SlotStays(m)
  BY Zenon DEF SlotStays, Handled
<1>. QED  BY <1>1, HandlersStay, Zenon DEF KeysStay

\* Publishing takes a slot that is empty, and no handler's.
LEMMA PublishHandlers ==
    ASSUME BaseInv, HandlersHold, BaseInv', MaxFaults < MaxDeliver,
           \A j \in Key : row[j] # "none" => row'[j] # "none", faults <= faults',
           work' = work, NEW k \in Key, NEW r, PublishUnique(k, r)
    PROVE  /\ HandlersHold' /\ KeysStay
           /\ window' \subseteq window \cup {k}
           /\ r # "fail" => k \in window \/ Kept(k)'
           /\ k \in window' => k \in window \/ Kept(k)'
<1>1. CASE UNCHANGED bus /\ (r = "fail" \/ k \in window)
  BY <1>1, QuietHandlers, Zenon DEF bus
<1>2. ASSUME NEW m \in Msg, Free(m), window' = window \cup {k},
             stream' = [stream EXCEPT ![m] = [key |-> k, n |-> 0, out |-> FALSE]]
      PROVE  HandlersHold' /\ KeysStay /\ window' \subseteq window \cup {k} /\ Kept(k)'
  <2>0. stream \in [Msg -> {NoMsg} \cup Entry] /\ faults' \in Nat
    <3>1. stream \in [Msg -> {NoMsg} \cup Entry]
      BY TypeFacts, Zenon DEF BaseInv
    <3>2. faults' \in Nat
      BY EntryFactsNext, Zenon DEF BaseInv
    <3>. QED  BY <3>1, <3>2, Zenon
  <2>1. stream[m] = NoMsg
    BY <1>2, NotExhausted, Zenon DEF Free
  <2>2. PICK x : x = [key |-> k, n |-> 0, out |-> FALSE]
    BY ZenonT(30)
  <2>3. x \in Entry /\ x.key = k /\ x.n = 0
    BY <2>2, IntakeAssumption DEF Entry
  <2>4. stream'[m] = x /\ \A y \in Msg : y # m => stream'[y] = stream[y]
    BY <1>2, <2>0, <2>2, Zenon
  <2>5. x # NoMsg
    BY <2>3, EntryIsThere, Zenon
  <2>6. ~Handled(m)'
    BY <1>2, Zenon DEF Free, Handled
  <2>7. \A y \in Msg : SlotStays(y)
    BY <2>0, <2>3, <2>4, <2>6 DEF SlotStays, Handled
  <2>8. HandlersHold'
    BY <2>7, HandlersStay, Zenon
  <2>9. KeysStay
    BY <2>1, <2>4, Zenon DEF KeysStay
  <2>10. Kept(k)'
    BY <2>3, <2>4, <2>5, Zenon DEF Kept
  <2>. QED  BY <1>2, <2>8, <2>9, <2>10, Zenon
<1>. QED  BY <1>1, <1>2, Zenon DEF PublishUnique

\* A handler that ends leaves its message acknowledged, or to be delivered again
\* at the price of a fault.
LEMMA DropHandlers ==
    ASSUME BaseInv, HandlersHold, BaseInv', \A j \in Key : row[j] # "none" => row'[j] # "none",
           NEW w \in work, work' = work \ {w},
           \/ stream' = Ack(w.msg) /\ faults' = faults
           \/ w.msg \in Msg /\ stream' = Nak(w.msg) /\ faults' = faults + 1
    PROVE  /\ HandlersHold'
           /\ (stream' = Ack(w.msg) /\ w.msg # NoMsg => row'[stream[w.msg].key] # "none") => KeysStay
<1>0. TypeOK /\ faults \in Nat /\ faults' \in Nat
  BY DEF BaseInv, TypeOK
<1>1. CASE w.msg = NoMsg
  <2>1. stream' = stream /\ faults' = faults
    BY <1>0, <1>1, StreamMoves, IntakeAssumption, Zenon DEF Msg, Ack
  <2>2. \A m \in Msg : Handled(m) => Handled(m)'
    BY <1>1, IntakeAssumption, Zenon DEF Handled, Msg
  <2>3. \A m \in Msg : SlotStays(m)
    BY <2>1, <2>2, Zenon DEF SlotStays
  <2>4. HandlersHold'
    BY <1>0, <2>1, <2>3, HandlersStay
  <2>. QED  BY <2>1, <2>4, Zenon DEF KeysStay
<1>2. CASE w.msg # NoMsg
  <2> DEFINE m == w.msg
  <2>0. m \in Msg /\ stream[m] # NoMsg /\ stream[m] \in Entry
    BY <1>2, TypeFacts, WorkHasMessage, ZenonT(30) DEF HandlersHold, BaseInv
  <2>1. ~Handled(m)'
    BY <1>2, Zenon DEF HandlersHold, Handled
  <2>2. \A y \in Msg : y # m => stream'[y] = stream[y] /\ (Handled(y) => Handled(y)')
    BY <1>0, <2>0, StreamMoves DEF Handled
  <2>3. stream'[m] # NoMsg => stream'[m].n <= faults' /\ stream'[m].key = stream[m].key /\ stream' # Ack(m)
    <3>1. CASE stream' = Ack(m)
      BY <1>0, <2>0, <3>1, StreamMoves, Zenon
    <3>2. CASE stream' # Ack(m)
      <4>1. stream' = Nak(m) /\ faults' = faults + 1
        BY <3>2, Zenon
      <4>2. stream'[m].key = stream[m].key /\ stream'[m].n = stream[m].n
        BY <1>0, <2>0, <4>1, StreamMoves, Zenon
      <4>3. stream[m].n <= faults + 1
        BY <2>0, Zenon DEF HandlersHold, Handled
      <4>. QED  BY <3>2, <4>1, <4>2, <4>3, Zenon
    <3>. QED  BY <3>1, <3>2, Zenon
  <2>4. \A y \in Msg : SlotStays(y)
    BY <2>1, <2>2, <2>3, Zenon DEF SlotStays
  <2>5. HandlersHold'
    BY <1>0, <2>4, HandlersStay
  <2>6. stream' # Ack(m) => stream'[m] # NoMsg /\ stream'[m].key = stream[m].key
    <3>1. Nak(m)[m] # NoMsg /\ Nak(m)[m].key = stream[m].key
      BY <1>0, <2>0, StreamMoves, Zenon
    <3>2. stream' # Ack(m) => stream' = Nak(m)
      BY Zenon
    <3>. QED  BY <3>1, <3>2, Zenon
  <2>7. (stream' = Ack(m) => row'[stream[m].key] # "none") => KeysStay
    BY <2>0, <2>2, <2>6, Zenon DEF KeysStay
  <2>. QED  BY <1>2, <2>5, <2>7, Zenon
<1>. QED  BY <1>1, <1>2, Zenon

\* A handler that goes on keeps its message.
LEMMA ReplaceHandlers ==
    ASSUME BaseInv, HandlersHold, BaseInv', \A j \in Key : row[j] # "none" => row'[j] # "none",
           NEW w \in work, NEW u, work' = (work \ {w}) \cup {u}, u.msg = w.msg, u.pc # "submitted",
           stream' = stream, faults' = faults,
           w.msg # NoMsg => row'[stream[w.msg].key] # "none"
    PROVE  HandlersHold' /\ KeysStay
<1>1. ASSUME NEW v \in work', v.msg # NoMsg
      PROVE  /\ stream'[v.msg] # NoMsg /\ stream'[v.msg].out
             /\ v.pc = "submitted" => stream'[v.msg].key = v.key
             /\ v.pc # "submitted" => row'[stream'[v.msg].key] # "none"
  <2>1. CASE v = u
    BY <1>1, <2>1, Zenon DEF HandlersHold
  <2>2. CASE v \in work
    <3>1. /\ stream[v.msg] # NoMsg /\ stream[v.msg].out
          /\ v.pc = "submitted" => stream[v.msg].key = v.key
          /\ v.pc # "submitted" => row[stream[v.msg].key] # "none"
      BY <1>1, <2>2, Zenon DEF HandlersHold
    <3>2. v.msg \in Msg
      BY <1>1, <2>2, WorkHasMessage, Zenon
    <3>3. stream[v.msg].key \in Key
      BY <3>1, <3>2, TypeFacts, Zenon DEF BaseInv, Entry
    <3>. QED  BY <3>1, <3>3, ZenonT(30)
  <2>. QED  BY <2>1, <2>2, Zenon
<1>2. \A v, x \in work' : v.msg # NoMsg /\ v.msg = x.msg => v = x
  <2>1. \A v, x \in work : v.msg # NoMsg /\ v.msg = x.msg => v = x
    BY Zenon DEF HandlersHold
  <2>2. \A v \in work : v.msg # NoMsg /\ v.msg = w.msg => v = w
    BY <2>1, Zenon
  <2>. QED  BY <2>1, <2>2, Zenon
<1>3. \A m \in Msg : Handled(m) => Handled(m)'
  BY Zenon DEF Handled
<1>4. ASSUME NEW m \in Msg, stream'[m] # NoMsg PROVE stream'[m].n <= faults' + (IF Handled(m)' THEN 1 ELSE 0)
  <2>1. stream[m].n <= faults + (IF Handled(m) THEN 1 ELSE 0)
    BY <1>4, Zenon DEF HandlersHold
  <2>2. stream[m].n \in Nat /\ faults \in Nat
    BY <1>4, EntryFacts, Zenon DEF BaseInv
  <2>3. stream'[m].n = stream[m].n /\ faults' = faults
    BY Zenon
  <2>4. CASE Handled(m)'
    <3>1. stream[m].n <= faults + 1
      BY <2>1, <2>2
    <3>. QED  BY <2>3, <2>4, <3>1, Zenon
  <2>5. CASE ~Handled(m)'
    <3>1. stream[m].n <= faults + 0
      BY <1>3, <2>1, <2>5, Zenon
    <3>. QED  BY <2>3, <2>5, <3>1, Zenon
  <2>. QED  BY <2>4, <2>5, Zenon
<1>5. HandlersHold'
  BY <1>1, <1>2, <1>4, Zenon DEF HandlersHold
<1>. QED  BY <1>5, Zenon DEF KeysStay

\* A message that is fetched had no handler.
LEMMA FetchHandlers ==
    ASSUME BaseInv, HandlersHold, BaseInv', MaxFaults < MaxDeliver, NEW m \in Msg, Fetch(m)
    PROVE  HandlersHold' /\ KeysStay
<1>0. TypeOK
  BY Zenon DEF BaseInv
<1>a. PICK w : w = [msg |-> m, n |-> stream[m].n + 1, pc |-> "submitted", key |-> stream[m].key]
  BY Zenon
<1>b. PICK x : x = [key |-> stream[m].key, n |-> stream[m].n + 1, out |-> TRUE]
  BY Zenon
<1>1. /\ work' = work \cup {w} /\ stream[m] \in Entry /\ ~stream[m].out
      /\ x \in Entry /\ stream' = [stream EXCEPT ![m] = x] /\ row' = row /\ faults' = faults
  BY <1>0, <1>a, <1>b, FetchEffects, Zenon
<1>2. w.msg = m /\ w.pc = "submitted" /\ w.key = stream[m].key
  BY <1>a, Zenon
<1>3. x.key = stream[m].key /\ x.n = stream[m].n + 1 /\ x.out /\ x # NoMsg
  BY <1>b, <1>1, EntryIsThere, Zenon
<1>4. stream[m] # NoMsg
  BY <1>1, EntryIsThere, Zenon
<1>5. ~Handled(m) /\ \A v \in work : v.msg # m
  BY <1>1, <1>4, NotExhausted, Zenon DEF Handled
<1>6. stream'[m] = x /\ \A y \in Msg : y # m => stream'[y] = stream[y]
  BY <1>0, <1>1, TypeFacts, Zenon
<1>7. stream[m].n \in Nat /\ faults \in Nat
  BY <1>0, <1>1, TypeFacts DEF Entry
<1>8. ASSUME NEW v \in work', v.msg # NoMsg
      PROVE  /\ stream'[v.msg] # NoMsg /\ stream'[v.msg].out
             /\ v.pc = "submitted" => stream'[v.msg].key = v.key
             /\ v.pc # "submitted" => row'[stream'[v.msg].key] # "none"
  <2>1. CASE v = w
    BY <1>2, <1>3, <1>6, <2>1, Zenon
  <2>2. CASE v \in work
    <3>1. v.msg \in Msg /\ v.msg # m
      BY <1>5, <1>8, <2>2, WorkHasMessage, Zenon
    <3>. QED  BY <1>1, <1>6, <1>8, <2>2, <3>1 DEF HandlersHold
  <2>. QED  BY <1>1, <2>1, <2>2, Zenon
<1>9. \A v, y \in work' : v.msg # NoMsg /\ v.msg = y.msg => v = y
  BY <1>1, <1>2, <1>5, Zenon DEF HandlersHold
<1>10. ASSUME NEW y \in Msg, stream'[y] # NoMsg PROVE stream'[y].n <= faults' + (IF Handled(y)' THEN 1 ELSE 0)
  <2>1. CASE y = m
    <3>1. Handled(m)'
      BY <1>1, <1>2, Zenon DEF Handled
    <3>2. stream[m].n <= faults + 0
      BY <1>4, <1>5, ZenonT(30) DEF HandlersHold
    <3>3. stream'[y].n = stream[m].n + 1 /\ faults' = faults
      BY <1>1, <1>3, <1>6, <2>1, Zenon
    <3>4. (IF Handled(y)' THEN 1 ELSE 0) = 1
      BY <2>1, <3>1, Zenon
    <3>. QED  BY <1>7, <3>2, <3>3, <3>4
  <2>2. CASE y # m
    <3>1. Handled(y)' <=> Handled(y)
      BY <1>1, <1>2, <2>2, Zenon DEF Handled
    <3>. QED  BY <1>1, <1>6, <1>10, <2>2, <3>1, Zenon DEF HandlersHold
  <2>. QED  BY <2>1, <2>2, Zenon
<1>11. HandlersHold'
  BY <1>8, <1>9, <1>10, Zenon DEF HandlersHold
<1>12. KeysStay
  BY <1>3, <1>6, Zenon DEF KeysStay
<1>. QED  BY <1>11, <1>12, Zenon

\* The handlers hold their messages and, where webhooks bring the issues, what was
\* accepted is a task or a message.
KeepKeys == HandlersHold /\ (setup.intake = "webhook" => \A k \in window \cup accepted : Kept(k))

\* Every step keeps what was accepted, where a run is admitted within AckWait and
\* there are fewer faults than deliveries.
LEMMA KeepStep ==
    ASSUME MaxFaults < MaxDeliver, ~setup.slow, BaseInv, BaseInv', KeepKeys, [Next]_vars
    PROVE  KeepKeys'
<1>0. TypeOK /\ HandlersHold /\ setup' = setup
  BY SetupStays, Zenon DEF BaseInv, KeepKeys
<1>a. \A j \in Key : row[j] # "none" => row'[j] # "none"
  BY RowsStay, Zenon
<1>b. ASSUME HandlersHold', setup.intake = "webhook" => KeysStay,
             \A k \in window' \cup accepted' : k \in window \cup accepted \/ Kept(k)'
      PROVE  KeepKeys'
  <2>1. \A k \in window \cup accepted : k \in Key
    BY <1>0, TypeFacts, Zenon
  <2>2. setup.intake = "webhook" => \A k \in window \cup accepted : Kept(k)'
    BY <1>a, <1>b, <2>1, KeptStays, Zenon DEF KeepKeys
  <2>. QED  BY <1>0, <1>b, <2>2, Zenon DEF KeepKeys
<1>c. ASSUME HandlersHold', setup.intake = "webhook" => KeysStay, window' \subseteq window, accepted' = accepted
      PROVE  KeepKeys'
  BY <1>b, <1>c, Zenon
<1>d. ASSUME work' = work, stream' = stream, faults <= faults', window' \subseteq window, accepted' = accepted
      PROVE  KeepKeys'
  BY <1>0, <1>a, <1>c, <1>d, QuietHandlers, Zenon
<1>e. faults <= faults
  BY <1>0, TypeFacts
<1>1. CASE \/ \E r \in Rule, k \in Key : Assign(r, k) \/ Withdrawal(r, k)
           \/ \E r \in Rule : Reload(r)
           \/ \E i \in Identity : SetLifecycle(i)
  BY <1>0, <1>1, <1>d, <1>e, PeopleEffects, Zenon
<1>2. ASSUME NEW i \in Identity, ListIssues(i) \/ WithdrawUnpolled(i) \/ (\E n \in Issue : Lookup(i, n))
                                 \/ \E k \in Key : WithdrawTask(i, k)
      PROVE  KeepKeys'
  <2>1. work' = work /\ stream' = stream /\ window' = window /\ UNCHANGED web
    BY <1>0, <1>2, ListEffects, UnpolledEffects, LookupEffects, WithdrawTaskEffects, Zenon
  <2>2. \E r : Reply(r)
    BY <1>2, Zenon DEF ListIssues, WithdrawUnpolled, Lookup, WithdrawTask
  <2>3. faults <= faults'
    BY <1>0, <2>2, ReplyTypes, Zenon
  <2>. QED  BY <1>d, <2>1, <2>3, Zenon DEF web
<1>3. ASSUME NEW i \in Identity, Publish(i) PROVE KeepKeys'
  <2>1. UNCHANGED <<row, work>> /\ UNCHANGED web
    BY <1>0, <1>3, PublishEffects, Zenon
  <2>a. PICK k \in Key : \E r : Reply(r) /\ PublishUnique(k, r)
    BY <1>0, <1>3, PublishEffects, Zenon
  <2>2. PICK r : Reply(r) /\ PublishUnique(k, r)
    BY <2>a, Zenon
  <2>3. faults <= faults'
    BY <1>0, <2>2, ReplyTypes, Zenon
  <2>4. HandlersHold' /\ KeysStay /\ window' \subseteq window \cup {k} /\ (k \in window' => k \in window \/ Kept(k)')
    BY <1>0, <1>a, <2>1, <2>2, <2>3, PublishHandlers, Zenon
  <2>. QED  BY <1>b, <2>1, <2>4, Zenon DEF web
<1>4. ASSUME NEW e \in hooks, ServeIssueEvent(e) PROVE KeepKeys'
  <2>1. work' = work /\ e.key \in Key /\ faults <= faults'
    BY <1>0, <1>4, ServeCases, Zenon
  <2>2. CASE \E r : /\ e.on /\ PublishUnique(e.key, r) /\ row' = row
                    /\ accepted' = IF r = "ok" THEN accepted \cup {e.key} ELSE accepted
    <3>1. PICK r : /\ PublishUnique(e.key, r)
                   /\ accepted' = IF r = "ok" THEN accepted \cup {e.key} ELSE accepted
      BY <2>2, Zenon
    <3>2. /\ HandlersHold' /\ KeysStay /\ window' \subseteq window \cup {e.key}
          /\ (r # "fail" => e.key \in window \/ Kept(e.key)') /\ (e.key \in window' => e.key \in window \/ Kept(e.key)')
      BY <1>0, <1>a, <2>1, <3>1, PublishHandlers, Zenon
    <3>3. \A k \in accepted' : k \in window \cup accepted \/ Kept(k)'
      BY <3>1, <3>2, Zenon
    <3>. QED  BY <1>b, <3>2, <3>3, Zenon
  <2>3. CASE UNCHANGED <<stream, window, accepted>>
    BY <1>d, <2>1, <2>3, Zenon
  <2>. QED  BY <1>0, <1>4, <2>2, <2>3, ServeCases, Zenon
<1>5. ASSUME NEW e \in hooks, LoseHook(e) PROVE KeepKeys'
  <2>1. Reply("fail") /\ UNCHANGED <<accepted, work, stream, window>>
    BY <1>5, Zenon DEF LoseHook, bus
  <2>. QED  BY <1>0, <1>d, <2>1, ReplyTypes, Zenon
<1>6. ASSUME NEW k \in Key, ForgetKey(k) PROVE KeepKeys'
  <2>1. window' \subseteq window /\ UNCHANGED <<accepted, work, stream, faults>>
    BY <1>6, Zenon DEF ForgetKey, web
  <2>. QED  BY <1>d, <1>e, <2>1, Zenon
<1>7. ASSUME NEW m \in Msg, AckWaitElapsed(m) PROVE KeepKeys'
  <2>1. /\ stream[m] # NoMsg /\ ~Handled(m) /\ stream' = Nak(m)
        /\ UNCHANGED <<accepted, window, work, faults>>
    BY <1>7, Zenon DEF AckWaitElapsed, Handled, web
  <2>2. /\ stream'[m] # NoMsg /\ stream'[m].key = stream[m].key /\ stream'[m].n = stream[m].n
        /\ \A x \in Msg : x # m => stream'[x] = stream[x]
    BY <1>0, <2>1, StreamMoves, ZenonT(30)
  <2>3. stream[m].n <= faults
    <3>1. stream[m].n <= faults + 0
      BY <1>0, <2>1, ZenonT(30) DEF HandlersHold
    <3>2. stream[m].n \in Nat /\ faults \in Nat
      BY <1>0, <2>1, EntryFacts, Zenon
    <3>. QED  BY <3>1, <3>2
  <2>4. \A x \in Msg : SlotStays(x)
    BY <2>1, <2>2, <2>3, Zenon DEF SlotStays, Handled
  <2>5. HandlersHold'
    BY <1>0, <1>a, <1>e, <2>1, <2>4, HandlersStay, ZenonT(30)
  <2>6. KeysStay
    BY <2>2, Zenon DEF KeysStay
  <2>. QED  BY <1>c, <2>1, <2>5, <2>6, Zenon
<1>8. ASSUME NEW m \in Msg, Fetch(m) PROVE KeepKeys'
  <2>1. HandlersHold' /\ KeysStay
    BY <1>0, <1>8, FetchHandlers, Zenon
  <2>2. UNCHANGED <<accepted, window>>
    BY <1>8, Zenon DEF Fetch, web
  <2>. QED  BY <1>c, <2>1, <2>2, Zenon
<1>9. CASE ClaimNext
  <2>1. UNCHANGED <<stream, window>> /\ UNCHANGED web /\ faults <= faults'
    BY <1>0, <1>9, ClaimNextCases, Zenon
  <2>2. \A w \in work' : w.msg = NoMsg \/ w \in work
    <3>1. PICK k \in Key :
            \/ work' = work
            \/ work' = work \cup {[msg |-> NoMsg, n |-> Cardinality(Executing(k)), pc |-> "processing", key |-> k]}
      BY <1>0, <1>9, ClaimNextCases, Zenon
    <3>2. PICK u : u = [msg |-> NoMsg, n |-> Cardinality(Executing(k)), pc |-> "processing", key |-> k]
      BY Zenon
    <3>3. u.msg = NoMsg
      BY <3>2, Zenon
    <3>. QED  BY <3>1, <3>2, <3>3, Zenon
  <2>3. work \subseteq work'
    BY <1>0, <1>9, ClaimNextCases, Zenon
  <2>4. \A x \in Msg : SlotStays(x)
    BY <2>1, <2>3, Zenon DEF SlotStays, Handled
  <2>5. HandlersHold'
    BY <1>0, <1>a, <2>1, <2>2, <2>4, HandlersStay, Zenon
  <2>. QED  BY <1>c, <2>1, <2>5, Zenon DEF KeysStay, web
<1>10. ASSUME NEW w \in work, Enqueue(w) PROVE KeepKeys'
  <2>0. w \in Work /\ w.key \in Key /\ w.msg \in Msg
    BY <1>0, <1>10, EnqueueCases, WorkHasMessage, Zenon
  <2>1. w.pc = "submitted" /\ window' = window /\ UNCHANGED web
    BY <1>0, <1>10, EnqueueCases, ZenonT(30)
  <2>2. w.msg # NoMsg /\ stream[w.msg].key = w.key
    BY <1>0, <2>0, <2>1, IntakeAssumption, Zenon DEF HandlersHold, Msg
  <2>3. CASE /\ ~MayAct(w.key[1]) \/ row[w.key] # "none"
             /\ row' = row /\ stream' = Ack(w.msg) /\ work' = work \ {w} /\ faults' = faults
    <3>1. HandlersHold' /\ (row'[w.key] # "none" => KeysStay)
      BY <1>0, <1>a, <2>2, <2>3, DropHandlers, ZenonT(30)
    <3>2. setup.intake = "webhook" => row'[w.key] # "none"
      BY <2>3, Zenon DEF MayAct
    <3>. QED  BY <1>c, <2>1, <3>1, <3>2, Zenon DEF web
  <2>4. CASE stream' = Nak(w.msg) /\ work' = work \ {w} /\ faults' = faults + 1
    <3>a. stream[w.msg] # NoMsg
      BY <1>0, <2>2, ZenonT(30) DEF HandlersHold
    <3>b. Nak(w.msg)[w.msg] # NoMsg /\ Ack(w.msg)[w.msg] = NoMsg
      BY <1>0, <2>0, <2>2, <3>a, StreamMoves, ZenonT(30)
    <3>1. stream' # Ack(w.msg)
      BY <2>4, <3>b, ZenonT(30)
    <3>2. HandlersHold' /\ KeysStay
      BY <1>0, <1>a, <2>0, <2>4, <3>1, DropHandlers
    <3>. QED  BY <1>c, <2>1, <3>2, Zenon DEF web
  <2>5. CASE /\ row[w.key] = "none" /\ row' = EnqueueIssue(w.key) /\ stream' = stream
             /\ work' = Replace(w, [w EXCEPT !.pc = "inserted"]) /\ faults' = faults
    <3>1. PICK u : u = [w EXCEPT !.pc = "inserted"]
      BY Zenon
    <3>2. u.pc = "inserted" /\ u.msg = w.msg
      BY <2>0, <3>1, WorkTypes, Zenon
    <3>3. work' = (work \ {w}) \cup {u}
      BY <2>5, <3>1, Zenon DEF Replace
    <3>4. row'[stream[w.msg].key] # "none"
      BY <1>0, <2>0, <2>2, <2>5, RowMoves, Zenon
    <3>5. HandlersHold' /\ KeysStay
      BY <1>0, <1>a, <2>5, <3>2, <3>3, <3>4, ReplaceHandlers, Zenon
    <3>. QED  BY <1>c, <2>1, <3>5, Zenon DEF web
  <2>. QED  BY <1>0, <1>10, <2>3, <2>4, <2>5, EnqueueCases, Zenon
<1>11. ASSUME NEW w \in work, Claim(w) PROVE KeepKeys'
  <2>0. w \in Work /\ w.key \in Key /\ w.msg \in Msg
    BY <1>0, <1>11, ClaimCases, WorkHasMessage, ZenonT(30)
  <2>1. w.pc = "inserted" /\ window' = window /\ UNCHANGED web
    BY <1>0, <1>11, ClaimCases, ZenonT(30)
  <2>2. w.msg # NoMsg /\ stream[w.msg] # NoMsg /\ stream[w.msg] \in Entry /\ row[stream[w.msg].key] # "none"
    BY <1>0, <2>0, <2>1, TypeFacts, IntakeAssumption, ZenonT(30) DEF HandlersHold, Msg
  <2>3. row'[stream[w.msg].key] # "none"
    BY <1>a, <2>2, Zenon DEF Entry
  <2>4. CASE work' = work \ {w} /\ (\/ stream' = Ack(w.msg) /\ faults' = faults
                                    \/ stream' = Nak(w.msg) /\ faults' = faults + 1)
    <3>1. HandlersHold' /\ KeysStay
      BY <1>0, <1>a, <2>0, <2>3, <2>4, DropHandlers, Zenon
    <3>. QED  BY <1>c, <2>1, <3>1, Zenon DEF web
  <2>5. ASSUME NEW k \in Claimed(w.key[2]), work' = Replace(w, [w EXCEPT !.pc = "processing", !.key = k]),
               stream' = stream, faults' = faults
        PROVE  KeepKeys'
    <3>0. k \in Key
      BY <2>5, Zenon DEF Claimed
    <3>1. PICK u : u = [w EXCEPT !.pc = "processing", !.key = k]
      BY Zenon
    <3>2. u.pc = "processing" /\ u.msg = w.msg
      BY <2>0, <3>0, <3>1, WorkTypes, ZenonT(60)
    <3>3. work' = (work \ {w}) \cup {u}
      BY <2>5, <3>1, Zenon DEF Replace
    <3>4. HandlersHold' /\ KeysStay
      BY <1>0, <1>a, <2>3, <2>5, <3>2, <3>3, ReplaceHandlers, Zenon
    <3>. QED  BY <1>c, <2>1, <3>4, Zenon DEF web
  <2>. QED  BY <1>0, <1>11, <2>4, <2>5, ClaimCases, ZenonT(30)
<1>12. ASSUME NEW w \in work, Finish(w) PROVE KeepKeys'
  <2>1. w.pc = "processing" /\ stream' = Ack(w.msg) /\ work' = work \ {w} /\ UNCHANGED <<window, faults>> /\ UNCHANGED web
    BY <1>12, Zenon DEF Finish
  <2>2. w.msg # NoMsg => row'[stream[w.msg].key] # "none"
    <3> HAVE w.msg # NoMsg
    <3>1. w.msg \in Msg /\ stream[w.msg] # NoMsg /\ row[stream[w.msg].key] # "none"
      BY <1>0, <2>1, WorkHasMessage, Zenon DEF HandlersHold
    <3>2. stream[w.msg].key \in Key
      BY <1>0, <3>1, TypeFacts, ZenonT(30) DEF Entry
    <3>. QED  BY <1>a, <3>1, <3>2, Zenon
  <2>3. HandlersHold' /\ KeysStay
    BY <1>0, <1>a, <2>1, <2>2, DropHandlers, Zenon
  <2>. QED  BY <1>c, <2>1, <2>3, Zenon DEF web
<1>13. CASE Restart
  <2>1. work' = {} /\ faults' = faults + 1 /\ UNCHANGED <<accepted, stream, window>>
    BY <1>0, <1>13, RestartEffects, ZenonT(30)
  <2>2. \A x \in Msg : stream[x] # NoMsg => stream[x].n <= faults + 1
    <3> TAKE x \in Msg
    <3> HAVE stream[x] # NoMsg
    <3>1. stream[x].n <= faults + (IF Handled(x) THEN 1 ELSE 0)
      BY <1>0, Zenon DEF HandlersHold
    <3>2. stream[x].n \in Nat /\ faults \in Nat
      BY <1>0, EntryFacts, Zenon
    <3>. QED  BY <3>1, <3>2
  <2>3. \A x \in Msg : SlotStays(x)
    BY <2>1, <2>2, Zenon DEF SlotStays, Handled
  <2>4. faults <= faults'
    BY <1>0, <2>1, TypeFacts
  <2>5. HandlersHold'
    BY <1>0, <1>a, <2>1, <2>3, <2>4, HandlersStay, ZenonT(30)
  <2>. QED  BY <1>c, <2>1, <2>5, ZenonT(30) DEF KeysStay
<1>14. CASE UNCHANGED vars
  <2>1. UNCHANGED <<work, stream, window, accepted, faults>>
    BY <1>14, Zenon DEF vars
  <2>. QED  BY <1>d, <1>e, <2>1, Zenon
<1>. QED  BY <1>1, <1>2, <1>3, <1>4, <1>5, <1>6, <1>7, <1>8, <1>9, <1>10, <1>11, <1>12, <1>13, <1>14
          DEF Next, Poll, Serve, Drain, Handle

\* An issue whose webhook was answered 202 is a task, or a message that will be
\* delivered again, whatever is lost, redelivered or restarted in between
\* (ServeIssueEvent, processNATSTask).  It takes fewer faults than the consumer's
\* MaxDeliver: each failed handling uses up one delivery.
THEOREM AcceptedStays == ASSUME MaxFaults < MaxDeliver PROVE Spec => []AcceptedIsKept
<1> DEFINE Keep == ~setup.slow => KeepKeys
           Web == setup.intake # "webhook" => hooks = {} /\ accepted = {}
<1>1. Init => Keep /\ Web
  <2> SUFFICES ASSUME Init PROVE KeepKeys /\ Web
    BY Zenon
  <2>1. HandlersHold
    BY Zenon DEF Init, HandlersHold
  <2>. QED  BY <2>1, Zenon DEF Init, KeepKeys
<1>2. BaseInv /\ BaseInv' /\ Keep /\ [Next]_vars => Keep'
  BY SetupStays, KeepStep, Zenon
<1>3. Web /\ [Next]_vars => Web'
  <2> SUFFICES ASSUME Web, [Next]_vars, setup.intake # "webhook" PROVE hooks' = {} /\ accepted' = {}
    BY SetupStays, Zenon
  <2>1. hooks = {} /\ accepted = {}
    BY Zenon
  <2>2. CASE \E r \in Rule, k \in Key : Assign(r, k) \/ Withdrawal(r, k)
    BY <2>1, <2>2, Zenon DEF Assign, Withdrawal, Hook
  <2>3. CASE UNCHANGED web
    BY <2>1, <2>3, Zenon DEF web
  <2>4. \/ \E r \in Rule, k \in Key : Assign(r, k) \/ Withdrawal(r, k)
        \/ UNCHANGED web
    BY <2>1, ZenonT(30) DEF vars, Next, Poll, Serve, Drain, Handle, Reload, SetLifecycle, ListIssues, WithdrawUnpolled, Publish,
                Lookup, WithdrawTask, ForgetKey, AckWaitElapsed, Fetch, ClaimNext, Enqueue, Claim, Finish, Restart, web
  <2>. QED  BY <2>2, <2>3, <2>4, Zenon
<1>4. BaseInv /\ Keep /\ Web => AcceptedIsKept
  <2> SUFFICES ASSUME BaseInv, Keep, Web, ~setup.slow, NEW k \in accepted
               PROVE  \/ row[k] # "none"
                      \/ \E m \in Msg : stream[m] # NoMsg /\ stream[m].key = k /\ (stream[m].out \/ stream[m].n < MaxDeliver)
    BY Zenon DEF AcceptedIsKept
  <2>1. HandlersHold /\ Kept(k)
    BY Zenon DEF KeepKeys
  <2>2. \A m \in Msg : stream[m] # NoMsg => stream[m].out \/ stream[m].n < MaxDeliver
    BY <2>1, NotExhausted, Zenon
  <2>. QED  BY <2>1, <2>2, ZenonT(30) DEF Kept
<1>. QED  BY <1>1, <1>2, <1>3, <1>4, BaseHolds, PTL DEF Spec
=============================================================================
