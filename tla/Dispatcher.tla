----------------------------- MODULE Dispatcher -----------------------------
(***************************************************************************)
(* The daemon's task dispatcher (internal/daemon/daemon.go, taskDispatcher *)
(* and taskHold) and the watcher that tells it which runs are waiting on a *)
(* workflow.call callee (internal/daemon/call_waits.go).                   *)
(*                                                                         *)
(* A hold is one submitted run.  It owns at most one slot under the global *)
(* limit and, where its repository runs one task at a time, at most one    *)
(* place in that repository's chain.  A place is a Go channel, the "baton",*)
(* closed when the run gives the place up; the next task of the repository *)
(* blocks on it.  A run that waits on a callee gives both back, and a      *)
(* goroutine takes them again when the wait ends ("reacquire").            *)
(*                                                                         *)
(* Every critical section under d.mu is one action; a Broadcast that       *)
(* follows an unlock belongs to the action whose change it announces.      *)
(***************************************************************************)
EXTENDS Integers, FiniteSets

CONSTANTS
    Hold,        \* submitted runs
    Task,        \* task ids
    Repo,        \* repositories
    TaskOf,      \* the task a run executes: two runs of one task are two attempts
    RepoOf,      \* the repository a run works in
    Concurrent,  \* the runs whose repository allows concurrency
    CallerOf,    \* CallerOf[h]: the run that calls h's task, or NoHold
    Limits,      \* values of containers.max_concurrency; <= 0 is unlimited
    MaxResumes,  \* bound on the reacquire goroutines of one run
    NoHold, NoPlace

ASSUME DispatcherAssumption ==
    /\ IsFiniteSet(Hold)
    /\ TaskOf \in [Hold -> Task]
    /\ RepoOf \in [Hold -> Repo]
    /\ Concurrent \subseteq Hold
    /\ CallerOf \in [Hold -> Hold \cup {NoHold}]
    /\ Limits \subseteq Int
    /\ MaxResumes \in Nat
    /\ NoHold \notin Hold
    /\ NoPlace \notin Hold \X (0 .. MaxResumes)

\* Goroutine <<h, 0>> is the one Submit starts for h; <<h, k>>, k > 0, is h's
\* k-th reacquire.  The baton a goroutine makes is named after it.
Goroutine == Hold \X (0 .. MaxResumes)

Submitted(h) == <<h, 0>>

VARIABLES
    pc,        \* pc[g]: where goroutine g is
    behind,    \* behind[g]: the baton g blocks on ("previous"), or NoPlace
    place,     \* place[g]: the state of the baton g made
    baton,     \* baton[h]: taskHold.baton
    slot,      \* slot[h]: taskHold.slot
    waits,     \* waits[h]: taskHold.waits
    named,     \* the runs that called taskHold.name
    holds,     \* taskDispatcher.holds, by task id
    repoTail,  \* taskDispatcher.repoTail
    active,    \* taskDispatcher.active
    limit,     \* taskDispatcher.limit
    call,      \* call[c]: the store's record of the call that started c
    reading,   \* the hold and the count the watcher has read but not applied
    waiter     \* the goroutine in Wait, at shutdown

vars == <<pc, behind, place, baton, slot, waits, named, holds, repoTail,
          active, limit, call, reading, waiter>>

chain == <<behind, place, baton, repoTail>>
slots == <<slot, active>>
listing == <<waits, named, holds>>

\* hold.finished; the run's process has returned.
Finished(h) == pc[Submitted(h)] = "done"

\* d.pending > 0: Submit counts a run in, finishRun counts it out.
Pending == \E h \in Hold : pc[Submitted(h)] \notin {"idle", "done"}

\* The condition takeSlotLocked waits for.
HasRoom == limit <= 0 \/ active < limit

Init ==
    /\ pc = [g \in Goroutine |-> "idle"]
    /\ behind = [g \in Goroutine |-> NoPlace]
    /\ place = [g \in Goroutine |-> "none"]
    /\ baton = [h \in Hold |-> NoPlace]
    /\ slot = [h \in Hold |-> FALSE]
    /\ waits = [h \in Hold |-> 0]
    /\ named = {}
    /\ holds = [t \in Task |-> NoHold]
    /\ repoTail = [r \in Repo |-> NoPlace]
    /\ active = 0
    /\ limit \in Limits
    /\ call = [h \in Hold |-> "none"]
    /\ reading = [hold |-> NoHold, waits |-> 0]
    /\ waiter = "none"

-----------------------------------------------------------------------------
\* The effects the critical sections share.

\* Mutant: no broadcast.
NotWoken(p) == p

\* slotsFree.Broadcast(): every goroutine asleep in takeSlotLocked tries again.
Woken(p) == [g \in Goroutine |-> IF p[g] = "asleep" THEN "turn" ELSE p[g]]

\* Mutant: one signal, which a goroutine in takeSlotLocked may take.
WaiterNotWoken == waiter' = waiter

\* Wait sleeps on the same condition variable.
WakeWaiter == waiter' = IF waiter = "asleep" THEN "check" ELSE waiter

\* joinRepoLocked, for the place goroutine g makes for its run.
Join(g) ==
    LET h == g[1] IN
    /\ place' = [place EXCEPT ![g] = "open"]
    /\ baton' = [baton EXCEPT ![h] = g]
    /\ behind' = [behind EXCEPT ![g] = repoTail[RepoOf[h]]]
    /\ repoTail' = [repoTail EXCEPT ![RepoOf[h]] = g]

\* giveBackLocked: the slot, which leaves the count only if the run has one.
CountedOut(h) == IF slot[h] THEN active - 1 ELSE active

\* giveBackLocked: the chain's tail, if it is the place given up.
TailWithout(h) ==
    IF baton[h] # NoPlace /\ repoTail[RepoOf[h]] = baton[h]
    THEN [repoTail EXCEPT ![RepoOf[h]] = NoPlace]
    ELSE repoTail

\* giveBackLocked: the slot, then the place, whose channel is closed.
GiveBack(h) ==
    /\ active' = CountedOut(h)
    /\ slot' = [slot EXCEPT ![h] = FALSE]
    /\ baton' = [baton EXCEPT ![h] = NoPlace]
    /\ place' = [g \in Goroutine |-> IF g = baton[h] THEN "closed" ELSE place[g]]
    /\ repoTail' = TailWithout(h)

\* The receive from "previous" returns: there is none, or it is closed.
Passed(g) == behind[g] # NoPlace => place[behind[g]] = "closed"

-----------------------------------------------------------------------------
\* Submit.  A callee's row is claimed only after a caller enqueued it, and the
\* drain loop has ended before Wait is called.
Submit(h) ==
    /\ waiter = "none"
    /\ pc[Submitted(h)] = "idle"
    /\ CallerOf[h] # NoHold => call[h] # "none"
    /\ pc' = [pc EXCEPT ![Submitted(h)] = "turn"]
    /\ IF h \in Concurrent
       THEN UNCHANGED <<chain>>
       ELSE Join(Submitted(h))
    /\ UNCHANGED <<slots, listing, limit, call, reading, waiter>>

\* takeSlotLocked finds no room and sleeps, for Submit's goroutine and for a
\* reacquire alike.
Sleep(g) ==
    /\ pc[g] = "turn"
    /\ Passed(g)
    /\ ~HasRoom
    /\ pc' = [pc EXCEPT ![g] = "asleep"]
    /\ UNCHANGED <<chain, slots, listing, limit, call, reading, waiter>>

\* Submit's goroutine takes its slot and calls process.
Start(h) ==
    LET g == Submitted(h) IN
    /\ pc[g] = "turn"
    /\ Passed(g)
    /\ HasRoom
    /\ active' = active + 1
    /\ slot' = [slot EXCEPT ![h] = TRUE]
    /\ pc' = [pc EXCEPT ![g] = "run"]
    /\ UNCHANGED <<chain, listing, limit, call, reading, waiter>>

\* taskHold.name, the first thing process does once the row is claimed.
Name(h) ==
    /\ pc[Submitted(h)] = "run"
    /\ h \notin named
    /\ named' = named \cup {h}
    /\ holds' = [holds EXCEPT ![TaskOf[h]] = h]
    /\ UNCHANGED <<chain, slots, pc, waits, limit, call, reading, waiter>>

\* finishRun: the watcher's entry for the task, if it is this run's.
Unlisted(h) ==
    IF holds[TaskOf[h]] = h THEN [holds EXCEPT ![TaskOf[h]] = NoHold] ELSE holds

\* finishRun, deferred in Submit's goroutine: process has returned.
FinishRun(h) ==
    /\ pc[Submitted(h)] = "run"
    /\ pc' = Woken([pc EXCEPT ![Submitted(h)] = "done"])
    /\ holds' = Unlisted(h)
    /\ GiveBack(h)
    /\ WakeWaiter
    /\ UNCHANGED <<behind, waits, named, limit, call, reading>>

\* SetMaxConcurrency.
SetMaxConcurrency(l) ==
    /\ limit # l
    /\ limit' = l
    /\ pc' = Woken(pc)
    /\ WakeWaiter
    /\ UNCHANGED <<chain, slots, listing, call, reading>>

-----------------------------------------------------------------------------
\* The store's record of a run's calls, as the workflow writes it: a workflow
\* makes one call at a time.

\* runWorkflowCall, first half: StartCall enqueues the callee.
StartCall(c) ==
    LET h == CallerOf[c] IN
    /\ h # NoHold
    /\ pc[Submitted(h)] = "run"
    /\ h \in named
    /\ call[c] = "none"
    /\ \A d \in Hold : CallerOf[d] = h => call[d] \in {"none", "closed"}
    /\ call' = [call EXCEPT ![c] = "enqueued"]
    /\ UNCHANGED <<chain, slots, listing, pc, limit, reading, waiter>>

\* runWorkflowCall, second half: startCallStep opens the call step.
OpenCallStep(c) ==
    /\ call[c] = "enqueued"
    /\ pc[Submitted(CallerOf[c])] = "run"
    /\ call' = [call EXCEPT ![c] = "open"]
    /\ UNCHANGED <<chain, slots, listing, pc, limit, reading, waiter>>

\* The call step closes: the callee ended (awaitCallee), nobody waits for it
\* (closeUnwaitedCall), or CancelExecution swept the caller's open steps.
CloseCallStep(c) ==
    /\ call[c] = "open"
    /\ call' = [call EXCEPT ![c] = "closed"]
    /\ UNCHANGED <<chain, slots, listing, pc, limit, reading, waiter>>

-----------------------------------------------------------------------------
\* reconcileCallWaits counts the call steps that are pending or running.
\* Mutant: only steps that have not started count.
CallsNotStarted(h) == {c \in Hold : CallerOf[c] = h /\ call[c] = "enqueued"}

OpenCalls(h) == {c \in Hold : CallerOf[c] = h /\ call[c] = "open"}

\* The watcher: one goroutine, which reads a run's open call steps from the
\* store and then applies the count under d.mu.  It ends with the daemon's
\* context.  A failed read skips the hold, which is no step here.
WatchRead(h) ==
    /\ waiter = "none"
    /\ reading.hold = NoHold
    /\ holds[TaskOf[h]] = h
    /\ reading' = [hold |-> h, waits |-> Cardinality(OpenCalls(h))]
    /\ UNCHANGED <<chain, slots, listing, pc, limit, call, waiter>>

\* setCallWaits refuses a hold that is retired or replaced.
Retired(h) == holds[TaskOf[h]] # h \/ Finished(h)

ApplyRefused(h) ==
    /\ reading.hold = h
    /\ Retired(h)
    /\ reading' = [hold |-> NoHold, waits |-> 0]
    /\ UNCHANGED <<chain, slots, listing, pc, limit, call, waiter>>

\* setCallWaits with waits > 0: the run gives its capacity back.
ApplyWaiting(h) ==
    /\ reading.hold = h
    /\ ~Retired(h)
    /\ reading.waits > 0
    /\ waits' = [waits EXCEPT ![h] = reading.waits]
    /\ GiveBack(h)
    /\ pc' = Woken(pc)
    /\ WakeWaiter
    /\ reading' = [hold |-> NoHold, waits |-> 0]
    /\ UNCHANGED <<behind, named, holds, limit, call>>

\* setCallWaits with waits = 0: a run that was waiting gets a reacquire.
ApplyResumed(h) ==
    /\ reading.hold = h
    /\ ~Retired(h)
    /\ reading.waits = 0
    /\ waits' = [waits EXCEPT ![h] = 0]
    /\ IF waits[h] > 0
       THEN \E k \in 1 .. MaxResumes :
               /\ pc[<<h, k>>] = "idle"
               /\ \A j \in 1 .. (k - 1) : pc[<<h, j>>] # "idle"
               /\ pc' = [pc EXCEPT ![<<h, k>>] = "start"]
       ELSE UNCHANGED pc
    /\ reading' = [hold |-> NoHold, waits |-> 0]
    /\ UNCHANGED <<chain, slots, named, holds, limit, call, waiter>>

\* The run needs no capacity any more.
\* Mutant: a run that waits again is forgotten.
NeedsNoneFinished(h) == Finished(h)

NeedsNone(h) == Finished(h) \/ waits[h] > 0

\* reacquire joins the chain unless another reacquire of the run already has.
\* Mutant: it always joins.
JoinsAgain(h) == h \notin Concurrent

Joins(h) == h \notin Concurrent /\ baton[h] = NoPlace

\* reacquire finds the run's one slot already taken by another reacquire.
\* Mutant: it does not look.
SlotNeverTaken(h) == FALSE

SlotTaken(h) == slot[h]

\* reacquire, up to the receive from "previous".
ReacquireJoin(g) ==
    LET h == g[1] IN
    /\ g[2] > 0
    /\ pc[g] = "start"
    /\ IF NeedsNone(h)
       THEN /\ pc' = [pc EXCEPT ![g] = "done"]
            /\ UNCHANGED <<chain>>
       ELSE /\ pc' = [pc EXCEPT ![g] = "turn"]
            /\ IF Joins(h)
               THEN Join(g)
               ELSE UNCHANGED <<chain>>
    /\ UNCHANGED <<slots, listing, limit, call, reading, waiter>>

\* reacquire, after the receive: the slot it takes is the run's, a second one
\* it returns, or one nobody needs, given back with the run's place.
ReacquireSlot(g) ==
    LET h == g[1] IN
    /\ g[2] > 0
    /\ pc[g] = "turn"
    /\ Passed(g)
    /\ HasRoom
    /\ IF SlotTaken(h)
       THEN /\ pc' = Woken([pc EXCEPT ![g] = "done"])
            /\ WakeWaiter
            /\ UNCHANGED <<slots, place, baton, repoTail>>
       ELSE IF NeedsNone(h)
       THEN /\ pc' = Woken([pc EXCEPT ![g] = "done"])
            /\ WakeWaiter
            /\ GiveBack(h)
       ELSE /\ pc' = [pc EXCEPT ![g] = "done"]
            /\ active' = active + 1
            /\ slot' = [slot EXCEPT ![h] = TRUE]
            /\ UNCHANGED <<place, baton, repoTail, waiter>>
    /\ UNCHANGED <<listing, behind, limit, call, reading>>

-----------------------------------------------------------------------------
\* The daemon's context ends and Run reaches Wait.
Shutdown ==
    /\ waiter = "none"
    /\ waiter' = "check"
    /\ UNCHANGED <<chain, slots, listing, pc, limit, call, reading>>

\* One turn of Wait's loop.
Wait ==
    /\ waiter = "check"
    /\ waiter' = IF Pending THEN "asleep" ELSE "returned"
    /\ UNCHANGED <<chain, slots, listing, pc, limit, call, reading>>

Next ==
    \/ \E h \in Hold :
          \/ Submit(h)
          \/ Start(h)
          \/ Name(h)
          \/ FinishRun(h)
          \/ StartCall(h)
          \/ OpenCallStep(h)
          \/ CloseCallStep(h)
          \/ WatchRead(h)
          \/ ApplyRefused(h)
          \/ ApplyWaiting(h)
          \/ ApplyResumed(h)
    \/ \E g \in Goroutine : Sleep(g) \/ ReacquireJoin(g) \/ ReacquireSlot(g)
    \/ \E l \in Limits : SetMaxConcurrency(l)
    \/ Shutdown
    \/ Wait

Spec == Init /\ [][Next]_vars

\* Go runs every goroutine that is not blocked, the watcher reads on a ticker,
\* a callee that ended is seen by its poller, and process returns once it has
\* nothing to wait for: its call ended, or the daemon's context was cancelled.
WaitsOnCallee(h) == \E c \in Hold : CallerOf[c] = h /\ call[c] = "open"

Fairness ==
    /\ \A h \in Hold :
          /\ WF_vars(Submit(h))
          /\ WF_vars(Start(h))
          /\ WF_vars(OpenCallStep(h))
          /\ WF_vars(CloseCallStep(h) /\ Finished(h))
          /\ SF_vars(WatchRead(h))
          /\ WF_vars(ApplyRefused(h) \/ ApplyWaiting(h) \/ ApplyResumed(h))
          /\ WF_vars(FinishRun(h) /\ (~WaitsOnCallee(h) \/ waiter # "none"))
    /\ \A g \in Goroutine : WF_vars(Sleep(g) \/ ReacquireJoin(g) \/ ReacquireSlot(g))
    /\ WF_vars(Wait)

FairSpec == Spec /\ Fairness

-----------------------------------------------------------------------------
\* Type correctness.
Places == Goroutine \cup {NoPlace}

TypeOK ==
    /\ pc \in [Goroutine -> {"idle", "start", "turn", "asleep", "run", "done"}]
    /\ behind \in [Goroutine -> Places]
    /\ place \in [Goroutine -> {"none", "open", "closed"}]
    /\ baton \in [Hold -> Places]
    /\ slot \in [Hold -> BOOLEAN]
    /\ waits \in [Hold -> Nat]
    /\ named \subseteq Hold
    /\ holds \in [Task -> Hold \cup {NoHold}]
    /\ repoTail \in [Repo -> Places]
    /\ active \in Nat
    /\ limit \in Limits
    /\ call \in [Hold -> {"none", "enqueued", "open", "closed"}]
    /\ reading \in [hold : Hold \cup {NoHold}, waits : Nat]
    /\ waiter \in {"none", "check", "asleep", "returned"}

\* The counter the limit is enforced on is exactly the number of runs that
\* record a slot, whatever gives slots back and takes them again
\* (giveBackLocked, the double-acquire return in reacquire).
SlotAccounting == active = Cardinality({h \in Hold : slot[h]})

\* A run that returned, or that waits on a callee, keeps neither a slot nor a
\* place in its repository's chain, although a reacquire for it may be in
\* flight when it returns or waits again (finishRun, setCallWaits, reacquire).
CapacityReturned ==
    \A h \in Hold : Finished(h) \/ waits[h] > 0 => ~slot[h] /\ baton[h] = NoPlace

\* A place in a chain that is still open is the one its run records, so the
\* run's finish or next wait closes it: no task is left blocked on a baton
\* that nothing will close (the hazard reacquire's comments describe).
OpenPlaceIsHeld ==
    \A g \in Goroutine : place[g] = "open" => baton[g[1]] = g

\* Whatever a task is queued behind, and the tail a new task will queue
\* behind, was really made and, while it is open, belongs to a live run.
ChainIsLive ==
    /\ \A g \in Goroutine : behind[g] # NoPlace =>
          place[behind[g]] # "none" /\ RepoOf[behind[g][1]] = RepoOf[g[1]]
    /\ \A r \in Repo : repoTail[r] # NoPlace =>
          /\ baton[repoTail[r][1]] = repoTail[r]
          /\ RepoOf[repoTail[r][1]] = r

\* The watcher's entry for a task is removed only by the run it names, and
\* otherwise only replaced by a later attempt: an older attempt of the task
\* that returns late leaves the newer one listed (finishRun's identity check).
EntryRemovedByItsRun ==
    [][\A h \in Hold :
          holds[TaskOf[h]] = h /\ holds'[TaskOf[h]] # h =>
              Finished(h)' \/ holds'[TaskOf[h]] \in named' \ named]_vars

\* Nobody sleeps on the condition variable while what it waits for holds:
\* every change that makes room, or retires the last run, is broadcast.
NoLostWakeup ==
    /\ (\E g \in Goroutine : pc[g] = "asleep") => ~HasRoom
    /\ waiter = "asleep" => Pending

\* taskDispatcher "runs one task per repo at a time ... unless the repo allows
\* concurrency": no two runs that never gave their place back execute in one
\* chained repository.  A run that waited on a callee is left out: it keeps
\* executing while it queues again, as reacquire documents.
NeverWaited(h) == waits[h] = 0 /\ \A k \in 1 .. MaxResumes : pc[<<h, k>>] = "idle"

RepoSerial ==
    \A h1, h2 \in Hold :
        /\ h1 # h2
        /\ RepoOf[h1] = RepoOf[h2]
        /\ {h1, h2} \cap Concurrent = {}
        /\ NeverWaited(h1) /\ NeverWaited(h2)
        => ~(pc[Submitted(h1)] = "run" /\ pc[Submitted(h2)] = "run")

\* Every submitted run is eventually processed to its end, also when a caller
\* and its callee compete for one slot or one repository.
EverySubmittedRunEnds ==
    \A h \in Hold : pc[Submitted(h)] = "turn" ~> Finished(h)

\* Shutdown completes: Wait returns although the watcher stopped with the
\* context and runs may be queued, waiting or resuming.
WaitReturns == waiter = "check" ~> waiter = "returned"
=============================================================================
