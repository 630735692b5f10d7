----------------------------- MODULE Scheduling -----------------------------
(***************************************************************************)
(* The scheduling engine and the router it runs jobs with.  A tick asks    *)
(* the schedules what is due and dispatches it: to one worker over a queue *)
(* or, for a parallel job, to a goroutine of its own that takes a slot.  A *)
(* run delivers the job and then advances its schedule, by replacing the   *)
(* whole document if nobody has replaced it meanwhile.                     *)
(***************************************************************************)
EXTENDS Naturals, Sequences, FiniteSets, Functions

CONSTANTS Job,
          Once,          \* the jobs that run once
          MaxParallel, QueueDepth,
          MarkTries,     \* attempts at replacing the document
          MaxNow, MaxEdits, MaxRunFaults

ASSUME SchedulingAssumption ==
    /\ IsFiniteSet(Job) /\ Once \subseteq Job
    /\ MaxParallel \in Nat \ {0} /\ QueueDepth \in Nat /\ MarkTries \in Nat \ {0}
    /\ MaxNow \in Nat /\ MaxEdits \in Nat /\ MaxRunFaults \in Nat

Pool == {"sequential", "parallel"}

VARIABLES doc,        \* the schedules: the jobs, their pools and next runs, and the version
          now,
          tick,       \* the tick loop, and what is left of the last answer to Due
          queue,      \* the sequential pool's backlog
          worker,     \* the sequential worker
          jobRun,     \* the run of each job in each pool
          claims,     \* the active job IDs
          wg,         \* the goroutines Stop waits for
          stop,       \* Stop
          edits, runFaults

schedVars == <<doc, now, tick, queue, worker, jobRun, claims, wg, stop, edits, runFaults>>

Run == Job \X Pool
NoRun == [pc |-> "none"]

SchedInit ==
    /\ \E pool \in [Job -> Pool] :
          doc = [jobs |-> Job, pool |-> pool, next |-> [j \in Job |-> 1], version |-> 0]
    /\ now = 0
    /\ tick = [pc |-> "sleep", due |-> <<>>]
    /\ queue = <<>> /\ worker = "idle"
    /\ jobRun = [r \in Run |-> NoRun]
    /\ claims = {} /\ wg = 2 /\ stop = "no"
    /\ edits = 0 /\ runFaults = 0

RunFails == runFaults < MaxRunFaults /\ runFaults' = runFaults + 1
RunAt(r, pc) == jobRun' = [jobRun EXCEPT ![r].pc = pc]
Over(r) == jobRun' = [jobRun EXCEPT ![r] = [pc |-> "release"]]
InFlight(r) == jobRun[r].pc \notin {"none", "wait"}

\* Stop has ended the loop's context; past its deadline, the runs' too.
loopDone == stop # "no"
runsCancelled == stop = "late"

\* Time passes.
Clock ==
    /\ now < MaxNow
    /\ now' = now + 1
    /\ UNCHANGED <<doc, tick, queue, worker, jobRun, claims, wg, stop, edits, runFaults>>

\* Someone deletes a job or gives it another pool.
EditSchedules(j) ==
    /\ edits < MaxEdits /\ j \in doc.jobs
    /\ \/ doc' = [doc EXCEPT !.jobs = @ \ {j}, !.version = @ + 1]
       \/ \E p \in Pool \ {doc.pool[j]} : doc' = [doc EXCEPT !.pool[j] = p, !.version = @ + 1]
    /\ edits' = edits + 1
    /\ UNCHANGED <<now, tick, queue, worker, jobRun, claims, wg, stop, runFaults>>
-----------------------------------------------------------------------------
(***************************************************************************)
(* The tick loop                                                           *)
(***************************************************************************)

DueJobs == {j \in doc.jobs : doc.next[j] <= now}

\* With the loop's context ended Due fails, and the loop comes to its exit.
Due ==
    /\ tick.pc = "sleep" /\ ~loopDone /\ DueJobs # {}
    /\ \E order \in Bijection(1 .. Cardinality(DueJobs), DueJobs) :
          tick' = [pc |-> "dispatch", due |-> [i \in DOMAIN order |-> <<order[i], doc.pool[order[i]]>>]]
    /\ UNCHANGED <<doc, now, queue, worker, jobRun, claims, wg, stop, edits, runFaults>>

MutClaim(r) == jobRun[r].pc = "none"
\* No run of the job is queued or in flight.
claim(r) == r[1] \notin claims

MutQueueFull(r) == claims' = claims \cup {r[1]} /\ UNCHANGED <<queue, jobRun, wg>>
\* The claim is given back.
QueueFull(r) == UNCHANGED <<queue, jobRun, claims, wg>>

\* A goroutine that Stop waits for.
wgGo == wg' = wg + 1

\* The rest of an answer is dispatched even when Stop comes meanwhile.
dispatch ==
    /\ tick.pc = "dispatch"
    /\ tick' = [pc |-> IF Len(tick.due) = 1 THEN "sleep" ELSE "dispatch", due |-> Tail(tick.due)]
    /\ LET r == Head(tick.due) IN
       \/ ~claim(r) /\ UNCHANGED <<queue, jobRun, claims, wg>>
       \/ /\ claim(r) /\ r[2] = "parallel"
          /\ RunAt(r, "wait") /\ claims' = claims \cup {r[1]} /\ wgGo /\ UNCHANGED queue
       \/ /\ claim(r) /\ r[2] = "sequential" /\ Len(queue) < QueueDepth
          /\ RunAt(r, "wait") /\ claims' = claims \cup {r[1]} /\ queue' = Append(queue, r[1]) /\ UNCHANGED wg
       \/ claim(r) /\ r[2] = "sequential" /\ Len(queue) >= QueueDepth /\ QueueFull(r)
    /\ UNCHANGED <<doc, now, worker, stop, edits, runFaults>>

tickLoopExits ==
    /\ tick.pc = "sleep" /\ loopDone
    /\ tick' = [tick EXCEPT !.pc = "exited"] /\ wg' = wg - 1
    /\ UNCHANGED <<doc, now, queue, worker, jobRun, claims, stop, edits, runFaults>>
-----------------------------------------------------------------------------
(***************************************************************************)
(* The pools.  Where a select has two ready cases it takes either.         *)
(***************************************************************************)

slots == {j \in Job : InFlight(<<j, "parallel">>)}

takeSlot(j) ==
    LET r == <<j, "parallel">> IN
    /\ jobRun[r].pc = "wait"
    /\ \/ Cardinality(slots) < MaxParallel /\ RunAt(r, "deliver") /\ UNCHANGED <<claims, wg>>
       \/ loopDone /\ RunAt(r, "none") /\ claims' = claims \ {j} /\ wg' = wg - 1
    /\ UNCHANGED <<doc, now, tick, queue, worker, stop, edits, runFaults>>

sequentialWorker ==
    /\ worker = "idle"
    /\ \/ /\ queue # <<>>
          /\ worker' = "busy" /\ queue' = Tail(queue) /\ RunAt(<<Head(queue), "sequential">>, "deliver")
          /\ UNCHANGED wg
       \/ loopDone /\ worker' = "exited" /\ wg' = wg - 1 /\ UNCHANGED <<queue, jobRun>>
    /\ UNCHANGED <<doc, now, tick, claims, stop, edits, runFaults>>

\* A call of the run fails: the job is gone, Stop cancelled the run, or the
\* service called did.
CallFailsRun(r) ==
    /\ Over(r) /\ UNCHANGED doc
    /\ \/ (runsCancelled \/ r[1] \notin doc.jobs) /\ UNCHANGED runFaults
       \/ RunFails

\* Router.Run: the job is looked up and handed to the runner of its kind, and
\* the time of the run is taken.
deliver(r) ==
    /\ jobRun[r].pc = "deliver"
    /\ \/ /\ ~runsCancelled /\ r[1] \in doc.jobs
          /\ jobRun' = [jobRun EXCEPT ![r] = [pc |-> "mark", at |-> now, tries |-> 0]]
          /\ UNCHANGED <<doc, runFaults>>
       \/ CallFailsRun(r)
    /\ UNCHANGED <<now, tick, queue, worker, claims, wg, stop, edits>>

\* MarkRun reads the document.
markReads(r) ==
    /\ jobRun[r].pc = "mark"
    /\ \/ /\ ~runsCancelled /\ r[1] \in doc.jobs
          /\ jobRun' = [jobRun EXCEPT ![r] = [pc |-> "replace", at |-> @.at, tries |-> @.tries + 1, read |-> doc]]
          /\ UNCHANGED <<doc, runFaults>>
       \/ CallFailsRun(r)
    /\ UNCHANGED <<now, tick, queue, worker, claims, wg, stop, edits>>

MutConflict(r) == FALSE
\* The store has another version than the one that was read.
Conflict(r) == jobRun[r].read.version # doc.version

\* The document that was read, with the job advanced past the run or, where it
\* runs once, taken out.
Marked(r) ==
    LET read == jobRun[r].read IN
    IF r[1] \in Once
    THEN [read EXCEPT !.jobs = @ \ {r[1]}, !.version = doc.version + 1]
    ELSE [read EXCEPT !.next[r[1]] = jobRun[r].at + 1, !.version = doc.version + 1]

\* A conflict is tried again from the read, a number of times.
replaceSchedules(r) ==
    /\ jobRun[r].pc = "replace"
    /\ \/ ~Conflict(r) /\ ~runsCancelled /\ doc' = Marked(r) /\ Over(r) /\ UNCHANGED runFaults
       \/ /\ Conflict(r) /\ ~runsCancelled
          /\ jobRun' = [jobRun EXCEPT ![r] = IF @.tries < MarkTries THEN [pc |-> "mark", at |-> @.at, tries |-> @.tries]
                                            ELSE [pc |-> "release"]]
          /\ UNCHANGED <<doc, runFaults>>
       \/ CallFailsRun(r)
    /\ UNCHANGED <<now, tick, queue, worker, claims, wg, stop, edits>>

\* The worker goes on to its next job; a parallel run's goroutine ends.
RunEnded(r) ==
    IF r[2] = "sequential" THEN worker' = "idle" /\ UNCHANGED wg ELSE wg' = wg - 1 /\ UNCHANGED worker

\* The run is over, well or not: its claim is given back.
release(r) ==
    /\ jobRun[r].pc = "release"
    /\ jobRun' = [jobRun EXCEPT ![r] = NoRun]
    /\ claims' = claims \ {r[1]}
    /\ RunEnded(r)
    /\ UNCHANGED <<doc, now, tick, queue, stop, edits, runFaults>>
-----------------------------------------------------------------------------
(***************************************************************************)
(* Stop                                                                    *)
(***************************************************************************)

Stop ==
    /\ stop = "no"
    /\ stop' = "waiting"
    /\ UNCHANGED <<doc, now, tick, queue, worker, jobRun, claims, wg, edits, runFaults>>

MutStopReturns ==
    /\ stop = "waiting"
    /\ stop' \in {"clean", "late"}
    /\ stop' = "clean" => tick.pc = "exited" /\ worker = "exited"
    /\ UNCHANGED <<doc, now, tick, queue, worker, jobRun, claims, wg, edits, runFaults>>

\* Everything it waited for is over, or its deadline has passed.
StopReturns ==
    /\ stop = "waiting"
    /\ stop' \in {"clean", "late"}
    /\ stop' = "clean" => wg = 0
    /\ UNCHANGED <<doc, now, tick, queue, worker, jobRun, claims, wg, edits, runFaults>>

RunStep(r) == deliver(r) \/ markReads(r) \/ replaceSchedules(r) \/ release(r)
TickStep == Due \/ dispatch \/ tickLoopExits

SchedNext ==
    \/ Clock \/ TickStep \/ sequentialWorker \/ Stop \/ StopReturns
    \/ \E j \in Job : EditSchedules(j) \/ takeSlot(j)
    \/ \E r \in Run : RunStep(r)

SchedSpec == SchedInit /\ [][SchedNext]_schedVars
-----------------------------------------------------------------------------
(***************************************************************************)
(* Properties                                                              *)
(***************************************************************************)

SchedTypeOK ==
    /\ doc \in [jobs : SUBSET Job, pool : [Job -> Pool], next : [Job -> 0 .. MaxNow + 1], version : Nat]
    /\ now \in 0 .. MaxNow /\ tick.pc \in {"sleep", "dispatch", "exited"} /\ tick.due \in Seq(Run)
    /\ queue \in Seq(Job) /\ worker \in {"idle", "busy", "exited"}
    /\ \A r \in Run : jobRun[r].pc \in {"none", "wait", "deliver", "mark", "replace", "release"}
    /\ claims \subseteq Job /\ wg \in Nat /\ stop \in {"no", "waiting", "clean", "late"}

\* A job never overlaps itself, not even when it changes pools between ticks,
\* and no two jobs of the sequential pool overlap.
NeverOverlaps ==
    \A r, s \in Run :
        r # s /\ InFlight(r) /\ InFlight(s) => r[1] # s[1] /\ (r[2] = "parallel" \/ s[2] = "parallel")

\* A Stop that reports no error leaves nothing running that it did not wait for.
StoppedIsQuiet == stop = "clean" => \A r \in Run : ~InFlight(r)

\* Recording a run touches its own job only: it undoes neither another run's
\* record nor someone's edit of the schedules.
MarkTouchesItsOwn ==
    [][\A j \in Job :
          (j \in doc.jobs) # (j \in doc'.jobs) \/ doc.next[j] # doc'.next[j] \/ doc.pool[j] # doc'.pool[j] =>
             edits' # edits \/ \E p \in Pool : jobRun[<<j, p>>].pc = "replace"]_schedVars

\* The engine keeps coming to where no job is due: each is run and its schedule
\* advanced, whatever the queue's state when it came up and whatever call failed,
\* unless it is deleted or the engine stops.
DueIsRun == []<>(DueJobs = {} \/ loopDone)

\* An occurrence is delivered once where nothing fails and nothing is edited.
\* The engine does not promise it: an answer to Due may list a job whose run is
\* in flight, and be dispatched once that run has been recorded and released.
DeliveredOnce ==
    [][\A r \in Run : jobRun[r].pc = "deliver" /\ jobRun'[r].pc = "mark" /\ runFaults = 0 /\ edits = 0
          => r[1] \in DueJobs]_schedVars
=============================================================================
