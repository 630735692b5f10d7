-------------------------- MODULE SchedulingProofs --------------------------
(***************************************************************************)
(* The scheduling engine never overlaps a job with itself, a clean Stop    *)
(* leaves nothing running, and recording a run touches its own job only,   *)
(* for any jobs, pools, slots, queue depth, edits and faults.  The refusal *)
(* of call cycles is right about any workflows and any calls among them.   *)
(***************************************************************************)
EXTENDS Scheduling, CallCycles, FiniteSetTheorems, SequenceTheorems, TLAPS
USE SMTT(20), ZenonT(20)

Doc == [jobs : SUBSET Job, pool : [Job -> Pool], next : [Job -> 0 .. MaxNow + 1], version : Nat]

\* What a run carries: when it ran once it was delivered, and the document once
\* MarkRun has read it.
RunRecord ==
    [pc : {"none", "wait", "deliver", "release"}]
    \cup [pc : {"mark"}, at : 0 .. MaxNow, tries : Nat]
    \cup [pc : {"replace"}, at : 0 .. MaxNow, tries : Nat, read : Doc]

\* The types, with what the runs carry; an answer to Due that is being
\* dispatched is not empty.
SchedTypes ==
    /\ doc \in Doc /\ now \in 0 .. MaxNow
    /\ tick \in [pc : {"sleep", "dispatch", "exited"}, due : Seq(Run)]
    /\ tick.pc = "dispatch" => tick.due # <<>>
    /\ queue \in Seq(Job) /\ worker \in {"idle", "busy", "exited"}
    /\ jobRun \in [Run -> RunRecord]
    /\ claims \in SUBSET Job /\ wg \in Int /\ stop \in {"no", "waiting", "clean", "late"}
    /\ edits \in Nat /\ runFaults \in Nat

\* A job that has a run, waiting or in flight, has its claim, and one run only.
ClaimCovers ==
    /\ \A r \in Run : jobRun[r].pc # "none" => r[1] \in claims
    /\ \A r, s \in Run : jobRun[r].pc # "none" /\ jobRun[s].pc # "none" /\ r[1] = s[1] => r = s

\* The queue holds sequential runs that wait, each once; one that has left it
\* is the worker's.
QueueWaits ==
    /\ \A i \in 1 .. Len(queue) : jobRun[<<queue[i], "sequential">>].pc = "wait"
    /\ \A i, k \in 1 .. Len(queue) : queue[i] = queue[k] => i = k
    /\ \A j \in Job : InFlight(<<j, "sequential">>) => worker = "busy"
    /\ \A j, k \in Job : InFlight(<<j, "sequential">>) /\ InFlight(<<k, "sequential">>) => j = k

\* The wait group counts the tick loop, the worker and the goroutines of
\* parallel runs.
Goroutines == {j \in Job : jobRun[<<j, "parallel">>].pc # "none"}
WaitGroupCounts ==
    wg = (IF tick.pc = "exited" THEN 0 ELSE 1) + (IF worker = "exited" THEN 0 ELSE 1) + Cardinality(Goroutines)

\* A clean Stop saw the wait group empty, and it stays so.
CleanIsEmpty == stop = "clean" => wg = 0

\* A document that was read and has the version in force is the one in force.
ReadIsCurrent ==
    \A r \in Run : jobRun[r].pc = "replace" =>
        /\ jobRun[r].read.version <= doc.version
        /\ jobRun[r].read.version = doc.version => jobRun[r].read = doc

\* The parallel pool's semaphore.
SlotsAreBounded == Cardinality(slots) <= MaxParallel

SchedInv ==
    /\ SchedTypes /\ ClaimCovers /\ QueueWaits /\ WaitGroupCounts /\ CleanIsEmpty
    /\ ReadIsCurrent /\ SlotsAreBounded
-----------------------------------------------------------------------------
\* A run is a job and a pool.
LEMMA RunPairs ==
    /\ \A j \in Job, p \in Pool : <<j, p>> \in Run
    /\ \A r \in Run : r[1] \in Job /\ r[2] \in Pool /\ r = <<r[1], r[2]>>
    /\ "sequential" \in Pool /\ "parallel" \in Pool
BY DEF Run, Pool

\* A set of jobs is finite.
LEMMA JobsFinite == ASSUME NEW S \in SUBSET Job PROVE IsFiniteSet(S) /\ Cardinality(S) \in Nat
BY SchedulingAssumption, FS_Subset, FS_CardinalityType, Zenon

\* What each kind of run record is.
LEMMA Records ==
    ASSUME NEW x \in RunRecord
    PROVE  /\ x.pc \in {"none", "wait", "deliver", "mark", "replace", "release"}
           /\ x.pc \in {"none", "wait", "deliver", "release"} =>
                 \A pc \in {"none", "wait", "deliver", "release"} : [x EXCEPT !.pc = pc] = [pc |-> pc]
           /\ x.pc \in {"mark", "replace"} => x.at \in 0 .. MaxNow /\ x.tries \in Nat
           /\ x.pc = "replace" => x.read \in Doc
<1>1. CASE x \in [pc : {"none", "wait", "deliver", "release"}]
  BY <1>1
<1>2. CASE x \in [pc : {"mark"}, at : 0 .. MaxNow, tries : Nat]
  BY <1>2, Zenon
<1>3. CASE x \in [pc : {"replace"}, at : 0 .. MaxNow, tries : Nat, read : Doc]
  BY <1>3, Zenon
<1>. QED  BY <1>1, <1>2, <1>3, Zenon DEF RunRecord

\* And how it is made.
LEMMA MakeRecord ==
    /\ \A pc \in {"none", "wait", "deliver", "release"} : [pc |-> pc] \in RunRecord
    /\ \A at \in 0 .. MaxNow, tries \in Nat : [pc |-> "mark", at |-> at, tries |-> tries] \in RunRecord
    /\ \A at \in 0 .. MaxNow, tries \in Nat, read \in Doc :
          [pc |-> "replace", at |-> at, tries |-> tries, read |-> read] \in RunRecord
BY Zenon DEF RunRecord

\* The engine starts with nothing queued and two goroutines.
LEMMA SchedInitInv == SchedInit => SchedInv
<1> SUFFICES ASSUME SchedInit PROVE SchedInv
  BY Zenon
<1>1. \A r \in Run : jobRun[r] = [pc |-> "none"]
  BY Zenon DEF SchedInit, NoRun
<1>2. SchedTypes
  <2>1. doc \in Doc
    BY SchedulingAssumption DEF SchedInit, Doc
  <2>2. tick \in [pc : {"sleep", "dispatch", "exited"}, due : Seq(Run)] /\ tick.pc = "sleep"
    BY DEF SchedInit
  <2>3. jobRun \in [Run -> RunRecord]
    BY MakeRecord, Zenon DEF SchedInit, NoRun
  <2>. QED  BY <2>1, <2>2, <2>3, SchedulingAssumption DEF SchedInit, SchedTypes
<1>3. ClaimCovers /\ ReadIsCurrent
  BY <1>1 DEF ClaimCovers, ReadIsCurrent
<1>4. QueueWaits
  BY <1>1, RunPairs DEF SchedInit, QueueWaits, InFlight
<1>5. Goroutines = {} /\ slots = {}
  BY <1>1, RunPairs DEF Goroutines, slots, InFlight
<1>6. WaitGroupCounts /\ SlotsAreBounded
  BY <1>5, FS_EmptySet, SchedulingAssumption DEF SchedInit, WaitGroupCounts, SlotsAreBounded
<1>7. CleanIsEmpty
  BY Zenon DEF SchedInit, CleanIsEmpty
<1>. QED  BY <1>2, <1>3, <1>4, <1>6, <1>7, Zenon DEF SchedInv

\* One run changes, and no other.
LEMMA OneRunChanges ==
    ASSUME SchedTypes, NEW r \in Run, NEW x \in RunRecord, jobRun' = [jobRun EXCEPT ![r] = x]
    PROVE  /\ jobRun' \in [Run -> RunRecord]
           /\ jobRun'[r] = x
           /\ \A s \in Run : s # r => jobRun'[s] = jobRun[s]
BY Zenon DEF SchedTypes

\* A run that carries nothing is moved to another place where it carries nothing.
LEMMA RunAtMoves ==
    ASSUME SchedTypes, NEW r \in Run, NEW pc \in {"none", "wait", "deliver", "release"},
           jobRun[r].pc \in {"none", "wait", "deliver", "release"}, RunAt(r, pc)
    PROVE  jobRun' = [jobRun EXCEPT ![r] = [pc |-> pc]]
<1>1. jobRun[r] \in RunRecord
  BY Zenon DEF SchedTypes
<1>2. [jobRun[r] EXCEPT !.pc = pc] = [pc |-> pc]
  BY <1>1, Records, Zenon
<1>. QED  BY <1>2, Zenon DEF RunAt

\* The wait group is at zero only when the tick loop and the worker have exited
\* and no parallel run is left.
LEMMA CleanIsOver ==
    ASSUME SchedInv, stop = "clean"
    PROVE  /\ tick.pc = "exited" /\ worker = "exited"
           /\ \A j \in Job : jobRun[<<j, "parallel">>].pc = "none"
<1>1. Goroutines \in SUBSET Job
  BY Zenon DEF Goroutines
<1>2. Cardinality(Goroutines) \in Nat /\ IsFiniteSet(Goroutines)
  BY <1>1, JobsFinite, Zenon
<1>3. tick.pc = "exited" /\ worker = "exited" /\ Cardinality(Goroutines) = 0
  BY <1>2 DEF SchedInv, CleanIsEmpty, WaitGroupCounts
<1>4. Goroutines = {}
  BY <1>2, <1>3, FS_EmptySet, Zenon
<1>. QED  BY <1>3, <1>4, Zenon DEF Goroutines

\* The invariant survives when no run changes its place, and the queue and the
\* worker are left alone.
LEMMA NoRunMoves ==
    ASSUME SchedInv, SchedTypes', claims' = claims, queue' = queue, worker' = worker, jobRun' = jobRun,
           wg' = (IF tick'.pc = "exited" THEN 0 ELSE 1) + (IF worker = "exited" THEN 0 ELSE 1) + Cardinality(Goroutines),
           ReadIsCurrent', CleanIsEmpty'
    PROVE  SchedInv'
<1>1. Goroutines' = Goroutines /\ slots' = slots
  BY Zenon DEF Goroutines, slots, InFlight
<1>2. ClaimCovers' /\ QueueWaits'
  BY DEF SchedInv, ClaimCovers, QueueWaits, InFlight
<1>3. WaitGroupCounts' /\ SlotsAreBounded'
  BY <1>1, Zenon DEF SchedInv, WaitGroupCounts, SlotsAreBounded
<1>. QED  BY <1>2, <1>3, Zenon DEF SchedInv

\* The invariant survives when a run in flight moves on and stays in flight.
LEMMA FlightMoves ==
    ASSUME SchedInv, NEW r \in Run, InFlight(r), NEW x \in RunRecord, x.pc \notin {"none", "wait"},
           jobRun' = [jobRun EXCEPT ![r] = x], SchedTypes', ReadIsCurrent',
           UNCHANGED <<tick, queue, worker, claims, wg, stop>>
    PROVE  SchedInv'
<1>0. SchedTypes
  BY Zenon DEF SchedInv
<1>1. jobRun'[r] = x /\ \A s \in Run : s # r => jobRun'[s] = jobRun[s]
  BY <1>0, OneRunChanges, Zenon
<1>2. \A s \in Run : /\ (jobRun'[s].pc # "none") <=> (jobRun[s].pc # "none")
                     /\ InFlight(s)' <=> InFlight(s)
                     /\ (jobRun'[s].pc = "wait") <=> (jobRun[s].pc = "wait")
  BY <1>1, Zenon DEF InFlight
<1>3. Goroutines' = Goroutines /\ slots' = slots
  BY <1>2, RunPairs, Zenon DEF Goroutines, slots
<1>4. ClaimCovers'
  BY <1>2, Zenon DEF SchedInv, ClaimCovers
<1>5. QueueWaits'
  <2>1. \A i \in 1 .. Len(queue) : queue[i] \in Job
    BY <1>0 DEF SchedTypes
  <2>2. \A i \in 1 .. Len(queue') : jobRun'[<<queue'[i], "sequential">>].pc = "wait"
    BY <2>1, <1>2, RunPairs, Zenon DEF SchedInv, QueueWaits
  <2>3. /\ \A j \in Job : InFlight(<<j, "sequential">>)' => worker' = "busy"
        /\ \A j, k \in Job : InFlight(<<j, "sequential">>)' /\ InFlight(<<k, "sequential">>)' => j = k
    BY <1>2, RunPairs, Zenon DEF SchedInv, QueueWaits
  <2>. QED  BY <2>2, <2>3, Zenon DEF SchedInv, QueueWaits
<1>6. WaitGroupCounts' /\ SlotsAreBounded' /\ CleanIsEmpty'
  BY <1>3, Zenon DEF SchedInv, WaitGroupCounts, SlotsAreBounded, CleanIsEmpty
<1>. QED  BY <1>4, <1>5, <1>6, Zenon DEF SchedInv
-----------------------------------------------------------------------------
(***************************************************************************)
(* One lemma per action                                                    *)
(***************************************************************************)

\* Time passes: nothing that the invariant is about moves.
LEMMA ClockKeeps == ASSUME SchedInv, Clock PROVE SchedInv'
<1>1. SchedTypes'
  BY SchedulingAssumption DEF SchedInv, SchedTypes, Clock
<1>2. ReadIsCurrent' /\ CleanIsEmpty'
  BY Zenon DEF SchedInv, ReadIsCurrent, CleanIsEmpty, Clock
<1>. QED  BY <1>1, <1>2, NoRunMoves, Zenon DEF SchedInv, WaitGroupCounts, Clock

\* An edit gives the document a version that no run has read.
LEMMA EditKeeps == ASSUME SchedInv, NEW j \in Job, EditSchedules(j) PROVE SchedInv'
<1>0. doc \in Doc
  BY Zenon DEF SchedInv, SchedTypes
<1>1. doc' \in Doc /\ doc'.version = doc.version + 1
  <2>0. /\ doc.jobs \in SUBSET Job /\ doc.pool \in [Job -> Pool] /\ doc.version \in Nat
        /\ doc.next \in [Job -> 0 .. MaxNow + 1]
        /\ doc = [jobs |-> doc.jobs, pool |-> doc.pool, next |-> doc.next, version |-> doc.version]
    BY <1>0, Zenon DEF Doc
  <2>1. CASE doc' = [doc EXCEPT !.jobs = @ \ {j}, !.version = @ + 1]
    <3>1. doc' = [jobs |-> doc.jobs \ {j}, pool |-> doc.pool, next |-> doc.next, version |-> doc.version + 1]
      BY <2>0, <2>1, Zenon
    <3>. QED  BY <2>0, <3>1 DEF Doc
  <2>2. ASSUME NEW p \in Pool, doc' = [doc EXCEPT !.pool[j] = p, !.version = @ + 1]
        PROVE  doc' \in Doc /\ doc'.version = doc.version + 1
    <3>1. [doc.pool EXCEPT ![j] = p] \in [Job -> Pool]
      BY <2>0, Zenon
    <3>2. doc' = [jobs |-> doc.jobs, pool |-> [doc.pool EXCEPT ![j] = p], next |-> doc.next,
                  version |-> doc.version + 1]
      BY <2>0, <2>2, Zenon
    <3>. QED  BY <2>0, <3>1, <3>2 DEF Doc
  <2>. QED  BY <2>1, <2>2, Zenon DEF EditSchedules
<1>a. UNCHANGED <<now, tick, queue, worker, jobRun, claims, wg, stop, runFaults>> /\ edits' = edits + 1
  BY Zenon DEF EditSchedules
<1>2. SchedTypes'
  BY <1>1, <1>a DEF SchedInv, SchedTypes
<1>3. ReadIsCurrent'
  <2> SUFFICES ASSUME NEW r \in Run, jobRun[r].pc = "replace"
               PROVE  jobRun[r].read.version < doc'.version
    <3>1. \A r \in Run : jobRun[r].pc = "replace" => jobRun[r].read.version \in Nat /\ doc'.version \in Nat
      BY <1>1, Records, Zenon DEF SchedInv, SchedTypes, Doc
    <3>. QED  BY <3>1, <1>a DEF ReadIsCurrent
  <2>1. jobRun[r].read.version \in Nat /\ doc.version \in Nat
    BY Records, Zenon DEF SchedInv, SchedTypes, Doc
  <2>. QED  BY <2>1, <1>1 DEF SchedInv, ReadIsCurrent
<1>4. CleanIsEmpty'
  BY Zenon DEF SchedInv, CleanIsEmpty, EditSchedules
<1>. QED  BY <1>2, <1>3, <1>4, NoRunMoves, Zenon DEF SchedInv, WaitGroupCounts, EditSchedules

\* Stop is called, or returns.
LEMMA StopKeeps == ASSUME SchedInv, Stop \/ StopReturns PROVE SchedInv'
<1>1. SchedTypes'
  BY Zenon DEF SchedInv, SchedTypes, Stop, StopReturns
<1>2. ReadIsCurrent' /\ CleanIsEmpty'
  BY Zenon DEF SchedInv, ReadIsCurrent, CleanIsEmpty, Stop, StopReturns
<1>. QED  BY <1>1, <1>2, NoRunMoves, Zenon DEF SchedInv, WaitGroupCounts, Stop, StopReturns

\* The tick loop ends, and the wait group has one fewer.
LEMMA ExitKeeps == ASSUME SchedInv, tickLoopExits PROVE SchedInv'
<1>1. SchedTypes'
  BY DEF SchedInv, SchedTypes, tickLoopExits
<1>2. ReadIsCurrent'
  BY Zenon DEF SchedInv, ReadIsCurrent, tickLoopExits
<1>3. CleanIsEmpty'
  BY CleanIsOver, Zenon DEF CleanIsEmpty, tickLoopExits
<1>4. Cardinality(Goroutines) \in Nat
  BY JobsFinite, Zenon DEF Goroutines
<1>5. tick.pc # "exited" /\ tick'.pc = "exited"
  BY Zenon DEF SchedInv, SchedTypes, tickLoopExits
<1>. QED  BY <1>1, <1>2, <1>3, <1>4, <1>5, NoRunMoves DEF SchedInv, WaitGroupCounts, tickLoopExits

\* An answer to Due lists runs.
LEMMA DueKeeps == ASSUME SchedInv, Due PROVE SchedInv'
<1> PICK order \in Bijection(1 .. Cardinality(DueJobs), DueJobs) :
          tick' = [pc |-> "dispatch", due |-> [i \in DOMAIN order |-> <<order[i], doc.pool[order[i]]>>]]
  BY Zenon DEF Due
<1>1. DueJobs \in SUBSET Job /\ DueJobs # {}
  BY Zenon DEF DueJobs, SchedInv, SchedTypes, Doc, Due
<1>2. Cardinality(DueJobs) \in Nat /\ Cardinality(DueJobs) # 0
  BY <1>1, JobsFinite, FS_EmptySet, Zenon
<1>3. order \in [1 .. Cardinality(DueJobs) -> DueJobs]
  BY Zenon DEF Bijection, Injection
<1>4. tick'.due \in [1 .. Cardinality(DueJobs) -> Run]
  BY <1>1, <1>3, RunPairs, Zenon DEF SchedInv, SchedTypes, Doc
<1>5. tick'.due \in Seq(Run) /\ tick'.due # <<>>
  <2>1. PICK c \in Nat : c = Cardinality(DueJobs) /\ c # 0
    BY <1>2, Zenon
  <2>2. PICK due : due = tick'.due
    BY Zenon
  <2>3. due \in [1 .. c -> Run]
    BY <1>4, <2>1, <2>2, Zenon
  <2>. HIDE DEF Run
  <2>4. due \in Seq(Run) /\ due # <<>>
    BY <2>1, <2>3
  <2>. QED  BY <2>2, <2>4, Zenon
<1>6. SchedTypes'
  BY <1>5, Zenon DEF SchedInv, SchedTypes, Due
<1>7. ReadIsCurrent' /\ CleanIsEmpty'
  BY Zenon DEF SchedInv, ReadIsCurrent, CleanIsEmpty, Due
<1>8. tick.pc # "exited" /\ tick'.pc # "exited"
  BY Zenon DEF Due
<1>. QED  BY <1>6, <1>7, <1>8, NoRunMoves, Zenon DEF SchedInv, WaitGroupCounts, Due

\* What is left of an answer is a shorter answer.
LEMMA DispatchTick ==
    ASSUME SchedInv, dispatch
    PROVE  /\ Head(tick.due) \in Run
           /\ tick' \in [pc : {"sleep", "dispatch", "exited"}, due : Seq(Run)]
           /\ tick'.pc = "dispatch" => tick'.due # <<>>
           /\ tick.pc # "exited" /\ tick'.pc # "exited"
<1>1. tick.due \in Seq(Run) /\ tick.due # <<>> /\ tick.pc = "dispatch"
  BY Zenon DEF SchedInv, SchedTypes, dispatch
<1>2. Head(tick.due) \in Run /\ Tail(tick.due) \in Seq(Run) /\ Len(Tail(tick.due)) = Len(tick.due) - 1
  BY <1>1, HeadTailProperties, Zenon
<1>3. Len(tick.due) \in Nat /\ Len(tick.due) # 0
  BY <1>1, EmptySeq, LenProperties, Zenon
<1>4. Len(tick.due) # 1 => Tail(tick.due) # <<>>
  <2>1. Len(tick.due) # 1 => Len(Tail(tick.due)) # 0
    BY <1>2, <1>3
  <2>2. Tail(tick.due) = <<>> => Len(Tail(tick.due)) = 0
    <3>1. Len(<<>>) = 0
      BY EmptySeq, Zenon
    <3>. QED  BY <3>1, Zenon
  <2>. QED  BY <2>1, <2>2, Zenon
<1>5. tick' = [pc |-> IF Len(tick.due) = 1 THEN "sleep" ELSE "dispatch", due |-> Tail(tick.due)]
  BY Zenon DEF dispatch
<1>. QED  BY <1>1, <1>2, <1>4, <1>5, Zenon

\* A job that is not claimed has no run; claimed, its run waits, in the queue or
\* for a slot.
LEMMA DispatchKeeps == ASSUME SchedInv, dispatch PROVE SchedInv'
<1> DEFINE r == Head(tick.due)
<1>0. SchedTypes
  BY Zenon DEF SchedInv
<1>1. /\ r \in Run /\ tick' \in [pc : {"sleep", "dispatch", "exited"}, due : Seq(Run)]
      /\ tick'.pc = "dispatch" => tick'.due # <<>>
      /\ tick.pc # "exited" /\ tick'.pc # "exited"
  BY DispatchTick, Zenon
<1>2. UNCHANGED <<doc, now, worker, stop, edits, runFaults>>
  BY Zenon DEF dispatch
<1>3. stop # "clean"
  BY <1>1, CleanIsOver, Zenon
<1>4. r[1] \in Job /\ r[2] \in Pool /\ r = <<r[1], r[2]>>
  BY <1>1, RunPairs, Zenon
<1>5. CASE UNCHANGED <<queue, jobRun, claims, wg>>
  <2>1. SchedTypes'
    BY <1>0, <1>1, <1>2, <1>5, Zenon DEF SchedTypes
  <2>2. ReadIsCurrent' /\ CleanIsEmpty'
    BY <1>2, <1>3, <1>5, Zenon DEF SchedInv, ReadIsCurrent, CleanIsEmpty
  <2>. QED  BY <2>1, <2>2, <1>1, <1>5, <1>2, NoRunMoves, Zenon DEF SchedInv, WaitGroupCounts
<1>6. ASSUME claim(r), RunAt(r, "wait"), claims' = claims \cup {r[1]},
             \/ r[2] = "parallel" /\ wg' = wg + 1 /\ queue' = queue
             \/ r[2] = "sequential" /\ wg' = wg /\ queue' = Append(queue, r[1])
      PROVE  SchedInv'
  <2>1. \A s \in Run : s[1] = r[1] => jobRun[s].pc = "none"
    BY <1>6, Zenon DEF SchedInv, ClaimCovers, claim
  <2>2. jobRun' = [jobRun EXCEPT ![r] = [pc |-> "wait"]]
    BY <1>0, <1>1, <1>6, <2>1, RunAtMoves, Zenon
  <2>3. /\ jobRun' \in [Run -> RunRecord] /\ jobRun'[r] = [pc |-> "wait"]
        /\ \A s \in Run : s # r => jobRun'[s] = jobRun[s]
    BY <1>0, <1>1, <2>2, MakeRecord, OneRunChanges, Zenon
  <2>4. \A s \in Run : InFlight(s)' <=> InFlight(s)
    BY <2>1, <2>3 DEF InFlight
  <2>5. queue' \in Seq(Job) /\ wg' \in Int
    <3>1. queue \in Seq(Job) /\ wg \in Int
      BY <1>0, Zenon DEF SchedTypes
    <3>2. Append(queue, r[1]) \in Seq(Job)
      BY <3>1, <1>4, AppendProperties, Zenon
    <3>. QED  BY <3>1, <3>2, <1>6
  <2>6. SchedTypes'
    BY <1>0, <1>1, <1>2, <1>4, <1>6, <2>3, <2>5, Zenon DEF SchedTypes
  <2>7. ClaimCovers'
    BY <1>1, <1>6, <2>1, <2>3 DEF SchedInv, ClaimCovers
  <2>8. QueueWaits'
    <3>1. /\ \A j \in Job : InFlight(<<j, "sequential">>)' => worker' = "busy"
          /\ \A j, k \in Job : InFlight(<<j, "sequential">>)' /\ InFlight(<<k, "sequential">>)' => j = k
      BY <2>4, <1>2, RunPairs, Zenon DEF SchedInv, QueueWaits
    <3>2. \A i \in 1 .. Len(queue) : /\ queue[i] \in Job /\ queue[i] # r[1]
                                     /\ jobRun'[<<queue[i], "sequential">>].pc = "wait"
      <4> TAKE i \in 1 .. Len(queue)
      <4>1. queue[i] \in Job /\ <<queue[i], "sequential">> \in Run
        BY <1>0, RunPairs DEF SchedTypes
      <4>2. jobRun[<<queue[i], "sequential">>].pc = "wait"
        BY Zenon DEF SchedInv, QueueWaits
      <4>3. queue[i] # r[1]
        BY <2>1, <4>1, <4>2, Zenon
      <4>4. <<queue[i], "sequential">> # r
        BY <4>3
      <4>. QED  BY <2>3, <4>1, <4>2, <4>3, <4>4, Zenon
    <3>3. CASE r[2] = "parallel"
      <4>1. queue' = queue
        BY <1>6, <3>3, Zenon
      <4>. QED  BY <3>1, <3>2, <4>1, Zenon DEF SchedInv, QueueWaits
    <3>4. CASE r[2] = "sequential"
      <4>1. queue' = Append(queue, r[1])
        BY <1>6, <3>4, Zenon
      <4>2. /\ Len(queue') = Len(queue) + 1 /\ queue'[Len(queue) + 1] = r[1]
            /\ \A i \in 1 .. Len(queue) : queue'[i] = queue[i]
            /\ Len(queue) \in Nat
        BY <4>1, <1>0, <1>4, AppendProperties, LenProperties DEF SchedTypes
      <4>3. \A i \in 1 .. Len(queue') : i \in 1 .. Len(queue) \/ i = Len(queue) + 1
        BY <4>2
      <4>4. <<r[1], "sequential">> = r
        BY <1>4, <3>4, Zenon
      <4>5. \A i \in 1 .. Len(queue') : jobRun'[<<queue'[i], "sequential">>].pc = "wait"
        BY <4>2, <4>3, <4>4, <3>2, <2>3
      <4>6. \A i, k \in 1 .. Len(queue') : queue'[i] = queue'[k] => i = k
        <5>1. \A i \in 1 .. Len(queue) : queue'[i] # queue'[Len(queue) + 1]
          BY <4>2, <3>2, Zenon
        <5>2. \A i, k \in 1 .. Len(queue) : queue'[i] = queue'[k] => i = k
          BY <4>2, Zenon DEF SchedInv, QueueWaits
        <5>. QED  BY <4>3, <5>1, <5>2, Zenon
      <4>. QED  BY <3>1, <4>5, <4>6, Zenon DEF QueueWaits
    <3>. QED  BY <3>3, <3>4, <1>4, Zenon DEF Pool
  <2>9. WaitGroupCounts'
    <3>0. IsFiniteSet(Goroutines) /\ Cardinality(Goroutines) \in Nat
      BY JobsFinite, Zenon DEF Goroutines
    <3>1. CASE r[2] = "parallel"
      <4>1. r[1] \notin Goroutines /\ Goroutines' = Goroutines \cup {r[1]}
        BY <2>1, <2>3, <1>4, <3>1, RunPairs DEF Goroutines
      <4>2. Cardinality(Goroutines') = Cardinality(Goroutines) + 1
        BY <3>0, <4>1, FS_AddElement, Zenon
      <4>. QED  BY <4>2, <1>1, <1>2, <1>6, <3>0, <3>1 DEF SchedInv, WaitGroupCounts
    <3>2. CASE r[2] = "sequential"
      <4>1. \A j \in Job : <<j, "parallel">> # r
        BY <1>4, <3>2
      <4>2. Goroutines' = Goroutines
        BY <2>3, <4>1, RunPairs DEF Goroutines
      <4>. QED  BY <4>2, <1>1, <1>2, <1>6, <3>2, Zenon DEF SchedInv, WaitGroupCounts
    <3>. QED  BY <3>1, <3>2, <1>4, Zenon DEF Pool
  <2>10. slots' = slots
    BY <2>4, RunPairs, Zenon DEF slots
  <2>11. ReadIsCurrent' /\ CleanIsEmpty' /\ SlotsAreBounded'
    BY <1>2, <1>3, <2>3, <2>10 DEF SchedInv, ReadIsCurrent, CleanIsEmpty, SlotsAreBounded
  <2>. QED  BY <2>6, <2>7, <2>8, <2>9, <2>11, Zenon DEF SchedInv
<1>. QED  BY <1>5, <1>6, Zenon DEF dispatch, QueueFull, wgGo

\* A parallel run takes a slot when one is free, or gives up when Stop has come.
LEMMA SlotKeeps == ASSUME SchedInv, NEW j \in Job, takeSlot(j) PROVE SchedInv'
<1> DEFINE r == <<j, "parallel">>
<1>0. SchedTypes
  BY Zenon DEF SchedInv
<1>1. r \in Run /\ jobRun[r].pc = "wait" /\ r[1] = j
  BY RunPairs, Zenon DEF takeSlot
<1>2. UNCHANGED <<doc, now, tick, queue, worker, stop, edits, runFaults>>
  BY Zenon DEF takeSlot
<1>3. stop # "clean"
  BY <1>1, CleanIsOver, Zenon
<1>4. IsFiniteSet(Goroutines) /\ Cardinality(Goroutines) \in Nat /\ IsFiniteSet(slots) /\ Cardinality(slots) \in Nat
  BY JobsFinite, Zenon DEF Goroutines, slots
<1>5. \A k \in Job : <<k, "sequential">> \in Run /\ <<k, "sequential">> # r
  BY RunPairs, Zenon
<1>6. \A k \in Job : <<k, "parallel">> \in Run /\ (<<k, "parallel">> = r <=> k = j)
  BY RunPairs, Zenon
<1>7. \A i \in 1 .. Len(queue) : queue[i] \in Job
  BY <1>0 DEF SchedTypes
<1> HIDE DEF r
<1>8. ASSUME Cardinality(slots) < MaxParallel, RunAt(r, "deliver"), UNCHANGED <<claims, wg>>
      PROVE  SchedInv'
  <2>1. jobRun' = [jobRun EXCEPT ![r] = [pc |-> "deliver"]]
    BY <1>0, <1>1, <1>8, RunAtMoves, Zenon
  <2>2. /\ jobRun' \in [Run -> RunRecord] /\ jobRun'[r] = [pc |-> "deliver"]
        /\ \A s \in Run : s # r => jobRun'[s] = jobRun[s]
    BY <1>0, <1>1, <2>1, MakeRecord, OneRunChanges, Zenon
  <2>3. SchedTypes'
    BY <1>0, <1>2, <1>8, <2>2, Zenon DEF SchedTypes
  <2>4. \A s \in Run : (jobRun'[s].pc # "none") <=> (jobRun[s].pc # "none")
    BY <1>1, <2>2
  <2>5. ClaimCovers'
    BY <2>4, <1>8, Zenon DEF SchedInv, ClaimCovers
  <2>6. QueueWaits'
    BY <1>2, <1>5, <1>7, <2>2 DEF SchedInv, QueueWaits, InFlight
  <2>7. Goroutines' = Goroutines
    BY <2>4, <1>6, Zenon DEF Goroutines
  <2>8. j \notin slots /\ slots' = slots \cup {j}
    BY <1>1, <1>6, <2>2 DEF slots, InFlight
  <2>9. Cardinality(slots') = Cardinality(slots) + 1
    BY <1>4, <2>8, FS_AddElement, Zenon
  <2>10. SlotsAreBounded'
    BY <2>9, <1>4, <1>8, SchedulingAssumption DEF SlotsAreBounded
  <2>11. ReadIsCurrent' /\ CleanIsEmpty' /\ WaitGroupCounts'
    BY <1>2, <1>3, <1>8, <2>2, <2>7 DEF SchedInv, ReadIsCurrent, CleanIsEmpty, WaitGroupCounts
  <2>. QED  BY <2>3, <2>5, <2>6, <2>10, <2>11, Zenon DEF SchedInv
<1>9. ASSUME RunAt(r, "none"), claims' = claims \ {j}, wg' = wg - 1
      PROVE  SchedInv'
  <2>1. jobRun' = [jobRun EXCEPT ![r] = [pc |-> "none"]]
    BY <1>0, <1>1, <1>9, RunAtMoves, Zenon
  <2>2. /\ jobRun' \in [Run -> RunRecord] /\ jobRun'[r] = [pc |-> "none"]
        /\ \A s \in Run : s # r => jobRun'[s] = jobRun[s]
    BY <1>0, <1>1, <2>1, MakeRecord, OneRunChanges, Zenon
  <2>3. SchedTypes'
    BY <1>0, <1>2, <1>9, <2>2 DEF SchedTypes
  <2>5. ClaimCovers'
    BY <1>1, <2>2, <1>9 DEF SchedInv, ClaimCovers
  <2>6. QueueWaits'
    BY <1>2, <1>5, <1>7, <2>2, Zenon DEF SchedInv, QueueWaits, InFlight
  <2>7. j \in Goroutines /\ Goroutines' = Goroutines \ {j}
    BY <1>1, <1>6, <2>2 DEF Goroutines
  <2>8. slots' = slots
    BY <1>1, <1>6, <2>2 DEF slots, InFlight
  <2>9. Cardinality(Goroutines') = Cardinality(Goroutines) - 1
    BY <1>4, <2>7, FS_RemoveElement, Zenon
  <2>10. WaitGroupCounts'
    BY <2>9, <1>4, <1>2, <1>9 DEF SchedInv, WaitGroupCounts
  <2>11. ReadIsCurrent' /\ CleanIsEmpty' /\ SlotsAreBounded'
    BY <1>2, <1>3, <2>2, <2>8 DEF SchedInv, ReadIsCurrent, CleanIsEmpty, SlotsAreBounded
  <2>. QED  BY <2>3, <2>5, <2>6, <2>10, <2>11, Zenon DEF SchedInv
<1>. QED  BY <1>8, <1>9, Zenon DEF takeSlot, r

\* The worker takes the head of the queue, and is then the one that has a
\* sequential run in flight; or it exits.
LEMMA WorkerKeeps == ASSUME SchedInv, sequentialWorker PROVE SchedInv'
<1>0. SchedTypes
  BY Zenon DEF SchedInv
<1>1. worker = "idle" /\ UNCHANGED <<doc, now, tick, claims, stop, edits, runFaults>>
  BY Zenon DEF sequentialWorker
<1>2. stop # "clean"
  BY <1>1, CleanIsOver, Zenon
<1>3. \A k \in Job : ~InFlight(<<k, "sequential">>)
  BY <1>1, Zenon DEF SchedInv, QueueWaits
<1>4. Cardinality(Goroutines) \in Nat
  BY JobsFinite, Zenon DEF Goroutines
<1>5. ASSUME queue # <<>>, worker' = "busy", queue' = Tail(queue), RunAt(<<Head(queue), "sequential">>, "deliver"),
             UNCHANGED wg
      PROVE  SchedInv'
  <2> DEFINE r == <<Head(queue), "sequential">>
  <2>1. /\ queue \in Seq(Job) /\ Len(queue) \in Nat /\ 1 \in 1 .. Len(queue) /\ Head(queue) = queue[1]
        /\ Head(queue) \in Job /\ queue' \in Seq(Job) /\ Len(queue') = Len(queue) - 1
        /\ \A i \in 1 .. Len(queue') : queue'[i] = queue[i + 1] /\ i + 1 \in 1 .. Len(queue) /\ i + 1 # 1
    <3>1. queue \in Seq(Job)
      BY <1>0, Zenon DEF SchedTypes
    <3>2. Len(queue) \in Nat /\ Len(queue) # 0
      BY <3>1, <1>5, EmptySeq, LenProperties, Zenon
    <3>. QED  BY <3>1, <3>2, <1>5, HeadTailProperties
  <2>2. r \in Run /\ jobRun[r].pc = "wait"
    BY <2>1, RunPairs, Zenon DEF SchedInv, QueueWaits
  <2>a. \A k \in Job : <<k, "sequential">> \in Run /\ (<<k, "sequential">> = r <=> k = Head(queue))
    BY RunPairs, Zenon
  <2>b. \A k \in Job : <<k, "parallel">> \in Run /\ <<k, "parallel">> # r
    BY RunPairs, Zenon
  <2> HIDE DEF r
  <2>3. jobRun' = [jobRun EXCEPT ![r] = [pc |-> "deliver"]]
    BY <1>0, <1>5, <2>2, RunAtMoves, Zenon DEF r
  <2>4. /\ jobRun' \in [Run -> RunRecord] /\ jobRun'[r] = [pc |-> "deliver"]
        /\ \A s \in Run : s # r => jobRun'[s] = jobRun[s]
    BY <1>0, <2>2, <2>3, MakeRecord, OneRunChanges, Zenon
  <2>5. SchedTypes'
    BY <1>0, <1>1, <1>5, <2>1, <2>4, Zenon DEF SchedTypes
  <2>6. ClaimCovers'
    <3>1. \A s \in Run : (jobRun'[s].pc # "none") <=> (jobRun[s].pc # "none")
      BY <2>2, <2>4
    <3>. QED  BY <3>1, <1>1, Zenon DEF SchedInv, ClaimCovers
  <2>7. QueueWaits'
    <3>1. \A i \in 1 .. Len(queue') : queue'[i] \in Job /\ queue'[i] # Head(queue)
      BY <2>1 DEF SchedInv, QueueWaits
    <3>2. \A i \in 1 .. Len(queue') : jobRun'[<<queue'[i], "sequential">>].pc = "wait"
      BY <2>1, <2>4, <2>a, <3>1 DEF SchedInv, QueueWaits
    <3>3. \A i, k \in 1 .. Len(queue') : queue'[i] = queue'[k] => i = k
      <4> TAKE i, k \in 1 .. Len(queue')
      <4> HAVE queue'[i] = queue'[k]
      <4>1. i + 1 = k + 1
        BY <2>1 DEF SchedInv, QueueWaits
      <4>. QED  BY <4>1
    <3>4. \A k \in Job : InFlight(<<k, "sequential">>)' => k = Head(queue)
      BY <1>3, <2>4, <2>a, Zenon DEF InFlight
    <3>. QED  BY <3>2, <3>3, <3>4, <1>5, Zenon DEF QueueWaits
  <2>8. Goroutines' = Goroutines /\ slots' = slots
    BY <2>4, <2>b, Zenon DEF Goroutines, slots, InFlight
  <2>9. ReadIsCurrent' /\ CleanIsEmpty' /\ SlotsAreBounded' /\ WaitGroupCounts'
    BY <1>1, <1>2, <1>5, <2>4, <2>8 DEF SchedInv, ReadIsCurrent, CleanIsEmpty, SlotsAreBounded, WaitGroupCounts
  <2>. QED  BY <2>5, <2>6, <2>7, <2>9, Zenon DEF SchedInv
<1>6. ASSUME worker' = "exited", wg' = wg - 1, UNCHANGED <<queue, jobRun>>
      PROVE  SchedInv'
  <2>1. SchedTypes'
    BY <1>0, <1>1, <1>6 DEF SchedTypes
  <2>2. ClaimCovers' /\ QueueWaits' /\ ReadIsCurrent' /\ CleanIsEmpty'
    BY <1>1, <1>2, <1>3, <1>6, Zenon DEF SchedInv, ClaimCovers, QueueWaits, ReadIsCurrent, CleanIsEmpty, InFlight
  <2>3. Goroutines' = Goroutines /\ slots' = slots
    BY <1>6, Zenon DEF Goroutines, slots, InFlight
  <2>4. WaitGroupCounts' /\ SlotsAreBounded'
    BY <1>1, <1>4, <1>6, <2>3 DEF SchedInv, WaitGroupCounts, SlotsAreBounded
  <2>. QED  BY <2>1, <2>2, <2>4, Zenon DEF SchedInv
<1>. QED  BY <1>5, <1>6, Zenon DEF sequentialWorker

\* A failed call ends the run, whose claim is still to be given back.
LEMMA FailKeeps ==
    ASSUME SchedInv, NEW r \in Run, InFlight(r), CallFailsRun(r),
           UNCHANGED <<now, tick, queue, worker, claims, wg, stop, edits>>
    PROVE  SchedInv'
<1>0. SchedTypes
  BY Zenon DEF SchedInv
<1>1. doc' = doc /\ jobRun' = [jobRun EXCEPT ![r] = [pc |-> "release"]] /\ runFaults' \in Nat
  BY DEF CallFailsRun, Over, RunFails, SchedInv, SchedTypes
<1>2. [pc |-> "release"] \in RunRecord
  BY MakeRecord, Zenon
<1>3. /\ jobRun' \in [Run -> RunRecord] /\ jobRun'[r] = [pc |-> "release"]
      /\ \A s \in Run : s # r => jobRun'[s] = jobRun[s]
  BY <1>0, <1>1, <1>2, OneRunChanges, Zenon
<1>4. SchedTypes'
  BY <1>0, <1>1, <1>3, Zenon DEF SchedTypes
<1>5. ReadIsCurrent'
  BY <1>1, <1>3, Zenon DEF SchedInv, ReadIsCurrent
<1>. QED  BY <1>1, <1>2, <1>4, <1>5, FlightMoves, Zenon

\* The job is delivered, and the run goes on to record it.
LEMMA DeliverKeeps == ASSUME SchedInv, NEW r \in Run, deliver(r) PROVE SchedInv'
<1>0. SchedTypes /\ InFlight(r)
  BY Zenon DEF SchedInv, deliver, InFlight
<1>1. UNCHANGED <<now, tick, queue, worker, claims, wg, stop, edits>>
  BY Zenon DEF deliver
<1>2. CASE CallFailsRun(r)
  BY <1>0, <1>1, <1>2, FailKeeps, Zenon
<1>3. ASSUME jobRun' = [jobRun EXCEPT ![r] = [pc |-> "mark", at |-> now, tries |-> 0]], UNCHANGED <<doc, runFaults>>
      PROVE  SchedInv'
  <2> DEFINE x == [pc |-> "mark", at |-> now, tries |-> 0]
  <2>1. x \in RunRecord /\ x.pc = "mark"
    BY <1>0, MakeRecord, Zenon DEF SchedTypes
  <2> HIDE DEF x
  <2>2. jobRun' = [jobRun EXCEPT ![r] = x]
    BY <1>3, Zenon DEF x
  <2>3. /\ jobRun' \in [Run -> RunRecord] /\ jobRun'[r] = x
        /\ \A s \in Run : s # r => jobRun'[s] = jobRun[s]
    BY <1>0, <2>1, <2>2, OneRunChanges, Zenon
  <2>4. SchedTypes'
    BY <1>0, <1>1, <1>3, <2>3, Zenon DEF SchedTypes
  <2>5. ReadIsCurrent'
    BY <1>3, <2>1, <2>3, Zenon DEF SchedInv, ReadIsCurrent
  <2>. QED  BY <1>0, <1>1, <2>1, <2>2, <2>4, <2>5, FlightMoves, Zenon
<1>. QED  BY <1>2, <1>3, Zenon DEF deliver

\* The run reads the document in force.
LEMMA ReadKeeps == ASSUME SchedInv, NEW r \in Run, markReads(r) PROVE SchedInv'
<1>0. SchedTypes /\ InFlight(r)
  BY Zenon DEF SchedInv, markReads, InFlight
<1>1. UNCHANGED <<now, tick, queue, worker, claims, wg, stop, edits>>
  BY Zenon DEF markReads
<1>2. CASE CallFailsRun(r)
  BY <1>0, <1>1, <1>2, FailKeeps, Zenon
<1>3. ASSUME jobRun' = [jobRun EXCEPT ![r] = [pc |-> "replace", at |-> @.at, tries |-> @.tries + 1, read |-> doc]],
             UNCHANGED <<doc, runFaults>>
      PROVE  SchedInv'
  <2> DEFINE x == [pc |-> "replace", at |-> jobRun[r].at, tries |-> jobRun[r].tries + 1, read |-> doc]
  <2>1. x \in RunRecord /\ x.pc = "replace" /\ x.read = doc
    <3>1. jobRun[r] \in RunRecord /\ jobRun[r].pc = "mark" /\ doc \in Doc
      BY <1>0, Zenon DEF SchedTypes, markReads
    <3>2. jobRun[r].at \in 0 .. MaxNow /\ jobRun[r].tries \in Nat
      BY <3>1, Records, Zenon
    <3>3. jobRun[r].tries + 1 \in Nat
      BY <3>2
    <3>. QED  BY <3>1, <3>2, <3>3, MakeRecord, Zenon
  <2> HIDE DEF x
  <2>2. jobRun' = [jobRun EXCEPT ![r] = x]
    BY <1>3, <1>0, Zenon DEF x, SchedTypes
  <2>3. /\ jobRun' \in [Run -> RunRecord] /\ jobRun'[r] = x
        /\ \A s \in Run : s # r => jobRun'[s] = jobRun[s]
    BY <1>0, <2>1, <2>2, OneRunChanges, Zenon
  <2>4. SchedTypes'
    BY <1>0, <1>1, <1>3, <2>3, Zenon DEF SchedTypes
  <2>5. ReadIsCurrent'
    <3>1. doc.version <= doc.version
      BY <1>0 DEF SchedTypes, Doc
    <3>. QED  BY <1>3, <2>1, <2>3, <3>1, Zenon DEF SchedInv, ReadIsCurrent
  <2>. QED  BY <1>0, <1>1, <2>1, <2>2, <2>4, <2>5, FlightMoves, Zenon
<1>. QED  BY <1>2, <1>3, Zenon DEF markReads

\* What a run writes is a document with a version of its own.
LEMMA MarkedIsDoc ==
    ASSUME SchedInv, NEW r \in Run, jobRun[r].pc = "replace"
    PROVE  Marked(r) \in Doc /\ Marked(r).version = doc.version + 1
<1> DEFINE read == jobRun[r].read
           at == jobRun[r].at
<1>1. jobRun[r] \in RunRecord /\ doc \in Doc
  BY Zenon DEF SchedInv, SchedTypes
<1>2. read \in Doc /\ at \in 0 .. MaxNow /\ doc.version \in Nat
  BY <1>1, Records, Zenon DEF Doc
<1>3. /\ read.jobs \in SUBSET Job /\ read.pool \in [Job -> Pool] /\ read.next \in [Job -> 0 .. MaxNow + 1]
      /\ read = [jobs |-> read.jobs, pool |-> read.pool, next |-> read.next, version |-> read.version]
  BY <1>2, Zenon DEF Doc
<1>4. r[1] \in Job /\ at + 1 \in 0 .. MaxNow + 1
  BY <1>2, RunPairs, SchedulingAssumption
<1> HIDE DEF read, at
<1>5. CASE r[1] \in Once
  <2>1. Marked(r) = [jobs |-> read.jobs \ {r[1]}, pool |-> read.pool, next |-> read.next, version |-> doc.version + 1]
    BY <1>3, <1>5, Zenon DEF Marked, read
  <2>. QED  BY <1>2, <1>3, <2>1 DEF Doc
<1>6. CASE r[1] \notin Once
  <2>1. [read.next EXCEPT ![r[1]] = at + 1] \in [Job -> 0 .. MaxNow + 1]
    BY <1>3, <1>4, Zenon
  <2>2. Marked(r) = [jobs |-> read.jobs, pool |-> read.pool, next |-> [read.next EXCEPT ![r[1]] = at + 1],
                     version |-> doc.version + 1]
    BY <1>3, <1>6, Zenon DEF Marked, read, at
  <2>. QED  BY <1>2, <1>3, <2>1, <2>2 DEF Doc
<1>. QED  BY <1>5, <1>6, Zenon

\* The run replaces the document, which gets a version that nobody has read, or
\* meets a conflict and reads again or gives up.
LEMMA ReplaceKeeps == ASSUME SchedInv, NEW r \in Run, replaceSchedules(r) PROVE SchedInv'
<1>0. SchedTypes /\ InFlight(r) /\ jobRun[r].pc = "replace"
  BY Zenon DEF SchedInv, replaceSchedules, InFlight
<1>1. UNCHANGED <<now, tick, queue, worker, claims, wg, stop, edits>>
  BY Zenon DEF replaceSchedules
<1>2. CASE CallFailsRun(r)
  BY <1>0, <1>1, <1>2, FailKeeps, Zenon
<1>3. ASSUME doc' = Marked(r), Over(r), UNCHANGED runFaults
      PROVE  SchedInv'
  <2>1. doc' \in Doc /\ doc'.version = doc.version + 1
    BY <1>0, <1>3, MarkedIsDoc, Zenon
  <2>2. [pc |-> "release"] \in RunRecord /\ jobRun' = [jobRun EXCEPT ![r] = [pc |-> "release"]]
    BY <1>3, MakeRecord, Zenon DEF Over
  <2>3. /\ jobRun' \in [Run -> RunRecord] /\ jobRun'[r] = [pc |-> "release"]
        /\ \A s \in Run : s # r => jobRun'[s] = jobRun[s]
    BY <1>0, <2>2, OneRunChanges, Zenon
  <2>4. SchedTypes'
    BY <1>0, <1>1, <1>3, <2>1, <2>3, Zenon DEF SchedTypes
  <2>5. ReadIsCurrent'
    <3> SUFFICES ASSUME NEW s \in Run, jobRun'[s].pc = "replace"
                 PROVE  /\ jobRun'[s].read.version <= doc'.version
                        /\ jobRun'[s].read.version # doc'.version
      BY Zenon DEF ReadIsCurrent
    <3>1. jobRun'[s] = jobRun[s]
      BY <2>3
    <3>2. jobRun[s].read.version \in Nat /\ doc.version \in Nat
      BY <1>0, <3>1, Records, Zenon DEF SchedTypes, Doc
    <3>3. jobRun[s].read.version <= doc.version
      BY <3>1, Zenon DEF SchedInv, ReadIsCurrent
    <3>. QED  BY <2>1, <3>1, <3>2, <3>3
  <2>. QED  BY <1>0, <1>1, <2>2, <2>4, <2>5, FlightMoves, Zenon
<1>4. ASSUME jobRun' = [jobRun EXCEPT ![r] = IF @.tries < MarkTries THEN [pc |-> "mark", at |-> @.at, tries |-> @.tries]
                                            ELSE [pc |-> "release"]],
             UNCHANGED <<doc, runFaults>>
      PROVE  SchedInv'
  <2> DEFINE x == IF jobRun[r].tries < MarkTries
                  THEN [pc |-> "mark", at |-> jobRun[r].at, tries |-> jobRun[r].tries] ELSE [pc |-> "release"]
  <2>1. x \in RunRecord /\ x.pc \notin {"none", "wait", "replace"}
    <3>1. jobRun[r].at \in 0 .. MaxNow /\ jobRun[r].tries \in Nat
      BY <1>0, Records, Zenon DEF SchedTypes
    <3>. QED  BY <3>1, MakeRecord, Zenon
  <2> HIDE DEF x
  <2>2. jobRun' = [jobRun EXCEPT ![r] = x]
    BY <1>4, <1>0, Zenon DEF x, SchedTypes
  <2>3. /\ jobRun' \in [Run -> RunRecord] /\ jobRun'[r] = x
        /\ \A s \in Run : s # r => jobRun'[s] = jobRun[s]
    BY <1>0, <2>1, <2>2, OneRunChanges, Zenon
  <2>4. SchedTypes'
    BY <1>0, <1>1, <1>4, <2>3, Zenon DEF SchedTypes
  <2>5. ReadIsCurrent'
    BY <1>4, <2>1, <2>3, Zenon DEF SchedInv, ReadIsCurrent
  <2>. QED  BY <1>0, <1>1, <2>1, <2>2, <2>4, <2>5, FlightMoves, Zenon
<1>. QED  BY <1>2, <1>3, <1>4, Zenon DEF replaceSchedules

\* A run that is over gives back its claim, its slot and its worker: it was the
\* only run of its job.
LEMMA ReleaseKeeps == ASSUME SchedInv, NEW r \in Run, release(r) PROVE SchedInv'
<1>0. SchedTypes /\ jobRun[r].pc = "release"
  BY Zenon DEF SchedInv, release
<1>1. /\ UNCHANGED <<doc, now, tick, queue, stop, edits, runFaults>>
      /\ claims' = claims \ {r[1]} /\ jobRun' = [jobRun EXCEPT ![r] = [pc |-> "none"]] /\ RunEnded(r)
  BY Zenon DEF release, NoRun
<1>2. r[1] \in Job /\ r[2] \in Pool /\ r = <<r[1], r[2]>>
  BY RunPairs, Zenon
<1>3. /\ jobRun' \in [Run -> RunRecord] /\ jobRun'[r] = [pc |-> "none"]
      /\ \A s \in Run : s # r => jobRun'[s] = jobRun[s]
  BY <1>0, <1>1, MakeRecord, OneRunChanges, Zenon
<1>4. SchedTypes'
  BY <1>0, <1>1, <1>3 DEF SchedTypes, RunEnded
<1>5. ClaimCovers'
  BY <1>0, <1>1, <1>3, Zenon DEF SchedInv, ClaimCovers
<1>6. \A i \in 1 .. Len(queue) : jobRun'[<<queue[i], "sequential">>].pc = "wait"
  <2> TAKE i \in 1 .. Len(queue)
  <2>1. <<queue[i], "sequential">> \in Run /\ jobRun[<<queue[i], "sequential">>].pc = "wait"
    BY <1>0, RunPairs DEF SchedTypes, SchedInv, QueueWaits
  <2>. QED  BY <2>1, <1>0, <1>3, Zenon
<1>7. \A s \in Run : InFlight(s)' <=> s # r /\ InFlight(s)
  BY <1>3 DEF InFlight
<1>8. ReadIsCurrent'
  BY <1>1, <1>3, Zenon DEF SchedInv, ReadIsCurrent
<1>9. IsFiniteSet(Goroutines) /\ Cardinality(Goroutines) \in Nat /\ IsFiniteSet(slots) /\ Cardinality(slots) \in Nat
  BY JobsFinite, Zenon DEF Goroutines, slots
<1>10. CASE r[2] = "sequential"
  <2>1. r = <<r[1], "sequential">> /\ worker' = "idle" /\ wg' = wg
    BY <1>1, <1>2, <1>10, Zenon DEF RunEnded
  <2>2. worker = "busy" /\ \A k \in Job : InFlight(<<k, "sequential">>) => k = r[1]
    <3>1. InFlight(<<r[1], "sequential">>)
      BY <1>0, <2>1, Zenon DEF InFlight
    <3>. QED  BY <3>1, <1>2, Zenon DEF SchedInv, QueueWaits
  <2>3. \A k \in Job : <<k, "parallel">> \in Run /\ <<k, "parallel">> # r
    BY <2>1, RunPairs, Zenon
  <2>4. \A k \in Job : ~InFlight(<<k, "sequential">>)'
    BY <1>7, <2>1, <2>2, RunPairs, Zenon
  <2>5. QueueWaits'
    BY <1>1, <1>6, <2>4, Zenon DEF SchedInv, QueueWaits
  <2>6. Goroutines' = Goroutines /\ slots' = slots
    BY <1>3, <1>7, <2>3, Zenon DEF Goroutines, slots
  <2>7. stop # "clean"
    BY <2>2, CleanIsOver, Zenon
  <2>8. WaitGroupCounts' /\ SlotsAreBounded' /\ CleanIsEmpty'
    BY <1>1, <2>1, <2>2, <2>6, <2>7, Zenon DEF SchedInv, WaitGroupCounts, SlotsAreBounded, CleanIsEmpty
  <2>. QED  BY <1>4, <1>5, <1>8, <2>5, <2>8, Zenon DEF SchedInv
<1>11. CASE r[2] = "parallel"
  <2>1. r = <<r[1], "parallel">> /\ worker' = worker /\ wg' = wg - 1
    BY <1>1, <1>2, <1>11, Zenon DEF RunEnded
  <2>2. \A k \in Job : <<k, "sequential">> \in Run /\ <<k, "sequential">> # r
    BY <2>1, RunPairs, Zenon
  <2>3. \A k \in Job : <<k, "parallel">> \in Run /\ (<<k, "parallel">> = r <=> k = r[1])
    BY <2>1, RunPairs, Zenon
  <2>4. QueueWaits'
    BY <1>1, <1>6, <1>7, <2>1, <2>2, Zenon DEF SchedInv, QueueWaits
  <2>5. r[1] \in Goroutines /\ Goroutines' = Goroutines \ {r[1]}
    BY <1>0, <1>2, <1>3, <2>3 DEF Goroutines
  <2>6. Cardinality(Goroutines') = Cardinality(Goroutines) - 1
    BY <1>9, <2>5, FS_RemoveElement, Zenon
  <2>7. slots' \in SUBSET slots
    BY <1>7, <2>3, Zenon DEF slots
  <2>8. Cardinality(slots') <= Cardinality(slots) /\ Cardinality(slots') \in Nat
    BY <1>9, <2>7, FS_Subset, FS_CardinalityType, Zenon
  <2>9. stop # "clean"
    BY <1>0, <1>2, <2>1, CleanIsOver, Zenon
  <2>10. WaitGroupCounts' /\ CleanIsEmpty'
    BY <1>1, <1>9, <2>1, <2>6, <2>9 DEF SchedInv, WaitGroupCounts, CleanIsEmpty
  <2>11. SlotsAreBounded'
    BY <1>9, <2>8, SchedulingAssumption DEF SchedInv, SlotsAreBounded
  <2>. QED  BY <1>4, <1>5, <1>8, <2>4, <2>10, <2>11, Zenon DEF SchedInv
<1>. QED  BY <1>2, <1>10, <1>11, Zenon DEF Pool
-----------------------------------------------------------------------------
\* Every step of the engine keeps the invariant.
LEMMA SchedStepInv == SchedInv /\ [SchedNext]_schedVars => SchedInv'
<1> SUFFICES ASSUME SchedInv, [SchedNext]_schedVars PROVE SchedInv'
  BY Zenon
<1>1. CASE TickStep
  BY <1>1, DueKeeps, DispatchKeeps, ExitKeeps, Zenon DEF TickStep
<1>2. CASE Clock \/ sequentialWorker \/ Stop \/ StopReturns
  BY <1>2, ClockKeeps, WorkerKeeps, StopKeeps, Zenon
<1>3. CASE \E j \in Job : EditSchedules(j) \/ takeSlot(j)
  BY <1>3, EditKeeps, SlotKeeps, Zenon
<1>4. CASE \E r \in Run : RunStep(r)
  BY <1>4, DeliverKeeps, ReadKeeps, ReplaceKeeps, ReleaseKeeps, Zenon DEF RunStep
<1>5. CASE UNCHANGED schedVars
  <2>1. SchedTypes' /\ ReadIsCurrent' /\ CleanIsEmpty'
    BY <1>5, Zenon DEF schedVars, SchedInv, SchedTypes, ReadIsCurrent, CleanIsEmpty
  <2>. QED  BY <1>5, <2>1, NoRunMoves, Zenon DEF schedVars, SchedInv, WaitGroupCounts
<1>. QED  BY <1>1, <1>2, <1>3, <1>4, <1>5, Zenon DEF SchedNext

\* The claims, the queue, the wait group and the versions agree throughout.
THEOREM EngineAgrees == SchedSpec => []SchedInv
BY SchedInitInv, SchedStepInv, PTL DEF SchedSpec

\* The types, and with them that the wait group, which panics below zero, is
\* never taken there by the goroutines that leave it.
THEOREM SchedTypeCorrect == SchedSpec => []SchedTypeOK
<1>1. SchedInv => SchedTypeOK
  <2> SUFFICES ASSUME SchedInv PROVE SchedTypeOK
    BY Zenon
  <2>1. Cardinality(Goroutines) \in Nat
    BY JobsFinite, Zenon DEF Goroutines
  <2>2. wg \in Nat
    BY <2>1 DEF SchedInv, WaitGroupCounts
  <2>3. \A r \in Run : jobRun[r].pc \in {"none", "wait", "deliver", "mark", "replace", "release"}
    BY Records, Zenon DEF SchedInv, SchedTypes
  <2>. QED  BY <2>2, <2>3, Zenon DEF SchedInv, SchedTypes, Doc, SchedTypeOK
<1>. QED  BY <1>1, EngineAgrees, PTL

\* A job never overlaps itself, whatever pools its edits move it through, and
\* the sequential pool runs one job at a time (Engine.claim and release).
THEOREM JobsNeverOverlap == SchedSpec => []NeverOverlaps
<1>1. SchedInv => NeverOverlaps
  <2> SUFFICES ASSUME SchedInv, NEW r \in Run, NEW s \in Run, r # s, InFlight(r), InFlight(s)
               PROVE  r[1] # s[1] /\ (r[2] = "parallel" \/ s[2] = "parallel")
    BY Zenon DEF NeverOverlaps
  <2>1. r[1] # s[1]
    BY Zenon DEF SchedInv, ClaimCovers, InFlight
  <2>2. r[2] = "sequential" /\ s[2] = "sequential" => r[1] = s[1]
    BY RunPairs DEF SchedInv, QueueWaits
  <2>. QED  BY <2>1, <2>2, RunPairs, Zenon DEF Pool
<1>. QED  BY <1>1, EngineAgrees, PTL

\* A Stop that returns without an error has waited for every run: none is in
\* flight, and none starts.
THEOREM StopLeavesNothing == SchedSpec => []StoppedIsQuiet
<1>1. SchedInv => StoppedIsQuiet
  <2> SUFFICES ASSUME SchedInv, stop = "clean", NEW r \in Run PROVE ~InFlight(r)
    BY Zenon DEF StoppedIsQuiet
  <2>1. worker = "exited" /\ \A j \in Job : ~InFlight(<<j, "parallel">>)
    BY CleanIsOver, Zenon DEF InFlight
  <2>2. \A j \in Job : ~InFlight(<<j, "sequential">>)
    BY <2>1, Zenon DEF SchedInv, QueueWaits
  <2>. QED  BY <2>1, <2>2, RunPairs DEF Pool
<1>. QED  BY <1>1, EngineAgrees, PTL

\* No more parallel runs are in flight than the pool has slots.
THEOREM SlotsNeverExceeded == SchedSpec => [](Cardinality(slots) <= MaxParallel)
<1>1. SchedInv => Cardinality(slots) <= MaxParallel
  BY Zenon DEF SchedInv, SlotsAreBounded
<1>. QED  BY <1>1, EngineAgrees, PTL

\* What a run writes differs from what it read in its own job alone.
LEMMA MarkedDiffers ==
    ASSUME SchedInv, NEW r \in Run, jobRun[r].pc = "replace", NEW j \in Job, j # r[1]
    PROVE  LET read == jobRun[r].read IN
           /\ j \in Marked(r).jobs <=> j \in read.jobs
           /\ Marked(r).next[j] = read.next[j]
           /\ Marked(r).pool[j] = read.pool[j]
<1> DEFINE read == jobRun[r].read
<1>1. jobRun[r] \in RunRecord
  BY Zenon DEF SchedInv, SchedTypes
<1>2. read \in Doc
  BY <1>1, Records, Zenon
<1> HIDE DEF read
<1>3. CASE r[1] \in Once
  <2>1. Marked(r) = [read EXCEPT !.jobs = @ \ {r[1]}, !.version = doc.version + 1]
    BY <1>3, Zenon DEF Marked, read
  <2>2. Marked(r).jobs = read.jobs \ {r[1]} /\ Marked(r).next = read.next /\ Marked(r).pool = read.pool
    BY <1>2, <2>1, Zenon DEF Doc
  <2>. QED  BY <2>2, Zenon DEF read
<1>4. CASE r[1] \notin Once
  <2>1. Marked(r) = [read EXCEPT !.next[r[1]] = jobRun[r].at + 1, !.version = doc.version + 1]
    BY <1>4, Zenon DEF Marked, read
  <2>2. /\ Marked(r).jobs = read.jobs /\ Marked(r).pool = read.pool
        /\ Marked(r).next = [read.next EXCEPT ![r[1]] = jobRun[r].at + 1]
    BY <1>2, <2>1, Zenon DEF Doc
  <2>3. Marked(r).next[j] = read.next[j]
    BY <1>2, <2>2, Zenon DEF Doc
  <2>. QED  BY <2>2, <2>3, Zenon DEF read
<1>. QED  BY <1>3, <1>4, Zenon

\* Recording a run touches its own job only (MarkRun's conditional replace): the
\* document it writes back is the one in force but for that job.
THEOREM RecordsTouchTheirOwn == SchedSpec => MarkTouchesItsOwn
<1> DEFINE Touched(j) == \/ (j \in doc.jobs) # (j \in doc'.jobs)
                         \/ doc.next[j] # doc'.next[j] \/ doc.pool[j] # doc'.pool[j]
           Own(j) == edits' # edits \/ \E p \in Pool : jobRun[<<j, p>>].pc = "replace"
           A == \A j \in Job :
                   (j \in doc.jobs) # (j \in doc'.jobs) \/ doc.next[j] # doc'.next[j] \/ doc.pool[j] # doc'.pool[j] =>
                      edits' # edits \/ \E p \in Pool : jobRun[<<j, p>>].pc = "replace"
<1>1. ASSUME SchedInv, SchedNext, NEW j \in Job, Touched(j) PROVE Own(j)
  <2>1. doc' # doc
    BY <1>1, Zenon
  <2>2. CASE \E k \in Job : EditSchedules(k)
    <3>1. edits' = edits + 1 /\ edits \in Nat
      BY <1>1, <2>2, Zenon DEF EditSchedules, SchedInv, SchedTypes
    <3>. QED  BY <3>1
  <2>3. ASSUME NEW r \in Run, jobRun[r].pc = "replace", ~Conflict(r), doc' = Marked(r)
        PROVE  Own(j)
    <3>1. jobRun[r].read = doc
      BY <1>1, <2>3, Zenon DEF SchedInv, ReadIsCurrent, Conflict
    <3>2. j = r[1]
      BY <1>1, <2>3, <3>1, MarkedDiffers
    <3>3. r[2] \in Pool /\ r = <<r[1], r[2]>>
      BY RunPairs, Zenon
    <3>. QED  BY <2>3, <3>2, <3>3, Zenon
  <2>4. \/ \E k \in Job : EditSchedules(k)
        \/ \E r \in Run : jobRun[r].pc = "replace" /\ ~Conflict(r) /\ doc' = Marked(r)
    <3>1. ~Clock /\ ~Due /\ ~dispatch /\ ~tickLoopExits /\ ~sequentialWorker /\ ~Stop /\ ~StopReturns
      BY <2>1, Zenon DEF Clock, Due, dispatch, tickLoopExits, sequentialWorker, Stop, StopReturns
    <3>2. \A k \in Job : ~takeSlot(k)
      BY <2>1, Zenon DEF takeSlot
    <3>3. \A r \in Run : ~deliver(r) /\ ~markReads(r) /\ ~release(r)
      BY <2>1, Zenon DEF deliver, markReads, release, CallFailsRun
    <3>4. \A r \in Run : replaceSchedules(r) => jobRun[r].pc = "replace" /\ ~Conflict(r) /\ doc' = Marked(r)
      BY <2>1, Zenon DEF replaceSchedules, CallFailsRun
    <3>. QED  BY <1>1, <3>1, <3>2, <3>3, <3>4, Zenon DEF SchedNext, TickStep, RunStep
  <2>. QED  BY <2>2, <2>3, <2>4, Zenon
<1>2. SchedInv /\ [SchedNext]_schedVars => [A]_schedVars
  BY <1>1, Zenon
<1>. QED  BY <1>2, EngineAgrees, PTL DEF SchedSpec, MarkTouchesItsOwn
-----------------------------------------------------------------------------
(***************************************************************************)
(* The refusal of call cycles                                              *)
(***************************************************************************)

\* The open workflows are those of the path, each on it once and called by the
\* one before.
OnPath(w) == \E i \in 1 .. Len(path) : path[i] = w
PathIsOpen ==
    /\ \A w \in Workflow : mark[w] = "open" <=> OnPath(w)
    /\ \A i, j \in 1 .. Len(path) : path[i] = path[j] => i = j
    /\ \A i \in 1 .. Len(path) - 1 : path[i + 1] \in graph[path[i]]

\* A callee that was looked at is done, or is the next of the path.
LookedAtIsDone ==
    \A i \in 1 .. Len(path) : \A c \in graph[path[i]] \ left[i] :
        mark[c] = "done" \/ (i < Len(path) /\ c = path[i + 1])

\* What is left are callees.
LeftIsCalled == \A i \in 1 .. Len(path) : left[i] \subseteq graph[path[i]]

\* What a done workflow calls is done, and it is on no cycle.
DoneIsClosed == \A w \in Workflow : mark[w] = "done" => \A c \in graph[w] : mark[c] = "done"
DoneIsAcyclic == \A w \in Workflow : mark[w] = "done" => ~Loops(w)

CyclesInv ==
    /\ graph \in [Workflow -> SUBSET Workflow]
    /\ mark \in [Workflow -> {"unseen", "open", "done"}]
    /\ path \in Seq(Workflow) /\ left \in Seq(SUBSET Workflow) /\ Len(left) = Len(path)
    /\ PathIsOpen /\ LookedAtIsDone /\ LeftIsCalled /\ DoneIsClosed /\ DoneIsAcyclic
    /\ VerdictIsRight

\* A non-empty set of numbers has a least one.
LEMMA LeastExists ==
    ASSUME NEW T \in SUBSET Nat, T # {}
    PROVE  Min(T) \in T /\ \A y \in T : Min(T) <= y
<1>. DEFINE R == OpToRel(<, Nat)
<1>1. IsWellFoundedOn(R, Nat)
  BY NatLessThanWellFounded, Zenon
<1>2. PICK x \in T : \A y \in T : ~(<<y, x>> \in R)
  <2>. HIDE DEF R
  <2>. QED  BY <1>1, WFMin, Zenon
<1>3. \A y \in T : <<y, x>> \in R <=> y < x
  BY Zenon DEF OpToRel
<1>. HIDE DEF R
<1>4. \E z \in T : \A y \in T : z <= y
  <2>1. \A y \in T : ~(y < x)
    BY <1>2, <1>3, Zenon
  <2>. QED  BY <2>1
<1>. QED  BY <1>4, Zenon DEF Min

\* A path of calls from a done workflow stays among the done ones.
LEMMA DoneStays ==
    ASSUME graph \in [Workflow -> SUBSET Workflow], DoneIsClosed,
           NEW p \in Seq(Workflow), Calls(p), NEW k \in 1 .. Len(p), mark[p[k]] = "done"
    PROVE  \A i \in k .. Len(p) : mark[p[i]] = "done"
<1>. SUFFICES ASSUME NEW j \in k .. Len(p), mark[p[j]] # "done" PROVE FALSE
  BY Zenon
<1>. DEFINE T == {i \in k .. Len(p) : mark[p[i]] # "done"}
<1>1. T \in SUBSET Nat /\ j \in T
  OBVIOUS
<1>2. PICK n \in T : \A y \in T : n <= y
  <2>. HIDE DEF T
  <2>. QED  BY <1>1, LeastExists, Zenon
<1>3. n \in k + 1 .. Len(p) /\ mark[p[n]] # "done"
  BY <1>2
<1>4. n - 1 \in k .. Len(p) /\ n - 1 \in 1 .. Len(p) - 1 /\ (n - 1) + 1 = n /\ ~(n <= n - 1)
  BY <1>3
<1>5. n - 1 \notin T
  <2>. HIDE DEF T
  <2>. QED  BY <1>2, <1>4, Zenon
<1>6. mark[p[n - 1]] = "done"
  BY <1>4, <1>5, Zenon
<1>7. p[n] \in graph[p[n - 1]]
  BY <1>4, Zenon DEF Calls
<1>8. p[n - 1] \in Workflow
  BY <1>4, <1>3
<1>. QED  BY <1>3, <1>6, <1>7, <1>8, Zenon DEF DoneIsClosed

\* A workflow whose callees are done, and which is not done itself, is on no cycle.
LEMMA CalleesDone ==
    ASSUME graph \in [Workflow -> SUBSET Workflow], DoneIsClosed,
           NEW w \in Workflow, mark[w] # "done", \A c \in graph[w] : mark[c] = "done"
    PROVE  ~Loops(w)
<1>. SUFFICES ASSUME NEW n \in 0 .. Workflows - 1, NEW q \in [1 .. n -> Workflow], IsCycle(<<w>> \o q \o <<w>>)
              PROVE  FALSE
  BY Zenon DEF Loops
<1>. DEFINE p == <<w>> \o q \o <<w>>
<1>0. n \in Nat
  BY CyclesAssumption
<1>1. q \in Seq(Workflow) /\ Len(q) = n
  BY <1>0, IsASeq
<1>2. p \in Seq(Workflow) /\ Len(p) = n + 2 /\ p[1] = w /\ p[n + 2] = w
  BY <1>0, <1>1
<1>3. Calls(p)
  BY Zenon DEF IsCycle
<1>. HIDE DEF p
<1>4. p[2] \in graph[w]
  <2>1. 1 \in 1 .. Len(p) - 1 /\ 1 + 1 = 2
    BY <1>0, <1>2
  <2>. QED  BY <2>1, <1>2, <1>3, Zenon DEF Calls
<1>5. 2 \in 1 .. Len(p) /\ n + 2 \in 2 .. Len(p)
  BY <1>0, <1>2
<1>6. mark[p[n + 2]] = "done"
  BY <1>2, <1>3, <1>4, <1>5, DoneStays, Zenon
<1>. QED  BY <1>2, <1>6, Zenon

\* The walk enters a workflow, which is the first of the path or called by the
\* last one.
LEMMA EnterKeeps ==
    ASSUME CyclesInv, NEW w \in Workflow, mark[w] = "unseen", Enter(w), graph' = graph, report' = report,
           path # <<>> => w \in graph[path[Len(path)]],
           NEW rest \in Seq(SUBSET Workflow), Len(rest) = Len(path),
           left' = Append(rest, graph[w]), \A i \in 1 .. Len(path) : rest[i] \subseteq left[i],
           \A i \in 1 .. Len(path) : graph[path[i]] \ rest[i] \subseteq
               (graph[path[i]] \ left[i]) \cup (IF i = Len(path) THEN {w} ELSE {})
    PROVE  CyclesInv'
<1>0. PICK n \in Nat : n = Len(path)
  BY DEF CyclesInv
<1>1. /\ graph \in [Workflow -> SUBSET Workflow] /\ mark \in [Workflow -> {"unseen", "open", "done"}]
      /\ path \in Seq(Workflow) /\ n = Len(path)
      /\ PathIsOpen /\ LookedAtIsDone /\ LeftIsCalled /\ DoneIsClosed /\ DoneIsAcyclic /\ VerdictIsRight
  BY <1>0, Zenon DEF CyclesInv
<1>2. /\ path' \in Seq(Workflow) /\ Len(path') = n + 1 /\ path'[n + 1] = w
      /\ \A i \in 1 .. n : path'[i] = path[i] /\ path[i] \in Workflow
  BY <1>1 DEF Enter
<1>3. graph[w] \in SUBSET Workflow
  BY <1>1, Zenon
<1>4. /\ left' \in Seq(SUBSET Workflow) /\ Len(left') = n + 1 /\ left'[n + 1] = graph[w]
      /\ \A i \in 1 .. n : left'[i] = rest[i]
  BY <1>1, <1>3
<1>5. mark' \in [Workflow -> {"unseen", "open", "done"}]
  BY <1>1, Zenon DEF Enter
<1>6. \A v \in Workflow : mark'[v] = IF v = w THEN "open" ELSE mark[v]
  BY <1>1, Zenon DEF Enter
<1>7. \A i \in 1 .. n : path[i] # w
  BY <1>1, Zenon DEF PathIsOpen, OnPath
<1>8. 1 .. n + 1 = (1 .. n) \cup {n + 1} /\ n + 1 \notin 1 .. n
  BY <1>1
<1>9. PathIsOpen'
  <2>1. \A v \in Workflow : OnPath(v)' <=> (OnPath(v) \/ v = w)
    <3>1. \A v : OnPath(v)' <=> \E i \in (1 .. n) \cup {n + 1} : path'[i] = v
      BY <1>2, <1>8, Zenon DEF OnPath
    <3>2. \A v : OnPath(v) <=> \E i \in 1 .. n : path[i] = v
      BY <1>1, Zenon DEF OnPath
    <3>. QED  BY <3>1, <3>2, <1>2, Zenon
  <2>2. \A v \in Workflow : mark'[v] = "open" <=> OnPath(v)'
    <3>1. \A v \in Workflow : mark[v] = "open" <=> OnPath(v)
      BY <1>1, Zenon DEF PathIsOpen
    <3>2. TAKE v \in Workflow
    <3>3. CASE v = w
      BY <3>3, <2>1, <1>6, Zenon
    <3>4. CASE v # w
      <4>1. mark'[v] = mark[v] /\ (OnPath(v)' <=> OnPath(v))
        BY <3>4, <2>1, <1>6, Zenon
      <4>. QED  BY <3>1, <4>1, Zenon
    <3>. QED  BY <3>3, <3>4, Zenon
  <2>3. \A i, j \in 1 .. n + 1 : path'[i] = path'[j] => i = j
    <3>1. \A i, j \in 1 .. n : path[i] = path[j] => i = j
      BY <1>1, Zenon DEF PathIsOpen
    <3>2. SUFFICES ASSUME NEW i \in 1 .. n + 1, NEW j \in 1 .. n + 1, path'[i] = path'[j]
                   PROVE  i = j
      BY Zenon
    <3>3. CASE i \in 1 .. n /\ j \in 1 .. n
      BY <3>1, <3>2, <3>3, <1>2
    <3>4. CASE i = n + 1 /\ j \in 1 .. n
      BY <3>2, <3>4, <1>2, <1>7, Zenon
    <3>5. CASE i \in 1 .. n /\ j = n + 1
      BY <3>2, <3>5, <1>2, <1>7, Zenon
    <3>. QED  BY <3>3, <3>4, <3>5, <1>8, Zenon
  <2>4. \A i \in 1 .. n : path'[i + 1] \in graph[path'[i]]
    <3>. TAKE i \in 1 .. n
    <3>1. CASE i = n
      <4>1. path # <<>> /\ path[Len(path)] = path[n]
        BY <3>1, <1>1
      <4>. QED  BY <4>1, <3>1, <1>2, Zenon
    <3>2. CASE i # n
      <4>1. i \in 1 .. n - 1 /\ i + 1 \in 1 .. n
        BY <3>2, <1>1
      <4>. QED  BY <4>1, <1>1, <1>2, Zenon DEF PathIsOpen
    <3>. QED  BY <3>1, <3>2, Zenon
  <2>5. Len(path') - 1 = n
    BY <1>1, <1>2
  <2>. QED  BY <2>2, <2>3, <2>4, <2>5, <1>2, Zenon DEF PathIsOpen, OnPath
<1>10. LookedAtIsDone'
  <2>. SUFFICES ASSUME NEW i \in 1 .. Len(path'), NEW c \in graph'[path'[i]] \ left'[i]
                PROVE  mark'[c] = "done" \/ (i < Len(path') /\ c = path'[i + 1])
    BY Zenon DEF LookedAtIsDone
  <2>1. i \in 1 .. n
    <3>1. i \in (1 .. n) \cup {n + 1}
      BY <1>2, <1>8, Zenon
    <3>2. i # n + 1
      BY <1>2, <1>4, Zenon
    <3>. QED  BY <3>1, <3>2, Zenon
  <2>2. c \in graph[path[i]] \ rest[i] /\ c \in Workflow
    BY <2>1, <1>1, <1>2, <1>4, Zenon
  <2>3. CASE c \in graph[path[i]] \ left[i]
    <3>1. mark[c] = "done" \/ (i < n /\ c = path[i + 1])
      BY <2>1, <2>3, <1>1, Zenon DEF LookedAtIsDone
    <3>2. ASSUME mark[c] = "done" PROVE mark'[c] = "done"
      BY <3>2, <2>2, <1>6, Zenon
    <3>3. ASSUME i < n, c = path[i + 1] PROVE i < Len(path') /\ c = path'[i + 1]
      <4>1. i + 1 \in 1 .. n /\ i < n + 1
        BY <3>3, <2>1, <1>1
      <4>. QED  BY <3>3, <4>1, <1>2, Zenon
    <3>. QED  BY <3>1, <3>2, <3>3, Zenon
  <2>4. CASE i = n /\ c = w
    BY <2>4, <1>1, <1>2
  <2>. QED  BY <2>1, <2>2, <2>3, <2>4, <1>1, Zenon
<1>11. DoneIsClosed' /\ DoneIsAcyclic'
  <2>1. \A v \in Workflow : (mark'[v] = "done" <=> mark[v] = "done") /\ graph[v] \subseteq Workflow
    BY <1>1, <1>6, Zenon
  <2>2. \A v \in Workflow : Loops(v)' <=> Loops(v)
    BY Zenon DEF Loops, IsCycle, Calls
  <2>. QED  BY <2>1, <2>2, <1>1, Zenon DEF DoneIsClosed, DoneIsAcyclic
<1>12. VerdictIsRight'
  BY <1>1, Zenon DEF VerdictIsRight, Loops, IsCycle, Calls
<1>13. LeftIsCalled'
  <2>. SUFFICES ASSUME NEW i \in (1 .. n) \cup {n + 1} PROVE left'[i] \subseteq graph[path'[i]]
    BY <1>2, <1>8, Zenon DEF LeftIsCalled
  <2>1. CASE i \in 1 .. n
    <3>1. rest[i] \subseteq left[i] /\ left[i] \subseteq graph[path[i]]
      BY <2>1, <1>1, Zenon DEF LeftIsCalled
    <3>. QED  BY <2>1, <3>1, <1>2, <1>4, Zenon
  <2>2. CASE i = n + 1
    BY <2>2, <1>2, <1>4, Zenon
  <2>. QED  BY <2>1, <2>2, Zenon
<1>. QED  BY <1>1, <1>2, <1>4, <1>5, <1>9, <1>10, <1>11, <1>12, <1>13, Zenon DEF CyclesInv

\* A sequence is empty when its length is zero.
LEMMA EmptyHasNone == \A S : \A s \in Seq(S) : s = <<>> <=> Len(s) = 0
  OBVIOUS

\* What is left of a sequence without its last element.
LEMMA FrontIs ==
    ASSUME NEW S, NEW s \in Seq(S), s # <<>>
    PROVE  /\ SubSeq(s, 1, Len(s) - 1) \in Seq(S) /\ Len(SubSeq(s, 1, Len(s) - 1)) = Len(s) - 1
           /\ \A i \in 1 .. Len(s) - 1 : SubSeq(s, 1, Len(s) - 1)[i] = s[i]
<1>1. Len(s) \in Nat \ {0} /\ \A i \in 1 .. Len(s) : s[i] \in S
  OBVIOUS
<1>2. PICK n \in Nat \ {0} : n = Len(s)
  BY <1>1, Zenon
<1>3. /\ 1 \in Int /\ n - 1 \in Int /\ \A i \in 1 .. n - 1 : i \in 1 .. n /\ 1 + i - 1 = i
      /\ (IF 1 <= n - 1 THEN (n - 1) - 1 + 1 ELSE 0) = n - 1
      /\ (n - 1) - 1 + 1 = n - 1
  BY <1>2
<1>4. \A i \in 1 .. n - 1 : s[i] \in S
  BY <1>1, <1>2, <1>3, Zenon
<1>5. /\ SubSeq(s, 1, n - 1) \in Seq(S)
      /\ Len(SubSeq(s, 1, n - 1)) = (IF 1 <= n - 1 THEN (n - 1) - 1 + 1 ELSE 0)
      /\ \A i \in 1 .. (n - 1) - 1 + 1 : SubSeq(s, 1, n - 1)[i] = s[1 + i - 1]
  BY <1>3, <1>4, SubSeqProperties
<1>. QED  BY <1>2, <1>3, <1>5, Zenon

\* The walk leaves a workflow whose callees it has looked at: they are done, so
\* it is on no cycle.
LEMMA ReturnKeeps ==
    ASSUME CyclesInv, WalkReturns
    PROVE  CyclesInv'
<1>0. PICK n \in Nat : n = Len(path)
  BY DEF CyclesInv
<1>1. /\ graph \in [Workflow -> SUBSET Workflow] /\ mark \in [Workflow -> {"unseen", "open", "done"}]
      /\ path \in Seq(Workflow) /\ left \in Seq(SUBSET Workflow) /\ n = Len(path) /\ n = Len(left)
      /\ PathIsOpen /\ LookedAtIsDone /\ LeftIsCalled /\ DoneIsClosed /\ DoneIsAcyclic /\ VerdictIsRight
  BY <1>0, Zenon DEF CyclesInv
<1>2. /\ n \in 1 .. n /\ n - 1 \in Nat /\ 1 .. n = (1 .. n - 1) \cup {n} /\ n \notin 1 .. n - 1
      /\ \A i \in 1 .. n - 1 : i \in 1 .. n /\ i # n
  <2>1. path # <<>>
    BY Zenon DEF WalkReturns
  <2>2. n # 0
    BY <2>1, <1>1, EmptyHasNone, Zenon
  <2>. QED  BY <2>2, <1>0
<1>A. \A i \in 1 .. n : path[i] \in Workflow /\ left[i] \in SUBSET Workflow /\ graph[path[i]] \subseteq Workflow
  <2>1. path \in [1 .. n -> Workflow] /\ left \in [1 .. n -> SUBSET Workflow]
    BY <1>1, LenProperties, Zenon
  <2>. QED  BY <2>1, <1>1, Zenon
<1>3. PICK w \in Workflow : w = path[n]
  BY <1>A, <1>2, Zenon
<1>4. /\ path' \in Seq(Workflow) /\ Len(path') = n - 1
      /\ left' \in Seq(SUBSET Workflow) /\ Len(left') = n - 1
      /\ \A i \in 1 .. n - 1 : path'[i] = path[i] /\ left'[i] = left[i]
  <2>1. path' = SubSeq(path, 1, Len(path) - 1) /\ left' = SubSeq(left, 1, Len(left) - 1) /\ path # <<>>
    BY Zenon DEF WalkReturns
  <2>2. left # <<>>
    BY <2>1, <1>1, EmptyHasNone, Zenon
  <2>. QED  BY <2>1, <2>2, <1>1, FrontIs, Zenon
<1>5. mark' = [mark EXCEPT ![w] = "done"] /\ left[n] = {} /\ graph' = graph /\ report' = report
  BY <1>1, <1>3, Zenon DEF WalkReturns
<1>6. /\ mark' \in [Workflow -> {"unseen", "open", "done"}]
      /\ \A v \in Workflow : mark'[v] = IF v = w THEN "done" ELSE mark[v]
  BY <1>1, <1>5, Zenon
<1>7. \A i, j \in 1 .. n : path[i] = path[j] => i = j
  BY <1>1, Zenon DEF PathIsOpen
<1>8. \A i \in 1 .. n - 1 : path[i] # w
  BY <1>2, <1>3, <1>7, Zenon
<1>9. mark[w] = "open"
  BY <1>1, <1>2, <1>3, Zenon DEF PathIsOpen, OnPath
<1>10. \A c \in graph[w] : mark[c] = "done" /\ c \in Workflow
  <2>. TAKE c \in graph[w]
  <2>1. c \in graph[path[n]] \ left[n] /\ ~(n < n)
    BY <1>3, <1>5
  <2>. QED  BY <2>1, <1>1, <1>2, Zenon DEF LookedAtIsDone
<1>11. PathIsOpen'
  <2>1. \A v \in Workflow : OnPath(v)' <=> (OnPath(v) /\ v # w)
    <3>1. \A v : OnPath(v)' <=> \E i \in 1 .. n - 1 : path[i] = v
      BY <1>4, Zenon DEF OnPath
    <3>2. \A v : OnPath(v) <=> \E i \in (1 .. n - 1) \cup {n} : path[i] = v
      BY <1>1, <1>2, Zenon DEF OnPath
    <3>. QED  BY <3>1, <3>2, <1>3, <1>8, Zenon
  <2>2. \A v \in Workflow : mark'[v] = "open" <=> OnPath(v)'
    <3>1. \A v \in Workflow : mark[v] = "open" <=> OnPath(v)
      BY <1>1, Zenon DEF PathIsOpen
    <3>. QED  BY <3>1, <2>1, <1>6, Zenon
  <2>3. \A i, j \in 1 .. n - 1 : path'[i] = path'[j] => i = j
    BY <1>2, <1>4, <1>7, Zenon
  <2>4. \A i \in 1 .. (n - 1) - 1 : path'[i + 1] \in graph'[path'[i]]
    <3>. TAKE i \in 1 .. (n - 1) - 1
    <3>1. i \in 1 .. n - 1 /\ i + 1 \in 1 .. n - 1
      BY <1>2
    <3>2. path[i + 1] \in graph[path[i]]
      BY <3>1, <1>1, Zenon DEF PathIsOpen
    <3>. QED  BY <3>1, <3>2, <1>4, <1>5, Zenon
  <2>. QED  BY <2>2, <2>3, <2>4, <1>4, Zenon DEF PathIsOpen
<1>12. LookedAtIsDone'
  <2>. SUFFICES ASSUME NEW i \in 1 .. Len(path'), NEW c \in graph'[path'[i]] \ left'[i]
                PROVE  mark'[c] = "done" \/ (i < Len(path') /\ c = path'[i + 1])
    BY Zenon DEF LookedAtIsDone
  <2>1. i \in 1 .. n - 1 /\ i \in 1 .. n
    BY <1>2, <1>4, Zenon
  <2>2. c \in graph[path[i]] \ left[i]
    BY <2>1, <1>4, <1>5, Zenon
  <2>3. c \in Workflow
    BY <2>1, <2>2, <1>A, Zenon
  <2>4. CASE mark[c] = "done"
    BY <2>3, <2>4, <1>6, Zenon
  <2>5. CASE i < n /\ c = path[i + 1]
    <3>1. CASE i = n - 1
      <4>1. c = w
        BY <3>1, <2>5, <1>0, <1>3
      <4>. QED  BY <4>1, <1>6, Zenon
    <3>2. CASE i # n - 1
      <4>1. i < n - 1 /\ i + 1 \in 1 .. n - 1
        BY <3>2, <2>1, <1>0
      <4>. QED  BY <4>1, <2>5, <1>4, Zenon
    <3>. QED  BY <3>1, <3>2, Zenon
  <2>. QED  BY <2>1, <2>2, <2>4, <2>5, <1>1, Zenon DEF LookedAtIsDone
<1>13. DoneIsClosed'
  <2>1. \A v \in Workflow : mark[v] = "done" => \A c \in graph[v] : mark[c] = "done" /\ c \in Workflow
    BY <1>1, Zenon DEF DoneIsClosed
  <2>. QED  BY <2>1, <1>5, <1>6, <1>10, Zenon DEF DoneIsClosed
<1>14. DoneIsAcyclic'
  <2>1. \A v \in Workflow : Loops(v)' <=> Loops(v)
    BY <1>5, Zenon DEF Loops, IsCycle, Calls
  <2>2. mark[w] # "done"
    BY <1>9, Zenon
  <2>3. ~Loops(w)
    BY <2>2, <1>1, <1>10, CalleesDone, Zenon
  <2>. QED  BY <2>1, <2>3, <1>1, <1>6, Zenon DEF DoneIsAcyclic
<1>15. VerdictIsRight'
  BY <1>1, <1>5, Zenon DEF VerdictIsRight, Loops, IsCycle, Calls
<1>16. LeftIsCalled'
  BY <1>1, <1>2, <1>4, <1>5, Zenon DEF LeftIsCalled
<1>. QED  BY <1>1, <1>4, <1>5, <1>6, <1>11, <1>12, <1>13, <1>14, <1>15, <1>16, Zenon DEF CyclesInv

\* Nothing but what is left to look at changes: a callee that is done was
\* looked at.
LEMMA LookedAtKeeps ==
    ASSUME CyclesInv, NEW c \in Workflow, WalkCallee(c), mark[c] = "done"
    PROVE  CyclesInv'
<1>0. PICK n \in Nat : n = Len(path)
  BY DEF CyclesInv
<1>1. /\ path \in Seq(Workflow) /\ left \in Seq(SUBSET Workflow) /\ n = Len(path) /\ n = Len(left)
      /\ PathIsOpen /\ LookedAtIsDone /\ LeftIsCalled /\ DoneIsClosed /\ DoneIsAcyclic /\ VerdictIsRight
  BY <1>0, Zenon DEF CyclesInv
<1>2. /\ left' = [left EXCEPT ![n] = @ \ {c}] /\ n # 0
      /\ graph' = graph /\ mark' = mark /\ path' = path /\ report' = report
  <2>1. path # <<>>
    BY Zenon DEF WalkCallee
  <2>2. n # 0
    BY <2>1, <1>1, EmptyHasNone, Zenon
  <2>3. mark[c] # "open" /\ mark[c] # "unseen"
    BY Zenon
  <2>. QED  BY <2>2, <2>3, <1>1, Zenon DEF WalkCallee, LookedAt
<1>3. /\ left' \in Seq(SUBSET Workflow) /\ Len(left') = n
      /\ \A i \in 1 .. n : left'[i] = IF i = n THEN left[i] \ {c} ELSE left[i]
  <2>1. n \in 1 .. Len(left)
    BY <1>0, <1>1, <1>2
  <2>2. left[n] \ {c} \in SUBSET Workflow
    BY <2>1, <1>1
  <2>3. PICK e \in SUBSET Workflow : e = left[n] \ {c}
    BY <2>2, Zenon
  <2>4. left' = [left EXCEPT ![n] = e]
    BY <2>3, <1>2, Zenon
  <2>5. /\ left' \in Seq(SUBSET Workflow) /\ Len(left') = n
        /\ \A i \in 1 .. n : left'[i] = IF i = n THEN e ELSE left[i]
    <3>1. left \in Seq(SUBSET Workflow) /\ n = Len(left)
      BY <1>1, Zenon
    <3>2. /\ [left EXCEPT ![n] = e] \in Seq(SUBSET Workflow)
          /\ Len([left EXCEPT ![n] = e]) = Len(left)
          /\ \A i \in 1 .. Len(left) : [left EXCEPT ![n] = e][i] = IF i = n THEN e ELSE left[i]
      BY <2>1, <3>1, ExceptSeq
    <3>. QED  BY <2>4, <3>1, <3>2, Zenon
  <2>. QED  BY <2>3, <2>5, Zenon
<1>4. LookedAtIsDone'
  <2>. SUFFICES ASSUME NEW i \in 1 .. n, NEW e \in graph[path[i]] \ left'[i]
                PROVE  mark[e] = "done" \/ (i < Len(path) /\ e = path[i + 1])
    BY <1>1, <1>2, Zenon DEF LookedAtIsDone
  <2>1. e \in graph[path[i]] \ left[i] \/ e = c
    BY <1>3, Zenon
  <2>. QED  BY <2>1, <1>1, Zenon DEF LookedAtIsDone
<1>5. PathIsOpen' /\ DoneIsClosed' /\ DoneIsAcyclic' /\ VerdictIsRight'
  <2>1. \A w \in Workflow : Loops(w)' <=> Loops(w)
    BY <1>2, Zenon DEF Loops, IsCycle, Calls
  <2>. QED  BY <2>1, <1>1, <1>2, Zenon DEF PathIsOpen, OnPath, DoneIsClosed, DoneIsAcyclic, VerdictIsRight, IsCycle, Calls
<1>6. LeftIsCalled'
  <2>. SUFFICES ASSUME NEW i \in 1 .. n PROVE left'[i] \subseteq graph[path[i]]
    BY <1>1, <1>2, Zenon DEF LeftIsCalled
  <2>1. left[i] \subseteq graph[path[i]]
    BY <1>1, Zenon DEF LeftIsCalled
  <2>. QED  BY <2>1, <1>3, Zenon
<1>. QED  BY <1>1, <1>2, <1>3, <1>4, <1>5, <1>6, Zenon DEF CyclesInv

\* A sequence with one more element.
LEMMA OneMore ==
    ASSUME NEW S, NEW q \in Seq(S), NEW c \in S
    PROVE  /\ Append(q, c) \in Seq(S) /\ Len(Append(q, c)) = Len(q) + 1
           /\ \A i \in 1 .. Len(q) : Append(q, c)[i] = q[i]
           /\ Append(q, c)[Len(q) + 1] = c
BY AppendProperties

\* The rest of a sequence with one more element.
LEMMA RestAndBack ==
    ASSUME NEW S, NEW s \in Seq(S), NEW k \in 1 .. Len(s), NEW c \in S, NEW m \in Nat \ {0}, m = Len(s) - k + 1,
           NEW p, p = Append(SubSeq(s, k, Len(s)), c)
    PROVE  /\ p \in Seq(S) /\ Len(p) = m + 1 /\ p[m + 1] = c
           /\ \A i \in 1 .. m : p[i] = s[k + i - 1] /\ k + i - 1 \in 1 .. Len(s)
<1>1. PICK n \in Nat : n = Len(s)
  OBVIOUS
<1>2. k \in Int /\ n \in Int /\ k <= n /\ (\A i \in k .. n : i \in 1 .. n) /\ m = n - k + 1
      /\ \A i \in 1 .. m : k + i - 1 \in 1 .. n
  BY <1>1
<1>3. \A i \in k .. n : s[i] \in S
  <2>1. \A i \in 1 .. n : s[i] \in S
    BY <1>1
  <2>. QED  BY <2>1, <1>2, Zenon
<1>. DEFINE q == SubSeq(s, k, n)
<1>4. q \in Seq(S) /\ Len(q) = m /\ \A i \in 1 .. m : q[i] = s[k + i - 1]
  <2>1. q \in Seq(S) /\ Len(q) = (IF k <= n THEN n - k + 1 ELSE 0) /\ \A i \in 1 .. n - k + 1 : q[i] = s[k + i - 1]
    BY <1>2, <1>3, SubSeqProperties
  <2>. HIDE DEF q
  <2>. QED  BY <2>1, <1>2, Zenon
<1>. HIDE DEF q
<1>5. Append(q, c) \in Seq(S) /\ Len(Append(q, c)) = m + 1 /\ Append(q, c)[m + 1] = c
      /\ \A i \in 1 .. m : Append(q, c)[i] = q[i]
  <2>1. q \in Seq(S) /\ Len(q) = m
    BY <1>4, Zenon
  <2>2. /\ Append(q, c) \in Seq(S) /\ Len(Append(q, c)) = Len(q) + 1
        /\ \A i \in 1 .. Len(q) : Append(q, c)[i] = q[i]
        /\ Append(q, c)[Len(q) + 1] = c
    BY <2>1, OneMore, Zenon
  <2>. QED  BY <2>1, <2>2, Zenon
<1>. QED  BY <1>1, <1>2, <1>4, <1>5, Zenon DEF q

\* A callee on the path closes a cycle: the path from it, and back to it.
LEMMA CycleIsFound ==
    ASSUME CyclesInv, NEW c \in Workflow, WalkCallee(c), mark[c] = "open"
    PROVE  IsCycle(Append(SubSeq(path, cycleStart(c), Len(path)), c))
<1>0. PICK n \in Nat : n = Len(path)
  BY DEF CyclesInv
<1>1. /\ path \in Seq(Workflow) /\ left \in Seq(SUBSET Workflow) /\ n = Len(path) /\ n = Len(left)
      /\ graph \in [Workflow -> SUBSET Workflow] /\ PathIsOpen /\ LeftIsCalled
  BY <1>0, Zenon DEF CyclesInv
<1>2. PICK k \in 1 .. n : path[k] = c
  BY <1>1, Zenon DEF PathIsOpen, OnPath
<1>3. cycleStart(c) = k
  <2>. DEFINE I == {i \in 1 .. Len(path) : path[i] = c}
  <2>1. I = {k}
    BY <1>1, <1>2, Zenon DEF PathIsOpen
  <2>2. cycleStart(c) = Min(I)
    <3>1. path \in Seq(Workflow)
      BY <1>1, Zenon
    <3>2. DOMAIN path = 1 .. Len(path)
      BY <3>1
    <3>. QED  BY <3>2, Zenon DEF cycleStart
  <2>. HIDE DEF I
  <2>3. Min({k}) = k
    BY <1>2 DEF Min
  <2>. QED  BY <2>1, <2>2, <2>3, Zenon
<1>4. c \in graph[path[n]]
  <2>1. c \in left[n]
    BY <1>1, Zenon DEF WalkCallee
  <2>2. n \in 1 .. n
    BY <1>0, <1>2
  <2>. QED  BY <2>1, <2>2, <1>1, Zenon DEF LeftIsCalled
<1>5. PICK m \in Nat \ {0} : m = n - k + 1
  <2>1. n - k + 1 \in Nat \ {0}
    BY <1>0, <1>2
  <2>. QED  BY <2>1, Zenon
<1>. DEFINE p == Append(SubSeq(path, k, n), c)
<1>6. /\ p \in Seq(Workflow) /\ Len(p) = m + 1 /\ p[m + 1] = c
      /\ \A i \in 1 .. m : p[i] = path[k + i - 1] /\ k + i - 1 \in 1 .. n
  <2>. HIDE DEF p
  <2>1. k \in 1 .. Len(path) /\ m = Len(path) - k + 1 /\ p = Append(SubSeq(path, k, Len(path)), c)
    BY <1>1, <1>2, <1>5, Zenon DEF p
  <2>2. /\ p \in Seq(Workflow) /\ Len(p) = m + 1 /\ p[m + 1] = c
        /\ \A i \in 1 .. m : p[i] = path[k + i - 1] /\ k + i - 1 \in 1 .. Len(path)
    <3>1. path \in Seq(Workflow)
      BY <1>1, Zenon
    <3>. QED  BY <2>1, <3>1, RestAndBack
  <2>. QED  BY <2>2, <1>1, Zenon
<1>. HIDE DEF p
<1>7. Len(p) > 1 /\ p # <<>> /\ 1 \in 1 .. m /\ k + 1 - 1 = k /\ m \in 1 .. m /\ k + m - 1 = n /\ Len(p) - 1 = m
  BY <1>0, <1>2, <1>5, <1>6
<1>8. p[1] = p[Len(p)]
  BY <1>2, <1>5, <1>6, <1>7, Zenon
<1>9. Calls(p)
  <2>. SUFFICES ASSUME NEW i \in 1 .. m PROVE p[i + 1] \in graph[p[i]]
    BY <1>7, Zenon DEF Calls
  <2>1. CASE i = m
    BY <2>1, <1>4, <1>5, <1>6, <1>7, Zenon
  <2>2. CASE i # m
    <3>1. i + 1 \in 1 .. m /\ k + i - 1 \in 1 .. n - 1 /\ k + (i + 1) - 1 = (k + i - 1) + 1
      BY <2>2, <1>0, <1>2, <1>5
    <3>2. p[i + 1] = path[(k + i - 1) + 1] /\ p[i] = path[k + i - 1]
      <4>1. p[i + 1] = path[k + (i + 1) - 1] /\ p[i] = path[k + i - 1]
        BY <3>1, <1>6, Zenon
      <4>. QED  BY <3>1, <4>1, Zenon
    <3>3. path[(k + i - 1) + 1] \in graph[path[k + i - 1]]
      BY <3>1, <1>1, Zenon DEF PathIsOpen
    <3>. QED  BY <3>2, <3>3, Zenon
  <2>. QED  BY <2>1, <2>2, Zenon
<1>10. IsInjective(SubSeq(p, 1, Len(p) - 1))
  <2>1. DOMAIN SubSeq(p, 1, Len(p) - 1) = 1 .. m /\ \A i \in 1 .. m : SubSeq(p, 1, Len(p) - 1)[i] = p[i]
    <3>1. SubSeq(p, 1, Len(p) - 1) \in Seq(Workflow) /\ Len(SubSeq(p, 1, Len(p) - 1)) = m /\ \A i \in 1 .. m : SubSeq(p, 1, Len(p) - 1)[i] = p[i]
      BY <1>6, <1>7, FrontIs, Zenon
    <3>. QED  BY <3>1, LenProperties, Zenon
  <2>. SUFFICES ASSUME NEW i \in 1 .. m, NEW j \in 1 .. m, SubSeq(p, 1, Len(p) - 1)[i] = SubSeq(p, 1, Len(p) - 1)[j] PROVE i = j
    BY <2>1, Zenon DEF IsInjective
  <2>2. path[k + i - 1] = path[k + j - 1] /\ k + i - 1 \in 1 .. n /\ k + j - 1 \in 1 .. n
    BY <2>1, <1>5, <1>6, Zenon
  <2>3. k + i - 1 = k + j - 1
    BY <2>2, <1>1, Zenon DEF PathIsOpen
  <2>. QED  BY <2>3, <1>0, <1>2
<1>. QED  BY <1>1, <1>3, <1>7, <1>8, <1>9, <1>10, Zenon DEF IsCycle, p

\* Every step of the walk keeps the invariant.
LEMMA CyclesStep ==
    ASSUME CyclesInv, [CyclesNext]_cycleVars
    PROVE  CyclesInv'
<1>1. /\ graph \in [Workflow -> SUBSET Workflow] /\ path \in Seq(Workflow) /\ left \in Seq(SUBSET Workflow)
      /\ mark \in [Workflow -> {"unseen", "open", "done"}] /\ Len(left) = Len(path)
      /\ PathIsOpen /\ LookedAtIsDone /\ LeftIsCalled /\ DoneIsClosed /\ DoneIsAcyclic /\ VerdictIsRight
  BY Zenon DEF CyclesInv
<1>2. ASSUME UNCHANGED <<graph, mark, path, left>>, VerdictIsRight' PROVE CyclesInv'
  <2>1. \A w \in Workflow : Loops(w)' <=> Loops(w)
    BY <1>2, Zenon DEF Loops, IsCycle, Calls
  <2>2. PathIsOpen' /\ LookedAtIsDone' /\ LeftIsCalled' /\ DoneIsClosed' /\ DoneIsAcyclic'
    BY <2>1, <1>1, <1>2, Zenon DEF PathIsOpen, OnPath, LookedAtIsDone, LeftIsCalled, DoneIsClosed, DoneIsAcyclic
  <2>. QED  BY <2>2, <1>1, <1>2, Zenon DEF CyclesInv
<1>3. CASE WalkRoot
  <2>. DEFINE unseen == {w \in Workflow : mark[w] = "unseen"}
  <2>0. path = <<>> /\ graph' = graph
    BY <1>3, Zenon DEF WalkRoot
  <2>1. CASE unseen = {}
    <3>1. report' = Accepted /\ UNCHANGED <<graph, mark, path, left>>
      BY <1>3, <2>1, Zenon DEF WalkRoot
    <3>2. \A w \in Workflow : ~OnPath(w)
      <4>1. Len(path) = 0
        BY <2>0, Zenon
      <4>2. \A i \in 1 .. Len(path) : FALSE
        BY <4>1
      <4>. QED  BY <4>2, Zenon DEF OnPath
    <3>3. \A w \in Workflow : mark[w] = "done"
      <4>1. \A w \in Workflow : mark[w] # "open" /\ mark[w] # "unseen"
        BY <2>1, <3>2, <1>1, Zenon DEF PathIsOpen
      <4>. QED  BY <4>1, <1>1, Zenon
    <3>4. \A w \in Workflow : ~Loops(w)
      BY <3>3, <1>1, Zenon DEF DoneIsAcyclic
    <3>5. VerdictIsRight'
      BY <3>1, <3>4, Zenon DEF VerdictIsRight, Loops, IsCycle, Calls
    <3>. QED  BY <3>1, <3>5, <1>2, Zenon
  <2>2. CASE unseen # {}
    <3>1. PICK w \in Workflow : w = Min(unseen) /\ mark[w] = "unseen"
      <4>1. unseen \in SUBSET Nat
        BY DEF Workflow
      <4>2. Min(unseen) \in unseen
        <5>. HIDE DEF unseen
        <5>. QED  BY <2>2, <4>1, LeastExists, Zenon
      <4>. QED  BY <4>2, Zenon
    <3>2. Enter(w) /\ left' = <<graph[w]>> /\ report' = report
      BY <1>3, <2>2, <3>1, Zenon DEF WalkRoot
    <3>3. /\ <<>> \in Seq(SUBSET Workflow) /\ Len(<<>>) = Len(path)
          /\ left' = Append(<<>>, graph[w]) /\ \A i \in 1 .. Len(path) : FALSE
      BY <2>0, <3>2
    <3>. QED  BY <2>0, <3>1, <3>2, <3>3, EnterKeeps, Zenon
  <2>. QED  BY <2>1, <2>2, Zenon
<1>4. ASSUME NEW c \in Workflow, WalkCallee(c) PROVE CyclesInv'
  <2>1. CASE mark[c] = "done"
    BY <1>4, <2>1, LookedAtKeeps, Zenon
  <2>2. CASE mark[c] = "open"
    <3>1. mark[c] # "unseen" /\ mark[c] # "done"
      BY <2>2, Zenon
    <3>2. /\ report' = Append(SubSeq(path, cycleStart(c), Len(path)), c)
          /\ UNCHANGED <<graph, mark, path, left>>
      BY <1>4, <3>1, Zenon DEF WalkCallee
    <3>3. IsCycle(report')
      BY <1>4, <2>2, <3>2, CycleIsFound, Zenon
    <3>4. report' # Accepted
      <4>1. Len(report') > 1
        BY <3>3, Zenon DEF IsCycle
      <4>. QED  BY <4>1 DEF Accepted
    <3>5. VerdictIsRight'
      BY <3>2, <3>3, <3>4, Zenon DEF VerdictIsRight, IsCycle, Calls, Accepted, Walking
    <3>. QED  BY <3>2, <3>5, <1>2, Zenon
  <2>3. CASE mark[c] = "unseen"
    <3>1. mark[c] # "open" /\ mark[c] # "done"
      BY <2>3, Zenon
    <3>2. /\ Enter(c) /\ left' = Append(LookedAt(c), graph[c]) /\ report' = report /\ graph' = graph
          /\ path # <<>> /\ c \in left[Len(left)]
      BY <1>4, <3>1, Zenon DEF WalkCallee
    <3>3. PICK n \in Nat \ {0} : n = Len(path) /\ n = Len(left)
      <4>1. Len(path) \in Nat \ {0}
        BY <3>2, <1>1
      <4>. QED  BY <4>1, <1>1, Zenon
    <3>4. n \in 1 .. n
      BY <3>3
    <3>5. left[n] \in SUBSET Workflow /\ c \in left[n] /\ c \in graph[path[Len(path)]]
      <4>1. left[n] \subseteq graph[path[n]] /\ path[Len(path)] = path[n] /\ left[Len(left)] = left[n]
        BY <3>3, <3>4, <1>1, Zenon DEF LeftIsCalled
      <4>2. left[n] \in SUBSET Workflow
        <5>1. left \in [1 .. n -> SUBSET Workflow]
          BY <3>3, <1>1, LenProperties, Zenon
        <5>. QED  BY <5>1, <3>4, Zenon
      <4>. QED  BY <4>1, <4>2, <3>2, Zenon
    <3>6. PICK e \in SUBSET Workflow : e = left[n] \ {c}
      BY <3>5, Zenon
    <3>. DEFINE rest == [left EXCEPT ![n] = e]
    <3>7. LookedAt(c) = rest
      BY <3>3, <3>6, Zenon DEF LookedAt
    <3>8. rest \in Seq(SUBSET Workflow) /\ Len(rest) = n /\ \A i \in 1 .. n : rest[i] = IF i = n THEN e ELSE left[i]
      <4>1. left \in Seq(SUBSET Workflow) /\ n \in 1 .. Len(left) /\ n = Len(left)
        BY <3>3, <3>4, <1>1, Zenon
      <4>. QED  BY <4>1, ExceptSeq
    <3>. HIDE DEF rest
    <3>9. \A i \in 1 .. n : /\ rest[i] \subseteq left[i]
                            /\ graph[path[i]] \ rest[i] \subseteq (graph[path[i]] \ left[i]) \cup (IF i = n THEN {c} ELSE {})
      BY <3>6, <3>8, Zenon
    <3>. QED  BY <2>3, <3>2, <3>3, <3>5, <3>7, <3>8, <3>9, EnterKeeps, Zenon
  <2>. QED  BY <2>1, <2>2, <2>3, <1>1, Zenon
<1>5. CASE WalkReturns
  BY <1>5, ReturnKeeps, Zenon
<1>6. CASE UNCHANGED cycleVars
  <2>1. VerdictIsRight'
    BY <1>1, <1>6, Zenon DEF VerdictIsRight, Loops, IsCycle, Calls, cycleVars
  <2>. QED  BY <2>1, <1>2, <1>6, Zenon DEF cycleVars
<1>. QED  BY <1>3, <1>4, <1>5, <1>6, Zenon DEF CyclesNext

\* A set of workflows is accepted only without a cycle and refused only for one,
\* which the refusal names, for any number of workflows and any calls among them.
THEOREM VerdictsAreRight == CyclesSpec => []VerdictIsRight
<1>1. CyclesInit => CyclesInv
  <2>. SUFFICES ASSUME CyclesInit PROVE CyclesInv
    BY Zenon
  <2>1. /\ graph \in [Workflow -> SUBSET Workflow] /\ mark = [w \in Workflow |-> "unseen"]
        /\ path = <<>> /\ left = <<>> /\ report = Walking
    BY Zenon DEF CyclesInit
  <2>2. /\ path \in Seq(Workflow) /\ left \in Seq(SUBSET Workflow) /\ Len(left) = Len(path)
        /\ Len(path) = 0 /\ \A i \in 1 .. Len(path) : FALSE
    BY <2>1
  <2>3. \A i \in 1 .. Len(path) - 1 : FALSE
    BY <2>2
  <2>4. mark \in [Workflow -> {"unseen", "open", "done"}] /\ \A w \in Workflow : mark[w] # "open" /\ mark[w] # "done"
    BY <2>1, Zenon
  <2>5. PathIsOpen /\ LookedAtIsDone /\ LeftIsCalled /\ DoneIsClosed /\ DoneIsAcyclic
    BY <2>2, <2>3, <2>4, Zenon DEF PathIsOpen, OnPath, LookedAtIsDone, LeftIsCalled, DoneIsClosed, DoneIsAcyclic
  <2>6. VerdictIsRight
    BY <2>1, Zenon DEF VerdictIsRight, Walking, Accepted
  <2>. QED  BY <2>1, <2>2, <2>4, <2>5, <2>6, Zenon DEF CyclesInv
<1>2. CyclesInv => VerdictIsRight
  BY Zenon DEF CyclesInv
<1>. QED  BY <1>1, <1>2, CyclesStep, PTL DEF CyclesSpec
=============================================================================
