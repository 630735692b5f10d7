--------------------------- MODULE ContainerPool ---------------------------
(***************************************************************************)
(* The pool of agent containers.  A user of the pool acquires a container, *)
(* works in it and releases it.  The count of reservations is kept under   *)
(* the pool's lock and apart from Docker's own state.  A container may     *)
(* have a lifetime cap: a timer whose callback races Release for the       *)
(* container's teardown, decided by an entry that one of them closes.      *)
(*                                                                         *)
(* Each user stands for one Acquire and its Release; its container bears   *)
(* its name.                                                               *)
(***************************************************************************)
EXTENDS Naturals, FiniteSets

CONSTANTS User,
          Caps,            \* the values of max_concurrency; 0 is no limit
          MaxPoolChanges,  \* how often the settings change
          MaxPoolFaults    \* how many calls to Docker fail, and restarts

ASSUME PoolAssumption == IsFiniteSet(User) /\ Caps \subseteq Nat

VARIABLES settings,  \* the live settings: the cap, and whether lifetimes are capped
          pulled,    \* the agent image has been made available
          active,    \* the pool's count
          user,      \* where each user is
          seen,      \* the settings each user's Acquire took
          entry,     \* teardowns: no entry, one that is open, or closed
          reaper,    \* each container's timer and its callback
          docker,    \* each container, as Docker has it
          torn,      \* how often each container's teardown was claimed
          poolChanges, poolFaults

poolVars == <<settings, pulled, active, user, seen, entry, reaper, docker, torn, poolChanges, poolFaults>>

Settings == [cap : Caps, uptime : BOOLEAN]

\* The users that hold a reservation.
Reserved == {"create", "start", "cleanup", "arm", "work", "claim", "stop", "remove", "forget", "return"}
UserPc == {"idle", "image", "reserve", "done"} \cup Reserved
ReaperPc == {"none", "armed", "claim", "stop", "remove", "done"}
DockerState == {"none", "created", "running", "gone"}

PoolInit ==
    /\ settings \in Settings
    /\ pulled = FALSE
    /\ active = 0
    /\ user = [u \in User |-> "idle"]
    /\ seen = [u \in User |-> settings]
    /\ entry = [u \in User |-> "none"]
    /\ reaper = [u \in User |-> "none"]
    /\ docker = [u \in User |-> "none"]
    /\ torn = [u \in User |-> 0]
    /\ poolChanges = 0 /\ poolFaults = 0

DockerFails == poolFaults < MaxPoolFaults /\ poolFaults' = poolFaults + 1
UserAt(u, pc) == user' = [user EXCEPT ![u] = pc]
ReaperAt(u, pc) == reaper' = [reaper EXCEPT ![u] = pc]
DockerIs(u, state) == docker' = [docker EXCEPT ![u] = state]

Configure(s) ==
    /\ poolChanges < MaxPoolChanges /\ s # settings
    /\ settings' = s
    /\ poolChanges' = poolChanges + 1
    /\ UNCHANGED <<pulled, active, user, seen, entry, reaper, docker, torn, poolFaults>>
-----------------------------------------------------------------------------
(***************************************************************************)
(* Acquire                                                                 *)
(***************************************************************************)

\* One snapshot of the settings serves the whole acquire.
Acquire(u) ==
    /\ user[u] = "idle"
    /\ seen' = [seen EXCEPT ![u] = settings]
    /\ UserAt(u, "image")
    /\ UNCHANGED <<settings, pulled, active, entry, reaper, docker, torn, poolChanges, poolFaults>>

ensureImage(u) ==
    /\ user[u] = "image"
    /\ \/ pulled' = TRUE /\ UserAt(u, "reserve") /\ UNCHANGED poolFaults
       \/ ~pulled /\ DockerFails /\ UserAt(u, "done") /\ UNCHANGED pulled
    /\ UNCHANGED <<settings, active, seen, entry, reaper, docker, torn, poolChanges>>

AtLimit(u) == seen[u].cap > 0 /\ active >= seen[u].cap

reserve(u) ==
    /\ user[u] = "reserve"
    /\ \/ AtLimit(u) /\ UserAt(u, "done") /\ UNCHANGED active
       \/ ~AtLimit(u) /\ UserAt(u, "create") /\ active' = active + 1
    /\ UNCHANGED <<settings, pulled, seen, entry, reaper, docker, torn, poolChanges, poolFaults>>

\* A failed create may have created the container all the same.
ContainerCreate(u) ==
    /\ user[u] = "create"
    /\ \/ DockerIs(u, "created") /\ UserAt(u, "start") /\ UNCHANGED <<active, poolFaults>>
       \/ /\ DockerFails
          /\ DockerIs(u, "created") \/ UNCHANGED docker
          /\ UserAt(u, "done") /\ active' = active - 1
    /\ UNCHANGED <<settings, pulled, seen, entry, reaper, torn, poolChanges>>

ContainerStart(u) ==
    /\ user[u] = "start"
    /\ \/ docker[u] = "created" /\ DockerIs(u, "running") /\ UserAt(u, "arm") /\ UNCHANGED poolFaults
       \/ docker[u] = "gone" /\ UserAt(u, "cleanup") /\ UNCHANGED <<docker, poolFaults>>
       \/ /\ docker[u] = "created" /\ DockerFails
          /\ DockerIs(u, "running") \/ UNCHANGED docker
          /\ UserAt(u, "cleanup")
    /\ UNCHANGED <<settings, pulled, active, seen, entry, reaper, torn, poolChanges>>

MutStartFailed(u) ==
    /\ user[u] = "cleanup"
    /\ \/ DockerIs(u, "gone") /\ UNCHANGED poolFaults
       \/ DockerFails /\ UNCHANGED docker
    /\ UserAt(u, "done")
    /\ UNCHANGED <<settings, pulled, active, seen, entry, reaper, torn, poolChanges>>

\* The container that would not start is removed and its place given back.
StartFailed(u) ==
    /\ user[u] = "cleanup"
    /\ \/ DockerIs(u, "gone") /\ UNCHANGED poolFaults
       \/ DockerFails /\ UNCHANGED docker
    /\ UserAt(u, "done") /\ active' = active - 1
    /\ UNCHANGED <<settings, pulled, seen, entry, reaper, torn, poolChanges>>

MutArmMaxUptime(u) ==
    /\ user[u] = "arm"
    /\ UserAt(u, "work")
    /\ IF seen[u].uptime THEN ReaperAt(u, "armed") ELSE UNCHANGED reaper
    /\ UNCHANGED <<settings, pulled, active, seen, entry, docker, torn, poolChanges, poolFaults>>

\* started: the entry is made and its timer set under one lock.
armMaxUptime(u) ==
    /\ user[u] = "arm"
    /\ UserAt(u, "work")
    /\ IF seen[u].uptime
       THEN entry' = [entry EXCEPT ![u] = "open"] /\ ReaperAt(u, "armed")
       ELSE UNCHANGED <<entry, reaper>>
    /\ UNCHANGED <<settings, pulled, active, seen, docker, torn, poolChanges, poolFaults>>
-----------------------------------------------------------------------------
(***************************************************************************)
(* The end of a container: by itself, by its timer, or by Release.  Docker *)
(* removes it when it stops.                                               *)
(***************************************************************************)

ContainerExits(u) ==
    /\ docker[u] = "running"
    /\ DockerIs(u, "gone")
    /\ UNCHANGED <<settings, pulled, active, user, seen, entry, reaper, torn, poolChanges, poolFaults>>

TimerFires(u) ==
    /\ reaper[u] = "armed"
    /\ ReaperAt(u, "claim")
    /\ UNCHANGED <<settings, pulled, active, user, seen, entry, docker, torn, poolChanges, poolFaults>>

\* The teardown is won: no other claim of it will be.
Won(u) == torn' = [torn EXCEPT ![u] = @ + 1]

MutClaimReaper(u) ==
    /\ reaper[u] = "claim"
    /\ \/ entry[u] = "open" /\ entry' = [entry EXCEPT ![u] = "closed"] /\ ReaperAt(u, "stop") /\ Won(u)
       \/ entry[u] = "none" /\ ReaperAt(u, "stop") /\ Won(u) /\ UNCHANGED entry
       \/ entry[u] = "closed" /\ ReaperAt(u, "done") /\ UNCHANGED <<entry, torn>>
    /\ UNCHANGED <<settings, pulled, active, user, seen, docker, poolChanges, poolFaults>>

\* To the callback a missing entry is a loss.
claimReaper(u) ==
    /\ reaper[u] = "claim"
    /\ \/ entry[u] = "open" /\ entry' = [entry EXCEPT ![u] = "closed"] /\ ReaperAt(u, "stop") /\ Won(u)
       \/ entry[u] # "open" /\ ReaperAt(u, "done") /\ UNCHANGED <<entry, torn>>
    /\ UNCHANGED <<settings, pulled, active, user, seen, docker, poolChanges, poolFaults>>

\* A stop or a remove that succeeds leaves no container; one that fails is
\* only logged.
TearDown(u) == (DockerIs(u, "gone") /\ UNCHANGED poolFaults) \/ (DockerFails /\ UNCHANGED docker)

reapMaxUptime(u) ==
    /\ \/ reaper[u] = "stop" /\ ReaperAt(u, "remove")
       \/ reaper[u] = "remove" /\ ReaperAt(u, "done")
    /\ TearDown(u)
    /\ UNCHANGED <<settings, pulled, active, user, seen, entry, torn, poolChanges>>

\* The task is over and the grace period past.
Release(u) ==
    /\ user[u] = "work"
    /\ UserAt(u, "claim")
    /\ UNCHANGED <<settings, pulled, active, seen, entry, reaper, docker, torn, poolChanges, poolFaults>>

\* To Release a missing entry is a win.
claimRelease(u) ==
    /\ user[u] = "claim"
    /\ \/ /\ entry[u] # "closed" /\ UserAt(u, "stop") /\ Won(u)
          /\ entry' = [entry EXCEPT ![u] = IF @ = "open" THEN "closed" ELSE @]
       \/ entry[u] = "closed" /\ UserAt(u, "forget") /\ UNCHANGED <<entry, torn>>
    /\ UNCHANGED <<settings, pulled, active, seen, reaper, docker, poolChanges, poolFaults>>

ReleaseStops(u) ==
    /\ \/ user[u] = "stop" /\ UserAt(u, "remove")
       \/ user[u] = "remove" /\ UserAt(u, "forget")
    /\ TearDown(u)
    /\ UNCHANGED <<settings, pulled, active, seen, entry, reaper, torn, poolChanges>>

\* A timer that has not fired is stopped; one that has goes on to its claim.
forgetTeardown(u) ==
    /\ user[u] = "forget"
    /\ entry' = [entry EXCEPT ![u] = "none"]
    /\ reaper' = [reaper EXCEPT ![u] = IF @ = "armed" THEN "none" ELSE @]
    /\ UserAt(u, "return")
    /\ UNCHANGED <<settings, pulled, active, seen, docker, torn, poolChanges, poolFaults>>

Released(u) ==
    /\ user[u] = "return"
    /\ UserAt(u, "done") /\ active' = active - 1
    /\ UNCHANGED <<settings, pulled, seen, entry, reaper, docker, torn, poolChanges, poolFaults>>

Present == {u \in User : docker[u] \in {"created", "running"}}
\* What Docker lists is stopped and removed.
Removed(S) == docker' = [u \in User |-> IF u \in S THEN "gone" ELSE docker[u]]

\* The daemon's shutdown removes what Docker lists; a removal may fail.
Close ==
    /\ Present # {}
    /\ \/ Removed(Present) /\ UNCHANGED poolFaults
       \/ DockerFails /\ \E S \in SUBSET Present : Removed(S)
    /\ UNCHANGED <<settings, pulled, active, user, seen, entry, reaper, torn, poolChanges>>

\* The daemon restarts with an empty pool and removes the containers the last
\* one left; a removal may fail.
recoverOrphans ==
    /\ DockerFails
    /\ pulled' = FALSE /\ active' = 0
    /\ user' = [u \in User |-> IF user[u] = "idle" THEN "idle" ELSE "done"]
    /\ entry' = [u \in User |-> "none"]
    /\ reaper' = [u \in User |-> "none"]
    /\ \E S \in SUBSET Present : Removed(S)
    /\ UNCHANGED <<settings, seen, torn, poolChanges>>

\* What a user does by itself once it has called Acquire, or Release.
UserStep(u) ==
    \/ ensureImage(u) \/ reserve(u) \/ ContainerCreate(u) \/ ContainerStart(u) \/ StartFailed(u)
    \/ armMaxUptime(u) \/ claimRelease(u) \/ ReleaseStops(u) \/ forgetTeardown(u) \/ Released(u)

ReaperStep(u) == TimerFires(u) \/ claimReaper(u) \/ reapMaxUptime(u)

PoolNext ==
    \/ \E s \in Settings : Configure(s)
    \/ \E u \in User : Acquire(u) \/ UserStep(u) \/ Release(u) \/ ContainerExits(u) \/ ReaperStep(u)
    \/ Close \/ recoverOrphans

PoolSpec == PoolInit /\ [][PoolNext]_poolVars
-----------------------------------------------------------------------------
(***************************************************************************)
(* Properties                                                              *)
(***************************************************************************)

PoolTypeOK ==
    /\ settings \in Settings /\ pulled \in BOOLEAN /\ active \in Nat
    /\ user \in [User -> UserPc] /\ seen \in [User -> Settings]
    /\ entry \in [User -> {"none", "open", "closed"}]
    /\ reaper \in [User -> ReaperPc] /\ docker \in [User -> DockerState]
    /\ torn \in [User -> Nat]

Holders == {u \in User : user[u] \in Reserved}

\* Active is the number of containers the pool holds, acquired and not yet
\* released, on every path through Acquire's failures and the teardown race.
ActiveIsHeld == active = Cardinality(Holders)

\* The cap holds while it does not change: no interleaving of acquires passes it.
CapHolds == poolChanges = 0 /\ settings.cap > 0 => active <= settings.cap

\* The timer's callback and Release never both tear a container down, however
\* late the callback runs.
TornDownOnce == \A u \in User : torn[u] <= 1

\* A user past its release has no container left running, unless Docker
\* refused or the timer's callback is at it.
ReleasedIsGone ==
    \A u \in User :
        user[u] = "return" /\ reaper[u] \notin {"stop", "remove"} /\ poolFaults = 0 => docker[u] = "gone"

\* A lifetime cap needs no Release: the pool keeps coming to where no container
\* whose timer was armed is left, unless a call to Docker failed.
LifetimeIsCapped ==
    []<>(\A u \in User : reaper[u] # "none" => docker[u] = "gone" \/ poolFaults > 0)
=============================================================================
