--------------------------- MODULE ServicesProofs ---------------------------
(***************************************************************************)
(* The container pool, the supervisor of a channel and workflow calls keep *)
(* their promises for any number of users, settings, attempts, executions  *)
(* and faults.                                                             *)
(***************************************************************************)
EXTENDS ContainerPool, ChannelSupervisor, WorkflowCalls,
        FiniteSetTheorems, SequenceTheorems, TLAPS
USE SMTT(20), ZenonT(20)

(***************************************************************************)
(* The container pool                                                      *)
(***************************************************************************)

\* A user that has not yet been given a started container.
Early == {"idle", "image", "reserve", "create", "start", "cleanup", "arm"}

\* Where the entry stands for the teardown.  Until the container is started
\* there is none; an open entry, and a missing one before Release has claimed,
\* say that nobody has torn the container down.
EntryTells ==
    /\ \A u \in User : user[u] \in Early => entry[u] = "none" /\ reaper[u] = "none" /\ torn[u] = 0
    /\ \A u \in User : entry[u] = "open" => torn[u] = 0
    /\ \A u \in User : user[u] \in {"work", "claim"} /\ entry[u] = "none" => torn[u] = 0

\* While Docker has refused nothing, a stop leaves no container: behind the
\* stop of either side, and where Release found its claim lost.
StopTells ==
    poolFaults = 0 =>
        \A u \in User :
            /\ user[u] = "remove" => docker[u] = "gone"
            /\ reaper[u] = "remove" => docker[u] = "gone"
            /\ user[u] \in {"work", "claim"} /\ entry[u] = "closed" /\ reaper[u] \notin {"stop", "remove"}
                  => docker[u] = "gone"
            /\ user[u] \in {"forget", "return"} /\ reaper[u] \notin {"stop", "remove"} => docker[u] = "gone"

\* Until the settings change, every acquire has seen the ones in force.
SeenIsCurrent == poolChanges = 0 => \A u \in User : seen[u] = settings

PoolInv ==
    /\ PoolTypeOK /\ poolChanges \in Nat /\ poolFaults \in Nat
    /\ ActiveIsHeld /\ SeenIsCurrent /\ CapHolds
    /\ EntryTells /\ TornDownOnce /\ StopTells
-----------------------------------------------------------------------------
\* A set of users is finite.
LEMMA UsersFinite == ASSUME NEW S \in SUBSET User PROVE IsFiniteSet(S) /\ Cardinality(S) \in Nat
BY PoolAssumption, FS_Subset, FS_CardinalityType, Zenon

\* The pool starts empty.
LEMMA PoolInitInv == PoolInit => PoolInv
<1> SUFFICES ASSUME PoolInit PROVE PoolInv
  BY Zenon
<1>1. Holders = {}
  BY Zenon DEF PoolInit, Holders, Reserved
<1>2. ActiveIsHeld
  BY <1>1, FS_EmptySet, Zenon DEF PoolInit, ActiveIsHeld
<1>3. PoolTypeOK /\ poolChanges \in Nat /\ poolFaults \in Nat
  BY Zenon DEF PoolInit, PoolTypeOK, UserPc, ReaperPc, DockerState
<1>4. settings.cap \in Nat /\ active = 0
  BY PoolAssumption, Zenon DEF PoolInit, Settings
<1>5. CapHolds
  BY <1>4 DEF CapHolds
<1> QED BY <1>2, <1>3, <1>5 DEF PoolInit, PoolInv, SeenIsCurrent, EntryTells, TornDownOnce, StopTells

\* A user that takes a place joins the holders; one that gives its place back
\* leaves them; a step between two pcs of the same kind leaves them as they are.
LEMMA HoldersMove ==
    ASSUME PoolTypeOK, NEW u \in User, NEW pc, UserAt(u, pc)
    PROVE  /\ user[u] \notin Reserved /\ pc \in Reserved => Cardinality(Holders') = Cardinality(Holders) + 1
           /\ user[u] \in Reserved /\ pc \notin Reserved => Cardinality(Holders') = Cardinality(Holders) - 1
           /\ (user[u] \in Reserved <=> pc \in Reserved) => Holders' = Holders
<1>1. \A v \in User : user'[v] = IF v = u THEN pc ELSE user[v]
  BY Zenon DEF PoolTypeOK, UserAt
<1>2. IsFiniteSet(Holders)
  BY UsersFinite, Zenon DEF Holders
<1>3. CASE user[u] \notin Reserved /\ pc \in Reserved
  <2>1. Holders' = Holders \cup {u} /\ u \notin Holders
    BY <1>1, <1>3, Zenon DEF Holders
  <2> QED BY <1>2, <1>3, <2>1, FS_AddElement, Zenon
<1>4. CASE user[u] \in Reserved /\ pc \notin Reserved
  <2>1. Holders' = Holders \ {u} /\ u \in Holders
    BY <1>1, <1>4, Zenon DEF Holders
  <2> QED BY <1>2, <1>4, <2>1, FS_RemoveElement, Zenon
<1>5. CASE user[u] \in Reserved <=> pc \in Reserved
  BY <1>1, <1>5, Zenon DEF Holders
<1> QED BY <1>3, <1>4, <1>5, Zenon

\* The count goes with the holders: every path that reserves or gives back moves
\* one user, once, and a restart leaves none.
LEMMA PoolCounts == ASSUME PoolInv, [PoolNext]_poolVars PROVE ActiveIsHeld' /\ active' \in Nat
<1> USE DEF PoolInv
<1>0. Holders' \in SUBSET User /\ Cardinality(Holders') \in Nat
  <2>1. Holders' \in SUBSET User
    BY Zenon DEF Holders
  <2> QED BY <2>1, UsersFinite, Zenon
<1>1. SUFFICES ActiveIsHeld'
  BY <1>0, Zenon DEF ActiveIsHeld
<1>2. ASSUME NEW u \in User, reserve(u) PROVE ActiveIsHeld'
  BY <1>2, HoldersMove DEF reserve, ActiveIsHeld, Reserved
<1>3. ASSUME NEW u \in User, ContainerCreate(u) \/ StartFailed(u) \/ Released(u) PROVE ActiveIsHeld'
  BY <1>3, HoldersMove DEF ContainerCreate, StartFailed, Released, ActiveIsHeld, Reserved
<1>4. ASSUME NEW u \in User, Acquire(u) \/ ensureImage(u) \/ ContainerStart(u) \/ armMaxUptime(u) PROVE ActiveIsHeld'
  BY <1>4, HoldersMove DEF Acquire, ensureImage, ContainerStart, armMaxUptime, ActiveIsHeld, Reserved
<1>5. ASSUME NEW u \in User, Release(u) \/ claimRelease(u) \/ ReleaseStops(u) \/ forgetTeardown(u) PROVE ActiveIsHeld'
  BY <1>5, HoldersMove, Zenon DEF Release, claimRelease, ReleaseStops, forgetTeardown, ActiveIsHeld, Reserved
<1>6. CASE recoverOrphans
  <2>1. Holders' = {}
    BY <1>6, Zenon DEF recoverOrphans, Holders, Reserved
  <2> QED BY <1>6, <2>1, FS_EmptySet, Zenon DEF recoverOrphans, ActiveIsHeld
<1>7. ASSUME UNCHANGED <<active, user>> PROVE ActiveIsHeld'
  BY <1>7, Zenon DEF ActiveIsHeld, Holders
<1>8. ASSUME NEW u \in User, ContainerExits(u) \/ ReaperStep(u) PROVE UNCHANGED <<active, user>>
  BY <1>8, Zenon DEF ContainerExits, ReaperStep, TimerFires, claimReaper, reapMaxUptime
<1>9. ASSUME Close \/ UNCHANGED poolVars \/ \E s \in Settings : Configure(s) PROVE UNCHANGED <<active, user>>
  BY <1>9, Zenon DEF Close, poolVars, Configure
<1> QED BY <1>2, <1>3, <1>4, <1>5, <1>6, <1>7, <1>8, <1>9, Zenon DEF PoolNext, UserStep

\* Every step keeps the types.
LEMMA PoolTypes ==
    ASSUME PoolInv, [PoolNext]_poolVars, active' \in Nat
    PROVE  (PoolTypeOK /\ poolChanges \in Nat /\ poolFaults \in Nat)'
<1> DEFINE Kept == (PoolTypeOK /\ poolChanges \in Nat /\ poolFaults \in Nat)'
<1> USE DEF PoolInv
<1>1. ASSUME NEW u \in User, Acquire(u) PROVE Kept
  BY <1>1, Zenon DEF Acquire, UserAt, PoolTypeOK, UserPc, Reserved, ReaperPc, DockerState
<1>2. ASSUME NEW u \in User, ensureImage(u) PROVE Kept
  <2>1. pulled' \in BOOLEAN
    BY <1>2, Zenon DEF ensureImage, PoolTypeOK
  <2> QED BY <1>2, <2>1 DEF ensureImage, UserAt, DockerFails, PoolTypeOK, UserPc, Reserved, ReaperPc, DockerState
<1>3. ASSUME NEW u \in User, reserve(u) PROVE Kept
  BY <1>3, Zenon DEF reserve, UserAt, PoolTypeOK, UserPc, Reserved, ReaperPc, DockerState
<1>4. ASSUME NEW u \in User, ContainerCreate(u) PROVE Kept
  BY <1>4 DEF ContainerCreate, UserAt, DockerIs, DockerFails, PoolTypeOK, UserPc, Reserved, ReaperPc, DockerState
<1>5. ASSUME NEW u \in User, ContainerStart(u) PROVE Kept
  BY <1>5 DEF ContainerStart, UserAt, DockerIs, DockerFails, PoolTypeOK, UserPc, Reserved, ReaperPc, DockerState
<1>6. ASSUME NEW u \in User, StartFailed(u) PROVE Kept
  BY <1>6 DEF StartFailed, UserAt, DockerIs, DockerFails, PoolTypeOK, UserPc, Reserved, ReaperPc, DockerState
<1>7. ASSUME NEW u \in User, armMaxUptime(u) PROVE Kept
  BY <1>7, Zenon DEF armMaxUptime, UserAt, ReaperAt, PoolTypeOK, UserPc, Reserved, ReaperPc, DockerState
<1>8. ASSUME NEW u \in User, Release(u) PROVE Kept
  BY <1>8, Zenon DEF Release, UserAt, PoolTypeOK, UserPc, Reserved, ReaperPc, DockerState
<1>9. ASSUME NEW u \in User, ContainerExits(u) PROVE Kept
  BY <1>9, Zenon DEF ContainerExits, DockerIs, PoolTypeOK, UserPc, Reserved, ReaperPc, DockerState
<1>10. ASSUME NEW u \in User, TimerFires(u) PROVE Kept
  BY <1>10, Zenon DEF TimerFires, ReaperAt, PoolTypeOK, UserPc, Reserved, ReaperPc, DockerState
<1>11. ASSUME NEW u \in User, claimReaper(u) PROVE Kept
  BY <1>11 DEF claimReaper, ReaperAt, Won, PoolTypeOK, UserPc, Reserved, ReaperPc, DockerState
<1>12. ASSUME NEW u \in User, reapMaxUptime(u) PROVE Kept
  BY <1>12 DEF reapMaxUptime, ReaperAt, TearDown, DockerIs, DockerFails, PoolTypeOK, UserPc, Reserved, ReaperPc, DockerState
<1>13. ASSUME NEW u \in User, claimRelease(u) PROVE Kept
  BY <1>13 DEF claimRelease, UserAt, Won, PoolTypeOK, UserPc, Reserved, ReaperPc, DockerState
<1>14. ASSUME NEW u \in User, ReleaseStops(u) PROVE Kept
  BY <1>14 DEF ReleaseStops, UserAt, TearDown, DockerIs, DockerFails, PoolTypeOK, UserPc, Reserved, ReaperPc, DockerState
<1>15. ASSUME NEW u \in User, forgetTeardown(u) PROVE Kept
  BY <1>15, Zenon DEF forgetTeardown, UserAt, PoolTypeOK, UserPc, Reserved, ReaperPc, DockerState
<1>16. ASSUME NEW u \in User, Released(u) PROVE Kept
  BY <1>16, Zenon DEF Released, UserAt, PoolTypeOK, UserPc, Reserved, ReaperPc, DockerState
<1>17. CASE Close
  <2>1. PICK S \in SUBSET Present : Removed(S)
    BY <1>17, Zenon DEF Close
  <2>2. docker' \in [User -> DockerState]
    BY <2>1, Zenon DEF Removed, PoolTypeOK, DockerState
  <2> QED BY <1>17, <2>2 DEF Close, DockerFails, PoolTypeOK, UserPc, Reserved, ReaperPc, DockerState
<1>18. CASE recoverOrphans
  <2>1. PICK S \in SUBSET Present : Removed(S)
    BY <1>18, Zenon DEF recoverOrphans
  <2>2. docker' \in [User -> DockerState]
    BY <2>1, Zenon DEF Removed, PoolTypeOK, DockerState
  <2>3. user' \in [User -> UserPc]
    BY <1>18, Zenon DEF recoverOrphans, UserPc
  <2>4. entry' \in [User -> {"none", "open", "closed"}] /\ reaper' \in [User -> ReaperPc]
    BY <1>18, Zenon DEF recoverOrphans, ReaperPc
  <2>5. pulled' = FALSE
    BY <1>18, Zenon DEF recoverOrphans
  <2>6. poolFaults' \in Nat
    BY <1>18 DEF recoverOrphans, DockerFails
  <2> QED BY <1>18, <2>2, <2>3, <2>4, <2>5, <2>6, Zenon DEF recoverOrphans, PoolTypeOK
<1>19. ASSUME NEW s \in Settings, Configure(s) PROVE Kept
  BY <1>19 DEF Configure, PoolTypeOK, UserPc, Reserved, ReaperPc, DockerState
<1>20. CASE UNCHANGED poolVars
  BY <1>20, Zenon DEF poolVars, PoolTypeOK, UserPc, Reserved, ReaperPc, DockerState
<1> QED BY <1>1, <1>2, <1>3, <1>4, <1>5, <1>6, <1>7, <1>8, <1>9, <1>10, <1>11, <1>12, <1>13, <1>14, <1>15, <1>16, <1>17, <1>18, <1>19, <1>20, Zenon DEF PoolNext, UserStep, ReaperStep

\* A user reserves by the cap it saw, which is the one in force until that changes.
LEMMA PoolCaps == ASSUME PoolInv, [PoolNext]_poolVars PROVE SeenIsCurrent' /\ CapHolds'
<1> USE DEF PoolInv
<1>1. settings.cap \in Nat /\ active \in Nat /\ poolChanges \in Nat
  BY PoolAssumption, Zenon DEF PoolTypeOK, Settings
<1>2. ASSUME NEW u \in User, reserve(u) PROVE SeenIsCurrent' /\ CapHolds'
  BY <1>1, <1>2 DEF reserve, AtLimit, SeenIsCurrent, CapHolds
<1>3. ASSUME NEW u \in User, Acquire(u) PROVE SeenIsCurrent' /\ CapHolds'
  BY <1>1, <1>3, Zenon DEF Acquire, SeenIsCurrent, CapHolds, PoolTypeOK
<1>4. ASSUME NEW s \in Settings, Configure(s) PROVE SeenIsCurrent' /\ CapHolds'
  BY <1>1, <1>4 DEF Configure, SeenIsCurrent, CapHolds
<1>5. ASSUME UNCHANGED <<settings, seen, poolChanges>>, active' \in {active, active - 1, 0}
      PROVE  SeenIsCurrent' /\ CapHolds'
  BY <1>1, <1>5 DEF SeenIsCurrent, CapHolds
<1>6. ASSUME NEW u \in User, ContainerCreate(u) \/ StartFailed(u) \/ Released(u) \/ ensureImage(u) \/ ContainerStart(u)
      PROVE  UNCHANGED <<settings, seen, poolChanges>> /\ active' \in {active, active - 1, 0}
  BY <1>6, Zenon DEF ContainerCreate, StartFailed, Released, ensureImage, ContainerStart
<1>7. ASSUME NEW u \in User, armMaxUptime(u) \/ Release(u) \/ claimRelease(u) \/ ReleaseStops(u) \/ forgetTeardown(u)
      PROVE  UNCHANGED <<settings, seen, poolChanges>> /\ active' \in {active, active - 1, 0}
  BY <1>7, Zenon DEF armMaxUptime, Release, claimRelease, ReleaseStops, forgetTeardown
<1>8. ASSUME NEW u \in User, ContainerExits(u) \/ ReaperStep(u)
      PROVE  UNCHANGED <<settings, seen, poolChanges>> /\ active' \in {active, active - 1, 0}
  BY <1>8, Zenon DEF ContainerExits, ReaperStep, TimerFires, claimReaper, reapMaxUptime
<1>9. ASSUME Close \/ recoverOrphans \/ UNCHANGED poolVars
      PROVE  UNCHANGED <<settings, seen, poolChanges>> /\ active' \in {active, active - 1, 0}
  BY <1>9, Zenon DEF Close, recoverOrphans, poolVars
<1> QED BY <1>2, <1>3, <1>4, <1>5, <1>6, <1>7, <1>8, <1>9, Zenon DEF PoolNext, UserStep

\* The entry decides the race for the teardown.
LEMMA PoolTears == ASSUME PoolInv, [PoolNext]_poolVars PROVE EntryTells' /\ TornDownOnce'
<1> DEFINE Kept == EntryTells' /\ TornDownOnce'
<1> USE DEF PoolInv
<1>1. ASSUME NEW u \in User, Acquire(u) PROVE Kept
  BY <1>1, Zenon DEF Acquire, UserAt, PoolTypeOK, EntryTells, TornDownOnce, Early
<1>2. ASSUME NEW u \in User, ensureImage(u) PROVE Kept
  BY <1>2, Zenon DEF ensureImage, UserAt, DockerFails, PoolTypeOK, EntryTells, TornDownOnce, Early
<1>3. ASSUME NEW u \in User, reserve(u) PROVE Kept
  BY <1>3, Zenon DEF reserve, UserAt, PoolTypeOK, EntryTells, TornDownOnce, Early
<1>4. ASSUME NEW u \in User, ContainerCreate(u) PROVE Kept
  BY <1>4, Zenon DEF ContainerCreate, UserAt, DockerIs, DockerFails, PoolTypeOK, EntryTells, TornDownOnce, Early
<1>5. ASSUME NEW u \in User, ContainerStart(u) PROVE Kept
  BY <1>5, Zenon DEF ContainerStart, UserAt, DockerIs, DockerFails, PoolTypeOK, EntryTells, TornDownOnce, Early
<1>6. ASSUME NEW u \in User, StartFailed(u) PROVE Kept
  BY <1>6, Zenon DEF StartFailed, UserAt, DockerIs, DockerFails, PoolTypeOK, EntryTells, TornDownOnce, Early
<1>7. ASSUME NEW u \in User, armMaxUptime(u) PROVE Kept
  BY <1>7 DEF armMaxUptime, UserAt, ReaperAt, PoolTypeOK, EntryTells, TornDownOnce, Early
<1>8. ASSUME NEW u \in User, Release(u) PROVE Kept
  BY <1>8, Zenon DEF Release, UserAt, PoolTypeOK, EntryTells, TornDownOnce, Early
<1>9. ASSUME NEW u \in User, ContainerExits(u) PROVE Kept
  BY <1>9, Zenon DEF ContainerExits, DockerIs, PoolTypeOK, EntryTells, TornDownOnce, Early
<1>10. ASSUME NEW u \in User, TimerFires(u) PROVE Kept
  BY <1>10, Zenon DEF TimerFires, ReaperAt, PoolTypeOK, EntryTells, TornDownOnce, Early
<1>11. ASSUME NEW u \in User, claimReaper(u) PROVE Kept
  BY <1>11 DEF claimReaper, ReaperAt, Won, PoolTypeOK, EntryTells, TornDownOnce, Early
<1>12. ASSUME NEW u \in User, reapMaxUptime(u) PROVE Kept
  BY <1>12, Zenon DEF reapMaxUptime, ReaperAt, TearDown, DockerIs, DockerFails, PoolTypeOK, EntryTells, TornDownOnce, Early
<1>13. ASSUME NEW u \in User, claimRelease(u) PROVE Kept
  BY <1>13 DEF claimRelease, UserAt, Won, PoolTypeOK, EntryTells, TornDownOnce, Early
<1>14. ASSUME NEW u \in User, ReleaseStops(u) PROVE Kept
  BY <1>14 DEF ReleaseStops, UserAt, TearDown, DockerIs, DockerFails, PoolTypeOK, EntryTells, TornDownOnce, Early
<1>15. ASSUME NEW u \in User, forgetTeardown(u) PROVE Kept
  BY <1>15, Zenon DEF forgetTeardown, UserAt, PoolTypeOK, EntryTells, TornDownOnce, Early
<1>16. ASSUME NEW u \in User, Released(u) PROVE Kept
  BY <1>16, Zenon DEF Released, UserAt, PoolTypeOK, EntryTells, TornDownOnce, Early
<1>17. CASE Close
  BY <1>17, Zenon DEF Close, PoolTypeOK, EntryTells, TornDownOnce, Early
<1>18. CASE recoverOrphans
  BY <1>18, Zenon DEF recoverOrphans, PoolTypeOK, EntryTells, TornDownOnce, Early
<1>19. ASSUME NEW s \in Settings, Configure(s) PROVE Kept
  BY <1>19, Zenon DEF Configure, PoolTypeOK, EntryTells, TornDownOnce, Early
<1>20. CASE UNCHANGED poolVars
  BY <1>20, Zenon DEF poolVars, PoolTypeOK, EntryTells, TornDownOnce, Early
<1> QED BY <1>1, <1>2, <1>3, <1>4, <1>5, <1>6, <1>7, <1>8, <1>9, <1>10, <1>11, <1>12, <1>13, <1>14, <1>15, <1>16, <1>17, <1>18, <1>19, <1>20, Zenon DEF PoolNext, UserStep, ReaperStep

\* Who has stopped the container has left none.
LEMMA PoolStops == ASSUME PoolInv, [PoolNext]_poolVars PROVE StopTells'
<1> DEFINE Kept == StopTells'
<1> USE DEF PoolInv
<1>1. ASSUME NEW u \in User, Acquire(u) PROVE Kept
  BY <1>1, Zenon DEF Acquire, UserAt, PoolTypeOK, EntryTells, StopTells, Early
<1>2. ASSUME NEW u \in User, ensureImage(u) PROVE Kept
  BY <1>2 DEF ensureImage, UserAt, DockerFails, PoolTypeOK, EntryTells, StopTells, Early
<1>3. ASSUME NEW u \in User, reserve(u) PROVE Kept
  BY <1>3 DEF reserve, UserAt, PoolTypeOK, EntryTells, StopTells, Early
<1>4. ASSUME NEW u \in User, ContainerCreate(u) PROVE Kept
  BY <1>4, SMTT(30) DEF ContainerCreate, UserAt, DockerIs, DockerFails, PoolTypeOK, EntryTells, StopTells, Early
<1>5. ASSUME NEW u \in User, ContainerStart(u) PROVE Kept
  BY <1>5 DEF ContainerStart, UserAt, DockerIs, DockerFails, PoolTypeOK, EntryTells, StopTells, Early
<1>6. ASSUME NEW u \in User, StartFailed(u) PROVE Kept
  BY <1>6 DEF StartFailed, UserAt, DockerIs, DockerFails, PoolTypeOK, EntryTells, StopTells, Early
<1>7. ASSUME NEW u \in User, armMaxUptime(u) PROVE Kept
  BY <1>7 DEF armMaxUptime, UserAt, ReaperAt, PoolTypeOK, EntryTells, StopTells, Early
<1>8. ASSUME NEW u \in User, Release(u) PROVE Kept
  BY <1>8, Zenon DEF Release, UserAt, PoolTypeOK, EntryTells, StopTells, Early
<1>9. ASSUME NEW u \in User, ContainerExits(u) PROVE Kept
  BY <1>9, Zenon DEF ContainerExits, DockerIs, PoolTypeOK, EntryTells, StopTells, Early
<1>10. ASSUME NEW u \in User, TimerFires(u) PROVE Kept
  BY <1>10, Zenon DEF TimerFires, ReaperAt, PoolTypeOK, EntryTells, StopTells, Early
<1>11. ASSUME NEW u \in User, claimReaper(u) PROVE Kept
  BY <1>11 DEF claimReaper, ReaperAt, Won, PoolTypeOK, EntryTells, StopTells, Early
<1>12. ASSUME NEW u \in User, reapMaxUptime(u) PROVE Kept
  BY <1>12 DEF reapMaxUptime, ReaperAt, TearDown, DockerIs, DockerFails, PoolTypeOK, EntryTells, StopTells, Early
<1>13. ASSUME NEW u \in User, claimRelease(u) PROVE Kept
  BY <1>13 DEF claimRelease, UserAt, Won, PoolTypeOK, EntryTells, StopTells, Early
<1>14. ASSUME NEW u \in User, ReleaseStops(u) PROVE Kept
  BY <1>14 DEF ReleaseStops, UserAt, TearDown, DockerIs, DockerFails, PoolTypeOK, EntryTells, StopTells, Early
<1>15. ASSUME NEW u \in User, forgetTeardown(u) PROVE Kept
  BY <1>15, Zenon DEF forgetTeardown, UserAt, PoolTypeOK, EntryTells, StopTells, Early
<1>16. ASSUME NEW u \in User, Released(u) PROVE Kept
  BY <1>16, Zenon DEF Released, UserAt, PoolTypeOK, EntryTells, StopTells, Early
<1>17. CASE Close
  BY <1>17 DEF Close, Removed, Present, DockerFails, PoolTypeOK, EntryTells, StopTells, Early
<1>18. CASE recoverOrphans
  BY <1>18, Zenon DEF recoverOrphans, DockerFails, StopTells
<1>19. ASSUME NEW s \in Settings, Configure(s) PROVE Kept
  BY <1>19, Zenon DEF Configure, PoolTypeOK, EntryTells, StopTells, Early
<1>20. CASE UNCHANGED poolVars
  BY <1>20, Zenon DEF poolVars, PoolTypeOK, EntryTells, StopTells, Early
<1> QED BY <1>1, <1>2, <1>3, <1>4, <1>5, <1>6, <1>7, <1>8, <1>9, <1>10, <1>11, <1>12, <1>13, <1>14, <1>15, <1>16, <1>17, <1>18, <1>19, <1>20, Zenon DEF PoolNext, UserStep, ReaperStep

\* The inductive invariant of the pool.
LEMMA PoolInvariant == PoolSpec => []PoolInv
<1>1. PoolInv /\ [PoolNext]_poolVars => PoolInv'
  BY PoolCounts, PoolTypes, PoolCaps, PoolTears, PoolStops, Zenon DEF PoolInv
<1> QED BY PoolInitInv, <1>1, PTL DEF PoolSpec

\* Active counts exactly the containers acquired and not yet released, through
\* every failure of Acquire and both outcomes of the teardown race.
THEOREM CountIsExact == PoolSpec => []ActiveIsHeld
<1>1. PoolInv => ActiveIsHeld
  BY Zenon DEF PoolInv
<1> QED BY PoolInvariant, <1>1, PTL

\* Until an operator changes max_concurrency, no interleaving of acquires passes it.
THEOREM CapIsKept == PoolSpec => []CapHolds
<1>1. PoolInv => CapHolds
  BY Zenon DEF PoolInv
<1> QED BY PoolInvariant, <1>1, PTL

\* reapMaxUptime and Release never both tear a container down.
THEOREM OneTeardown == PoolSpec => []TornDownOnce
<1>1. PoolInv => TornDownOnce
  BY Zenon DEF PoolInv
<1> QED BY PoolInvariant, <1>1, PTL

\* Whoever wins the race, a released container is gone where Docker refused
\* nothing, or the callback that won is still at it.
THEOREM ReleaseLeavesNone == PoolSpec => []ReleasedIsGone
<1>1. PoolInv => ReleasedIsGone
  BY Zenon DEF PoolInv, StopTells, ReleasedIsGone
<1> QED BY PoolInvariant, <1>1, PTL
-----------------------------------------------------------------------------
(***************************************************************************)
(* The supervisor of a channel                                             *)
(***************************************************************************)

\* The instance keeps a cancel function exactly while a run is in flight, and
\* the loop holds one only while it may still end that run.
InFlightTells ==
    /\ inFlight <=> sup.pc \in Running \cup {"ended"}
    /\ loop.pc = "cancel" => inFlight

\* A replaced channel is on its way out wherever the supervisor stands: at a run,
\* its context has ended or is about to; behind it, the restart is pending, then
\* seen; after that, the token is there or about to be.
ReplacementIsKnown ==
    /\ sup.pc \in Running /\ channel # sup.took => pending /\ (cut \/ loop.pc = "cancel")
    /\ sup.pc = "ended" /\ channel # sup.took => pending
    /\ sup.pc = "stop" /\ ~sup.down /\ channel # sup.took => sup.restart \/ notify \/ loop.pc = "notify"
    /\ sup.pc \in {"park", "retry"} /\ channel # sup.took => notify \/ loop.pc = "notify"
    /\ sup.pc = "disabled" /\ channel # Off => notify \/ loop.pc = "notify"

\* A run starts only with an attempt left.
AttemptLeft == sup.pc \in Running \cup {"top", "retry"} => sup.attempts < MaxAttempts

SupInv == SupTypeOK /\ InFlightTells /\ ReplacementIsKnown /\ AttemptLeft

\* The record of the supervisor.
SupRec == [pc : SupPc, took : Version, attempts : 0 .. MaxAttempts, failed : BOOLEAN,
           restart : BOOLEAN, down : BOOLEAN]

\* What the updates of the record that change several fields leave.
LEMMA SupRecord ==
    ASSUME NEW s \in SupRec, NEW pc \in SupPc
    PROVE  /\ \A v \in Version : [s EXCEPT !.pc = pc, !.took = v] \in SupRec
           /\ \A a \in 0 .. MaxAttempts : [s EXCEPT !.pc = pc, !.attempts = a] \in SupRec
           /\ \A a \in 0 .. MaxAttempts, f \in BOOLEAN : [s EXCEPT !.pc = pc, !.failed = f, !.attempts = a] \in SupRec
           /\ \A a : [s EXCEPT !.pc = pc, !.attempts = a].attempts = a
BY Zenon DEF SupRec

\* The run that is taken and the run that has returned are records again.
LEMMA SupRecordSteps ==
    ASSUME SupTypeOK
    PROVE  /\ Take => sup' \in SupRec
           /\ \A failed \in BOOLEAN : StartReturns(failed) /\ sup.attempts < MaxAttempts => sup' \in SupRec
<1>1. sup \in SupRec /\ channel \in Version /\ sup.attempts \in 0 .. MaxAttempts
  BY Zenon DEF SupTypeOK, SupRec
<1>2. {"run", "disabled", "ended"} \subseteq SupPc
  BY Zenon DEF SupPc, Running
<1>3. sup.attempts < MaxAttempts => sup.attempts + 1 \in 0 .. MaxAttempts
  BY <1>1, SupervisorAssumption
<1>4. ASSUME Take PROVE sup' \in SupRec
  <2>1. CASE channel = Off
    BY <1>1, <1>2, <1>4, <2>1, Zenon DEF Take, SupAt, SupRec
  <2>2. CASE channel # Off
    <3>1. sup' = [sup EXCEPT !.pc = "run", !.took = channel]
      BY <1>4, <2>2, Zenon DEF Take
    <3> QED BY <1>1, <1>2, <3>1, SupRecord, Zenon
  <2> QED BY <2>1, <2>2, Zenon
<1>5. ASSUME NEW failed \in BOOLEAN, StartReturns(failed), sup.attempts < MaxAttempts PROVE sup' \in SupRec
  <2>1. sup' = [sup EXCEPT !.pc = "ended", !.failed = failed, !.attempts = sup.attempts + 1]
    BY <1>1, <1>5, Zenon DEF StartReturns, SupRec
  <2> QED BY <1>1, <1>2, <1>3, <1>5, <2>1, SupRecord, Zenon
<1> QED BY <1>4, <1>5, Zenon

\* The supervisor starts with the channel off and nothing to tell it.
LEMMA SupInitInv == SupInit => SupInv
<1> SUFFICES ASSUME SupInit PROVE SupInv
  BY Zenon
<1> USE SupervisorAssumption DEF SupInit, Version, Off
<1>0. sup \in SupRec
  BY DEF SupRec, SupPc
<1>1. SupTypeOK
  BY <1>0, Zenon DEF SupRec, SupTypeOK, LoopPc
<1>2. InFlightTells /\ ReplacementIsKnown /\ AttemptLeft
  BY DEF InFlightTells, ReplacementIsKnown, AttemptLeft, Running
<1> QED BY <1>1, <1>2, Zenon DEF SupInv

\* The reconcile loop's steps keep the invariant.
LEMMA ReconcileKeeps == ASSUME SupInv, Reconcile PROVE SupInv'
<1> USE SupervisorAssumption
    DEF SupInv, SupTypeOK, InFlightTells, ReplacementIsKnown, AttemptLeft, Version, Off, LoopPc, SupPc, Running,
        LoopAt, Applied, Unapplied, Told
<1>1. CASE reconcileOnce
  BY <1>1, SMTT(30) DEF reconcileOnce
<1>2. CASE disableChannel
  BY <1>2 DEF disableChannel
<1>3. CASE setChannelState
  BY <1>3 DEF setChannelState
<1>4. CASE CancelRun
  BY <1>4 DEF CancelRun
<1>5. CASE Wake
  BY <1>5 DEF Wake
<1>6. CASE awaitChannelActive
  BY <1>6 DEF awaitChannelActive
<1> QED BY <1>1, <1>2, <1>3, <1>4, <1>5, <1>6, Zenon DEF Reconcile

\* The supervisor's own steps keep the types.
LEMMA SuperviseTypes == ASSUME SupInv, Supervise PROVE SupTypeOK'
<1> USE DEF SupInv
<1>0. sup \in SupRec /\ 0 \in 0 .. MaxAttempts /\ pending \in BOOLEAN /\ closing \in BOOLEAN /\ loop \in [pc : LoopPc, next : Version]
  BY SupervisorAssumption DEF SupTypeOK, SupRec
<1>1. ASSUME sup' \in SupRec, loop' \in [pc : LoopPc, next : Version], inFlight' \in BOOLEAN, pending' \in BOOLEAN,
             supervised' \in BOOLEAN, notify' \in BOOLEAN, cut' \in BOOLEAN,
             chanState' \in {"stopped", "starting", "running", "failed"}, UNCHANGED <<stored, config, channel, closing>>
      PROVE  SupTypeOK'
  BY <1>1, Zenon DEF SupTypeOK, SupRec
<1>2. \A pc \in SupPc : [sup EXCEPT !.pc = pc] \in SupRec
  BY <1>0, Zenon DEF SupRec
<1>3. /\ "top" \in SupPc /\ "exit" \in SupPc /\ "gone" \in SupPc /\ "park" \in SupPc /\ "retry" \in SupPc /\ "stop" \in SupPc
      /\ "spent" \in LoopPc
  BY Zenon DEF SupPc, LoopPc
<1>3a. [sup EXCEPT !.pc = "top", !.attempts = 0] \in SupRec
  BY <1>0, <1>3, SupRecord, Zenon
<1>4. CASE Take
  <2>1. sup' \in SupRec
    BY <1>4, SupRecordSteps, Zenon
  <2> QED BY <1>1, <1>4, <2>1, Zenon DEF Take, SupTypeOK
<1>5. CASE Decide
  <2>1. sup' \in SupRec
    BY <1>0, <1>3, <1>5, Zenon DEF Decide, SupRec
  <2>2. loop' \in [pc : LoopPc, next : Version]
    BY <1>0, <1>3, <1>5, Zenon DEF Decide, Spent
  <2> QED BY <1>1, <1>5, <2>1, <2>2, Zenon DEF Decide, SupTypeOK
<1>6. CASE afterChannelRun
  <2>1. sup' \in SupRec
    <3>1. (\E pc \in SupPc : sup' = [sup EXCEPT !.pc = pc]) \/ sup' = [sup EXCEPT !.pc = "top", !.attempts = 0]
      BY <1>3, <1>6, Zenon DEF afterChannelRun, SupAt
    <3> QED BY <1>2, <1>3a, <3>1, Zenon
  <2>2. chanState' \in {"stopped", "starting", "running", "failed"}
    BY <1>6, Zenon DEF afterChannelRun, SupTypeOK
  <2> QED BY <1>1, <1>6, <2>1, <2>2, Zenon DEF afterChannelRun, SupTypeOK
<1>7. CASE awaitChannel
  <2>1. sup' \in SupRec
    <3>1. (\E pc \in SupPc : sup' = [sup EXCEPT !.pc = pc]) \/ sup' = [sup EXCEPT !.pc = "top", !.attempts = 0]
      BY <1>3, <1>7, Zenon DEF awaitChannel, SupAt
    <3> QED BY <1>2, <1>3a, <3>1, Zenon
  <2> QED BY <1>1, <1>7, <2>1, Zenon DEF awaitChannel, SupTypeOK
<1>8. CASE supervisorExits
  <2>1. sup' \in SupRec
    BY <1>2, <1>3, <1>8, Zenon DEF supervisorExits, SupAt
  <2> QED BY <1>1, <1>8, <2>1, Zenon DEF supervisorExits, SupTypeOK
<1> QED BY <1>4, <1>5, <1>6, <1>7, <1>8, Zenon DEF Supervise

\* The supervisor's own steps keep what it knows.
LEMMA SuperviseKeeps == ASSUME SupInv, Supervise PROVE SupInv'
<1> USE DEF SupInv
<1>0. SupTypeOK' /\ sup \in SupRec /\ sup.attempts \in 0 .. MaxAttempts /\ MaxAttempts \in Nat \ {0}
  BY SuperviseTypes, SupervisorAssumption, Zenon DEF SupTypeOK, SupRec
<1>1. CASE Take
  <2>1. CASE channel = Off
    <3>1. sup'.pc = "disabled" /\ sup.pc = "top" /\ UNCHANGED <<inFlight, channel, loop, notify, pending, cut>>
      BY <1>0, <1>1, <2>1, Zenon DEF Take, SupAt, SupRec
    <3> QED BY <1>0, <2>1, <3>1, Zenon DEF InFlightTells, ReplacementIsKnown, AttemptLeft, Running
  <2>2. CASE channel # Off
    <3>1. sup'.pc = "run" /\ sup'.took = channel /\ sup'.attempts = sup.attempts /\ sup.pc = "top"
      BY <1>0, <1>1, <2>2, Zenon DEF Take, SupRec
    <3>2. inFlight' /\ UNCHANGED <<channel, loop, notify, pending>>
      BY <1>1, <2>2, Zenon DEF Take
    <3> QED BY <1>0, <3>1, <3>2, Zenon DEF InFlightTells, ReplacementIsKnown, AttemptLeft, Running
  <2> QED BY <2>1, <2>2, Zenon
<1>2. CASE Decide
  <2>1. sup'.pc = "stop" /\ sup'.restart = pending /\ sup'.took = sup.took /\ sup.pc = "ended"
    BY <1>0, <1>2, Zenon DEF Decide, SupRec
  <2>2. ~inFlight' /\ loop'.pc # "cancel" /\ UNCHANGED <<channel, notify>>
    BY <1>2, Zenon DEF Decide, Spent, SupTypeOK
  <2> QED BY <1>0, <2>1, <2>2, Zenon DEF InFlightTells, ReplacementIsKnown, AttemptLeft, Running
<1>3. CASE afterChannelRun
  <2>0. sup.pc = "stop" /\ sup'.took = sup.took /\ UNCHANGED <<loop, channel, inFlight, pending, notify, cut>>
    BY <1>0, <1>3, Zenon DEF afterChannelRun, SupAt, SupRec
  <2>1. CASE sup.down /\ SupAt("exit")
    <3>1. sup'.pc = "exit"
      BY <1>0, <2>1, Zenon DEF SupAt, SupRec
    <3> QED BY <1>0, <2>0, <3>1, Zenon DEF InFlightTells, ReplacementIsKnown, AttemptLeft, Running
  <2>2. CASE sup' = [sup EXCEPT !.pc = "top", !.attempts = 0]
    <3>1. sup'.pc = "top" /\ sup'.attempts = 0
      BY <1>0, <2>2, Zenon DEF SupRec
    <3> QED BY <1>0, <2>0, <3>1 DEF InFlightTells, ReplacementIsKnown, AttemptLeft, Running
  <2>3. CASE ~sup.down /\ ~sup.restart /\ SupAt("park")
    <3>1. sup'.pc = "park"
      BY <1>0, <2>3, Zenon DEF SupAt, SupRec
    <3> QED BY <1>0, <2>0, <2>3, <3>1, Zenon DEF InFlightTells, ReplacementIsKnown, AttemptLeft, Running
  <2>4. CASE ~sup.down /\ ~sup.restart /\ ~(sup.attempts >= MaxAttempts) /\ SupAt("retry")
    <3>1. sup'.pc = "retry" /\ sup'.attempts = sup.attempts
      BY <1>0, <2>4, Zenon DEF SupAt, SupRec
    <3> QED BY <1>0, <2>0, <2>4, <3>1 DEF InFlightTells, ReplacementIsKnown, AttemptLeft, Running
  <2> QED BY <1>3, <2>1, <2>2, <2>3, <2>4, Zenon DEF afterChannelRun
<1>4. CASE awaitChannel
  <2>0. sup.pc \in {"park", "retry", "disabled"} /\ UNCHANGED <<loop, channel, inFlight, pending, cut>>
    BY <1>4, Zenon DEF awaitChannel
  <2>1. CASE SupAt("exit") \/ (sup.pc = "retry" /\ SupAt("top"))
    <3>1. sup'.pc = "exit" \/ (sup'.pc = "top" /\ sup.pc = "retry" /\ sup'.attempts = sup.attempts)
      BY <1>0, <2>1, Zenon DEF SupAt, SupRec
    <3> QED BY <1>0, <2>0, <3>1, Zenon DEF InFlightTells, ReplacementIsKnown, AttemptLeft, Running
  <2>2. CASE sup' = [sup EXCEPT !.pc = "top", !.attempts = 0]
    <3>1. sup'.pc = "top" /\ sup'.attempts = 0
      BY <1>0, <2>2, Zenon DEF SupRec
    <3> QED BY <1>0, <2>0, <3>1 DEF InFlightTells, ReplacementIsKnown, AttemptLeft, Running
  <2>3. (SupAt("exit") \/ (sup.pc = "retry" /\ SupAt("top"))) \/ sup' = [sup EXCEPT !.pc = "top", !.attempts = 0]
    BY <1>4, Zenon DEF awaitChannel
  <2> QED BY <2>1, <2>2, <2>3, Zenon
<1>5. CASE supervisorExits
  <2>1. sup.pc = "exit" /\ sup'.pc = "gone" /\ UNCHANGED <<loop, channel, inFlight, pending, cut>>
    BY <1>0, <1>5, Zenon DEF supervisorExits, SupAt, SupRec
  <2> QED BY <1>0, <2>1, Zenon DEF InFlightTells, ReplacementIsKnown, AttemptLeft, Running
<1> QED BY <1>1, <1>2, <1>3, <1>4, <1>5, Zenon DEF Supervise

\* What the channel, the store and the shutdown do keeps the invariant.
LEMMA OthersKeep ==
    ASSUME SupInv, Reports \/ Shutdown \/ (\E v \in Version : StoreSettings(v)) \/ \E failed \in BOOLEAN : StartReturns(failed)
    PROVE  SupInv'
<1> USE DEF SupInv
<1>0. /\ sup \in SupRec /\ {"starting", "serving"} \subseteq SupPc
      /\ \A pc \in SupPc : [sup EXCEPT !.pc = pc] \in SupRec
  BY Zenon DEF SupTypeOK, SupRec, SupPc, Running
<1>1. CASE Reports
  <2>1. sup' \in SupRec /\ sup'.attempts = sup.attempts /\ sup'.took = sup.took /\ sup.pc \in Running /\ sup'.pc \in Running
    BY <1>0, <1>1, Zenon DEF Reports, SupAt, SupRec, Running
  <2>2. chanState' \in {"starting", "running"} /\ UNCHANGED <<stored, config, loop, channel, inFlight, pending, supervised, notify, cut, closing>>
    BY <1>1, Zenon DEF Reports
  <2>3. SupTypeOK'
    BY <2>1, <2>2, Zenon DEF SupTypeOK, SupRec
  <2> QED BY <2>1, <2>2, <2>3, Zenon DEF InFlightTells, ReplacementIsKnown, AttemptLeft, Running
<1>2. CASE Shutdown
  <2>1. closing' \in BOOLEAN /\ cut' /\ cut' \in BOOLEAN
        /\ UNCHANGED <<stored, config, loop, channel, inFlight, pending, supervised, notify, sup, chanState>>
    BY <1>2, Zenon DEF Shutdown
  <2>2. SupTypeOK'
    BY <2>1, Zenon DEF SupTypeOK
  <2>3. InFlightTells' /\ AttemptLeft'
    BY <2>1, Zenon DEF InFlightTells, AttemptLeft
  <2>4. ReplacementIsKnown'
    BY <2>1, Zenon DEF ReplacementIsKnown
  <2> QED BY <2>2, <2>3, <2>4, Zenon
<1>3. ASSUME NEW v \in Version, StoreSettings(v) PROVE SupInv'
  <2>1. stored' \in [value : Version, count : Version]
    BY <1>3, SupervisorAssumption DEF StoreSettings, SupTypeOK, Version
  <2>2. UNCHANGED <<config, loop, channel, inFlight, pending, supervised, notify, sup, cut, chanState, closing>>
    BY <1>3, Zenon DEF StoreSettings
  <2>3. SupTypeOK'
    BY <2>1, <2>2, Zenon DEF SupTypeOK
  <2> QED BY <2>2, <2>3, Zenon DEF InFlightTells, ReplacementIsKnown, AttemptLeft
<1>4. ASSUME NEW failed \in BOOLEAN, StartReturns(failed) PROVE SupInv'
  <2>1. sup' \in SupRec
    BY <1>4, SupRecordSteps, Zenon DEF StartReturns, AttemptLeft
  <2>2. sup.pc \in Running /\ sup'.pc = "ended" /\ sup'.took = sup.took
    BY <1>0, <1>4, Zenon DEF StartReturns, SupRec
  <2>3. UNCHANGED <<stored, config, loop, channel, inFlight, pending, supervised, notify, cut, chanState, closing>>
    BY <1>4, Zenon DEF StartReturns
  <2>4. SupTypeOK'
    BY <2>1, <2>3, Zenon DEF SupTypeOK, SupRec
  <2> QED BY <2>2, <2>3, <2>4, Zenon DEF InFlightTells, ReplacementIsKnown, AttemptLeft, Running
<1> QED BY <1>1, <1>2, <1>3, <1>4, Zenon

\* The inductive invariant of the supervisor.
LEMMA SupInvariant == SupSpec => []SupInv
<1>1. SupInv /\ UNCHANGED supVars => SupInv'
  BY SMTT(30) DEF SupInv, SupTypeOK, InFlightTells, ReplacementIsKnown, AttemptLeft, supVars
<1>2. SupInv /\ [SupNext]_supVars => SupInv'
  BY <1>1, ReconcileKeeps, SuperviseKeeps, OthersKeep, Zenon DEF SupNext
<1> QED BY SupInitInv, <1>2, PTL DEF SupSpec

\* A replacement handed over at whatever moment is never lost: a replaced run is
\* being ended and its supervisor will see the restart, and one that waits
\* without a timer has its token or is about to be sent it.
THEOREM RestartIsNotLost == SupSpec => []NoLostRestart
<1>1. SupInv => NoLostRestart
  BY Zenon DEF SupInv, ReplacementIsKnown, NoLostRestart, Took
<1> QED BY SupInvariant, <1>1, PTL
-----------------------------------------------------------------------------
(***************************************************************************)
(* Workflow calls                                                          *)
(***************************************************************************)

ExecRow == [status : Status \cup Absent, parent : Nat, key : Nat, depth : 0 .. MaxCallDepth, retries : Nat]
Callee == 0 .. MaxExecs
EnginePc == {"start", "record", "await", "unwaited", "close", "park", "finish"}
EngineRec == [pc : EnginePc, site : Nat, callee : Callee, ok : BOOLEAN, cut : BOOLEAN]
Engines == [Exec -> EngineRec \cup {Asleep}]
CancelRec == [todo : Seq(Exec), to : {"none", "parked", "closed_wont_do"}, root : Nat, failed : BOOLEAN]

CallsTypes ==
    /\ plan \in Plans /\ exec \in Seq(ExecRow) /\ Len(exec) <= MaxExecs
    /\ engine \in Engines /\ callStep \in [Exec -> Callee] /\ cancel \in CancelRec

\* A cancel that has met no error owes only the callee it is about to come to.
CancelOwes ==
    /\ Len(cancel.todo) <= 1
    /\ cancel.todo = <<>> /\ ~cancel.failed => owed = {}
    /\ cancel.todo # <<>> => owed \subseteq {Head(cancel.todo)}

CallsInv == CallsTypes /\ OneLiveChild /\ CancelOwes

\* The rows are executions.
LEMMA RowsAreExec == ASSUME CallsTypes PROVE Rows = 1 .. Len(exec) /\ Rows \subseteq Exec /\ Len(exec) \in Nat
BY CallsAssumption DEF CallsTypes, Rows, Exec

\* One execution is queued and nothing is called.
LEMMA CallsInitInv == CallsInit => CallsInv
<1> SUFFICES ASSUME CallsInit PROVE CallsInv
  BY Zenon
<1>1. Row(0, 0, 0) \in ExecRow
  BY CallsAssumption DEF Row, ExecRow, Status
<1>2. exec = <<Row(0, 0, 0)>> /\ exec \in Seq(ExecRow) /\ Len(exec) = 1 /\ Rows = {1}
  BY <1>1 DEF CallsInit, Rows
<1>3. cancel \in CancelRec /\ cancel.todo = <<>> /\ Len(cancel.todo) = 0
  BY DEF CallsInit, NoCancel, CancelRec
<1>4. engine \in Engines /\ callStep \in [Exec -> Callee]
  BY CallsAssumption DEF CallsInit, Engines, Callee
<1>5. CallsTypes
  BY <1>2, <1>3, <1>4, CallsAssumption DEF CallsTypes, CallsInit
<1>6. CancelOwes
  BY <1>3 DEF CallsInit, CancelOwes
<1>7. OneLiveChild
  BY <1>2, Zenon DEF OneLiveChild
<1> QED BY <1>5, <1>6, <1>7, Zenon DEF CallsInv

\* A run that is under way stays a run, wherever it goes next.
LEMMA EngineMoves ==
    ASSUME CallsTypes, NEW t \in Rows, engine[t].pc \in EnginePc
    PROVE  /\ \A pc \in EnginePc : Goto(t, pc) \in Engines /\ Goto(t, pc)[t] \in EngineRec
           /\ \A pc \in EnginePc, c \in Callee : [Goto(t, pc) EXCEPT ![t].callee = c] \in Engines
           /\ \A pc \in EnginePc, ok \in BOOLEAN : [Goto(t, pc) EXCEPT ![t].ok = ok] \in Engines
           /\ StageFails(t) \in Engines
           /\ Passed(t) \in Engines /\ [Passed(t) EXCEPT ![t].ok = FALSE] \in Engines
           /\ [engine EXCEPT ![t] = Asleep] \in Engines
           /\ engine[t] \in EngineRec
<1>1. t \in Exec /\ engine[t] \in EngineRec
  BY RowsAreExec DEF CallsTypes, Engines, Asleep, EnginePc
<1>2. \A pc \in EnginePc : [engine[t] EXCEPT !.pc = pc] \in EngineRec
  BY <1>1, Zenon DEF EngineRec
<1>3. \A r \in EngineRec : [engine EXCEPT ![t] = r] \in Engines /\ [engine EXCEPT ![t] = r][t] = r
  BY <1>1, Zenon DEF CallsTypes, Engines
<1>4. \A pc \in EnginePc : Goto(t, pc) = [engine EXCEPT ![t] = [engine[t] EXCEPT !.pc = pc]]
  BY Zenon DEF Goto
<1>5. \A pc \in EnginePc : Goto(t, pc) \in Engines /\ Goto(t, pc)[t] \in EngineRec
  BY <1>2, <1>3, <1>4
<1>6. \A f \in Engines : f[t] \in EngineRec =>
         /\ \A c \in Callee : [f EXCEPT ![t].callee = c] \in Engines
         /\ \A ok \in BOOLEAN : [f EXCEPT ![t].ok = ok] \in Engines
  <2> SUFFICES ASSUME NEW f \in Engines, f[t] \in EngineRec
               PROVE  /\ \A c \in Callee : [f EXCEPT ![t].callee = c] \in Engines
                      /\ \A ok \in BOOLEAN : [f EXCEPT ![t].ok = ok] \in Engines
    BY Zenon
  <2>1. \A c \in Callee : [f[t] EXCEPT !.callee = c] \in EngineRec
    BY Zenon DEF EngineRec
  <2>2. \A ok \in BOOLEAN : [f[t] EXCEPT !.ok = ok] \in EngineRec
    BY Zenon DEF EngineRec
  <2> QED BY <1>1, <2>1, <2>2, Zenon DEF Engines
<1>7. [engine EXCEPT ![t] = Asleep] \in Engines
  BY <1>1, Zenon DEF CallsTypes, Engines
<1>8. StageFails(t) \in Engines
  BY <1>5, <1>7, Zenon DEF StageFails, EnginePc
<1>9. Passed(t) \in Engines /\ Passed(t)[t] \in EngineRec
  <2>1. Goto(t, "start") \in Engines /\ Goto(t, "start")[t] \in EngineRec
    BY <1>5, Zenon DEF EnginePc
  <2>2. [Goto(t, "start")[t] EXCEPT !.site = @ + 1] \in EngineRec
    BY <2>1 DEF EngineRec
  <2>3. /\ [Goto(t, "start") EXCEPT ![t].site = @ + 1] \in Engines
        /\ [Goto(t, "start") EXCEPT ![t].site = @ + 1][t] \in EngineRec
    BY <1>1, <2>1, <2>2, Zenon DEF Engines
  <2> QED BY <1>5, <2>3, Zenon DEF Passed, EnginePc
<1> QED BY <1>1, <1>5, <1>6, <1>7, <1>8, <1>9, Zenon

\* A row moves, but a child that has freed its key stays freed: no call site
\* gets a second live child by it.
Moves(a, b) ==
    \A t \in DOMAIN a :
        /\ b[t].parent = a[t].parent /\ b[t].key = a[t].key
        /\ a[t].status \in Freed => b[t].status \in Freed

LEMMA MovesKeep ==
    ASSUME CallsTypes, OneLiveChild, DOMAIN exec' = DOMAIN exec, Moves(exec, exec')
    PROVE  OneLiveChild'
BY Zenon DEF OneLiveChild, Moves, Rows

\* The status of one row is set.
LEMMA StatusMoves ==
    ASSUME CallsTypes, NEW t, NEW s \in Status \cup Absent, t \in Rows /\ exec[t].status \in Freed => s \in Freed
    PROVE  LET e == [exec EXCEPT ![t].status = s]
           IN  e \in Seq(ExecRow) /\ Len(e) = Len(exec) /\ DOMAIN e = DOMAIN exec /\ Moves(exec, e)
<1> DEFINE e == [exec EXCEPT ![t].status = s]
<1>1. DOMAIN exec = 1 .. Len(exec) /\ Len(exec) \in Nat /\ \A u \in DOMAIN exec : exec[u] \in ExecRow
  BY RowsAreExec DEF CallsTypes, Rows
<1>2. \A r \in ExecRow : [r EXCEPT !.status = s] \in ExecRow
  BY Zenon DEF ExecRow
<1>3. DOMAIN e = DOMAIN exec /\ \A u \in DOMAIN exec : e[u] = IF u = t THEN [exec[u] EXCEPT !.status = s] ELSE exec[u]
  BY <1>1, Zenon DEF CallsTypes
<1>4. e \in [1 .. Len(exec) -> ExecRow]
  BY <1>1, <1>2, <1>3, Zenon
<1>5. e \in Seq(ExecRow) /\ Len(e) = Len(exec)
  BY <1>1, <1>4
<1>6. \A u \in DOMAIN exec : /\ e[u].parent = exec[u].parent /\ e[u].key = exec[u].key
                             /\ exec[u].status \in Freed => e[u].status \in Freed
  BY <1>1, <1>3, Zenon DEF ExecRow, Rows
<1> QED BY <1>3, <1>5, <1>6, Zenon DEF Moves

\* The retries of one row are set.
LEMMA RetriesMove ==
    ASSUME CallsTypes, NEW t, NEW n \in Nat, NEW d \in Seq(ExecRow), Len(d) = Len(exec), Moves(exec, d)
    PROVE  LET e == [d EXCEPT ![t].retries = n]
           IN  e \in Seq(ExecRow) /\ Len(e) = Len(exec) /\ DOMAIN e = DOMAIN exec /\ Moves(exec, e)
<1> DEFINE e == [d EXCEPT ![t].retries = n]
<1>1. DOMAIN d = 1 .. Len(d) /\ Len(d) \in Nat /\ DOMAIN exec = DOMAIN d /\ \A u \in DOMAIN d : d[u] \in ExecRow
  BY DEF CallsTypes
<1>2. \A r \in ExecRow : [r EXCEPT !.retries = n] \in ExecRow
  BY Zenon DEF ExecRow
<1>3. DOMAIN e = DOMAIN d /\ \A u \in DOMAIN d : e[u] = IF u = t THEN [d[u] EXCEPT !.retries = n] ELSE d[u]
  BY <1>1, Zenon
<1>4. e \in [1 .. Len(d) -> ExecRow]
  BY <1>1, <1>2, <1>3, Zenon
<1>5. e \in Seq(ExecRow) /\ Len(e) = Len(exec)
  BY <1>1, <1>4
<1>6. \A u \in DOMAIN d : e[u].parent = d[u].parent /\ e[u].key = d[u].key /\ e[u].status = d[u].status
  BY <1>1, <1>3, Zenon DEF ExecRow
<1> QED BY <1>1, <1>3, <1>5, <1>6, Zenon DEF Moves

\* EnqueueCallTask gives a call site the child that holds its key, or a first one.
LEMMA CalledKeeps ==
    ASSUME CallsTypes, OneLiveChild, NEW t \in Rows, NEW key \in Nat, MayCall(t), Called(t, key)
    PROVE  exec' \in Seq(ExecRow) /\ Len(exec') <= MaxExecs /\ OneLiveChild'
<1>1. CASE exec' = exec
  BY <1>1, Zenon DEF CallsTypes, OneLiveChild, Rows
<1>2. CASE Keyed(t, key) = {} /\ Len(exec) < MaxExecs /\ exec' = Append(exec, Row(t, key, exec[t].depth + 1))
  <2>1. t \in Nat /\ Len(exec) \in Nat /\ exec[t] \in ExecRow /\ Rows = 1 .. Len(exec)
    BY RowsAreExec DEF CallsTypes
  <2>2. Row(t, key, exec[t].depth + 1) \in ExecRow
    BY <2>1, CallsAssumption, SMTT(30) DEF Row, ExecRow, MayCall, Status
  <2>3. exec' \in Seq(ExecRow) /\ Len(exec') = Len(exec) + 1
    BY <1>2, <2>2 DEF CallsTypes
  <2> DEFINE row == Row(t, key, exec[t].depth + 1)
  <2>4. Rows' = Rows \cup {Len(exec) + 1} /\ (\A c \in Rows : exec'[c] = exec[c]) /\ exec'[Len(exec) + 1] = row
    <3> HIDE DEF row
    <3>1. exec \in Seq(ExecRow) /\ row \in ExecRow /\ exec' = Append(exec, row)
      BY <1>2, <2>2, Zenon DEF row, CallsTypes
    <3>2. /\ \A c \in 1 .. Len(exec) : exec'[c] = exec[c]
          /\ exec'[Len(exec) + 1] = row
      BY <3>1, AppendProperties
    <3>3. Rows' = 1 .. Len(exec) + 1
      BY <2>3 DEF Rows
    <3> QED BY <2>1, <3>2, <3>3
  <2>5. row.parent = t /\ row.key = key
    BY Zenon DEF Row
  <2>6. exec'[Len(exec) + 1].parent = t /\ exec'[Len(exec) + 1].key = key
    BY <2>4, <2>5, Zenon
  <2>7. \A c \in Rows : exec[c].parent = t /\ exec[c].key = key => exec[c].status \in Freed
    BY <1>2, Zenon DEF Keyed, Freed
  <2>8. OneLiveChild'
    <3>1. ASSUME NEW c \in Rows', NEW d \in Rows', c # d, exec'[c].parent = exec'[d].parent, exec'[c].key = exec'[d].key
          PROVE  exec'[c].status \in Freed \/ exec'[d].status \in Freed
      <4>1. CASE c \in Rows /\ d \in Rows
        BY <2>4, <3>1, <4>1, Zenon DEF OneLiveChild
      <4>2. CASE c \in Rows /\ d = Len(exec) + 1
        BY <2>4, <2>6, <2>7, <3>1, <4>2, Zenon
      <4>3. CASE c = Len(exec) + 1 /\ d \in Rows
        BY <2>4, <2>6, <2>7, <3>1, <4>3, Zenon
      <4> QED BY <2>4, <3>1, <4>1, <4>2, <4>3, Zenon
    <3> QED BY <3>1, Zenon DEF OneLiveChild
  <2> QED BY <1>2, <2>1, <2>3, <2>8, CallsAssumption
<1> QED BY <1>1, <1>2, Zenon DEF Called

\* The callee is an execution.
LEMMA CalleeIsRow == ASSUME CallsTypes, NEW t, NEW key, Called(t, key) PROVE CalleeOf(t, key) \in Callee
<1>1. Keyed(t, key) \subseteq Callee
  BY RowsAreExec DEF Keyed, Exec, Callee
<1>2. Keyed(t, key) = {} => Len(exec) + 1 \in Callee
  BY RowsAreExec, CallsAssumption DEF Called, Callee
<1> QED BY <1>1, <1>2, Zenon DEF CalleeOf

\* Which statuses offer what moves a row on.
LEMMA OfferedActions ==
    ASSUME NEW s \in Status \cup Absent
    PROVE  /\ "retry" \in Actions(s) \/ "approve" \in Actions(s) => s \notin Freed
           /\ \A a \in Actions(s) \cap {"stop", "cancel", "reject", "abandon"} : ActionTarget(a) \in {"parked", "closed_wont_do"}
           /\ \A to : CanTransition(s, to) => s \notin Freed
<1>1. "retry" \in Actions(s) \/ "approve" \in Actions(s) => s \notin Freed
  BY Zenon DEF Actions, Freed, Status, Absent, Terminal
<1>2. \A a \in {"stop", "cancel", "reject", "abandon"} : ActionTarget(a) \in {"parked", "closed_wont_do"}
  BY Zenon DEF ActionTarget
<1>3. \A to : CanTransition(s, to) => s \notin Freed
  BY Zenon DEF CanTransition, executionTransitions, Freed
<1> QED BY <1>1, <1>2, <1>3, Zenon

\* A step that keeps the types, the children and what the cancel owes.
LEMMA KeptOwes == ASSUME CancelOwes, UNCHANGED <<cancel, owed>> PROVE CancelOwes'
BY Zenon DEF CancelOwes

\* The steps of a run up to its calls' ends keep the invariant.
LEMMA RunKeeps == ASSUME CallsInv, NEW t \in Rows, RunExec(t) PROVE CallsInv'
<1> USE DEF CallsInv
<1>0. t \in Exec /\ exec[t] \in ExecRow /\ callStep[t] \in Callee /\ exec[t].status \in Status \cup Absent
  <2>1. t \in Exec /\ exec[t] \in ExecRow /\ callStep[t] \in Callee
    BY RowsAreExec DEF CallsTypes
  <2> QED BY <2>1, Zenon DEF ExecRow
<1>1. CASE ClaimExec(t)
  <2>1. [pc |-> IF Sites(t) = <<>> THEN "finish" ELSE "start", site |-> 1,
         callee |-> 0, ok |-> FALSE, cut |-> FALSE] \in EngineRec
    BY CallsAssumption DEF EngineRec, EnginePc, Callee
  <2>2. engine' \in Engines /\ callStep' \in [Exec -> Callee]
    BY <1>0, <1>1, <2>1, CallsAssumption DEF ClaimExec, CallsTypes, Engines, Callee
  <2>3. exec' = [exec EXCEPT ![t].status = "running"] /\ exec[t].status \notin Freed
    BY <1>1, Zenon DEF ClaimExec, Freed
  <2>4. exec' \in Seq(ExecRow) /\ Len(exec') = Len(exec) /\ DOMAIN exec' = DOMAIN exec /\ Moves(exec, exec')
    BY <2>3, StatusMoves, Zenon DEF Status
  <2>5. CallsTypes'
    BY <1>1, <2>2, <2>4, Zenon DEF ClaimExec, CallsTypes
  <2> QED BY <1>1, <2>4, <2>5, MovesKeep, KeptOwes, Zenon DEF ClaimExec
<1>2. CASE StartCall(t)
  <2>1. engine[t].pc \in EnginePc
    BY <1>2, Zenon DEF StartCall, EnginePc
  <2>2. engine[t].site \in Nat
    BY <2>1, EngineMoves, Zenon DEF EngineRec
  <2>3. engine' \in Engines
    <3>1. CASE Called(t, engine[t].site) /\ engine' = [Goto(t, "record") EXCEPT ![t].callee = CalleeOf(t, engine[t].site)]
      <4>1. "record" \in EnginePc /\ CalleeOf(t, engine[t].site) \in Callee
        BY <3>1, CalleeIsRow, Zenon DEF EnginePc
      <4> QED BY <2>1, <3>1, <4>1, EngineMoves, Zenon
    <3>2. CASE engine' = StageFails(t)
      BY <2>1, <3>2, EngineMoves, Zenon
    <3> QED BY <1>2, <3>1, <3>2, Zenon DEF StartCall
  <2>4. exec' = exec \/ (MayCall(t) /\ Called(t, engine[t].site))
    BY <1>2, Zenon DEF StartCall
  <2>5. exec' \in Seq(ExecRow) /\ Len(exec') <= MaxExecs /\ OneLiveChild'
    <3>1. CASE exec' = exec
      BY <3>1, Zenon DEF CallsTypes, OneLiveChild, Rows
    <3> QED BY <2>2, <2>4, <3>1, CalledKeeps, Zenon
  <2> QED BY <1>2, <2>3, <2>5, KeptOwes, Zenon DEF StartCall, CallsTypes
<1>3. ASSUME engine[t].pc \in EnginePc, engine' \in Engines, callStep' \in [Exec -> Callee], UNCHANGED <<plan, exec, cancel, owed>>
      PROVE  CallsInv'
  <2>1. OneLiveChild'
    BY <1>3, Zenon DEF OneLiveChild, Rows
  <2> QED BY <1>3, <2>1, KeptOwes, Zenon DEF CallsTypes
<1>4. CASE StartCallStep(t)
  <2>1. engine[t].pc \in EnginePc
    BY <1>4, Zenon DEF StartCallStep, EnginePc
  <2>2. engine[t].callee \in Callee
    BY <2>1, EngineMoves, Zenon DEF EngineRec
  <2>3. callStep' \in [Exec -> Callee]
    BY <1>0, <1>4, <2>2, Zenon DEF StartCallStep, CallsTypes
  <2>4. engine' \in Engines
    BY <1>4, <2>1, EngineMoves, Zenon DEF StartCallStep, EnginePc
  <2> QED BY <1>3, <1>4, <2>1, <2>3, <2>4, Zenon DEF StartCallStep
<1>5. CASE CallStatus(t)
  <2>1. engine[t].pc \in EnginePc
    BY <1>5, Zenon DEF CallStatus, EnginePc
  <2>2. \A s : Verdict(s) \in BOOLEAN
    BY DEF Verdict
  <2>3. engine' \in Engines
    <3>1. \/ \E s : engine' = [Goto(t, "close") EXCEPT ![t].ok = Verdict(s)]
          \/ engine' = Goto(t, "close")
          \/ engine' = StageFails(t)
      BY <1>5, Zenon DEF CallStatus
    <3>2. "close" \in EnginePc
      BY Zenon DEF EnginePc
    <3>3. /\ \A ok \in BOOLEAN : [Goto(t, "close") EXCEPT ![t].ok = ok] \in Engines
          /\ Goto(t, "close") \in Engines /\ StageFails(t) \in Engines
      BY <2>1, <3>2, EngineMoves, Zenon
    <3> QED BY <2>2, <3>1, <3>3, Zenon
  <2> QED BY <1>3, <1>5, <2>1, <2>3, Zenon DEF CallStatus, CallsTypes
<1>6. Closed(t) \in [Exec -> Callee]
  BY <1>0, CallsAssumption, SMTT(30) DEF Closed, CallsTypes, Callee
<1>7. CASE FinishCallStep(t)
  <2>1. engine[t].pc \in EnginePc
    BY <1>7, Zenon DEF FinishCallStep, EnginePc
  <2>2. engine' \in Engines
    BY <1>7, <2>1, EngineMoves, Zenon DEF FinishCallStep
  <2>3. callStep' \in [Exec -> Callee]
    BY <1>6, <1>7, Zenon DEF FinishCallStep, CallsTypes
  <2> QED BY <1>3, <1>7, <2>1, <2>2, <2>3, Zenon DEF FinishCallStep
<1>8. CASE CloseUnwaitedCall(t)
  <2>1. engine[t].pc \in EnginePc
    BY <1>8, Zenon DEF CloseUnwaitedCall, EnginePc
  <2>2. engine' \in Engines
    BY <1>8, <2>1, EngineMoves, Zenon DEF CloseUnwaitedCall
  <2>3. callStep' \in [Exec -> Callee]
    BY <1>6, <1>8, Zenon DEF CloseUnwaitedCall, CallsTypes
  <2> QED BY <1>3, <1>8, <2>1, <2>2, <2>3, Zenon DEF CloseUnwaitedCall
<1>9. ASSUME NEW to \in Status, engine[t].pc \in EnginePc, Settle(t, to) PROVE CallsInv'
  <2>1. engine' \in Engines
    BY <1>9, EngineMoves, Zenon DEF Settle
  <2>2. PICK s \in Status \cup Absent : exec' = [exec EXCEPT ![t].status = s] /\ (exec[t].status \in Freed => s \in Freed)
    <3>1. CASE exec[t].status = "running"
      BY <1>0, <1>9, <3>1, Zenon DEF Settle, Freed
    <3>2. CASE exec[t].status # "running"
      <4>1. exec' = [exec EXCEPT ![t].status = exec[t].status]
        BY <1>0, <1>9, <3>2, Zenon DEF Settle, CallsTypes
      <4> QED BY <1>0, <4>1, Zenon
    <3> QED BY <3>1, <3>2, Zenon
  <2>3. exec' \in Seq(ExecRow) /\ Len(exec') = Len(exec) /\ DOMAIN exec' = DOMAIN exec /\ Moves(exec, exec')
    BY <2>2, StatusMoves, Zenon
  <2>4. CallsTypes'
    BY <1>9, <2>1, <2>3, Zenon DEF Settle, CallsTypes
  <2> QED BY <1>9, <2>3, <2>4, MovesKeep, KeptOwes, Zenon DEF Settle
<1>10. CASE ParkExec(t)
  BY <1>9, <1>10, Zenon DEF ParkExec, EnginePc, Status
<1>11. CASE FinishExec(t)
  <2>1. plan.ends[exec[t].depth] \subseteq Status
    BY <1>0, CallsAssumption, Zenon DEF CallsTypes, Plan, ExecRow, Status
  <2> QED BY <1>9, <1>11, <2>1, Zenon DEF FinishExec, EnginePc
<1> QED BY <1>1, <1>2, <1>4, <1>5, <1>7, <1>8, <1>10, <1>11, Zenon DEF RunExec

\* The cancel goes on to what is left of it.
LEMMA CancelRecord ==
    ASSUME NEW c \in CancelRec, NEW q \in Seq(Exec)
    PROVE  /\ [c EXCEPT !.todo = q] \in CancelRec /\ [c EXCEPT !.todo = q].todo = q
           /\ [c EXCEPT !.todo = q, !.failed = TRUE] \in CancelRec /\ [c EXCEPT !.todo = q, !.failed = TRUE].todo = q
           /\ [c EXCEPT !.todo = q, !.failed = TRUE].failed
BY Zenon DEF CancelRec

\* An operator's cancel, and what it comes to, keep the invariant.
LEMMA CancelKeeps ==
    ASSUME CallsInv, CancelExecution \/ DeliverCancel \/ \E t \in Rows, a \in {"stop", "cancel", "reject", "abandon"} : RequestCancel(t, a)
    PROVE  CallsInv'
<1> USE DEF CallsInv
<1>1. ASSUME NEW t \in Rows, NEW a \in {"stop", "cancel", "reject", "abandon"}, RequestCancel(t, a) PROVE CallsInv'
  <2>1. exec[t] \in ExecRow /\ t \in Exec /\ t \in Nat
    BY RowsAreExec DEF CallsTypes, Exec
  <2>2. ActionTarget(a) \in {"parked", "closed_wont_do"}
    BY <1>1, <2>1, OfferedActions, Zenon DEF RequestCancel, ExecRow
  <2>3. cancel' \in CancelRec /\ cancel'.todo = <<t>>
    <3>1. cancel' = [todo |-> <<t>>, to |-> ActionTarget(a), root |-> t, failed |-> FALSE]
      BY <1>1, Zenon DEF RequestCancel
    <3>2. <<t>> \in Seq(Exec)
      BY <2>1
    <3> QED BY <2>1, <2>2, <3>1, <3>2, Zenon DEF CancelRec
  <2>4. Len(cancel'.todo) = 1 /\ cancel'.todo # <<>> /\ owed' = {}
    BY <1>1, <2>3, Zenon DEF RequestCancel, CancelOwes, NoCancel
  <2>5. CancelOwes'
    BY <2>4 DEF CancelOwes
  <2>6. OneLiveChild'
    BY <1>1, Zenon DEF RequestCancel, OneLiveChild, Rows
  <2> QED BY <1>1, <2>3, <2>5, <2>6, Zenon DEF RequestCancel, CallsTypes
<1>2. CASE CancelExecution
  <2> DEFINE t == Head(cancel.todo)
  <2>1. cancel.todo \in Seq(Exec) /\ Len(cancel.todo) = 1 /\ t \in Exec /\ Tail(cancel.todo) = <<>> /\ owed \subseteq {t}
    <3>1. cancel.todo \in Seq(Exec) /\ cancel.todo # <<>>
      BY <1>2, Zenon DEF CancelExecution, CallsTypes, CancelRec
    <3>2. Len(cancel.todo) \in Nat /\ Len(cancel.todo) # 0
      BY <3>1, EmptySeq, Zenon
    <3>3. Len(cancel.todo) = 1
      <4>1. Len(cancel.todo) <= 1
        BY Zenon DEF CancelOwes
      <4>2. \A n \in Nat : n # 0 /\ n <= 1 => n = 1
        OBVIOUS
      <4> QED BY <3>2, <4>1, <4>2, Zenon
    <3>4. t \in Exec /\ Tail(cancel.todo) \in Seq(Exec) /\ Len(Tail(cancel.todo)) = 0
      BY <3>1, <3>3
    <3>5. Tail(cancel.todo) = <<>>
      BY <3>4, EmptySeq, Zenon
    <3> QED BY <3>1, <3>3, <3>4, <3>5, Zenon DEF CancelOwes
  <2>2. CASE /\ CanTransition(exec[t].status, cancel.to)
             /\ exec' = [exec EXCEPT ![t].status = cancel.to]
             /\ callStep' = [callStep EXCEPT ![t] = 0]
             /\ cancel' = [cancel EXCEPT !.todo = WaitingCallSteps(t) \o Tail(@)]
             /\ owed' = (owed \ {t}) \cup (IF callStep[t] = 0 THEN {} ELSE {callStep[t]})
    <3>1. callStep[t] \in Callee /\ callStep' \in [Exec -> Callee] /\ cancel.to \in Status \cup Absent /\ cancel \in CancelRec
      BY <2>1, <2>2, CallsAssumption DEF CallsTypes, CancelRec, Callee, Status, Absent
    <3>2. t \in Rows => exec[t].status \notin Freed
      <4>1. SUFFICES ASSUME t \in Rows PROVE exec[t].status \in Status \cup Absent
        BY <2>2, OfferedActions, Zenon
      <4>2. exec[t] \in ExecRow
        BY <4>1, RowsAreExec DEF CallsTypes
      <4> QED BY <4>2, Zenon DEF ExecRow
    <3>3. exec' \in Seq(ExecRow) /\ Len(exec') = Len(exec) /\ DOMAIN exec' = DOMAIN exec /\ Moves(exec, exec')
      BY <2>2, <3>1, <3>2, StatusMoves, Zenon
    <3>4. cancel' \in CancelRec /\ CancelOwes'
      <4>1. CASE callStep[t] = 0
        <5>1. WaitingCallSteps(t) \o Tail(cancel.todo) = <<>>
          BY <2>1, <4>1 DEF WaitingCallSteps
        <5>2. cancel' = [cancel EXCEPT !.todo = <<>>] /\ owed' = {}
          BY <2>1, <2>2, <4>1, <5>1, Zenon
        <5>3. cancel' \in CancelRec /\ cancel'.todo = <<>>
          BY <3>1, <5>2, CancelRecord, EmptySeq, Zenon
        <5> QED BY <5>2, <5>3 DEF CancelOwes
      <4>2. CASE callStep[t] # 0
        <5>1. callStep[t] \in Exec
          BY <3>1, <4>2, CallsAssumption DEF Callee, Exec
        <5>4. WaitingCallSteps(t) \o Tail(cancel.todo) = <<callStep[t]>>
          <6>1. <<callStep[t]>> \in Seq(Exec)
            BY <5>1
          <6> QED BY <2>1, <4>2, <6>1, ConcatEmptySeq, Zenon DEF WaitingCallSteps
        <5>2. cancel' = [cancel EXCEPT !.todo = <<callStep[t]>>] /\ owed' = {callStep[t]}
          BY <2>1, <2>2, <4>2, <5>4, Zenon
        <5>3. cancel' \in CancelRec /\ cancel'.todo = <<callStep[t]>>
          <6>1. <<callStep[t]>> \in Seq(Exec)
            BY <5>1
          <6> QED BY <3>1, <5>2, <6>1, CancelRecord, Zenon
        <5> QED BY <5>2, <5>3 DEF CancelOwes
      <4> QED BY <4>1, <4>2, Zenon
    <3> QED BY <1>2, <3>1, <3>3, <3>4, MovesKeep, Zenon DEF CancelExecution, CallsTypes
  <2>3. CASE /\ cancel' = [cancel EXCEPT !.todo = Tail(@), !.failed = TRUE]
             /\ UNCHANGED <<exec, callStep, owed>>
    <3>1. cancel' \in CancelRec /\ cancel'.todo = <<>> /\ cancel'.failed
      <4>1. cancel' = [cancel EXCEPT !.todo = <<>>, !.failed = TRUE] /\ <<>> \in Seq(Exec)
        BY <2>1, <2>3, EmptySeq, Zenon
      <4> QED BY <4>1, CancelRecord, Zenon DEF CallsTypes
    <3>3. CancelOwes'
      BY <3>1 DEF CancelOwes
    <3>4. OneLiveChild'
      BY <2>3, Zenon DEF OneLiveChild, Rows
    <3> QED BY <1>2, <2>3, <3>1, <3>3, <3>4, Zenon DEF CancelExecution, CallsTypes
  <2> QED BY <1>2, <2>2, <2>3, Zenon DEF CancelExecution
<1>3. CASE DeliverCancel
  <2>1. engine' \in Engines
    <3>1. CASE ~cancel.failed /\ engine[cancel.root] # Asleep /\ cancel.root \in Exec
      <4>1. engine[cancel.root] \in EngineRec
        BY <3>1, Zenon DEF CallsTypes, Engines
      <4>2. [engine[cancel.root] EXCEPT !.cut = TRUE] \in EngineRec
        BY <4>1, Zenon DEF EngineRec
      <4> QED BY <1>3, <3>1, <4>2, Zenon DEF DeliverCancel, CallsTypes, Engines
    <3>2. CASE ~(~cancel.failed /\ engine[cancel.root] # Asleep) \/ cancel.root \notin Exec
      BY <1>3, <3>2, Zenon DEF DeliverCancel, CallsTypes, Engines
    <3> QED BY <3>1, <3>2, Zenon
  <2>2. cancel' \in CancelRec /\ cancel'.todo = <<>> /\ owed' = {}
    BY <1>3 DEF DeliverCancel, NoCancel, CancelRec
  <2>3. CancelOwes'
    BY <2>2 DEF CancelOwes
  <2>4. OneLiveChild'
    BY <1>3, Zenon DEF DeliverCancel, OneLiveChild, Rows
  <2> QED BY <1>3, <2>1, <2>2, <2>3, <2>4, Zenon DEF DeliverCancel, CallsTypes
<1> QED BY <1>1, <1>2, <1>3, Zenon

\* Retries, approvals, merges, archives and the restart keep the invariant.
LEMMA OperatorKeeps ==
    ASSUME CallsInv, RestartCalls \/ \E t \in Rows : Requeue(t) \/ EndExec(t)
    PROVE  CallsInv'
<1> USE DEF CallsInv
<1>1. ASSUME exec' \in Seq(ExecRow), Len(exec') = Len(exec), DOMAIN exec' = DOMAIN exec, Moves(exec, exec'),
             UNCHANGED <<plan, callStep, engine, cancel, owed>>
      PROVE  CallsInv'
  BY <1>1, MovesKeep, KeptOwes, Zenon DEF CallsTypes
<1>2. ASSUME NEW t \in Rows, EndExec(t) PROVE CallsInv'
  <2>1. exec[t] \in ExecRow
    BY RowsAreExec DEF CallsTypes
  <2>2. PICK s \in Status \cup Absent : exec' = [exec EXCEPT ![t].status = s] /\ (exec[t].status \in Freed => s \in Freed)
    <3>1. CASE exec[t].status = "pr_open" /\ \E to \in {"merged", "rejected"} : exec' = [exec EXCEPT ![t].status = to]
      BY <3>1, Zenon DEF Status, Freed
    <3>2. CASE exec' = [exec EXCEPT ![t].status = "archived"]
      BY <3>2, Zenon DEF Absent, Freed
    <3> QED BY <1>2, <3>1, <3>2, Zenon DEF EndExec
  <2> QED BY <1>1, <1>2, <2>2, StatusMoves, Zenon DEF EndExec
<1>3. ASSUME NEW t \in Rows, Requeue(t) PROVE CallsInv'
  <2>1. exec[t] \in ExecRow /\ exec[t].status \in Status \cup Absent
    <3>1. exec[t] \in ExecRow
      BY RowsAreExec DEF CallsTypes
    <3> QED BY <3>1, Zenon DEF ExecRow
  <2>2. exec[t].status \notin Freed
    BY <1>3, <2>1, OfferedActions, Zenon DEF Requeue
  <2>3. PICK s \in Status, n \in Nat : \/ exec' = [exec EXCEPT ![t].status = s, ![t].retries = n]
                                       \/ exec' = [exec EXCEPT ![t].status = s]
    <3>1. exec[t].retries \in Nat /\ exec[t].retries + 1 \in Nat /\ 0 \in Nat
      BY <2>1 DEF ExecRow
    <3>2. CASE exec' = [exec EXCEPT ![t].status = IF RetriesSpent(t) THEN "dead" ELSE "queued",
                                    ![t].retries = IF RetriesSpent(t) THEN @ ELSE @ + 1]
      <4>1. CASE RetriesSpent(t)
        <5>1. exec' = [exec EXCEPT ![t].status = "dead", ![t].retries = exec[t].retries]
          BY <3>2, <4>1, Zenon
        <5> QED BY <3>1, <5>1, Zenon DEF Status
      <4>2. CASE ~RetriesSpent(t)
        <5>1. exec' = [exec EXCEPT ![t].status = "queued", ![t].retries = exec[t].retries + 1]
          BY <3>2, <4>2, Zenon
        <5> QED BY <3>1, <5>1, Zenon DEF Status
      <4> QED BY <4>1, <4>2, Zenon
    <3>3. CASE exec' = [exec EXCEPT ![t].status = "queued"]
      BY <3>1, <3>3, Zenon DEF Status
    <3> QED BY <1>3, <3>2, <3>3, Zenon DEF Requeue
  <2>4. CASE exec' = [exec EXCEPT ![t].status = s]
    BY <1>1, <1>3, <2>2, <2>4, StatusMoves, Zenon DEF Requeue
  <2>5. CASE exec' = [exec EXCEPT ![t].status = s, ![t].retries = n]
    <3>1. exec' = [[exec EXCEPT ![t].status = s] EXCEPT ![t].retries = n]
      BY <2>5, Zenon
    <3> QED BY <1>1, <1>3, <2>2, <3>1, StatusMoves, RetriesMove, Zenon DEF Requeue
  <2> QED BY <2>3, <2>4, <2>5, Zenon
<1>4. CASE RestartCalls
  <2>1. DOMAIN exec = 1 .. Len(exec) /\ Len(exec) \in Nat /\ \A u \in DOMAIN exec : exec[u] \in ExecRow
    BY RowsAreExec DEF CallsTypes, Rows
  <2>2. \A r \in ExecRow : [r EXCEPT !.status = IF @ = "running" THEN "queued" ELSE @] \in ExecRow
    BY Zenon DEF ExecRow, Status
  <2>3. exec' = [t \in Rows |-> [exec[t] EXCEPT !.status = IF @ = "running" THEN "queued" ELSE @]]
    BY <1>4, Zenon DEF RestartCalls
  <2>4. exec' \in [1 .. Len(exec) -> ExecRow]
    BY <2>1, <2>2, <2>3, Zenon DEF Rows
  <2>5. exec' \in Seq(ExecRow) /\ Len(exec') = Len(exec) /\ DOMAIN exec' = DOMAIN exec
    BY <2>1, <2>4
  <2>6. Moves(exec, exec')
    BY <2>1, <2>3, Zenon DEF Moves, Rows, ExecRow, Freed
  <2>7. engine' \in Engines
    BY <1>4, Zenon DEF RestartCalls, Engines
  <2>8. callStep' \in [Exec -> Callee]
    BY <1>4, CallsAssumption DEF RestartCalls, CallsTypes, Callee
  <2>9. cancel' \in CancelRec /\ cancel'.todo = <<>> /\ owed' = {}
    BY <1>4 DEF RestartCalls, NoCancel, CancelRec
  <2>10. CancelOwes'
    BY <2>9 DEF CancelOwes
  <2> QED BY <1>4, <2>5, <2>6, <2>7, <2>8, <2>9, <2>10, MovesKeep, Zenon DEF RestartCalls, CallsTypes
<1> QED BY <1>2, <1>3, <1>4, Zenon

\* The inductive invariant of workflow calls.
LEMMA CallsInvariant == CallsSpec => []CallsInv
<1>1. CallsInv /\ UNCHANGED callsVars => CallsInv'
  BY Zenon DEF CallsInv, CallsTypes, OneLiveChild, CancelOwes, callsVars, Rows
<1>2. CallsInv /\ [CallsNext]_callsVars => CallsInv'
  BY <1>1, RunKeeps, CancelKeeps, OperatorKeeps, Zenon DEF CallsNext
<1> QED BY CallsInitInv, <1>2, PTL DEF CallsSpec

\* No call site has two children that can still do its work, for any tree of
\* calls and any retries, cancels, failures and restarts.
THEOREM OneLiveChildAlways == CallsSpec => []OneLiveChild
<1>1. CallsInv => OneLiveChild
  BY Zenon DEF CallsInv
<1> QED BY CallsInvariant, <1>1, PTL

\* A cancel that returns without an error has cancelled every callee waited on.
THEOREM CancelReachesAll == CallsSpec => []CancelReaches
<1>1. CallsInv => CancelReaches
  BY Zenon DEF CallsInv, CancelOwes, CancelReaches
<1> QED BY CallsInvariant, <1>1, PTL
-----------------------------------------------------------------------------
\* The call site k of t has a child that succeeded.
SiteWon(t, k) == \E c \in succeeded : exec[c].parent = t /\ exec[c].key = k

\* A run of t that is at g got past its waited calls because each was won.  The
\* callee it is about is a child of the call site; the verdict it holds is one
\* that the callee gave.
Earns(t, g) ==
    /\ \A k \in DOMAIN Sites(t) : Sites(t)[k] /\ (k < g.site \/ g.pc = "finish") => SiteWon(t, k)
    /\ g.pc \in {"record", "await", "unwaited", "close"} =>
          g.callee \in Rows /\ exec[g.callee].parent = t /\ exec[g.callee].key = g.site
    /\ g.pc = "unwaited" => ~Sites(t)[g.site]
    /\ g.ok => g.pc \in {"close", "park"}
    /\ g.pc = "close" /\ g.ok => g.callee \in succeeded

RunsEarn == \A t \in Exec : \A g \in EngineRec : engine[t] = g => t \in Rows /\ Earns(t, g)

\* What has succeeded is remembered.
SuccessIsKept == succeeded \subseteq Rows /\ \A t \in Rows : exec[t].status \in callSucceeded => t \in succeeded

\* The rows stay: a step adds queued rows, moves statuses and remembers successes.
RowsStay ==
    /\ plan' = plan /\ succeeded \subseteq succeeded' /\ succeeded' \subseteq succeeded \cup Rows /\ Rows \subseteq Rows'
    /\ \A t \in Rows : /\ exec'[t].parent = exec[t].parent /\ exec'[t].key = exec[t].key
                       /\ exec'[t].depth = exec[t].depth

\* Nothing succeeds but by the end of its run or the merge of what succeeded.
SuccessMoves ==
    /\ \A t \in Rows' \ Rows : exec'[t].status = "queued"
    /\ \A t \in Rows : exec'[t].status \in callSucceeded => exec[t].status \in callSucceeded \/ t \in succeeded'
    /\ \A t \in Rows : exec'[t].status = "completed" => exec[t].status = "completed" \/ engine[t].pc = "finish"

\* A status is set: the rest of the rows is as it was.
SetsStatus(t, s) == exec' = [exec EXCEPT ![t].status = s]

LEMMA StatusIsSet ==
    ASSUME CallsTypes, NEW t \in Rows, NEW s, SetsStatus(t, s)
    PROVE  /\ Rows' = Rows
           /\ \A u \in Rows : /\ exec'[u].parent = exec[u].parent /\ exec'[u].key = exec[u].key
                              /\ exec'[u].depth = exec[u].depth
                              /\ exec'[u].status = IF u = t THEN s ELSE exec[u].status
<1>1. DOMAIN exec = 1 .. Len(exec) /\ Len(exec) \in Nat /\ \A u \in DOMAIN exec : exec[u] \in ExecRow
  BY RowsAreExec DEF CallsTypes, Rows
<1>2. DOMAIN exec' = DOMAIN exec /\ \A u \in DOMAIN exec : exec'[u] = IF u = t THEN [exec[u] EXCEPT !.status = s] ELSE exec[u]
  BY <1>1, Zenon DEF CallsTypes, SetsStatus
<1>. QED  BY <1>1, <1>2, Zenon DEF Rows, ExecRow

\* EnqueueCallTask leaves the rows and may add one, which is queued.
LEMMA CalledAdds ==
    ASSUME CallsTypes, NEW t \in Rows, NEW key \in Nat, MayCall(t), Called(t, key)
    PROVE  /\ Rows \subseteq Rows' /\ \A u \in Rows : exec'[u] = exec[u]
           /\ \A u \in Rows' \ Rows : exec'[u].status = "queued"
           /\ CalleeOf(t, key) \in Rows' /\ exec'[CalleeOf(t, key)].parent = t /\ exec'[CalleeOf(t, key)].key = key
<1>1. CASE Keyed(t, key) # {} /\ exec' = exec
  <2>1. CalleeOf(t, key) \in Keyed(t, key)
    BY <1>1, Zenon DEF CalleeOf
  <2>. QED  BY <1>1, <2>1, Zenon DEF Rows, Keyed
<1>2. CASE Keyed(t, key) = {} /\ Len(exec) < MaxExecs /\ exec' = Append(exec, Row(t, key, exec[t].depth + 1))
  <2>1. t \in Nat /\ Len(exec) \in Nat /\ exec[t] \in ExecRow /\ Rows = 1 .. Len(exec) /\ exec \in Seq(ExecRow)
    BY RowsAreExec DEF CallsTypes
  <2>2. Row(t, key, exec[t].depth + 1) \in ExecRow
    BY <2>1, CallsAssumption, SMTT(30) DEF Row, ExecRow, MayCall, Status
  <2>. PICK row \in ExecRow : row = Row(t, key, exec[t].depth + 1)
    BY <2>2, Zenon
  <2>3. exec' = Append(exec, row)
    BY <1>2, Zenon
  <2>4. exec' \in Seq(ExecRow) /\ Len(exec') = Len(exec) + 1
    BY <2>1, <2>3
  <2>5. (\A c \in 1 .. Len(exec) : exec'[c] = exec[c]) /\ exec'[Len(exec) + 1] = row
    BY <2>1, <2>3, AppendProperties
  <2>6. Rows' = 1 .. Len(exec) + 1
    BY <2>4 DEF Rows
  <2>7. row.status = "queued" /\ row.parent = t /\ row.key = key
    BY Zenon DEF Row
  <2>8. CalleeOf(t, key) = Len(exec) + 1
    BY <1>2, Zenon DEF CalleeOf
  <2>. QED  BY <2>1, <2>5, <2>6, <2>7, <2>8
<1>. QED  BY <1>1, <1>2, Zenon DEF Called

\* So every step leaves the rows.
LEMMA RowsAreKept ==
    ASSUME CallsInv, SuccessIsKept, [CallsNext]_callsVars
    PROVE  RowsStay /\ SuccessMoves
<1>0. CallsTypes /\ \A t \in Rows : exec[t] \in ExecRow /\ exec[t].status \in Status \cup Absent
  <2>1. CallsTypes /\ \A t \in Rows : exec[t] \in ExecRow
    BY RowsAreExec DEF CallsInv, CallsTypes
  <2>. QED  BY <2>1, Zenon DEF ExecRow
<1>1. ASSUME exec' = exec, plan' = plan, succeeded' = succeeded PROVE RowsStay /\ SuccessMoves
  BY <1>1, Zenon DEF RowsStay, SuccessMoves, Rows
<1>2. ASSUME NEW t \in Rows, NEW s, SetsStatus(t, s), plan' = plan,
             succeeded \subseteq succeeded', succeeded' \subseteq succeeded \cup Rows,
             s \in callSucceeded => exec[t].status \in callSucceeded \/ t \in succeeded',
             s = "completed" => exec[t].status = "completed" \/ engine[t].pc = "finish"
      PROVE  RowsStay /\ SuccessMoves
  BY <1>0, <1>2, StatusIsSet DEF RowsStay, SuccessMoves
<1>3. ASSUME NEW t \in Rows, RunExec(t) PROVE RowsStay /\ SuccessMoves
  <2>1. CASE ClaimExec(t)
    <3>1. SetsStatus(t, "running") /\ plan' = plan /\ succeeded' = succeeded
      BY <2>1, Zenon DEF ClaimExec, SetsStatus
    <3>2. "running" \notin callSucceeded /\ "running" # "completed"
      BY Zenon DEF callSucceeded
    <3>. QED  BY <1>2, <3>1, <3>2, Zenon
  <2>2. CASE StartCall(t)
    <3>1. CASE exec' = exec
      BY <1>1, <2>2, <3>1, Zenon DEF StartCall
    <3>2. CASE MayCall(t) /\ Called(t, engine[t].site)
      <4>1. engine[t].site \in Nat
        BY <1>0, <2>2, EngineMoves, Zenon DEF StartCall, EnginePc, EngineRec
      <4>2. plan' = plan /\ succeeded' = succeeded
        BY <2>2, Zenon DEF StartCall
      <4>3. /\ Rows \subseteq Rows' /\ \A u \in Rows : exec'[u] = exec[u]
            /\ \A u \in Rows' \ Rows : exec'[u].status = "queued"
        BY <1>0, <3>2, <4>1, CalledAdds, Zenon
      <4>. QED  BY <4>2, <4>3, Zenon DEF RowsStay, SuccessMoves
    <3>. QED  BY <2>2, <3>1, <3>2, Zenon DEF StartCall
  <2>3. CASE StartCallStep(t) \/ CallStatus(t) \/ FinishCallStep(t) \/ CloseUnwaitedCall(t)
    BY <1>1, <2>3, Zenon DEF StartCallStep, CallStatus, FinishCallStep, CloseUnwaitedCall
  <2>4. ASSUME NEW to, Settle(t, to), to = "completed" => engine[t].pc = "finish" PROVE RowsStay /\ SuccessMoves
    <3>1. PICK s : s = (IF exec[t].status = "running" THEN to ELSE exec[t].status)
      BY Zenon
    <3>2. SetsStatus(t, s) /\ plan' = plan
      BY <2>4, <3>1, Zenon DEF Settle, SetsStatus
    <3>3. exec'[t].status = s
      BY <1>0, <3>2, StatusIsSet, Zenon
    <3>4. succeeded' = IF s \in callSucceeded THEN succeeded \cup {t} ELSE succeeded
      BY <2>4, <3>3, Zenon DEF Settle
    <3>. QED  BY <1>2, <2>4, <3>1, <3>2, <3>4, Zenon
  <2>5. CASE ParkExec(t)
    BY <2>4, <2>5, Zenon DEF ParkExec
  <2>6. CASE FinishExec(t)
    BY <2>4, <2>6, Zenon DEF FinishExec
  <2>. QED  BY <1>3, <2>1, <2>2, <2>3, <2>5, <2>6, Zenon DEF RunExec
<1>4. ASSUME NEW t \in Rows, Requeue(t) PROVE RowsStay /\ SuccessMoves
  <2>0. plan' = plan /\ succeeded' = succeeded
    BY <1>4, Zenon DEF Requeue
  <2>1. "dead" \notin callSucceeded /\ "queued" \notin callSucceeded /\ "completed" \in callSucceeded
    BY Zenon DEF callSucceeded
  <2>2. CASE SetsStatus(t, "queued")
    BY <1>2, <2>0, <2>1, <2>2, Zenon
  <2>3. CASE exec' = [exec EXCEPT ![t].status = IF RetriesSpent(t) THEN "dead" ELSE "queued",
                                  ![t].retries = IF RetriesSpent(t) THEN @ ELSE @ + 1]
    <3>1. PICK s : s = (IF RetriesSpent(t) THEN "dead" ELSE "queued")
      BY Zenon
    <3>2. PICK n : n = (IF RetriesSpent(t) THEN exec[t].retries ELSE exec[t].retries + 1)
      BY Zenon
    <3>3. DOMAIN exec = 1 .. Len(exec) /\ \A u \in DOMAIN exec : exec[u] \in ExecRow
      BY <1>0 DEF CallsTypes, Rows
    <3>4. exec' = [exec EXCEPT ![t].status = s, ![t].retries = n]
      BY <2>3, <3>1, <3>2, Zenon
    <3>5. DOMAIN exec' = DOMAIN exec
          /\ \A u \in DOMAIN exec : exec'[u] = IF u = t THEN [exec[u] EXCEPT !.status = s, !.retries = n] ELSE exec[u]
      BY <3>3, <3>4, Zenon
    <3>6. \A u \in Rows : /\ exec'[u].parent = exec[u].parent /\ exec'[u].key = exec[u].key
                          /\ exec'[u].depth = exec[u].depth
                          /\ exec'[u].status = IF u = t THEN s ELSE exec[u].status
      BY <3>3, <3>5, Zenon DEF Rows, ExecRow
    <3>7. Rows' = Rows
      BY <3>5, Zenon DEF Rows
    <3>. QED  BY <2>0, <2>1, <3>1, <3>6, <3>7, Zenon DEF RowsStay, SuccessMoves
  <2>. QED  BY <1>4, <2>2, <2>3, Zenon DEF Requeue, SetsStatus
<1>5. ASSUME NEW t \in Rows, EndExec(t) PROVE RowsStay /\ SuccessMoves
  <2>1. PICK s : /\ SetsStatus(t, s)
                 /\ s = "archived" \/ (s \in {"merged", "rejected"} /\ exec[t].status = "pr_open")
    BY <1>5, Zenon DEF EndExec, SetsStatus
  <2>2. plan' = plan /\ succeeded' = succeeded
    BY <1>5, Zenon DEF EndExec
  <2>. QED  BY <1>2, <2>1, <2>2, Zenon DEF callSucceeded
<1>6. ASSUME CancelExecution PROVE RowsStay /\ SuccessMoves
  <2>1. plan' = plan /\ succeeded' = succeeded
    BY <1>6, Zenon DEF CancelExecution
  <2>2. CASE exec' = exec
    BY <1>1, <2>1, <2>2, Zenon
  <2>3. CASE \E t \in Rows : SetsStatus(t, cancel.to)
    <3>1. PICK t \in Rows : SetsStatus(t, cancel.to)
      BY <2>3, Zenon
    <3>2. cancel.to \notin callSucceeded /\ cancel.to # "completed"
      BY <1>0, Zenon DEF CallsTypes, CancelRec, callSucceeded
    <3>. QED  BY <1>2, <2>1, <3>1, <3>2, Zenon
  <2>4. CASE Head(cancel.todo) \notin Rows /\ exec' = [exec EXCEPT ![Head(cancel.todo)].status = cancel.to]
    <3>1. exec' = exec
      BY <1>0, <2>4, RowsAreExec DEF CallsTypes, Rows
    <3>. QED  BY <1>1, <2>1, <3>1, Zenon
  <2>. QED  BY <1>6, <2>2, <2>3, <2>4, Zenon DEF CancelExecution, SetsStatus
<1>7. CASE DeliverCancel \/ UNCHANGED callsVars
           \/ \E t \in Rows, a \in {"stop", "cancel", "reject", "abandon"} : RequestCancel(t, a)
  BY <1>1, <1>7, Zenon DEF DeliverCancel, RequestCancel, callsVars
<1>8. CASE RestartCalls
  <2>1. /\ DOMAIN exec' = Rows /\ plan' = plan /\ succeeded' = succeeded
        /\ \A t \in Rows : exec'[t] = [exec[t] EXCEPT !.status = IF @ = "running" THEN "queued" ELSE @]
    BY <1>8, Zenon DEF RestartCalls
  <2>2. \A t \in Rows : /\ exec'[t].parent = exec[t].parent /\ exec'[t].key = exec[t].key
                        /\ exec'[t].depth = exec[t].depth
                        /\ exec'[t].status = IF exec[t].status = "running" THEN "queued" ELSE exec[t].status
    BY <1>0, <2>1 DEF ExecRow
  <2>. QED  BY <2>1, <2>2, Zenon DEF RowsStay, SuccessMoves, Rows, callSucceeded
<1>. QED  BY <1>3, <1>4, <1>5, <1>6, <1>7, <1>8, Zenon DEF CallsNext

\* The run of t comes to a place; the other runs stay.
ComesTo(t, pc, site, callee, ok) ==
    /\ engine'[t].pc = pc /\ engine'[t].site = site /\ engine'[t].callee = callee /\ engine'[t].ok = ok
    /\ \A u \in Exec : u # t => engine'[u] = engine[u]

\* The run of t is over, or will park.
Fails(t) == ComesTo(t, "park", engine[t].site, engine[t].callee, engine[t].ok)
            \/ (engine'[t] = Asleep /\ \A u \in Exec : u # t => engine'[u] = engine[u])

\* Goto sets where the run is, and no more.
LEMMA GotoIs ==
    ASSUME CallsTypes, NEW t \in Rows, engine[t].pc \in EnginePc, NEW pc \in EnginePc
    PROVE  /\ Goto(t, pc) \in Engines /\ Goto(t, pc)[t] \in EngineRec
           /\ Goto(t, pc)[t].pc = pc /\ Goto(t, pc)[t].site = engine[t].site
           /\ Goto(t, pc)[t].callee = engine[t].callee /\ Goto(t, pc)[t].ok = engine[t].ok
           /\ \A u \in Exec : u # t => Goto(t, pc)[u] = engine[u]
<1>1. t \in Exec /\ engine[t] \in EngineRec /\ engine \in Engines
  BY RowsAreExec, EngineMoves, Zenon DEF CallsTypes
<1>2. PICK e \in EngineRec : e = engine[t]
  BY <1>1, Zenon
<1>3. PICK f : f = [e EXCEPT !.pc = pc]
  BY Zenon
<1>4. f \in EngineRec /\ f.pc = pc /\ f.site = e.site /\ f.callee = e.callee /\ f.ok = e.ok
  BY <1>3, Zenon DEF EngineRec
<1>5. Goto(t, pc)[t] = f /\ \A u \in Exec : u # t => Goto(t, pc)[u] = engine[u]
  BY <1>1, <1>2, <1>3, Zenon DEF Goto, Engines
<1>. QED  BY <1>2, <1>4, <1>5, EngineMoves, Zenon

\* Where each form of update brings the run.
LEMMA EngineComes ==
    ASSUME CallsTypes, NEW t \in Rows, engine[t].pc \in EnginePc
    PROVE  /\ \A pc \in EnginePc : engine' = Goto(t, pc) => ComesTo(t, pc, engine[t].site, engine[t].callee, engine[t].ok)
           /\ \A pc \in EnginePc : \A c : engine' = [Goto(t, pc) EXCEPT ![t].callee = c] =>
                 ComesTo(t, pc, engine[t].site, c, engine[t].ok)
           /\ \A pc \in EnginePc : \A ok : engine' = [Goto(t, pc) EXCEPT ![t].ok = ok] =>
                 ComesTo(t, pc, engine[t].site, engine[t].callee, ok)
           /\ engine' = StageFails(t) => Fails(t)
<1>1. t \in Exec /\ engine[t] \in EngineRec /\ engine \in Engines
  BY RowsAreExec, EngineMoves, Zenon DEF CallsTypes
<1>4. ASSUME NEW pc \in EnginePc, engine' = Goto(t, pc)
      PROVE  ComesTo(t, pc, engine[t].site, engine[t].callee, engine[t].ok)
  BY <1>4, GotoIs, Zenon DEF ComesTo
<1>5. ASSUME NEW pc \in EnginePc, NEW c, engine' = [Goto(t, pc) EXCEPT ![t].callee = c]
      PROVE  ComesTo(t, pc, engine[t].site, c, engine[t].ok)
  <2>1. PICK f \in Engines : f = Goto(t, pc)
    BY GotoIs, Zenon
  <2>2. engine'[t] = [f[t] EXCEPT !.callee = c] /\ \A u \in Exec : u # t => engine'[u] = f[u]
    BY <1>1, <1>5, <2>1, Zenon DEF Engines
  <2>3. f[t] \in EngineRec
    BY <2>1, GotoIs, Zenon
  <2>4. engine'[t].pc = f[t].pc /\ engine'[t].site = f[t].site /\ engine'[t].callee = c /\ engine'[t].ok = f[t].ok
    BY <2>2, <2>3, Zenon DEF EngineRec
  <2>. QED  BY <2>1, <2>2, <2>4, GotoIs DEF ComesTo
<1>6. ASSUME NEW pc \in EnginePc, NEW ok, engine' = [Goto(t, pc) EXCEPT ![t].ok = ok]
      PROVE  ComesTo(t, pc, engine[t].site, engine[t].callee, ok)
  <2>1. PICK f \in Engines : f = Goto(t, pc)
    BY GotoIs, Zenon
  <2>2. engine'[t] = [f[t] EXCEPT !.ok = ok] /\ \A u \in Exec : u # t => engine'[u] = f[u]
    BY <1>1, <1>6, <2>1, Zenon DEF Engines
  <2>3. f[t] \in EngineRec
    BY <2>1, GotoIs, Zenon
  <2>4. engine'[t].pc = f[t].pc /\ engine'[t].site = f[t].site /\ engine'[t].callee = f[t].callee /\ engine'[t].ok = ok
    BY <2>2, <2>3, Zenon DEF EngineRec
  <2>. QED  BY <2>1, <2>2, <2>4, GotoIs DEF ComesTo
<1>7. ASSUME engine' = StageFails(t) PROVE Fails(t)
  <2>1. CASE engine' = Goto(t, "park")
    <3>1. "park" \in EnginePc
      BY Zenon DEF EnginePc
    <3>. QED  BY <1>4, <2>1, <3>1, Zenon DEF Fails
  <2>2. CASE engine' = [engine EXCEPT ![t] = Asleep]
    <3>1. engine'[t] = Asleep /\ \A u \in Exec : u # t => engine'[u] = engine[u]
      BY <1>1, <2>2, Zenon DEF Engines
    <3>. QED  BY <3>1, Zenon DEF Fails
  <2>. QED  BY <1>7, <2>1, <2>2, Zenon DEF StageFails
<1>. QED  BY <1>4, <1>5, <1>6, <1>7, Zenon

\* The next call site, or the end, after the one the run was at.
Passes(t, ok) ==
    \/ engine[t].site < Len(Sites(t)) /\ ComesTo(t, "start", engine[t].site + 1, engine[t].callee, ok)
    \/ ~(engine[t].site < Len(Sites(t))) /\ ComesTo(t, "finish", engine[t].site, engine[t].callee, ok)

LEMMA EnginePasses ==
    ASSUME CallsTypes, NEW t \in Rows, engine[t].pc \in EnginePc
    PROVE  /\ engine' = Passed(t) => Passes(t, engine[t].ok)
           /\ engine' = [Passed(t) EXCEPT ![t].ok = FALSE] => Passes(t, FALSE)
<1>1. t \in Exec /\ engine[t] \in EngineRec /\ engine \in Engines
  BY RowsAreExec, EngineMoves, Zenon DEF CallsTypes
<1>2. PICK pc, site : /\ \/ engine[t].site < Len(Sites(t)) /\ pc = "start" /\ site = engine[t].site + 1
                         \/ ~(engine[t].site < Len(Sites(t))) /\ pc = "finish" /\ site = engine[t].site
                      /\ Passed(t)[t] \in EngineRec /\ Passed(t) \in Engines
                      /\ Passed(t)[t].pc = pc /\ Passed(t)[t].site = site
                      /\ Passed(t)[t].callee = engine[t].callee /\ Passed(t)[t].ok = engine[t].ok
                      /\ \A u \in Exec : u # t => Passed(t)[u] = engine[u]
  <2>3. "start" \in EnginePc /\ "finish" \in EnginePc
    BY Zenon DEF EnginePc
  <2>4. CASE engine[t].site < Len(Sites(t))
    <3>1. PICK f \in Engines : f = Goto(t, "start")
      BY <2>3, GotoIs, Zenon
    <3>2. Passed(t) = [f EXCEPT ![t].site = @ + 1]
      BY <2>4, <3>1, Zenon DEF Passed
    <3>3. f[t] \in EngineRec /\ f[t].site \in Nat
      BY <2>3, <3>1, GotoIs, Zenon DEF EngineRec
    <3>4. Passed(t)[t] = [f[t] EXCEPT !.site = @ + 1] /\ \A u \in Exec : u # t => Passed(t)[u] = f[u]
      BY <1>1, <3>2, Zenon DEF Engines
    <3>5. /\ Passed(t)[t] \in EngineRec
          /\ Passed(t)[t].pc = f[t].pc /\ Passed(t)[t].site = f[t].site + 1
          /\ Passed(t)[t].callee = f[t].callee /\ Passed(t)[t].ok = f[t].ok
      BY <3>3, <3>4 DEF EngineRec
    <3>6. Passed(t) \in Engines
      BY EngineMoves, Zenon
    <3>7. /\ f[t].pc = "start" /\ f[t].site = engine[t].site /\ f[t].callee = engine[t].callee /\ f[t].ok = engine[t].ok
          /\ \A u \in Exec : u # t => f[u] = engine[u]
      BY <2>3, <3>1, GotoIs, Zenon
    <3>. QED  BY <2>4, <3>4, <3>5, <3>6, <3>7, Zenon
  <2>5. CASE ~(engine[t].site < Len(Sites(t)))
    <3>1. Passed(t) = Goto(t, "finish")
      BY <2>5, Zenon DEF Passed
    <3>2. /\ Goto(t, "finish") \in Engines /\ Goto(t, "finish")[t] \in EngineRec
          /\ Goto(t, "finish")[t].pc = "finish" /\ Goto(t, "finish")[t].site = engine[t].site
          /\ Goto(t, "finish")[t].callee = engine[t].callee /\ Goto(t, "finish")[t].ok = engine[t].ok
          /\ \A u \in Exec : u # t => Goto(t, "finish")[u] = engine[u]
      BY <2>3, GotoIs, Zenon
    <3>. QED  BY <2>5, <3>1, <3>2, Zenon
  <2>. QED  BY <2>4, <2>5, Zenon
<1>3. ASSUME engine' = Passed(t) PROVE Passes(t, engine[t].ok)
  BY <1>2, <1>3, Zenon DEF ComesTo, Passes
<1>4. ASSUME engine' = [Passed(t) EXCEPT ![t].ok = FALSE] PROVE Passes(t, FALSE)
  <2>1. PICK f \in Engines : f = Passed(t)
    BY <1>2, Zenon
  <2>2. engine'[t] = [f[t] EXCEPT !.ok = FALSE] /\ \A u \in Exec : u # t => engine'[u] = f[u]
    BY <1>1, <1>4, <2>1, Zenon DEF Engines
  <2>3. f[t] \in EngineRec
    BY <1>2, <2>1, Zenon
  <2>4. engine'[t].pc = f[t].pc /\ engine'[t].site = f[t].site /\ engine'[t].callee = f[t].callee /\ engine'[t].ok = FALSE
    BY <2>2, <2>3, Zenon DEF EngineRec
  <2>5. ComesTo(t, pc, site, engine[t].callee, FALSE)
    BY <1>2, <2>1, <2>2, <2>4, Zenon DEF ComesTo
  <2>. QED  BY <1>2, <2>5, Zenon DEF Passes
<1>. QED  BY <1>3, <1>4, Zenon

\* What was earned stays earned.
LEMMA EarnsStays ==
    ASSUME RowsStay, SuccessIsKept, NEW t \in Rows, NEW g \in EngineRec, Earns(t, g)
    PROVE  Earns(t, g)' /\ t \in Rows'
<1>1. Sites(t)' = Sites(t)
  BY Zenon DEF RowsStay, Sites
<1>2. \A k : SiteWon(t, k) => SiteWon(t, k)'
  BY Zenon DEF RowsStay, SuccessIsKept, SiteWon
<1>3. Rows \subseteq Rows' /\ succeeded \subseteq succeeded'
      /\ \A c \in Rows : exec'[c].parent = exec[c].parent /\ exec'[c].key = exec[c].key
  BY Zenon DEF RowsStay
<1>. QED  BY <1>1, <1>2, <1>3, Zenon DEF Earns

\* The runs that stay where they are, and the one that comes to a place it has
\* earned.
LEMMA RunsEarnStep ==
    ASSUME CallsTypes, CallsTypes', RunsEarn, RowsStay, SuccessIsKept, NEW t \in Rows,
           \A u \in Exec : u # t => engine'[u] = engine[u],
           \A g \in EngineRec : engine'[t] = g => Earns(t, g)'
    PROVE  RunsEarn'
<1>1. ASSUME NEW u \in Exec, NEW g \in EngineRec, engine'[u] = g PROVE u \in Rows' /\ Earns(u, g)'
  <2>1. CASE u = t
    BY <1>1, <2>1, Zenon DEF RowsStay
  <2>2. CASE u # t
    BY <1>1, <2>2, EarnsStays, Zenon DEF RunsEarn
  <2>. QED  BY <2>1, <2>2, Zenon
<1>. QED  BY <1>1, Zenon DEF RunsEarn

\* So a step that moves no run keeps what the runs earned.
LEMMA RunsEarnStays ==
    ASSUME RunsEarn, RowsStay, SuccessIsKept, \A u \in Exec : engine'[u] = engine[u] \/ engine'[u] = Asleep
    PROVE  RunsEarn'
<1>1. ASSUME NEW u \in Exec, NEW g \in EngineRec, engine'[u] = g PROVE u \in Rows' /\ Earns(u, g)'
  <2>1. engine[u] = g
    BY <1>1 DEF EngineRec, EnginePc, Asleep
  <2>. QED  BY <1>1, <2>1, EarnsStays, Zenon DEF RunsEarn
<1>. QED  BY <1>1, Zenon DEF RunsEarn

\* A run that fails has earned as much as before.
LEMMA FailsEarns ==
    ASSUME CallsTypes, CallsTypes', RunsEarn, RowsStay, SuccessIsKept, NEW t \in Rows, engine[t] \in EngineRec,
           engine[t].pc # "finish", Fails(t)
    PROVE  RunsEarn'
<1>1. \A u \in Exec : u # t => engine'[u] = engine[u]
  BY Zenon DEF Fails, ComesTo
<1>2. t \in Exec /\ Earns(t, engine[t])
  BY RowsAreExec, Zenon DEF RunsEarn
<1>3. PICK e \in EngineRec : e = engine[t]
  BY Zenon
<1>4. Earns(t, e)'
  <2>1. Earns(t, e)
    BY <1>2, <1>3, Zenon DEF RunsEarn
  <2>. QED  BY <2>1, EarnsStays, Zenon
<1>5. ASSUME NEW g \in EngineRec, engine'[t] = g PROVE Earns(t, g)'
  <2>1. g.pc = "park" /\ g.site = e.site /\ g.ok = e.ok
    BY <1>3, <1>5 DEF Fails, ComesTo, Asleep, EngineRec, EnginePc
  <2>. QED  BY <1>4, <2>1, Zenon DEF Earns
<1>. QED  BY <1>1, <1>5, RunsEarnStep, Zenon

\* The steps of a run earn what they claim.
LEMMA RunEarns ==
    ASSUME CallsInv, CallsInv', RunsEarn, SuccessIsKept, RowsStay, NEW t \in Rows, RunExec(t)
    PROVE  RunsEarn'
<1>0. CallsTypes /\ CallsTypes' /\ t \in Exec /\ exec[t] \in ExecRow /\ Len(exec) \in Nat
  BY RowsAreExec DEF CallsInv, CallsTypes
<1>1. Sites(t)' = Sites(t) /\ Sites(t) \in Seq(BOOLEAN) /\ t \in Rows'
  <2>1. plan \in Plan /\ exec[t].depth \in 0 .. MaxCallDepth
    BY <1>0, CallsAssumption, Zenon DEF CallsTypes, ExecRow
  <2>. QED  BY <2>1, Zenon DEF RowsStay, Sites, Plan
<1>2. DOMAIN Sites(t) = 1 .. Len(Sites(t)) /\ Len(Sites(t)) \in Nat
  BY <1>1
<1>3. engine[t].pc \in EnginePc => engine[t] \in EngineRec
  BY <1>0, EngineMoves, Zenon
<1>4. ASSUME engine[t].pc \in EnginePc, engine[t].pc # "finish", engine' = StageFails(t) PROVE RunsEarn'
  BY <1>0, <1>3, <1>4, EngineComes, FailsEarns, Zenon
\* Where the run comes to is as good as where it was, given its callee and verdict.
<1>5. ASSUME NEW pc \in EnginePc, NEW site, NEW callee, NEW ok, ComesTo(t, pc, site, callee, ok),
             \A k \in DOMAIN Sites(t) : Sites(t)[k] /\ (k < site \/ pc = "finish") => SiteWon(t, k)',
             pc \in {"record", "await", "unwaited", "close"} =>
                callee \in Rows' /\ exec'[callee].parent = t /\ exec'[callee].key = site,
             pc = "unwaited" => ~Sites(t)[site],
             ok => pc \in {"close", "park"},
             pc = "close" /\ ok => callee \in succeeded'
      PROVE  RunsEarn'
  <2>1. \A u \in Exec : u # t => engine'[u] = engine[u]
    BY <1>5, Zenon DEF ComesTo
  <2>2. ASSUME NEW g \in EngineRec, engine'[t] = g PROVE Earns(t, g)'
    <3>1. g.pc = pc /\ g.site = site /\ g.callee = callee /\ g.ok = ok
      BY <1>5, <2>2, Zenon DEF ComesTo
    <3>. QED  BY <1>1, <1>5, <3>1, Zenon DEF Earns
  <2>. QED  BY <1>0, <2>1, <2>2, RunsEarnStep, Zenon
\* What the run had earned, in the next state.
<1>6. ASSUME engine[t].pc \in EnginePc
      PROVE  /\ \A k \in DOMAIN Sites(t) : Sites(t)[k] /\ (k < engine[t].site \/ engine[t].pc = "finish") => SiteWon(t, k)'
             /\ engine[t].pc \in {"record", "await", "unwaited", "close"} =>
                   /\ engine[t].callee \in Rows /\ engine[t].callee \in Rows'
                   /\ exec'[engine[t].callee].parent = t /\ exec'[engine[t].callee].key = engine[t].site
             /\ engine[t].pc = "unwaited" => ~Sites(t)[engine[t].site]
             /\ engine[t].ok => engine[t].pc \in {"close", "park"}
             /\ engine[t].pc = "close" /\ engine[t].ok => engine[t].callee \in succeeded'
             /\ engine[t].site \in Nat /\ engine[t].ok \in BOOLEAN
  <2>1. PICK e \in EngineRec : e = engine[t]
    BY <1>3, <1>6, Zenon
  <2>2. Earns(t, e)
    BY <1>0, <2>1, Zenon DEF RunsEarn
  <2>3. Earns(t, e)'
    BY <2>2, EarnsStays, Zenon
  <2>4. e.site \in Nat /\ e.ok \in BOOLEAN
    BY Zenon DEF EngineRec
  <2>5. e.pc \in {"record", "await", "unwaited", "close"} => e.callee \in Rows
    BY <2>2, Zenon DEF Earns
  <2>. QED  BY <1>1, <2>1, <2>3, <2>4, <2>5, Zenon DEF Earns
<1>7. CASE ClaimExec(t)
  <2>1. engine' = [engine EXCEPT ![t] = [pc |-> IF Sites(t) = <<>> THEN "finish" ELSE "start", site |-> 1,
                                         callee |-> 0, ok |-> FALSE, cut |-> FALSE]]
    BY <1>7, Zenon DEF ClaimExec
  <2>2. ComesTo(t, IF Sites(t) = <<>> THEN "finish" ELSE "start", 1, 0, FALSE)
    BY <1>0, <2>1, Zenon DEF ComesTo, CallsTypes, Engines
  <2>3. Sites(t) = <<>> => DOMAIN Sites(t) = {}
    BY <1>2
  <2>4. \A k \in DOMAIN Sites(t) : ~(k < 1)
    BY <1>2
  <2>5. CASE Sites(t) = <<>>
    <3>1. ComesTo(t, "finish", 1, 0, FALSE)
      BY <2>2, <2>5, Zenon
    <3>. QED  BY <1>5, <2>3, <2>5, <3>1, Zenon DEF EnginePc
  <2>6. CASE Sites(t) # <<>>
    <3>1. ComesTo(t, "start", 1, 0, FALSE)
      BY <2>2, <2>6, Zenon
    <3>. QED  BY <1>5, <2>4, <3>1, Zenon DEF EnginePc
  <2>. QED  BY <2>5, <2>6, Zenon
<1>8. CASE StartCall(t)
  <2>0. engine[t].pc = "start" /\ engine[t].pc \in EnginePc
    BY <1>8, Zenon DEF StartCall, EnginePc
  <2>1. CASE MayCall(t) /\ Called(t, engine[t].site)
             /\ engine' = [Goto(t, "record") EXCEPT ![t].callee = CalleeOf(t, engine[t].site)]
    <3>1. PICK c : c = CalleeOf(t, engine[t].site)
      BY Zenon
    <3>2. c \in Rows' /\ exec'[c].parent = t /\ exec'[c].key = engine[t].site
      BY <1>0, <1>6, <2>0, <2>1, <3>1, CalledAdds, Zenon
    <3>3. ComesTo(t, "record", engine[t].site, c, engine[t].ok)
      BY <1>0, <2>0, <2>1, <3>1, EngineComes, Zenon DEF EnginePc
    <3>. QED  BY <1>5, <1>6, <2>0, <3>2, <3>3, Zenon DEF EnginePc
  <2>2. CASE engine' = StageFails(t)
    BY <1>4, <2>0, <2>2, Zenon
  <2>. QED  BY <1>8, <2>1, <2>2, Zenon DEF StartCall
<1>9. CASE StartCallStep(t)
  <2>0. engine[t].pc = "record" /\ engine[t].pc \in EnginePc
    BY <1>9, Zenon DEF StartCallStep, EnginePc
  <2>1. CASE engine' = Goto(t, IF Sites(t)[engine[t].site] THEN "await" ELSE "unwaited")
    <3>1. CASE Sites(t)[engine[t].site]
      <4>1. ComesTo(t, "await", engine[t].site, engine[t].callee, engine[t].ok)
        BY <1>0, <2>0, <2>1, <3>1, EngineComes, Zenon DEF EnginePc
      <4>. QED  BY <1>5, <1>6, <2>0, <4>1, Zenon DEF EnginePc
    <3>2. CASE ~Sites(t)[engine[t].site]
      <4>1. ComesTo(t, "unwaited", engine[t].site, engine[t].callee, engine[t].ok)
        BY <1>0, <2>0, <2>1, <3>2, EngineComes, Zenon DEF EnginePc
      <4>. QED  BY <1>5, <1>6, <2>0, <3>2, <4>1, Zenon DEF EnginePc
    <3>. QED  BY <3>1, <3>2, Zenon
  <2>2. CASE engine' = StageFails(t)
    BY <1>4, <2>0, <2>2, Zenon
  <2>. QED  BY <1>9, <2>1, <2>2, Zenon DEF StartCallStep
<1>10. CASE CallStatus(t)
  <2>0. engine[t].pc = "await" /\ engine[t].pc \in EnginePc
    BY <1>10, Zenon DEF CallStatus, EnginePc
  <2>1. CASE engine' = [Goto(t, "close") EXCEPT ![t].ok = Verdict(exec[engine[t].callee].status)]
    <3>. DEFINE ok == Verdict(exec[engine[t].callee].status)
    <3>1. CASE ok
      <4>1. ok = TRUE
        BY <3>1, Zenon DEF Verdict
      <4>2. ComesTo(t, "close", engine[t].site, engine[t].callee, TRUE)
        BY <1>0, <2>0, <2>1, <4>1, EngineComes, Zenon DEF EnginePc
      <4>3. engine[t].callee \in succeeded'
        BY <1>6, <2>0, <3>1, Zenon DEF Verdict, SuccessIsKept, RowsStay
      <4>. QED  BY <1>5, <1>6, <2>0, <4>2, <4>3, Zenon DEF EnginePc
    <3>2. CASE ~ok
      <4>1. ok = FALSE
        BY <3>2 DEF Verdict
      <4>2. ComesTo(t, "close", engine[t].site, engine[t].callee, FALSE)
        BY <1>0, <2>0, <2>1, <4>1, EngineComes, Zenon DEF EnginePc
      <4>. QED  BY <1>5, <1>6, <2>0, <4>2, Zenon DEF EnginePc
    <3>. QED  BY <3>1, <3>2, Zenon
  <2>2. CASE engine' = Goto(t, "close")
    <3>1. ComesTo(t, "close", engine[t].site, engine[t].callee, engine[t].ok)
      BY <1>0, <2>0, <2>2, EngineComes, Zenon DEF EnginePc
    <3>. QED  BY <1>5, <1>6, <2>0, <3>1, Zenon DEF EnginePc
  <2>3. CASE engine' = StageFails(t)
    BY <1>4, <2>0, <2>3, Zenon
  <2>. QED  BY <1>10, <2>1, <2>2, <2>3, Zenon DEF CallStatus
\* The site it was at was won, or is not waited for.
<1>11. ASSUME engine[t].pc \in {"close", "unwaited"}, engine' = Passed(t) \/ engine' = [Passed(t) EXCEPT ![t].ok = FALSE],
              engine[t].pc = "close" => engine[t].ok /\ engine' = [Passed(t) EXCEPT ![t].ok = FALSE]
       PROVE  RunsEarn'
  <2>0. engine[t].pc \in EnginePc
    BY <1>11, Zenon DEF EnginePc
  <2>. PICK n \in Nat : n = engine[t].site
    BY <1>6, <2>0, Zenon
  <2>1. Sites(t)[n] => SiteWon(t, n)'
    BY <1>6, <1>11, <2>0, Zenon DEF SiteWon
  <2>2. \A k \in DOMAIN Sites(t) : Sites(t)[k] /\ k < n + 1 => SiteWon(t, k)'
    <3>1. \A k \in DOMAIN Sites(t) : k < n + 1 => k < n \/ k = n
      BY <1>2
    <3>2. \A k \in DOMAIN Sites(t) : Sites(t)[k] /\ k < n => SiteWon(t, k)'
      BY <1>6, <2>0, Zenon
    <3>. QED  BY <2>1, <3>1, <3>2, Zenon
  <2>3. Passes(t, FALSE)
    <3>1. CASE engine[t].ok
      <4>1. engine[t].pc # "unwaited"
        BY <3>1, <1>6, <2>0, Zenon
      <4>. QED  BY <4>1, <1>0, <1>11, <2>0, EnginePasses, Zenon
    <3>2. CASE ~engine[t].ok
      <4>1. engine[t].ok = FALSE
        BY <3>2, <1>6, <2>0, Zenon
      <4>. QED  BY <4>1, <1>0, <1>11, <2>0, EnginePasses, Zenon
    <3>. QED  BY <3>1, <3>2, Zenon
  <2>4. \/ ComesTo(t, "start", n + 1, engine[t].callee, FALSE)
        \/ ~(n < Len(Sites(t))) /\ ComesTo(t, "finish", n, engine[t].callee, FALSE)
    BY <2>3, Zenon DEF Passes
  <2>5. CASE ComesTo(t, "start", n + 1, engine[t].callee, FALSE)
    BY <1>5, <2>2, <2>5, Zenon DEF EnginePc
  <2>6. CASE ~(n < Len(Sites(t))) /\ ComesTo(t, "finish", n, engine[t].callee, FALSE)
    <3>1. \A k \in DOMAIN Sites(t) : k < n + 1
      BY <1>2, <2>6
    <3>. QED  BY <1>5, <2>2, <2>6, <3>1, Zenon DEF EnginePc
  <2>. QED  BY <2>4, <2>5, <2>6, Zenon
<1>12. CASE FinishCallStep(t)
  <2>0. engine[t].pc = "close" /\ engine[t].pc \in EnginePc
    BY <1>12, Zenon DEF FinishCallStep, EnginePc
  <2>1. CASE engine[t].ok /\ engine' = [Passed(t) EXCEPT ![t].ok = FALSE]
    BY <1>11, <2>0, <2>1, Zenon
  <2>2. CASE engine' = StageFails(t)
    BY <1>4, <2>0, <2>2, Zenon
  <2>. QED  BY <1>12, <2>1, <2>2, Zenon DEF FinishCallStep
<1>13. CASE CloseUnwaitedCall(t)
  <2>0. engine[t].pc = "unwaited" /\ engine[t].pc \in EnginePc
    BY <1>13, Zenon DEF CloseUnwaitedCall, EnginePc
  <2>1. CASE engine' = Passed(t)
    BY <1>11, <2>0, <2>1, Zenon
  <2>2. CASE engine' = StageFails(t)
    BY <1>4, <2>0, <2>2, Zenon
  <2>. QED  BY <1>13, <2>1, <2>2, Zenon DEF CloseUnwaitedCall
<1>14. CASE ParkExec(t) \/ FinishExec(t)
  <2>1. engine' = [engine EXCEPT ![t] = Asleep]
    BY <1>14, Zenon DEF ParkExec, FinishExec, Settle
  <2>2. \A u \in Exec : engine'[u] = engine[u] \/ engine'[u] = Asleep
    BY <1>0, <2>1, Zenon DEF CallsTypes, Engines
  <2>. QED  BY <2>2, RunsEarnStays, Zenon
<1>. QED  BY <1>7, <1>8, <1>9, <1>10, <1>12, <1>13, <1>14, Zenon DEF RunExec

\* A cancel that is delivered only tells a run; every other step leaves the runs
\* or ends them all.
LEMMA OthersEarn ==
    ASSUME CallsInv, RunsEarn, SuccessIsKept, RowsStay, [CallsNext]_callsVars, ~\E t \in Rows : RunExec(t)
    PROVE  RunsEarn'
<1>0. engine \in Engines
  BY Zenon DEF CallsInv, CallsTypes
<1>1. CASE engine' = engine
  BY <1>1, RunsEarnStays, Zenon
<1>2. CASE RestartCalls
  BY <1>2, RunsEarnStays, Zenon DEF RestartCalls
<1>3. CASE DeliverCancel /\ engine' # engine
  <2>1. PICK u : engine' = [engine EXCEPT ![u].cut = TRUE] /\ engine[u] # Asleep
    BY <1>3, Zenon DEF DeliverCancel
  <2>2. CASE u \notin Exec
    BY <1>0, <1>1, <2>1, <2>2, Zenon DEF Engines
  <2>3. CASE u \in Exec
    <3>1. PICK e \in EngineRec : e = engine[u]
      BY <1>0, <2>1, <2>3, Zenon DEF Engines
    <3>2. u \in Rows /\ Earns(u, e)
      BY <2>3, <3>1, Zenon DEF RunsEarn
    <3>3. Earns(u, e)' /\ u \in Rows'
      BY <3>2, EarnsStays, Zenon
    <3>4. engine'[u] = [e EXCEPT !.cut = TRUE] /\ \A v \in Exec : v # u => engine'[v] = engine[v]
      BY <1>0, <2>1, <2>3, <3>1, Zenon DEF Engines
    <3>5. ASSUME NEW g \in EngineRec, engine'[u] = g PROVE Earns(u, g)'
      <4>1. g.pc = e.pc /\ g.site = e.site /\ g.callee = e.callee /\ g.ok = e.ok
        BY <3>4, <3>5, Zenon DEF EngineRec
      <4>. QED  BY <3>3, <4>1, Zenon DEF Earns
    <3>6. ASSUME NEW v \in Exec, NEW g \in EngineRec, engine'[v] = g PROVE v \in Rows' /\ Earns(v, g)'
      <4>1. CASE v = u
        BY <3>3, <3>5, <3>6, <4>1, Zenon
      <4>2. CASE v # u
        BY <3>4, <3>6, <4>2, EarnsStays, Zenon DEF RunsEarn
      <4>. QED  BY <4>1, <4>2, Zenon
    <3>. QED  BY <3>6, Zenon DEF RunsEarn
  <2>. QED  BY <2>2, <2>3, Zenon
<1>. QED  BY <1>1, <1>2, <1>3, Zenon DEF CallsNext, Requeue, EndExec, RequestCancel, CancelExecution, callsVars

\* What an execution that completes rests on.
CallsEarned == RunsEarn /\ SuccessIsKept /\ CompletedCallsSucceeded

LEMMA EarnedStep ==
    ASSUME CallsInv, CallsInv', CallsEarned, [CallsNext]_callsVars
    PROVE  CallsEarned'
<1>0. CallsTypes /\ Rows \subseteq Exec /\ RunsEarn /\ SuccessIsKept /\ CompletedCallsSucceeded
  BY RowsAreExec, Zenon DEF CallsInv, CallsEarned
<1>1. RowsStay /\ SuccessMoves
  BY <1>0, RowsAreKept, Zenon
<1>2. RunsEarn'
  BY <1>0, <1>1, RunEarns, OthersEarn, Zenon
<1>3. SuccessIsKept'
  BY <1>0, <1>1, Zenon DEF SuccessIsKept, RowsStay, SuccessMoves, callSucceeded
<1>4. ASSUME NEW t \in Rows', exec'[t].status = "completed", NEW k \in DOMAIN Sites(t)', Sites(t)'[k]
      PROVE  \E c \in succeeded' : exec'[c].parent = t /\ exec'[c].key = k
  <2>1. t \in Rows
    BY <1>1, <1>4, Zenon DEF SuccessMoves
  <2>2. Sites(t)' = Sites(t)
    BY <1>1, <2>1, Zenon DEF RowsStay, Sites
  <2>3. SiteWon(t, k)
    <3>1. CASE exec[t].status = "completed"
      BY <1>0, <1>4, <2>1, <2>2, <3>1 DEF CompletedCallsSucceeded, SiteWon
    <3>2. CASE engine[t].pc = "finish"
      <4>1. engine[t] \in EngineRec
        BY <1>0, <2>1, <3>2, EngineMoves, Zenon DEF EnginePc
      <4>2. PICK e \in EngineRec : e = engine[t]
        BY <4>1, Zenon
      <4>3. Earns(t, e)
        BY <1>0, <2>1, <4>2, Zenon DEF RunsEarn
      <4>. QED  BY <1>4, <2>2, <3>2, <4>2, <4>3, Zenon DEF Earns
    <3>. QED  BY <1>1, <1>4, <2>1, <3>1, <3>2, Zenon DEF SuccessMoves
  <2>. QED  BY <1>0, <1>1, <2>3, Zenon DEF SiteWon, SuccessIsKept, RowsStay
<1>5. CompletedCallsSucceeded'
  BY <1>4, Zenon DEF CompletedCallsSucceeded
<1>. QED  BY <1>2, <1>3, <1>5, Zenon DEF CallsEarned

\* Nothing has completed.
LEMMA EarnedInit == CallsInit => CallsEarned
<1> SUFFICES ASSUME CallsInit PROVE CallsEarned
  BY Zenon
<1>1. Rows = {1} /\ exec[1] = Row(0, 0, 0) /\ succeeded = {}
  BY DEF CallsInit, Rows
<1>2. exec[1].status = "queued"
  BY <1>1 DEF Row
<1>3. \A t \in Exec : engine[t] = Asleep
  BY Zenon DEF CallsInit
<1>4. Asleep \notin EngineRec
  BY Zenon DEF Asleep, EngineRec, EnginePc
<1>5. RunsEarn
  BY <1>3, <1>4, Zenon DEF RunsEarn
<1>. QED  BY <1>1, <1>2, <1>5, Zenon DEF CallsEarned, SuccessIsKept, CompletedCallsSucceeded, callSucceeded

\* An execution completes only if each call it waited for had a child that
\* succeeded, for any tree of calls and any retries, cancels, lost store calls
\* and restarts.
THEOREM CompletionIsEarned == CallsSpec => []CompletedCallsSucceeded
<1>1. CallsInv /\ CallsInv' /\ CallsEarned /\ [CallsNext]_callsVars => CallsEarned'
  BY EarnedStep, Zenon
<1>2. CallsEarned => CompletedCallsSucceeded
  BY Zenon DEF CallsEarned
<1>. QED  BY CallsInvariant, EarnedInit, <1>1, <1>2, PTL DEF CallsSpec
=============================================================================
