-------------------------- MODULE DispatcherProofs --------------------------
(***************************************************************************)
(* The safety properties of Dispatcher for any number of runs,             *)
(* repositories, limits and resumes.  They are inductive together once     *)
(* they are joined by StartedFirst, which says that capacity, waits and    *)
(* reacquire goroutines only exist for runs that have started.  First what *)
(* giveBackLocked and joinRepoLocked do to the invariant; then the steps   *)
(* of a run that never waits; then those of a wait and a resume.           *)
(***************************************************************************)
EXTENDS Dispatcher, FiniteSetTheorems, TLAPS
USE SMTT(20), ZenonT(20)

\* What the dispatcher records about a run follows the run's start: only a
\* started run is listed, waits, resumes or has a slot, and the place a run
\* records is its own, still open, and taken no earlier than its submission.
StartedFirst ==
    /\ \A h \in named : pc[Submitted(h)] \in {"run", "done"}
    /\ \A t \in Task : holds[t] # NoHold => holds[t] \in named
    /\ \A h \in Hold : waits[h] > 0 => h \in named
    /\ \A g \in Goroutine : g[2] > 0 /\ pc[g] # "idle" => g[1] \in named
    /\ \A h \in Hold : slot[h] => pc[Submitted(h)] = "run"
    /\ \A h \in Hold : baton[h] # NoPlace =>
          baton[h][1] = h /\ place[baton[h]] = "open" /\ pc[Submitted(h)] # "idle"

IInv ==
    /\ TypeOK
    /\ StartedFirst
    /\ SlotAccounting
    /\ CapacityReturned
    /\ OpenPlaceIsHeld
    /\ ChainIsLive
    /\ NoLostWakeup

-----------------------------------------------------------------------------
\* Goroutines are pairs; the one Submit starts for a run has index 0.
LEMMA GoroutineFacts ==
    /\ \A h \in Hold : /\ Submitted(h) \in Goroutine
                       /\ Submitted(h)[1] = h
                       /\ Submitted(h)[2] = 0
    /\ \A g \in Goroutine : g[1] \in Hold /\ g[2] \in 0 .. MaxResumes
    /\ \A h \in Hold, k \in 1 .. MaxResumes :
          /\ <<h, k>> \in Goroutine
          /\ <<h, k>>[1] = h
          /\ <<h, k>>[2] = k
    /\ NoPlace \notin Goroutine
BY DispatcherAssumption DEF Submitted, Goroutine

\* Broadcast turns the sleeping goroutines round and leaves the others alone.
LEMMA WokenFacts ==
    ASSUME NEW p \in [Goroutine -> {"idle", "start", "turn", "asleep", "run", "done"}]
    PROVE  /\ Woken(p) \in [Goroutine -> {"idle", "start", "turn", "asleep", "run", "done"}]
           /\ \A g \in Goroutine : Woken(p)[g] # "asleep"
           /\ \A g \in Goroutine : p[g] # "asleep" => Woken(p)[g] = p[g]
           /\ \A g \in Goroutine : p[g] = "asleep" => Woken(p)[g] = "turn"
BY Zenon DEF Woken

Holders(s) == {x \in Hold : s[x]}

\* Recording a slot adds one holder.
LEMMA HolderAdded ==
    ASSUME NEW s \in [Hold -> BOOLEAN], NEW s2 \in [Hold -> BOOLEAN], NEW h \in Hold,
           ~s[h], s2[h], \A x \in Hold : x # h => s2[x] = s[x]
    PROVE  /\ Cardinality(Holders(s)) \in Nat
           /\ Cardinality(Holders(s2)) = Cardinality(Holders(s)) + 1
<1>1. IsFiniteSet(Holders(s))
  BY DispatcherAssumption, FS_Subset, Zenon DEF Holders
<1>2. Cardinality(Holders(s)) \in Nat
  BY <1>1, FS_CardinalityType, Zenon
<1>3. Holders(s2) = Holders(s) \cup {h} /\ h \notin Holders(s)
  BY Zenon DEF Holders
<1>4. Cardinality(Holders(s) \cup {h}) = Cardinality(Holders(s)) + 1
  BY <1>1, <1>3, FS_AddElement, Zenon
<1>. QED  BY <1>2, <1>3, <1>4, Zenon

\* Clearing a slot removes one holder, and there was one.
LEMMA HolderRemoved ==
    ASSUME NEW s \in [Hold -> BOOLEAN], NEW s2 \in [Hold -> BOOLEAN], NEW h \in Hold,
           s[h], ~s2[h], \A x \in Hold : x # h => s2[x] = s[x]
    PROVE  /\ Cardinality(Holders(s2)) = Cardinality(Holders(s)) - 1
           /\ Cardinality(Holders(s2)) \in Nat
<1>1. IsFiniteSet(Holders(s)) /\ IsFiniteSet(Holders(s2))
  BY DispatcherAssumption, FS_Subset, Zenon DEF Holders
<1>2. Cardinality(Holders(s2)) \in Nat
  BY <1>1, FS_CardinalityType, Zenon
<1>3. Holders(s2) = Holders(s) \ {h} /\ h \in Holders(s)
  BY Zenon DEF Holders
<1>4. Cardinality(Holders(s) \ {h}) = Cardinality(Holders(s)) - 1
  BY <1>1, <1>3, FS_RemoveElement, Zenon
<1>. QED  BY <1>2, <1>3, <1>4, Zenon

\* The holders are those of an equal record.
LEMMA HoldersSame ==
    ASSUME NEW s \in [Hold -> BOOLEAN], NEW s2 \in [Hold -> BOOLEAN],
           \A x \in Hold : s2[x] = s[x]
    PROVE  Holders(s2) = Holders(s)
BY Zenon DEF Holders

\* What giveBackLocked preserves and establishes.
LEMMA GiveBackFacts ==
    ASSUME TypeOK, StartedFirst, SlotAccounting, OpenPlaceIsHeld, ChainIsLive,
           NEW h \in Hold, GiveBack(h), behind' = behind
    PROVE  /\ slot' \in [Hold -> BOOLEAN] /\ active' \in Nat
           /\ active' = Cardinality(Holders(slot')) /\ active' <= active
           /\ baton' \in [Hold -> Places]
           /\ place' \in [Goroutine -> {"none", "open", "closed"}]
           /\ repoTail' \in [Repo -> Places]
           /\ OpenPlaceIsHeld' /\ ChainIsLive'
           /\ ~slot'[h] /\ baton'[h] = NoPlace
           /\ \A x \in Hold : x # h => slot'[x] = slot[x] /\ baton'[x] = baton[x]
           /\ \A x \in Hold : baton'[x] # NoPlace =>
                 baton'[x] = baton[x] /\ baton[x][1] = x /\ place'[baton[x]] = "open"
<1>. USE GoroutineFacts, DispatcherAssumption
<1>1. /\ slot' = [slot EXCEPT ![h] = FALSE]
      /\ active' = IF slot[h] THEN active - 1 ELSE active
      /\ baton' = [baton EXCEPT ![h] = NoPlace]
      /\ place' = [g \in Goroutine |-> IF g = baton[h] THEN "closed" ELSE place[g]]
      /\ repoTail' = IF baton[h] # NoPlace /\ repoTail[RepoOf[h]] = baton[h]
                     THEN [repoTail EXCEPT ![RepoOf[h]] = NoPlace] ELSE repoTail
  BY Zenon DEF GiveBack, CountedOut, TailWithout
<1>2. slot' \in [Hold -> BOOLEAN] /\ ~slot'[h] /\ \A x \in Hold : x # h => slot'[x] = slot[x]
  BY <1>1 DEF TypeOK
<1>3. active' \in Nat /\ active' = Cardinality(Holders(slot')) /\ active' <= active
  <2>1. active = Cardinality(Holders(slot)) /\ active \in Nat /\ slot \in [Hold -> BOOLEAN]
    BY Zenon DEF TypeOK, SlotAccounting, Holders
  <2>2. CASE slot[h]
    <3>1. /\ Cardinality(Holders(slot')) = Cardinality(Holders(slot)) - 1
          /\ Cardinality(Holders(slot')) \in Nat
      BY <1>2, <2>1, <2>2, HolderRemoved
    <3>. QED  BY <1>1, <2>1, <2>2, <3>1
  <2>3. CASE ~slot[h]
    <3>1. Holders(slot') = Holders(slot)
      BY <1>2, <2>1, <2>3, HoldersSame
    <3>. QED  BY <1>1, <2>1, <2>3, <3>1
  <2>. QED  BY <2>2, <2>3, Zenon
<1>4. /\ baton' \in [Hold -> Places] /\ baton'[h] = NoPlace
      /\ place' \in [Goroutine -> {"none", "open", "closed"}]
      /\ repoTail' \in [Repo -> Places]
      /\ \A x \in Hold : x # h => baton'[x] = baton[x]
  BY <1>1 DEF TypeOK, Places
<1>5. \A x \in Hold : baton'[x] # NoPlace =>
         baton'[x] = baton[x] /\ baton[x][1] = x /\ place'[baton[x]] = "open"
  BY <1>1, <1>4 DEF TypeOK, StartedFirst, Places
<1>6. OpenPlaceIsHeld'
  BY <1>1, <1>4 DEF OpenPlaceIsHeld, TypeOK, Places
<1>7. ChainIsLive'
  <2>1. ASSUME NEW g \in Goroutine, behind[g] # NoPlace
        PROVE  place'[behind[g]] # "none" /\ RepoOf[behind[g][1]] = RepoOf[g[1]]
    BY <1>1, <2>1 DEF ChainIsLive, TypeOK, Places
  <2>2. ASSUME NEW r \in Repo, repoTail'[r] # NoPlace
        PROVE  baton'[repoTail'[r][1]] = repoTail'[r] /\ RepoOf[repoTail'[r][1]] = r
    <3>1. repoTail'[r] = repoTail[r] /\ repoTail[r] \in Goroutine
      BY <1>1, <2>2 DEF TypeOK, Places
    <3>2. repoTail[r][1] # h
      BY <1>1, <2>2, <3>1 DEF ChainIsLive, TypeOK, Places
    <3>. QED  BY <1>4, <2>2, <3>1, <3>2 DEF ChainIsLive
  <2>. QED  BY <2>1, <2>2, Zenon DEF ChainIsLive
<1>. QED  BY <1>2, <1>3, <1>4, <1>5, <1>6, <1>7, Zenon

\* What joinRepoLocked preserves and establishes, for a run with no place.
LEMMA JoinFacts ==
    ASSUME TypeOK, StartedFirst, OpenPlaceIsHeld, ChainIsLive,
           NEW g \in Goroutine, baton[g[1]] = NoPlace, Join(g)
    PROVE  /\ baton' \in [Hold -> Places]
           /\ place' \in [Goroutine -> {"none", "open", "closed"}]
           /\ repoTail' \in [Repo -> Places]
           /\ behind' \in [Goroutine -> Places]
           /\ OpenPlaceIsHeld' /\ ChainIsLive'
           /\ \A x \in Hold : x # g[1] => baton'[x] = baton[x]
           /\ \A x \in Hold : baton'[x] # NoPlace =>
                 baton'[x][1] = x /\ place'[baton'[x]] = "open"
<1>. USE GoroutineFacts, DispatcherAssumption
<1>. DEFINE h == g[1]
<1>1. /\ h \in Hold /\ RepoOf[h] \in Repo
      /\ place' = [place EXCEPT ![g] = "open"]
      /\ baton' = [baton EXCEPT ![h] = g]
      /\ behind' = [behind EXCEPT ![g] = repoTail[RepoOf[h]]]
      /\ repoTail' = [repoTail EXCEPT ![RepoOf[h]] = g]
  BY Zenon DEF Join
<1>2. /\ baton' \in [Hold -> Places]
      /\ place' \in [Goroutine -> {"none", "open", "closed"}]
      /\ repoTail' \in [Repo -> Places]
      /\ behind' \in [Goroutine -> Places]
  BY <1>1, Zenon DEF TypeOK, Places
<1>3. \A x \in Hold : x # h => baton'[x] = baton[x]
  BY <1>1 DEF TypeOK
<1>4. \A x \in Hold : baton'[x] # NoPlace =>
         baton'[x][1] = x /\ place'[baton'[x]] = "open"
  BY <1>1 DEF TypeOK, StartedFirst, Places
<1>5. OpenPlaceIsHeld'
  <2>1. SUFFICES ASSUME NEW f \in Goroutine, place'[f] = "open"
                 PROVE  baton'[f[1]] = f
    BY Zenon DEF OpenPlaceIsHeld
  <2>2. CASE f = g
    BY <1>1, <2>2, Zenon DEF TypeOK
  <2>3. CASE f # g
    BY <1>1, <2>1, <2>3 DEF TypeOK, OpenPlaceIsHeld
  <2>. QED  BY <2>2, <2>3, Zenon
<1>6. ChainIsLive'
  <2>1. ASSUME NEW f \in Goroutine, behind'[f] # NoPlace
        PROVE  place'[behind'[f]] # "none" /\ RepoOf[behind'[f][1]] = RepoOf[f[1]]
    <3>1. CASE f = g
      <4>1. behind'[g] = repoTail[RepoOf[h]] /\ repoTail[RepoOf[h]] \in Goroutine
        BY <1>1, <2>1, <3>1 DEF TypeOK, Places
      <4>2. /\ baton[repoTail[RepoOf[h]][1]] = repoTail[RepoOf[h]]
            /\ RepoOf[repoTail[RepoOf[h]][1]] = RepoOf[h]
        BY <1>1, <2>1, <3>1, <4>1, Zenon DEF ChainIsLive
      <4>3. place[repoTail[RepoOf[h]]] = "open"
        BY <4>1, <4>2 DEF StartedFirst
      <4>. QED  BY SMTT(60), <1>1, <3>1, <4>1, <4>2, <4>3 DEF TypeOK
    <3>2. CASE f # g
      BY <1>1, <2>1, <3>2 DEF TypeOK, ChainIsLive, Places
    <3>. QED  BY <3>1, <3>2, Zenon
  <2>2. ASSUME NEW r \in Repo, repoTail'[r] # NoPlace
        PROVE  baton'[repoTail'[r][1]] = repoTail'[r] /\ RepoOf[repoTail'[r][1]] = r
    <3>1. CASE r = RepoOf[h]
      BY <1>1, <3>1 DEF TypeOK
    <3>2. CASE r # RepoOf[h]
      BY <1>1, <2>2, <3>2 DEF TypeOK, ChainIsLive, Places
    <3>. QED  BY <3>1, <3>2, Zenon
  <2>. QED  BY <2>1, <2>2, Zenon DEF ChainIsLive
<1>. QED  BY <1>2, <1>3, <1>4, <1>5, <1>6, Zenon

-----------------------------------------------------------------------------
\* newTaskDispatcher's empty dispatcher satisfies the inductive invariant.
THEOREM DispatcherInit == Init => IInv
<1>. SUFFICES ASSUME Init PROVE IInv
  BY Zenon
<1>. USE GoroutineFacts, DispatcherAssumption DEF Init
<1>1. TypeOK
  BY Zenon DEF TypeOK, Places
<1>2. StartedFirst
  BY DEF StartedFirst
<1>3. SlotAccounting
  <2>1. {h \in Hold : slot[h]} = {}
    BY Zenon
  <2>. QED  BY <2>1, FS_EmptySet, Zenon DEF SlotAccounting
<1>4. CapacityReturned
  BY Zenon DEF CapacityReturned, Finished
<1>5. OpenPlaceIsHeld /\ ChainIsLive
  BY Zenon DEF OpenPlaceIsHeld, ChainIsLive
<1>6. NoLostWakeup
  BY Zenon DEF NoLostWakeup
<1>. QED  BY <1>1, <1>2, <1>3, <1>4, <1>5, <1>6, Zenon DEF IInv

-----------------------------------------------------------------------------
\* The step facts below share their hypotheses: the invariant holds, and the
\* primed variables of one action are as the action says.

\* Steps that leave pc, the chains, the slots and what is listed alone.
LEMMA QuietStep ==
    ASSUME IInv, UNCHANGED <<chain, slots, listing, pc, limit>>, TypeOK',
           waiter' = "asleep" => waiter = "asleep" \/ Pending
    PROVE  IInv'
<1>1. StartedFirst' /\ SlotAccounting' /\ CapacityReturned' /\ OpenPlaceIsHeld' /\ ChainIsLive'
  BY Zenon DEF IInv, chain, slots, listing, StartedFirst, SlotAccounting,
         CapacityReturned, OpenPlaceIsHeld, ChainIsLive, Finished
<1>2. NoLostWakeup'
  BY Zenon DEF IInv, chain, slots, listing, NoLostWakeup, HasRoom, Pending
<1>. QED  BY <1>1, <1>2, Zenon DEF IInv

-----------------------------------------------------------------------------

\* Submit, which joins the repository's chain, keeps the inductive invariant.
LEMMA SubmitStep ==
    ASSUME IInv, NEW h \in Hold, Submit(h)
    PROVE  IInv'
<1>. DEFINE g == Submitted(h)
<1>. USE GoroutineFacts, DispatcherAssumption
<1>1. /\ pc[g] = "idle" /\ pc' = [pc EXCEPT ![g] = "turn"]
      /\ slot' = slot /\ active' = active /\ waits' = waits /\ named' = named
      /\ holds' = holds /\ limit' = limit /\ call' = call /\ reading' = reading
      /\ waiter' = waiter /\ waiter = "none"
  BY Zenon DEF Submit, slots, listing
<1>2. h \notin named /\ waits[h] = 0 /\ baton[h] = NoPlace /\ ~slot[h]
  BY <1>1 DEF IInv, StartedFirst, TypeOK
<1>3. /\ baton' \in [Hold -> Places]
      /\ place' \in [Goroutine -> {"none", "open", "closed"}]
      /\ repoTail' \in [Repo -> Places]
      /\ behind' \in [Goroutine -> Places]
      /\ OpenPlaceIsHeld' /\ ChainIsLive'
      /\ \A x \in Hold : x # h => baton'[x] = baton[x]
      /\ \A x \in Hold : baton'[x] # NoPlace =>
            baton'[x][1] = x /\ place'[baton'[x]] = "open"
  <2>1. CASE h \in Concurrent
    <3>1. baton' = baton /\ place' = place /\ repoTail' = repoTail /\ behind' = behind
      BY <2>1, Zenon DEF Submit, chain
    <3>. QED  BY <3>1, Zenon DEF IInv, TypeOK, OpenPlaceIsHeld, ChainIsLive, StartedFirst
  <2>2. CASE h \notin Concurrent
    <3>1. Join(g)
      BY <2>2, Zenon DEF Submit
    <3>. QED  BY <1>2, <3>1, JoinFacts DEF IInv
  <2>. QED  BY <2>1, <2>2, Zenon
<1>4. TypeOK'
  BY <1>1, <1>3, Zenon DEF IInv, TypeOK
<1>5. StartedFirst'
  BY <1>1, <1>2, <1>3 DEF IInv, TypeOK, StartedFirst
<1>6. SlotAccounting'
  BY <1>1, Zenon DEF IInv, SlotAccounting
<1>7. CapacityReturned'
  BY <1>1, <1>2, <1>3 DEF IInv, TypeOK, CapacityReturned, Finished
<1>8. NoLostWakeup'
  BY <1>1 DEF IInv, TypeOK, NoLostWakeup, HasRoom
<1>. QED  BY <1>3, <1>4, <1>5, <1>6, <1>7, <1>8, Zenon DEF IInv

\* A goroutine that finds no free slot and sleeps keeps it.
LEMMA SleepStep ==
    ASSUME IInv, NEW g \in Goroutine, Sleep(g)
    PROVE  IInv'
<1>. USE GoroutineFacts, DispatcherAssumption
<1>1. /\ pc[g] = "turn" /\ ~HasRoom /\ pc' = [pc EXCEPT ![g] = "asleep"]
      /\ UNCHANGED <<behind, place, baton, repoTail, slot, active, waits, named,
                     holds, limit, call, reading, waiter>>
  BY Zenon DEF Sleep, chain, slots, listing
<1>2. TypeOK'
  BY <1>1, Zenon DEF IInv, TypeOK
<1>3. StartedFirst'
  BY <1>1 DEF IInv, TypeOK, StartedFirst
<1>4. SlotAccounting' /\ OpenPlaceIsHeld' /\ ChainIsLive'
  BY <1>1 DEF IInv, SlotAccounting, OpenPlaceIsHeld, ChainIsLive
<1>5. CapacityReturned'
  BY <1>1 DEF IInv, TypeOK, CapacityReturned, Finished
<1>6. NoLostWakeup'
  BY <1>1 DEF IInv, TypeOK, NoLostWakeup, HasRoom, Pending
<1>. QED  BY <1>2, <1>3, <1>4, <1>5, <1>6, Zenon DEF IInv

\* Taking a slot and starting the run (takeSlotLocked) keeps it.
LEMMA StartStep ==
    ASSUME IInv, NEW h \in Hold, Start(h)
    PROVE  IInv'
<1>. DEFINE g == Submitted(h)
<1>. USE GoroutineFacts, DispatcherAssumption
<1>1. /\ pc[g] = "turn" /\ HasRoom /\ pc' = [pc EXCEPT ![g] = "run"]
      /\ active' = active + 1 /\ slot' = [slot EXCEPT ![h] = TRUE]
      /\ UNCHANGED <<behind, place, baton, repoTail, waits, named, holds, limit,
                     call, reading, waiter>>
  BY Zenon DEF Start, chain, listing
<1>2. h \notin named /\ waits[h] = 0 /\ ~slot[h]
  BY <1>1 DEF IInv, StartedFirst, TypeOK
<1>3. TypeOK'
  BY <1>1 DEF IInv, TypeOK
<1>4. StartedFirst'
  BY <1>1, <1>2 DEF IInv, TypeOK, StartedFirst
<1>5. SlotAccounting'
  <2>1. /\ slot \in [Hold -> BOOLEAN] /\ slot' \in [Hold -> BOOLEAN]
        /\ slot'[h] /\ \A x \in Hold : x # h => slot'[x] = slot[x]
    BY <1>1 DEF IInv, TypeOK
  <2>2. Cardinality(Holders(slot')) = Cardinality(Holders(slot)) + 1
    BY <1>2, <2>1, HolderAdded
  <2>. QED  BY <1>1, <2>2, Zenon DEF IInv, SlotAccounting, Holders
<1>6. OpenPlaceIsHeld' /\ ChainIsLive'
  BY <1>1, Zenon DEF IInv, OpenPlaceIsHeld, ChainIsLive
<1>7. CapacityReturned'
  BY <1>1, <1>2 DEF IInv, TypeOK, CapacityReturned, Finished
<1>8. NoLostWakeup'
  BY <1>1 DEF IInv, TypeOK, NoLostWakeup, HasRoom, Pending
<1>. QED  BY <1>3, <1>4, <1>5, <1>6, <1>7, <1>8, Zenon DEF IInv

\* Listing the run under its task (taskHold.name) keeps it.
LEMMA NameStep ==
    ASSUME IInv, NEW h \in Hold, Name(h)
    PROVE  IInv'
<1>. USE GoroutineFacts, DispatcherAssumption
<1>1. /\ pc[Submitted(h)] = "run" /\ named' = named \cup {h}
      /\ holds' = [holds EXCEPT ![TaskOf[h]] = h]
      /\ UNCHANGED <<pc, behind, place, baton, repoTail, slot, active, waits,
                     limit, call, reading, waiter>>
  BY Zenon DEF Name, chain, slots
<1>2. TypeOK'
  BY <1>1 DEF IInv, TypeOK
<1>3. StartedFirst'
  BY <1>1 DEF IInv, TypeOK, StartedFirst
<1>4. SlotAccounting' /\ OpenPlaceIsHeld' /\ ChainIsLive' /\ CapacityReturned'
  BY <1>1 DEF IInv, SlotAccounting, OpenPlaceIsHeld, ChainIsLive, CapacityReturned, Finished
<1>5. NoLostWakeup'
  BY <1>1, Zenon DEF IInv, NoLostWakeup, HasRoom, Pending
<1>. QED  BY <1>2, <1>3, <1>4, <1>5, Zenon DEF IInv

\* finishRun, with everything it gives back and wakes, keeps it.
LEMMA FinishRunStep ==
    ASSUME IInv, NEW h \in Hold, FinishRun(h)
    PROVE  IInv'
<1>. DEFINE g == Submitted(h)
<1>. DEFINE p == [pc EXCEPT ![g] = "done"]
<1>. USE GoroutineFacts, DispatcherAssumption
<1>1. /\ pc[g] = "run" /\ pc' = Woken(p)
      /\ holds' = IF holds[TaskOf[h]] = h THEN [holds EXCEPT ![TaskOf[h]] = NoHold] ELSE holds
      /\ waiter' = IF waiter = "asleep" THEN "check" ELSE waiter
      /\ GiveBack(h)
      /\ UNCHANGED <<behind, waits, named, limit, call, reading>>
  BY Zenon DEF FinishRun, Unlisted, WakeWaiter
<1>2. p \in [Goroutine -> {"idle", "start", "turn", "asleep", "run", "done"}]
  BY <1>1, Zenon DEF IInv, TypeOK
<1>3. /\ pc' \in [Goroutine -> {"idle", "start", "turn", "asleep", "run", "done"}]
      /\ pc'[g] = "done"
      /\ \A f \in Goroutine : pc'[f] # "asleep"
      /\ \A f \in Goroutine : f # g /\ pc[f] # "asleep" => pc'[f] = pc[f]
      /\ \A f \in Goroutine : f # g /\ pc[f] = "asleep" => pc'[f] = "turn"
  <2>1. /\ p[g] = "done"
        /\ \A f \in Goroutine : f # g => p[f] = pc[f]
    BY DEF IInv, TypeOK
  <2>. HIDE DEF p
  <2>. QED  BY <1>1, <1>2, <2>1, WokenFacts
<1>4. /\ slot' \in [Hold -> BOOLEAN] /\ active' \in Nat
      /\ active' = Cardinality(Holders(slot'))
      /\ baton' \in [Hold -> Places]
      /\ place' \in [Goroutine -> {"none", "open", "closed"}]
      /\ repoTail' \in [Repo -> Places]
      /\ OpenPlaceIsHeld' /\ ChainIsLive'
      /\ ~slot'[h] /\ baton'[h] = NoPlace
      /\ \A x \in Hold : x # h => slot'[x] = slot[x] /\ baton'[x] = baton[x]
      /\ \A x \in Hold : baton'[x] # NoPlace =>
            baton'[x] = baton[x] /\ baton[x][1] = x /\ place'[baton[x]] = "open"
  BY <1>1, GiveBackFacts DEF IInv
<1>5. \A x \in Hold : x # h => Submitted(x) # g
  OBVIOUS
<1>6. TypeOK'
  BY <1>1, <1>3, <1>4, Zenon DEF IInv, TypeOK
<1>7. StartedFirst'
  <2>. HIDE DEF p
  <2>1. \A x \in named' : pc'[Submitted(x)] \in {"run", "done"}
    <3>. SUFFICES ASSUME NEW x \in named'
                  PROVE  pc'[Submitted(x)] \in {"run", "done"}
      BY Zenon
    <3>1. x \in named /\ x \in Hold
      BY <1>1, Zenon DEF IInv, TypeOK
    <3>2. Submitted(x) \in Goroutine /\ pc[Submitted(x)] \in {"run", "done"}
      BY <3>1, Zenon DEF IInv, StartedFirst
    <3>. QED  BY <1>3, <3>2, Zenon
  <2>2. \A t \in Task : holds'[t] # NoHold => holds'[t] \in named'
    BY <1>1 DEF IInv, TypeOK, StartedFirst
  <2>3. \A x \in Hold : waits'[x] > 0 => x \in named'
    BY <1>1, Zenon DEF IInv, TypeOK, StartedFirst
  <2>4. \A f \in Goroutine : f[2] > 0 /\ pc'[f] # "idle" => f[1] \in named'
    BY <1>1, <1>3 DEF IInv, TypeOK, StartedFirst
  <2>5. \A x \in Hold : slot'[x] => pc'[Submitted(x)] = "run"
    <3>. SUFFICES ASSUME NEW x \in Hold, slot'[x]
                  PROVE  pc'[Submitted(x)] = "run"
      BY Zenon
    <3>1. x # h /\ slot[x]
      BY <1>4
    <3>2. Submitted(x) \in Goroutine /\ pc[Submitted(x)] = "run" /\ Submitted(x) # g
      BY <1>5, <3>1, Zenon DEF IInv, StartedFirst
    <3>. QED  BY <1>3, <3>2, Zenon
  <2>6. \A x \in Hold : baton'[x] # NoPlace =>
           baton'[x][1] = x /\ place'[baton'[x]] = "open" /\ pc'[Submitted(x)] # "idle"
    <3>. SUFFICES ASSUME NEW x \in Hold, baton'[x] # NoPlace
                  PROVE  baton'[x][1] = x /\ place'[baton'[x]] = "open" /\ pc'[Submitted(x)] # "idle"
      BY Zenon
    <3>1. x # h /\ baton'[x] = baton[x] /\ baton[x][1] = x /\ place'[baton[x]] = "open"
      BY <1>4, Zenon
    <3>2. Submitted(x) \in Goroutine /\ pc[Submitted(x)] # "idle" /\ Submitted(x) # g
      BY <1>5, <3>1, Zenon DEF IInv, StartedFirst
    <3>. QED  BY <1>3, <3>1, <3>2, Zenon
  <2>. QED  BY <2>1, <2>2, <2>3, <2>4, <2>5, <2>6, Zenon DEF StartedFirst
<1>8. SlotAccounting'
  BY <1>4, Zenon DEF SlotAccounting, Holders
<1>9. CapacityReturned'
  <2>. HIDE DEF p
  <2>1. SUFFICES ASSUME NEW x \in Hold, Finished(x)' \/ waits'[x] > 0
                 PROVE  ~slot'[x] /\ baton'[x] = NoPlace
    BY Zenon DEF CapacityReturned
  <2>2. CASE x = h
    BY <1>4, <2>2, Zenon
  <2>3. CASE x # h
    <3>1. Finished(x) \/ waits[x] > 0
      BY <1>1, <1>3, <1>5, <2>1, <2>3, Zenon DEF Finished
    <3>. QED  BY <1>4, <2>3, <3>1, Zenon DEF IInv, CapacityReturned
  <2>. QED  BY <2>2, <2>3, Zenon
<1>10. NoLostWakeup'
  BY <1>1, <1>3, Zenon DEF IInv, TypeOK, NoLostWakeup
<1>. QED  BY <1>4, <1>6, <1>7, <1>8, <1>9, <1>10, Zenon DEF IInv

\* Changing the limit, up or down, keeps it.
LEMMA SetMaxConcurrencyStep ==
    ASSUME IInv, NEW l \in Limits, SetMaxConcurrency(l)
    PROVE  IInv'
<1>. USE GoroutineFacts, DispatcherAssumption
<1>1. /\ limit' = l /\ pc' = Woken(pc)
      /\ waiter' = IF waiter = "asleep" THEN "check" ELSE waiter
      /\ UNCHANGED <<behind, place, baton, repoTail, slot, active, waits, named,
                     holds, call, reading>>
  BY Zenon DEF SetMaxConcurrency, WakeWaiter, chain, slots, listing
<1>2. /\ pc' \in [Goroutine -> {"idle", "start", "turn", "asleep", "run", "done"}]
      /\ \A f \in Goroutine : pc'[f] # "asleep"
      /\ \A f \in Goroutine : pc[f] # "asleep" => pc'[f] = pc[f]
      /\ \A f \in Goroutine : pc[f] = "asleep" => pc'[f] = "turn"
  BY <1>1, WokenFacts DEF IInv, TypeOK
<1>3. TypeOK'
  BY <1>1, <1>2, Zenon DEF IInv, TypeOK
<1>4. StartedFirst'
  BY <1>1, <1>2 DEF IInv, TypeOK, StartedFirst
<1>5. SlotAccounting' /\ OpenPlaceIsHeld' /\ ChainIsLive'
  BY <1>1, Zenon DEF IInv, SlotAccounting, OpenPlaceIsHeld, ChainIsLive
<1>6. CapacityReturned'
  BY <1>1, <1>2 DEF IInv, TypeOK, CapacityReturned, Finished
<1>7. NoLostWakeup'
  BY <1>1, <1>2, Zenon DEF IInv, TypeOK, NoLostWakeup
<1>. QED  BY <1>3, <1>4, <1>5, <1>6, <1>7, Zenon DEF IInv

\* setCallWaits for a run that waits keeps it.
LEMMA ApplyWaitingStep ==
    ASSUME IInv, NEW h \in Hold, ApplyWaiting(h)
    PROVE  IInv'
<1>0. /\ TaskOf[h] \in Task /\ h # NoHold
      /\ \A x \in Hold : Submitted(x) \in Goroutine
  BY GoroutineFacts, DispatcherAssumption, Zenon
<1>a. /\ pc \in [Goroutine -> {"idle", "start", "turn", "asleep", "run", "done"}]
      /\ waits \in [Hold -> Nat] /\ named \subseteq Hold /\ reading.waits \in Nat
  BY Zenon DEF IInv, TypeOK
<1>1. /\ reading.hold = h /\ holds[TaskOf[h]] = h /\ ~Finished(h)
      /\ waits' = [waits EXCEPT ![h] = reading.waits]
      /\ pc' = Woken(pc) /\ GiveBack(h)
      /\ waiter' = IF waiter = "asleep" THEN "check" ELSE waiter
      /\ reading' = [hold |-> NoHold, waits |-> 0]
      /\ UNCHANGED <<behind, named, holds, limit, call>>
  BY Zenon DEF ApplyWaiting, Retired, WakeWaiter
<1>2. /\ pc' \in [Goroutine -> {"idle", "start", "turn", "asleep", "run", "done"}]
      /\ \A f \in Goroutine : pc'[f] # "asleep"
      /\ \A f \in Goroutine : pc[f] # "asleep" => pc'[f] = pc[f]
      /\ \A f \in Goroutine : pc[f] = "asleep" => pc'[f] = "turn"
  <2>1. pc' = Woken(pc)
    BY <1>1, Zenon
  <2>. QED  BY <1>a, <2>1, WokenFacts, Zenon
<1>3. h \in named /\ reading.waits \in Nat
  <2>1. \A t \in Task : holds[t] # NoHold => holds[t] \in named
    BY Zenon DEF IInv, StartedFirst
  <2>2. holds[TaskOf[h]] = h
    BY <1>1, Zenon
  <2>. QED  BY <1>0, <1>a, <2>1, <2>2, Zenon
<1>4. /\ slot' \in [Hold -> BOOLEAN] /\ active' \in Nat
      /\ active' = Cardinality(Holders(slot'))
      /\ baton' \in [Hold -> Places]
      /\ place' \in [Goroutine -> {"none", "open", "closed"}]
      /\ repoTail' \in [Repo -> Places]
      /\ OpenPlaceIsHeld' /\ ChainIsLive'
      /\ ~slot'[h] /\ baton'[h] = NoPlace
      /\ \A x \in Hold : x # h => slot'[x] = slot[x] /\ baton'[x] = baton[x]
      /\ \A x \in Hold : baton'[x] # NoPlace =>
            baton'[x] = baton[x] /\ baton[x][1] = x /\ place'[baton[x]] = "open"
  BY <1>1, GoroutineFacts, DispatcherAssumption, GiveBackFacts DEF IInv
<1>5. TypeOK'
  BY <1>1, <1>2, <1>3, <1>4, DispatcherAssumption, Zenon DEF IInv, TypeOK
<1>6. StartedFirst'
  <2>1. \A x \in named' : pc'[Submitted(x)] \in {"run", "done"}
    <3>1. named' = named
      BY <1>1, Zenon
    <3>2. \A x \in named : pc[Submitted(x)] \in {"run", "done"}
      BY Zenon DEF IInv, StartedFirst
    <3>3. \A x \in named : pc[Submitted(x)] # "asleep"
      BY <3>2, Zenon
    <3>. QED  BY <1>0, <1>a, <1>2, <3>1, <3>2, <3>3, Zenon
  <2>2. \A t \in Task : holds'[t] # NoHold => holds'[t] \in named'
    BY <1>1, Zenon DEF IInv, TypeOK, StartedFirst
  <2>3. \A x \in Hold : waits'[x] > 0 => x \in named'
    <3>1. \A x \in Hold : x # h => waits'[x] = waits[x]
      <4>1. waits' = [waits EXCEPT ![h] = reading.waits]
        BY <1>1, Zenon
      <4>. QED  BY <1>a, <4>1, Zenon
    <3>2. named' = named /\ \A x \in Hold : waits[x] > 0 => x \in named
      BY <1>1, Zenon DEF IInv, StartedFirst
    <3>. QED  BY <1>3, <3>1, <3>2, Zenon
  <2>4. \A f \in Goroutine : f[2] > 0 /\ pc'[f] # "idle" => f[1] \in named'
    <3>1. named' = named /\ \A f \in Goroutine : f[2] > 0 /\ pc[f] # "idle" => f[1] \in named
      BY <1>1, Zenon DEF IInv, StartedFirst
    <3>2. \A f \in Goroutine : pc'[f] # "idle" => pc[f] # "idle"
      BY <1>2, Zenon
    <3>. QED  BY <3>1, <3>2, Zenon
  <2>5. \A x \in Hold : slot'[x] => pc'[Submitted(x)] = "run"
    <3>. SUFFICES ASSUME NEW x \in Hold, slot'[x]
                  PROVE  pc'[Submitted(x)] = "run"
      BY Zenon
    <3>1. slot[x]
      BY <1>4, Zenon
    <3>2. Submitted(x) \in Goroutine /\ pc[Submitted(x)] = "run"
      BY <1>0, <3>1, Zenon DEF IInv, StartedFirst
    <3>. QED  BY <1>2, <3>2, Zenon
  <2>6. \A x \in Hold : baton'[x] # NoPlace =>
           baton'[x][1] = x /\ place'[baton'[x]] = "open" /\ pc'[Submitted(x)] # "idle"
    <3>. SUFFICES ASSUME NEW x \in Hold, baton'[x] # NoPlace
                  PROVE  baton'[x][1] = x /\ place'[baton'[x]] = "open" /\ pc'[Submitted(x)] # "idle"
      BY Zenon
    <3>1. baton'[x] = baton[x] /\ baton[x][1] = x /\ place'[baton[x]] = "open"
      BY <1>4, Zenon
    <3>2. Submitted(x) \in Goroutine /\ pc[Submitted(x)] # "idle"
      BY <1>0, <3>1, Zenon DEF IInv, StartedFirst
    <3>. QED  BY <1>2, <3>1, <3>2, Zenon
  <2>. QED  BY <2>1, <2>2, <2>3, <2>4, <2>5, <2>6, Zenon DEF StartedFirst
<1>7. SlotAccounting'
  BY <1>4, Zenon DEF SlotAccounting, Holders
<1>8. CapacityReturned'
  <2>. SUFFICES ASSUME NEW x \in Hold, Finished(x)' \/ waits'[x] > 0
                PROVE  ~slot'[x] /\ baton'[x] = NoPlace
    BY Zenon DEF CapacityReturned
  <2>1. CASE x = h
    BY <1>4, <2>1, Zenon
  <2>2. CASE x # h
    <3>1. Finished(x) \/ waits[x] > 0
      <4>1. waits' = [waits EXCEPT ![h] = reading.waits]
        BY <1>1, Zenon
      <4>2. waits'[x] = waits[x]
        BY <1>a, <2>2, <4>1, Zenon
      <4>3. pc'[Submitted(x)] = "done" => pc[Submitted(x)] = "done"
        BY <1>0, <1>2, Zenon
      <4>. QED  BY <4>2, <4>3, Zenon DEF Finished
    <3>. QED  BY <1>4, <2>2, <3>1, Zenon DEF IInv, CapacityReturned
  <2>. QED  BY <2>1, <2>2, Zenon
<1>9. NoLostWakeup'
  BY <1>1, <1>2, Zenon DEF IInv, TypeOK, NoLostWakeup
<1>. QED  BY <1>4, <1>5, <1>6, <1>7, <1>8, <1>9, Zenon DEF IInv

-----------------------------------------------------------------------------

\* setCallWaits for a run that waits no more keeps it.
LEMMA ApplyResumedStep ==
    ASSUME IInv, NEW h \in Hold, ApplyResumed(h)
    PROVE  IInv'
<1>. USE GoroutineFacts, DispatcherAssumption
<1>1. /\ holds[TaskOf[h]] = h /\ waits' = [waits EXCEPT ![h] = 0]
      /\ reading' = [hold |-> NoHold, waits |-> 0]
      /\ UNCHANGED <<behind, place, baton, repoTail, slot, active, named, holds,
                     limit, call, waiter>>
  BY Zenon DEF ApplyResumed, Retired, chain, slots
<1>2. h \in named
  BY <1>1 DEF IInv, TypeOK, StartedFirst
<1>3. /\ pc' \in [Goroutine -> {"idle", "start", "turn", "asleep", "run", "done"}]
      /\ \A f \in Goroutine : f[2] = 0 => pc'[f] = pc[f]
      /\ \A f \in Goroutine : pc'[f] # pc[f] => f[1] = h /\ pc'[f] = "start"
  <2>1. CASE waits[h] > 0
    <3>1. PICK k \in 1 .. MaxResumes : pc' = [pc EXCEPT ![<<h, k>>] = "start"]
      BY <2>1, Zenon DEF ApplyResumed
    <3>. QED  BY <3>1 DEF IInv, TypeOK
  <2>2. CASE ~(waits[h] > 0)
    BY <2>2 DEF ApplyResumed, IInv, TypeOK
  <2>. QED  BY <2>1, <2>2, Zenon
<1>4. TypeOK'
  BY <1>1, <1>3, Zenon DEF IInv, TypeOK
<1>5. StartedFirst'
  BY <1>1, <1>2, <1>3 DEF IInv, TypeOK, StartedFirst
<1>6. SlotAccounting' /\ OpenPlaceIsHeld' /\ ChainIsLive'
  BY <1>1, Zenon DEF IInv, SlotAccounting, OpenPlaceIsHeld, ChainIsLive
<1>7. CapacityReturned'
  <2>1. \A g \in Hold : Submitted(g) \in Goroutine /\ Submitted(g)[2] = 0
    BY Zenon
  <2>2. \A g \in Hold : Finished(g)' => Finished(g)
    BY <1>3, <2>1, Zenon DEF Finished
  <2>3. \A g \in Hold : waits'[g] > 0 => waits[g] > 0
    BY <1>1 DEF IInv, TypeOK
  <2>. QED  BY <1>1, <2>2, <2>3, Zenon DEF IInv, CapacityReturned
<1>8. NoLostWakeup'
  BY <1>1, <1>3, Zenon DEF IInv, TypeOK, NoLostWakeup, HasRoom, Pending
<1>. QED  BY <1>4, <1>5, <1>6, <1>7, <1>8, Zenon DEF IInv

\* reacquire's first half, which queues the run again, keeps it.
LEMMA ReacquireJoinStep ==
    ASSUME IInv, NEW g \in Goroutine, ReacquireJoin(g)
    PROVE  IInv'
<1>. USE GoroutineFacts, DispatcherAssumption
<1>. DEFINE h == g[1]
<1>1. /\ h \in Hold /\ g[2] > 0 /\ pc[g] = "start"
      /\ pc' = [pc EXCEPT ![g] = "done"] \/ pc' = [pc EXCEPT ![g] = "turn"]
      /\ UNCHANGED <<slot, active, waits, named, holds, limit, call, reading, waiter>>
  BY Zenon DEF ReacquireJoin, slots, listing
<1>2. h \in named /\ pc[Submitted(h)] \in {"run", "done"}
  BY <1>1, Zenon DEF IInv, StartedFirst
<1>3. /\ baton' \in [Hold -> Places]
      /\ place' \in [Goroutine -> {"none", "open", "closed"}]
      /\ repoTail' \in [Repo -> Places]
      /\ behind' \in [Goroutine -> Places]
      /\ OpenPlaceIsHeld' /\ ChainIsLive'
      /\ \A x \in Hold : x # h => baton'[x] = baton[x]
      /\ \A x \in Hold : baton'[x] # NoPlace =>
            baton'[x][1] = x /\ place'[baton'[x]] = "open"
      /\ NeedsNone(h) => baton' = baton
  <2>1. CASE ~NeedsNone(h) /\ Joins(h)
    <3>1. Join(g) /\ baton[h] = NoPlace
      BY <2>1, Zenon DEF ReacquireJoin, Joins
    <3>. QED  BY <2>1, <3>1, JoinFacts, Zenon DEF IInv
  <2>2. CASE NeedsNone(h) \/ ~Joins(h)
    <3>1. baton' = baton /\ place' = place /\ repoTail' = repoTail /\ behind' = behind
      BY <2>2, Zenon DEF ReacquireJoin, chain
    <3>. QED  BY <3>1, Zenon DEF IInv, TypeOK, OpenPlaceIsHeld, ChainIsLive, StartedFirst
  <2>. QED  BY <2>1, <2>2, Zenon
<1>4. /\ pc' \in [Goroutine -> {"idle", "start", "turn", "asleep", "run", "done"}]
      /\ \A f \in Goroutine : f # g => pc'[f] = pc[f]
      /\ pc'[g] \in {"done", "turn"}
      /\ \A x \in Hold : Submitted(x) # g
  <2>1. \A x \in Hold : Submitted(x) # g
    BY <1>1
  <2>2. CASE pc' = [pc EXCEPT ![g] = "done"]
    BY <2>1, <2>2 DEF IInv, TypeOK
  <2>3. CASE pc' = [pc EXCEPT ![g] = "turn"]
    BY <2>1, <2>3 DEF IInv, TypeOK
  <2>. QED  BY <1>1, <2>2, <2>3, Zenon
<1>5. TypeOK'
  BY <1>1, <1>3, <1>4, Zenon DEF IInv, TypeOK
<1>6. StartedFirst'
  <2>1. \A x \in named' : pc'[Submitted(x)] \in {"run", "done"}
    BY <1>1, <1>4 DEF IInv, TypeOK, StartedFirst
  <2>2. /\ \A t \in Task : holds'[t] # NoHold => holds'[t] \in named'
        /\ \A x \in Hold : waits'[x] > 0 => x \in named'
    BY <1>1, Zenon DEF IInv, StartedFirst
  <2>3. \A f \in Goroutine : f[2] > 0 /\ pc'[f] # "idle" => f[1] \in named'
    BY <1>1, <1>2, <1>4, Zenon DEF IInv, StartedFirst
  <2>4. \A x \in Hold : slot'[x] => pc'[Submitted(x)] = "run"
    BY <1>1, <1>4 DEF IInv, StartedFirst
  <2>5. \A x \in Hold : baton'[x] # NoPlace =>
           baton'[x][1] = x /\ place'[baton'[x]] = "open" /\ pc'[Submitted(x)] # "idle"
    BY <1>2, <1>3, <1>4 DEF IInv, StartedFirst
  <2>. QED  BY <2>1, <2>2, <2>3, <2>4, <2>5, Zenon DEF StartedFirst
<1>7. SlotAccounting'
  BY <1>1, Zenon DEF IInv, SlotAccounting
<1>8. CapacityReturned'
  BY <1>1, <1>3, <1>4 DEF IInv, CapacityReturned, Finished, NeedsNone
<1>9. NoLostWakeup'
  BY <1>1, <1>4 DEF IInv, NoLostWakeup, HasRoom, Pending
<1>. QED  BY <1>3, <1>5, <1>6, <1>7, <1>8, <1>9, Zenon DEF IInv

\* reacquire's second half, with its three ways out, keeps it.
LEMMA ReacquireSlotStep ==
    ASSUME IInv, NEW g \in Goroutine, ReacquireSlot(g)
    PROVE  IInv'
<1>. USE GoroutineFacts, DispatcherAssumption
<1>. DEFINE h == g[1]
<1>. DEFINE p == [pc EXCEPT ![g] = "done"]
<1>1. /\ h \in Hold /\ g[2] > 0 /\ pc[g] = "turn" /\ HasRoom
      /\ UNCHANGED <<behind, waits, named, holds, limit, call, reading>>
      /\ \/ /\ slot[h] /\ pc' = Woken(p)
            /\ waiter' = IF waiter = "asleep" THEN "check" ELSE waiter
            /\ UNCHANGED <<place, baton, slot, repoTail, active>>
         \/ /\ ~slot[h] /\ NeedsNone(h) /\ pc' = Woken(p)
            /\ waiter' = IF waiter = "asleep" THEN "check" ELSE waiter
            /\ GiveBack(h)
         \/ /\ ~slot[h] /\ ~NeedsNone(h) /\ pc' = p
            /\ active' = active + 1 /\ slot' = [slot EXCEPT ![h] = TRUE]
            /\ UNCHANGED <<place, baton, repoTail, waiter>>
  <2>1. /\ h \in Hold /\ g[2] > 0 /\ pc[g] = "turn" /\ HasRoom
        /\ UNCHANGED <<behind, waits, named, holds, limit, call, reading>>
    BY Zenon DEF ReacquireSlot, listing
  <2>2. CASE slot[h]
    BY <2>1, <2>2, Zenon DEF ReacquireSlot, SlotTaken, WakeWaiter, slots
  <2>3. CASE ~slot[h] /\ NeedsNone(h)
    BY <2>1, <2>3, Zenon DEF ReacquireSlot, SlotTaken, WakeWaiter
  <2>4. CASE ~slot[h] /\ ~NeedsNone(h)
    BY <2>1, <2>4, Zenon DEF ReacquireSlot, SlotTaken
  <2>. QED  BY <2>2, <2>3, <2>4, Zenon
<1>2. h \in named /\ pc[Submitted(h)] \in {"run", "done"}
  BY <1>1, Zenon DEF IInv, StartedFirst
<1>3. /\ p \in [Goroutine -> {"idle", "start", "turn", "asleep", "run", "done"}]
      /\ p[g] = "done" /\ \A f \in Goroutine : f # g => p[f] = pc[f]
  BY DEF IInv, TypeOK
<1>. HIDE DEF p
<1>4. /\ pc' \in [Goroutine -> {"idle", "start", "turn", "asleep", "run", "done"}]
      /\ pc'[g] = "done" /\ \A x \in Hold : Submitted(x) # g
      /\ \A f \in Goroutine : f # g /\ pc[f] # "asleep" => pc'[f] = pc[f]
      /\ \A f \in Goroutine : f # g /\ pc[f] = "asleep" => pc'[f] \in {"asleep", "turn"}
      /\ \A f \in Goroutine : pc'[f] # "asleep"
  <2>1. \A x \in Hold : Submitted(x) # g
    BY <1>1
  <2>2. CASE pc' = Woken(p)
    BY <1>3, <2>1, <2>2, WokenFacts
  <2>3. CASE pc' = p
    <3>1. \A f \in Goroutine : pc[f] # "asleep"
      BY <1>1, Zenon DEF IInv, NoLostWakeup
    <3>. QED  BY <1>3, <2>1, <2>3, <3>1, Zenon
  <2>. QED  BY <1>1, <2>2, <2>3, Zenon
<1>5. /\ slot' \in [Hold -> BOOLEAN] /\ active' \in Nat
      /\ SlotAccounting'
      /\ baton' \in [Hold -> Places]
      /\ place' \in [Goroutine -> {"none", "open", "closed"}]
      /\ repoTail' \in [Repo -> Places]
      /\ OpenPlaceIsHeld' /\ ChainIsLive'
      /\ \A x \in Hold : baton'[x] # NoPlace =>
            baton'[x] = baton[x] /\ baton[x][1] = x /\ place'[baton[x]] = "open"
      /\ \A x \in Hold : slot'[x] => slot[x] \/ (x = h /\ ~NeedsNone(h))
  <2>1. CASE slot[h] \/ NeedsNone(h)
    <3>1. CASE slot[h]
      <4>1. UNCHANGED <<place, baton, slot, repoTail, active>>
        BY <1>1, <3>1, Zenon
      <4>2. /\ slot' \in [Hold -> BOOLEAN] /\ active' \in Nat /\ baton' \in [Hold -> Places]
            /\ place' \in [Goroutine -> {"none", "open", "closed"}] /\ repoTail' \in [Repo -> Places]
        BY <4>1, Zenon DEF IInv, TypeOK
      <4>3. SlotAccounting'
        BY <4>1, Zenon DEF IInv, SlotAccounting, Holders
      <4>4. behind' = behind
        BY <1>1, Zenon
      <4>5. OpenPlaceIsHeld' /\ ChainIsLive'
        BY <4>1, <4>4, Zenon DEF IInv, OpenPlaceIsHeld, ChainIsLive
      <4>6. \A x \in Hold : baton[x] # NoPlace => baton[x][1] = x /\ place[baton[x]] = "open"
        BY Zenon DEF IInv, StartedFirst
      <4>. QED  BY <4>1, <4>2, <4>3, <4>5, <4>6, Zenon
    <3>2. CASE ~slot[h] /\ NeedsNone(h)
      <4>1. GiveBack(h) /\ behind' = behind
        BY <1>1, <3>2, Zenon
      <4>2. /\ slot' \in [Hold -> BOOLEAN] /\ active' \in Nat
            /\ active' = Cardinality(Holders(slot'))
            /\ baton' \in [Hold -> Places]
            /\ place' \in [Goroutine -> {"none", "open", "closed"}]
            /\ repoTail' \in [Repo -> Places]
            /\ OpenPlaceIsHeld' /\ ChainIsLive' /\ ~slot'[h]
            /\ \A x \in Hold : x # h => slot'[x] = slot[x]
            /\ \A x \in Hold : baton'[x] # NoPlace =>
                  baton'[x] = baton[x] /\ baton[x][1] = x /\ place'[baton[x]] = "open"
        <5>1. TypeOK /\ StartedFirst /\ SlotAccounting /\ OpenPlaceIsHeld /\ ChainIsLive
          BY Zenon DEF IInv
        <5>2. h \in Hold
          BY <1>1, Zenon
        <5>. HIDE DEF h
        <5>. QED  BY <4>1, <5>1, <5>2, GiveBackFacts
      <4>3. SlotAccounting'
        BY <4>2, Zenon DEF SlotAccounting, Holders
      <4>. QED  BY <4>2, <4>3
    <3>. QED  BY <2>1, <3>1, <3>2, Zenon
  <2>2. CASE ~slot[h] /\ ~NeedsNone(h)
    <3>1. /\ active' = active + 1 /\ slot' = [slot EXCEPT ![h] = TRUE]
          /\ UNCHANGED <<place, baton, repoTail>>
      BY <1>1, <2>2, Zenon
    <3>2. /\ slot \in [Hold -> BOOLEAN] /\ slot' \in [Hold -> BOOLEAN]
          /\ slot'[h] /\ \A x \in Hold : x # h => slot'[x] = slot[x]
      <4>1. slot \in [Hold -> BOOLEAN] /\ h \in Hold
        BY <1>1, Zenon DEF IInv, TypeOK
      <4>. QED  BY <3>1, <4>1
    <3>3. Cardinality(Holders(slot')) = Cardinality(Holders(slot)) + 1
      BY <1>1, <2>2, <3>2, HolderAdded
    <3>4. SlotAccounting' /\ active' \in Nat
      BY <3>1, <3>3 DEF IInv, TypeOK, SlotAccounting, Holders
    <3>. QED
      BY <1>1, <2>2, <3>1, <3>2, <3>4 DEF IInv, TypeOK, OpenPlaceIsHeld, ChainIsLive, StartedFirst
  <2>. QED  BY <2>1, <2>2, Zenon
<1>6. TypeOK'
  <2>1. waiter' \in {"none", "check", "asleep", "returned"}
    BY <1>1, Zenon DEF IInv, TypeOK
  <2>. QED  BY <1>1, <1>4, <1>5, <2>1, Zenon DEF IInv, TypeOK
<1>7. StartedFirst'
  <2>1. \A x \in named' : pc'[Submitted(x)] \in {"run", "done"}
    <3>1. named \subseteq Hold /\ \A x \in named : pc[Submitted(x)] \in {"run", "done"}
      BY Zenon DEF IInv, TypeOK, StartedFirst
    <3>2. named' = named
      BY <1>1, Zenon
    <3>3. \A x \in Hold : Submitted(x) \in Goroutine
      BY GoroutineFacts, Zenon
    <3>4. \A x \in named : pc[Submitted(x)] # "asleep"
      BY <3>1
    <3>. QED  BY <1>4, <3>1, <3>2, <3>3, <3>4, Zenon
  <2>2. /\ \A t \in Task : holds'[t] # NoHold => holds'[t] \in named'
        /\ \A x \in Hold : waits'[x] > 0 => x \in named'
    BY <1>1, Zenon DEF IInv, StartedFirst
  <2>3. \A f \in Goroutine : f[2] > 0 /\ pc'[f] # "idle" => f[1] \in named'
    <3>. TAKE f \in Goroutine
    <3>1. CASE f = g
      BY <3>1, <1>1, <1>2, Zenon
    <3>2. CASE f # g
      <4>1. f[2] > 0 /\ pc[f] # "idle" => f[1] \in named
        BY Zenon DEF IInv, StartedFirst
      <4>2. pc[f] = "idle" => pc'[f] = "idle"
        BY <3>2, <1>4, Zenon
      <4>. QED  BY <4>1, <4>2, <1>1, Zenon
    <3>. QED  BY <3>1, <3>2, Zenon
  <2>4. \A x \in Hold : slot'[x] => pc'[Submitted(x)] = "run"
    <3>. TAKE x \in Hold
    <3>1. Submitted(x) \in Goroutine /\ Submitted(x) # g
      BY <1>4, Zenon
    <3>2. pc[Submitted(x)] = "run" => pc'[Submitted(x)] = "run"
      BY <3>1, <1>4, Zenon
    <3>3. slot[x] => pc[Submitted(x)] = "run"
      BY Zenon DEF IInv, StartedFirst
    <3>4. ~NeedsNone(h) => pc[Submitted(h)] = "run"
      BY <1>2, Zenon DEF NeedsNone, Finished
    <3>. QED  BY <3>2, <3>3, <3>4, <1>5, Zenon
  <2>5. \A x \in Hold : baton'[x] # NoPlace =>
           baton'[x][1] = x /\ place'[baton'[x]] = "open" /\ pc'[Submitted(x)] # "idle"
    <3>. TAKE x \in Hold
    <3>1. Submitted(x) \in Goroutine /\ Submitted(x) # g
      BY <1>4, Zenon
    <3>2. pc[Submitted(x)] # "idle" => pc'[Submitted(x)] # "idle"
      BY <3>1, <1>4, Zenon
    <3>3. baton[x] # NoPlace => pc[Submitted(x)] # "idle"
      BY Zenon DEF IInv, StartedFirst
    <3>. QED  BY <3>2, <3>3, <1>5, Zenon
  <2>. QED  BY <2>1, <2>2, <2>3, <2>4, <2>5, Zenon DEF StartedFirst
<1>8. CapacityReturned'
  BY <1>1, <1>4, <1>5 DEF IInv, CapacityReturned, Finished, NeedsNone
<1>9. NoLostWakeup'
  BY <1>1, <1>4, Zenon DEF IInv, NoLostWakeup, Pending
<1>. QED  BY <1>5, <1>6, <1>7, <1>8, <1>9, Zenon DEF IInv

\* The steps that leave the dispatcher's own state alone: a caller's call step
\* in the store, the watcher's read of it, a refused apply, and Wait's loop.
LEMMA QuietActions ==
    ASSUME IInv,
           \/ \E h \in Hold : \/ StartCall(h) \/ OpenCallStep(h) \/ CloseCallStep(h)
                              \/ WatchRead(h) \/ ApplyRefused(h)
           \/ Shutdown
           \/ Wait
    PROVE  IInv'
<1>. USE DispatcherAssumption
<1>1. ASSUME NEW h \in Hold, StartCall(h) \/ OpenCallStep(h) \/ CloseCallStep(h)
      PROVE  IInv'
  <2>1. /\ UNCHANGED <<chain, slots, listing, pc, limit, reading, waiter>>
        /\ \E s \in {"enqueued", "open", "closed"} : call' = [call EXCEPT ![h] = s]
    BY <1>1, Zenon DEF StartCall, OpenCallStep, CloseCallStep
  <2>2. TypeOK'
    BY SMTT(60), <2>1 DEF IInv, TypeOK, chain, slots, listing
  <2>. QED  BY <2>1, <2>2, QuietStep, Zenon
<1>2. ASSUME NEW h \in Hold, WatchRead(h)
      PROVE  IInv'
  <2>1. Cardinality(OpenCalls(h)) \in Nat
    BY FS_Subset, FS_CardinalityType, Zenon DEF OpenCalls
  <2>2. TypeOK'
    BY <1>2, <2>1, Zenon DEF WatchRead, IInv, TypeOK, chain, slots, listing
  <2>. QED  BY <1>2, <2>2, QuietStep, Zenon DEF WatchRead
<1>3. ASSUME NEW h \in Hold, ApplyRefused(h)
      PROVE  IInv'
  <2>1. TypeOK'
    BY <1>3, Zenon DEF ApplyRefused, IInv, TypeOK, chain, slots, listing
  <2>. QED  BY <1>3, <2>1, QuietStep, Zenon DEF ApplyRefused
<1>4. CASE Shutdown
  <2>1. TypeOK'
    BY <1>4, Zenon DEF Shutdown, IInv, TypeOK, chain, slots, listing
  <2>. QED  BY <1>4, <2>1, QuietStep, Zenon DEF Shutdown
<1>5. CASE Wait
  <2>1. TypeOK'
    BY <1>5, Zenon DEF Wait, IInv, TypeOK, chain, slots, listing
  <2>. QED  BY <1>5, <2>1, QuietStep, Zenon DEF Wait
<1>. QED  BY <1>1, <1>2, <1>3, <1>4, <1>5, Zenon

\* Every step of the dispatcher, and every stuttering step, keeps the
\* inductive invariant.
THEOREM DispatcherStep == IInv /\ [Next]_vars => IInv'
<1>. SUFFICES ASSUME IInv, [Next]_vars
              PROVE  IInv'
  BY Zenon
<1>1. CASE UNCHANGED vars
  <2>1. UNCHANGED <<chain, slots, listing, pc, limit, call, reading, waiter>>
    BY <1>1, Zenon DEF vars, chain, slots, listing
  <2>2. TypeOK'
    BY <2>1, Zenon DEF IInv, TypeOK, chain, slots, listing
  <2>. QED  BY <2>1, <2>2, QuietStep, Zenon
<1>2. ASSUME NEW h \in Hold,
             \/ Submit(h) \/ Start(h) \/ Name(h) \/ FinishRun(h)
             \/ ApplyWaiting(h) \/ ApplyResumed(h)
      PROVE  IInv'
  BY <1>2, SubmitStep, StartStep, NameStep, FinishRunStep, ApplyWaitingStep, ApplyResumedStep, Zenon
<1>3. ASSUME NEW g \in Goroutine, Sleep(g) \/ ReacquireJoin(g) \/ ReacquireSlot(g)
      PROVE  IInv'
  BY <1>3, SleepStep, ReacquireJoinStep, ReacquireSlotStep, Zenon
<1>4. ASSUME NEW l \in Limits, SetMaxConcurrency(l)
      PROVE  IInv'
  BY <1>4, SetMaxConcurrencyStep, Zenon
<1>. QED  BY <1>1, <1>2, <1>3, <1>4, QuietActions, Zenon DEF Next

\* The inductive invariant holds in every reachable state.
THEOREM DispatcherInvariant == Spec => []IInv
BY DispatcherInit, DispatcherStep, PTL DEF Spec

\* Type correctness for every set of runs; in particular the counter that
\* giveBackLocked decrements never goes below zero.
THEOREM TypeCorrect == Spec => []TypeOK
<1>1. IInv => TypeOK
  BY Zenon DEF IInv
<1>. QED  BY <1>1, DispatcherInvariant, PTL

\* For every set of runs and every limit: the counter takeSlotLocked compares
\* with the limit is the number of runs that record a slot.
THEOREM SlotsAreCounted == Spec => []SlotAccounting
<1>1. IInv => SlotAccounting
  BY Zenon DEF IInv
<1>. QED  BY <1>1, DispatcherInvariant, PTL

\* For every set of runs: one that returned or waits on a callee has given
\* its slot and its place back, however many reacquires are in flight for it.
THEOREM CapacityIsReturned == Spec => []CapacityReturned
<1>1. IInv => CapacityReturned
  BY Zenon DEF IInv
<1>. QED  BY <1>1, DispatcherInvariant, PTL

\* For every set of runs: an open baton is the one its run records, and the
\* chain of every repository links batons that were made for that repository.
THEOREM ChainsHaveOwners == Spec => [](OpenPlaceIsHeld /\ ChainIsLive)
<1>1. IInv => OpenPlaceIsHeld /\ ChainIsLive
  BY Zenon DEF IInv
<1>. QED  BY <1>1, DispatcherInvariant, PTL

\* For every set of runs: neither a run that waits for a slot nor Wait sleeps
\* on the condition variable after what it waits for came true.
THEOREM NoWakeupIsLost == Spec => []NoLostWakeup
<1>1. IInv => NoLostWakeup
  BY Zenon DEF IInv
<1>. QED  BY <1>1, DispatcherInvariant, PTL

\* For every set of runs: finishRun drops the watcher's entry of its own run
\* only, so an older attempt of a task never unlists the newer one.
THEOREM OwnEntryOnly == Spec => EntryRemovedByItsRun
<1>. DEFINE A == \A h \in Hold :
                    holds[TaskOf[h]] = h /\ holds'[TaskOf[h]] # h =>
                        Finished(h)' \/ holds'[TaskOf[h]] \in named' \ named
<1>1. IInv /\ [Next]_vars => [A]_vars
  <2>. SUFFICES ASSUME IInv, Next, NEW h \in Hold,
                       holds[TaskOf[h]] = h, holds'[TaskOf[h]] # h
                PROVE  Finished(h)' \/ holds'[TaskOf[h]] \in named' \ named
    BY Zenon
  <2>1. PICK x \in Hold : Name(x) \/ FinishRun(x)
    BY Zenon DEF Next, Submit, Start, StartCall, OpenCallStep, CloseCallStep, WatchRead,
           ApplyRefused, ApplyWaiting, ApplyResumed, Sleep, ReacquireJoin,
           ReacquireSlot, SetMaxConcurrency, Shutdown, Wait, listing
  <2>2. CASE Name(x)
    BY <2>2, DispatcherAssumption, Zenon DEF Name, IInv, TypeOK
  <2>3. CASE FinishRun(x)
    <3>. DEFINE p == [pc EXCEPT ![Submitted(x)] = "done"]
    <3>1. x = h
      BY <2>3, DispatcherAssumption, Zenon DEF FinishRun, Unlisted, IInv, TypeOK
    <3>2. /\ p \in [Goroutine -> {"idle", "start", "turn", "asleep", "run", "done"}]
          /\ p[Submitted(x)] = "done" /\ pc' = Woken(p)
      BY SMTT(60), <2>3, GoroutineFacts DEF FinishRun, IInv, TypeOK
    <3>. HIDE DEF p
    <3>. QED  BY <3>1, <3>2, WokenFacts, GoroutineFacts DEF Finished
  <2>. QED  BY <2>1, <2>2, <2>3, Zenon
<1>. QED  BY <1>1, DispatcherInvariant, PTL DEF Spec, EntryRemovedByItsRun

=============================================================================
