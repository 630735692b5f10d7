------------------------- MODULE ChannelSupervisor -------------------------
(***************************************************************************)
(* One chat channel of the messaging service: the supervisor that runs it  *)
(* and retries or parks it, and the reconcile loop that replaces it when   *)
(* the stored settings change.  The two share the instance's fields under  *)
(* a lock, the cancel function of the run in flight, and a channel of one  *)
(* token that wakes a supervisor between runs.                             *)
(*                                                                         *)
(* A channel is named by the settings it was built from; Off is none.      *)
(***************************************************************************)
EXTENDS Naturals

CONSTANTS MaxVersion,  \* settings stored during a behaviour
          MaxAttempts  \* failed runs before the channel is parked

ASSUME SupervisorAssumption == MaxVersion \in Nat /\ MaxAttempts \in Nat \ {0}

Off == 0
Version == 0 .. MaxVersion

VARIABLES stored,    \* the settings in the store, and how many were stored
          config,    \* the settings the loop has applied
          loop,      \* the reconcile loop
          channel,   \* the instance: the channel to run
          inFlight,  \*   is a run in flight, its cancel function kept
          pending,   \*   restartPending
          supervised,
          notify,    \* the token that wakes the supervisor
          sup,       \* the supervisor
          cut,       \* the context of its run has ended
          chanState, \* what the channel's status says
          closing    \* the service is shutting down

supVars == <<stored, config, loop, channel, inFlight, pending, supervised, notify, sup, cut, chanState, closing>>

LoopPc == {"idle", "set", "cancel", "spent", "notify", "await"}
\* Start is called, has reported that it starts, and that it serves.
Running == {"run", "starting", "serving"}
SupPc == Running \cup {"top", "ended", "stop", "park", "retry", "disabled", "exit", "gone"}

SupInit ==
    /\ stored = [value |-> Off, count |-> 0]
    /\ config = Off
    /\ loop = [pc |-> "idle", next |-> Off]
    /\ channel = Off /\ inFlight = FALSE /\ pending = FALSE /\ supervised = TRUE
    /\ notify = FALSE
    /\ sup = [pc |-> "top", took |-> Off, attempts |-> 0, failed |-> FALSE, restart |-> FALSE, down |-> FALSE]
    /\ cut = FALSE /\ chanState = "stopped" /\ closing = FALSE

SupAt(pc) == sup' = [sup EXCEPT !.pc = pc]
LoopAt(pc) == loop' = [loop EXCEPT !.pc = pc]

\* Someone turns the channel off, or on with new settings.
StoreSettings(v) ==
    /\ stored.count < MaxVersion /\ v # stored.value
    /\ v \in {Off, stored.count + 1}
    /\ stored' = [value |-> v, count |-> stored.count + 1]
    /\ UNCHANGED <<config, loop, channel, inFlight, pending, supervised, notify, sup, cut, chanState, closing>>
-----------------------------------------------------------------------------
(***************************************************************************)
(* The reconcile loop                                                      *)
(***************************************************************************)

\* The change is in effect: the settings become the running ones.
Applied == config' = loop.next /\ LoopAt("idle")
\* The next tick sees the same difference.
Unapplied == config' = config /\ LoopAt("idle")

reconcileOnce ==
    /\ loop.pc = "idle" /\ stored.value # config /\ ~closing
    /\ loop' = [pc |-> "set", next |-> stored.value]
    /\ UNCHANGED <<stored, config, channel, inFlight, pending, supervised, notify, sup, cut, chanState, closing>>

\* A channel that is off already needs no disable.
disableChannel ==
    /\ loop.pc = "set" /\ loop.next = Off /\ channel = Off
    /\ Applied
    /\ UNCHANGED <<stored, channel, inFlight, pending, supervised, notify, sup, cut, chanState, closing>>

setChannelState ==
    /\ loop.pc = "set" /\ ~(loop.next = Off /\ channel = Off)
    /\ IF supervised
       THEN /\ channel' = loop.next
            /\ pending' = inFlight
            /\ LoopAt(IF inFlight THEN "cancel" ELSE "notify")
            /\ UNCHANGED config
       ELSE Unapplied /\ UNCHANGED <<channel, pending>>
    /\ UNCHANGED <<stored, inFlight, supervised, notify, sup, cut, chanState, closing>>

\* A restart is applied once the supervisor has been told; an enable and a
\* disable are awaited.
Told == IF config # Off /\ loop.next # Off THEN Applied ELSE LoopAt("await") /\ UNCHANGED config

\* The cancel function ends the run it was taken from and no other.
CancelRun ==
    /\ loop.pc \in {"cancel", "spent"}
    /\ cut' = (cut \/ loop.pc = "cancel")
    /\ Told
    /\ UNCHANGED <<stored, channel, inFlight, pending, supervised, notify, sup, chanState, closing>>

MutWake ==
    /\ loop.pc = "notify"
    /\ notify' = (notify \/ sup.pc \in {"park", "retry", "disabled"})
    /\ Told
    /\ UNCHANGED <<stored, channel, inFlight, pending, supervised, sup, cut, chanState, closing>>

Wake ==
    /\ loop.pc = "notify"
    /\ notify' = TRUE
    /\ Told
    /\ UNCHANGED <<stored, channel, inFlight, pending, supervised, sup, cut, chanState, closing>>

\* Until the status shows the change, a failure, or the wait times out.
awaitChannelActive ==
    /\ loop.pc = "await"
    /\ \/ chanState = (IF loop.next = Off THEN "stopped" ELSE "running") /\ Applied
       \/ Unapplied
    /\ UNCHANGED <<stored, channel, inFlight, pending, supervised, notify, sup, cut, chanState, closing>>
-----------------------------------------------------------------------------
(***************************************************************************)
(* The supervisor                                                          *)
(***************************************************************************)

\* The top of runChannel's loop: a run of the instance's channel, if it has one.
Take ==
    /\ sup.pc = "top"
    /\ IF channel = Off
       THEN SupAt("disabled") /\ chanState' = "stopped" /\ UNCHANGED <<inFlight, cut>>
       ELSE /\ sup' = [sup EXCEPT !.pc = "run", !.took = channel]
            /\ inFlight' = TRUE /\ cut' = closing
            /\ UNCHANGED chanState
    /\ UNCHANGED <<stored, config, loop, channel, pending, supervised, notify, closing>>

\* The channel reports that it starts, and that it serves.
Reports ==
    /\ \/ sup.pc = "run" /\ SupAt("starting") /\ chanState' = "starting"
       \/ sup.pc = "starting" /\ SupAt("serving") /\ chanState' = "running"
    /\ UNCHANGED <<stored, config, loop, channel, inFlight, pending, supervised, notify, cut, closing>>

\* Start returns, with an error or without.
StartReturns(failed) ==
    /\ sup.pc \in Running
    /\ sup' = [sup EXCEPT !.pc = "ended", !.failed = failed, !.attempts = @ + 1]
    /\ UNCHANGED <<stored, config, loop, channel, inFlight, pending, supervised, notify, cut, chanState, closing>>

\* A cancel function taken from the ended run no longer ends anything.
Spent == loop' = IF loop.pc = "cancel" THEN [loop EXCEPT !.pc = "spent"] ELSE loop

\* Under the lock a restart takes, so that one racing this exit is seen here or
\* delivered as a token.
Decide ==
    /\ sup.pc = "ended"
    /\ inFlight' = FALSE
    /\ sup' = [sup EXCEPT !.pc = "stop", !.restart = pending, !.down = closing]
    /\ pending' = (pending /\ closing)
    /\ Spent
    /\ UNCHANGED <<stored, config, channel, supervised, notify, cut, chanState, closing>>

\* stopChannel and afterChannelRun.  At shutdown an error that is not the
\* context's own is shown as a failure.
afterChannelRun ==
    /\ sup.pc = "stop"
    /\ \/ sup.down /\ SupAt("exit") /\ chanState' \in {"stopped"} \cup (IF sup.failed THEN {"failed"} ELSE {})
       \/ ~sup.down /\ sup.restart /\ sup' = [sup EXCEPT !.pc = "top", !.attempts = 0] /\ UNCHANGED chanState
       \/ ~sup.down /\ ~sup.restart /\ ~sup.failed /\ SupAt("park") /\ chanState' = "stopped"
       \/ /\ ~sup.down /\ ~sup.restart /\ sup.failed /\ chanState' = "failed"
          /\ SupAt(IF sup.attempts >= MaxAttempts THEN "park" ELSE "retry")
    /\ UNCHANGED <<stored, config, loop, channel, inFlight, pending, supervised, notify, cut, closing>>

\* Only the backoff looks for the token.
MutDeafHold ==
    /\ sup.pc \in {"park", "retry", "disabled"}
    /\ \/ closing /\ SupAt("exit") /\ UNCHANGED notify
       \/ notify /\ sup.pc = "retry" /\ notify' = FALSE /\ sup' = [sup EXCEPT !.pc = "top", !.attempts = 0]
       \/ ~notify /\ sup.pc = "retry" /\ SupAt("top") /\ UNCHANGED notify
    /\ UNCHANGED <<stored, config, loop, channel, inFlight, pending, supervised, cut, chanState, closing>>

\* The wait between runs ends: by shutdown, by the token, or by the backoff,
\* which looks for the token once more.
awaitChannel ==
    /\ sup.pc \in {"park", "retry", "disabled"}
    /\ \/ closing /\ SupAt("exit") /\ UNCHANGED notify
       \/ notify /\ notify' = FALSE /\ sup' = [sup EXCEPT !.pc = "top", !.attempts = 0]
       \/ ~notify /\ sup.pc = "retry" /\ SupAt("top") /\ UNCHANGED notify
    /\ UNCHANGED <<stored, config, loop, channel, inFlight, pending, supervised, cut, chanState, closing>>

supervisorExits ==
    /\ sup.pc = "exit"
    /\ SupAt("gone") /\ supervised' = FALSE
    /\ UNCHANGED <<stored, config, loop, channel, inFlight, pending, notify, cut, chanState, closing>>

Shutdown ==
    /\ ~closing
    /\ closing' = TRUE /\ cut' = TRUE
    /\ UNCHANGED <<stored, config, loop, channel, inFlight, pending, supervised, notify, sup, chanState>>

Reconcile == reconcileOnce \/ disableChannel \/ setChannelState \/ CancelRun \/ Wake \/ awaitChannelActive
Supervise == Take \/ Decide \/ afterChannelRun \/ awaitChannel \/ supervisorExits

\* A run whose context has ended returns.
CutReturns == cut /\ \E failed \in BOOLEAN : StartReturns(failed)

SupNext ==
    \/ \E v \in Version : StoreSettings(v)
    \/ \E failed \in BOOLEAN : StartReturns(failed)
    \/ Reconcile \/ Supervise \/ Reports \/ Shutdown

SupSpec == SupInit /\ [][SupNext]_supVars
-----------------------------------------------------------------------------
(***************************************************************************)
(* Properties                                                              *)
(***************************************************************************)

SupTypeOK ==
    /\ stored \in [value : Version, count : Version] /\ config \in Version
    /\ loop \in [pc : LoopPc, next : Version]
    /\ channel \in Version /\ inFlight \in BOOLEAN /\ pending \in BOOLEAN /\ supervised \in BOOLEAN
    /\ notify \in BOOLEAN /\ cut \in BOOLEAN /\ closing \in BOOLEAN
    /\ sup \in [pc : SupPc, took : Version, attempts : 0 .. MaxAttempts, failed : BOOLEAN,
                restart : BOOLEAN, down : BOOLEAN]
    /\ chanState \in {"stopped", "starting", "running", "failed"}

\* What the supervisor last took: the run's channel, or none.
Took == IF sup.pc = "disabled" THEN Off ELSE sup.took

\* A replacement is never left behind, also when it meets a run just ending: the
\* context of a replaced channel's run has ended, or the loop is about to end
\* it, and the supervisor will find the restart; and a supervisor that holds
\* without a timer, and whose channel was replaced since it looked, has its
\* token or is about to be sent it.
NoLostRestart ==
    /\ sup.pc \in Running /\ channel # sup.took => pending /\ (cut \/ loop.pc = "cancel")
    /\ sup.pc \in {"park", "disabled"} /\ channel # Took => notify \/ loop.pc = "notify"

\* Stored settings take effect: the supervisor keeps catching up with the channel
\* the loop gave the instance, unless the service shuts down.
ReplacementRuns == []<>(Took = channel \/ closing)

\* A disable is reported only once the channel has stopped.  The code does not
\* keep it: a disable whose wait timed out is applied by the next tick, which
\* finds the instance's channel off already.
DisableReportsStopped == [][config # Off /\ config' = Off => sup.pc \notin Running]_supVars

\* A parked channel stays parked until an explicit restart.  The code does not
\* keep it: a token left by an earlier change wakes the channel once.
ParkedUntilRestart ==
    [][sup.pc = "park" /\ sup'.pc = "top" => channel # sup.took]_supVars
=============================================================================
