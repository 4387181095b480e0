------------------------------ MODULE AutoDrain ------------------------------
(***************************************************************************)
(* Who decides to drain: the Dumper of dumper.go (a ticker goroutine with  *)
(* Start, Stop and ForceDump) and the DrainTrigger of bridge.go, beside    *)
(* writers that fill the active region.                                    *)
(*                                                                         *)
(* Each of them looks at the region and drains it in a later step.  The    *)
(* drain itself is one step here, which leaves an empty region active; its *)
(* interleavings are the subject of LockerWriter.                          *)
(***************************************************************************)
EXTENDS Naturals

CONSTANTS
    Callers,    \* threads that call Start and Stop of the one Dumper
    Forcers,    \* threads that call ForceDump
    MaxSlots,   \* entries a region holds
    NeedAt,     \* db_needs_drain: 90 % of MaxSlots
    TriggerAt   \* messages that reach countThreshold or sizeThreshold

ASSUME SizesAssumption ==
    /\ MaxSlots \in Nat \ {0}
    /\ NeedAt \in 1 .. MaxSlots /\ TriggerAt \in 1 .. MaxSlots

VARIABLES
    fill,        \* entries in the active region
    isRunning,   \* Dumper.isRunning, guarded by mu
    stopClosed,  \* Dumper.stopChan is closed
    wg,          \* Dumper.wg
    gpc, tick,   \* the dumper goroutine, and a tick waiting in its ticker
    cpc,         \* callers of Start and Stop
    fpc,         \* callers of ForceDump
    tpc, ttick,  \* the trigger goroutine and its tick
    count,       \* the message count the trigger has read
    tClosed,     \* DrainTrigger.stopChan is closed
    tstop,       \* the caller of StopDrainTrigger
    closedOn,    \* history: the dumper's phase when stopChan was closed
    stopped,     \* history: that Stop has returned
    quiet,       \* history: nothing was written since stopChan was closed
    stale        \* history: someone drained since the actor decided to

dumper == <<isRunning, stopClosed, wg, gpc, tick>>
callers == <<cpc, closedOn, stopped>>
trigger == <<tpc, ttick, count, tClosed, tstop>>
vars == <<fill, dumper, callers, fpc, trigger, quiet, stale>>

Alive == {"select", "check", "dump", "finalCheck", "finalDump"}
Phases == {"never", "fresh", "starting", "live", "done"}
Watching == {"select", "count", "decide", "drain"}
Deciders == Forcers \cup {"dumper"}

TypeOK ==
    /\ fill \in 0 .. MaxSlots
    /\ isRunning \in BOOLEAN /\ stopClosed \in BOOLEAN
    /\ wg \in 0 .. 1
    /\ gpc \in Alive \cup {"none", "done"} /\ tick \in BOOLEAN
    /\ cpc \in [Callers -> {"idle", "add", "go", "wait", "panicked"}]
    /\ fpc \in [Forcers -> {"idle", "check", "dump"}]
    /\ tpc \in Watching \cup {"off", "done"} /\ ttick \in BOOLEAN
    /\ count \in 0 .. MaxSlots /\ tClosed \in BOOLEAN
    /\ tstop \in {"idle", "wait", "panicked"}
    /\ closedOn \in Phases /\ stopped \in BOOLEAN /\ quiet \in BOOLEAN
    /\ stale \in [Deciders -> BOOLEAN]

Init ==
    /\ fill = 0
    /\ isRunning = FALSE /\ stopClosed = FALSE /\ wg = 0
    /\ gpc = "none" /\ tick = FALSE
    /\ cpc = [c \in Callers |-> "idle"]
    /\ fpc = [f \in Forcers |-> "idle"]
    /\ tpc = "off" /\ ttick = FALSE /\ count = 0 /\ tClosed = FALSE
    /\ tstop = "idle"
    /\ closedOn = "never" /\ stopped = FALSE /\ quiet = FALSE
    /\ stale = [a \in Deciders |-> FALSE]

Phase == CASE gpc = "done" -> "done"
           [] gpc \in Alive -> "live"
           [] gpc = "none" /\ isRunning -> "starting"
           [] OTHER -> "fresh"

NeedsDrain == fill >= NeedAt

\* db_switch_and_drain: the empty region becomes the active one.
Drain ==
    /\ fill' = 0
    /\ stale' = [a \in Deciders |-> TRUE]

\* The actor has just looked at the region and will drain it.
Decide(a) == stale' = [stale EXCEPT ![a] = FALSE]

-----------------------------------------------------------------------------
(* Plausible bugs, kept to show that the properties notice them. *)

\* SelectStop that returns at once, without the final drain.
NoFinalDrain ==
    /\ gpc = "select" /\ stopClosed
    /\ gpc' = "done" /\ wg' = wg - 1
    /\ UNCHANGED <<fill, isRunning, stopClosed, tick, callers, fpc, trigger,
                   quiet, stale>>

\* ForceCheck that dumps whatever the region holds.
ForceAlways(f) ==
    /\ fpc[f] = "check"
    /\ fpc' = [fpc EXCEPT ![f] = "dump"] /\ Decide(f)
    /\ UNCHANGED <<fill, dumper, callers, trigger, quiet>>

\* CheckTick that wants more than the 90 %.
CheckAbove ==
    /\ gpc = "check"
    /\ IF fill > NeedAt THEN gpc' = "dump" /\ Decide("dumper")
                        ELSE gpc' = "select" /\ stale' = stale
    /\ UNCHANGED <<fill, isRunning, stopClosed, wg, tick, callers, fpc,
                   trigger, quiet>>

\* FinalCheck that forgets wg.Done when there is nothing to drain.
KeepWaitGroup ==
    /\ gpc = "finalCheck"
    /\ IF NeedsDrain
       THEN gpc' = "finalDump" /\ Decide("dumper")
       ELSE gpc' = "done" /\ stale' = stale
    /\ UNCHANGED <<fill, isRunning, stopClosed, wg, tick, callers, fpc,
                   trigger, quiet>>

\* TriggerDecide that wants more than the threshold.
DecideAbove ==
    /\ tpc = "decide"
    /\ tpc' = IF count > TriggerAt THEN "drain" ELSE "select"
    /\ count' = 0
    /\ UNCHANGED <<fill, dumper, callers, fpc, ttick, tClosed, tstop,
                   quiet, stale>>

-----------------------------------------------------------------------------
\* A write to a region that is not full; the others are refused.
Write ==
    /\ fill < MaxSlots
    /\ fill' = fill + 1
    /\ quiet' = FALSE
    /\ UNCHANGED <<dumper, callers, fpc, trigger, stale>>

\* TriggerDrain / SwitchAndDrain by the application.
ManualDrain ==
    /\ Drain
    /\ UNCHANGED <<dumper, callers, fpc, trigger, quiet>>

(* Dumper.Start: the mutex covers isRunning only. *)

Start(c) ==
    /\ cpc[c] = "idle" /\ ~isRunning
    /\ isRunning' = TRUE
    /\ cpc' = [cpc EXCEPT ![c] = "add"]
    /\ UNCHANGED <<fill, stopClosed, wg, gpc, tick, closedOn, stopped, fpc,
                   trigger, quiet, stale>>

StartAdd(c) ==
    /\ cpc[c] = "add"
    /\ wg' = wg + 1
    /\ cpc' = [cpc EXCEPT ![c] = "go"]
    /\ UNCHANGED <<fill, isRunning, stopClosed, gpc, tick, closedOn, stopped,
                   fpc, trigger, quiet, stale>>

StartGo(c) ==
    /\ cpc[c] = "go"
    /\ gpc' = "select"
    /\ cpc' = [cpc EXCEPT ![c] = "idle"]
    /\ UNCHANGED <<fill, isRunning, stopClosed, wg, tick, closedOn, stopped,
                   fpc, trigger, quiet, stale>>

(* Dumper.Stop *)

StopClose(c) ==
    /\ cpc[c] = "idle" /\ ~stopClosed
    /\ stopClosed' = TRUE
    /\ cpc' = [cpc EXCEPT ![c] = "wait"]
    /\ closedOn' = Phase /\ quiet' = TRUE
    /\ UNCHANGED <<fill, isRunning, wg, gpc, tick, stopped, fpc, trigger,
                   stale>>

\* Closing a closed channel panics.  That ends the process; what the model
\* lets the other threads do afterwards is more than they can.
StopPanic(c) ==
    /\ cpc[c] = "idle" /\ stopClosed
    /\ cpc' = [cpc EXCEPT ![c] = "panicked"]
    /\ UNCHANGED <<fill, dumper, closedOn, stopped, fpc, trigger, quiet, stale>>

StopWait(c) ==
    /\ cpc[c] = "wait" /\ wg = 0
    /\ cpc' = [cpc EXCEPT ![c] = "idle"]
    /\ stopped' = TRUE
    /\ UNCHANGED <<fill, dumper, closedOn, fpc, trigger, quiet, stale>>

(* Dumper.run *)

\* The ticker holds one tick and drops the rest.
Tick ==
    /\ gpc \in Alive /\ ~tick
    /\ tick' = TRUE
    /\ UNCHANGED <<fill, isRunning, stopClosed, wg, gpc, callers, fpc, trigger,
                   quiet, stale>>

SelectTick ==
    /\ gpc = "select" /\ tick
    /\ gpc' = "check" /\ tick' = FALSE
    /\ UNCHANGED <<fill, isRunning, stopClosed, wg, callers, fpc, trigger,
                   quiet, stale>>

SelectStop ==
    /\ gpc = "select" /\ stopClosed
    /\ gpc' = "finalCheck"
    /\ UNCHANGED <<fill, isRunning, stopClosed, wg, tick, callers, fpc,
                   trigger, quiet, stale>>

CheckTick ==
    /\ gpc = "check"
    /\ IF NeedsDrain THEN gpc' = "dump" /\ Decide("dumper")
                     ELSE gpc' = "select" /\ stale' = stale
    /\ UNCHANGED <<fill, isRunning, stopClosed, wg, tick, callers, fpc,
                   trigger, quiet>>

Dump ==
    /\ gpc = "dump"
    /\ gpc' = "select" /\ Drain
    /\ UNCHANGED <<isRunning, stopClosed, wg, tick, callers, fpc, trigger,
                   quiet>>

\* defer wg.Done(); isRunning stays TRUE.
FinalCheck ==
    /\ gpc = "finalCheck"
    /\ IF NeedsDrain
       THEN gpc' = "finalDump" /\ wg' = wg /\ Decide("dumper")
       ELSE gpc' = "done" /\ wg' = wg - 1 /\ stale' = stale
    /\ UNCHANGED <<fill, isRunning, stopClosed, tick, callers, fpc, trigger,
                   quiet>>

FinalDump ==
    /\ gpc = "finalDump"
    /\ gpc' = "done" /\ wg' = wg - 1 /\ Drain
    /\ UNCHANGED <<isRunning, stopClosed, tick, callers, fpc, trigger, quiet>>

(* Dumper.ForceDump *)

ForceCall(f) ==
    /\ fpc[f] = "idle"
    /\ fpc' = [fpc EXCEPT ![f] = "check"]
    /\ UNCHANGED <<fill, dumper, callers, trigger, quiet, stale>>

ForceCheck(f) ==
    /\ fpc[f] = "check"
    /\ IF NeedsDrain THEN fpc' = [fpc EXCEPT ![f] = "dump"] /\ Decide(f)
                     ELSE fpc' = [fpc EXCEPT ![f] = "idle"] /\ stale' = stale
    /\ UNCHANGED <<fill, dumper, callers, trigger, quiet>>

ForceDump(f) ==
    /\ fpc[f] = "dump"
    /\ fpc' = [fpc EXCEPT ![f] = "idle"] /\ Drain
    /\ UNCHANGED <<dumper, callers, trigger, quiet>>

(* DrainTrigger *)

StartDrainTrigger ==
    /\ tpc = "off"
    /\ tpc' = "select"
    /\ UNCHANGED <<fill, dumper, callers, fpc, ttick, count, tClosed, tstop,
                   quiet, stale>>

StopDrainTrigger ==
    /\ tstop = "idle" /\ tpc # "off" /\ ~tClosed
    /\ tClosed' = TRUE /\ tstop' = "wait"
    /\ UNCHANGED <<fill, dumper, callers, fpc, tpc, ttick, count, quiet, stale>>

\* wg.Done comes with the return of the goroutine.
StopDrainTriggerWait ==
    /\ tstop = "wait" /\ tpc = "done"
    /\ tstop' = "idle"
    /\ UNCHANGED <<fill, dumper, callers, fpc, tpc, ttick, count, tClosed,
                   quiet, stale>>

\* A second call closes a closed channel, like StopPanic.
StopDrainTriggerPanic ==
    /\ tstop = "idle" /\ tClosed
    /\ tstop' = "panicked"
    /\ UNCHANGED <<fill, dumper, callers, fpc, tpc, ttick, count, tClosed,
                   quiet, stale>>

TriggerTick ==
    /\ tpc \in Watching /\ ~ttick
    /\ ttick' = TRUE
    /\ UNCHANGED <<fill, dumper, callers, fpc, tpc, count, tClosed, tstop,
                   quiet, stale>>

TriggerSelectTick ==
    /\ tpc = "select" /\ ttick
    /\ tpc' = "count" /\ ttick' = FALSE
    /\ UNCHANGED <<fill, dumper, callers, fpc, count, tClosed, tstop,
                   quiet, stale>>

TriggerSelectStop ==
    /\ tpc = "select" /\ tClosed
    /\ tpc' = "done"
    /\ UNCHANGED <<fill, dumper, callers, fpc, ttick, count, tClosed, tstop,
                   quiet, stale>>

TriggerCount ==
    /\ tpc = "count"
    /\ tpc' = "decide" /\ count' = fill
    /\ UNCHANGED <<fill, dumper, callers, fpc, ttick, tClosed, tstop,
                   quiet, stale>>

\* Count threshold or size threshold, which is also one of the count; the
\* time threshold is stored and never looked at.
TriggerDecide ==
    /\ tpc = "decide"
    /\ tpc' = IF count >= TriggerAt THEN "drain" ELSE "select"
    /\ count' = 0
    /\ UNCHANGED <<fill, dumper, callers, fpc, ttick, tClosed, tstop,
                   quiet, stale>>

\* "Exit after drain".
TriggerDrain ==
    /\ tpc = "drain"
    /\ tpc' = "done" /\ Drain
    /\ UNCHANGED <<dumper, callers, fpc, ttick, count, tClosed, tstop, quiet>>

-----------------------------------------------------------------------------
DumperStep == SelectTick \/ SelectStop \/ CheckTick \/ Dump \/ FinalCheck
              \/ FinalDump
TriggerStep == TriggerSelectTick \/ TriggerSelectStop \/ TriggerCount
               \/ TriggerDecide \/ TriggerDrain
CallStep(c) == StartAdd(c) \/ StartGo(c) \/ StopWait(c)

Next ==
    \/ Write \/ ManualDrain
    \/ Tick \/ DumperStep
    \/ \E c \in Callers : Start(c) \/ StopClose(c) \/ StopPanic(c) \/ CallStep(c)
    \/ \E f \in Forcers : ForceCall(f) \/ ForceCheck(f) \/ ForceDump(f)
    \/ StartDrainTrigger \/ StopDrainTrigger \/ StopDrainTriggerWait
    \/ StopDrainTriggerPanic \/ TriggerTick \/ TriggerStep

Spec == Init /\ [][Next]_vars

\* Goroutines run, tickers tick, calls go on; a select with two ready cases
\* picks one at random, so a closed stopChan is noticed in the end.
Fairness ==
    /\ WF_vars(Tick) /\ WF_vars(DumperStep) /\ SF_vars(SelectStop)
    /\ WF_vars(TriggerTick) /\ WF_vars(TriggerStep) /\ SF_vars(TriggerSelectStop)
    /\ WF_vars(StopDrainTriggerWait)
    /\ \A c \in Callers : WF_vars(CallStep(c))

FairSpec == Spec /\ Fairness

-----------------------------------------------------------------------------
\* A dumper that was at work when Stop was called is gone when Stop returns,
\* so it drains nothing behind the back of a caller that has stopped it, and
\* unless something was written in the meantime it has left no region behind
\* that needs a drain, whoever else was draining.  (One that Start is still
\* launching may begin after Stop has returned.)
StopDrainsFirst ==
    (stopped /\ closedOn = "live") =>
        gpc = "done" /\ (quiet => fill < NeedAt)

\* A dump drains a region below 90 % only if another drain came in between
\* the look at the region and the drain.
DumpsAreDue ==
    /\ (gpc \in {"dump", "finalDump"} /\ ~stale["dumper"]) => fill >= NeedAt
    /\ \A f \in Forcers : (fpc[f] = "dump" /\ ~stale[f]) => fill >= NeedAt

\* A Stop returns, however often the ticker and the writers keep the dumper
\* busy, and so does a StopDrainTrigger.
StopReturns ==
    /\ \A c \in Callers : cpc[c] = "wait" ~> cpc[c] = "idle"
    /\ tstop = "wait" ~> tstop = "idle"

\* While the dumper runs, a region at 90 % does not stay there.
DumperDrains ==
    (gpc \in Alive /\ fill >= NeedAt) ~> (fill < NeedAt \/ stopClosed)

\* While the trigger is watching, a region at the threshold is drained.  (It
\* stops watching after its first drain.)
TriggerFires ==
    (tpc \in Watching /\ fill >= TriggerAt) ~> (fill < TriggerAt \/ tClosed)
=============================================================================
