-------------------------- MODULE AutoDrainProofs --------------------------
(* The safety properties of AutoDrain for any number of callers, whatever   *)
(* the region size and the thresholds.                                      *)
EXTENDS AutoDrain, TLAPS

Launching(c) == cpc[c] \in {"add", "go"}

\* The wait group counts the goroutine, from wg.Add to wg.Done, and only the
\* one caller that set isRunning launches it.
Launched ==
    /\ \A c, d \in Callers : Launching(c) /\ Launching(d) => c = d
    /\ \A c \in Callers : Launching(c) => isRunning /\ gpc = "none"
    /\ \A c \in Callers : cpc[c] = "add" => wg = 0
    /\ \A c \in Callers : cpc[c] = "go" => wg = 1
    /\ ~isRunning => gpc = "none" /\ wg = 0
    /\ gpc \in Alive => wg = 1

\* Nobody has stopped the dumper before stopChan is closed.  A dumper at work
\* by then stays at work or ends, and has in the end left no region that needs
\* a drain, unless something was written since.
Ended ==
    /\ ~stopClosed => ~stopped /\ \A c \in Callers : cpc[c] # "wait"
    /\ closedOn = "live" =>
          /\ gpc \in Alive \cup {"done"}
          /\ stopped => gpc = "done"
          /\ gpc = "done" /\ quiet => fill < NeedAt

IInv == TypeOK /\ Launched /\ Ended /\ DumpsAreDue

LEMMA IInvInit == Init => IInv
  <1> SUFFICES ASSUME Init PROVE IInv
    OBVIOUS
  <1>1. TypeOK
    <2>1. fill \in 0 .. MaxSlots /\ count \in 0 .. MaxSlots /\ wg \in 0 .. 1
      BY SizesAssumption DEF Init
    <2>2. /\ cpc \in [Callers -> {"idle", "add", "go", "wait", "panicked"}]
          /\ fpc \in [Forcers -> {"idle", "check", "dump"}]
          /\ stale \in [Deciders -> BOOLEAN]
      BY DEF Init
    <2> QED  BY <2>1, <2>2, Zenon DEF Init, TypeOK, Phases
  <1>2. Launched
    BY DEF Init, Launched, Launching, Alive
  <1>3. Ended /\ DumpsAreDue
    <2>1. /\ closedOn # "live" /\ ~stopped /\ gpc = "none"
          /\ cpc = [c \in Callers |-> "idle"]
          /\ fpc = [f \in Forcers |-> "idle"]
      BY DEF Init
    <2> QED  BY <2>1 DEF Ended, DumpsAreDue
  <1> QED  BY <1>1, <1>2, <1>3 DEF IInv

\* Steps that leave the dumper's launch and its goroutine alone.
LEMMA LaunchedStays ==
    ASSUME Launched, UNCHANGED <<cpc, isRunning, gpc, wg>>
    PROVE  Launched'
  BY DEF Launched, Launching

\* Steps of the callers of Start and Stop.
LEMMA CallerStep ==
    ASSUME IInv, NEW c \in Callers,
           Start(c) \/ StopClose(c) \/ StopPanic(c) \/ CallStep(c)
    PROVE  IInv'
  <1> USE DEF IInv
  <1>1. CASE Start(c)
    <2>0. gpc = "none" /\ wg = 0 /\ \A d \in Callers : ~Launching(d)
      BY <1>1 DEF Start, Launched
    <2>1. TypeOK'
      BY <1>1, <2>0 DEF TypeOK, Start, trigger
    <2>2. Launched'
      BY <1>1, <2>0 DEF TypeOK, Start, Launched, Launching, Alive
    <2>3. Ended' /\ DumpsAreDue'
      BY <1>1, <2>0 DEF TypeOK, Start, Ended, DumpsAreDue, Alive
    <2> QED  BY <2>1, <2>2, <2>3
  <1>2. CASE StopClose(c)
    <2>0. Phase \in Phases /\ (Phase = "live" => gpc \in Alive)
      BY DEF Phase, Phases, TypeOK, Alive
    <2>1. TypeOK'
      BY <1>2, <2>0 DEF TypeOK, StopClose, trigger
    <2>2. Launched'
      BY <1>2 DEF TypeOK, StopClose, Launched, Launching, Alive
    <2>3. Ended' /\ DumpsAreDue'
      BY <1>2, <2>0 DEF TypeOK, StopClose, Ended, DumpsAreDue, Alive
    <2> QED  BY <2>1, <2>2, <2>3
  <1>3. CASE StopPanic(c)
    <2>1. TypeOK'
      BY <1>3 DEF TypeOK, StopPanic, dumper, trigger
    <2>2. Launched'
      BY <1>3 DEF TypeOK, StopPanic, dumper, Launched, Launching, Alive
    <2>3. Ended' /\ DumpsAreDue'
      BY <1>3 DEF TypeOK, StopPanic, dumper, Ended, DumpsAreDue, Alive
    <2> QED  BY <2>1, <2>2, <2>3
  <1>4. CASE StartAdd(c)
    <2>0. wg = 0 /\ gpc = "none" /\ isRunning
      BY <1>4 DEF StartAdd, Launched, Launching
    <2>1. TypeOK'
      BY <1>4, <2>0 DEF TypeOK, StartAdd, trigger
    <2>2. Launched'
      BY <1>4, <2>0 DEF TypeOK, StartAdd, Launched, Launching, Alive
    <2>3. Ended' /\ DumpsAreDue'
      BY <1>4, <2>0 DEF TypeOK, StartAdd, Ended, DumpsAreDue, Alive
    <2> QED  BY <2>1, <2>2, <2>3
  <1>5. CASE StartGo(c)
    <2>0. wg = 1 /\ gpc = "none" /\ isRunning /\ closedOn # "live"
      BY <1>5 DEF StartGo, Launched, Launching, Ended, Alive
    <2>1. TypeOK'
      BY <1>5, <2>0 DEF TypeOK, StartGo, trigger, Alive
    <2>2. Launched'
      BY <1>5, <2>0 DEF TypeOK, StartGo, Launched, Launching, Alive
    <2>3. Ended' /\ DumpsAreDue'
      BY <1>5, <2>0 DEF TypeOK, StartGo, Ended, DumpsAreDue, Alive
    <2> QED  BY <2>1, <2>2, <2>3
  <1>6. CASE StopWait(c)
    <2>1. TypeOK'
      BY <1>6 DEF TypeOK, StopWait, dumper, trigger
    <2>2. Launched'
      BY <1>6 DEF TypeOK, StopWait, dumper, Launched, Launching, Alive
    <2>3. Ended' /\ DumpsAreDue'
      BY <1>6 DEF TypeOK, StopWait, dumper, Ended, DumpsAreDue, Alive, Launched
    <2> QED  BY <2>1, <2>2, <2>3
  <1> QED  BY <1>1, <1>2, <1>3, <1>4, <1>5, <1>6 DEF CallStep

\* Steps of the dumper goroutine.
LEMMA DumperNext ==
    ASSUME IInv, Tick \/ DumperStep
    PROVE  IInv'
  <1> USE SizesAssumption DEF IInv
  <1>1. CASE Tick
    <2>1. TypeOK'
      BY <1>1 DEF TypeOK, Tick, callers, trigger, Alive, Launched
    <2>2. Launched'
      BY <1>1 DEF TypeOK, Tick, callers, Launched, Launching, Alive
    <2>3. Ended' /\ DumpsAreDue'
      BY <1>1 DEF TypeOK, Tick, callers, Ended, DumpsAreDue, Alive
    <2> QED  BY <2>1, <2>2, <2>3
  <1>2. CASE SelectTick
    <2>1. TypeOK'
      BY <1>2 DEF TypeOK, SelectTick, callers, trigger, Alive, Launched
    <2>2. Launched'
      BY <1>2 DEF TypeOK, SelectTick, callers, Launched, Launching, Alive
    <2>3. Ended' /\ DumpsAreDue'
      BY <1>2 DEF TypeOK, SelectTick, callers, Ended, DumpsAreDue, Alive
    <2> QED  BY <2>1, <2>2, <2>3
  <1>3. CASE SelectStop
    <2>1. TypeOK'
      BY <1>3 DEF TypeOK, SelectStop, callers, trigger, Alive, Launched
    <2>2. Launched'
      BY <1>3 DEF TypeOK, SelectStop, callers, Launched, Launching, Alive
    <2>3. Ended' /\ DumpsAreDue'
      BY <1>3 DEF TypeOK, SelectStop, callers, Ended, DumpsAreDue, Alive
    <2> QED  BY <2>1, <2>2, <2>3
  <1>4. CASE CheckTick
    <2>1. TypeOK'
      BY <1>4 DEF TypeOK, CheckTick, NeedsDrain, Decide, Deciders, callers,
         trigger, Alive, Launched
    <2>2. Launched'
      BY <1>4 DEF TypeOK, CheckTick, callers, Launched, Launching, Alive
    <2>3. Ended' /\ DumpsAreDue'
      BY <1>4 DEF TypeOK, CheckTick, NeedsDrain, Decide, Deciders, callers,
         Ended, DumpsAreDue, Alive
    <2> QED  BY <2>1, <2>2, <2>3
  <1>5. CASE Dump
    <2>1. TypeOK'
      BY <1>5 DEF TypeOK, Dump, Drain, Deciders, callers, trigger, Alive,
         Launched
    <2>2. Launched'
      BY <1>5 DEF TypeOK, Dump, callers, Launched, Launching, Alive
    <2>3. Ended' /\ DumpsAreDue'
      BY <1>5 DEF TypeOK, Dump, Drain, Deciders, callers, Ended, DumpsAreDue,
         Alive
    <2> QED  BY <2>1, <2>2, <2>3
  <1>6. CASE FinalCheck
    <2>0. wg = 1 /\ gpc \in Alive
      BY <1>6 DEF FinalCheck, Launched, Alive
    <2>1. TypeOK'
      <3>1. CASE NeedsDrain
        BY <1>6, <3>1 DEF TypeOK, FinalCheck, Decide, Deciders, callers,
                          trigger, Alive
      <3>2. CASE ~NeedsDrain
        BY <1>6, <2>0, <3>2 DEF TypeOK, FinalCheck, callers, trigger
      <3> QED  BY <3>1, <3>2
    <2>2. Launched'
      BY <1>6 DEF TypeOK, FinalCheck, callers, Launched, Launching, Alive
    <2>3. Ended' /\ DumpsAreDue'
      BY <1>6 DEF TypeOK, FinalCheck, NeedsDrain, Decide, Deciders, callers,
         Ended, DumpsAreDue, Alive
    <2> QED  BY <2>1, <2>2, <2>3
  <1>7. CASE FinalDump
    <2>1. TypeOK'
      BY <1>7 DEF TypeOK, FinalDump, Drain, Deciders, callers, trigger, Alive,
         Launched
    <2>2. Launched'
      BY <1>7 DEF TypeOK, FinalDump, callers, Launched, Launching, Alive
    <2>3. Ended' /\ DumpsAreDue'
      BY <1>7 DEF TypeOK, FinalDump, Drain, Deciders, callers, Ended,
         DumpsAreDue, Alive
    <2> QED  BY <2>1, <2>2, <2>3
  <1> QED  BY <1>1, <1>2, <1>3, <1>4, <1>5, <1>6, <1>7 DEF DumperStep

\* Calls of ForceDump.
LEMMA ForcerStep ==
    ASSUME IInv, NEW f \in Forcers,
           ForceCall(f) \/ ForceCheck(f) \/ ForceDump(f)
    PROVE  IInv'
  <1> USE SizesAssumption DEF IInv, ForceCall, ForceCheck, ForceDump, NeedsDrain,
          Decide, Drain, dumper, callers, trigger
  <1>1. TypeOK'
    <2>1. CASE ForceCall(f)
      BY <2>1 DEF TypeOK
    <2>2. CASE ForceCheck(f)
      <3>1. fpc' \in [Forcers -> {"idle", "check", "dump"}]
        BY <2>2 DEF TypeOK
      <3>2. stale' \in [Deciders -> BOOLEAN]
        BY <2>2 DEF TypeOK, Deciders
      <3> QED  BY <2>2, <3>1, <3>2 DEF TypeOK
    <2>3. CASE ForceDump(f)
      BY <2>3 DEF TypeOK
    <2> QED  BY <2>1, <2>2, <2>3
  <1>2. Launched'
    BY LaunchedStays
  <1>3. Ended' /\ DumpsAreDue'
    BY DEF TypeOK, Ended, DumpsAreDue, Deciders
  <1> QED  BY <1>1, <1>2, <1>3

\* Writes, manual drains, and the trigger.
LEMMA OtherStep ==
    ASSUME IInv, \/ Write \/ ManualDrain \/ UNCHANGED vars \/ TriggerStep
                 \/ StartDrainTrigger \/ StopDrainTrigger \/ TriggerTick
                 \/ StopDrainTriggerWait \/ StopDrainTriggerPanic
    PROVE  IInv'
  <1> USE SizesAssumption DEF IInv
  <1>1. CASE Write
    <2> USE <1>1 DEF Write, dumper, callers, trigger
    <2>1. TypeOK'
      <3>1. fill' \in 0 .. MaxSlots
        BY DEF TypeOK
      <3> QED  BY <3>1 DEF TypeOK
    <2>2. Launched'
      BY LaunchedStays
    <2>3. Ended' /\ DumpsAreDue'
      BY DEF TypeOK, Ended, DumpsAreDue
    <2> QED  BY <2>1, <2>2, <2>3
  <1>2. CASE ManualDrain
    <2> USE <1>2 DEF ManualDrain, Drain, dumper, callers, trigger
    <2>1. TypeOK'
      BY DEF TypeOK
    <2>2. Launched'
      BY LaunchedStays
    <2>3. Ended' /\ DumpsAreDue'
      BY DEF TypeOK, Ended, DumpsAreDue, Deciders
    <2> QED  BY <2>1, <2>2, <2>3
  <1>3. CASE UNCHANGED vars
    <2> USE <1>3 DEF vars, dumper, callers, trigger
    <2>1. TypeOK'
      BY DEF TypeOK
    <2>2. Launched'
      BY LaunchedStays
    <2>3. Ended' /\ DumpsAreDue'
      BY DEF TypeOK, Ended, DumpsAreDue
    <2> QED  BY <2>1, <2>2, <2>3
  <1>4. CASE StartDrainTrigger \/ StopDrainTrigger \/ TriggerTick
    <2> USE <1>4 DEF StartDrainTrigger, StopDrainTrigger, TriggerTick, Watching,
             dumper, callers
    <2>1. TypeOK'
      <3>1. CASE StartDrainTrigger
        BY <3>1 DEF TypeOK
      <3>2. CASE StopDrainTrigger
        BY <3>2 DEF TypeOK
      <3>3. CASE TriggerTick
        BY <3>3 DEF TypeOK
      <3> QED  BY <3>1, <3>2, <3>3
    <2>2. Launched'
      BY LaunchedStays
    <2>3. Ended' /\ DumpsAreDue'
      BY DEF TypeOK, Ended, DumpsAreDue
    <2> QED  BY <2>1, <2>2, <2>3
  <1>5. CASE TriggerSelectTick \/ TriggerSelectStop
    <2> USE <1>5 DEF TriggerSelectTick, TriggerSelectStop, Watching, dumper, callers
    <2>1. TypeOK'
      BY DEF TypeOK
    <2>2. Launched'
      BY LaunchedStays
    <2>3. Ended' /\ DumpsAreDue'
      BY DEF TypeOK, Ended, DumpsAreDue
    <2> QED  BY <2>1, <2>2, <2>3
  <1>6. CASE TriggerCount \/ TriggerDecide
    <2> USE <1>6 DEF TriggerCount, TriggerDecide, Watching, dumper, callers
    <2>1. TypeOK'
      BY DEF TypeOK
    <2>2. Launched'
      BY LaunchedStays
    <2>3. Ended' /\ DumpsAreDue'
      BY DEF TypeOK, Ended, DumpsAreDue
    <2> QED  BY <2>1, <2>2, <2>3
  <1>7. CASE TriggerDrain
    <2> USE <1>7 DEF TriggerDrain, Drain, Watching, dumper, callers
    <2>1. TypeOK'
      BY DEF TypeOK
    <2>2. Launched'
      BY LaunchedStays
    <2>3. Ended' /\ DumpsAreDue'
      BY DEF TypeOK, Ended, DumpsAreDue, Deciders
    <2> QED  BY <2>1, <2>2, <2>3
  <1>8. CASE StopDrainTriggerWait \/ StopDrainTriggerPanic
    <2> USE <1>8 DEF StopDrainTriggerWait, StopDrainTriggerPanic, dumper, callers
    <2>1. TypeOK'
      BY DEF TypeOK
    <2>2. Launched'
      BY LaunchedStays
    <2>3. Ended' /\ DumpsAreDue'
      BY DEF TypeOK, Ended, DumpsAreDue
    <2> QED  BY <2>1, <2>2, <2>3
  <1> QED  BY <1>1, <1>2, <1>3, <1>4, <1>5, <1>6, <1>7, <1>8 DEF TriggerStep

LEMMA Invariance == Spec => []IInv
  <1>1. IInv /\ [Next]_vars => IInv'
    BY CallerStep, DumperNext, ForcerStep, OtherStep DEF Next
  <1> QED  BY <1>1, IInvInit, PTL DEF Spec

\* When Stop returns, the dumper that was at work has ended and has drained
\* what needed a drain, for any number of callers, writers and other drainers.
THEOREM StopIsOrderly == Spec => []StopDrainsFirst
  <1>1. IInv => StopDrainsFirst
    BY DEF IInv, Ended, StopDrainsFirst
  <1> QED  BY <1>1, Invariance, PTL

\* A dump is premature only if another drain came between the look at the
\* region and the drain.
THEOREM DumpsDue == Spec => []DumpsAreDue
  <1>1. IInv => DumpsAreDue
    BY DEF IInv
  <1> QED  BY <1>1, Invariance, PTL
=============================================================================
