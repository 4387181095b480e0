---------------------------- MODULE LockerWriter ----------------------------
(***************************************************************************)
(* The hot write path and the drain of Zigo-DB: db_write_raw and           *)
(* db_switch_and_drain of db/zigo_db.zig over the two regions of           *)
(* db/types.zig, called by WriteToRoom and TriggerDrain of bridge.go.      *)
(*                                                                         *)
(* No lock protects any of it.  A writer loads region_bit, takes a ticket  *)
(* in that region, takes a slot, fills it, commits it and gives the ticket *)
(* back; a drainer flips region_bit, spins until the old region holds no   *)
(* ticket, tallies it and resets its three counters.  Every atomic         *)
(* operation of the code is one action, so every interleaving of calls is  *)
(* a behaviour.  Payloads are abstracted to how far their slot is written. *)
(***************************************************************************)
EXTENDS Integers, FiniteSets

CONSTANTS
    Writers,     \* threads that call WriteToRoom, again and again
    Drainers,    \* threads that call TriggerDrain / SwitchAndDrain
    MaxSlots,    \* db.max_slots, MAX_ENTRIES_PER_REGION
    CursorMod,   \* cursor is a u32: 2^32
    MaxDrains    \* model bound: drain calls started in one behaviour

ASSUME WritersAssumption == IsFiniteSet(Writers)
ASSUME MaxSlotsAssumption == MaxSlots \in Nat \ {0}
ASSUME CursorAssumption ==
    CursorMod \in Nat /\ MaxSlots + Cardinality(Writers) < CursorMod
ASSUME MaxDrainsAssumption == MaxDrains \in Nat

Regions == {0, 1}          \* rw_a, rw_b
Slots == 0 .. MaxSlots - 1
Cursors == 0 .. CursorMod - 1

\* u32 fetch-and-add / fetch-and-sub of 1.
Inc(c) == IF c = CursorMod - 1 THEN 0 ELSE c + 1
Dec(c) == IF c = 0 THEN CursorMod - 1 ELSE c - 1

VARIABLES
    region_bit,         \* index of the active region
    cursor,             \* [Regions -> u32]: slots handed out
    active_writers,     \* [Regions -> i32]: tickets out
    committed_entries,  \* [Regions -> u32]: what readers are told
    entries,            \* slot contents: never written, left over from before
                        \* the last reset, header written, or payload too
    total_entries,      \* the plain u64 tally of the drains
    uuidCounter,        \* bridge.go: writes acknowledged to their callers
    pc, region, idx,    \* a writer's place in the call and its locals
    dpc, old_region,    \* a drainer's place in the call and its locals
    entries_written,
    totals,             \* the value of it a drainer's plain += has loaded
    drain_calls,        \* model bound: drain calls started
    late                \* history: some ticket was taken in a region whose
                        \* drain had already seen its writers leave

shared == <<region_bit, cursor, active_writers, committed_entries, entries>>
tallies == <<total_entries>>
writerVars == <<pc, region, idx, uuidCounter>>
drainVars == <<dpc, old_region, entries_written, totals, drain_calls>>
vars == <<shared, tallies, writerVars, drainVars, late>>

-----------------------------------------------------------------------------
\* A writer between its two ticket updates, and a drainer past its spin.
InRegion == {"slot", "undo", "reject", "header", "copy", "commit", "leave"}
Filling == {"header", "copy", "commit"}
WriterPCs == InRegion \cup {"idle", "ticket", "uuid"}
PastSpin == {"tally", "loadTotals", "storeTotals",
             "resetCursor", "resetWriters", "resetCommitted"}
DrainPCs == PastSpin \cup {"idle", "flip", "spin"}

Holders(r) == {w \in Writers : region[w] = r /\ pc[w] \in InRegion}
Uncommitted(r) == {w \in Writers : region[w] = r /\ pc[w] \in Filling}
Undoing(r) == {w \in Writers : region[w] = r /\ pc[w] = "undo"}
\* A drainer has declared region r quiet and is not done with it.
Sealed(r) == \E d \in Drainers : old_region[d] = r /\ dpc[d] \in PastSpin
\* A drainer is in the middle of reset(): cursor is cleared, the rest is not.
Clearing(r) == \E d \in Drainers :
    old_region[d] = r /\ dpc[d] \in {"resetWriters", "resetCommitted"}

SlotStates == {"empty", "stale", "header", "full"}

TypeOK ==
    /\ region_bit \in Regions
    /\ cursor \in [Regions -> Cursors]
    /\ active_writers \in [Regions -> Int]
    /\ committed_entries \in [Regions -> Nat]
    /\ entries \in [Regions -> [Slots -> SlotStates]]
    /\ total_entries \in Nat /\ uuidCounter \in Nat
    /\ pc \in [Writers -> WriterPCs]
    /\ region \in [Writers -> Regions]
    /\ idx \in [Writers -> Cursors]
    /\ \A w \in Writers : pc[w] \in Filling => idx[w] \in Slots
    /\ dpc \in [Drainers -> DrainPCs]
    /\ old_region \in [Drainers -> Regions]
    /\ entries_written \in [Drainers -> Cursors]
    /\ totals \in [Drainers -> Nat]
    /\ drain_calls \in Nat
    /\ late \in BOOLEAN

Init ==
    /\ region_bit = 0
    /\ cursor = [r \in Regions |-> 0]
    /\ active_writers = [r \in Regions |-> 0]
    /\ committed_entries = [r \in Regions |-> 0]
    /\ entries = [r \in Regions |-> [s \in Slots |-> "empty"]]
    /\ total_entries = 0 /\ uuidCounter = 0
    /\ pc = [w \in Writers |-> "idle"]
    /\ region = [w \in Writers |-> 0]
    /\ idx = [w \in Writers |-> 0]
    /\ dpc = [d \in Drainers |-> "idle"]
    /\ old_region = [d \in Drainers |-> 0]
    /\ entries_written = [d \in Drainers |-> 0]
    /\ totals = [d \in Drainers |-> 0]
    /\ drain_calls = 0
    /\ late = FALSE

-----------------------------------------------------------------------------
(* Plausible bugs of the actions below, kept to show that the properties     *)
(* notice them.  None of them is part of the specification.                  *)

\* TakeSlot that publishes the slot when it is taken, not when it is filled.
PublishAtOnce(w) ==
    /\ pc[w] = "slot"
    /\ cursor[region[w]] < MaxSlots
    /\ pc' = [pc EXCEPT ![w] = "header"]
    /\ idx' = [idx EXCEPT ![w] = cursor[region[w]]]
    /\ cursor' = [cursor EXCEPT ![region[w]] = Inc(@)]
    /\ committed_entries' = [committed_entries EXCEPT ![region[w]] = @ + 1]
    /\ UNCHANGED <<region_bit, active_writers, entries, tallies, region,
                   uuidCounter, drainVars, late>>

\* TakeSlotFull with its bound off by one.
FullTooSoon(w) ==
    /\ pc[w] = "slot"
    /\ cursor[region[w]] >= MaxSlots - 1
    /\ pc' = [pc EXCEPT ![w] = "undo"]
    /\ cursor' = [cursor EXCEPT ![region[w]] = Inc(@)]
    /\ UNCHANGED <<region_bit, active_writers, committed_entries, entries,
                   tallies, region, idx, uuidCounter, drainVars, late>>

\* TakeSlotFull in a write that commits before it looks at the limit.
PublishRefused(w) ==
    /\ pc[w] = "slot"
    /\ cursor[region[w]] >= MaxSlots
    /\ pc' = [pc EXCEPT ![w] = "undo"]
    /\ cursor' = [cursor EXCEPT ![region[w]] = Inc(@)]
    /\ committed_entries' = [committed_entries EXCEPT ![region[w]] = @ + 1]
    /\ UNCHANGED <<region_bit, active_writers, entries, tallies, region, idx,
                   uuidCounter, drainVars, late>>

\* UndoSlot that forgets to give the slot back.
NoRollback(w) ==
    /\ pc[w] = "undo"
    /\ pc' = [pc EXCEPT ![w] = "reject"]
    /\ UNCHANGED <<shared, tallies, region, idx, uuidCounter, drainVars, late>>

\* Reject that forgets to give the ticket back.
KeepTicket(w) ==
    /\ pc[w] = "reject"
    /\ pc' = [pc EXCEPT ![w] = "idle"]
    /\ region' = [region EXCEPT ![w] = 0]
    /\ UNCHANGED <<shared, tallies, idx, uuidCounter, drainVars, late>>

\* A drain that waits, tallies and resets without switching regions.
NoFlip(d) ==
    /\ dpc[d] = "flip"
    /\ dpc' = [dpc EXCEPT ![d] = "spin"]
    /\ UNCHANGED <<shared, tallies, writerVars, old_region, entries_written,
                   totals, drain_calls, late>>

\* SpinDone that does not wait.
NoSpin(d) ==
    /\ dpc[d] = "spin"
    /\ dpc' = [dpc EXCEPT ![d] = "tally"]
    /\ UNCHANGED <<shared, tallies, writerVars, old_region, entries_written,
                   totals, drain_calls, late>>

\* SpinDone that watches the region the writers are moving to.
SpinOnActive(d) ==
    /\ dpc[d] = "spin"
    /\ active_writers[region_bit] <= 0
    /\ dpc' = [dpc EXCEPT ![d] = "tally"]
    /\ UNCHANGED <<shared, tallies, writerVars, old_region, entries_written,
                   totals, drain_calls, late>>

\* Tally that reads the active region instead of the old one.
TallyActive(d) ==
    /\ dpc[d] = "tally"
    /\ dpc' = [dpc EXCEPT ![d] = "loadTotals"]
    /\ entries_written' = [entries_written EXCEPT ![d] = cursor[region_bit]]
    /\ UNCHANGED <<shared, tallies, writerVars, old_region, totals,
                   drain_calls, late>>

\* A reset() that forgets committed_entries.
KeepCommitted(d) ==
    /\ dpc[d] = "resetCommitted"
    /\ dpc' = [dpc EXCEPT ![d] = "idle"]
    /\ old_region' = [old_region EXCEPT ![d] = 0]
    /\ UNCHANGED <<shared, tallies, writerVars, entries_written, totals,
                   drain_calls, late>>

-----------------------------------------------------------------------------
(* db_write_raw.  A local goes back to 0 after its last use. *)

\* getActiveRegion: from here on the region is a local of the call.
LoadRegion(w) ==
    /\ pc[w] = "idle"
    /\ pc' = [pc EXCEPT ![w] = "ticket"]
    /\ region' = [region EXCEPT ![w] = region_bit]
    /\ UNCHANGED <<shared, tallies, idx, uuidCounter, drainVars, late>>

TakeTicket(w) ==
    /\ pc[w] = "ticket"
    /\ pc' = [pc EXCEPT ![w] = "slot"]
    /\ active_writers' = [active_writers EXCEPT ![region[w]] = @ + 1]
    /\ late' = (late \/ Sealed(region[w]))
    /\ UNCHANGED <<region_bit, cursor, committed_entries, entries, tallies,
                   region, idx, uuidCounter, drainVars>>

\* The fetch-and-add of cursor, which returned a slot of the region ...
TakeSlot(w) ==
    /\ pc[w] = "slot"
    /\ cursor[region[w]] < MaxSlots
    /\ pc' = [pc EXCEPT ![w] = "header"]
    /\ idx' = [idx EXCEPT ![w] = cursor[region[w]]]
    /\ cursor' = [cursor EXCEPT ![region[w]] = Inc(@)]
    /\ UNCHANGED <<region_bit, active_writers, committed_entries, entries,
                   tallies, region, uuidCounter, drainVars, late>>

\* ... or an index past its end.
TakeSlotFull(w) ==
    /\ pc[w] = "slot"
    /\ cursor[region[w]] >= MaxSlots
    /\ pc' = [pc EXCEPT ![w] = "undo"]
    /\ cursor' = [cursor EXCEPT ![region[w]] = Inc(@)]
    /\ UNCHANGED <<region_bit, active_writers, committed_entries, entries,
                   tallies, region, idx, uuidCounter, drainVars, late>>

UndoSlot(w) ==
    /\ pc[w] = "undo"
    /\ pc' = [pc EXCEPT ![w] = "reject"]
    /\ cursor' = [cursor EXCEPT ![region[w]] = Dec(@)]
    /\ UNCHANGED <<region_bit, active_writers, committed_entries, entries,
                   tallies, region, idx, uuidCounter, drainVars, late>>

\* Give the ticket back and return -1, "region full".
Reject(w) ==
    /\ pc[w] = "reject"
    /\ pc' = [pc EXCEPT ![w] = "idle"]
    /\ active_writers' = [active_writers EXCEPT ![region[w]] = @ - 1]
    /\ region' = [region EXCEPT ![w] = 0]
    /\ UNCHANGED <<region_bit, cursor, committed_entries, entries, tallies,
                   idx, uuidCounter, drainVars, late>>

WriteHeader(w) ==
    /\ pc[w] = "header"
    /\ pc' = [pc EXCEPT ![w] = "copy"]
    /\ entries' = [entries EXCEPT ![region[w]][idx[w]] = "header"]
    /\ UNCHANGED <<region_bit, cursor, active_writers, committed_entries,
                   tallies, region, idx, uuidCounter, drainVars, late>>

CopyPayload(w) ==
    /\ pc[w] = "copy"
    /\ pc' = [pc EXCEPT ![w] = "commit"]
    /\ entries' = [entries EXCEPT ![region[w]][idx[w]] = "full"]
    /\ UNCHANGED <<region_bit, cursor, active_writers, committed_entries,
                   tallies, region, idx, uuidCounter, drainVars, late>>

Commit(w) ==
    /\ pc[w] = "commit"
    /\ pc' = [pc EXCEPT ![w] = "leave"]
    /\ committed_entries' = [committed_entries EXCEPT ![region[w]] = @ + 1]
    /\ idx' = [idx EXCEPT ![w] = 0]
    /\ UNCHANGED <<region_bit, cursor, active_writers, entries, tallies,
                   region, uuidCounter, drainVars, late>>

\* Give the ticket back and return 0.
Leave(w) ==
    /\ pc[w] = "leave"
    /\ pc' = [pc EXCEPT ![w] = "uuid"]
    /\ active_writers' = [active_writers EXCEPT ![region[w]] = @ - 1]
    /\ region' = [region EXCEPT ![w] = 0]
    /\ UNCHANGED <<region_bit, cursor, committed_entries, entries, tallies,
                   idx, uuidCounter, drainVars, late>>

\* WriteToRoom numbers the write once db_write_raw has returned 0.
AssignUuid(w) ==
    /\ pc[w] = "uuid"
    /\ pc' = [pc EXCEPT ![w] = "idle"]
    /\ uuidCounter' = uuidCounter + 1
    /\ UNCHANGED <<shared, tallies, region, idx, drainVars, late>>

-----------------------------------------------------------------------------
(* db_switch_and_drain *)

LoadBit(d) ==
    /\ dpc[d] = "idle"
    /\ drain_calls < MaxDrains
    /\ dpc' = [dpc EXCEPT ![d] = "flip"]
    /\ old_region' = [old_region EXCEPT ![d] = region_bit]
    /\ drain_calls' = drain_calls + 1
    /\ UNCHANGED <<shared, tallies, writerVars, entries_written, totals, late>>

Flip(d) ==
    /\ dpc[d] = "flip"
    /\ dpc' = [dpc EXCEPT ![d] = "spin"]
    /\ region_bit' = 1 - old_region[d]
    /\ UNCHANGED <<cursor, active_writers, committed_entries, entries, tallies,
                   writerVars, old_region, entries_written, totals,
                   drain_calls, late>>

\* The load that ends the spin; the loads that do not are stuttering steps.
SpinDone(d) ==
    /\ dpc[d] = "spin"
    /\ active_writers[old_region[d]] <= 0
    /\ dpc' = [dpc EXCEPT ![d] = "tally"]
    /\ UNCHANGED <<shared, tallies, writerVars, old_region, entries_written,
                   totals, drain_calls, late>>

Tally(d) ==
    /\ dpc[d] = "tally"
    /\ dpc' = [dpc EXCEPT ![d] = "loadTotals"]
    /\ entries_written' =
           [entries_written EXCEPT ![d] = cursor[old_region[d]]]
    /\ UNCHANGED <<shared, tallies, writerVars, old_region, totals,
                   drain_calls, late>>

\* total_entries += entries_written is not atomic: of two drainers that have
\* both loaded, one loses its addition.  So it is with total_drains, which
\* nothing reads and which is left out here.
LoadTotals(d) ==
    /\ dpc[d] = "loadTotals"
    /\ dpc' = [dpc EXCEPT ![d] = "storeTotals"]
    /\ totals' = [totals EXCEPT ![d] = total_entries]
    /\ UNCHANGED <<shared, tallies, writerVars, old_region, entries_written,
                   drain_calls, late>>

StoreTotals(d) ==
    /\ dpc[d] = "storeTotals"
    /\ dpc' = [dpc EXCEPT ![d] = "resetCursor"]
    /\ total_entries' = totals[d] + entries_written[d]
    /\ entries_written' = [entries_written EXCEPT ![d] = 0]
    /\ totals' = [totals EXCEPT ![d] = 0]
    /\ UNCHANGED <<shared, writerVars, old_region, drain_calls, late>>

\* Region.reset is three separate stores.  The slots keep their bytes: they
\* are now those of an earlier use of the region.
ResetCursor(d) ==
    /\ dpc[d] = "resetCursor"
    /\ dpc' = [dpc EXCEPT ![d] = "resetWriters"]
    /\ cursor' = [cursor EXCEPT ![old_region[d]] = 0]
    /\ entries' = [entries EXCEPT ![old_region[d]] =
                      [s \in Slots |-> IF @[s] = "empty" THEN "empty" ELSE "stale"]]
    /\ UNCHANGED <<region_bit, active_writers, committed_entries, tallies,
                   writerVars, old_region, entries_written, totals,
                   drain_calls, late>>

ResetWriters(d) ==
    /\ dpc[d] = "resetWriters"
    /\ dpc' = [dpc EXCEPT ![d] = "resetCommitted"]
    /\ active_writers' = [active_writers EXCEPT ![old_region[d]] = 0]
    /\ UNCHANGED <<region_bit, cursor, committed_entries, entries, tallies,
                   writerVars, old_region, entries_written, totals,
                   drain_calls, late>>

ResetCommitted(d) ==
    /\ dpc[d] = "resetCommitted"
    /\ dpc' = [dpc EXCEPT ![d] = "idle"]
    /\ committed_entries' = [committed_entries EXCEPT ![old_region[d]] = 0]
    /\ old_region' = [old_region EXCEPT ![d] = 0]
    /\ UNCHANGED <<region_bit, cursor, active_writers, entries, tallies,
                   writerVars, entries_written, totals,
                   drain_calls, late>>

-----------------------------------------------------------------------------
WriteCall(w) ==
    \/ TakeTicket(w) \/ TakeSlot(w) \/ TakeSlotFull(w) \/ UndoSlot(w)
    \/ Reject(w) \/ WriteHeader(w) \/ CopyPayload(w) \/ Commit(w)
    \/ Leave(w) \/ AssignUuid(w)

DrainCall(d) ==
    \/ Flip(d) \/ SpinDone(d) \/ Tally(d) \/ LoadTotals(d) \/ StoreTotals(d)
    \/ ResetCursor(d) \/ ResetWriters(d) \/ ResetCommitted(d)

Next ==
    \/ \E w \in Writers : LoadRegion(w) \/ WriteCall(w)
    \/ \E d \in Drainers : LoadBit(d) \/ DrainCall(d)

Spec == Init /\ [][Next]_vars

\* The scheduler runs every thread that is inside a call; nothing obliges a
\* thread to start another write or another drain.
Fairness ==
    /\ \A w \in Writers : WF_vars(WriteCall(w))
    /\ \A d \in Drainers : WF_vars(DrainCall(d))

FairSpec == Spec /\ Fairness

-----------------------------------------------------------------------------
(* Properties.  `late` names the one race the drain does not close: a       *)
(* writer preempted between LoadRegion and TakeTicket enters the region     *)
(* after the drainer's spin saw it empty.                                   *)

\* Slots given to accepted writes since the region was last reset.
Granted(r) == committed_entries[r] + Cardinality(Uncommitted(r))

SingleDrainer == \A d, e \in Drainers : d = e

\* A region's ticket count never exceeds the writers really inside it, in
\* every interleaving: the spin of db_switch_and_drain never waits for a
\* writer that is not there.
NeverOverCounts ==
    \A r \in Regions : active_writers[r] <= Cardinality(Holders(r))

\* Unless a writer came in late, two writers never hold the same slot of a
\* region, however drains and rollbacks of a full region interleave.
ExclusiveSlots ==
    ~late => \A v, w \in Writers :
        /\ pc[v] \in Filling /\ pc[w] \in Filling /\ v # w
        /\ region[v] = region[w]
        => idx[v] # idx[w]

\* Unless a writer came in late, the spin ends only when nobody is inside,
\* and nobody is inside while the drainer tallies and resets the region.
DrainIsQuiet ==
    ~late => \A r \in Regions :
        Sealed(r) => Holders(r) = {} /\ active_writers[r] = 0

\* Unless a writer came in late, cursor is at every moment the committed
\* writes, the writes being filled and the rollbacks under way: db_write_raw
\* leaks no slot when it returns -1 and the drain's tally is exact.
CursorExact ==
    ~late => \A r \in Regions : ~Clearing(r) =>
        cursor[r] = Granted(r) + Cardinality(Undoing(r))

\* Unless a writer came in late, a slot below the cursor that is not wholly
\* written belongs to a writer that is filling it right now: once the
\* writers are gone, committed_entries slots are full, with no hole.
GapsAreInFlight ==
    ~late => \A r \in Regions, s \in Slots :
        /\ ~Clearing(r)
        /\ s < Granted(r)
        /\ entries[r][s] # "full"
        => \E w \in Uncommitted(r) : idx[w] = s

\* Unless a writer came in late, db_write_raw answers "region full" only
\* when every slot of the region has been given to an accepted write.
RejectOnlyWhenFull ==
    [][\A w \in Writers : (~late /\ pc[w] = "slot" /\ pc'[w] = "undo") =>
          Granted(region[w]) = MaxSlots]_vars

\* A drain has added region r to the totals and is about to clear it; entries
\* of a region no drain has added yet.
Tallied(r) == \E d \in Drainers : old_region[d] = r
    /\ dpc[d] \in {"resetCursor", "resetWriters", "resetCommitted"}
Pending(r) == IF Tallied(r) THEN 0 ELSE committed_entries[r]

\* With one drain at a time, a drain that has started returns: the writers
\* in the old region leave it and new calls go to the other one.
DrainTerminates ==
    \A d \in Drainers : dpc[d] # "idle" ~> dpc[d] = "idle"

-----------------------------------------------------------------------------
(* What the sources say without the exception; TLC refutes it. *)

\* changelog.md:321: "Deterministic drain mechanism ensures no data loss during
\* region switches".  Every write acknowledged is tallied or still in a region.
NoDataLoss ==
    SingleDrainer =>
        uuidCounter + Cardinality({w \in Writers : pc[w] \in {"leave", "uuid"}})
            <= total_entries + Pending(0) + Pending(1)

-----------------------------------------------------------------------------
(* The inductive invariant behind the properties above. *)

TicketsExact(r) == active_writers[r] = Cardinality(Holders(r))

CursorCoherent(r) ==
    IF Clearing(r)
    THEN cursor[r] = 0
    ELSE /\ cursor[r] = Granted(r) + Cardinality(Undoing(r))
         /\ Granted(r) <= MaxSlots
         /\ Undoing(r) # {} => Granted(r) = MaxSlots

SlotsCoherent(r) ==
    /\ \A w \in Uncommitted(r) :
          /\ idx[w] < Granted(r)
          /\ pc[w] = "commit" => entries[r][idx[w]] = "full"
    /\ \A v, w \in Uncommitted(r) : idx[v] = idx[w] => v = w
    /\ ~Clearing(r) => \A s \in Slots :
          s < Granted(r) /\ entries[r][s] # "full"
             => \E w \in Uncommitted(r) : idx[w] = s

\* With no late writer the tickets are exact, a sealed region is empty, and
\* the slots below the cursor are those committed or being filled.
IInv ==
    /\ TypeOK
    /\ NeverOverCounts
    /\ ~late => \A r \in Regions :
          /\ TicketsExact(r)
          /\ Sealed(r) => Holders(r) = {}
          /\ CursorCoherent(r)
          /\ SlotsCoherent(r)
=============================================================================
