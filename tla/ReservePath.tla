---------------------------- MODULE ReservePath ----------------------------
(***************************************************************************)
(* The second way to write, beside the writers, drainers and readers of    *)
(* ReadPath: ReserveSlot, WriteEntry and ReleaseSlot of bridge.go over     *)
(* db_reserve_slot, db_fill_entry_cgo and db_release_slot of zigo_db.zig.  *)
(*                                                                         *)
(* It shares the cursor with db_write_raw and nothing else: a reservation  *)
(* takes no ticket, so no drain waits for it, commits nothing, so readers  *)
(* do not count it, and a reservation that fails leaves the cursor where   *)
(* it pushed it.  WriteEntry is given a slot number only and fills that    *)
(* slot of the region that is active by then.                              *)
(***************************************************************************)
EXTENDS ReadPath

CONSTANTS
    Reservers,     \* threads that reserve slots and fill them
    MaxReserves    \* model bound: calls of ReserveSlot in one behaviour

ASSUME ReservesAssumption ==
    MaxReserves \in Nat /\ MaxSlots + Cardinality(Writers) + MaxReserves < CursorMod

VARIABLES
    vpc,         \* a reserver's place in its calls
    home, slot,  \* where its reservation is
    target,      \* the region its WriteEntry works on
    reserves,    \* model bound: calls of ReserveSlot so far
    kept,        \* history: the region was not reset since the reservation
    spent,       \* history: increments of cursor by reservations, by region,
                 \* since its reset
    touched      \* history: slots reserved, or filled by a WriteEntry, since
                 \* the region was reset

reserverVars == <<vpc, home, slot, target, reserves, kept>>
reserveVars == <<reserverVars, spent, touched>>
allVars == <<readPathVars, reserveVars>>

ReserveTypeOK ==
    /\ ReadTypeOK
    /\ vpc \in [Reservers -> {"idle", "reserve", "reserved", "fill", "copy"}]
    /\ home \in [Reservers -> Regions] /\ target \in [Reservers -> Regions]
    /\ slot \in [Reservers -> Slots]
    /\ reserves \in 0 .. MaxReserves
    /\ kept \in [Reservers -> BOOLEAN]
    /\ spent \in [Regions -> 0 .. MaxReserves]
    /\ touched \in [Regions -> SUBSET Slots]

ReserveInit ==
    /\ ReadInit
    /\ vpc = [t \in Reservers |-> "idle"]
    /\ home = [t \in Reservers |-> 0] /\ target = [t \in Reservers |-> 0]
    /\ slot = [t \in Reservers |-> 0]
    /\ reserves = 0
    /\ kept = [t \in Reservers |-> FALSE]
    /\ spent = [r \in Regions |-> 0]
    /\ touched = [r \in Regions |-> {}]

-----------------------------------------------------------------------------
(* Plausible bugs, kept to show that the properties notice them. *)

\* TakeReservation with a load and a store instead of the fetch-and-add: the
\* store is left to whoever comes next.
LoadOnly(t) ==
    /\ vpc[t] = "reserve" /\ cursor[home[t]] < MaxSlots
    /\ vpc' = [vpc EXCEPT ![t] = "reserved"]
    /\ slot' = [slot EXCEPT ![t] = cursor[home[t]]]
    /\ kept' = [kept EXCEPT ![t] = TRUE]
    /\ spent' = [spent EXCEPT ![home[t]] = @ + 1]
    /\ touched' = [touched EXCEPT ![home[t]] = @ \cup {cursor[home[t]]}]
    /\ UNCHANGED <<readPathVars, home, target, reserves>>

\* ReservationFails that takes back two.
RollBackTwice(t) ==
    /\ vpc[t] = "reserve" /\ cursor[home[t]] >= MaxSlots
    /\ vpc' = [vpc EXCEPT ![t] = "idle"]
    /\ home' = [home EXCEPT ![t] = 0]
    /\ cursor' = [cursor EXCEPT ![home[t]] = Dec(@)]
    /\ UNCHANGED <<region_bit, active_writers, committed_entries, entries,
                   tallies, writerVars, drainVars, late, readVars,
                   slot, target, reserves, kept, spent, touched>>

-----------------------------------------------------------------------------
(* ReserveSlot *)

ReserveRegion(t) ==
    /\ vpc[t] = "idle" /\ reserves < MaxReserves
    /\ vpc' = [vpc EXCEPT ![t] = "reserve"]
    /\ home' = [home EXCEPT ![t] = region_bit]
    /\ reserves' = reserves + 1
    /\ UNCHANGED <<readPathVars, slot, target, kept, spent, touched>>

\* The fetch-and-add, and what it does to the cursor in either case.
Spend(t) ==
    /\ vpc[t] = "reserve"
    /\ cursor' = [cursor EXCEPT ![home[t]] = Inc(@)]
    /\ spent' = [spent EXCEPT ![home[t]] = @ + 1]
    /\ UNCHANGED <<region_bit, active_writers, committed_entries, entries,
                   tallies, writerVars, drainVars, late, readVars,
                   target, reserves>>

TakeReservation(t) ==
    /\ cursor[home[t]] < MaxSlots
    /\ Spend(t)
    /\ vpc' = [vpc EXCEPT ![t] = "reserved"]
    /\ slot' = [slot EXCEPT ![t] = cursor[home[t]]]
    /\ kept' = [kept EXCEPT ![t] = TRUE]
    /\ touched' = [touched EXCEPT ![home[t]] = @ \cup {cursor[home[t]]}]
    /\ UNCHANGED home

\* "Slot out of bounds - region is full": the cursor is not put back.
ReservationFails(t) ==
    /\ cursor[home[t]] >= MaxSlots
    /\ Spend(t)
    /\ vpc' = [vpc EXCEPT ![t] = "idle"]
    /\ home' = [home EXCEPT ![t] = 0]
    /\ UNCHANGED <<slot, kept, touched>>

(* WriteEntry, once or again *)

FillRegion(t) ==
    /\ vpc[t] = "reserved"
    /\ vpc' = [vpc EXCEPT ![t] = "fill"]
    /\ target' = [target EXCEPT ![t] = region_bit]
    /\ UNCHANGED <<readPathVars, home, slot, reserves, kept, spent, touched>>

\* setData: the fields ...
FillHeader(t) ==
    /\ vpc[t] = "fill"
    /\ vpc' = [vpc EXCEPT ![t] = "copy"]
    /\ entries' = [entries EXCEPT ![target[t]][slot[t]] = "header"]
    /\ touched' = [touched EXCEPT ![target[t]] = @ \cup {slot[t]}]
    /\ UNCHANGED <<region_bit, cursor, active_writers, committed_entries,
                   tallies, writerVars, drainVars, late, readVars,
                   home, slot, target, reserves, kept, spent>>

\* ... and the data; nothing is committed.
FillPayload(t) ==
    /\ vpc[t] = "copy"
    /\ vpc' = [vpc EXCEPT ![t] = "reserved"]
    /\ entries' = [entries EXCEPT ![target[t]][slot[t]] = "full"]
    /\ touched' = [touched EXCEPT ![target[t]] = @ \cup {slot[t]}]
    /\ target' = [target EXCEPT ![t] = 0]
    /\ UNCHANGED <<region_bit, cursor, active_writers, committed_entries,
                   tallies, writerVars, drainVars, late, readVars,
                   home, slot, reserves, kept, spent>>

\* A no-op in Zig: the caller forgets its slot.
ReleaseSlot(t) ==
    /\ vpc[t] = "reserved"
    /\ vpc' = [vpc EXCEPT ![t] = "idle"]
    /\ home' = [home EXCEPT ![t] = 0] /\ slot' = [slot EXCEPT ![t] = 0]
    /\ kept' = [kept EXCEPT ![t] = FALSE]
    /\ UNCHANGED <<readPathVars, target, reserves, spent, touched>>

ReserveCall(t) ==
    \/ ReserveRegion(t) \/ TakeReservation(t) \/ ReservationFails(t)
    \/ FillRegion(t) \/ FillHeader(t) \/ FillPayload(t) \/ ReleaseSlot(t)

\* Region r is being reset by this very step.
Resets(r) == \E d \in Drainers :
    dpc[d] = "resetCursor" /\ dpc'[d] # dpc[d] /\ old_region[d] = r

\* Everybody else: drains do not wait for reservations, and reset under them.
ReadWriteOrDrain ==
    /\ ReadNext
    /\ kept' = [t \in Reservers |-> kept[t] /\ ~Resets(home[t])]
    /\ spent' = [r \in Regions |-> IF Resets(r) THEN 0 ELSE spent[r]]
    /\ touched' = [r \in Regions |-> IF Resets(r) THEN {} ELSE touched[r]]
    /\ UNCHANGED <<vpc, home, slot, target, reserves>>

ReserveNext == ReadWriteOrDrain \/ \E t \in Reservers : ReserveCall(t)

ReserveSpec == ReserveInit /\ [][ReserveNext]_allVars

-----------------------------------------------------------------------------
\* Unless a writer came in late, a reserved slot is nobody else's, writers or
\* reservers, as long as its region is not reset: a fetch-and-add of the
\* shared cursor is enough, also past the roll-backs of a full region.  (After
\* a reset the reserver still holds its number, and the slot is given again.)
ReservedExclusive ==
    ~late => \A t \in Reservers :
        (vpc[t] \in {"reserved", "fill", "copy"} /\ kept[t]) =>
            /\ \A w \in Uncommitted(home[t]) : idx[w] # slot[t]
            /\ \A u \in Reservers \ {t} :
                  kept[u] /\ home[u] = home[t] => slot[u] # slot[t]

\* Unless a writer came in late, the cursor, and with it the drain's tally, is
\* what writers took and roll back plus every reservation since the reset,
\* those that failed included; a reservation in a region that is just being
\* reset survives the reset.
CursorCounts ==
    ~late => \A r \in Regions :
        cursor[r] = spent[r] +
            IF Clearing(r) THEN 0 ELSE Granted(r) + Cardinality(Undoing(r))

\* Unless a writer came in late, a reader that was given its entry while no
\* writer was filling a slot of the region holds a whole entry until the
\* region is reset, or one that a reservation took or a WriteEntry overwrote:
\* reservations are the only holes in what readers count.
ReadsWhole ==
    ~late => \A k \in Readers :
        (rpc[k] \in Reading /\ calm[k]) =>
            \/ entries[rregion[k]][count[k] - 1] = "full"
            \/ count[k] - 1 \in touched[rregion[k]]

-----------------------------------------------------------------------------
(* The inductive invariant behind the properties above.  *)

Reserving(r) == {t \in Reservers : vpc[t] = "reserve" /\ home[t] = r}

\* Slots given out since the region was last reset, to writes or reservations.
Taken(r) == spent[r] + IF Clearing(r) THEN 0 ELSE Granted(r)

CursorAccounted(r) ==
    /\ cursor[r] = Taken(r) + Cardinality(Undoing(r))
    /\ Granted(r) <= MaxSlots
    /\ Undoing(r) # {} => Taken(r) >= MaxSlots

SlotsAccounted(r) ==
    /\ \A w \in Uncommitted(r) :
          /\ idx[w] < Taken(r)
          /\ pc[w] = "commit" =>
                entries[r][idx[w]] = "full" \/ idx[w] \in touched[r]
    /\ \A v, w \in Uncommitted(r) : idx[v] = idx[w] => v = w
    /\ \A s \in Slots :
          s < Taken(r) /\ entries[r][s] # "full" /\ s \notin touched[r]
             => \E w \in Uncommitted(r) : idx[w] = s

\* A reservation whose region was not reset since.
Reserved(r) == {t \in Reservers : kept[t] /\ home[t] = r}

ReservationsHeld(r) ==
    \A t \in Reserved(r) :
        /\ slot[t] < Taken(r)
        /\ \A w \in Uncommitted(r) : idx[w] # slot[t]
        /\ \A u \in Reserved(r) : slot[u] = slot[t] => u = t

\* A reader's count fits its region; in calm, its entry is committed and no
\* writer has the slot.
ReaderInside(k) ==
    /\ rpc[k] # "trapped" /\ count[k] <= MaxSlots
    /\ rpc[k] \in Reading /\ calm[k] =>
          /\ ~Clearing(rregion[k])
          /\ count[k] <= committed_entries[rregion[k]]
          /\ \A w \in Uncommitted(rregion[k]) : idx[w] # count[k] - 1

RegionInv(r) ==
    /\ TicketsExact(r)
    /\ Sealed(r) => Holders(r) = {}
    /\ CursorAccounted(r)
    /\ SlotsAccounted(r)
    /\ ReservationsHeld(r)

ReserveInv ==
    /\ ReserveTypeOK
    /\ \A t \in Reservers : kept[t] => vpc[t] \in {"reserved", "fill", "copy"}
    /\ \A r \in Regions : /\ IsFiniteSet(Reserving(r))
                          /\ spent[r] + Cardinality(Reserving(r)) <= reserves
    /\ ~late => /\ \A r \in Regions : RegionInv(r)
                /\ \A k \in Readers : ReaderInside(k)
=============================================================================
