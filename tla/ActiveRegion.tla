---------------------------- MODULE ActiveRegion ----------------------------
(***************************************************************************)
(* The two regions as the calls that read them see them: writers, drains   *)
(* and reservations of zigo_db.zig.  A writer takes its slot first and     *)
(* counts its commit last, so commits are counted out of the order of the  *)
(* slots; a reservation takes a slot and never counts one; and reset()     *)
(* clears no entry.  The slots below the committed count, which are the    *)
(* ones a reader is given, may therefore be in a writer's hands, reserved, *)
(* or hold what was written two fills ago, while a committed one is above. *)
(*                                                                         *)
(* Regions alternate: region_bit is fill % 2.  No writer is late and no    *)
(* drain starts before the spin of another has ended; LockerWriter is      *)
(* about those.  Writers that are refused leave nothing behind.            *)
(***************************************************************************)
EXTENDS Integers, FiniteSets

CONSTANTS
    Writers,     \* threads in a write call
    Rooms,       \* room ids, with 0, which no entry needs a write to have
    Times,       \* time stamps ...
    Hashes,      \* ... and state hashes that WriteEntry is given
    MaxSlots,    \* entries a region holds
    MaxReserved  \* model bound: reservations that are not filled yet

ASSUME SlotsAssumption ==
    /\ MaxSlots \in Nat \ {0} /\ MaxReserved \in Nat
    /\ 0 \in Rooms /\ Rooms \subseteq Nat /\ Times \subseteq Int /\ Hashes \subseteq Nat

VARIABLES
    fill,          \* drains so far
    cursor,        \* slots of the active region taken
    done,          \* those whose writer has counted its commit
    settled,       \* history: those of them that hold what it wrote
    entries,       \* the entries of both regions
    wpc, mine,     \* a writer's place, and its region, slot and room
    reservations   \* of callers that have not filled their slot yet

regionVars == <<fill, cursor, done, settled, entries, wpc, mine, reservations>>

Slots == 0 .. MaxSlots - 1

\* The bytes of a message are known by the fill and slot they were written
\* for.  None are those of an entry never written, Torn those of one where a
\* copy is under way, Filled those a WriteEntry put there.
Message(f, s) == [fill |-> f, slot |-> s]
None == [fill |-> -1, slot |-> 0]
Torn == [fill |-> -2, slot |-> 0]
Filled(s) == [fill |-> -3, slot |-> s]
Data == [fill : Nat \cup {-1, -2, -3}, slot : Slots]

Entry == [room_id : Rooms, timestamp : Times \cup {0},
          state_hash : Hashes \cup {0}, data : Data]
Zero == [room_id |-> 0, timestamp |-> 0, state_hash |-> 0, data |-> None]
NoSlot == [fill |-> 0, slot |-> 0, room_id |-> 0]

\* A reservation: when it was made, its slot, and the fill in which WriteEntry
\* has looked the region up, -1 before.
Reservations == [home : Nat, slot : Slots, into : Nat \cup {-1}]

RegionTypeOK ==
    /\ fill \in Nat /\ cursor \in 0 .. MaxSlots
    /\ done \subseteq 0 .. cursor - 1 /\ settled \subseteq done
    /\ entries \in [0 .. 1 -> [Slots -> Entry]]
    /\ wpc \in [Writers -> {"idle", "taken", "fields", "data"}]
    /\ mine \in [Writers -> [fill : 0 .. fill, slot : Slots, room_id : Rooms]]
    /\ reservations \subseteq Reservations

RegionInit ==
    /\ fill = 0 /\ cursor = 0 /\ done = {} /\ settled = {}
    /\ entries = [r \in 0 .. 1 |-> [s \in Slots |-> Zero]]
    /\ wpc = [w \in Writers |-> "idle"]
    /\ mine = [w \in Writers |-> NoSlot]
    /\ reservations = {}

\* The entry of a slot, in the region that is active in fill f.
At(f, s) == entries[f % 2][s]
Store(f, s, e) == entries' = [entries EXCEPT ![f % 2][s] = e]

\* committed_entries is a number: which slots it counts is not kept.
committed == Cardinality(done)

\* db_get_entry_cgo(s) is not null.
Given(s) == s < committed

-----------------------------------------------------------------------------
\* The ticket and the slot.  A slot beyond the region is given back.
TakeSlot(w, q) ==
    /\ wpc[w] = "idle" /\ cursor < MaxSlots
    /\ wpc' = [wpc EXCEPT ![w] = "taken"]
    /\ mine' = [mine EXCEPT ![w] =
                   [fill |-> fill, slot |-> cursor, room_id |-> q]]
    /\ cursor' = cursor + 1
    /\ UNCHANGED <<fill, done, settled, entries, reservations>>

\* room_id, timestamp and data_len; the uuid, both hashes and the checksum
\* stay what they were.
StoreFields(w) ==
    LET m == mine[w]
    IN  /\ wpc[w] = "taken" /\ wpc' = [wpc EXCEPT ![w] = "fields"]
        /\ Store(m.fill, m.slot,
                 [room_id |-> m.room_id, timestamp |-> 0,
                  state_hash |-> At(m.fill, m.slot).state_hash, data |-> Torn])
        /\ UNCHANGED <<fill, cursor, done, settled, mine, reservations>>

StoreData(w) ==
    LET m == mine[w]
    IN  /\ wpc[w] = "fields" /\ wpc' = [wpc EXCEPT ![w] = "data"]
        /\ Store(m.fill, m.slot,
                 [At(m.fill, m.slot) EXCEPT !.data = Message(m.fill, m.slot)])
        /\ UNCHANGED <<fill, cursor, done, settled, mine, reservations>>

\* The slot of a writer has what it put there, and no WriteEntry touched it.
Intact(m) ==
    LET e == At(m.fill, m.slot)
    IN  /\ e.data = Message(m.fill, m.slot)
        /\ e.room_id = m.room_id /\ e.timestamp = 0

\* The commit and the ticket.  In a region that is being drained the count is
\* about to be reset and nobody looks at it.
Commit(w) ==
    LET m == mine[w]
    IN  /\ wpc[w] = "data" /\ wpc' = [wpc EXCEPT ![w] = "idle"]
        /\ mine' = [mine EXCEPT ![w] = NoSlot]
        /\ IF m.fill = fill
           THEN /\ done' = done \cup {m.slot}
                /\ settled' = IF Intact(m) THEN settled \cup {m.slot}
                              ELSE settled
           ELSE UNCHANGED <<done, settled>>
        /\ UNCHANGED <<fill, cursor, entries, reservations>>

\* db_reserve_slot: without a ticket, and never committed.
ReserveSlot ==
    /\ cursor < MaxSlots /\ Cardinality(reservations) < MaxReserved
    /\ reservations' = reservations \cup
                           {[home |-> fill, slot |-> cursor, into |-> -1]}
    /\ cursor' = cursor + 1
    /\ UNCHANGED <<fill, done, settled, entries, wpc, mine>>

\* WriteEntry fills its slot in the region that is active by now, whoever has
\* that slot there: setData's fields first, ...
FillFields(v, q, t, h) ==
    /\ v.into = -1
    /\ reservations' = (reservations \ {v}) \cup {[v EXCEPT !.into = fill]}
    /\ Store(fill, v.slot, [room_id |-> q, timestamp |-> t, state_hash |-> h,
                            data |-> Torn])
    /\ settled' = settled \ {v.slot}
    /\ UNCHANGED <<fill, cursor, done, wpc, mine>>

\* ... then its data.  No drain has waited for it.
FillData(v) ==
    /\ v.into # -1
    /\ reservations' = reservations \ {v}
    /\ Store(v.into, v.slot,
             [At(v.into, v.slot) EXCEPT !.data = Filled(v.slot)])
    /\ settled' = IF v.into % 2 = fill % 2 THEN settled \ {v.slot} ELSE settled
    /\ UNCHANGED <<fill, cursor, done, wpc, mine>>

\* No writer is left in the region drained last: the spin is over.
DrainOver == \A w \in Writers : wpc[w] # "idle" => mine[w].fill = fill

\* The other region becomes the active one.  Its counters were reset, its
\* entries were not.
SwitchAndDrain ==
    /\ DrainOver
    /\ fill' = fill + 1 /\ cursor' = 0 /\ done' = {} /\ settled' = {}
    /\ UNCHANGED <<entries, wpc, mine, reservations>>

\* A new process has two new regions.
NewRegions ==
    /\ fill' = fill + 1 /\ cursor' = 0 /\ done' = {} /\ settled' = {}
    /\ entries' = [r \in 0 .. 1 |-> [s \in Slots |-> Zero]]
    /\ wpc' = [w \in Writers |-> "idle"]
    /\ mine' = [w \in Writers |-> NoSlot]
    /\ reservations' = {}

WriterStep(w) ==
    \/ StoreFields(w) \/ StoreData(w) \/ Commit(w)
    \/ \E q \in Rooms : TakeSlot(w, q)

\* Everything that fills slots of the regions, but for the fields of a
\* WriteEntry, ...
StoreStep ==
    \/ \E w \in Writers : WriterStep(w)
    \/ ReserveSlot
    \/ \E v \in reservations : FillData(v)

\* ... and with them.
FillStep ==
    \/ StoreStep
    \/ \E v \in reservations, q \in Rooms, t \in Times, h \in Hashes :
          FillFields(v, q, t, h)

-----------------------------------------------------------------------------
(* The inductive invariant on which properties of the readers rest. *)

\* A writer at work in the active region has a slot of its own, not committed
\* yet; one elsewhere is in the other region.
WritersApart ==
    \A w \in Writers : wpc[w] # "idle" =>
        /\ mine[w].fill \in {fill, fill - 1}
        /\ mine[w].fill = fill => mine[w].slot < cursor
                                  /\ mine[w].slot \notin done
        /\ \A u \in Writers \ {w} :
              (wpc[u] # "idle" /\ mine[u].fill = mine[w].fill) =>
                  mine[u].slot # mine[w].slot

\* A message is found in its own slot and in its own region only, not before
\* its fill; a settled slot has the message of the active fill, and no time.
MessagesInPlace ==
    \A r \in 0 .. 1, s \in Slots :
        LET d == entries[r][s].data
        IN  /\ d.fill >= 0 => d.slot = s /\ d.fill <= fill /\ d.fill % 2 = r
            /\ (r = fill % 2 /\ s \in settled) =>
                  d = Message(fill, s) /\ entries[r][s].timestamp = 0

RegionInv == RegionTypeOK /\ WritersApart /\ MessagesInPlace
=============================================================================
