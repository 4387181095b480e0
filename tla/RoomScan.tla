------------------------------ MODULE RoomScan ------------------------------
(***************************************************************************)
(* ReadLastFromRoom of bridge.go beside the writers, reservations and      *)
(* drains of ActiveRegion: count the active region, then walk its entries  *)
(* backwards, one Zig call per entry, looking for a room.  Each call looks *)
(* at the region that is active by then.  The index is a u32 and the loop  *)
(* runs "while i >= 0", so from 0 it wraps to the top.                     *)
(***************************************************************************)
EXTENDS ActiveRegion

CONSTANTS
    Scanners,   \* threads that call ReadLastFromRoom
    IndexMod,   \* the index is a u32: 2^32
    MaxDrains   \* model bound: drains in one behaviour

ASSUME IndexAssumption == IndexMod \in Nat /\ MaxSlots < IndexMod
ASSUME DrainsAssumption == MaxDrains \in Nat

VARIABLES
    pc,       \* "idle", "scan", or "found": a match about to be returned
    room, i,  \* a scanner's argument and loop index
    counted,  \* history: the number of entries it counted ...
    whole,    \* history: ... and those of them that were settled then
    moved     \* history: a drain came since

scanVars == <<pc, room, i, counted, whole, moved>>
vars == <<regionVars, scanVars>>

Indices == 0 .. IndexMod - 1

TypeOK ==
    /\ RegionTypeOK /\ fill <= MaxDrains
    /\ pc \in [Scanners -> {"idle", "scan", "found"}]
    /\ room \in [Scanners -> Rooms]
    /\ i \in [Scanners -> Indices]
    /\ counted \in [Scanners -> 0 .. MaxSlots]
    /\ whole \in [Scanners -> SUBSET Slots]
    /\ moved \in [Scanners -> BOOLEAN]

Init ==
    /\ RegionInit
    /\ pc = [t \in Scanners |-> "idle"]
    /\ room = [t \in Scanners |-> 0]
    /\ i = [t \in Scanners |-> 0]
    /\ counted = [t \in Scanners |-> 0]
    /\ whole = [t \in Scanners |-> {}]
    /\ moved = [t \in Scanners |-> FALSE]

\* db_get_entry_cgo(i) is not null, its room_id is that of the call, and its
\* data_len is neither 0 nor too large.
Matches(t) ==
    /\ Given(i[t])
    /\ At(fill, i[t]).room_id = room[t]
    /\ At(fill, i[t]).data # None

\* The settled entries that a reader counts now.
Whole == {s \in settled : Given(s)}

\* One of them is of room q.
Present(q) == \E s \in Whole : At(fill, s).room_id = q

-----------------------------------------------------------------------------
(* Plausible bugs, kept to show that the properties notice them. *)

\* Miss with an index that stays at 0, as a signed loop would end there.
Saturate(t) ==
    /\ pc[t] = "scan" /\ ~Matches(t)
    /\ i' = [i EXCEPT ![t] = IF @ = 0 THEN 0 ELSE @ - 1]
    /\ UNCHANGED <<regionVars, pc, room, counted, whole, moved>>

\* Miss that walks forwards.
Forwards(t) ==
    /\ pc[t] = "scan" /\ ~Matches(t)
    /\ i' = [i EXCEPT ![t] = (@ + 1) % IndexMod]
    /\ UNCHANGED <<regionVars, pc, room, counted, whole, moved>>

-----------------------------------------------------------------------------
Fills == FillStep /\ UNCHANGED scanVars

Drains ==
    /\ fill < MaxDrains /\ SwitchAndDrain
    /\ moved' = [t \in Scanners |-> TRUE]
    /\ counted' = [t \in Scanners |-> 0]
    /\ whole' = [t \in Scanners |-> {}]
    /\ UNCHANGED <<pc, room, i>>

\* An empty region is the error "no messages available" and changes nothing.
ReadLastFromRoom(t, q) ==
    /\ pc[t] = "idle" /\ committed # 0
    /\ pc' = [pc EXCEPT ![t] = "scan"]
    /\ room' = [room EXCEPT ![t] = q]
    /\ i' = [i EXCEPT ![t] = committed - 1]
    /\ counted' = [counted EXCEPT ![t] = committed]
    /\ whole' = [whole EXCEPT ![t] = Whole]
    /\ moved' = [moved EXCEPT ![t] = FALSE]
    /\ UNCHANGED regionVars

Match(t) ==
    /\ pc[t] = "scan" /\ Matches(t)
    /\ pc' = [pc EXCEPT ![t] = "found"]
    /\ UNCHANGED <<regionVars, room, i, counted, whole, moved>>

\* No entry at i, one of another room, or one without data: i--.
Miss(t) ==
    /\ pc[t] = "scan" /\ ~Matches(t)
    /\ i' = [i EXCEPT ![t] = IF @ = 0 THEN IndexMod - 1 ELSE @ - 1]
    /\ UNCHANGED <<regionVars, pc, room, counted, whole, moved>>

Return(t) ==
    /\ pc[t] = "found"
    /\ pc' = [pc EXCEPT ![t] = "idle"]
    /\ room' = [room EXCEPT ![t] = 0]
    /\ i' = [i EXCEPT ![t] = 0]
    /\ counted' = [counted EXCEPT ![t] = 0]
    /\ whole' = [whole EXCEPT ![t] = {}]
    /\ moved' = [moved EXCEPT ![t] = FALSE]
    /\ UNCHANGED regionVars

Scan(t) == Match(t) \/ Miss(t) \/ Return(t)

Next ==
    \/ Fills \/ Drains
    \/ \E t \in Scanners : Scan(t) \/ \E q \in Rooms : ReadLastFromRoom(t, q)

Spec == Init /\ [][Next]_vars

\* A scanner inside the call runs; nothing obliges anyone to write or drain.
FairSpec == Spec /\ \A t \in Scanners : WF_vars(Scan(t))

-----------------------------------------------------------------------------
\* Whatever is found, no message of the room that the scan had to see was
\* passed over for it: of the entries that were counted and settled when the
\* scan began, and still are, none above the one found is of the room, and
\* none at all if the walk has wrapped past 0 or what is found lies beyond
\* the count.  Entries below the count that are in a writer's hands, or
\* reserved, and ones above it may well be of the room, and newer.
FindsLast ==
    \A t \in Scanners : (pc[t] = "found" /\ ~moved[t]) =>
        \A j \in whole[t] \cap settled :
            (i[t] < j \/ counted[t] <= i[t]) => At(fill, j).room_id # room[t]

\* As long as a settled entry below the count is of the room the scan does
\* find one, also one written, or swapped in, behind the index.
ScanFindsRoom ==
    \A t \in Scanners, q \in Rooms :
        (pc[t] = "scan" /\ room[t] = q /\ Present(q))
            ~> (pc[t] # "scan" \/ ~Present(q))

-----------------------------------------------------------------------------
(* The inductive invariant on which FindsLast rests. *)

\* What was settled when a scan began is counted, and committed for as long
\* as no drain comes; what of it the walk has passed is not of its room.
ScanInv ==
    \A t \in Scanners : (pc[t] # "idle" /\ ~moved[t]) =>
        /\ counted[t] <= committed
        /\ whole[t] \subseteq done \cap 0 .. counted[t] - 1
        /\ \A j \in whole[t] \cap settled :
              (i[t] < j \/ counted[t] <= i[t]) => At(fill, j).room_id # room[t]

RoomInv == TypeOK /\ RegionInv /\ ScanInv
=============================================================================
