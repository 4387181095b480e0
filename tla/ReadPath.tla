------------------------------ MODULE ReadPath ------------------------------
(***************************************************************************)
(* Readers beside the writers and drainers of LockerWriter: ReadLast of    *)
(* bridge.go over db_get_cursor_cgo and db_get_entry_cgo of zigo_db.zig.   *)
(*                                                                         *)
(* A read is two calls into Zig and each loads region_bit anew, so a drain *)
(* can move the reader to the other region half way.  committed_entries    *)
(* is a count while slots are committed in any order, and what ReadLast    *)
(* returns is not a copy but a slice over the slot itself.                 *)
(***************************************************************************)
EXTENDS LockerWriter

CONSTANT Readers    \* threads that call ReadLast, again and again

VARIABLES
    rpc,        \* a reader's place in the call
    rregion,    \* the region its current Zig call works on
    count,      \* committed entries, from the first of the two calls
    calm        \* history: when the reader was given its entry nobody was
                \* filling a slot of that region, and no reset followed

readVars == <<rpc, rregion, count, calm>>
readPathVars == <<vars, readVars>>

\* A reader with an index that Zig let through; "trapped" is the panic of a
\* ReleaseSafe build, which ends the process.
Reading == {"slice", "holding"}
ReadPCs == Reading \cup {"idle", "count", "entry", "check", "trapped"}

ReadTypeOK ==
    /\ TypeOK
    /\ rpc \in [Readers -> ReadPCs]
    /\ rregion \in [Readers -> Regions]
    /\ count \in [Readers -> Nat]
    /\ \A k \in Readers :
          rpc[k] \in Reading \cup {"entry", "check"} => count[k] > 0
    /\ calm \in [Readers -> BOOLEAN]

ReadInit ==
    /\ Init
    /\ rpc = [k \in Readers |-> "idle"]
    /\ rregion = [k \in Readers |-> 0]
    /\ count = [k \in Readers |-> 0]
    /\ calm = [k \in Readers |-> FALSE]

\* The call is over: its locals go.
Return(k) ==
    /\ rpc' = [rpc EXCEPT ![k] = "idle"]
    /\ rregion' = [rregion EXCEPT ![k] = 0]
    /\ count' = [count EXCEPT ![k] = 0]
    /\ calm' = [calm EXCEPT ![k] = FALSE]

-----------------------------------------------------------------------------
(* GetMessageCount: db_get_cursor_cgo *)

CountRegion(k) ==
    /\ rpc[k] = "idle"
    /\ rpc' = [rpc EXCEPT ![k] = "count"]
    /\ rregion' = [rregion EXCEPT ![k] = region_bit]
    /\ UNCHANGED <<vars, count, calm>>

\* "Empty state, not an error": nil, nil.
ReadCount(k) ==
    /\ rpc[k] = "count"
    /\ IF committed_entries[rregion[k]] = 0
       THEN Return(k)
       ELSE /\ rpc' = [rpc EXCEPT ![k] = "entry"]
            /\ count' = [count EXCEPT ![k] = committed_entries[rregion[k]]]
            /\ UNCHANGED <<rregion, calm>>
    /\ UNCHANGED vars

(* db_get_entry_cgo(count - 1) *)

EntryRegion(k) ==
    /\ rpc[k] = "entry"
    /\ rpc' = [rpc EXCEPT ![k] = "check"]
    /\ rregion' = [rregion EXCEPT ![k] = region_bit]
    /\ UNCHANGED <<vars, count, calm>>

\* The index is checked against a region that need not be the counted one,
\* and only against committed_entries, which late writers can push past the
\* slots: then the bounds check of the slice panics.
CheckCommitted(k) ==
    /\ rpc[k] = "check"
    /\ IF count[k] - 1 >= committed_entries[rregion[k]]
       THEN Return(k)
       ELSE /\ rpc' = [rpc EXCEPT ![k] =
                          IF count[k] <= MaxSlots THEN "slice" ELSE "trapped"]
            /\ calm' = [calm EXCEPT ![k] = Uncommitted(rregion[k]) = {}
                                           /\ ~Clearing(rregion[k])]
            /\ UNCHANGED <<rregion, count>>
    /\ UNCHANGED vars

(* Back in ReadLast *)

\* data_len of the slot decides: 0 only if the slot was never written.
TakeSlice(k) ==
    /\ rpc[k] = "slice"
    /\ IF entries[rregion[k]][count[k] - 1] = "empty"
       THEN Return(k)
       ELSE /\ rpc' = [rpc EXCEPT ![k] = "holding"]
            /\ UNCHANGED <<rregion, count, calm>>
    /\ UNCHANGED vars

\* The caller has used the slice and lets go of it.
DropSlice(k) ==
    /\ rpc[k] = "holding"
    /\ Return(k)
    /\ UNCHANGED vars

\* Steps of writers and drainers: a reset ends the calm of the region's readers.
WriteOrDrain ==
    /\ Next
    /\ calm' = [k \in Readers |->
                  calm[k] /\ ~\E d \in Drainers :
                                dpc[d] = "resetCursor" /\ dpc'[d] # dpc[d]
                                /\ old_region[d] = rregion[k]]
    /\ UNCHANGED <<rpc, rregion, count>>

ReadNext ==
    \/ WriteOrDrain
    \/ \E k \in Readers :
          \/ CountRegion(k) \/ ReadCount(k) \/ EntryRegion(k)
          \/ CheckCommitted(k) \/ TakeSlice(k) \/ DropSlice(k)

ReadSpec == ReadInit /\ [][ReadNext]_readPathVars

-----------------------------------------------------------------------------
\* Unless a writer came in late, an index checked only against
\* committed_entries lies inside the region, although it was counted in a
\* region that a drain may have swapped for the other since.
NeverTrapped ==
    ~late => \A k \in Readers :
        /\ rpc[k] # "trapped"
        /\ rpc[k] \in Reading => count[k] <= MaxSlots
=============================================================================
