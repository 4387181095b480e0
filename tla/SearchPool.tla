----------------------------- MODULE SearchPool -----------------------------
(***************************************************************************)
(* The pool of search segments: search_reserve_segment and                 *)
(* search_release_segment of db/zigo_db.zig, reached from Go through       *)
(* SearchReserveSegment and SearchReleaseSegment.                          *)
(*                                                                         *)
(* A segment is marked taken twice, in the plain field in_use and in a     *)
(* bitmap of words.  Both calls touch the bitmap with an atomic exchange   *)
(* of the WHOLE word for the segment's own bit: a reservation wipes the    *)
(* other bits of its word, and a release sets the bit it should clear.     *)
(***************************************************************************)
EXTENDS Integers

CONSTANTS
    Reservers,    \* threads that call SearchReserveSegment
    Releasers,    \* threads that hand segments back
    MaxSegments,  \* MAX_SEGMENTS
    WordBits      \* bits in a bitmap word: 64

ASSUME SizesAssumption ==
    MaxSegments \in Nat \ {0} /\ WordBits \in Nat \ {0}

Segments == 0 .. MaxSegments - 1
WordOf(s) == s \div WordBits
BitOf(s) == s % WordBits
Words == {WordOf(s) : s \in Segments}

VARIABLES
    in_use,    \* [Segments -> BOOLEAN]
    bitmap,    \* [Words -> set of bits]
    granted,   \* how many callers hold each segment
    pc, i,     \* a reserver's place in the call, and its loop index
    dpc, seg,  \* a releaser's place in the call, and its argument
    disturbed  \* history: a release overlapped the latest reservation

vars == <<in_use, bitmap, granted, pc, i, dpc, seg, disturbed>>

TypeOK ==
    /\ in_use \in [Segments -> BOOLEAN]
    /\ bitmap \in [Words -> SUBSET (0 .. WordBits - 1)]
    /\ granted \in [Segments -> Nat]
    /\ pc \in [Reservers -> {"idle", "check", "exchange", "claim", "null"}]
    /\ i \in [Reservers -> Segments]
    /\ dpc \in [Releasers -> {"idle", "clear", "exchange"}]
    /\ seg \in [Releasers -> Segments]
    /\ disturbed \in BOOLEAN

\* SearchPool.init
Init ==
    /\ in_use = [s \in Segments |-> FALSE]
    /\ bitmap = [b \in Words |-> {}]
    /\ granted = [s \in Segments |-> 0]
    /\ pc = [t \in Reservers |-> "idle"]
    /\ i = [t \in Reservers |-> 0]
    /\ dpc = [t \in Releasers |-> "idle"]
    /\ seg = [t \in Releasers |-> 0]
    /\ disturbed = FALSE

-----------------------------------------------------------------------------
(* Plausible bugs of the actions below, kept to show that the properties     *)
(* notice them.                                                              *)

\* The loop goes on to the next segment, or falls out of the end.
NextSegment(t) ==
    IF i[t] = MaxSegments - 1
    THEN pc' = [pc EXCEPT ![t] = "null"] /\ i' = [i EXCEPT ![t] = 0]
    ELSE pc' = [pc EXCEPT ![t] = "check"] /\ i' = [i EXCEPT ![t] = @ + 1]

\* CheckInUse that leaves the decision to the bitmap.
TrustBitmap(t) ==
    /\ pc[t] = "check"
    /\ pc' = [pc EXCEPT ![t] = "exchange"]
    /\ UNCHANGED <<in_use, bitmap, granted, i, dpc, seg, disturbed>>

\* ExchangeBit that gives up at the first bit it finds set.
GiveUp(t) ==
    /\ pc[t] = "exchange"
    /\ bitmap' = [bitmap EXCEPT ![WordOf(i[t])] = {BitOf(i[t])}]
    /\ IF BitOf(i[t]) \in bitmap[WordOf(i[t])]
       THEN pc' = [pc EXCEPT ![t] = "null"] /\ i' = [i EXCEPT ![t] = 0]
       ELSE pc' = [pc EXCEPT ![t] = "claim"] /\ i' = i
    /\ UNCHANGED <<in_use, granted, dpc, seg, disturbed>>

-----------------------------------------------------------------------------
(* search_reserve_segment *)

Reserve(t) ==
    /\ pc[t] = "idle"
    /\ pc' = [pc EXCEPT ![t] = "check"]
    /\ disturbed' = (\E r \in Releasers : dpc[r] # "idle")
    /\ UNCHANGED <<in_use, bitmap, granted, i, dpc, seg>>

CheckInUse(t) ==
    /\ pc[t] = "check"
    /\ IF in_use[i[t]] THEN NextSegment(t)
                       ELSE pc' = [pc EXCEPT ![t] = "exchange"] /\ i' = i
    /\ UNCHANGED <<in_use, bitmap, granted, dpc, seg, disturbed>>

ExchangeBit(t) ==
    /\ pc[t] = "exchange"
    /\ bitmap' = [bitmap EXCEPT ![WordOf(i[t])] = {BitOf(i[t])}]
    /\ IF BitOf(i[t]) \in bitmap[WordOf(i[t])]
       THEN NextSegment(t)
       ELSE pc' = [pc EXCEPT ![t] = "claim"] /\ i' = i
    /\ UNCHANGED <<in_use, granted, dpc, seg, disturbed>>

\* chunk_id and in_use are set, the data copied in, and i returned.
Claim(t) ==
    /\ pc[t] = "claim"
    /\ in_use' = [in_use EXCEPT ![i[t]] = TRUE]
    /\ granted' = [granted EXCEPT ![i[t]] = @ + 1]
    /\ pc' = [pc EXCEPT ![t] = "idle"]
    /\ i' = [i EXCEPT ![t] = 0]
    /\ UNCHANGED <<bitmap, dpc, seg, disturbed>>

\* null: "failed to reserve search segment".
ReturnNull(t) ==
    /\ pc[t] = "null"
    /\ pc' = [pc EXCEPT ![t] = "idle"]
    /\ UNCHANGED <<in_use, bitmap, granted, i, dpc, seg, disturbed>>

(* search_release_segment, called for a segment that is held *)

Release(t) ==
    /\ dpc[t] = "idle"
    /\ \E s \in Segments :
          /\ granted[s] > 0
          /\ granted' = [granted EXCEPT ![s] = @ - 1]
          /\ seg' = [seg EXCEPT ![t] = s]
    /\ dpc' = [dpc EXCEPT ![t] = "clear"]
    /\ disturbed' = TRUE
    /\ UNCHANGED <<in_use, bitmap, pc, i>>

ClearInUse(t) ==
    /\ dpc[t] = "clear"
    /\ in_use' = [in_use EXCEPT ![seg[t]] = FALSE]
    /\ dpc' = [dpc EXCEPT ![t] = "exchange"]
    /\ UNCHANGED <<bitmap, granted, pc, i, seg, disturbed>>

\* The exchange stores the mask: the bit is set, not cleared.
ReleaseBit(t) ==
    /\ dpc[t] = "exchange"
    /\ bitmap' = [bitmap EXCEPT ![WordOf(seg[t])] = {BitOf(seg[t])}]
    /\ dpc' = [dpc EXCEPT ![t] = "idle"]
    /\ seg' = [seg EXCEPT ![t] = 0]
    /\ UNCHANGED <<in_use, granted, pc, i, disturbed>>

ReserveCall(t) ==
    CheckInUse(t) \/ ExchangeBit(t) \/ Claim(t) \/ ReturnNull(t)
ReleaseCall(t) == ClearInUse(t) \/ ReleaseBit(t)

Next ==
    \/ \E t \in Reservers : Reserve(t) \/ ReserveCall(t)
    \/ \E t \in Releasers : Release(t) \/ ReleaseCall(t)

Spec == Init /\ [][Next]_vars

-----------------------------------------------------------------------------
OneReserver == \A t, u \in Reservers : t = u
Free(s) == ~in_use[s]

\* If reservations are made one at a time, a segment has at most one holder
\* and is marked in_use while it is held, however releases interleave.  Only
\* in_use sees to it: the bitmap alone would not.
OneHolder ==
    OneReserver => \A s \in Segments :
        /\ granted[s] <= 1
        /\ granted[s] = 1 => in_use[s]

\* A reservation that no release overlaps and that answers null has not
\* overlooked two free segments of one word: probing the first makes the
\* exchange of the second succeed.
OverlooksOnePerWord ==
    \A t \in Reservers :
        (OneReserver /\ ~disturbed /\ pc[t] = "null") =>
            \A r, s \in Segments :
                Free(r) /\ Free(s) /\ WordOf(r) = WordOf(s) => r = s

-----------------------------------------------------------------------------
(* What the tests and the documentation expect; TLC refutes it. *)

\* zig_core.md:72: "Atomic bitmap for reservation", and search_pool_test.zig
\* of concurrent access (225, 239): "All should be unique".
AllUnique == \A s \in Segments : granted[s] <= 1
=============================================================================
