---------------------------- MODULE RegionProofs ----------------------------
(* What TLAPS proves of the two regions: of LockerWriter, for any number of  *)
(* writers and drainers, any region size and any width of cursor, that its   *)
(* regions implement RegionLog, and then of ReservePath, in which readers and *)
(* reservers join them.                                                      *)
EXTENDS RegionRefinement, ReservePath, FiniteSetTheorems, TLAPS

USE DEF Regions, Slots, Cursors, InRegion, Filling, WriterPCs, PastSpin,
        DrainPCs, SlotStates, Reading, ReadPCs

-----------------------------------------------------------------------------
(* Type correctness of LockerWriter *)

\* The width of cursor leaves room for every slot, so the u32 arithmetic of
\* the cursor stays in range.
LEMMA IncDecType ==
    ASSUME NEW c \in Cursors
    PROVE  Inc(c) \in Cursors /\ Dec(c) \in Cursors
  BY CursorAssumption, MaxSlotsAssumption DEF Inc, Dec

LEMMA SlotsAreCursors == Slots \subseteq Cursors
  <1>1. Cardinality(Writers) \in Nat
    BY WritersAssumption, FS_CardinalityType
  <1> QED  BY <1>1, CursorAssumption, MaxSlotsAssumption

LEMMA TypeInit == Init => TypeOK
  <1> SUFFICES ASSUME Init PROVE TypeOK
    OBVIOUS
  <1>1. 0 \in Cursors /\ 0 \in Regions
    BY MaxSlotsAssumption, SlotsAreCursors
  <1>2. totals \in [Drainers -> Nat]
    BY DEF Init
  <1>3. entries \in [Regions -> [Slots -> SlotStates]]
    BY DEF Init
  <1>4. /\ cursor \in [Regions -> Cursors]
        /\ active_writers \in [Regions -> Int]
        /\ committed_entries \in [Regions -> Nat]
    BY <1>1 DEF Init
  <1>5. /\ pc \in [Writers -> WriterPCs]
        /\ region \in [Writers -> Regions]
        /\ idx \in [Writers -> Cursors]
        /\ \A w \in Writers : pc[w] \in Filling => idx[w] \in Slots
    BY <1>1 DEF Init
  <1>6. /\ dpc \in [Drainers -> DrainPCs]
        /\ old_region \in [Drainers -> Regions]
        /\ entries_written \in [Drainers -> Cursors]
    BY <1>1 DEF Init
  <1> QED  BY <1>2, <1>3, <1>4, <1>5, <1>6 DEF Init, TypeOK

LEMMA TypeNext == TypeOK /\ [Next]_vars => TypeOK'
  <1> SUFFICES ASSUME TypeOK, [Next]_vars
               PROVE  TypeOK'
    OBVIOUS
  <1> USE DEF TypeOK
  <1>s. 0 \in Cursors
    BY MaxSlotsAssumption, SlotsAreCursors
  <1>1. ASSUME NEW w \in Writers, LoadRegion(w)
        PROVE  TypeOK'
    BY <1>1 DEF LoadRegion, shared, tallies, drainVars
  <1>2. ASSUME NEW w \in Writers, TakeTicket(w)
        PROVE  TypeOK'
    BY <1>2 DEF TakeTicket, tallies, drainVars
  <1>3. ASSUME NEW w \in Writers, TakeSlot(w)
        PROVE  TypeOK'
    <2>a. cursor[region[w]] \in Cursors
      OBVIOUS
    <2>1. cursor[region[w]] \in Cursors /\ cursor[region[w]] \in Slots
      BY <1>3, <2>a, MaxSlotsAssumption DEF TakeSlot
    <2>2. Inc(cursor[region[w]]) \in Cursors
      BY <2>1, IncDecType
    <2>3. cursor' \in [Regions -> Cursors]
      BY <1>3, <2>2 DEF TakeSlot
    <2>4. idx' \in [Writers -> Cursors]
      BY <1>3, <2>1 DEF TakeSlot
    <2>5. \A v \in Writers : pc'[v] \in Filling => idx'[v] \in Slots
      BY <1>3, <2>1 DEF TakeSlot
    <2> QED  BY <1>3, <2>3, <2>4, <2>5 DEF TakeSlot, tallies, drainVars
  <1>4. ASSUME NEW w \in Writers, TakeSlotFull(w)
        PROVE  TypeOK'
    BY <1>4, IncDecType DEF TakeSlotFull, tallies, drainVars
  <1>5. ASSUME NEW w \in Writers, UndoSlot(w)
        PROVE  TypeOK'
    BY <1>5, IncDecType DEF UndoSlot, tallies, drainVars
  <1>6. ASSUME NEW w \in Writers, Reject(w)
        PROVE  TypeOK'
    BY <1>6 DEF Reject, tallies, drainVars
  <1>7. ASSUME NEW w \in Writers, WriteHeader(w)
        PROVE  TypeOK'
    BY <1>7 DEF WriteHeader, tallies, drainVars
  <1>8. ASSUME NEW w \in Writers, CopyPayload(w)
        PROVE  TypeOK'
    BY <1>8 DEF CopyPayload, tallies, drainVars
  <1>9. ASSUME NEW w \in Writers, Commit(w)
        PROVE  TypeOK'
    BY <1>9, <1>s DEF Commit, tallies, drainVars
  <1>10. ASSUME NEW w \in Writers, Leave(w)
         PROVE  TypeOK'
    BY <1>10 DEF Leave, tallies, drainVars
  <1>11. ASSUME NEW w \in Writers, AssignUuid(w)
         PROVE  TypeOK'
    BY <1>11 DEF AssignUuid, shared, tallies, drainVars
  <1>12. ASSUME NEW d \in Drainers, LoadBit(d)
         PROVE  TypeOK'
    BY <1>12 DEF LoadBit, shared, tallies, writerVars
  <1>13. ASSUME NEW d \in Drainers, Flip(d)
         PROVE  TypeOK'
    <2>1. 1 - old_region[d] \in Regions
      <3>1. CASE old_region[d] = 0
        BY <3>1
      <3>2. CASE old_region[d] = 1
        BY <3>2
      <3> QED  BY <3>1, <3>2
    <2> QED  BY <1>13, <2>1 DEF Flip, tallies, writerVars
  <1>14. ASSUME NEW d \in Drainers, SpinDone(d)
         PROVE  TypeOK'
    BY <1>14 DEF SpinDone, shared, tallies, writerVars
  <1>15. ASSUME NEW d \in Drainers, Tally(d)
         PROVE  TypeOK'
    BY <1>15 DEF Tally, shared, tallies, writerVars
  <1>16. ASSUME NEW d \in Drainers, LoadTotals(d)
         PROVE  TypeOK'
    BY <1>16 DEF LoadTotals, shared, tallies, writerVars
  <1>17. ASSUME NEW d \in Drainers, StoreTotals(d)
         PROVE  TypeOK'
    <2>1. totals[d] \in Nat
          /\ entries_written[d] \in Nat
      OBVIOUS
    <2>2. total_entries' \in Nat
      BY <1>17, <2>1 DEF StoreTotals
    <2>3. totals' \in [Drainers -> Nat]
      BY <1>17 DEF StoreTotals
    <2> QED  BY <1>17, <1>s, <2>2, <2>3 DEF StoreTotals, shared, writerVars
  <1>18. ASSUME NEW d \in Drainers, ResetCursor(d)
         PROVE  TypeOK'
    BY <1>18, <1>s DEF ResetCursor, tallies, writerVars
  <1>19. ASSUME NEW d \in Drainers, ResetWriters(d)
         PROVE  TypeOK'
    BY <1>19 DEF ResetWriters, tallies, writerVars
  <1>20. ASSUME NEW d \in Drainers, ResetCommitted(d)
         PROVE  TypeOK'
    BY <1>20 DEF ResetCommitted, tallies, writerVars
  <1>21. CASE UNCHANGED vars
    BY <1>21 DEF vars, shared, tallies, writerVars, drainVars
  <1> QED
    BY <1>1, <1>2, <1>3, <1>4, <1>5, <1>6, <1>7, <1>8, <1>9, <1>10, <1>11,
       <1>12, <1>13, <1>14, <1>15, <1>16, <1>17, <1>18, <1>19, <1>20, <1>21
       DEF Next, WriteCall, DrainCall

\* Every behaviour of the write path and the drain is type correct; a writer
\* that has passed the bounds check holds an index inside the region.
THEOREM TypeCorrect == Spec => []TypeOK
  BY TypeInit, TypeNext, PTL DEF Spec

-----------------------------------------------------------------------------
(* Counting the writers of a region *)

LEMMA Counts ==
    ASSUME NEW r \in Regions
    PROVE  /\ IsFiniteSet(Holders(r)) /\ Cardinality(Holders(r)) \in Nat
           /\ IsFiniteSet(Uncommitted(r)) /\ Cardinality(Uncommitted(r)) \in Nat
           /\ IsFiniteSet(Undoing(r)) /\ Cardinality(Undoing(r)) \in Nat
  <1>1. /\ Holders(r) \subseteq Writers
        /\ Uncommitted(r) \subseteq Writers
        /\ Undoing(r) \subseteq Writers
    BY DEF Holders, Uncommitted, Undoing
  <1> QED
    BY <1>1, WritersAssumption, FS_Subset, FS_CardinalityType

LEMMA NoCard ==
    ASSUME NEW S, IsFiniteSet(S)
    PROVE  Cardinality(S) = 0 <=> S = {}
  BY FS_EmptySet

LEMMA AddOne ==
    ASSUME NEW S, IsFiniteSet(S), NEW w, w \notin S
    PROVE  /\ IsFiniteSet(S \cup {w})
           /\ Cardinality(S) \in Nat
           /\ Cardinality(S \cup {w}) = Cardinality(S) + 1
  BY FS_AddElement, FS_CardinalityType

LEMMA RemoveOne ==
    ASSUME NEW S, IsFiniteSet(S), NEW w \in S
    PROVE  /\ IsFiniteSet(S \ {w})
           /\ Cardinality(S) \in Nat
           /\ Cardinality(S \ {w}) = Cardinality(S) - 1
  BY FS_RemoveElement, FS_CardinalityType

\* Which steps move a writer in or out of a region, and no others do.
LEMMA HoldersStep ==
    ASSUME TypeOK, Next, NEW r \in Regions
    PROVE  \/ Holders(r)' = Holders(r)
              /\ (active_writers'[r] = active_writers[r]
                  \/ (active_writers'[r] = 0 /\ Sealed(r)))
           \/ \E w \in Writers \ Holders(r) :
                Holders(r)' = Holders(r) \cup {w}
                /\ active_writers'[r] = active_writers[r] + 1
                /\ TakeTicket(w) /\ region[w] = r
           \/ \E w \in Holders(r) :
                Holders(r)' = Holders(r) \ {w}
                /\ active_writers'[r] = active_writers[r] - 1
  <1> DEFINE Same == Holders(r)' = Holders(r)
                     /\ active_writers'[r] = active_writers[r]
  <1>1. ASSUME NEW w \in Writers, TakeTicket(w)
        PROVE  Same \/ /\ w \in Writers \ Holders(r)
                       /\ Holders(r)' = Holders(r) \cup {w}
                       /\ active_writers'[r] = active_writers[r] + 1
                       /\ TakeTicket(w) /\ region[w] = r
    BY <1>1 DEF TakeTicket, TypeOK, Holders
  <1>2. ASSUME NEW w \in Writers, Reject(w) \/ Leave(w)
        PROVE  Same \/ /\ w \in Holders(r)
                       /\ Holders(r)' = Holders(r) \ {w}
                       /\ active_writers'[r] = active_writers[r] - 1
    BY <1>2 DEF Reject, Leave, TypeOK, Holders
  <1>3. ASSUME NEW w \in Writers, LoadRegion(w) \/ AssignUuid(w)
        PROVE  Same
    BY <1>3 DEF LoadRegion, AssignUuid, shared, TypeOK, Holders
  <1>4. ASSUME NEW w \in Writers,
               TakeSlot(w) \/ TakeSlotFull(w) \/ UndoSlot(w) \/ WriteHeader(w)
               \/ CopyPayload(w) \/ Commit(w)
        PROVE  Same
    BY <1>4 DEF TakeSlot, TakeSlotFull, UndoSlot, WriteHeader, CopyPayload,
                Commit, TypeOK, Holders
  <1>5. ASSUME NEW d \in Drainers, LoadBit(d) \/ DrainCall(d)
        PROVE  Holders(r)' = Holders(r)
    BY <1>5 DEF LoadBit, DrainCall, Flip, SpinDone, Tally, LoadTotals,
                StoreTotals, ResetCursor, ResetWriters, ResetCommitted,
                shared, writerVars, Holders
  <1>6. ASSUME NEW d \in Drainers, ResetWriters(d)
        PROVE  \/ active_writers'[r] = active_writers[r]
               \/ (active_writers'[r] = 0 /\ Sealed(r))
    BY <1>6 DEF ResetWriters, TypeOK, Sealed
  <1>7. ASSUME NEW d \in Drainers, LoadBit(d) \/ DrainCall(d), ~ResetWriters(d)
        PROVE  active_writers'[r] = active_writers[r]
    BY <1>7 DEF LoadBit, DrainCall, Flip, SpinDone, Tally, LoadTotals,
                StoreTotals, ResetCursor, ResetWriters, ResetCommitted,
                shared
  <1>8. ASSUME NEW d \in Drainers, LoadBit(d) \/ DrainCall(d)
        PROVE  \/ active_writers'[r] = active_writers[r]
               \/ (active_writers'[r] = 0 /\ Sealed(r))
    BY <1>6, <1>7, <1>8
  <1> DEFINE Goal ==
        \/ Holders(r)' = Holders(r)
           /\ (active_writers'[r] = active_writers[r]
               \/ (active_writers'[r] = 0 /\ Sealed(r)))
        \/ \E w \in Writers \ Holders(r) :
             Holders(r)' = Holders(r) \cup {w}
             /\ active_writers'[r] = active_writers[r] + 1
             /\ TakeTicket(w) /\ region[w] = r
        \/ \E w \in Holders(r) :
             Holders(r)' = Holders(r) \ {w}
             /\ active_writers'[r] = active_writers[r] - 1
  <1>9. ASSUME NEW w \in Writers, LoadRegion(w) \/ WriteCall(w)
        PROVE  Goal
    <2>1. CASE TakeTicket(w)
      BY <1>1, <2>1
    <2>2. CASE Reject(w) \/ Leave(w)
      BY <1>2, <2>2
    <2>3. CASE LoadRegion(w) \/ AssignUuid(w)
      BY <1>3, <2>3
    <2>4. CASE TakeSlot(w) \/ TakeSlotFull(w) \/ UndoSlot(w)
               \/ WriteHeader(w) \/ CopyPayload(w) \/ Commit(w)
      BY <1>4, <2>4
    <2> QED  BY <1>9, <2>1, <2>2, <2>3, <2>4 DEF WriteCall
  <1>10. ASSUME NEW d \in Drainers, LoadBit(d) \/ DrainCall(d)
         PROVE  Goal
    BY <1>5, <1>8, <1>10
  <1> QED
    BY <1>9, <1>10 DEF Next

LEMMA NeverOverCountsNext ==
    ASSUME TypeOK, NeverOverCounts, [Next]_vars
    PROVE  NeverOverCounts'
  <1>1. CASE UNCHANGED vars
    BY <1>1 DEF vars, shared, writerVars, NeverOverCounts, Holders
  <1>2. CASE Next
    <2> SUFFICES ASSUME NEW r \in Regions
                 PROVE  active_writers'[r] <= Cardinality(Holders(r)')
      BY DEF NeverOverCounts
    <2>1. /\ active_writers[r] <= Cardinality(Holders(r))
          /\ active_writers[r] \in Int
          /\ IsFiniteSet(Holders(r)) /\ Cardinality(Holders(r)) \in Nat
      BY Counts DEF NeverOverCounts, TypeOK
    <2>2. CASE Holders(r)' = Holders(r)
               /\ (active_writers'[r] = active_writers[r]
                   \/ active_writers'[r] = 0)
      BY <2>1, <2>2
    <2>3. CASE \E w \in Writers \ Holders(r) :
                 Holders(r)' = Holders(r) \cup {w}
                 /\ active_writers'[r] = active_writers[r] + 1
      <3>1. PICK w \in Writers \ Holders(r) :
                 Holders(r)' = Holders(r) \cup {w}
                 /\ active_writers'[r] = active_writers[r] + 1
        BY <2>3
      <3>2. Cardinality(Holders(r) \cup {w}) = Cardinality(Holders(r)) + 1
        BY <2>1, AddOne
      <3> QED  BY <2>1, <3>1, <3>2
    <2>4. CASE \E w \in Holders(r) :
                 Holders(r)' = Holders(r) \ {w}
                 /\ active_writers'[r] = active_writers[r] - 1
      <3>1. PICK w \in Holders(r) :
                 Holders(r)' = Holders(r) \ {w}
                 /\ active_writers'[r] = active_writers[r] - 1
        BY <2>4
      <3>2. Cardinality(Holders(r) \ {w}) = Cardinality(Holders(r)) - 1
        BY <2>1, RemoveOne
      <3> QED  BY <2>1, <3>1, <3>2
    <2> QED  BY <1>2, <2>2, <2>3, <2>4, HoldersStep
  <1> QED  BY <1>1, <1>2

LEMMA NeverOverCountsInit == Init => NeverOverCounts
  <1> SUFFICES ASSUME Init, NEW r \in Regions
               PROVE  active_writers[r] <= Cardinality(Holders(r))
    BY DEF NeverOverCounts
  <1>1. active_writers[r] = 0
    BY DEF Init
  <1> QED  BY <1>1, Counts

\* The ticket count of a region never exceeds the writers inside it, late
\* writers and concurrent drains included: the spin of db_switch_and_drain
\* waits for nobody who has already left.
THEOREM NoPhantomTickets == Spec => []NeverOverCounts
  <1>1. Init => TypeOK /\ NeverOverCounts
    BY TypeInit, NeverOverCountsInit
  <1>2. TypeOK /\ NeverOverCounts /\ [Next]_vars => (TypeOK /\ NeverOverCounts)'
    BY TypeNext, NeverOverCountsNext
  <1> QED  BY <1>1, <1>2, PTL DEF Spec

-----------------------------------------------------------------------------
(* The inductive invariant: tickets and sealed regions *)

LEMMA EmptyCard ==
    ASSUME NEW r \in Regions
    PROVE  Cardinality(Holders(r)) = 0 <=> Holders(r) = {}
  BY Counts, NoCard

\* A region becomes sealed only by a spin that has seen no ticket.
LEMMA SealedStep ==
    ASSUME TypeOK, Next, NEW r \in Regions, Sealed(r)'
    PROVE  \/ Sealed(r)
           \/ /\ Holders(r)' = Holders(r)
              /\ active_writers'[r] = active_writers[r]
              /\ active_writers[r] <= 0
  <1>1. ASSUME NEW w \in Writers, LoadRegion(w) \/ WriteCall(w)
        PROVE  Sealed(r)
    BY <1>1 DEF LoadRegion, WriteCall, TakeTicket, TakeSlot, TakeSlotFull,
                UndoSlot, Reject, WriteHeader, CopyPayload, Commit, Leave,
                AssignUuid, drainVars, Sealed
  <1>2. ASSUME NEW d \in Drainers, LoadBit(d) \/ Flip(d)
        PROVE  Sealed(r)
    BY <1>2 DEF LoadBit, Flip, TypeOK, Sealed
  <1>3. ASSUME NEW d \in Drainers, SpinDone(d)
        PROVE  \/ Sealed(r)
               \/ /\ Holders(r)' = Holders(r)
                  /\ active_writers'[r] = active_writers[r]
                  /\ active_writers[r] <= 0
    BY <1>3 DEF SpinDone, TypeOK, Sealed, Holders, shared, writerVars
  <1>4. ASSUME NEW d \in Drainers,
               Tally(d) \/ LoadTotals(d) \/ StoreTotals(d) \/ ResetCursor(d)
               \/ ResetWriters(d)
        PROVE  Sealed(r)
    BY <1>4 DEF Tally, LoadTotals, StoreTotals, ResetCursor, ResetWriters,
                TypeOK, Sealed
  <1>5. ASSUME NEW d \in Drainers, ResetCommitted(d)
        PROVE  Sealed(r)
    BY <1>5 DEF ResetCommitted, TypeOK, Sealed
  <1> QED
    BY <1>1, <1>2, <1>3, <1>4, <1>5 DEF Next, DrainCall

LEMMA TicketsStep ==
    ASSUME TypeOK, Next, NEW r \in Regions, ~late',
           TicketsExact(r), Sealed(r) => Holders(r) = {}
    PROVE  TicketsExact(r)' /\ (Sealed(r)' => Holders(r)' = {})
  <1>1. /\ active_writers[r] = Cardinality(Holders(r))
        /\ active_writers[r] \in Int
        /\ IsFiniteSet(Holders(r)) /\ Cardinality(Holders(r)) \in Nat
        /\ Cardinality(Holders(r)) = 0 <=> Holders(r) = {}
    BY Counts, EmptyCard DEF TicketsExact, TypeOK
  <1>2. TicketsExact(r)'
    <2>1. CASE Holders(r)' = Holders(r)
               /\ (active_writers'[r] = active_writers[r]
                   \/ (active_writers'[r] = 0 /\ Sealed(r)))
      BY <1>1, <2>1 DEF TicketsExact
    <2>2. ASSUME NEW w \in Writers \ Holders(r),
                 Holders(r)' = Holders(r) \cup {w},
                 active_writers'[r] = active_writers[r] + 1
          PROVE  TicketsExact(r)'
      BY <1>1, <2>2, AddOne DEF TicketsExact
    <2>3. ASSUME NEW w \in Holders(r),
                 Holders(r)' = Holders(r) \ {w},
                 active_writers'[r] = active_writers[r] - 1
          PROVE  TicketsExact(r)'
      BY <1>1, <2>3, RemoveOne DEF TicketsExact
    <2> QED  BY <2>1, <2>2, <2>3, HoldersStep
  <1>3. ASSUME Sealed(r)' PROVE Holders(r)' = {}
    <2>1. CASE Sealed(r)
      <3>1. ASSUME NEW w \in Writers, TakeTicket(w), region[w] = r
            PROVE  FALSE
        BY <2>1, <3>1, Zenon DEF TakeTicket
      <3> QED  BY <2>1, <3>1, HoldersStep
    <2>2. CASE Holders(r)' = Holders(r) /\ active_writers[r] <= 0
      BY <1>1, <2>2
    <2> QED  BY <1>3, <2>1, <2>2, SealedStep
  <1> QED  BY <1>2, <1>3

-----------------------------------------------------------------------------
(* The inductive invariant: slots *)

Coherent(r) == CursorCoherent(r) /\ SlotsCoherent(r)

\* Everything CursorCoherent and SlotsCoherent say of a region is unchanged.
Still(r) ==
    /\ Uncommitted(r)' = Uncommitted(r) /\ Undoing(r)' = Undoing(r)
    /\ Clearing(r)' = Clearing(r)
    /\ cursor'[r] = cursor[r]
    /\ committed_entries'[r] = committed_entries[r]
    /\ entries'[r] = entries[r]
    /\ \A w \in Uncommitted(r) :
          idx'[w] = idx[w] /\ (pc'[w] = "commit" => pc[w] = "commit")

LEMMA StillCoherent ==
    ASSUME NEW r \in Regions, Still(r), Coherent(r)
    PROVE  Coherent(r)'
  <1>1. Granted(r)' = Granted(r)
    BY DEF Still, Granted
  <1>2. CursorCoherent(r)'
    BY <1>1 DEF Still, Coherent, CursorCoherent
  <1>3. SlotsCoherent(r)'
    BY <1>1 DEF Still, Coherent, SlotsCoherent
  <1> QED  BY <1>2, <1>3 DEF Coherent

LEMMA WritersKeepClearing ==
    ASSUME NEW r \in Regions, UNCHANGED drainVars
    PROVE  Clearing(r)' = Clearing(r)
  BY DEF drainVars, Clearing

LEMMA InsideNotClearing ==
    ASSUME NEW w \in Writers, pc[w] \in InRegion, region[w] \in Regions,
           Sealed(region[w]) => Holders(region[w]) = {}
    PROVE  ~Clearing(region[w])
  BY DEF Clearing, Sealed, Holders

\* Steps of a writer that leave the slots alone.
LEMMA TicketOnly ==
    ASSUME TypeOK, NEW r \in Regions, NEW w \in Writers,
           \/ LoadRegion(w) \/ TakeTicket(w) \/ Reject(w) \/ Leave(w)
           \/ AssignUuid(w)
    PROVE  Still(r)
  <1>1. Clearing(r)' = Clearing(r)
    BY WritersKeepClearing DEF LoadRegion, TakeTicket, Reject, Leave, AssignUuid
  <1>2. Uncommitted(r)' = Uncommitted(r) /\ Undoing(r)' = Undoing(r)
    BY DEF LoadRegion, TakeTicket, Reject, Leave, AssignUuid, TypeOK,
           Uncommitted, Undoing
  <1>3. \A v \in Uncommitted(r) :
          idx'[v] = idx[v] /\ (pc'[v] = "commit" => pc[v] = "commit")
    BY DEF LoadRegion, TakeTicket, Reject, Leave, AssignUuid, TypeOK,
           Uncommitted
  <1> QED
    BY <1>1, <1>2, <1>3 DEF LoadRegion, TakeTicket, Reject, Leave, AssignUuid,
                            shared, Still

\* Steps of a writer in the other region.
LEMMA OtherRegion ==
    ASSUME TypeOK, NEW r \in Regions, NEW w \in Writers, region[w] # r,
           \/ TakeSlot(w) \/ TakeSlotFull(w) \/ UndoSlot(w)
           \/ WriteHeader(w) \/ CopyPayload(w) \/ Commit(w)
    PROVE  Still(r)
  <1> USE DEF TakeSlot, TakeSlotFull, UndoSlot, WriteHeader, CopyPayload,
              Commit, TypeOK
  <1>1. Clearing(r)' = Clearing(r)
    BY WritersKeepClearing
  <1>2. Uncommitted(r)' = Uncommitted(r) /\ Undoing(r)' = Undoing(r)
    BY DEF Uncommitted, Undoing
  <1>3. \A v \in Uncommitted(r) :
          idx'[v] = idx[v] /\ (pc'[v] = "commit" => pc[v] = "commit")
    BY DEF Uncommitted
  <1> QED
    BY <1>1, <1>2, <1>3 DEF Still

LEMMA TakeSlotCoherent ==
    ASSUME TypeOK, NEW w \in Writers, TakeSlot(w), ~Clearing(region[w]),
           Coherent(region[w])
    PROVE  Coherent(region[w])'
  <1> DEFINE r == region[w]
  <1>0. r \in Regions /\ region'[w] = r
    BY DEF TypeOK, TakeSlot
  <1>1. /\ w \notin Uncommitted(r)
        /\ Uncommitted(r)' = Uncommitted(r) \cup {w}
        /\ Undoing(r)' = Undoing(r)
    BY DEF TakeSlot, TypeOK, Uncommitted, Undoing
  <1>2. ~Clearing(r)'
    BY <1>0, WritersKeepClearing DEF TakeSlot
  <1>3. /\ Granted(r) \in Nat
        /\ Cardinality(Uncommitted(r)) \in Nat
        /\ committed_entries[r] \in Nat
        /\ IsFiniteSet(Uncommitted(r)) /\ IsFiniteSet(Undoing(r))
        /\ MaxSlots \in Nat
    BY <1>0, Counts, MaxSlotsAssumption DEF Granted, TypeOK
  <1>4. Granted(r)' = Granted(r) + 1
    <2>1. Cardinality(Uncommitted(r)') = Cardinality(Uncommitted(r)) + 1
      BY <1>1, <1>3, AddOne
    <2> QED  BY <2>1, <1>3 DEF TakeSlot, Granted
  <1>5. Undoing(r) = {} /\ cursor[r] = Granted(r) /\ Granted(r) < MaxSlots
    <2>1. cursor[r] = Granted(r) + Cardinality(Undoing(r))
          /\ Cardinality(Undoing(r)) \in Nat
          /\ (Undoing(r) # {} => Granted(r) = MaxSlots)
      BY <1>0, Counts DEF Coherent, CursorCoherent
    <2>2. cursor[r] < MaxSlots
      BY DEF TakeSlot
    <2>3. Undoing(r) = {}
      BY <2>1, <2>2, <1>3
    <2>4. Cardinality(Undoing(r)) = 0
      BY <2>3, <1>3, NoCard
    <2> QED  BY <2>1, <2>2, <2>3, <2>4, <1>3
  <1>6. cursor'[r] = cursor[r] + 1
    <2>1. cursor[r] # CursorMod - 1
      <3>1. Cardinality(Writers) \in Nat
        BY WritersAssumption, FS_CardinalityType
      <3> QED  BY <3>1, <1>5, <1>3, CursorAssumption
    <2> QED  BY <2>1, <1>0 DEF TakeSlot, TypeOK, Inc
  <1>7. CursorCoherent(r)'
    <2>1. Undoing(r)' = {} /\ Cardinality(Undoing(r)') = 0
      BY <1>1, <1>3, <1>5, NoCard
    <2>2. /\ cursor'[r] = Granted(r)' + Cardinality(Undoing(r)')
          /\ Granted(r)' <= MaxSlots
      BY <1>3, <1>4, <1>5, <1>6, <2>1
    <2> QED  BY <1>0, <1>2, <2>1, <2>2 DEF CursorCoherent, TakeSlot
  <1>8. /\ idx'[w] = Granted(r)
        /\ pc'[w] = "header"
        /\ \A v \in Writers \ {w} : idx'[v] = idx[v] /\ pc'[v] = pc[v]
        /\ entries' = entries
    BY <1>5 DEF TakeSlot, TypeOK
  <1>9. /\ \A v \in Uncommitted(r) : v \in Writers \ {w}
        /\ \A v \in Uncommitted(r) : idx[v] \in Nat /\ idx[v] < Granted(r)
    BY <1>1, MaxSlotsAssumption DEF Coherent, SlotsCoherent, Uncommitted, TypeOK
  <1>10. SlotsCoherent(r)'
    <2>1. \A v \in Uncommitted(r)' :
            /\ idx'[v] < Granted(r)'
            /\ pc'[v] = "commit" => entries'[r][idx'[v]] = "full"
      BY <1>1, <1>3, <1>4, <1>8, <1>9 DEF Coherent, SlotsCoherent
    <2>2. \A u, v \in Uncommitted(r)' : idx'[u] = idx'[v] => u = v
      BY <1>1, <1>3, <1>8, <1>9 DEF Coherent, SlotsCoherent
    <2>3. \A s \in Slots : s < Granted(r)' /\ entries'[r][s] # "full"
             => \E v \in Uncommitted(r)' : idx'[v] = s
      <3> SUFFICES ASSUME NEW s \in Slots, s < Granted(r)',
                          entries'[r][s] # "full"
                   PROVE  \E v \in Uncommitted(r)' : idx'[v] = s
        OBVIOUS
      <3>1. CASE s = Granted(r)
        BY <3>1, <1>1, <1>8
      <3>2. CASE s < Granted(r)
        BY <3>2, <1>1, <1>8, <1>9 DEF Coherent, SlotsCoherent
      <3> QED  BY <3>1, <3>2, <1>3, <1>4
    <2> QED  BY <2>1, <2>2, <2>3, <1>0 DEF SlotsCoherent, TakeSlot
  <1> QED
    BY <1>7, <1>10, <1>0 DEF Coherent, TakeSlot

LEMMA TakeSlotFullCoherent ==
    ASSUME TypeOK, NEW w \in Writers, TakeSlotFull(w), ~Clearing(region[w]),
           Coherent(region[w])
    PROVE  Coherent(region[w])'
  <1> DEFINE r == region[w]
  <1>0. r \in Regions /\ region' = region
    BY DEF TypeOK, TakeSlotFull
  <1>1. /\ w \notin Undoing(r)
        /\ Undoing(r)' = Undoing(r) \cup {w}
        /\ Uncommitted(r)' = Uncommitted(r)
    BY DEF TakeSlotFull, TypeOK, Uncommitted, Undoing
  <1>2. ~Clearing(r)'
    BY <1>0, WritersKeepClearing DEF TakeSlotFull
  <1>3. /\ Granted(r) \in Nat /\ Cardinality(Undoing(r)) \in Nat
        /\ IsFiniteSet(Undoing(r)) /\ MaxSlots \in Nat
    BY <1>0, Counts, MaxSlotsAssumption DEF Granted, TypeOK
  <1>4. Granted(r)' = Granted(r)
    BY <1>0, <1>1 DEF TakeSlotFull, Granted
  <1>5. Granted(r) = MaxSlots /\ cursor[r] = MaxSlots + Cardinality(Undoing(r))
    <2>1. /\ cursor[r] = Granted(r) + Cardinality(Undoing(r))
          /\ Granted(r) <= MaxSlots
          /\ Undoing(r) # {} => Granted(r) = MaxSlots
      BY DEF Coherent, CursorCoherent
    <2>2. cursor[r] >= MaxSlots
      BY DEF TakeSlotFull
    <2>3. CASE Undoing(r) = {}
      BY <2>1, <2>2, <2>3, <1>3, NoCard
    <2> QED  BY <2>1, <2>3
  <1>6. Cardinality(Undoing(r)') = Cardinality(Undoing(r)) + 1
    BY <1>1, <1>3, AddOne
  <1>7. cursor'[r] = cursor[r] + 1
    <2>1. /\ Cardinality(Writers) \in Nat
          /\ Cardinality(Undoing(r)') <= Cardinality(Writers)
      <3>1. Undoing(r)' \subseteq Writers
        BY DEF Undoing
      <3> QED  BY <3>1, WritersAssumption, FS_Subset, FS_CardinalityType
    <2>2. cursor[r] # CursorMod - 1
      BY <1>3, <1>5, <1>6, <2>1, CursorAssumption
    <2> QED  BY <1>0, <2>2 DEF TakeSlotFull, TypeOK, Inc
  <1>8. CursorCoherent(r)'
    <2>1. /\ cursor'[r] = Granted(r)' + Cardinality(Undoing(r)')
          /\ Granted(r)' = MaxSlots
      BY <1>3, <1>4, <1>5, <1>6, <1>7
    <2> QED  BY <1>0, <1>2, <1>3, <2>1 DEF CursorCoherent
  <1>9. SlotsCoherent(r)'
    <2>1. /\ idx' = idx /\ entries' = entries
          /\ \A v \in Uncommitted(r) : pc'[v] = pc[v]
      BY DEF TakeSlotFull, TypeOK, Uncommitted
    <2> QED  BY <1>0, <1>1, <1>2, <1>4, <2>1 DEF Coherent, SlotsCoherent
  <1> QED
    BY <1>0, <1>8, <1>9 DEF Coherent

LEMMA UndoSlotCoherent ==
    ASSUME TypeOK, NEW w \in Writers, UndoSlot(w), ~Clearing(region[w]),
           Coherent(region[w])
    PROVE  Coherent(region[w])'
  <1> DEFINE r == region[w]
  <1>0. r \in Regions /\ region' = region
    BY DEF TypeOK, UndoSlot
  <1>1. /\ w \in Undoing(r)
        /\ Undoing(r)' = Undoing(r) \ {w}
        /\ Uncommitted(r)' = Uncommitted(r)
    BY DEF UndoSlot, TypeOK, Uncommitted, Undoing
  <1>2. ~Clearing(r)'
    BY <1>0, WritersKeepClearing DEF UndoSlot
  <1>3. /\ Granted(r) \in Nat /\ Cardinality(Undoing(r)) \in Nat
        /\ IsFiniteSet(Undoing(r)) /\ MaxSlots \in Nat \ {0}
    BY <1>0, Counts, MaxSlotsAssumption DEF Granted, TypeOK
  <1>4. Granted(r)' = Granted(r)
    BY <1>0, <1>1 DEF UndoSlot, Granted
  <1>5. Granted(r) = MaxSlots /\ cursor[r] = MaxSlots + Cardinality(Undoing(r))
    BY <1>1 DEF Coherent, CursorCoherent
  <1>6. Cardinality(Undoing(r)') = Cardinality(Undoing(r)) - 1
    BY <1>1, <1>3, RemoveOne
  <1>7. cursor'[r] = cursor[r] - 1
    <2>1. cursor[r] # 0
      BY <1>3, <1>5
    <2> QED  BY <1>0, <2>1 DEF UndoSlot, TypeOK, Dec
  <1>8. CursorCoherent(r)'
    <2>1. /\ cursor'[r] = Granted(r)' + Cardinality(Undoing(r)')
          /\ Granted(r)' = MaxSlots
      BY <1>3, <1>4, <1>5, <1>6, <1>7
    <2> QED  BY <1>0, <1>2, <1>3, <2>1 DEF CursorCoherent
  <1>9. SlotsCoherent(r)'
    <2>1. /\ idx' = idx /\ entries' = entries
          /\ \A v \in Uncommitted(r) : pc'[v] = pc[v]
      BY DEF UndoSlot, TypeOK, Uncommitted
    <2> QED  BY <1>0, <1>1, <1>2, <1>4, <2>1 DEF Coherent, SlotsCoherent
  <1> QED
    BY <1>0, <1>8, <1>9 DEF Coherent

\* Filling a slot: the other writers' slots are other slots.
LEMMA FillCoherent ==
    ASSUME TypeOK, NEW w \in Writers, WriteHeader(w) \/ CopyPayload(w),
           ~Clearing(region[w]), Coherent(region[w])
    PROVE  Coherent(region[w])'
  <1> DEFINE r == region[w]
  <1>0. r \in Regions /\ region' = region /\ idx' = idx /\ idx[w] \in Slots
    BY DEF TypeOK, WriteHeader, CopyPayload
  <1>1. /\ w \in Uncommitted(r)
        /\ Uncommitted(r)' = Uncommitted(r) /\ Undoing(r)' = Undoing(r)
    BY DEF WriteHeader, CopyPayload, TypeOK, Uncommitted, Undoing
  <1>2. ~Clearing(r)'
    BY <1>0, WritersKeepClearing DEF WriteHeader, CopyPayload
  <1>3. Granted(r)' = Granted(r) /\ cursor' = cursor
    BY <1>0, <1>1 DEF WriteHeader, CopyPayload, Granted
  <1>4. CursorCoherent(r)'
    BY <1>0, <1>1, <1>2, <1>3 DEF Coherent, CursorCoherent
  <1>5. /\ \A s \in Slots \ {idx[w]} : entries'[r][s] = entries[r][s]
        /\ pc'[w] = "commit" => entries'[r][idx[w]] = "full"
        /\ \A v \in Writers \ {w} : pc'[v] = pc[v]
    <2>1. \A v \in Writers \ {w} : pc'[v] = pc[v]
      BY DEF WriteHeader, CopyPayload, TypeOK
    <2>2. CASE WriteHeader(w)
      <3>1. entries' = [entries EXCEPT ![r] = [@ EXCEPT ![idx[w]] = "header"]]
            /\ pc'[w] = "copy"
        BY <2>2 DEF WriteHeader, TypeOK
      <3> QED  BY <1>0, <2>1, <3>1 DEF TypeOK
    <2>3. CASE CopyPayload(w)
      <3>1. entries' = [entries EXCEPT ![r] = [@ EXCEPT ![idx[w]] = "full"]]
        BY <2>3 DEF CopyPayload
      <3> QED  BY <1>0, <2>1, <3>1 DEF TypeOK
    <2> QED  BY <2>2, <2>3
  <1>6. \A v \in Uncommitted(r) : v \in Writers /\ idx[v] \in Slots
    BY DEF Uncommitted, TypeOK
  <1>7. SlotsCoherent(r)'
    <2>1. \A v \in Uncommitted(r)' :
            /\ idx'[v] < Granted(r)'
            /\ pc'[v] = "commit" => entries'[r][idx'[v]] = "full"
      BY <1>0, <1>1, <1>3, <1>5, <1>6 DEF Coherent, SlotsCoherent
    <2>2. \A s \in Slots : s < Granted(r)' /\ entries'[r][s] # "full"
             => \E v \in Uncommitted(r)' : idx'[v] = s
      BY <1>0, <1>1, <1>3, <1>5 DEF Coherent, SlotsCoherent
    <2>3. \A u, v \in Uncommitted(r)' : idx'[u] = idx'[v] => u = v
      BY <1>0, <1>1 DEF Coherent, SlotsCoherent
    <2> QED  BY <1>0, <2>1, <2>2, <2>3 DEF SlotsCoherent
  <1> QED
    BY <1>0, <1>4, <1>7 DEF Coherent

LEMMA CommitCoherent ==
    ASSUME TypeOK, NEW w \in Writers, Commit(w), ~Clearing(region[w]),
           Coherent(region[w])
    PROVE  Coherent(region[w])'
  <1> DEFINE r == region[w]
  <1>0. r \in Regions /\ region' = region /\ entries' = entries
    BY DEF TypeOK, Commit
  <1>1. /\ w \in Uncommitted(r)
        /\ Uncommitted(r)' = Uncommitted(r) \ {w} /\ Undoing(r)' = Undoing(r)
    BY DEF Commit, TypeOK, Uncommitted, Undoing
  <1>2. ~Clearing(r)'
    BY <1>0, WritersKeepClearing DEF Commit
  <1>3. Granted(r)' = Granted(r) /\ cursor' = cursor
    <2>1. Cardinality(Uncommitted(r)') = Cardinality(Uncommitted(r)) - 1
          /\ Cardinality(Uncommitted(r)) \in Nat
      BY <1>0, <1>1, Counts, RemoveOne
    <2>2. committed_entries'[r] = committed_entries[r] + 1
          /\ committed_entries[r] \in Nat
      BY <1>0 DEF Commit, TypeOK
    <2> QED  BY <1>0, <2>1, <2>2 DEF Commit, Granted
  <1>4. CursorCoherent(r)'
    BY <1>0, <1>1, <1>2, <1>3 DEF Coherent, CursorCoherent
  <1>5. \A v \in Uncommitted(r)' : idx'[v] = idx[v] /\ pc'[v] = pc[v]
    BY <1>1 DEF Commit, TypeOK, Uncommitted
  <1>6. entries[r][idx[w]] = "full"
    BY <1>1 DEF Coherent, SlotsCoherent, Commit
  <1>7. SlotsCoherent(r)'
    <2>1. \A v \in Uncommitted(r)' :
            /\ idx'[v] < Granted(r)'
            /\ pc'[v] = "commit" => entries'[r][idx'[v]] = "full"
      BY <1>0, <1>1, <1>3, <1>5 DEF Coherent, SlotsCoherent
    <2>2. \A s \in Slots : s < Granted(r)' /\ entries'[r][s] # "full"
             => \E v \in Uncommitted(r)' : idx'[v] = s
      BY <1>0, <1>1, <1>3, <1>5, <1>6 DEF Coherent, SlotsCoherent
    <2>3. \A u, v \in Uncommitted(r)' : idx'[u] = idx'[v] => u = v
      BY <1>1, <1>5 DEF Coherent, SlotsCoherent
    <2> QED  BY <1>0, <2>1, <2>2, <2>3 DEF SlotsCoherent
  <1> QED
    BY <1>0, <1>4, <1>7 DEF Coherent

\* Steps of a drainer: only a reset touches the slots, and only those of a
\* sealed region.
LEMMA DrainCoherent ==
    ASSUME TypeOK, NEW r \in Regions, NEW d \in Drainers,
           LoadBit(d) \/ DrainCall(d),
           Sealed(r) => Holders(r) = {}, Coherent(r)
    PROVE  Coherent(r)'
  <1>1. CASE LoadBit(d) \/ Flip(d) \/ SpinDone(d) \/ Tally(d) \/ LoadTotals(d)
             \/ StoreTotals(d) \/ ResetWriters(d)
    <2> USE <1>1 DEF LoadBit, Flip, SpinDone, Tally, LoadTotals, StoreTotals,
                     ResetWriters, shared, writerVars
    <2>1. Clearing(r)' = Clearing(r)
      BY DEF Clearing, TypeOK
    <2>2. Uncommitted(r)' = Uncommitted(r) /\ Undoing(r)' = Undoing(r)
      BY DEF Uncommitted, Undoing
    <2>3. Still(r)
      BY <2>1, <2>2 DEF Still
    <2> QED  BY <2>3, StillCoherent
  <1>2. CASE (ResetCursor(d) \/ ResetCommitted(d)) /\ old_region[d] # r
    <2> USE <1>2 DEF ResetCursor, ResetCommitted, writerVars
    <2>1. Clearing(r)' = Clearing(r)
      BY DEF Clearing, TypeOK
    <2>2. Uncommitted(r)' = Uncommitted(r) /\ Undoing(r)' = Undoing(r)
      BY DEF Uncommitted, Undoing
    <2>3. Still(r)
      BY <2>1, <2>2 DEF Still, TypeOK
    <2> QED  BY <2>3, StillCoherent
  <1>3. CASE (ResetCursor(d) \/ ResetCommitted(d)) /\ old_region[d] = r
    <2>1. Holders(r) = {}
      BY <1>3 DEF ResetCursor, ResetCommitted, Sealed
    <2>2. Uncommitted(r)' = {} /\ Undoing(r)' = {}
      BY <1>3, <2>1 DEF ResetCursor, ResetCommitted, writerVars, Holders,
                        Uncommitted, Undoing
    <2>3. CASE ResetCursor(d)
      <3>1. Clearing(r)' /\ cursor'[r] = 0
        BY <1>3, <2>3 DEF ResetCursor, Clearing, TypeOK
      <3> QED  BY <2>2, <3>1 DEF Coherent, CursorCoherent, SlotsCoherent
    <2>4. CASE ResetCommitted(d)
      <3>1. cursor'[r] = 0
        <4>1. Clearing(r)
          BY <1>3, <2>4 DEF ResetCommitted, Clearing
        <4> QED  BY <2>4, <4>1 DEF ResetCommitted, Coherent, CursorCoherent
      <3>2. Cardinality(Uncommitted(r)') = 0 /\ Cardinality(Undoing(r)') = 0
        BY <2>2, FS_EmptySet
      <3>3. Granted(r)' = 0
        BY <1>3, <2>4, <3>2 DEF ResetCommitted, TypeOK, Granted
      <3>4. CursorCoherent(r)'
        BY <2>2, <3>1, <3>2, <3>3, MaxSlotsAssumption DEF CursorCoherent
      <3>5. SlotsCoherent(r)'
        BY <2>2, <3>3 DEF SlotsCoherent
      <3> QED  BY <3>4, <3>5 DEF Coherent
    <2> QED  BY <1>3, <2>3, <2>4
  <1> QED
    BY <1>1, <1>2, <1>3 DEF DrainCall

-----------------------------------------------------------------------------
(* The inductive invariant, put together *)

LEMMA CoherentStep ==
    ASSUME TypeOK, Next, NEW r \in Regions, Coherent(r),
           Sealed(r) => Holders(r) = {}
    PROVE  Coherent(r)'
  <1>1. ASSUME NEW w \in Writers, LoadRegion(w) \/ WriteCall(w)
        PROVE  Coherent(r)'
    <2>1. CASE \/ LoadRegion(w) \/ TakeTicket(w) \/ Reject(w) \/ Leave(w)
               \/ AssignUuid(w)
      BY <2>1, TicketOnly, StillCoherent
    <2>2. CASE \/ TakeSlot(w) \/ TakeSlotFull(w) \/ UndoSlot(w)
               \/ WriteHeader(w) \/ CopyPayload(w) \/ Commit(w)
      <3>1. CASE region[w] # r
        BY <2>2, <3>1, OtherRegion, StillCoherent
      <3>2. CASE region[w] = r
        <4>1. region' = region /\ pc[w] \in InRegion
          BY <2>2 DEF TakeSlot, TakeSlotFull, UndoSlot, WriteHeader,
                      CopyPayload, Commit
        <4>2. ~Clearing(region[w])
          BY <3>2, <4>1, InsideNotClearing
        <4>3. Coherent(region[w])'
          BY <2>2, <3>2, <4>2, TakeSlotCoherent, TakeSlotFullCoherent,
             UndoSlotCoherent, FillCoherent, CommitCoherent
        <4> QED  BY <3>2, <4>1, <4>3
      <3> QED  BY <3>1, <3>2
    <2> QED  BY <1>1, <2>1, <2>2 DEF WriteCall
  <1>2. ASSUME NEW d \in Drainers, LoadBit(d) \/ DrainCall(d)
        PROVE  Coherent(r)'
    BY <1>2, DrainCoherent
  <1> QED
    BY <1>1, <1>2 DEF Next

LEMMA IInvInit == Init => IInv
  <1> SUFFICES ASSUME Init PROVE IInv
    OBVIOUS
  <1>1. TypeOK /\ NeverOverCounts
    BY TypeInit, NeverOverCountsInit
  <1>2. ASSUME NEW r \in Regions
        PROVE  /\ TicketsExact(r)
               /\ Sealed(r) => Holders(r) = {}
               /\ CursorCoherent(r)
               /\ SlotsCoherent(r)
    <2>1. Holders(r) = {} /\ Uncommitted(r) = {} /\ Undoing(r) = {}
      BY DEF Init, Holders, Uncommitted, Undoing
    <2>2. /\ Cardinality(Holders(r)) = 0
          /\ Cardinality(Uncommitted(r)) = 0
          /\ Cardinality(Undoing(r)) = 0
      BY <2>1, FS_EmptySet
    <2>3. TicketsExact(r)
      BY <2>2 DEF Init, TicketsExact
    <2>4. Granted(r) = 0
      BY <2>2 DEF Init, Granted
    <2>5. ~Clearing(r) /\ cursor[r] = 0
      BY DEF Init, Clearing
    <2>6. CursorCoherent(r)
      BY <2>1, <2>2, <2>4, <2>5, MaxSlotsAssumption DEF CursorCoherent
    <2>7. SlotsCoherent(r)
      BY <2>1, <2>4 DEF SlotsCoherent
    <2> QED  BY <2>1, <2>3, <2>6, <2>7
  <1> QED  BY <1>1, <1>2 DEF IInv

LEMMA IInvNext == IInv /\ [Next]_vars => IInv'
  <1> SUFFICES ASSUME IInv, [Next]_vars
               PROVE  IInv'
    OBVIOUS
  <1>1. TypeOK' /\ NeverOverCounts'
    BY TypeNext, NeverOverCountsNext DEF IInv
  <1>2. ASSUME ~late', NEW r \in Regions
        PROVE  /\ TicketsExact(r)'
               /\ Sealed(r)' => Holders(r)' = {}
               /\ CursorCoherent(r)'
               /\ SlotsCoherent(r)'
    <2>1. CASE Next
      <3>1. ~late
        BY <1>2, <2>1, Zenon
           DEF Next, WriteCall, DrainCall, LoadRegion, TakeTicket, TakeSlot,
               TakeSlotFull, UndoSlot, Reject, WriteHeader, CopyPayload,
               Commit, Leave, AssignUuid, LoadBit, Flip, SpinDone, Tally,
               LoadTotals, StoreTotals, ResetCursor, ResetWriters,
               ResetCommitted
      <3>2. /\ TypeOK /\ TicketsExact(r) /\ Coherent(r)
            /\ Sealed(r) => Holders(r) = {}
        BY <3>1 DEF IInv, Coherent
      <3>3. TicketsExact(r)' /\ (Sealed(r)' => Holders(r)' = {})
        BY <1>2, <2>1, <3>2, TicketsStep
      <3>4. Coherent(r)'
        BY <2>1, <3>2, CoherentStep
      <3> QED  BY <3>3, <3>4 DEF Coherent
    <2>2. CASE UNCHANGED vars
      <3> USE <2>2 DEF vars, shared, writerVars, drainVars
      <3>1. /\ Holders(r)' = Holders(r) /\ Uncommitted(r)' = Uncommitted(r)
            /\ Undoing(r)' = Undoing(r) /\ Sealed(r)' = Sealed(r)
            /\ Clearing(r)' = Clearing(r)
        BY DEF Holders, Uncommitted, Undoing, Sealed, Clearing
      <3>2. ~late
        BY <1>2
      <3>3. /\ TicketsExact(r) /\ Coherent(r)
            /\ Sealed(r) => Holders(r) = {}
        BY <3>2 DEF IInv, Coherent
      <3>4. Still(r)
        BY <3>1 DEF Still
      <3>5. Coherent(r)'
        BY <3>3, <3>4, StillCoherent
      <3> QED  BY <3>1, <3>3, <3>5 DEF TicketsExact, Coherent
    <2> QED  BY <2>1, <2>2
  <1> QED
    BY <1>1, <1>2 DEF IInv

LEMMA Invariance == Spec => []IInv
  BY IInvInit, IInvNext, PTL DEF Spec

\* As long as no writer has entered a region after its drain saw it empty,
\* two writers never fill the same slot.
THEOREM Exclusion == Spec => []ExclusiveSlots
  <1>1. IInv => ExclusiveSlots
    <2> SUFFICES ASSUME IInv, ~late, NEW v \in Writers, NEW w \in Writers,
                        pc[v] \in Filling, pc[w] \in Filling, v # w,
                        region[v] = region[w]
                 PROVE  idx[v] # idx[w]
      BY DEF ExclusiveSlots
    <2>1. region[v] \in Regions /\ SlotsCoherent(region[v])
      BY DEF IInv, TypeOK
    <2>2. v \in Uncommitted(region[v]) /\ w \in Uncommitted(region[v])
      BY DEF Uncommitted
    <2> QED  BY <2>1, <2>2 DEF SlotsCoherent
  <1> QED  BY <1>1, Invariance, PTL

\* ... a drain tallies and resets only a region that nobody is in,
THEOREM QuietDrain == Spec => []DrainIsQuiet
  <1>1. IInv => DrainIsQuiet
    <2> SUFFICES ASSUME IInv, ~late, NEW r \in Regions, Sealed(r)
                 PROVE  Holders(r) = {} /\ active_writers[r] = 0
      BY DEF DrainIsQuiet
    <2> QED  BY FS_EmptySet DEF IInv, TicketsExact
  <1> QED  BY <1>1, Invariance, PTL

\* ... cursor counts the accepted writes and the rollbacks under way,
THEOREM ExactCursor == Spec => []CursorExact
  <1>1. IInv => CursorExact
    BY DEF IInv, CursorCoherent, CursorExact
  <1> QED  BY <1>1, Invariance, PTL

\* ... and every slot below the committed count is full or being filled.
THEOREM NoHoles == Spec => []GapsAreInFlight
  <1>1. IInv => GapsAreInFlight
    BY DEF IInv, SlotsCoherent, GapsAreInFlight
  <1> QED  BY <1>1, Invariance, PTL

\* "Region full" is answered only when every slot has been given out.
THEOREM FullMeansFull == Spec => RejectOnlyWhenFull
  <1>1. IInv /\ [Next]_vars =>
          [\A w \in Writers : (~late /\ pc[w] = "slot" /\ pc'[w] = "undo") =>
             Granted(region[w]) = MaxSlots]_vars
    <2> SUFFICES ASSUME IInv, Next, NEW w \in Writers, ~late, pc[w] = "slot",
                        pc'[w] = "undo"
                 PROVE  Granted(region[w]) = MaxSlots
      OBVIOUS
    <2>1. TypeOK /\ region[w] \in Regions
      BY DEF IInv, TypeOK
    <2>2. cursor[region[w]] >= MaxSlots
      <3>1. ASSUME NEW v \in Writers, LoadRegion(v) \/ WriteCall(v)
            PROVE  cursor[region[w]] >= MaxSlots
        BY <3>1, <2>1
           DEF WriteCall, LoadRegion, TakeTicket, TakeSlot, TakeSlotFull,
               UndoSlot, Reject, WriteHeader, CopyPayload, Commit, Leave,
               AssignUuid, TypeOK
      <3>2. ASSUME NEW d \in Drainers, LoadBit(d) \/ DrainCall(d)
            PROVE  FALSE
        BY <3>2 DEF LoadBit, DrainCall, Flip, SpinDone, Tally, LoadTotals,
                    StoreTotals, ResetCursor, ResetWriters, ResetCommitted,
                    writerVars
      <3> QED  BY <3>1, <3>2 DEF Next
    <2>3. ~Clearing(region[w])
      BY <2>1, InsideNotClearing DEF IInv
    <2>4. /\ cursor[region[w]] = Granted(region[w])
                                 + Cardinality(Undoing(region[w]))
          /\ Granted(region[w]) <= MaxSlots
          /\ Undoing(region[w]) # {} => Granted(region[w]) = MaxSlots
      BY <2>1, <2>3 DEF IInv, CursorCoherent
    <2>5. /\ Granted(region[w]) \in Nat /\ MaxSlots \in Nat
          /\ Undoing(region[w]) = {} => Cardinality(Undoing(region[w])) = 0
      BY <2>1, Counts, NoCard, MaxSlotsAssumption DEF Granted, TypeOK
    <2> QED  BY <2>2, <2>4, <2>5
  <1> QED  BY <1>1, Invariance, PTL DEF Spec, RejectOnlyWhenFull

-----------------------------------------------------------------------------
(* LockerWriter implements RegionLog *)

\* Writers whose write is committed and not yet numbered.
Accepted == {w \in Writers : pc[w] \in {"leave", "uuid"}}

\* While drains have not overlapped, the one at work agrees with region_bit and
\* with the counters on what it is about to take.
DrainInStep(d) ==
    /\ dpc[d] = "flip" => region_bit = old_region[d]
    /\ dpc[d] \in PastSpin \cup {"spin"} => region_bit # old_region[d]
    /\ dpc[d] \in {"loadTotals", "storeTotals"} =>
          entries_written[d] = committed_entries[old_region[d]]
    /\ dpc[d] = "storeTotals" => totals[d] = total_entries

ExactInv ==
    /\ IInv
    /\ exact \in BOOLEAN
    /\ exact => /\ ~late /\ ~DrainsOverlap
                /\ \A d \in Drainers : DrainInStep(d)

LEMMA ExactInit == RefinementInit => ExactInv
  <1> SUFFICES ASSUME RefinementInit PROVE ExactInv
    OBVIOUS
  <1>1. IInv
    BY IInvInit DEF RefinementInit
  <1>2. \A d \in Drainers : dpc[d] = "idle"
    BY DEF RefinementInit, Init
  <1>3. ~DrainsOverlap /\ \A d \in Drainers : DrainInStep(d)
    BY <1>2 DEF DrainsOverlap, DrainInStep
  <1> QED
    BY <1>1, <1>3 DEF RefinementInit, Init, ExactInv

\* In a quiet region everything that was taken is committed.
LEMMA QuietCursor ==
    ASSUME IInv, ~late, NEW r \in Regions, Sealed(r), ~Clearing(r)
    PROVE  cursor[r] = committed_entries[r]
  <1>1. Holders(r) = {} /\ CursorCoherent(r)
    BY DEF IInv
  <1>2. Uncommitted(r) = {} /\ Undoing(r) = {}
    BY <1>1 DEF Holders, Uncommitted, Undoing
  <1>3. Cardinality(Uncommitted(r)) = 0 /\ Cardinality(Undoing(r)) = 0
    BY <1>2, FS_EmptySet
  <1>4. committed_entries[r] \in Nat
    BY DEF IInv, TypeOK
  <1> QED  BY <1>1, <1>3, <1>4 DEF CursorCoherent, Granted

LEMMA DrainInStepWriter ==
    ASSUME IInv, ~late, NEW d \in Drainers, DrainInStep(d),
           NEW w \in Writers, LoadRegion(w) \/ WriteCall(w)
    PROVE  DrainInStep(d)'
  <1>1. /\ UNCHANGED <<region_bit, drainVars, tallies>>
        /\ \A r \in Regions : committed_entries'[r] = committed_entries[r]
                              \/ w \in Holders(r)
    BY DEF LoadRegion, WriteCall, TakeTicket, TakeSlot, TakeSlotFull,
           UndoSlot, Reject, WriteHeader, CopyPayload, Commit, Leave,
           AssignUuid, shared, Holders, IInv, TypeOK
  <1>2. ASSUME dpc[d] \in {"loadTotals", "storeTotals"}
        PROVE  committed_entries'[old_region[d]] = committed_entries[old_region[d]]
    <2>1. old_region[d] \in Regions /\ Sealed(old_region[d])
      BY <1>2 DEF Sealed, IInv, TypeOK
    <2>2. Holders(old_region[d]) = {}
      BY <2>1 DEF IInv
    <2> QED  BY <1>1, <2>1, <2>2
  <1> QED
    BY <1>1, <1>2 DEF DrainInStep, drainVars, tallies

LEMMA DrainInStepDrainer ==
    ASSUME IInv, ~late, ~DrainsOverlap, ~DrainsOverlap', NEW d \in Drainers, DrainInStep(d),
           NEW e \in Drainers, LoadBit(e) \/ DrainCall(e)
    PROVE  DrainInStep(d)'
  <1> USE DEF IInv, TypeOK
  <1>1. CASE d = e
    <2>1. CASE LoadBit(e)
      BY <1>1, <2>1 DEF LoadBit, DrainInStep, shared
    <2>2. CASE Flip(e)
      BY <1>1, <2>2 DEF Flip, DrainInStep
    <2>3. CASE SpinDone(e)
      BY <1>1, <2>3 DEF SpinDone, DrainInStep, shared
    <2>4. CASE Tally(e)
      <3>1. CASE Clearing(old_region[d])
        <4>1. PICK f \in Drainers : old_region[f] = old_region[d]
                       /\ dpc[f] \in {"resetWriters", "resetCommitted"}
          BY <3>1 DEF Clearing
        <4>2. f # e /\ dpc'[f] = dpc[f] /\ dpc'[e] = "loadTotals"
          BY <2>4, <4>1 DEF Tally
        <4> QED  BY <4>1, <4>2 DEF DrainsOverlap
      <3>2. CASE ~Clearing(old_region[d])
        <4>1. Sealed(old_region[d]) /\ old_region[d] \in Regions
          BY <1>1, <2>4 DEF Tally, Sealed
        <4>2. cursor[old_region[d]] = committed_entries[old_region[d]]
          BY <3>2, <4>1, QuietCursor
        <4> QED  BY <1>1, <2>4, <4>2 DEF Tally, DrainInStep, shared
      <3> QED  BY <3>1, <3>2
    <2>5. CASE LoadTotals(e)
      BY <1>1, <2>5 DEF LoadTotals, DrainInStep, shared, tallies
    <2>6. CASE StoreTotals(e) \/ ResetCursor(e) \/ ResetWriters(e)
               \/ ResetCommitted(e)
      BY <1>1, <2>6 DEF StoreTotals, ResetCursor, ResetWriters,
                        ResetCommitted, DrainInStep, shared
    <2> QED  BY <2>1, <2>2, <2>3, <2>4, <2>5, <2>6 DEF DrainCall
  <1>2. CASE d # e
    <2>1. dpc'[d] = dpc[d]
      BY <1>2 DEF LoadBit, DrainCall, Flip, SpinDone, Tally, LoadTotals,
                  StoreTotals, ResetCursor, ResetWriters, ResetCommitted
    <2>2. CASE dpc[d] = "idle"
      BY <2>1, <2>2 DEF DrainInStep
    <2>3. CASE dpc[d] # "idle"
      <3>1. dpc'[e] = "idle"
        BY <1>2, <2>1, <2>3 DEF DrainsOverlap
      <3>2. ResetCommitted(e)
        BY <3>1 DEF LoadBit, DrainCall, Flip, SpinDone, Tally, LoadTotals,
                    StoreTotals, ResetCursor, ResetWriters
      <3> QED  BY <1>2, <2>3, <3>2 DEF ResetCommitted, DrainsOverlap
    <2> QED  BY <2>2, <2>3
  <1> QED  BY <1>1, <1>2

LEMMA ExactNext == ExactInv /\ [RefinementNext]_refinementVars => ExactInv'
  <1> SUFFICES ASSUME ExactInv, [RefinementNext]_refinementVars
               PROVE  ExactInv'
    OBVIOUS
  <1>1. CASE UNCHANGED refinementVars
    <2>1. UNCHANGED vars /\ exact' = exact
      BY <1>1 DEF refinementVars
    <2>2. IInv'
      BY <2>1, IInvNext DEF ExactInv
    <2>3. ASSUME exact PROVE ~late' /\ ~DrainsOverlap'
      BY <2>1, <2>3 DEF ExactInv, vars, drainVars, DrainsOverlap
    <2>4. ASSUME exact, NEW d \in Drainers PROVE DrainInStep(d)'
      <3>1. DrainInStep(d)
        BY <2>4 DEF ExactInv
      <3> QED  BY <2>1, <3>1 DEF vars, shared, tallies, drainVars, DrainInStep
    <2> QED  BY <2>1, <2>2, <2>3, <2>4 DEF ExactInv
  <1>2. CASE RefinementNext
    <2>1. Next /\ exact' = (exact /\ ~late' /\ ~DrainsOverlap')
      BY <1>2 DEF RefinementNext
    <2>2. IInv'
      BY <2>1, IInvNext DEF ExactInv
    <2>3. exact' \in BOOLEAN
      BY <2>1 DEF ExactInv
    <2>4. ASSUME exact', NEW d \in Drainers PROVE DrainInStep(d)'
      <3>1. /\ IInv /\ ~late /\ ~DrainsOverlap /\ DrainInStep(d)
            /\ ~DrainsOverlap'
        BY <2>1, <2>4 DEF ExactInv
      <3> QED
        BY <2>1, <3>1, DrainInStepWriter, DrainInStepDrainer DEF Next
    <2> QED  BY <2>1, <2>2, <2>3, <2>4 DEF ExactInv
  <1> QED  BY <1>1, <1>2

\* Of the steps of a write, the commit accepts the entry; acknowledging it
\* moves it from the writers to uuidCounter.
LEMMA AcceptedStep ==
    ASSUME TypeOK, NEW w \in Writers, LoadRegion(w) \/ WriteCall(w)
    PROVE  LET Acknowledged == uuidCounter + Cardinality(Accepted)
           IN  IF Commit(w) THEN Acknowledged' = Acknowledged + 1
                            ELSE Acknowledged' = Acknowledged
  <1>0. IsFiniteSet(Accepted) /\ Cardinality(Accepted) \in Nat
        /\ uuidCounter \in Nat
    <2>1. Accepted \subseteq Writers
      BY DEF Accepted
    <2> QED
      BY <2>1, WritersAssumption, FS_Subset, FS_CardinalityType DEF TypeOK
  <1>1. CASE Commit(w)
    <2>1. /\ w \notin Accepted /\ Accepted' = Accepted \cup {w}
          /\ uuidCounter' = uuidCounter
      BY <1>1 DEF Commit, Accepted, TypeOK
    <2>2. Cardinality(Accepted \cup {w}) = Cardinality(Accepted) + 1
      BY <1>0, <2>1, AddOne
    <2> QED  BY <1>0, <1>1, <2>1, <2>2
  <1>2. CASE AssignUuid(w)
    <2>1. /\ w \in Accepted /\ Accepted' = Accepted \ {w}
          /\ uuidCounter' = uuidCounter + 1
      BY <1>2 DEF AssignUuid, Accepted, TypeOK
    <2>2. Cardinality(Accepted \ {w}) = Cardinality(Accepted) - 1
      BY <1>0, <2>1, RemoveOne
    <2>3. ~Commit(w)
      BY <1>2 DEF AssignUuid, Commit
    <2> QED  BY <1>0, <2>1, <2>2, <2>3
  <1>3. CASE ~Commit(w) /\ ~AssignUuid(w)
    <2>1. Accepted' = Accepted /\ uuidCounter' = uuidCounter
      BY <1>3 DEF LoadRegion, WriteCall, TakeTicket, TakeSlot, TakeSlotFull,
                  UndoSlot, Reject, WriteHeader, CopyPayload, Leave,
                  Accepted, TypeOK
    <2> QED  BY <1>3, <2>1
  <1> QED  BY <1>1, <1>2, <1>3

\* What one step means to RegionLog, while its promise stands.
LEMMA LogWriter ==
    ASSUME ExactInv, exact, exact' = exact,
           NEW w \in Writers, LoadRegion(w) \/ WriteCall(w)
    PROVE  \/ Log!Accept(region[w]) /\ region[w] \in {0, 1}
           \/ UNCHANGED Log!vars
  <1>0. IInv /\ TypeOK /\ ~late /\ region[w] \in Regions
    BY DEF ExactInv, IInv, TypeOK
  <1>1. /\ UNCHANGED <<region_bit, total_entries>>
        /\ \A r \in Regions : Tallied(r)' = Tallied(r)
    BY DEF LoadRegion, WriteCall, TakeTicket, TakeSlot, TakeSlotFull,
           UndoSlot, Reject, WriteHeader, CopyPayload, Commit, Leave,
           AssignUuid, shared, tallies, drainVars, Tallied
  <1>2. CASE Commit(w)
    <2> DEFINE r == region[w]
    <2>1. w \in Holders(r) /\ w \in Uncommitted(r)
      BY <1>2 DEF Commit, Holders, Uncommitted
    <2>2. ~Sealed(r) /\ CursorCoherent(r)
      BY <1>0, <2>1 DEF IInv
    <2>3. ~Tallied(r) /\ ~Clearing(r)
      BY <2>2 DEF Tallied, Clearing, Sealed
    <2>4. Granted(r) <= MaxSlots /\ committed_entries[r] \in Nat
          /\ MaxSlots \in Nat
      BY <1>0, <2>2, <2>3, MaxSlotsAssumption DEF CursorCoherent, TypeOK
    <2>5. Cardinality(Uncommitted(r)) \in Nat /\ Cardinality(Uncommitted(r)) # 0
      BY <1>0, <2>1, Counts, NoCard
    <2>6. committed_entries[r] < MaxSlots
      BY <2>4, <2>5 DEF Granted
    <2>7. committed_entries' = [committed_entries EXCEPT ![r] = @ + 1]
      BY <1>2 DEF Commit
    <2>8. [s \in Regions |-> Pending(s)]'
            = [[s \in Regions |-> Pending(s)] EXCEPT ![r] = @ + 1]
      BY <1>0, <1>1, <2>3, <2>7 DEF Pending, TypeOK
    <2>9. [s \in Regions |-> Pending(s)][r] = committed_entries[r]
      BY <1>0, <2>3 DEF Pending
    <2> QED
      BY <1>0, <1>1, <1>2, <2>6, <2>8, <2>9, AcceptedStep
         DEF Log!Accept, Accepted
  <1>3. CASE ~Commit(w)
    <2>1. committed_entries' = committed_entries
      BY <1>3 DEF LoadRegion, WriteCall, TakeTicket, TakeSlot, TakeSlotFull,
                  UndoSlot, Reject, WriteHeader, CopyPayload, Leave,
                  AssignUuid, shared
    <2>2. [s \in Regions |-> Pending(s)]' = [s \in Regions |-> Pending(s)]
      BY <1>1, <2>1 DEF Pending
    <2> QED
      BY <1>0, <1>1, <1>3, <2>2, AcceptedStep DEF Log!vars, Accepted
  <1> QED  BY <1>2, <1>3

LEMMA LogDrainer ==
    ASSUME ExactInv, exact, exact' = exact,
           NEW d \in Drainers, LoadBit(d) \/ DrainCall(d)
    PROVE  \/ Log!Switch
           \/ Log!Take(old_region[d]) /\ old_region[d] \in {0, 1}
           \/ UNCHANGED Log!vars
  <1> DEFINE Held == [s \in Regions |-> Pending(s)]
             r == old_region[d]
  <1>0. /\ IInv /\ TypeOK /\ ~late /\ DrainInStep(d) /\ r \in Regions
        /\ dpc[d] # "idle" => \A e \in Drainers : e # d => dpc[e] = "idle"
    <2>1. IInv /\ ~late /\ DrainInStep(d) /\ ~DrainsOverlap
      BY DEF ExactInv
    <2>2. TypeOK
      BY <2>1 DEF IInv
    <2>3. r \in Regions
      BY <2>2 DEF TypeOK
    <2> QED  BY <2>1, <2>2, <2>3 DEF DrainsOverlap
  <1>1. UNCHANGED <<pc, uuidCounter>>
    BY DEF LoadBit, DrainCall, Flip, SpinDone, Tally, LoadTotals, StoreTotals,
           ResetCursor, ResetWriters, ResetCommitted, writerVars
  <1>2. CASE Flip(d)
    <2>1. /\ UNCHANGED <<committed_entries, total_entries>>
          /\ region_bit' = 1 - region_bit
          /\ \A s \in Regions : Tallied(s)' = Tallied(s)
      BY <1>0, <1>2 DEF Flip, DrainInStep, tallies, Tallied, TypeOK
    <2>2. Held' = Held
      BY <2>1 DEF Pending
    <2> QED  BY <1>1, <2>1, <2>2 DEF Log!Switch
  <1>3. CASE StoreTotals(d)
    <2>1. \A s \in Regions : ~Tallied(s) /\ (Tallied(s)' <=> s = r)
      BY <1>0, <1>3 DEF StoreTotals, Tallied, TypeOK
    <2>2. UNCHANGED <<region_bit, committed_entries>>
      BY <1>3 DEF StoreTotals, shared
    <2>3. Held' = [Held EXCEPT ![r] = 0] /\ Held[r] = committed_entries[r]
      BY <1>0, <2>1, <2>2 DEF Pending
    <2>4. total_entries' = total_entries + committed_entries[r]
          /\ r # region_bit
      BY <1>0, <1>3 DEF StoreTotals, DrainInStep
    <2> QED  BY <1>0, <1>1, <2>2, <2>3, <2>4 DEF Log!Take
  <1>4. CASE ResetCommitted(d)
    <2>1. /\ Tallied(r)
          /\ \A s \in Regions : s # r => (Tallied(s)' <=> Tallied(s))
      BY <1>0, <1>4 DEF ResetCommitted, Tallied, TypeOK
    <2>2. /\ UNCHANGED <<region_bit, total_entries>>
          /\ committed_entries' = [committed_entries EXCEPT ![r] = 0]
      BY <1>4 DEF ResetCommitted, tallies
    <2>3. Held' = Held
      BY <1>0, <2>1, <2>2 DEF Pending, TypeOK
    <2> QED  BY <1>1, <2>2, <2>3 DEF Log!vars
  <1>5. CASE \/ LoadBit(d) \/ SpinDone(d) \/ Tally(d) \/ LoadTotals(d)
             \/ ResetCursor(d) \/ ResetWriters(d)
    <2>1. /\ UNCHANGED <<region_bit, committed_entries, total_entries>>
          /\ \A s \in Regions : Tallied(s)' <=> Tallied(s)
      BY <1>0, <1>5
         DEF LoadBit, SpinDone, Tally, LoadTotals, ResetCursor, ResetWriters,
             shared, tallies, Tallied, TypeOK
    <2>2. Held' = Held
      BY <2>1 DEF Pending
    <2> QED  BY <1>1, <2>1, <2>2 DEF Log!vars
  <1> QED  BY <1>2, <1>3, <1>4, <1>5 DEF DrainCall

LEMMA LogInit == RefinementInit => Log!Init
  <1> SUFFICES ASSUME RefinementInit PROVE Log!Init
    OBVIOUS
  <1>1. Accepted = {} /\ uuidCounter = 0
    BY DEF RefinementInit, Init, Accepted
  <1>2. uuidCounter + Cardinality(Accepted) = 0
    BY <1>1, FS_EmptySet
  <1>3. [r \in Regions |-> Pending(r)] = [r \in {0, 1} |-> 0]
    BY DEF RefinementInit, Init, Pending
  <1> QED
    BY <1>2, <1>3 DEF RefinementInit, Init, Log!Init, Accepted

\* The three counters of a region and the six steps of a drain implement
\* RegionLog as long as no writer came in late and drains did not overlap: an
\* accepted entry stays in its region until a drain takes it, and a drain
\* takes the inactive region whole and adds exactly that to total_entries.
THEOREM Refines == RefinementSpec => IsRegionLog
  <1>1. ExactInv /\ [RefinementNext]_refinementVars => [Log!Next]_(Log!vars)
    <2> SUFFICES ASSUME ExactInv, [RefinementNext]_refinementVars
                 PROVE  [Log!Next]_(Log!vars)
      OBVIOUS
    <2>1. CASE UNCHANGED refinementVars
      <3>1. UNCHANGED <<region_bit, total_entries, uuidCounter, pc, exact,
                        committed_entries, dpc, old_region>>
        BY <2>1 DEF refinementVars, vars, shared, tallies, writerVars, drainVars
      <3>2. [r \in Regions |-> Pending(r)]' = [r \in Regions |-> Pending(r)]
        BY <3>1 DEF Pending, Tallied
      <3> QED  BY <3>1, <3>2 DEF Log!vars
    <2>2. CASE RefinementNext /\ ~exact'
      BY <2>2 DEF Log!Next
    <2>3. CASE RefinementNext /\ exact'
      <3>1. Next /\ exact /\ exact' = exact
        BY <2>3 DEF RefinementNext, ExactInv
      <3>2. ASSUME NEW w \in Writers, LoadRegion(w) \/ WriteCall(w)
            PROVE  [Log!Next]_(Log!vars)
        BY <2>3, <3>1, <3>2, LogWriter DEF Log!Next
      <3>3. ASSUME NEW d \in Drainers, LoadBit(d) \/ DrainCall(d)
            PROVE  [Log!Next]_(Log!vars)
        BY <2>3, <3>1, <3>3, LogDrainer DEF Log!Next
      <3> QED  BY <3>1, <3>2, <3>3 DEF Next
    <2> QED  BY <2>1, <2>2, <2>3
  <1> QED
    BY <1>1, LogInit, ExactInit, ExactNext, PTL
       DEF RefinementSpec, IsRegionLog, Log!Spec

-----------------------------------------------------------------------------
(* Who takes a step *)

ReadCall(k) == \/ CountRegion(k) \/ ReadCount(k) \/ EntryRegion(k)
               \/ CheckCommitted(k) \/ TakeSlice(k) \/ DropSlice(k)

\* A reader's step is no step of the regions, nor of a reservation.
LEMMA ReadStep ==
    ASSUME ReserveTypeOK, NEW k \in Readers, ReadCall(k), ReadWriteOrDrain
    PROVE  UNCHANGED <<vars, reserveVars>>
  <1>1. UNCHANGED vars
    BY DEF ReadCall, CountRegion, ReadCount, EntryRegion, CheckCommitted,
           TakeSlice, DropSlice
  <1>2. \A r \in Regions : ~Resets(r)
    BY <1>1 DEF Resets, vars, drainVars
  <1>3. spent' = spent /\ touched' = touched /\ kept' = kept
    BY <1>2 DEF ReadWriteOrDrain, ReserveTypeOK
  <1> QED  BY <1>1, <1>3 DEF ReadWriteOrDrain, reserveVars, reserverVars

LEMMA Steps ==
    ASSUME ReserveTypeOK, [ReserveNext]_allVars
    PROVE  \/ WriteOrDrain /\ ReadWriteOrDrain
           \/ \E k \in Readers : /\ ReadCall(k) \/ UNCHANGED readVars
                                 /\ UNCHANGED <<vars, reserveVars>>
           \/ \E t \in Reservers : ReserveCall(t)
           \/ UNCHANGED allVars
  <1>1. CASE ReadWriteOrDrain
    BY <1>1, ReadStep DEF ReadWriteOrDrain, ReadNext, ReadCall
  <1> QED  BY <1>1 DEF ReserveNext

-----------------------------------------------------------------------------
(* Type correctness *)

LEMMA ReserveTypeInit == ReserveInit => ReserveTypeOK
  <1> SUFFICES ASSUME ReserveInit PROVE ReserveTypeOK
    OBVIOUS
  <1>1. TypeOK
    BY TypeInit DEF ReserveInit, ReadInit
  <1>2. ReadTypeOK
    BY <1>1 DEF ReserveInit, ReadInit, ReadTypeOK
  <1>3. 0 \in Slots /\ 0 \in Regions /\ 0 \in 0 .. MaxReserves
    BY MaxSlotsAssumption, ReservesAssumption
  <1> QED  BY <1>2, <1>3 DEF ReserveInit, ReserveTypeOK

\* The bound on what reservations spend is kept by ReserveInv.
LEMMA ReadTypeStep ==
    ASSUME ReadTypeOK, NEW k \in Readers, ReadCall(k), UNCHANGED vars
    PROVE  ReadTypeOK'
  <1>1. TypeOK'
    BY TypeNext DEF ReadTypeOK
  <1>2. CASE Return(k)
    BY <1>1, <1>2 DEF Return, ReadTypeOK
  <1>3. CASE CountRegion(k) \/ EntryRegion(k)
    <2>1. region_bit \in Regions
      BY DEF ReadTypeOK, TypeOK
    <2> QED  BY <1>1, <1>3, <2>1 DEF CountRegion, EntryRegion, ReadTypeOK
  <1>4. CASE ReadCount(k) /\ ~Return(k)
    <2>1. committed_entries[rregion[k]] \in Nat \ {0}
      BY <1>4 DEF ReadCount, ReadTypeOK, TypeOK
    <2> QED  BY <1>1, <1>4, <2>1 DEF ReadCount, ReadTypeOK
  <1>5. CASE CheckCommitted(k) /\ ~Return(k)
    BY <1>1, <1>5 DEF CheckCommitted, ReadTypeOK
  <1>6. CASE TakeSlice(k) /\ ~Return(k)
    BY <1>1, <1>6 DEF TakeSlice, ReadTypeOK
  <1> QED
    BY <1>2, <1>3, <1>4, <1>5, <1>6 DEF ReadCall, DropSlice

LEMMA ReadTypeOther ==
    ASSUME ReadTypeOK, WriteOrDrain \/ UNCHANGED readPathVars
    PROVE  ReadTypeOK'
  <1>1. [Next]_vars
    BY DEF WriteOrDrain, readPathVars
  <1>2. TypeOK'
    BY <1>1, TypeNext DEF ReadTypeOK
  <1>3. UNCHANGED <<rpc, rregion, count>> /\ calm' \in [Readers -> BOOLEAN]
    BY DEF WriteOrDrain, readPathVars, readVars, ReadTypeOK
  <1> QED  BY <1>2, <1>3 DEF ReadTypeOK

LEMMA ReserveCallType ==
    ASSUME ReserveTypeOK, NEW t \in Reservers, ReserveCall(t)
    PROVE  TypeOK' /\ UNCHANGED <<readVars, writerVars, drainVars, late,
                        region_bit, committed_entries, active_writers>>
  <1>1. TypeOK /\ home[t] \in Regions /\ target[t] \in Regions /\ slot[t] \in Slots
    BY DEF ReserveTypeOK, ReadTypeOK
  <1>2. CASE Spend(t)
    BY <1>1, <1>2, IncDecType DEF Spend, TypeOK, tallies, writerVars, drainVars
  <1>3. CASE FillHeader(t) \/ FillPayload(t)
    <2>1. entries' \in [Regions -> [Slots -> SlotStates]]
      <3>1. CASE FillHeader(t)
        BY <1>1, <3>1 DEF FillHeader, TypeOK
      <3>2. CASE FillPayload(t)
        BY <1>1, <3>2 DEF FillPayload, TypeOK
      <3> QED  BY <1>3, <3>1, <3>2
    <2>2. UNCHANGED <<readVars, writerVars, drainVars, tallies, late, cursor,
                      region_bit, committed_entries, active_writers>>
      BY <1>3 DEF FillHeader, FillPayload
    <2> QED  BY <1>1, <2>1, <2>2 DEF TypeOK, tallies, writerVars, drainVars
  <1>4. CASE ReserveRegion(t) \/ FillRegion(t) \/ ReleaseSlot(t)
    <2>1. UNCHANGED vars /\ UNCHANGED readVars
      BY <1>4 DEF ReserveRegion, FillRegion, ReleaseSlot, readPathVars
    <2> QED  BY <1>1, <2>1, TypeNext DEF vars, shared
  <1> QED
    BY <1>2, <1>3, <1>4
       DEF ReserveCall, TakeReservation, ReservationFails, Spend, FillHeader,
           FillPayload

\* A call of ReserveSlot spends at most one increment of one cursor.
Budget(r) == /\ IsFiniteSet(Reserving(r))
             /\ spent[r] + Cardinality(Reserving(r)) <= reserves

LEMMA BudgetOther ==
    ASSUME ReserveTypeOK, NEW r \in Regions, Budget(r),
           Reserving(r)' = Reserving(r), reserves' >= reserves, reserves' \in Nat,
           spent'[r] = spent[r] \/ spent'[r] = 0
    PROVE  Budget(r)'
  <1>1. Cardinality(Reserving(r)) \in Nat /\ spent[r] \in Nat /\ reserves \in Nat
    BY FS_CardinalityType DEF Budget, ReserveTypeOK
  <1> QED  BY <1>1 DEF Budget

LEMMA BudgetCall ==
    ASSUME ReserveTypeOK, NEW r \in Regions, Budget(r),
           NEW t \in Reservers, ReserveCall(t)
    PROVE  Budget(r)'
  <1>0. /\ Cardinality(Reserving(r)) \in Nat /\ IsFiniteSet(Reserving(r))
        /\ spent[r] \in Nat /\ reserves \in Nat /\ region_bit \in Regions
    BY FS_CardinalityType DEF Budget, ReserveTypeOK, ReadTypeOK, TypeOK
  <1>1. CASE ReserveRegion(t) /\ region_bit = r
    <2>1. t \notin Reserving(r) /\ Reserving(r)' = Reserving(r) \cup {t}
      BY <1>1 DEF ReserveRegion, Reserving, ReserveTypeOK
    <2>2. /\ IsFiniteSet(Reserving(r)')
          /\ Cardinality(Reserving(r)') = Cardinality(Reserving(r)) + 1
      BY <1>0, <2>1, AddOne
    <2>3. spent' = spent /\ reserves' = reserves + 1
      BY <1>1 DEF ReserveRegion
    <2> QED  BY <1>0, <2>2, <2>3 DEF Budget
  <1>2. CASE Spend(t) /\ home[t] = r
             /\ (TakeReservation(t) \/ ReservationFails(t))
    <2>1. t \in Reserving(r) /\ Reserving(r)' = Reserving(r) \ {t}
      <3>1. t \in Reserving(r) /\ vpc'[t] # "reserve"
            /\ \A u \in Reservers \ {t} : vpc'[u] = vpc[u] /\ home'[u] = home[u]
        BY <1>2 DEF Spend, TakeReservation, ReservationFails, Reserving,
                    ReserveTypeOK
      <3> QED  BY <3>1 DEF Reserving
    <2>2. /\ IsFiniteSet(Reserving(r)')
          /\ Cardinality(Reserving(r)') = Cardinality(Reserving(r)) - 1
      BY <1>0, <2>1, RemoveOne
    <2>3. spent'[r] = spent[r] + 1 /\ reserves' = reserves
      BY <1>2 DEF Spend, ReserveTypeOK
    <2> QED  BY <1>0, <2>2, <2>3 DEF Budget
  <1>3. CASE ~(ReserveRegion(t) /\ region_bit = r)
             /\ ~(home[t] = r /\ (TakeReservation(t) \/ ReservationFails(t)))
    <2>1. /\ Reserving(r)' = Reserving(r) /\ spent'[r] = spent[r]
          /\ reserves' = reserves \/ reserves' = reserves + 1
      BY <1>3 DEF ReserveCall, ReserveRegion, TakeReservation,
                  ReservationFails, Spend, FillRegion, FillHeader,
                  FillPayload, ReleaseSlot, Reserving, ReserveTypeOK
    <2> QED  BY <1>0, <2>1, BudgetOther
  <1> QED  BY <1>1, <1>2, <1>3 DEF TakeReservation, ReservationFails

\* A call that has not yet spent its increment leaves room for it.
LEMMA SpentFits ==
    ASSUME ReserveTypeOK, NEW t \in Reservers, vpc[t] = "reserve",
           Budget(home[t])
    PROVE  spent[home[t]] + 1 <= MaxReserves
  <1>1. t \in Reserving(home[t]) /\ home[t] \in Regions
    BY DEF Reserving, ReserveTypeOK
  <1>2. /\ Cardinality(Reserving(home[t])) \in Nat
        /\ Cardinality(Reserving(home[t])) # 0
    BY <1>1, NoCard, FS_CardinalityType DEF Budget
  <1> QED
    BY <1>1, <1>2, ReservesAssumption DEF Budget, ReserveTypeOK

LEMMA ReserveTypeNext ==
    ASSUME ReserveTypeOK, \A r \in Regions : Budget(r), [ReserveNext]_allVars
    PROVE  ReserveTypeOK' /\ \A r \in Regions : Budget(r)'
  <1>1. CASE WriteOrDrain /\ ReadWriteOrDrain
    <2>1. ReadTypeOK'
      BY <1>1, ReadTypeOther DEF ReserveTypeOK
    <2>2. /\ kept' \in [Reservers -> BOOLEAN]
          /\ spent' \in [Regions -> 0 .. MaxReserves]
          /\ touched' \in [Regions -> SUBSET Slots]
          /\ \A r \in Regions : spent'[r] = spent[r] \/ spent'[r] = 0
      BY <1>1, ReservesAssumption DEF ReadWriteOrDrain, ReserveTypeOK
    <2>3. UNCHANGED <<vpc, home, slot, target, reserves>>
      BY <1>1 DEF ReadWriteOrDrain
    <2>4. reserves' >= reserves /\ reserves' \in Nat
      BY <2>3 DEF ReserveTypeOK
    <2>5. \A r \in Regions : Budget(r)'
      BY <2>2, <2>3, <2>4, BudgetOther DEF Reserving
    <2> QED  BY <2>1, <2>2, <2>3, <2>5 DEF ReserveTypeOK
  <1>2. CASE UNCHANGED reserveVars /\ ReadTypeOK'
    <2>1. UNCHANGED <<vpc, home, slot, target, reserves, kept, spent, touched>>
      BY <1>2 DEF reserveVars, reserverVars
    <2> QED  BY <1>2, <2>1 DEF ReserveTypeOK, Budget, Reserving
  <1>3. ASSUME NEW t \in Reservers, ReserveCall(t)
        PROVE  ReserveTypeOK' /\ \A r \in Regions : Budget(r)'
    <2>1. TypeOK' /\ UNCHANGED readVars
      BY <1>3, ReserveCallType
    <2>2. ReadTypeOK'
      BY <2>1 DEF ReserveTypeOK, ReadTypeOK, readVars
    <2>3. \A r \in Regions : Budget(r)'
      BY <1>3, BudgetCall
    <2>4. /\ home[t] \in Regions /\ spent[home[t]] \in 0 .. MaxReserves
          /\ region_bit \in Regions /\ cursor[home[t]] \in Cursors
          /\ 0 \in Slots /\ 0 \in Regions /\ MaxReserves \in Nat
          /\ MaxSlots \in Nat
      BY MaxSlotsAssumption, ReservesAssumption
         DEF ReserveTypeOK, ReadTypeOK, TypeOK
    <2>5. spent' \in [Regions -> 0 .. MaxReserves]
      <3>1. CASE TakeReservation(t) \/ ReservationFails(t)
        <4>1. spent[home[t]] + 1 <= MaxReserves
          BY <2>4, <3>1, SpentFits DEF TakeReservation, ReservationFails, Spend
        <4>2. spent' = [spent EXCEPT ![home[t]] = @ + 1]
          BY <3>1 DEF TakeReservation, ReservationFails, Spend
        <4> QED  BY <2>4, <4>1, <4>2 DEF ReserveTypeOK
      <3>2. CASE ~(TakeReservation(t) \/ ReservationFails(t))
        BY <1>3, <3>2
           DEF ReserveCall, ReserveRegion, FillRegion, FillHeader,
               FillPayload, ReleaseSlot, ReserveTypeOK
      <3> QED  BY <3>1, <3>2
    <2>6. CASE TakeReservation(t)
      <3>1. cursor[home[t]] \in Slots
        BY <2>4, <2>6 DEF TakeReservation
      <3> QED
        BY <2>2, <2>3, <2>5, <2>6, <3>1 DEF TakeReservation, Spend,
           ReserveTypeOK
    <2>7. CASE ReservationFails(t)
      BY <2>2, <2>3, <2>4, <2>5, <2>7 DEF ReservationFails, Spend, ReserveTypeOK
    <2>8. CASE ReserveRegion(t)
      <3>1. reserves' \in 0 .. MaxReserves
        BY <2>4, <2>8 DEF ReserveRegion, ReserveTypeOK
      <3> QED  BY <2>2, <2>3, <2>4, <2>5, <2>8, <3>1 DEF ReserveRegion,
                  ReserveTypeOK
    <2>9. CASE FillRegion(t)
      BY <2>2, <2>3, <2>4, <2>5, <2>9 DEF FillRegion, ReserveTypeOK
    <2>10. CASE FillHeader(t)
      BY <2>2, <2>3, <2>4, <2>5, <2>10 DEF FillHeader, ReserveTypeOK
    <2>11. CASE FillPayload(t)
      BY <2>2, <2>3, <2>4, <2>5, <2>11 DEF FillPayload, ReserveTypeOK
    <2>12. CASE ReleaseSlot(t)
      BY <2>2, <2>3, <2>4, <2>5, <2>12 DEF ReleaseSlot, ReserveTypeOK
    <2> QED  BY <1>3, <2>6, <2>7, <2>8, <2>9, <2>10, <2>11,
                <2>12 DEF ReserveCall
  <1>4. ASSUME NEW k \in Readers, ReadCall(k) \/ UNCHANGED readVars,
               UNCHANGED <<vars, reserveVars>>
        PROVE  ReadTypeOK'
    <2>1. CASE ReadCall(k)
      BY <1>4, <2>1, ReadTypeStep DEF ReserveTypeOK
    <2>2. CASE UNCHANGED readVars
      BY <1>4, <2>2, ReadTypeOther DEF ReserveTypeOK, readPathVars
    <2> QED  BY <1>4, <2>1, <2>2
  <1>5. CASE UNCHANGED allVars
    BY <1>2, <1>5, ReadTypeOther DEF allVars, ReserveTypeOK
  <1> QED  BY <1>1, <1>2, <1>3, <1>4, <1>5, Steps

-----------------------------------------------------------------------------
(* What is taken from a region, and by whom *)

Accounted(r) == CursorAccounted(r) /\ SlotsAccounted(r) /\ ReservationsHeld(r)

\* Everything Accounted says of a region is unchanged, or a reservation ended.
Untouched(r) ==
    /\ Still(r)
    /\ spent'[r] = spent[r] /\ touched'[r] = touched[r]
    /\ Reserved(r)' \subseteq Reserved(r)
    /\ \A t \in Reserved(r)' : slot'[t] = slot[t]

LEMMA UntouchedAccounted ==
    ASSUME NEW r \in Regions, Untouched(r), Accounted(r)
    PROVE  Accounted(r)'
  <1>1. Granted(r)' = Granted(r) /\ Taken(r)' = Taken(r)
    BY DEF Untouched, Still, Granted, Taken
  <1>2. CursorAccounted(r)'
    BY <1>1 DEF Untouched, Still, Accounted, CursorAccounted
  <1>3. SlotsAccounted(r)'
    BY <1>1 DEF Untouched, Still, Accounted, SlotsAccounted
  <1>4. ReservationsHeld(r)'
    BY <1>1 DEF Untouched, Still, Accounted, ReservationsHeld
  <1> QED  BY <1>2, <1>3, <1>4 DEF Accounted

\* The numbers of a region, and room in the cursor for one more increment.
LEMMA Numbers ==
    ASSUME ReserveTypeOK, NEW r \in Regions, CursorAccounted(r)
    PROVE  /\ committed_entries[r] \in Nat /\ spent[r] \in 0 .. MaxReserves
           /\ Cardinality(Uncommitted(r)) \in Nat /\ Granted(r) \in Nat
           /\ Granted(r) = committed_entries[r] + Cardinality(Uncommitted(r))
           /\ Cardinality(Undoing(r)) \in Nat /\ Taken(r) \in Nat
           /\ Cardinality(Undoing(r)) = 0 <=> Undoing(r) = {}
           /\ IsFiniteSet(Undoing(r)) /\ IsFiniteSet(Uncommitted(r))
           /\ MaxSlots \in Nat \ {0} /\ CursorMod \in Nat /\ MaxReserves \in Nat
           /\ cursor[r] \in Cursors /\ MaxSlots < CursorMod
           /\ Taken(r) <= spent[r] + MaxSlots
           /\ cursor[r] < MaxSlots => Undoing(r) = {} /\ cursor[r] = Taken(r)
  <1>1. committed_entries[r] \in Nat /\ spent[r] \in 0 .. MaxReserves
        /\ cursor[r] \in Cursors
    BY DEF ReserveTypeOK, ReadTypeOK, TypeOK
  <1>2. /\ Cardinality(Uncommitted(r)) \in Nat /\ Cardinality(Undoing(r)) \in Nat
        /\ Cardinality(Undoing(r)) = 0 <=> Undoing(r) = {}
        /\ IsFiniteSet(Undoing(r)) /\ IsFiniteSet(Uncommitted(r))
    BY Counts, NoCard
  <1>3. Cardinality(Writers) \in Nat
    BY WritersAssumption, FS_CardinalityType
  <1>4. /\ MaxSlots \in Nat \ {0} /\ CursorMod \in Nat /\ MaxReserves \in Nat
        /\ MaxSlots < CursorMod
    BY <1>3, MaxSlotsAssumption, CursorAssumption, ReservesAssumption
  <1>5. Granted(r) \in Nat /\ Granted(r) <= MaxSlots
        /\ Granted(r) = committed_entries[r] + Cardinality(Uncommitted(r))
    BY <1>1, <1>2 DEF Granted, CursorAccounted
  <1>6. Taken(r) \in Nat /\ Taken(r) <= spent[r] + MaxSlots
    BY <1>1, <1>4, <1>5 DEF Taken
  <1>7. cursor[r] < MaxSlots => Undoing(r) = {} /\ cursor[r] = Taken(r)
    BY <1>2, <1>4, <1>6 DEF CursorAccounted
  <1> QED  BY <1>1, <1>2, <1>4, <1>5, <1>6, <1>7

LEMMA TakeSlotAccounted ==
    ASSUME ReserveTypeOK, NEW w \in Writers, TakeSlot(w), ~Clearing(region[w]),
           Accounted(region[w]), UNCHANGED reserveVars
    PROVE  Accounted(region[w])'
  <1> DEFINE r == region[w]
  <1>0. TypeOK /\ r \in Regions /\ region'[w] = r
        /\ UNCHANGED <<spent, touched, kept, home, slot>>
    BY DEF ReserveTypeOK, ReadTypeOK, TypeOK, TakeSlot, reserveVars,
       reserverVars
  <1>1. /\ w \notin Uncommitted(r)
        /\ Uncommitted(r)' = Uncommitted(r) \cup {w}
        /\ Undoing(r)' = Undoing(r)
    BY <1>0 DEF TakeSlot, TypeOK, Uncommitted, Undoing
  <1>2. ~Clearing(r)'
    BY <1>0, WritersKeepClearing DEF TakeSlot
  <1>3. cursor[r] < MaxSlots /\ Undoing(r) = {} /\ cursor[r] = Taken(r)
        /\ Taken(r) = spent[r] + Granted(r)
    BY <1>0, Numbers DEF TakeSlot, Accounted, Taken
  <1>4. Granted(r)' = Granted(r) + 1
    <2>1. Cardinality(Uncommitted(r)') = Cardinality(Uncommitted(r)) + 1
      BY <1>0, <1>1, AddOne, Counts
    <2> QED  BY <1>0, <2>1, Numbers DEF TakeSlot, Granted, Accounted
  <1>5. Taken(r)' = Taken(r) + 1
    BY <1>0, <1>2, <1>3, <1>4, Numbers DEF Taken, Accounted
  <1>6. cursor'[r] = cursor[r] + 1
    <2>1. cursor'[r] = Inc(cursor[r])
      BY <1>0 DEF TakeSlot, TypeOK
    <2>2. cursor[r] \in Cursors /\ cursor[r] + 1 < CursorMod
          /\ CursorMod \in Nat
      <3>1. CursorAccounted(r)
        BY DEF Accounted
      <3>2. cursor[r] \in Cursors /\ CursorMod \in Nat /\ MaxSlots \in Nat
            /\ MaxSlots < CursorMod
        BY <1>0, <3>1, Numbers
      <3> QED  BY <1>3, <3>2 DEF Cursors
    <2> QED  BY <2>1, <2>2 DEF Inc, Cursors
  <1>7. CursorAccounted(r)'
    <2>1. Undoing(r)' = {} /\ Cardinality(Undoing(r)') = 0
      BY <1>0, <1>1, <1>3, Numbers DEF Accounted
    <2>2. cursor'[r] = Taken(r)' + Cardinality(Undoing(r)')
          /\ Granted(r)' <= MaxSlots
      BY <1>0, <1>3, <1>4, <1>5, <1>6, <2>1, Numbers DEF Accounted
    <2> QED  BY <1>0, <2>1, <2>2 DEF CursorAccounted
  <1>8. /\ idx'[w] = Taken(r) /\ pc'[w] = "header"
        /\ \A v \in Writers \ {w} : idx'[v] = idx[v] /\ pc'[v] = pc[v]
        /\ entries' = entries
    BY <1>0, <1>3 DEF TakeSlot, TypeOK
  <1>9. /\ \A v \in Uncommitted(r) : v \in Writers \ {w}
        /\ \A v \in Uncommitted(r) : idx[v] \in Nat /\ idx[v] < Taken(r)
        /\ Taken(r) \in Nat
    <2>1. Taken(r) \in Nat /\ CursorMod \in Nat
      BY <1>0, Numbers DEF Accounted
    <2>2. \A v \in Uncommitted(r) : v \in Writers \ {w} /\ idx[v] \in Cursors
      BY <1>0, <1>1 DEF Uncommitted, TypeOK
    <2> QED  BY <2>1, <2>2 DEF Accounted, SlotsAccounted
  <1>10. SlotsAccounted(r)'
    <2>1. \A v \in Uncommitted(r)' :
            /\ idx'[v] < Taken(r)'
            /\ pc'[v] = "commit" =>
                  entries'[r][idx'[v]] = "full" \/ idx'[v] \in touched'[r]
      BY <1>0, <1>1, <1>5, <1>8, <1>9 DEF Accounted, SlotsAccounted
    <2>2. \A u, v \in Uncommitted(r)' : idx'[u] = idx'[v] => u = v
      BY <1>1, <1>8, <1>9 DEF Accounted, SlotsAccounted
    <2>3. ASSUME NEW s \in Slots, s < Taken(r)', entries'[r][s] # "full",
                 s \notin touched'[r]
          PROVE  \E v \in Uncommitted(r)' : idx'[v] = s
      <3>1. CASE s = Taken(r)
        BY <3>1, <1>1, <1>8
      <3>2. CASE s < Taken(r)
        BY <2>3, <3>2, <1>0, <1>1, <1>8, <1>9 DEF Accounted, SlotsAccounted
      <3> QED  BY <2>3, <3>1, <3>2, <1>5, <1>9
    <2> QED  BY <1>0, <2>1, <2>2, <2>3 DEF SlotsAccounted
  <1>11. ReservationsHeld(r)'
    <2>1. Reserved(r)' = Reserved(r) /\ Reserved(r) \subseteq Reservers
      BY <1>0 DEF Reserved
    <2>2. \A t \in Reserved(r) : slot[t] \in Nat /\ slot[t] < Taken(r)
      BY <2>1 DEF Accounted, ReservationsHeld, ReserveTypeOK
    <2> QED
      BY <1>0, <1>1, <1>5, <1>8, <1>9, <2>1, <2>2
         DEF Accounted, ReservationsHeld
  <1> QED  BY <1>0, <1>7, <1>10, <1>11 DEF Accounted, TakeSlot

LEMMA TakeSlotFullAccounted ==
    ASSUME ReserveTypeOK, NEW w \in Writers, TakeSlotFull(w),
           ~Clearing(region[w]), Accounted(region[w]), UNCHANGED reserveVars
    PROVE  Accounted(region[w])'
  <1> DEFINE r == region[w]
  <1>0. TypeOK /\ r \in Regions /\ region' = region
        /\ UNCHANGED <<spent, touched, kept, home, slot>>
    BY DEF ReserveTypeOK, ReadTypeOK, TypeOK, TakeSlotFull, reserveVars,
           reserverVars
  <1>1. /\ w \notin Undoing(r)
        /\ Undoing(r)' = Undoing(r) \cup {w}
        /\ Uncommitted(r)' = Uncommitted(r)
    BY <1>0 DEF TakeSlotFull, TypeOK, Uncommitted, Undoing
  <1>2. ~Clearing(r)'
    BY <1>0, WritersKeepClearing DEF TakeSlotFull
  <1>3. Granted(r)' = Granted(r) /\ Taken(r)' = Taken(r)
    BY <1>0, <1>1, <1>2 DEF TakeSlotFull, Granted, Taken
  <1>4. Cardinality(Undoing(r)') = Cardinality(Undoing(r)) + 1
    BY <1>0, <1>1, AddOne, Counts
  <1>5. cursor'[r] = cursor[r] + 1
    <2>1. /\ Cardinality(Writers) \in Nat
          /\ Cardinality(Undoing(r)') <= Cardinality(Writers)
      <3>1. Undoing(r)' \subseteq Writers
        BY DEF Undoing
      <3> QED  BY <3>1, WritersAssumption, FS_Subset, FS_CardinalityType
    <2>2. cursor[r] = Taken(r) + Cardinality(Undoing(r))
      BY DEF Accounted, CursorAccounted
    <2>3. cursor[r] # CursorMod - 1
      BY <1>0, <1>4, <2>1, <2>2, Numbers, ReservesAssumption DEF Accounted
    <2> QED  BY <1>0, <2>3 DEF TakeSlotFull, TypeOK, Inc
  <1>6. CursorAccounted(r)'
    <2>1. Taken(r) >= MaxSlots
      BY <1>0, Numbers DEF Accounted, CursorAccounted, TakeSlotFull
    <2> QED
      BY <1>0, <1>3, <1>4, <1>5, <2>1, Numbers DEF Accounted, CursorAccounted
  <1>7. /\ idx' = idx /\ entries' = entries
        /\ \A v \in Uncommitted(r) : pc'[v] = pc[v]
        /\ Reserved(r)' = Reserved(r)
    BY <1>0 DEF TakeSlotFull, TypeOK, Uncommitted, Reserved
  <1>8. SlotsAccounted(r)' /\ ReservationsHeld(r)'
    BY <1>0, <1>1, <1>3, <1>7 DEF Accounted, SlotsAccounted, ReservationsHeld
  <1> QED  BY <1>0, <1>6, <1>8 DEF Accounted

LEMMA UndoSlotAccounted ==
    ASSUME ReserveTypeOK, NEW w \in Writers, UndoSlot(w),
           ~Clearing(region[w]), Accounted(region[w]), UNCHANGED reserveVars
    PROVE  Accounted(region[w])'
  <1> DEFINE r == region[w]
  <1>0. TypeOK /\ r \in Regions /\ region' = region
        /\ UNCHANGED <<spent, touched, kept, home, slot>>
    BY DEF ReserveTypeOK, ReadTypeOK, TypeOK, UndoSlot, reserveVars,
       reserverVars
  <1>1. /\ w \in Undoing(r)
        /\ Undoing(r)' = Undoing(r) \ {w}
        /\ Uncommitted(r)' = Uncommitted(r)
    BY <1>0 DEF UndoSlot, TypeOK, Uncommitted, Undoing
  <1>2. ~Clearing(r)'
    BY <1>0, WritersKeepClearing DEF UndoSlot
  <1>3. Granted(r)' = Granted(r) /\ Taken(r)' = Taken(r)
    BY <1>0, <1>1, <1>2 DEF UndoSlot, Granted, Taken
  <1>4. Cardinality(Undoing(r)') = Cardinality(Undoing(r)) - 1
    BY <1>0, <1>1, RemoveOne, Counts
  <1>5. Taken(r) >= MaxSlots /\ cursor[r] = Taken(r) + Cardinality(Undoing(r))
    BY <1>1 DEF Accounted, CursorAccounted
  <1>6. cursor'[r] = cursor[r] - 1
    <2>1. cursor[r] # 0
      BY <1>0, <1>5, Numbers DEF Accounted
    <2> QED  BY <1>0, <2>1 DEF UndoSlot, TypeOK, Dec
  <1>7. CursorAccounted(r)'
    BY <1>0, <1>3, <1>4, <1>5, <1>6, Numbers DEF Accounted, CursorAccounted
  <1>8. /\ idx' = idx /\ entries' = entries
        /\ \A v \in Uncommitted(r) : pc'[v] = pc[v]
        /\ Reserved(r)' = Reserved(r)
    BY <1>0 DEF UndoSlot, TypeOK, Uncommitted, Reserved
  <1>9. SlotsAccounted(r)' /\ ReservationsHeld(r)'
    BY <1>0, <1>1, <1>3, <1>8 DEF Accounted, SlotsAccounted, ReservationsHeld
  <1> QED  BY <1>0, <1>7, <1>9 DEF Accounted

\* One slot of a region is written, by the writer that has it or by a
\* reservation, which leaves its mark.
LEMMA SlotWritten ==
    ASSUME ReserveTypeOK, NEW r \in Regions, NEW i \in Slots, Accounted(r),
           Uncommitted(r)' = Uncommitted(r), Undoing(r)' = Undoing(r),
           Clearing(r)' = Clearing(r), cursor' = cursor, idx' = idx,
           committed_entries' = committed_entries, spent' = spent,
           touched[r] \subseteq touched'[r],
           Reserved(r)' = Reserved(r), slot' = slot,
           \A s \in Slots \ {i} : entries'[r][s] = entries[r][s],
           \/ i \in touched'[r]
           \/ \E w \in Uncommitted(r) :
                 idx[w] = i /\ (pc'[w] = "commit" => entries'[r][i] = "full"),
           \A w \in Uncommitted(r) :
              idx[w] # i => (pc'[w] = "commit" => pc[w] = "commit")
    PROVE  Accounted(r)'
  <1>1. Granted(r)' = Granted(r) /\ Taken(r)' = Taken(r)
    BY DEF Granted, Taken
  <1>2. CursorAccounted(r)' /\ ReservationsHeld(r)'
    BY <1>1 DEF Accounted, CursorAccounted, ReservationsHeld
  <1>3. \A w \in Uncommitted(r) : idx[w] \in Slots
    BY DEF Uncommitted, ReserveTypeOK, ReadTypeOK, TypeOK
  <1>4. \A w \in Uncommitted(r) : pc'[w] = "commit" =>
           entries'[r][idx[w]] = "full" \/ idx[w] \in touched'[r]
    <2> SUFFICES ASSUME NEW w \in Uncommitted(r), pc'[w] = "commit",
                        idx[w] \notin touched'[r]
                 PROVE  entries'[r][idx[w]] = "full"
      OBVIOUS
    <2>1. CASE idx[w] = i
      BY <2>1 DEF Accounted, SlotsAccounted
    <2>2. CASE idx[w] # i
      BY <1>3, <2>2 DEF Accounted, SlotsAccounted
    <2> QED  BY <2>1, <2>2
  <1>5. ASSUME NEW s \in Slots, s < Taken(r), entries'[r][s] # "full",
               s \notin touched'[r]
        PROVE  \E w \in Uncommitted(r) : idx[w] = s
    <2>1. CASE s = i
      BY <1>5, <2>1
    <2>2. CASE s # i
      BY <1>5, <2>2 DEF Accounted, SlotsAccounted
    <2> QED  BY <2>1, <2>2
  <1>6. SlotsAccounted(r)'
    BY <1>1, <1>4, <1>5 DEF Accounted, SlotsAccounted
  <1> QED  BY <1>2, <1>6 DEF Accounted

LEMMA FillAccounted ==
    ASSUME ReserveTypeOK, NEW w \in Writers, WriteHeader(w) \/ CopyPayload(w),
           Accounted(region[w]), UNCHANGED reserveVars
    PROVE  Accounted(region[w])'
  <1> DEFINE r == region[w]
  <1>0. TypeOK /\ r \in Regions /\ region' = region /\ idx[w] \in Slots
        /\ UNCHANGED <<spent, touched, kept, home, slot>>
    BY DEF ReserveTypeOK, ReadTypeOK, TypeOK, WriteHeader, CopyPayload,
           reserveVars, reserverVars
  <1>1. /\ UNCHANGED <<cursor, committed_entries, idx>>
        /\ \A v \in Writers \ {w} : pc'[v] = pc[v]
        /\ w \in Uncommitted(r)
    BY <1>0 DEF WriteHeader, CopyPayload, TypeOK, Uncommitted
  <1>2. /\ Uncommitted(r)' = Uncommitted(r) /\ Undoing(r)' = Undoing(r)
        /\ Clearing(r)' = Clearing(r) /\ Reserved(r)' = Reserved(r)
    <2>1. Clearing(r)' = Clearing(r)
      BY <1>0, WritersKeepClearing DEF WriteHeader, CopyPayload
    <2>2. Uncommitted(r)' = Uncommitted(r) /\ Undoing(r)' = Undoing(r)
      BY <1>0 DEF WriteHeader, CopyPayload, TypeOK, Uncommitted, Undoing
    <2> QED  BY <1>0, <2>1, <2>2 DEF Reserved
  <1>3. /\ \A s \in Slots \ {idx[w]} : entries'[r][s] = entries[r][s]
        /\ pc'[w] = "commit" => entries'[r][idx[w]] = "full"
    <2>1. CASE WriteHeader(w)
      <3>1. entries' = [entries EXCEPT ![r] = [@ EXCEPT ![idx[w]] = "header"]]
            /\ pc'[w] = "copy"
        BY <1>0, <2>1 DEF WriteHeader, TypeOK
      <3> QED  BY <1>0, <3>1 DEF TypeOK
    <2>2. CASE CopyPayload(w)
      <3>1. entries' = [entries EXCEPT ![r] = [@ EXCEPT ![idx[w]] = "full"]]
        BY <2>2 DEF CopyPayload
      <3> QED  BY <1>0, <3>1 DEF TypeOK
    <2> QED  BY <2>1, <2>2
  <1>4. \A v \in Uncommitted(r) :
           idx[v] # idx[w] => (pc'[v] = "commit" => pc[v] = "commit")
    BY <1>1 DEF Uncommitted
  <1>5. Accounted(r)'
    BY <1>0, <1>1, <1>2, <1>3, <1>4, SlotWritten
  <1> QED  BY <1>0, <1>5

LEMMA CommitAccounted ==
    ASSUME ReserveTypeOK, NEW w \in Writers, Commit(w), ~Clearing(region[w]),
           Accounted(region[w]), UNCHANGED reserveVars
    PROVE  Accounted(region[w])'
  <1> DEFINE r == region[w]
  <1>0. TypeOK /\ r \in Regions /\ region' = region /\ entries' = entries
        /\ cursor' = cursor /\ UNCHANGED <<spent, touched, kept, home, slot>>
    BY DEF ReserveTypeOK, ReadTypeOK, TypeOK, Commit, reserveVars, reserverVars
  <1>1. /\ w \in Uncommitted(r)
        /\ Uncommitted(r)' = Uncommitted(r) \ {w} /\ Undoing(r)' = Undoing(r)
    BY <1>0 DEF Commit, TypeOK, Uncommitted, Undoing
  <1>2. ~Clearing(r)'
    BY <1>0, WritersKeepClearing DEF Commit
  <1>3. Granted(r)' = Granted(r) /\ Taken(r)' = Taken(r)
    <2>1. Cardinality(Uncommitted(r)') = Cardinality(Uncommitted(r)) - 1
          /\ Cardinality(Uncommitted(r)) \in Nat
      BY <1>0, <1>1, Counts, RemoveOne
    <2>2. committed_entries'[r] = committed_entries[r] + 1
          /\ committed_entries[r] \in Nat
      BY <1>0 DEF Commit, TypeOK
    <2>3. Granted(r)' = Granted(r)
      BY <1>0, <2>1, <2>2 DEF Granted
    <2> QED  BY <1>0, <1>2, <2>3 DEF Taken
  <1>4. CursorAccounted(r)'
    BY <1>0, <1>1, <1>3 DEF Accounted, CursorAccounted
  <1>5. \A v \in Uncommitted(r)' : idx'[v] = idx[v] /\ pc'[v] = pc[v]
    BY <1>0, <1>1 DEF Commit, TypeOK, Uncommitted
  <1>6. entries[r][idx[w]] = "full" \/ idx[w] \in touched[r]
    BY <1>1 DEF Accounted, SlotsAccounted, Commit
  <1>7. SlotsAccounted(r)'
    <2>1. \A v \in Uncommitted(r)' :
            /\ idx'[v] < Taken(r)'
            /\ pc'[v] = "commit" =>
                 entries'[r][idx'[v]] = "full" \/ idx'[v] \in touched'[r]
      BY <1>0, <1>1, <1>3, <1>5 DEF Accounted, SlotsAccounted
    <2>2. \A s \in Slots :
             s < Taken(r)' /\ entries'[r][s] # "full" /\ s \notin touched'[r]
                => \E v \in Uncommitted(r)' : idx'[v] = s
      BY <1>0, <1>1, <1>3, <1>5, <1>6 DEF Accounted, SlotsAccounted
    <2>3. \A u, v \in Uncommitted(r)' : idx'[u] = idx'[v] => u = v
      BY <1>1, <1>5 DEF Accounted, SlotsAccounted
    <2> QED  BY <1>0, <2>1, <2>2, <2>3 DEF SlotsAccounted
  <1>8. ReservationsHeld(r)'
    <2>1. Reserved(r)' = Reserved(r)
      BY <1>0 DEF Reserved
    <2> QED  BY <1>0, <1>1, <1>3, <1>5, <2>1 DEF Accounted, ReservationsHeld
  <1> QED  BY <1>0, <1>4, <1>7, <1>8 DEF Accounted

\* The steps of a drain that do not clear the cursor of this region.
LEMMA DrainUntouched ==
    ASSUME ReserveTypeOK, NEW r \in Regions, NEW d \in Drainers,
           LoadBit(d) \/ DrainCall(d), ReadWriteOrDrain,
           ~(ResetCursor(d) /\ old_region[d] = r)
    PROVE  /\ spent'[r] = spent[r] /\ touched'[r] = touched[r]
           /\ Reserved(r)' = Reserved(r) /\ slot' = slot
  <1>1. TypeOK
    BY DEF ReserveTypeOK, ReadTypeOK
  <1>2. ~Resets(r)
    BY <1>1 DEF LoadBit, DrainCall, Flip, SpinDone, Tally, LoadTotals,
                StoreTotals, ResetCursor, ResetWriters, ResetCommitted, Resets,
                TypeOK
  <1>3. Reserved(r)' = Reserved(r)
    BY <1>2 DEF ReadWriteOrDrain, Reserved, ReserveTypeOK
  <1> QED  BY <1>2, <1>3 DEF ReadWriteOrDrain

LEMMA DrainAccounted ==
    ASSUME ReserveTypeOK, NEW r \in Regions, NEW d \in Drainers,
           LoadBit(d) \/ DrainCall(d), ReadWriteOrDrain,
           Sealed(r) => Holders(r) = {}, Accounted(r)
    PROVE  Accounted(r)'
  <1>0. TypeOK
    BY DEF ReserveTypeOK, ReadTypeOK
  <1>1. CASE LoadBit(d) \/ Flip(d) \/ SpinDone(d) \/ Tally(d) \/ LoadTotals(d)
             \/ StoreTotals(d) \/ ResetWriters(d)
    <2> USE <1>0, <1>1 DEF LoadBit, Flip, SpinDone, Tally, LoadTotals,
                     StoreTotals, ResetWriters, shared, writerVars
    <2>1. Clearing(r)' = Clearing(r)
      BY DEF Clearing, TypeOK
    <2>2. Uncommitted(r)' = Uncommitted(r) /\ Undoing(r)' = Undoing(r)
      BY DEF Uncommitted, Undoing
    <2>3. Still(r)
      BY <2>1, <2>2 DEF Still
    <2>4. ~ResetCursor(d)
      BY DEF ResetCursor
    <2> QED  BY <2>3, <2>4, DrainUntouched, UntouchedAccounted DEF Untouched
  <1>2. CASE (ResetCursor(d) \/ ResetCommitted(d)) /\ old_region[d] # r
    <2> USE <1>0, <1>2 DEF ResetCursor, ResetCommitted, writerVars
    <2>1. Clearing(r)' = Clearing(r)
      BY DEF Clearing, TypeOK
    <2>2. Uncommitted(r)' = Uncommitted(r) /\ Undoing(r)' = Undoing(r)
      BY DEF Uncommitted, Undoing
    <2>3. Still(r)
      BY <2>1, <2>2 DEF Still, TypeOK
    <2> QED  BY <2>3, DrainUntouched, UntouchedAccounted DEF Untouched
  <1>3. CASE (ResetCursor(d) \/ ResetCommitted(d)) /\ old_region[d] = r
    <2>1. Holders(r) = {}
      BY <1>3 DEF ResetCursor, ResetCommitted, Sealed
    <2>2. Uncommitted(r) = {} /\ Undoing(r) = {}
          /\ Uncommitted(r)' = {} /\ Undoing(r)' = {}
      BY <1>3, <2>1 DEF ResetCursor, ResetCommitted, writerVars, Holders,
                        Uncommitted, Undoing
    <2>3. /\ Cardinality(Uncommitted(r)) = 0 /\ Cardinality(Undoing(r)) = 0
          /\ Cardinality(Uncommitted(r)') = 0 /\ Cardinality(Undoing(r)') = 0
      BY <2>2, FS_EmptySet
    <2>4. /\ committed_entries[r] \in Nat /\ committed_entries[r] <= MaxSlots
          /\ spent[r] \in Nat /\ MaxSlots \in Nat \ {0}
      BY <2>3, Numbers DEF Accounted, CursorAccounted
    <2>5. CASE ResetCursor(d)
      <3>1. Clearing(r)' /\ cursor'[r] = 0
            /\ committed_entries' = committed_entries
        BY <1>0, <1>3, <2>5 DEF ResetCursor, Clearing, TypeOK
      <3>2. Resets(r)
        BY <1>0, <1>3, <2>5 DEF ResetCursor, Resets, TypeOK
      <3>3. spent'[r] = 0 /\ Reserved(r)' = {}
        BY <3>2 DEF ReadWriteOrDrain, Reserved
      <3>4. Taken(r)' = 0 /\ Granted(r)' = committed_entries[r]
        BY <2>3, <2>4, <3>1, <3>3 DEF Taken, Granted
      <3>5. CursorAccounted(r)'
        BY <2>2, <2>3, <2>4, <3>1, <3>4 DEF CursorAccounted
      <3> QED
        BY <2>2, <3>3, <3>4, <3>5 DEF Accounted, SlotsAccounted,
           ReservationsHeld
    <2>6. CASE ResetCommitted(d)
      <3>1. Clearing(r) /\ cursor' = cursor /\ entries' = entries
        BY <1>3, <2>6 DEF ResetCommitted, Clearing
      <3>2. ~ResetCursor(d)
        BY <2>6 DEF ResetCommitted, ResetCursor
      <3>3. Granted(r)' = 0
        BY <1>0, <1>3, <2>3, <2>6 DEF ResetCommitted, TypeOK, Granted
      <3>4. /\ spent'[r] = spent[r] /\ touched'[r] = touched[r]
            /\ Reserved(r)' = Reserved(r) /\ slot' = slot
        BY <3>2, DrainUntouched
      <3>5. Taken(r) = spent[r] /\ Taken(r)' = Taken(r)
        BY <2>4, <3>1, <3>3, <3>4 DEF Taken
      <3>6. CursorAccounted(r)'
        BY <2>2, <2>3, <2>4, <3>1, <3>3, <3>5 DEF Accounted, CursorAccounted
      <3>7. SlotsAccounted(r)' /\ ReservationsHeld(r)'
        BY <2>2, <3>1, <3>4, <3>5 DEF Accounted, SlotsAccounted,
           ReservationsHeld
      <3> QED  BY <3>6, <3>7 DEF Accounted
    <2> QED  BY <1>3, <2>5, <2>6
  <1> QED
    BY <1>1, <1>2, <1>3 DEF DrainCall

-----------------------------------------------------------------------------
(* The steps of a reserver *)

\* None of them is a step of a writer or of a drain.
LEMMA ReserverAside ==
    ASSUME ReserveTypeOK, NEW r \in Regions, NEW t \in Reservers, ReserveCall(t)
    PROVE  /\ Uncommitted(r)' = Uncommitted(r) /\ Undoing(r)' = Undoing(r)
           /\ Holders(r)' = Holders(r) /\ Sealed(r)' = Sealed(r)
           /\ Clearing(r)' = Clearing(r) /\ Granted(r)' = Granted(r)
           /\ TicketsExact(r)' = TicketsExact(r)
           /\ UNCHANGED <<pc, region, idx, committed_entries, active_writers>>
  <1>1. UNCHANGED <<pc, region, idx, committed_entries, active_writers,
                    dpc, old_region>>
    BY ReserveCallType DEF writerVars, drainVars
  <1>2. /\ Uncommitted(r)' = Uncommitted(r) /\ Undoing(r)' = Undoing(r)
        /\ Holders(r)' = Holders(r) /\ Sealed(r)' = Sealed(r)
        /\ Clearing(r)' = Clearing(r)
    BY <1>1 DEF Uncommitted, Undoing, Holders, Sealed, Clearing
  <1> QED  BY <1>1, <1>2 DEF Granted, TicketsExact

\* The fetch-and-add does not wrap.
LEMMA SpendCursor ==
    ASSUME ReserveTypeOK, NEW t \in Reservers, Spend(t),
           Budget(home[t]), CursorAccounted(home[t])
    PROVE  /\ cursor'[home[t]] = cursor[home[t]] + 1
           /\ spent'[home[t]] = spent[home[t]] + 1
  <1> DEFINE r == home[t]
  <1>1. r \in Regions /\ TypeOK
    BY DEF ReserveTypeOK, ReadTypeOK
  <1>2. spent[r] + 1 <= MaxReserves
    BY SpentFits DEF Spend
  <1>3. /\ Cardinality(Writers) \in Nat
        /\ Cardinality(Undoing(r)) <= Cardinality(Writers)
    <2>1. Undoing(r) \subseteq Writers
      BY DEF Undoing
    <2> QED  BY <2>1, WritersAssumption, FS_Subset, FS_CardinalityType
  <1>4. cursor[r] # CursorMod - 1
    BY <1>1, <1>2, <1>3, Numbers, ReservesAssumption DEF CursorAccounted
  <1> QED
    BY <1>1, <1>4 DEF Spend, ReserveTypeOK, TypeOK, Inc

LEMMA TakeReservationAccounted ==
    ASSUME ReserveTypeOK, NEW t \in Reservers, TakeReservation(t), ~kept[t],
           Budget(home[t]), Accounted(home[t])
    PROVE  /\ Accounted(home[t])'
           /\ home' = home
  <1> DEFINE r == home[t]
  <1>0. r \in Regions /\ TypeOK /\ ReserveCall(t) /\ home' = home
    BY DEF ReserveTypeOK, ReadTypeOK, ReserveCall, TakeReservation
  <1>1. cursor[r] < MaxSlots /\ Undoing(r) = {} /\ cursor[r] = Taken(r)
        /\ Taken(r) \in Nat
    BY <1>0, Numbers DEF TakeReservation, Accounted
  <1>2. cursor'[r] = cursor[r] + 1 /\ spent'[r] = spent[r] + 1
    BY SpendCursor DEF TakeReservation, Accounted
  <1>3. Taken(r)' = Taken(r) + 1
    BY <1>0, <1>2, ReserverAside, Numbers DEF Taken, Accounted
  <1>4. CursorAccounted(r)'
    <2>1. Cardinality(Undoing(r)) = 0
      BY <1>0, <1>1, Numbers DEF Accounted
    <2> QED
      BY <1>0, <1>1, <1>2, <1>3, <2>1, ReserverAside
         DEF Accounted, CursorAccounted
  <1>5. entries' = entries /\ touched'[r] = touched[r] \cup {Taken(r)}
    BY <1>0, <1>1 DEF TakeReservation, Spend, ReserveTypeOK
  <1>6. \A w \in Uncommitted(r) : idx[w] \in Nat /\ idx[w] < Taken(r)
    <2>1. \A w \in Uncommitted(r) : idx[w] \in Slots /\ MaxSlots \in Nat
      BY <1>0, MaxSlotsAssumption DEF Uncommitted, TypeOK
    <2> QED  BY <2>1 DEF Accounted, SlotsAccounted
  <1>7. SlotsAccounted(r)'
    <2>1. \A w \in Uncommitted(r)' :
            /\ idx'[w] < Taken(r)'
            /\ pc'[w] = "commit" =>
                 entries'[r][idx'[w]] = "full" \/ idx'[w] \in touched'[r]
      BY <1>0, <1>1, <1>3, <1>5, <1>6, ReserverAside
         DEF Accounted, SlotsAccounted
    <2>2. \A u, v \in Uncommitted(r)' : idx'[u] = idx'[v] => u = v
      BY <1>0, ReserverAside DEF Accounted, SlotsAccounted
    <2>3. \A s \in Slots :
             s < Taken(r)' /\ entries'[r][s] # "full" /\ s \notin touched'[r]
                => \E w \in Uncommitted(r)' : idx'[w] = s
      <3>1. \A s \in Slots : s < Taken(r)' /\ s \notin touched'[r] => s < Taken(r)
        BY <1>1, <1>3, <1>5
      <3> QED  BY <1>0, <1>5, <3>1, ReserverAside DEF Accounted, SlotsAccounted
    <2> QED  BY <1>0, <2>1, <2>2, <2>3 DEF SlotsAccounted
  <1>8. ReservationsHeld(r)'
    <2>1. /\ Reserved(r)' = Reserved(r) \cup {t} /\ t \notin Reserved(r)
          /\ slot'[t] = Taken(r)
          /\ \A u \in Reserved(r) : slot'[u] = slot[u]
      BY <1>0, <1>1 DEF TakeReservation, Spend, ReserveTypeOK, Reserved
    <2>2. \A u \in Reserved(r) : slot[u] \in Nat /\ slot[u] < Taken(r)
      BY DEF Accounted, ReservationsHeld, Reserved, ReserveTypeOK
    <2>3. \A u \in Reserved(r)' : slot'[u] < Taken(r)'
      BY <1>1, <1>3, <2>1, <2>2
    <2>4. \A u \in Reserved(r)', w \in Uncommitted(r)' : idx'[w] # slot'[u]
      BY <1>0, <1>1, <1>6, <2>1, ReserverAside DEF Accounted, ReservationsHeld
    <2>5. \A u, v \in Reserved(r)' : slot'[u] = slot'[v] => u = v
      BY <1>1, <2>1, <2>2 DEF Accounted, ReservationsHeld
    <2> QED  BY <1>0, <2>3, <2>4, <2>5 DEF ReservationsHeld
  <1> QED  BY <1>0, <1>4, <1>7, <1>8 DEF Accounted

LEMMA ReservationFailsAccounted ==
    ASSUME ReserveTypeOK, NEW r \in Regions, NEW t \in Reservers,
           ReservationFails(t), ~kept[t], home[t] = r, Budget(r), Accounted(r)
    PROVE  Accounted(r)'
  <1>0. TypeOK /\ ReserveCall(t)
    BY DEF ReserveTypeOK, ReadTypeOK, ReserveCall
  <1>1. cursor'[r] = cursor[r] + 1 /\ spent'[r] = spent[r] + 1
    BY SpendCursor DEF ReservationFails, Accounted
  <1>2. Taken(r)' = Taken(r) + 1
    BY <1>0, <1>1, ReserverAside, Numbers DEF Taken, Accounted
  <1>3. Taken(r) >= MaxSlots /\ Taken(r) \in Nat /\ MaxSlots \in Nat
    BY Numbers DEF ReservationFails, Accounted, CursorAccounted
  <1>4. CursorAccounted(r)'
    <2>1. Cardinality(Undoing(r)) \in Nat
      BY Numbers DEF Accounted
    <2> QED
      BY <1>0, <1>1, <1>2, <1>3, <2>1, ReserverAside
         DEF Accounted, CursorAccounted
  <1>5. /\ entries' = entries /\ touched' = touched /\ slot' = slot
        /\ Reserved(r)' = Reserved(r)
    BY DEF ReservationFails, Spend, ReserveTypeOK, Reserved
  <1>6. \A w \in Uncommitted(r) : idx[w] \in Nat
    BY <1>0, <1>3 DEF Uncommitted, TypeOK
  <1>7. SlotsAccounted(r)'
    <2>1. \A w \in Uncommitted(r) : idx[w] < Taken(r)'
      BY <1>2, <1>3, <1>6 DEF Accounted, SlotsAccounted
    <2>2. \A s \in Slots : s < Taken(r)
      BY <1>3
    <2> QED
      BY <1>0, <1>5, <2>1, <2>2, ReserverAside DEF Accounted, SlotsAccounted
  <1>8. ReservationsHeld(r)'
    <2>1. \A u \in Reserved(r) : slot[u] < Taken(r)'
      <3>1. \A u \in Reserved(r) : slot[u] \in Nat /\ slot[u] < Taken(r)
        BY DEF Accounted, ReservationsHeld, Reserved, ReserveTypeOK
      <3> QED  BY <1>2, <1>3, <3>1
    <2> QED
      BY <1>0, <1>5, <2>1, ReserverAside DEF Accounted, ReservationsHeld
  <1> QED  BY <1>4, <1>7, <1>8 DEF Accounted

LEMMA ReserverAccounted ==
    ASSUME ReserveTypeOK, NEW r \in Regions, NEW t \in Reservers,
           ReserveCall(t), Budget(r), Accounted(r),
           kept[t] => vpc[t] \in {"reserved", "fill", "copy"}
    PROVE  Accounted(r)'
  <1>0. TypeOK /\ home[t] \in Regions /\ target[t] \in Regions
        /\ slot[t] \in Slots
    BY DEF ReserveTypeOK, ReadTypeOK
  <1>s. ASSUME cursor'[r] = cursor[r], entries'[r] = entries[r]
        PROVE  Still(r)
    BY <1>s, ReserverAside DEF Still
  <1>1. CASE (TakeReservation(t) \/ ReservationFails(t)) /\ home[t] = r
    <2>1. ~kept[t]
      BY <1>1 DEF TakeReservation, ReservationFails, Spend
    <2> QED
      BY <1>1, <2>1, TakeReservationAccounted, ReservationFailsAccounted
  <1>2. CASE (TakeReservation(t) \/ ReservationFails(t)) /\ home[t] # r
    <2>1. ~kept[t]
      BY <1>2 DEF TakeReservation, ReservationFails, Spend
    <2>2. cursor'[r] = cursor[r] /\ entries' = entries
      BY <1>0, <1>2 DEF TakeReservation, ReservationFails, Spend, TypeOK
    <2>3. /\ spent'[r] = spent[r] /\ touched'[r] = touched[r]
          /\ Reserved(r)' = Reserved(r)
          /\ \A u \in Reserved(r) : slot'[u] = slot[u]
      BY <1>0, <1>2, <2>1
         DEF TakeReservation, ReservationFails, Spend, ReserveTypeOK, Reserved
    <2> QED  BY <1>s, <2>2, <2>3, UntouchedAccounted DEF Untouched
  <1>3. CASE ReserveRegion(t) \/ FillRegion(t) \/ ReleaseSlot(t)
    <2>1. cursor' = cursor /\ entries' = entries
          /\ spent' = spent /\ touched' = touched
      BY <1>3 DEF ReserveRegion, FillRegion, ReleaseSlot, readPathVars, vars,
                  shared
    <2>2. /\ Reserved(r)' \subseteq Reserved(r)
          /\ \A u \in Reserved(r)' : slot'[u] = slot[u]
      <3>1. CASE ReserveRegion(t)
        <4>1. ~kept[t]
          BY <3>1 DEF ReserveRegion
        <4> QED  BY <3>1, <4>1 DEF ReserveRegion, ReserveTypeOK, Reserved
      <3>2. CASE FillRegion(t)
        BY <3>2 DEF FillRegion, Reserved
      <3>3. CASE ReleaseSlot(t)
        BY <3>3 DEF ReleaseSlot, ReserveTypeOK, Reserved
      <3> QED  BY <1>3, <3>1, <3>2, <3>3
    <2> QED  BY <1>s, <2>1, <2>2, UntouchedAccounted DEF Untouched
  <1>4. CASE FillHeader(t) \/ FillPayload(t)
    <2>1. /\ UNCHANGED <<cursor, home, slot, kept, spent>>
          /\ Reserved(r)' = Reserved(r)
      BY <1>4 DEF FillHeader, FillPayload, Reserved
    <2>2. CASE target[t] # r
      <3>1. entries'[r] = entries[r] /\ touched'[r] = touched[r]
        BY <1>0, <1>4, <2>2 DEF FillHeader, FillPayload, ReserveTypeOK, TypeOK
      <3> QED  BY <1>s, <2>1, <3>1, UntouchedAccounted DEF Untouched
    <2>3. CASE target[t] = r
      <3>1. touched'[r] = touched[r] \cup {slot[t]}
        BY <1>0, <1>4, <2>3 DEF FillHeader, FillPayload, ReserveTypeOK
      <3>2. \A s \in Slots \ {slot[t]} : entries'[r][s] = entries[r][s]
        <4>1. CASE FillHeader(t)
          <5>1. entries' = [entries EXCEPT ![r] = [@ EXCEPT ![slot[t]] = "header"]]
            BY <2>3, <4>1 DEF FillHeader
          <5> QED  BY <1>0, <5>1 DEF TypeOK
        <4>2. CASE FillPayload(t)
          <5>1. entries' = [entries EXCEPT ![r] = [@ EXCEPT ![slot[t]] = "full"]]
            BY <2>3, <4>2 DEF FillPayload
          <5> QED  BY <1>0, <5>1 DEF TypeOK
        <4> QED  BY <1>4, <4>1, <4>2
      <3> QED
        BY <1>0, <2>1, <3>1, <3>2, ReserverAside, SlotWritten
    <2> QED  BY <2>2, <2>3
  <1> QED  BY <1>1, <1>2, <1>3, <1>4 DEF ReserveCall

-----------------------------------------------------------------------------
(* The regions, every step *)

LEMMA LateStays == ASSUME Next, late PROVE late'
  BY Zenon
     DEF Next, WriteCall, DrainCall, LoadRegion, TakeTicket, TakeSlot,
         TakeSlotFull, UndoSlot, Reject, WriteHeader, CopyPayload,
         Commit, Leave, AssignUuid, LoadBit, Flip, SpinDone, Tally,
         LoadTotals, StoreTotals, ResetCursor, ResetWriters, ResetCommitted

\* A step of a writer is no reset.
LEMMA WriterAside ==
    ASSUME ReserveTypeOK, NEW w \in Writers, LoadRegion(w) \/ WriteCall(w),
           ReadWriteOrDrain
    PROVE  UNCHANGED reserveVars
  <1>1. UNCHANGED drainVars
    BY DEF LoadRegion, WriteCall, TakeTicket, TakeSlot, TakeSlotFull,
           UndoSlot, Reject, WriteHeader, CopyPayload, Commit, Leave, AssignUuid
  <1>2. \A r \in Regions : ~Resets(r)
    BY <1>1 DEF Resets, drainVars
  <1>3. spent' = spent /\ touched' = touched /\ kept' = kept
    BY <1>2 DEF ReadWriteOrDrain, ReserveTypeOK
  <1> QED  BY <1>3 DEF ReadWriteOrDrain, reserveVars, reserverVars

LEMMA WriterAccounted ==
    ASSUME ReserveTypeOK, NEW r \in Regions, NEW w \in Writers,
           LoadRegion(w) \/ WriteCall(w), ReadWriteOrDrain,
           Sealed(r) => Holders(r) = {}, Accounted(r)
    PROVE  Accounted(r)'
  <1>1. UNCHANGED reserveVars /\ TypeOK
    BY WriterAside DEF ReserveTypeOK, ReadTypeOK
  <1>2. ASSUME Still(r) PROVE Accounted(r)'
    <2>1. Untouched(r)
      BY <1>1, <1>2 DEF Untouched, reserveVars, reserverVars, Reserved
    <2> QED  BY <2>1, UntouchedAccounted
  <1>3. CASE \/ LoadRegion(w) \/ TakeTicket(w) \/ Reject(w) \/ Leave(w)
             \/ AssignUuid(w)
    BY <1>1, <1>2, <1>3, TicketOnly
  <1>4. CASE \/ TakeSlot(w) \/ TakeSlotFull(w) \/ UndoSlot(w)
             \/ WriteHeader(w) \/ CopyPayload(w) \/ Commit(w)
    <2>1. CASE region[w] # r
      BY <1>1, <1>2, <1>4, <2>1, OtherRegion
    <2>2. CASE region[w] = r
      <3>1. region' = region /\ pc[w] \in InRegion
        BY <1>4 DEF TakeSlot, TakeSlotFull, UndoSlot, WriteHeader,
                    CopyPayload, Commit
      <3>2. ~Clearing(region[w])
        BY <2>2, <3>1, InsideNotClearing
      <3>3. Accounted(region[w])'
        BY <1>1, <1>4, <2>2, <3>2, TakeSlotAccounted, TakeSlotFullAccounted,
           UndoSlotAccounted, FillAccounted, CommitAccounted
      <3> QED  BY <2>2, <3>1, <3>3
    <2> QED  BY <2>1, <2>2
  <1> QED  BY <1>3, <1>4 DEF WriteCall

LEMMA RegionStep ==
    ASSUME ReserveInv, [ReserveNext]_allVars, ~late', NEW r \in Regions
    PROVE  ~late /\ RegionInv(r)'
  <1>0. /\ ReserveTypeOK /\ TypeOK /\ Budget(r)
        /\ \A t \in Reservers : kept[t] => vpc[t] \in {"reserved", "fill", "copy"}
        /\ ~late => /\ TicketsExact(r) /\ Accounted(r)
                    /\ Sealed(r) => Holders(r) = {}
    BY DEF ReserveInv, ReserveTypeOK, ReadTypeOK, Budget, RegionInv, Accounted
  <1>1. CASE WriteOrDrain /\ ReadWriteOrDrain
    <2>1. ~late /\ Next
      BY <1>1, LateStays DEF WriteOrDrain
    <2>2. TicketsExact(r)' /\ (Sealed(r)' => Holders(r)' = {})
      BY <1>0, <2>1, TicketsStep
    <2>3. Accounted(r)'
      BY <1>0, <1>1, <2>1, WriterAccounted, DrainAccounted DEF Next
    <2> QED  BY <2>1, <2>2, <2>3 DEF RegionInv, Accounted
  <1>2. CASE UNCHANGED <<vars, reserveVars>>
    <2>1. UNCHANGED <<shared, writerVars, drainVars, late, spent, touched,
                      kept, home, slot>>
      BY <1>2 DEF vars, reserveVars, reserverVars
    <2>2. /\ Holders(r)' = Holders(r) /\ Uncommitted(r)' = Uncommitted(r)
          /\ Undoing(r)' = Undoing(r) /\ Sealed(r)' = Sealed(r)
          /\ Clearing(r)' = Clearing(r) /\ Reserved(r)' = Reserved(r)
      BY <2>1 DEF Holders, Uncommitted, Undoing, Sealed, Clearing, Reserved,
                  writerVars, drainVars
    <2>3. Untouched(r)
      BY <2>1, <2>2 DEF Untouched, Still, shared, writerVars
    <2>4. TicketsExact(r)' = TicketsExact(r)
      BY <2>1, <2>2 DEF TicketsExact, shared
    <2>5. ~late
      BY <2>1
    <2> QED
      BY <1>0, <2>2, <2>3, <2>4, <2>5, UntouchedAccounted DEF RegionInv,
         Accounted
  <1>3. ASSUME NEW t \in Reservers, ReserveCall(t)
        PROVE  ~late /\ RegionInv(r)'
    <2>1. ~late
      BY <1>0, <1>3, ReserveCallType
    <2>2. Accounted(r)'
      BY <1>0, <1>3, <2>1, ReserverAccounted
    <2> QED
      BY <1>0, <1>3, <2>1, <2>2, ReserverAside DEF RegionInv, Accounted
  <1>4. CASE UNCHANGED allVars
    BY <1>2, <1>4 DEF allVars, readPathVars
  <1> QED  BY <1>0, <1>1, <1>2, <1>3, <1>4, Steps

-----------------------------------------------------------------------------
(* The readers, every step *)

\* What a write or a drain does to the entry of a calm reader: nothing.
LEMMA CalmStep ==
    ASSUME ReserveInv, WriteOrDrain, ~late, NEW k \in Readers,
           ReaderInside(k), rpc[k] \in Reading, calm'[k]
    PROVE  /\ ~Clearing(rregion[k])'
           /\ count[k] <= committed_entries'[rregion[k]]
           /\ \A w \in Uncommitted(rregion[k])' : idx'[w] # count[k] - 1
  <1> DEFINE r == rregion[k]
  <1>0. /\ ReserveTypeOK /\ TypeOK /\ r \in Regions /\ count[k] \in Nat
        /\ Accounted(r) /\ calm[k]
        /\ rregion' = rregion
        /\ Next
        /\ ~\E d \in Drainers : dpc[d] = "resetCursor" /\ dpc'[d] # dpc[d]
                                  /\ old_region[d] = r
    BY DEF ReserveInv, ReserveTypeOK, ReadTypeOK, RegionInv, Accounted,
           WriteOrDrain
  <1>1. /\ ~Clearing(r) /\ count[k] <= committed_entries[r]
        /\ \A w \in Uncommitted(r) : idx[w] # count[k] - 1
    BY <1>0 DEF ReaderInside
  <1>2. committed_entries[r] \in Nat
        /\ committed_entries[r] <= Granted(r) /\ Granted(r) <= Taken(r)
    <2>1. /\ Taken(r) = spent[r] + Granted(r)
          /\ Granted(r) = committed_entries[r] + Cardinality(Uncommitted(r))
      BY <1>0, <1>1, Numbers DEF Taken, Accounted
    <2> QED  BY <1>0, <2>1, Numbers DEF Accounted
  <1>3. ASSUME NEW w \in Writers, LoadRegion(w) \/ WriteCall(w)
        PROVE  /\ ~Clearing(r)'
               /\ count[k] <= committed_entries'[r]
               /\ \A v \in Uncommitted(r)' : idx'[v] # count[k] - 1
    <2>1. ~Clearing(r)'
      <3>1. UNCHANGED drainVars
        BY <1>3 DEF LoadRegion, WriteCall, TakeTicket, TakeSlot, TakeSlotFull,
                    UndoSlot, Reject, WriteHeader, CopyPayload, Commit, Leave,
                    AssignUuid
      <3> QED  BY <1>0, <1>1, <3>1, WritersKeepClearing
    <2>2. CASE TakeSlot(w) /\ region[w] = r
      <3>1. cursor[r] = Taken(r)
        BY <1>0, <2>2, Numbers DEF TakeSlot, Accounted
      <3>2. idx'[w] = cursor[r] /\ Uncommitted(r)' = Uncommitted(r) \cup {w}
            /\ w \notin Uncommitted(r)
            /\ committed_entries' = committed_entries
            /\ \A v \in Writers \ {w} : idx'[v] = idx[v]
        BY <1>0, <2>2 DEF TakeSlot, TypeOK, Uncommitted
      <3>3. idx'[w] # count[k] - 1
        BY <1>0, <1>1, <1>2, <3>1, <3>2, Numbers DEF Accounted
      <3>4. \A v \in Uncommitted(r) : idx'[v] = idx[v]
        BY <3>2 DEF Uncommitted
      <3> QED  BY <1>1, <2>1, <3>2, <3>3, <3>4
    <2>3. CASE ~(TakeSlot(w) /\ region[w] = r)
      <3>1. /\ Uncommitted(r)' \subseteq Uncommitted(r)
            /\ \A v \in Uncommitted(r)' : idx'[v] = idx[v]
        BY <1>0, <1>3, <2>3
           DEF LoadRegion, WriteCall, TakeTicket, TakeSlot, TakeSlotFull,
               UndoSlot, Reject, WriteHeader, CopyPayload, Commit, Leave,
               AssignUuid, TypeOK, Uncommitted
      <3>2. committed_entries'[r] >= committed_entries[r]
            /\ committed_entries'[r] \in Nat
        <4>1. CASE Commit(w)
          BY <1>0, <1>2, <4>1 DEF Commit, TypeOK
        <4>2. CASE ~Commit(w)
          <5>1. committed_entries' = committed_entries
            BY <1>3, <4>2
               DEF LoadRegion, WriteCall, TakeTicket, TakeSlot, TakeSlotFull,
                   UndoSlot, Reject, WriteHeader, CopyPayload, Leave,
                   AssignUuid, shared
          <5> QED  BY <1>0, <1>2, <5>1
        <4> QED  BY <4>1, <4>2
      <3> QED  BY <1>0, <1>1, <1>2, <2>1, <3>1, <3>2
    <2> QED  BY <2>2, <2>3
  <1>4. ASSUME NEW d \in Drainers, LoadBit(d) \/ DrainCall(d)
        PROVE  /\ ~Clearing(r)'
               /\ count[k] <= committed_entries'[r]
               /\ \A v \in Uncommitted(r)' : idx'[v] # count[k] - 1
    <2>1. Uncommitted(r)' = Uncommitted(r) /\ idx' = idx
      BY <1>0, <1>4 DEF LoadBit, DrainCall, Flip, SpinDone, Tally, LoadTotals,
                  StoreTotals, ResetCursor, ResetWriters, ResetCommitted,
                  writerVars, Uncommitted
    <2>2. ~(ResetCursor(d) /\ old_region[d] = r)
      BY <1>0 DEF ResetCursor, TypeOK
    <2>3. ~Clearing(r)'
      <3>1. CASE ResetCursor(d)
        BY <1>0, <1>1, <2>2, <3>1 DEF ResetCursor, Clearing, TypeOK
      <3>2. CASE ResetWriters(d)
        BY <1>0, <1>1, <3>2 DEF ResetWriters, Clearing, TypeOK
      <3>3. CASE ResetCommitted(d)
        BY <1>0, <1>1, <3>3 DEF ResetCommitted, Clearing, TypeOK
      <3>4. CASE LoadBit(d) \/ Flip(d) \/ SpinDone(d)
        BY <1>0, <1>1, <3>4 DEF LoadBit, Flip, SpinDone, Clearing, TypeOK
      <3>5. CASE Tally(d) \/ LoadTotals(d) \/ StoreTotals(d)
        BY <1>0, <1>1, <3>5
           DEF Tally, LoadTotals, StoreTotals, Clearing, TypeOK
      <3> QED  BY <1>4, <3>1, <3>2, <3>3, <3>4, <3>5 DEF DrainCall
    <2>4. ~(ResetCommitted(d) /\ old_region[d] = r)
      BY <1>1 DEF ResetCommitted, Clearing
    <2>5. committed_entries'[r] = committed_entries[r]
      BY <1>0, <1>4, <2>4
         DEF LoadBit, DrainCall, Flip, SpinDone, Tally, LoadTotals,
             StoreTotals, ResetCursor, ResetWriters, ResetCommitted, shared,
             TypeOK
    <2> QED  BY <1>1, <2>1, <2>3, <2>5
  <1> QED  BY <1>0, <1>3, <1>4 DEF Next

LEMMA ReadCallInside ==
    ASSUME ReserveInv, ~late, NEW k \in Readers, ReadCall(k),
           UNCHANGED vars, NEW j \in Readers
    PROVE  ReaderInside(j)'
  <1>0. /\ ReserveTypeOK /\ ReadTypeOK /\ TypeOK /\ ReaderInside(j)
        /\ ReaderInside(k) /\ rregion[k] \in Regions /\ rregion[j] \in Regions
        /\ \A r \in Regions : Accounted(r)
    BY DEF ReserveInv, ReserveTypeOK, ReadTypeOK, RegionInv, Accounted
  <1>1. UNCHANGED <<pc, region, idx, dpc, old_region, committed_entries>>
    BY DEF vars, shared, writerVars, drainVars
  <1>2. \A r \in Regions : /\ Clearing(r)' = Clearing(r)
                           /\ Uncommitted(r)' = Uncommitted(r)
    BY <1>1 DEF Clearing, Uncommitted
  <1>3. CASE j # k
    <2>1. /\ rpc'[j] = rpc[j] /\ rregion'[j] = rregion[j]
          /\ count'[j] = count[j] /\ calm'[j] = calm[j]
      BY <1>0, <1>3 DEF ReadCall, CountRegion, ReadCount, EntryRegion,
                        CheckCommitted, TakeSlice, DropSlice, Return, ReadTypeOK
    <2> QED  BY <1>0, <1>1, <1>2, <2>1 DEF ReaderInside
  <1>4. CASE j = k
    <2>1. CASE Return(k)
      BY <1>0, <1>4, <2>1, MaxSlotsAssumption
         DEF Return, ReaderInside, ReadTypeOK
    <2>2. CASE CountRegion(k) \/ EntryRegion(k)
      BY <1>0, <1>4, <2>2 DEF CountRegion, EntryRegion, ReaderInside, ReadTypeOK
    <2>3. CASE ReadCount(k) /\ ~Return(k)
      <3>1. committed_entries[rregion[k]] <= MaxSlots
        <4>1. /\ Granted(rregion[k]) = committed_entries[rregion[k]]
                      + Cardinality(Uncommitted(rregion[k]))
              /\ Granted(rregion[k]) <= MaxSlots
          BY <1>0, Numbers DEF Accounted, CursorAccounted
        <4> QED  BY <1>0, <4>1, Numbers DEF Accounted
      <3> QED  BY <1>0, <1>4, <2>3, <3>1 DEF ReadCount, ReaderInside, ReadTypeOK
    <2>4. CASE CheckCommitted(k) /\ ~Return(k)
      <3>1. /\ ~(count[k] - 1 >= committed_entries[rregion[k]])
            /\ rpc'[k] = "slice" /\ count' = count /\ rregion' = rregion
            /\ calm'[k] <=> /\ Uncommitted(rregion[k]) = {}
                            /\ ~Clearing(rregion[k])
        BY <1>0, <2>4 DEF CheckCommitted, ReadTypeOK, ReaderInside
      <3>2. count[k] <= committed_entries[rregion[k]]
        BY <1>0, <3>1 DEF ReadTypeOK, TypeOK
      <3> QED
        BY <1>0, <1>1, <1>2, <1>4, <3>1, <3>2 DEF ReaderInside
    <2>5. CASE TakeSlice(k) /\ ~Return(k)
      <3>1. /\ rpc[k] \in Reading /\ rpc'[k] = "holding"
            /\ rregion' = rregion /\ count' = count /\ calm' = calm
        BY <1>0, <2>5 DEF TakeSlice, ReadTypeOK
      <3> QED  BY <1>0, <1>1, <1>2, <1>4, <3>1 DEF ReaderInside
    <2> QED
      BY <2>1, <2>2, <2>3, <2>4, <2>5 DEF ReadCall, DropSlice
  <1> QED  BY <1>3, <1>4

LEMMA ReaderStep ==
    ASSUME ReserveInv, [ReserveNext]_allVars, ~late', NEW j \in Readers
    PROVE  ReaderInside(j)'
  <1>0. /\ ReserveTypeOK /\ ReadTypeOK /\ ~late /\ ReaderInside(j)
        /\ rregion[j] \in Regions
    BY RegionStep DEF ReserveInv, ReserveTypeOK, ReadTypeOK
  <1>1. CASE WriteOrDrain
    <2>1. UNCHANGED <<rpc, rregion, count>>
      BY <1>1 DEF WriteOrDrain
    <2> QED  BY <1>0, <1>1, <2>1, CalmStep DEF ReaderInside
  <1>2. ASSUME NEW k \in Readers, ReadCall(k), UNCHANGED vars
        PROVE  ReaderInside(j)'
    BY <1>0, <1>2, ReadCallInside
  <1>3. CASE UNCHANGED readVars /\ UNCHANGED vars
    <2>1. UNCHANGED <<rpc, rregion, count, calm, pc, region, idx, dpc,
                      old_region, committed_entries>>
      BY <1>3 DEF readVars, vars, shared, writerVars, drainVars
    <2>2. Clearing(rregion[j])' = Clearing(rregion[j])
          /\ Uncommitted(rregion[j])' = Uncommitted(rregion[j])
      BY <2>1 DEF Clearing, Uncommitted
    <2> QED  BY <1>0, <2>1, <2>2 DEF ReaderInside
  <1>4. ASSUME NEW t \in Reservers, ReserveCall(t)
        PROVE  ReaderInside(j)'
    <2>1. UNCHANGED <<rpc, rregion, count, calm>>
      BY <1>0, <1>4, ReserveCallType DEF readVars
    <2> QED  BY <1>0, <1>4, <2>1, ReserverAside DEF ReaderInside
  <1> QED
    BY <1>0, <1>1, <1>2, <1>3, <1>4, Steps DEF allVars, readPathVars

-----------------------------------------------------------------------------
(* The inductive invariant, put together *)

LEMMA ReserveInvInit == ReserveInit => ReserveInv
  <1> SUFFICES ASSUME ReserveInit PROVE ReserveInv
    OBVIOUS
  <1>0. ReserveTypeOK /\ IInv /\ MaxSlots \in Nat \ {0} /\ ~late
    BY ReserveTypeInit, IInvInit, MaxSlotsAssumption
       DEF ReserveInit, ReadInit, Init
  <1>1. /\ \A t \in Reservers : ~kept[t] /\ vpc[t] = "idle"
        /\ \A r \in Regions : spent[r] = 0 /\ touched[r] = {}
        /\ reserves = 0
        /\ \A k \in Readers : rpc[k] = "idle" /\ count[k] = 0
    BY DEF ReserveInit, ReadInit
  <1>2. ASSUME NEW r \in Regions PROVE RegionInv(r)
    <2>1. /\ TicketsExact(r) /\ CursorCoherent(r) /\ SlotsCoherent(r)
          /\ Sealed(r) => Holders(r) = {}
      BY <1>0 DEF IInv
    <2>2. ~Clearing(r) /\ Undoing(r) = {} /\ Uncommitted(r) = {}
      BY DEF ReserveInit, ReadInit, Init, Clearing, Undoing, Uncommitted
    <2>3. Taken(r) = Granted(r)
      <3>1. Granted(r) \in Nat
        BY <1>0, Counts DEF Granted, IInv, TypeOK
      <3> QED  BY <1>1, <2>2, <3>1 DEF Taken
    <2>4. CursorAccounted(r)
      BY <2>1, <2>2, <2>3 DEF CursorCoherent, CursorAccounted
    <2>5. SlotsAccounted(r)
      BY <2>1, <2>2, <2>3 DEF SlotsCoherent, SlotsAccounted
    <2>6. ReservationsHeld(r)
      BY <1>1 DEF ReservationsHeld, Reserved
    <2> QED  BY <2>1, <2>4, <2>5, <2>6 DEF RegionInv
  <1>3. ASSUME NEW r \in Regions PROVE Budget(r)
    <2>1. Reserving(r) = {}
      BY <1>1 DEF Reserving
    <2>2. IsFiniteSet(Reserving(r)) /\ Cardinality(Reserving(r)) = 0
      BY <2>1, FS_EmptySet
    <2> QED  BY <1>1, <2>2 DEF Budget
  <1>4. \A k \in Readers : ReaderInside(k)
    BY <1>0, <1>1 DEF ReaderInside
  <1> QED  BY <1>0, <1>1, <1>2, <1>3, <1>4 DEF ReserveInv, Budget

LEMMA ReserveInvNext == ReserveInv /\ [ReserveNext]_allVars => ReserveInv'
  <1> SUFFICES ASSUME ReserveInv, [ReserveNext]_allVars
               PROVE  ReserveInv'
    OBVIOUS
  <1>0. /\ ReserveTypeOK /\ \A r \in Regions : Budget(r)
        /\ \A t \in Reservers : kept[t] => vpc[t] \in {"reserved", "fill", "copy"}
    BY DEF ReserveInv, Budget
  <1>1. ReserveTypeOK' /\ \A r \in Regions : Budget(r)'
    BY <1>0, ReserveTypeNext
  <1>2. \A t \in Reservers : kept'[t] => vpc'[t] \in {"reserved", "fill", "copy"}
    <2>1. CASE ReadWriteOrDrain
      BY <1>0, <2>1 DEF ReadWriteOrDrain
    <2>2. CASE UNCHANGED allVars
      BY <1>0, <2>2 DEF allVars, reserveVars, reserverVars
    <2>3. ASSUME NEW t \in Reservers, ReserveCall(t)
          PROVE  \A u \in Reservers :
                   kept'[u] => vpc'[u] \in {"reserved", "fill", "copy"}
      <3>1. CASE TakeReservation(t)
        BY <1>0, <3>1 DEF TakeReservation, Spend, ReserveTypeOK
      <3>2. CASE ReserveRegion(t) \/ ReservationFails(t)
        BY <1>0, <3>2 DEF ReserveRegion, ReservationFails, Spend, ReserveTypeOK
      <3>3. CASE FillRegion(t) \/ FillHeader(t) \/ FillPayload(t)
        BY <1>0, <3>3 DEF FillRegion, FillHeader, FillPayload, ReserveTypeOK
      <3>4. CASE ReleaseSlot(t)
        BY <1>0, <3>4 DEF ReleaseSlot, ReserveTypeOK
      <3> QED  BY <2>3, <3>1, <3>2, <3>3, <3>4 DEF ReserveCall
    <2> QED  BY <2>1, <2>2, <2>3 DEF ReserveNext
  <1>3. ~late' => \A r \in Regions : RegionInv(r)'
    BY RegionStep
  <1>4. ~late' => \A k \in Readers : ReaderInside(k)'
    BY ReaderStep
  <1> QED  BY <1>1, <1>2, <1>3, <1>4 DEF ReserveInv, Budget

LEMMA ReserveInvariance == ReserveSpec => []ReserveInv
  BY ReserveInvInit, ReserveInvNext, PTL DEF ReserveSpec

\* Beside any number of readers and reservers too, every behaviour is type
\* correct: a reserved slot lies inside the region, and no more increments of
\* a cursor are spent on reservations than ReserveSlot was called.
THEOREM ReserveTypeCorrect == ReserveSpec => []ReserveTypeOK
  <1>1. ReserveInv => ReserveTypeOK
    BY DEF ReserveInv
  <1> QED  BY <1>1, ReserveInvariance, PTL

\* No index that db_get_entry lets through lies outside the region, although
\* a drain may have swapped the regions since it was counted, as long as no
\* writer has entered a drained region.
THEOREM ReadersStayInside == ReserveSpec => []NeverTrapped
  <1>1. ReserveInv => NeverTrapped
    BY DEF ReserveInv, ReaderInside, NeverTrapped
  <1> QED  BY <1>1, ReserveInvariance, PTL

\* A reader that was given its entry in a calm moment holds a whole entry
\* until the region is reset, unless a reservation took or overwrote it.
THEOREM CalmReadsWhole == ReserveSpec => []ReadsWhole
  <1>1. ReserveInv => ReadsWhole
    <2> SUFFICES ASSUME ReserveInv, ~late, NEW k \in Readers,
                        rpc[k] \in Reading, calm[k],
                        count[k] - 1 \notin touched[rregion[k]]
                 PROVE  entries[rregion[k]][count[k] - 1] = "full"
      BY DEF ReadsWhole
    <2> DEFINE r == rregion[k]
               s == count[k] - 1
    <2>1. /\ ReserveTypeOK /\ r \in Regions /\ Accounted(r) /\ ReaderInside(k)
          /\ count[k] \in Nat /\ count[k] > 0
      BY DEF ReserveInv, ReserveTypeOK, ReadTypeOK, RegionInv, Accounted
    <2>2. /\ ~Clearing(r) /\ count[k] <= committed_entries[r]
          /\ \A w \in Uncommitted(r) : idx[w] # s
      BY <2>1 DEF ReaderInside
    <2>3. Taken(r) = spent[r] + Granted(r) /\ Granted(r) <= MaxSlots
      BY <2>1, <2>2 DEF Taken, Accounted, CursorAccounted
    <2>4. s \in Slots /\ s < Taken(r)
      BY <2>1, <2>2, <2>3, Numbers DEF Accounted
    <2> QED  BY <2>1, <2>2, <2>4 DEF Accounted, SlotsAccounted
  <1> QED  BY <1>1, ReserveInvariance, PTL

\* A fetch-and-add of the shared cursor is enough to give a reserved slot to
\* nobody else, for as long as its region is not reset.
THEOREM ReservationsExclusive == ReserveSpec => []ReservedExclusive
  <1>1. ReserveInv => ReservedExclusive
    <2> SUFFICES ASSUME ReserveInv, ~late, NEW t \in Reservers, kept[t]
                 PROVE  /\ \A w \in Uncommitted(home[t]) : idx[w] # slot[t]
                        /\ \A u \in Reservers \ {t} :
                              kept[u] /\ home[u] = home[t] => slot[u] # slot[t]
      BY DEF ReservedExclusive
    <2>1. home[t] \in Regions /\ ReservationsHeld(home[t])
      BY DEF ReserveInv, ReserveTypeOK, RegionInv
    <2> QED  BY <2>1 DEF ReservationsHeld, Reserved
  <1> QED  BY <1>1, ReserveInvariance, PTL

\* The cursor, which is what a drain tallies, is the accepted writes, the
\* roll-backs under way and every reservation since the reset, failed or not.
THEOREM ReservationsCounted == ReserveSpec => []CursorCounts
  <1>1. ReserveInv => CursorCounts
    <2> SUFFICES ASSUME ReserveInv, ~late, NEW r \in Regions
                 PROVE  cursor[r] = spent[r] +
                          IF Clearing(r) THEN 0
                          ELSE Granted(r) + Cardinality(Undoing(r))
      BY DEF CursorCounts
    <2>1. ReserveTypeOK /\ CursorAccounted(r) /\ (Sealed(r) => Holders(r) = {})
      BY DEF ReserveInv, RegionInv
    <2>2. Clearing(r) => Undoing(r) = {}
      BY <2>1 DEF Clearing, Sealed, Holders, Undoing
    <2>3. /\ Cardinality(Undoing(r)) \in Nat
          /\ Undoing(r) = {} => Cardinality(Undoing(r)) = 0
          /\ Granted(r) \in Nat /\ spent[r] \in Nat
      BY <2>1, Numbers
    <2> QED  BY <2>1, <2>2, <2>3 DEF CursorAccounted, Taken
  <1> QED  BY <1>1, ReserveInvariance, PTL
=============================================================================
