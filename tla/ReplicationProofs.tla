-------------------------- MODULE ReplicationProofs --------------------------
(* What TLAPS proves of RoomScan and of Replication, for every region size,  *)
(* index width, chunk and number of writers, reservations, scanners, drains, *)
(* synchronisations and calls of ApplySync.                                  *)
EXTENDS Replication, ActiveRegionProofs, SequenceTheorems

-----------------------------------------------------------------------------
(* RoomScan *)

LEMMA RoomInit == Init => RoomInv
  <1> SUFFICES ASSUME Init PROVE RoomInv
    OBVIOUS
  <1>1. RegionInv
    BY RegionStart DEF Init
  <1>2. TypeOK
    <2>1. 0 \in Indices /\ 0 \in 0 .. MaxSlots /\ 0 \in Rooms /\ 0 <= MaxDrains
      BY SlotsAssumption, IndexAssumption, DrainsAssumption DEF Indices
    <2>2. RegionTypeOK /\ fill = 0
      BY <1>1 DEF RegionInv, Init, RegionInit
    <2> QED  BY <2>1, <2>2 DEF Init, TypeOK
  <1> QED  BY <1>1, <1>2 DEF Init, RoomInv, ScanInv

LEMMA CommittedNext ==
    ASSUME RegionInv'
    PROVE  committed' \in 0 .. MaxSlots
  <1>1. (RegionTypeOK => committed \in 0 .. MaxSlots)'
    BY Committed, PTL
  <1> QED  BY <1>1 DEF RegionInv

LEMMA WholeCounted ==
    ASSUME RegionInv
    PROVE  Whole \subseteq done /\ Whole \subseteq 0 .. committed - 1
  <1>1. settled \subseteq done /\ settled \subseteq Slots /\ committed \in Nat
    BY Committed, SlotsAssumption DEF RegionInv, RegionTypeOK
  <1>2. Whole \subseteq done /\ Whole \subseteq Slots
    BY <1>1 DEF Whole
  <1>3. \A s \in Whole : s \in Nat /\ s < committed
    BY <1>2, SlotsAssumption DEF Whole, Given, Slots
  <1> QED  BY <1>1, <1>2, <1>3

\* A step that fills slots beside the scans.
LEMMA RoomFills ==
    ASSUME RoomInv, Fills
    PROVE  RoomInv'
  <1>1. RegionInv /\ FillStep /\ UNCHANGED scanVars
    BY DEF RoomInv, Fills
  <1>2. RegionInv'
    BY <1>1, FillStepKeeps
  <1>3. /\ UNCHANGED fill /\ done \subseteq done' /\ committed <= committed'
        /\ settled' \cap done \subseteq settled /\ SettledStays
    BY <1>1, FillFacts
  <1>4. TypeOK'
    BY <1>1, <1>2, <1>3 DEF RoomInv, TypeOK, RegionInv, scanVars
  <1>5. committed \in Int /\ committed' \in Int
    BY <1>1, <1>2, Committed, CommittedNext, SlotsAssumption DEF RegionInv
  <1>6. ScanInv'
    <2> SUFFICES ASSUME NEW t \in Scanners, pc[t] # "idle", ~moved[t]
                 PROVE  /\ counted[t] <= committed'
                        /\ whole[t] \subseteq done' \cap 0 .. counted[t] - 1
                        /\ \A j \in whole[t] \cap settled' :
                              (i[t] < j \/ counted[t] <= i[t]) =>
                                  At(fill, j)'.room_id # room[t]
      BY <1>1 DEF ScanInv, scanVars
    <2>1. /\ counted[t] <= committed /\ counted[t] \in 0 .. MaxSlots
          /\ whole[t] \subseteq done \cap 0 .. counted[t] - 1
          /\ \A j \in whole[t] \cap settled :
                (i[t] < j \/ counted[t] <= i[t]) => At(fill, j).room_id # room[t]
      BY DEF RoomInv, ScanInv, TypeOK
    <2>2. counted[t] <= committed'
      BY <1>3, <1>5, <2>1
    <2>3. \A j \in whole[t] \cap settled' :
              j \in settled /\ At(fill, j)' = At(fill, j)
      BY <1>3, <2>1 DEF SettledStays
    <2> QED  BY <1>3, <2>1, <2>2, <2>3
  <1> QED  BY <1>2, <1>4, <1>6 DEF RoomInv

LEMMA RoomDrains ==
    ASSUME RoomInv, Drains
    PROVE  RoomInv'
  <1>1. RegionInv'
    BY SwitchKeeps DEF RoomInv, Drains
  <1>2. TypeOK'
    <2>1. fill' <= MaxDrains /\ 0 \in 0 .. MaxSlots
      BY SlotsAssumption, DrainsAssumption
         DEF RoomInv, RegionInv, RegionTypeOK, Drains, SwitchAndDrain
    <2> QED  BY <1>1, <2>1 DEF RoomInv, TypeOK, RegionInv, Drains
  <1> QED  BY <1>1, <1>2 DEF RoomInv, ScanInv, Drains, TypeOK

LEMMA RoomBegins ==
    ASSUME RoomInv, NEW t \in Scanners, NEW q \in Rooms, ReadLastFromRoom(t, q)
    PROVE  RoomInv'
  <1>1. RegionInv' /\ UNCHANGED regionVars
    BY RegionSame DEF RoomInv, ReadLastFromRoom
  <1>2. committed \in 0 .. MaxSlots /\ committed - 1 \in Indices
        /\ Whole \subseteq Slots
    BY Committed, IndexAssumption, SlotsAssumption
       DEF RoomInv, RegionInv, ReadLastFromRoom, Indices, Whole
  <1>3. TypeOK'
    BY <1>1, <1>2 DEF RoomInv, TypeOK, RegionInv, ReadLastFromRoom, regionVars
  <1>4. ScanInv'
    <2>1. UNCHANGED <<fill, done, settled, entries>> /\ committed' = committed
      BY <1>1 DEF regionVars, committed
    <2> SUFFICES ASSUME NEW u \in Scanners, pc'[u] # "idle", ~moved'[u]
                 PROVE  /\ counted'[u] <= committed
                        /\ whole'[u] \subseteq done \cap 0 .. counted'[u] - 1
                        /\ \A j \in whole'[u] \cap settled :
                              (i'[u] < j \/ counted'[u] <= i'[u]) =>
                                  At(fill, j).room_id # room'[u]
      BY <2>1 DEF ScanInv, At
    <2>2. CASE u = t
      <3>1. counted'[u] = committed /\ i'[u] = committed - 1 /\ whole'[u] = Whole
        BY <2>2 DEF ReadLastFromRoom, RoomInv, TypeOK
      <3>2. Whole \subseteq done \cap 0 .. committed - 1
        BY WholeCounted DEF RoomInv
      <3> QED  BY <1>2, <3>1, <3>2
    <2>3. CASE u # t
      BY <2>3 DEF ReadLastFromRoom, RoomInv, TypeOK, ScanInv
    <2> QED  BY <2>2, <2>3
  <1> QED  BY <1>1, <1>3, <1>4 DEF RoomInv

\* The entry at the index is settled and counted, and was passed over: it is
\* of another room.
LEMMA RoomMiss ==
    ASSUME RoomInv, NEW t \in Scanners, Miss(t)
    PROVE  RoomInv'
  <1>1. RegionInv' /\ UNCHANGED regionVars
    BY RegionSame DEF RoomInv, Miss
  <1>2. i'[t] \in Indices /\ \A u \in Scanners \ {t} : i'[u] = i[u]
    BY SlotsAssumption, IndexAssumption DEF RoomInv, TypeOK, Miss, Indices
  <1>3. TypeOK'
    BY <1>1, <1>2 DEF RoomInv, TypeOK, RegionInv, Miss, regionVars
  <1>4. ScanInv'
    <2>1. UNCHANGED <<fill, done, settled, entries>> /\ committed' = committed
      BY <1>1 DEF regionVars, committed
    <2> SUFFICES ASSUME NEW u \in Scanners, pc[u] # "idle", ~moved[u],
                        NEW j \in whole[u] \cap settled,
                        i'[u] < j \/ counted[u] <= i'[u]
                 PROVE  At(fill, j).room_id # room[u]
      BY <2>1 DEF ScanInv, At, RoomInv, Miss
    <2>2. /\ counted[u] <= committed /\ j \in 0 .. counted[u] - 1
          /\ (i[u] < j \/ counted[u] <= i[u]) => At(fill, j).room_id # room[u]
      BY DEF RoomInv, ScanInv
    <2>3. CASE u # t
      BY <1>2, <2>2, <2>3
    <2>4. CASE u = t
      <3>1. i'[u] = IF i[u] = 0 THEN IndexMod - 1 ELSE i[u] - 1
        BY <2>4 DEF Miss, RoomInv, TypeOK
      <3>2. counted[u] \in Nat /\ i[u] \in Nat
        BY SlotsAssumption, IndexAssumption DEF RoomInv, TypeOK, Indices
      <3>3. (i[u] < j \/ counted[u] <= i[u]) \/ j = i[u]
        BY <2>2, <3>1, <3>2
      <3>4. ASSUME j = i[u] PROVE At(fill, j).room_id # room[u]
        <4>1. committed \in Nat
          BY Committed, SlotsAssumption DEF RoomInv, RegionInv
        <4>2. Given(j)
          BY <2>2, <3>2, <4>1 DEF Given
        <4>3. At(fill, j).data = Message(fill, j) /\ fill \in Nat
          BY SettledHold DEF RoomInv, RegionInv, RegionTypeOK
        <4>4. At(fill, j).data # None
          BY <4>3 DEF Message, None
        <4> QED  BY <2>4, <3>4, <4>2, <4>4 DEF Miss, Matches
      <3> QED  BY <2>2, <3>3, <3>4
    <2> QED  BY <2>3, <2>4
  <1> QED  BY <1>1, <1>3, <1>4 DEF RoomInv

LEMMA RoomEnds ==
    ASSUME RoomInv, NEW t \in Scanners, Match(t) \/ Return(t)
    PROVE  RoomInv'
  <1>1. RegionInv' /\ UNCHANGED regionVars
    BY RegionSame DEF RoomInv, Match, Return
  <1>2. 0 \in Indices /\ 0 \in 0 .. MaxSlots /\ 0 \in Rooms
    BY SlotsAssumption, IndexAssumption DEF Indices
  <1>3. TypeOK'
    <2>1. CASE Match(t)
      BY <1>1, <2>1 DEF RoomInv, TypeOK, RegionInv, Match, regionVars
    <2>2. CASE Return(t)
      BY <1>1, <1>2, <2>2 DEF RoomInv, TypeOK, RegionInv, Return, regionVars
    <2> QED  BY <2>1, <2>2
  <1>4. ScanInv'
    <2>1. UNCHANGED <<fill, done, settled, entries>> /\ committed' = committed
      BY <1>1 DEF regionVars, committed
    <2>2. \A u \in Scanners : pc'[u] # "idle" =>
              /\ pc[u] # "idle" /\ counted'[u] = counted[u] /\ whole'[u] = whole[u]
              /\ moved'[u] = moved[u] /\ i'[u] = i[u] /\ room'[u] = room[u]
      BY DEF RoomInv, TypeOK, Match, Return
    <2> QED  BY <2>1, <2>2 DEF RoomInv, ScanInv, At
  <1> QED  BY <1>1, <1>3, <1>4 DEF RoomInv

LEMMA RoomNext == RoomInv /\ [Next]_vars => RoomInv'
  <1>1. RoomInv /\ UNCHANGED vars => RoomInv'
    <2> SUFFICES ASSUME RoomInv, UNCHANGED vars PROVE RoomInv'
      OBVIOUS
    <2>1. UNCHANGED <<fill, cursor, done, settled, entries, wpc, mine,
                      reservations>>
          /\ UNCHANGED <<pc, room, i, counted, whole, moved>>
          /\ UNCHANGED regionVars
      BY DEF vars, regionVars, scanVars
    <2>2. RegionInv'
      BY <2>1, RegionSame DEF RoomInv
    <2>3. TypeOK'
      BY <2>1, <2>2 DEF RoomInv, TypeOK, RegionInv
    <2>4. ScanInv'
      BY <2>1 DEF RoomInv, ScanInv, At, committed
    <2> QED  BY <2>2, <2>3, <2>4 DEF RoomInv
  <1> QED
    BY <1>1, RoomFills, RoomDrains, RoomBegins, RoomMiss, RoomEnds DEF Next,
       Scan

\* ReadLastFromRoom passes over no settled message of its room for the one it
\* returns, for any number of scanners, writers and reservations, commits in
\* any order and indices of any width, unless a drain came in between.
THEOREM FoundIsLast == Spec => []FindsLast
  <1>1. RoomInv => FindsLast
    BY DEF RoomInv, ScanInv, FindsLast
  <1> QED  BY <1>1, RoomInit, RoomNext, PTL DEF Spec

-----------------------------------------------------------------------------
(* What the steps of Replication leave alone *)

\* A step of the region moves no entry backwards, and without a drain it keeps
\* what is committed, and what is settled where it was committed already.
LEMMA RegionMoves ==
    ASSUME RoomInv, [Next]_vars
    PROVE  /\ fill \in Nat /\ fill' \in Nat /\ fill <= fill'
           /\ fill' = fill =>
                 /\ done \subseteq done' /\ committed <= committed'
                 /\ settled' \cap done \subseteq settled
  <1>1. CASE Fills
    BY <1>1, FillFacts DEF Fills, RoomInv, RegionInv, RegionTypeOK
  <1>2. CASE Drains
    BY <1>2 DEF Drains, SwitchAndDrain, RoomInv, RegionInv, RegionTypeOK
  <1>3. CASE UNCHANGED regionVars
    <2>1. UNCHANGED <<fill, done, settled>> /\ committed' = committed
      BY <1>3 DEF regionVars, committed
    <2> QED
      BY <2>1, Committed, SlotsAssumption DEF RoomInv, RegionInv, RegionTypeOK
  <1>4. ASSUME NEW t \in Scanners, Scan(t) PROVE UNCHANGED regionVars
    BY <1>4 DEF Scan, Match, Miss, Return
  <1>5. ASSUME NEW t \in Scanners, NEW q \in Rooms, ReadLastFromRoom(t, q)
        PROVE  UNCHANGED regionVars
    BY <1>5 DEF ReadLastFromRoom
  <1>6. UNCHANGED vars => UNCHANGED regionVars
    BY DEF vars
  <1> QED  BY <1>1, <1>2, <1>3, <1>4, <1>5, <1>6 DEF Next

LEMMA RegionFrame ==
    ASSUME RegionStep
    PROVE  /\ UNCHANGED <<loadVars, spc, from, n, k, array, results, sure,
                          syncs, replies, peerVars>>
           /\ steady' => steady /\ fill' = fill
  BY DEF RegionStep

LEMMA LoadFrame ==
    ASSUME LoadStep
    PROVE  UNCHANGED <<vars, syncVars, replies, peerVars>>
  BY DEF LoadStep, LoadChunk, LoadRecord, LoadReturns, LoadFails, MunmapChunk

LEMMA ServerFrame ==
    ASSUME ServerStep
    PROVE  UNCHANGED <<vars, loadVars, peerVars>>
  BY DEF ServerStep, ChunkEntry, SyncEntry, SyncDone, Reply, HandleSync

LEMMA PeerFrame ==
    ASSUME PeerStep
    PROVE  UNCHANGED <<vars, loadVars, syncVars, replies>>
  BY DEF PeerStep, ApplyEntry, ApplyFails, ApplyPanics, ApplyReturns, ApplyOver,
         PeerWrite, PeerDrain, ApplySync

\* A step of the region, of a load, of the server or of the peer, or one that
\* takes at most a response away.
LEMMA SyncSteps ==
    ASSUME [SyncNext]_replicationVars
    PROVE  \/ RegionStep \/ LoadStep \/ ServerStep \/ PeerStep
           \/ /\ UNCHANGED <<vars, loadVars, syncVars, peerVars>>
              /\ replies' \subseteq replies
  <1>1. ASSUME NEW m \in replies, Lose(m)
        PROVE  /\ UNCHANGED <<vars, loadVars, syncVars, peerVars>>
               /\ replies' \subseteq replies
    BY <1>1 DEF Lose
  <1>2. UNCHANGED replicationVars =>
            /\ UNCHANGED <<vars, loadVars, syncVars, peerVars>>
            /\ replies' \subseteq replies
    BY DEF replicationVars
  <1> QED  BY <1>1, <1>2 DEF SyncNext

LEMMA RoomAside == [SyncNext]_replicationVars => [Next]_vars
  BY SyncSteps, LoadFrame, ServerFrame, PeerFrame DEF RegionStep

-----------------------------------------------------------------------------
(* What the loops of HandleSync read *)

LEMMA SentType ==
    \A e \in Sent : /\ e.slot \in Nat /\ e.data.fill \in Int
                    /\ e.data.slot \in Nat /\ e.settled \in BOOLEAN
  BY DEF Sent

LEMMA EntryType ==
    ASSUME NEW e \in Entry
    PROVE  e.data \in Data /\ e.timestamp \in Times \cup {0}
  BY DEF Entry

LEMMA ReadType ==
    ASSUME RegionInv, NEW s \in Slots
    PROVE  /\ Read(s) \in Sent /\ Read(s).slot = s
           /\ Read(s).data = At(fill, s).data
           /\ Read(s).data.fill <= fill
           /\ Read(s).data.fill >= 0 => Read(s).data.slot = s
           /\ Read(s).settled =>
                 s \in settled /\ Read(s).data = Message(fill, s)
  <1>1. fill \in Nat /\ fill % 2 \in 0 .. 1
    BY DEF RegionInv, RegionTypeOK
  <1>2. PICK e : e = At(fill, s) /\ e \in Entry
    BY <1>1, EntryAt DEF RegionInv
  <1>3. s \in Nat /\ e.data \in Data /\ e.timestamp \in Int
    <2>1. s \in Nat
      BY SlotsAssumption DEF Slots
    <2>2. e.data \in Data /\ e.timestamp \in Times \cup {0}
      BY <1>2, EntryType
    <2>3. Times \cup {0} \subseteq Int
      BY SlotsAssumption
    <2> QED  BY <2>1, <2>2, <2>3
  <1>4. /\ e.data.fill \in Int /\ e.data.slot \in Nat
        /\ e.data \in [fill : Int, slot : Nat]
    BY <1>3, SlotsAssumption DEF Data, Slots
  <1>5. /\ e.data.fill >= 0 => e.data.slot = s /\ e.data.fill <= fill
        /\ s \in settled => e.data = Message(fill, s)
    BY <1>1, <1>2 DEF RegionInv, MessagesInPlace, At
  <1>6. Read(s) = [slot |-> s, data |-> e.data, timestamp |-> e.timestamp,
                   settled |-> s \in settled]
    BY <1>2 DEF Read
  <1>7. (s \in settled) \in BOOLEAN
    OBVIOUS
  <1>8. PICK b \in BOOLEAN : b = (s \in settled)
    BY <1>7
  <1>9. Read(s) = [slot |-> s, data |-> e.data, timestamp |-> e.timestamp,
                   settled |-> b]
    BY <1>6, <1>8
  <1>10. /\ Read(s) \in Sent /\ Read(s).slot = s /\ Read(s).data = e.data
         /\ Read(s).settled = b
    BY <1>3, <1>4, <1>9 DEF Sent
  <1>11. e.data.fill <= fill
    BY <1>1, <1>4, <1>5
  <1> QED  BY <1>2, <1>5, <1>8, <1>10, <1>11

LEMMA ElementType ==
    ASSUME SyncTypeOK, spc = "chunk", k < Len(Chunk)
    PROVE  /\ Element(k) \in Sent /\ Element(k).slot = k
           /\ ~Element(k).settled /\ Element(k).data.fill < 0
  <1>1. k \in Nat /\ Len(Chunk) \in Nat /\ k + 1 \in 1 .. Len(Chunk)
    BY ChunkAssumption, LenProperties DEF SyncTypeOK
  <1>2. Chunk[k + 1] \in Sent
    BY <1>1, ChunkAssumption, ElementOfSeq
  <1>3. /\ Chunk[k + 1].slot = k /\ ~Chunk[k + 1].settled
        /\ Chunk[k + 1].data.fill < 0
    BY <1>1, ChunkAssumption
  <1>4. CASE k < loads[array]
    BY <1>2, <1>3, <1>4 DEF Element
  <1>5. CASE ~(k < loads[array])
    <2>1. Element(k) = [slot |-> k, data |-> [fill |-> -1, slot |-> 0],
                        timestamp |-> 0, settled |-> FALSE]
      BY <1>5 DEF Element, None
    <2> QED  BY <1>1, <2>1 DEF Sent
  <1> QED  BY <1>4, <1>5

\* What a step of the loop adds to the response, if anything.
LEMMA Collects ==
    ASSUME SyncTypeOK, RegionInv, ChunkEntry \/ SyncEntry
    PROVE  /\ UNCHANGED <<vars, loadVars, spc, from, n, array, sure, steady,
                          syncs, replies, peerVars>>
           /\ k' = k + 1
           /\ (spc = "entry" /\ k < n) \/ (spc = "chunk" /\ k < Len(Chunk))
           /\ \/ results' = results
              \/ \E e \in Sent :
                    /\ results' = Append(results, e)
                    /\ e.slot = k /\ e.data.fill <= fill
                    /\ e.data.fill >= 0 => e.data.slot = k
                    /\ e.settled => e.data = Message(fill, k)
  <1>1. fill \in Nat /\ MaxSlots \in Nat /\ n \in 0 .. MaxSlots /\ k \in Nat
    BY SlotsAssumption DEF RegionInv, RegionTypeOK, SyncTypeOK
  <1>2. CASE ChunkEntry
    <2>1. CASE results' = Append(results, Element(k))
      <3>1. /\ Element(k) \in Sent /\ Element(k).slot = k
            /\ ~Element(k).settled /\ Element(k).data.fill < 0
        BY <1>2, ElementType DEF ChunkEntry
      <3>2. Element(k).data.fill \in Int
        BY <3>1, SentType
      <3> QED  BY <1>1, <1>2, <2>1, <3>1, <3>2 DEF ChunkEntry
    <2> QED  BY <1>2, <2>1 DEF ChunkEntry
  <1>3. CASE SyncEntry
    <2>1. k \in Slots
      BY <1>1, <1>3 DEF SyncEntry, Slots
    <2> QED  BY <1>3, <2>1, ReadType DEF SyncEntry
  <1> QED  BY <1>2, <1>3

LEMMA Appended ==
    ASSUME NEW S, NEW s \in Seq(S), NEW e \in S, NEW t, t = Append(s, e)
    PROVE  /\ t \in Seq(S) /\ Len(s) \in Nat /\ Len(t) = Len(s) + 1
           /\ t[Len(s) + 1] = e
           /\ \A x \in 1 .. Len(s) : t[x] = s[x] /\ x \in 1 .. Len(t)
           /\ \A x \in 1 .. Len(t) : x \in 1 .. Len(s) \/ x = Len(s) + 1
  <1>1. /\ t \in Seq(S) /\ Len(s) \in Nat /\ Len(t) = Len(s) + 1
        /\ t[Len(s) + 1] = e /\ \A x \in 1 .. Len(s) : t[x] = s[x]
    BY AppendProperties, LenProperties
  <1> QED  BY <1>1

-----------------------------------------------------------------------------
(* Responses in order *)

LEMMA OrderNext ==
    ASSUME SyncTypeOK, RoomInv, OrderInv, [SyncNext]_replicationVars
    PROVE  OrderInv'
  <1>0. /\ results \in Seq(Sent) /\ Len(results) \in Nat /\ k \in Nat
        /\ \A x \in 1 .. Len(results) :
              /\ results[x].slot \in Nat /\ results[x].data.fill \in Int
              /\ results[x] \in Sent
    <2>1. results \in Seq(Sent) /\ k \in Nat
      BY DEF SyncTypeOK
    <2>2. \A x \in 1 .. Len(results) : results[x] \in Sent
      BY <2>1, ElementOfSeq
    <2> QED  BY <2>1, <2>2, LenProperties, SentType
  <1>m. fill \in Nat /\ fill' \in Nat /\ fill <= fill'
    BY RoomAside, RegionMoves
  <1>1. ASSUME UNCHANGED <<spc, k, results>> PROVE OrderInv'
    <2>1. Ordered(results)' /\ Ordered(results) /\ UNCHANGED <<spc, k, results>>
      BY <1>1 DEF OrderInv, Ordered
    <2>2. \A x \in 1 .. Len(results) : results[x].data.fill <= fill'
      <3>1. \A x \in 1 .. Len(results) : results[x].data.fill <= fill
        BY DEF OrderInv
      <3> QED  BY <1>0, <1>m, <3>1
    <2> QED  BY <2>1, <2>2 DEF OrderInv
  <1>2. CASE results' = <<>>
    BY <1>2 DEF OrderInv, Ordered
  <1>3. CASE ChunkEntry \/ SyncEntry
    <2>1. /\ UNCHANGED <<spc, fill>> /\ k' = k + 1 /\ spc \in {"entry", "chunk"}
      BY <1>3, Collects DEF RoomInv, vars, regionVars
    <2>2. CASE results' = results
      BY <1>0, <2>1, <2>2 DEF OrderInv, Ordered
    <2>3. ASSUME NEW e \in Sent, results' = Append(results, e),
                 e.slot = k, e.data.fill <= fill,
                 e.data.fill >= 0 => e.data.slot = k,
                 e.settled => e.data = Message(fill, k)
          PROVE  OrderInv'
      <3>1. PICK res, l : res = results' /\ l = Len(results)
        OBVIOUS
      <3>2. /\ Len(res) = l + 1 /\ res[l + 1] = e /\ l \in Nat
            /\ \A x \in 1 .. l : res[x] = results[x]
            /\ \A x \in 1 .. Len(res) : x \in 1 .. l \/ x = l + 1
        BY <1>0, <2>3, <3>1, Appended
      <3>3. \A x \in 1 .. l : /\ results[x].slot < k
                              /\ results[x].data.fill <= fill
        BY <2>1, <3>1 DEF OrderInv
      <3>4. \A x \in 1 .. Len(res) : res[x].data.fill <= fill /\ res[x].slot < k'
        BY <1>0, <2>1, <2>3, <3>1, <3>2, <3>3
      <3>5. ASSUME NEW y \in 1 .. Len(res)
            PROVE  /\ res[y].data.fill >= 0 => res[y].data.slot = res[y].slot
                   /\ \A x \in 1 .. y - 1 :
                        /\ res[x].slot < res[y].slot
                        /\ res[y].settled => res[x].data.fill <= res[y].data.fill
        <4>1. CASE y \in 1 .. l
          <5>1. \A x \in 1 .. y - 1 : x \in 1 .. l
            BY <3>2, <4>1
          <5> QED  BY <3>1, <3>2, <4>1, <5>1 DEF OrderInv, Ordered
        <4>2. CASE y = l + 1
          <5>1. \A x \in 1 .. y - 1 : x \in 1 .. l
            BY <3>2, <4>2
          <5>2. e.settled => e.data.fill = fill
            BY <2>3 DEF Message
          <5> QED  BY <2>3, <3>2, <3>3, <4>2, <5>1, <5>2
        <4> QED  BY <3>2, <4>1, <4>2
      <3>6. Ordered(results')
        BY <3>1, <3>5 DEF Ordered
      <3> QED  BY <2>1, <3>1, <3>4, <3>6 DEF OrderInv
    <2> QED  BY <1>3, <2>2, <2>3, Collects DEF RoomInv
  <1>4. CASE ServerStep
    <2>1. CASE SyncDone
      <3>1. results' = results /\ spc' = "reply"
        BY <2>1 DEF SyncDone
      <3> QED  BY <1>0, <1>m, <3>1 DEF OrderInv, Ordered
    <2>2. CASE Reply
      BY <1>2, <2>2 DEF Reply
    <2>3. ASSUME NEW f \in Stamps, HandleSync(f) PROVE results' = <<>>
      BY <2>3 DEF HandleSync
    <2> QED  BY <1>2, <1>3, <1>4, <2>1, <2>2, <2>3 DEF ServerStep
  <1> QED
    BY <1>1, <1>4, SyncSteps, RegionFrame, LoadFrame, PeerFrame DEF syncVars

-----------------------------------------------------------------------------
(* Responses complete *)

\* What SyncEntry adds from the slot of a settled entry.
LEMMA SettledEntry ==
    ASSUME SyncTypeOK, RegionInv, SyncEntry, k \in settled, k < committed
    PROVE  IF from < 0
           THEN Read(k).data = Message(fill, k) /\ results' = Append(results, Read(k))
           ELSE results' = results
  <1>1. At(fill, k).data = Message(fill, k) /\ At(fill, k).timestamp = 0
    BY SettledHold
  <1>2. from \in Int
    <2>1. from \in Stamps \cup {0}
      BY DEF SyncTypeOK
    <2> QED  BY <2>1, PeerAssumption
  <1>3. Read(k).data = Message(fill, k)
    BY <1>1 DEF Read
  <1>4. Given(k)
    BY DEF Given
  <1> QED  BY <1>1, <1>2, <1>3, <1>4 DEF SyncEntry

\* What stays as it is while the response does.
LEMMA CompleteStays ==
    ASSUME CompleteInv, UNCHANGED <<from, n, k, results, sure>>,
           steady' /\ spc' # "idle" =>
              /\ steady /\ spc # "idle"
              /\ UNCHANGED fill /\ done \subseteq done'
              /\ settled' \cap done \subseteq settled
              /\ spc' = "entry" => n <= committed'
              /\ spc' = "chunk" => n = 0
              /\ spc' = "reply" => n <= k
    PROVE  CompleteInv'
  <1> SUFFICES ASSUME spc' # "idle", steady'
               PROVE  /\ sure \subseteq done' /\ sure \subseteq 0 .. n - 1
                      /\ spc' = "entry" => n <= committed'
                      /\ spc' = "chunk" => n = 0
                      /\ spc' = "reply" => n <= k
                      /\ \A s \in sure \cap settled' : Answered(s)'
    BY DEF CompleteInv
  <1>1. /\ sure \subseteq done /\ sure \subseteq 0 .. n - 1
        /\ \A s \in sure \cap settled : Answered(s)
    BY DEF CompleteInv
  <1>2. sure \cap settled' \subseteq sure \cap settled
    BY <1>1
  <1>3. ASSUME NEW s, Answered(s) PROVE Answered(s)'
    BY <1>3 DEF Answered
  <1> QED  BY <1>1, <1>2, <1>3

LEMMA CompleteLoop ==
    ASSUME SyncTypeOK, RoomInv, CompleteInv, ChunkEntry \/ SyncEntry
    PROVE  CompleteInv'
  <1>1. /\ UNCHANGED <<vars, spc, from, n, sure, steady>> /\ k' = k + 1
        /\ (spc = "entry" /\ k < n) \/ (spc = "chunk" /\ k < Len(Chunk))
    BY Collects DEF RoomInv
  <1>t. results \in Seq(Sent) /\ k \in Nat /\ n \in Nat
    BY SlotsAssumption DEF SyncTypeOK
  <1>2. UNCHANGED <<fill, done, settled>> /\ committed' = committed
    BY <1>1 DEF vars, regionVars, committed
  <1> SUFFICES ASSUME steady, spc # "idle" PROVE CompleteInv'
    BY <1>1 DEF CompleteInv
  <1>3. /\ sure \subseteq done /\ sure \subseteq 0 .. n - 1
        /\ spc = "entry" => n <= committed
        /\ spc = "chunk" => n = 0
        /\ \A s \in sure \cap settled : Answered(s)
    BY DEF CompleteInv
  <1>4. ASSUME NEW s \in sure \cap settled PROVE Answered(s)'
    <2>1. s \in 0 .. n - 1 /\ Answered(s)
      BY <1>3
    <2>2. spc = "entry" /\ SyncEntry /\ k < n /\ n <= committed
      <3>1. spc # "chunk"
        BY <1>3, <2>1
      <3> QED  BY <1>1, <1>3, <3>1 DEF ChunkEntry
    <2>3. committed \in Nat
      BY Committed, SlotsAssumption DEF RoomInv, RegionInv
    <2>4. PICK res, l : res = results' /\ l = Len(results)
      OBVIOUS
    <2>5. /\ \A x \in 1 .. l : res[x] = results[x] /\ x \in 1 .. Len(res)
          /\ \A x \in 1 .. Len(res) : x \in 1 .. l \/ (res[x].slot = k)
          /\ l \in Nat
      <3>1. CASE results' = results
        BY <1>t, <2>4, <3>1, LenProperties
      <3>2. ASSUME NEW e \in Sent, results' = Append(results, e), e.slot = k
            PROVE  /\ \A x \in 1 .. l : res[x] = results[x] /\ x \in 1 .. Len(res)
                   /\ \A x \in 1 .. Len(res) : x \in 1 .. l \/ (res[x].slot = k)
                   /\ l \in Nat
        <4>1. /\ Len(results) \in Nat /\ res[Len(results) + 1] = e
              /\ \A x \in 1 .. Len(results) :
                    res[x] = results[x] /\ x \in 1 .. Len(res)
              /\ \A x \in 1 .. Len(res) :
                    x \in 1 .. Len(results) \/ x = Len(results) + 1
          BY <1>t, <2>4, <3>2, Appended
        <4> QED  BY <2>4, <3>2, <4>1
      <3> QED  BY <2>2, <3>1, <3>2, Collects DEF RoomInv
    <2>6. IF from < 0
          THEN s < k + 1 => \E x \in 1 .. Len(res) : res[x].data = Message(fill, s)
          ELSE \A x \in 1 .. Len(res) : res[x].slot # s
      <3>1. IF from < 0
            THEN s < k => \E x \in 1 .. l : results[x].data = Message(fill, s)
            ELSE \A x \in 1 .. l : results[x].slot # s
        BY <2>1, <2>4 DEF Answered
      <3>2. CASE s # k
        <4>1. s < k + 1 => s < k
          BY <1>t, <2>1, <3>2
        <4> QED  BY <2>5, <3>1, <3>2, <4>1
      <3>3. CASE s = k
        <4>1. k \in settled /\ k < committed
          BY <1>t, <2>2, <2>3, <3>3
        <4>2. CASE from < 0
          <5>1. Read(k).data = Message(fill, k) /\ results' = Append(results, Read(k))
            BY <2>2, <4>1, <4>2, SettledEntry DEF RoomInv
          <5>2. Read(k) \in Sent
            <6>1. k \in Slots
              BY <4>1, Committed DEF RoomInv, RegionInv
            <6> QED  BY <6>1, ReadType DEF RoomInv
          <5>3. res[l + 1] = Read(k) /\ Len(res) = l + 1 /\ l \in Nat
            BY <1>t, <2>4, <5>1, <5>2, Appended
          <5>4. l + 1 \in 1 .. Len(res)
            BY <5>3
          <5> QED  BY <3>3, <4>2, <5>1, <5>3, <5>4
        <4>3. CASE ~(from < 0)
          <5>1. results' = results
            BY <2>2, <4>1, <4>3, SettledEntry DEF RoomInv
          <5> QED  BY <2>4, <3>1, <4>3, <5>1
        <4> QED  BY <4>2, <4>3
      <3> QED  BY <3>2, <3>3
    <2> QED  BY <1>1, <1>2, <2>4, <2>6 DEF Answered
  <1>5. spc # "reply"
    BY <1>1
  <1> QED  BY <1>1, <1>2, <1>3, <1>4, <1>5 DEF CompleteInv

LEMMA CompleteNext ==
    ASSUME SyncTypeOK, RoomInv, RoomInv', CompleteInv, [SyncNext]_replicationVars
    PROVE  CompleteInv'
  <1>0. /\ n \in Nat /\ committed \in Int /\ committed' \in Int
        /\ k \in Nat /\ (spc = "entry" => k <= n)
    BY Committed, CommittedNext, SlotsAssumption DEF RoomInv, RegionInv,
       SyncTypeOK
  <1>1. CASE UNCHANGED <<vars, syncVars>>
    <2>1. /\ UNCHANGED <<fill, done, settled>> /\ committed' = committed
          /\ UNCHANGED <<spc, from, n, k, results, sure, steady>>
      BY <1>1 DEF vars, regionVars, syncVars, committed
    <2>2. (spc # "idle" /\ steady) => /\ spc = "entry" => n <= committed
                                      /\ spc = "chunk" => n = 0
                                      /\ spc = "reply" => n <= k
      BY DEF CompleteInv
    <2> QED  BY <2>1, <2>2, CompleteStays
  <1>2. CASE RegionStep
    <2>1. /\ UNCHANGED <<spc, from, n, k, results, sure>>
          /\ steady' => steady /\ fill' = fill
      BY <1>2, RegionFrame
    <2>2. fill' = fill => /\ done \subseteq done' /\ committed <= committed'
                          /\ settled' \cap done \subseteq settled
      BY RoomAside, RegionMoves
    <2>3. (spc # "idle" /\ steady) => /\ spc = "entry" => n <= committed
                                      /\ spc = "chunk" => n = 0
                                      /\ spc = "reply" => n <= k
      BY DEF CompleteInv
    <2>4. fill' = fill /\ n <= committed => n <= committed'
      BY <1>0, <2>2
    <2> QED  BY <2>1, <2>2, <2>3, <2>4, CompleteStays
  <1>3. CASE SyncDone
    <2>1. /\ UNCHANGED <<vars, from, n, k, results, sure, steady>>
          /\ spc' = "reply" /\ ((spc = "entry" /\ k = n) \/ spc = "chunk")
      BY <1>3 DEF SyncDone
    <2>2. UNCHANGED <<fill, done, settled>>
      BY <2>1 DEF vars, regionVars
    <2>3. steady => n <= k
      <3>1. (spc = "chunk" /\ steady) => n = 0
        BY DEF CompleteInv
      <3> QED  BY <1>0, <2>1, <3>1
    <2> QED  BY <2>1, <2>2, <2>3, CompleteStays
  <1>4. CASE Reply
    BY <1>4 DEF Reply, CompleteInv
  <1>5. ASSUME NEW f \in Stamps, HandleSync(f) PROVE CompleteInv'
    <2>1. /\ UNCHANGED vars /\ k' = 0 /\ results' = <<>>
          /\ \/ spc' = "chunk" /\ n' = 0 /\ sure' = {}
             \/ spc' = "entry" /\ n' = committed /\ sure' = Whole
      BY <1>5 DEF HandleSync
    <2>2. UNCHANGED <<fill, done, settled>> /\ committed' = committed
      BY <2>1 DEF vars, regionVars, committed
    <2>3. CASE spc' = "chunk" /\ n' = 0 /\ sure' = {}
      <3>1. spc' # "entry" /\ spc' # "reply"
        BY <2>3
      <3>2. sure' \cap settled' = {} /\ sure' \subseteq done'
            /\ sure' \subseteq 0 .. n' - 1
        <4>1. \A x : x \notin sure'
          BY <2>3
        <4> QED  BY <4>1
      <3>3. \A s \in sure' \cap settled' : Answered(s)'
        BY <3>2, Zenon
      <3> QED  BY <2>3, <3>1, <3>2, <3>3, Zenon DEF CompleteInv
    <2>4. CASE spc' = "entry" /\ n' = committed /\ sure' = Whole
      <3>1. Whole \subseteq done /\ Whole \subseteq 0 .. committed - 1
        BY WholeCounted DEF RoomInv
      <3>2. \A s \in Whole : Answered(s)'
        <4>1. Len(results') = 0
          BY <2>1
        <4>2. \A s \in Whole : ~(s < k')
          BY <2>1, <3>1
        <4> QED  BY <4>1, <4>2 DEF Answered
      <3> QED  BY <1>0, <2>2, <2>4, <3>1, <3>2 DEF CompleteInv
    <2> QED  BY <2>1, <2>3, <2>4
  <1>6. CASE ServerStep
    BY <1>3, <1>4, <1>5, <1>6, CompleteLoop DEF ServerStep
  <1> QED  BY <1>1, <1>2, <1>6, SyncSteps, LoadFrame, PeerFrame

-----------------------------------------------------------------------------
(* What is under way, and what the peer has written *)

LEMMA ReplyNext ==
    ASSUME SyncTypeOK, OrderInv, CompleteInv, ReplyInv, [SyncNext]_replicationVars
    PROVE  ReplyInv'
  <1>1. CASE replies' \subseteq replies /\ resp' = resp
    BY <1>1 DEF ReplyInv
  <1>2. CASE Reply
    <2> DEFINE m == [entries |-> results,
                     counted |-> IF steady /\ from < 0
                                 THEN {Message(fill, s) : s \in sure \cap settled}
                                 ELSE {}]
    <2>1. replies' = replies \cup {m} /\ resp' = resp /\ spc = "reply"
      BY <1>2 DEF Reply, peerVars
    <2>2. m.entries = results
          /\ m.counted = IF steady /\ from < 0
                         THEN {Message(fill, s) : s \in sure \cap settled}
                         ELSE {}
      OBVIOUS
    <2> HIDE DEF m
    <2>n. n \in Nat /\ k \in Nat
      BY SlotsAssumption DEF SyncTypeOK
    <2>3. \A x, y \in 1 .. Len(results) :
             x < y => results[x].slot < results[y].slot
      <3>1. \A y \in 1 .. Len(results) : \A x \in 1 .. y - 1 :
               results[x].slot < results[y].slot
        BY DEF OrderInv, Ordered
      <3> QED  BY <3>1
    <2>4. ASSUME NEW d \in m.counted
          PROVE  \E y \in 1 .. Len(results) : results[y].data = d
      <3>1. steady /\ from < 0
        BY <2>2, <2>4
      <3>2. PICK s \in sure \cap settled : d = Message(fill, s)
        BY <2>2, <2>4, <3>1
      <3>3. n <= k /\ sure \subseteq 0 .. n - 1 /\ Answered(s)
        BY <2>1, <3>1, <3>2 DEF CompleteInv
      <3>4. s < k
        BY <3>2, <3>3, <2>n
      <3> QED  BY <3>1, <3>2, <3>3, <3>4 DEF Answered
    <2> QED  BY <2>1, <2>2, <2>3, <2>4 DEF ReplyInv
  <1>3. ASSUME ServerStep, ~Reply PROVE replies' = replies /\ resp' = resp
    BY <1>3 DEF ServerStep, ChunkEntry, SyncEntry, SyncDone, HandleSync,
       peerVars
  <1>4. CASE PeerStep
    <2>1. replies' = replies
      BY <1>4, PeerFrame
    <2>2. CASE resp' = NoResponse
      <3>1. NoResponse.entries = <<>> /\ NoResponse.counted = {}
        BY DEF NoResponse
      <3> QED  BY <2>1, <2>2, <3>1 DEF ReplyInv
    <2>3. CASE resp' \in replies \cup {resp}
      BY <2>1, <2>3 DEF ReplyInv
    <2> QED
      BY <1>4, <2>2, <2>3 DEF PeerStep, ApplyEntry, ApplyFails, ApplyPanics,
         ApplyReturns, ApplyOver, PeerWrite, PeerDrain, ApplySync
  <1> QED
    BY <1>1, <1>2, <1>3, <1>4, SyncSteps, RegionFrame, LoadFrame DEF peerVars

LEMMA SameEquivalent ==
    /\ \A e : Same(e, e)
    /\ \A e, f : Same(e, f) => Same(f, e)
    /\ \A e, f, g : Same(e, f) /\ Same(f, g) => Same(e, g)
  BY DEF Same

\* Copies and calls are finite sets of indices.
LEMMA TalliesFinite ==
    ASSUME SyncTypeOK, NEW e
    PROVE  /\ IsFiniteSet(Copies(e)) /\ Cardinality(Copies(e)) \in Nat
           /\ IsFiniteSet(Calls(e)) /\ Cardinality(Calls(e)) \in Nat
  <1>1. Len(applied) \in Nat /\ Len(calls) \in Nat
    BY LenProperties DEF SyncTypeOK
  <1>2. IsFiniteSet(1 .. Len(applied)) /\ IsFiniteSet(1 .. Len(calls))
    BY <1>1, FS_Interval
  <1>3. Copies(e) \subseteq 1 .. Len(applied) /\ Calls(e) \subseteq 1 .. Len(calls)
    BY DEF Copies, Calls
  <1> QED  BY <1>2, <1>3, FS_Subset, FS_CardinalityType

\* Writing an entry adds one copy, of that entry.
LEMMA CopiesAppend ==
    ASSUME SyncTypeOK, NEW e, NEW w \in Sent, applied' = Append(applied, w)
    PROVE  /\ ~Same(w, e) => Copies(e)' = Copies(e)
           /\ Same(w, e) =>
                Cardinality(Copies(e)') = Cardinality(Copies(e)) + 1
  <1>0. applied \in Seq(Sent)
    BY DEF SyncTypeOK
  <1>1. PICK l, new : l = Len(applied) /\ new = applied'
    OBVIOUS
  <1>2. /\ l \in Nat /\ Len(new) = l + 1 /\ new[l + 1] = w
        /\ \A x \in 1 .. l : new[x] = applied[x]
    BY <1>0, <1>1, Appended
  <1>3. \A x : x \in 1 .. Len(new) <=> x \in 1 .. l \/ x = l + 1
    BY <1>2
  <1>4. /\ Copies(e) = {x \in 1 .. l : Same(applied[x], e)}
        /\ Copies(e)' = {x \in 1 .. Len(new) : Same(new[x], e)}
    BY <1>1 DEF Copies, Same
  <1>5. CASE ~Same(w, e)
    BY <1>2, <1>3, <1>4, <1>5 DEF Same
  <1>6. CASE Same(w, e)
    <2>1. Copies(e)' = Copies(e) \cup {l + 1}
      BY <1>2, <1>3, <1>4, <1>6 DEF Same
    <2>2. l + 1 \notin Copies(e)
      BY <1>2, <1>4
    <2> QED  BY <1>6, <2>1, <2>2, TalliesFinite, FS_AddElement
  <1> QED  BY <1>5, <1>6

\* A call adds one to the calls of every entry it is given.
LEMMA CallsAppend ==
    ASSUME SyncTypeOK, NEW e, NEW s \in Seq(Sent), calls' = Append(calls, s)
    PROVE  /\ Cardinality(Calls(e)')
                \in {Cardinality(Calls(e)), Cardinality(Calls(e)) + 1}
           /\ (\E y \in 1 .. Len(s) : Same(s[y], e)) =>
                Cardinality(Calls(e)') = Cardinality(Calls(e)) + 1
  <1>0. calls \in Seq(Seq(Sent))
    BY DEF SyncTypeOK
  <1>1. PICK l, new : l = Len(calls) /\ new = calls'
    OBVIOUS
  <1>2. /\ l \in Nat /\ Len(new) = l + 1 /\ new[l + 1] = s
        /\ \A x \in 1 .. l : new[x] = calls[x]
    BY <1>0, <1>1, Appended
  <1>3. \A x : x \in 1 .. Len(new) <=> x \in 1 .. l \/ x = l + 1
    BY <1>2
  <1>4. /\ Calls(e) = {c \in 1 .. l : \E y \in 1 .. Len(calls[c]) : Same(calls[c][y], e)}
        /\ Calls(e)' = {c \in 1 .. Len(new) : \E y \in 1 .. Len(new[c]) : Same(new[c][y], e)}
    BY <1>1 DEF Calls, Same
  <1>5. l + 1 \notin Calls(e)
    BY <1>2, <1>4
  <1>6. CASE \E y \in 1 .. Len(s) : Same(s[y], e)
    <2>1. Calls(e)' = Calls(e) \cup {l + 1}
      <3>1. ASSUME NEW c \in 1 .. l PROVE c \in Calls(e)' <=> c \in Calls(e)
        BY <1>2, <1>3, <1>4
      <3>2. l + 1 \in Calls(e)'
        BY <1>2, <1>3, <1>4, <1>6
      <3> QED  BY <1>3, <1>4, <3>1, <3>2
    <2>2. Cardinality(Calls(e)') = Cardinality(Calls(e)) + 1
      BY <1>5, <2>1, TalliesFinite, FS_AddElement
    <2> QED  BY <2>2, TalliesFinite
  <1>7. CASE ~\E y \in 1 .. Len(s) : Same(s[y], e)
    <2>1. ASSUME NEW c \in 1 .. l PROVE c \in Calls(e)' <=> c \in Calls(e)
      BY <1>2, <1>3, <1>4
    <2>2. l + 1 \notin Calls(e)'
      BY <1>2, <1>4, <1>7
    <2>3. Calls(e)' = Calls(e)
      BY <1>3, <1>4, <2>1, <2>2
    <2> QED  BY <1>7, <2>3, TalliesFinite
  <1> QED  BY <1>6, <1>7

LEMMA ApplyNext ==
    ASSUME SyncTypeOK, ReplyInv, ApplyInv, [SyncNext]_replicationVars
    PROVE  ApplyInv'
  <1>0. /\ applied \in Seq(Sent) /\ resp.entries \in Seq(Sent)
        /\ Len(applied) \in Nat /\ Len(resp.entries) \in Nat
        /\ a \in Nat /\ a <= Len(resp.entries)
    <2>1. applied \in Seq(Sent) /\ resp.entries \in Seq(Sent)
          /\ a \in 0 .. Len(resp.entries)
      BY DEF SyncTypeOK
    <2> QED  BY <2>1, LenProperties
  <1>1. ASSUME UNCHANGED <<apc, resp, a, applied, calls>> PROVE ApplyInv'
    BY <1>1 DEF ApplyInv, Ahead, Copies, Calls, Same
  <1>2. CASE ApplyOver
    <2>1. apc' = "idle" /\ UNCHANGED <<applied, calls>>
      BY <1>2 DEF ApplyOver
    <2>2. \A e : Copies(e)' = Copies(e) /\ Calls(e)' = Calls(e) /\ ~Ahead(e)'
      BY <2>1 DEF Ahead, Copies, Calls, Same
    <2> QED  BY <2>1, <2>2 DEF ApplyInv
  <1>3. CASE ApplyEntry
    <2>1. PICK w, es, l : w = resp.entries[a + 1] /\ es = resp.entries
                          /\ l = Len(applied)
      OBVIOUS
    <2>2. /\ UNCHANGED <<apc, resp, calls>> /\ a' = a + 1 /\ apc = "apply"
          /\ a + 1 \in 1 .. Len(es) /\ applied' = Append(applied, w)
      BY <1>0, <1>3, <2>1 DEF ApplyEntry
    <2>3. w \in Sent /\ es \in Seq(Sent)
      BY <1>0, <2>1, <2>2, ElementOfSeq
    <2>4. \A y \in a + 2 .. Len(es) : ~Same(es[y], w)
      <3> SUFFICES ASSUME NEW y \in a + 2 .. Len(es) PROVE es[y].slot # w.slot
        BY DEF Same
      <3>1. y \in 1 .. Len(es) /\ a + 1 < y
        BY <1>0, <2>1
      <3>2. es[y] \in Sent
        BY <2>3, <3>1, ElementOfSeq
      <3>3. w.slot < es[y].slot
        BY <2>1, <2>2, <3>1 DEF ReplyInv
      <3> QED  BY <2>3, <3>2, <3>3, SentType
    <2>5. PICK new : new = applied'
      OBVIOUS
    <2>6. /\ Len(new) = l + 1 /\ new[l + 1] = w
          /\ \A x \in 1 .. l : new[x] = applied[x] /\ x \in 1 .. Len(new)
      BY <1>0, <2>1, <2>2, <2>3, <2>5, Appended
    <2>7. ASSUME NEW y \in 1 .. a + 1
          PROVE  \E x \in 1 .. Len(new) : new[x] = es[y]
      <3>1. CASE y = a + 1
        BY <1>0, <2>1, <2>6, <3>1
      <3>2. CASE y \in 1 .. a
        <4>1. PICK x \in 1 .. l : applied[x] = es[y]
          BY <2>1, <2>2, <3>2 DEF ApplyInv
        <4> QED  BY <2>6, <4>1
      <3> QED  BY <1>0, <2>7, <3>1, <3>2
    <2>8. ASSUME NEW e \in Sent
          PROVE  /\ Cardinality(Copies(e)') <= Cardinality(Calls(e)')
                 /\ Ahead(e)' => Cardinality(Copies(e)') < Cardinality(Calls(e)')
      <3>1. Calls(e)' = Calls(e)
        BY <2>2 DEF Calls, Same
      <3>2. Ahead(e)' => \E y \in a + 2 .. Len(es) : Same(es[y], e)
        BY <1>0, <2>1, <2>2 DEF Ahead, Same
      <3>3. CASE Same(w, e)
        <4>1. Ahead(e)
          <5>1. a + 1 \in a + 1 .. Len(es)
            BY <1>0, <2>2
          <5> QED  BY <2>1, <2>2, <3>3, <5>1 DEF Ahead
        <4>2. Cardinality(Copies(e)) < Cardinality(Calls(e))
          BY <4>1 DEF ApplyInv
        <4>3. Cardinality(Copies(e)') = Cardinality(Copies(e)) + 1
          BY <2>2, <2>3, <3>3, CopiesAppend
        <4>4. ~Ahead(e)'
          BY <2>4, <3>2, <3>3, SameEquivalent
        <4> QED  BY <3>1, <4>2, <4>3, <4>4, TalliesFinite
      <3>4. CASE ~Same(w, e)
        <4>1. Copies(e)' = Copies(e)
          BY <2>2, <2>3, <3>4, CopiesAppend
        <4>2. Ahead(e)' => Ahead(e)
          <5>1. \A y \in a + 2 .. Len(es) : y \in a + 1 .. Len(es)
            BY <1>0
          <5> QED  BY <2>1, <2>2, <3>2, <5>1 DEF Ahead
        <4> QED  BY <3>1, <4>1, <4>2 DEF ApplyInv
      <3> QED  BY <3>3, <3>4
    <2> QED  BY <2>1, <2>2, <2>5, <2>7, <2>8 DEF ApplyInv
  <1>4. ASSUME NEW m \in replies, ApplySync(m) PROVE ApplyInv'
    <2>1. PICK es : es = m.entries
      OBVIOUS
    <2>2. /\ apc' = "apply" /\ resp'.entries = es /\ a' = 0 /\ applied' = applied
          /\ calls' = Append(calls, es)
      BY <1>4, <2>1 DEF ApplySync
    <2>3. es \in Seq(Sent)
      BY <2>1 DEF SyncTypeOK
    <2>4. ASSUME NEW e \in Sent
          PROVE  /\ Cardinality(Copies(e)') <= Cardinality(Calls(e)')
                 /\ Ahead(e)' => Cardinality(Copies(e)') < Cardinality(Calls(e)')
      <3>1. Copies(e)' = Copies(e)
        BY <2>2 DEF Copies, Same
      <3>2. Cardinality(Copies(e)) <= Cardinality(Calls(e))
        BY DEF ApplyInv
      <3>3. PICK c, d, p : /\ c = Cardinality(Copies(e)) /\ d = Cardinality(Calls(e))
                           /\ p = Cardinality(Calls(e)')
        OBVIOUS
      <3>4. p \in {d, d + 1} /\ ((\E y \in 1 .. Len(es) : Same(es[y], e)) => p = d + 1)
        BY <2>2, <2>3, <3>3, CallsAppend
      <3>5. c \in Nat /\ d \in Nat /\ c <= d
        BY <3>2, <3>3, TalliesFinite
      <3>6. Ahead(e)' => \E y \in 1 .. Len(es) : Same(es[y], e)
        BY <2>2 DEF Ahead, Same
      <3> QED  BY <3>1, <3>3, <3>4, <3>5, <3>6
    <2> QED  BY <2>2, <2>4 DEF ApplyInv
  <1>5. CASE PeerStep
    <2>1. CASE PeerWrite \/ PeerDrain
      BY <1>1, <2>1 DEF PeerWrite, PeerDrain
    <2> QED
      BY <1>2, <1>3, <1>4, <1>5, <2>1
         DEF PeerStep, ApplyFails, ApplyPanics, ApplyReturns
  <1> QED
    BY <1>1, <1>5, SyncSteps, RegionFrame, LoadFrame, ServerFrame DEF peerVars

-----------------------------------------------------------------------------
(* Type correctness *)

LEMMA LoadType ==
    ASSUME SyncTypeOK, LoadStep
    PROVE  /\ loads' \in Seq(0 .. Len(Chunk)) /\ Len(loads') <= MaxLoads
           /\ Len(loads) <= Len(loads') /\ Len(loads) \in Nat
           /\ loading' \in BOOLEAN /\ chunkLoaded' \in BOOLEAN
           /\ (loading' \/ chunkLoaded') => loads' # <<>>
  <1>0. /\ loads \in Seq(0 .. Len(Chunk)) /\ Len(loads) <= MaxLoads
        /\ loading \in BOOLEAN /\ chunkLoaded \in BOOLEAN
        /\ (loading \/ chunkLoaded) => loads # <<>>
        /\ Len(loads) \in Nat /\ Len(Chunk) \in Nat /\ MaxLoads \in Nat
    BY ChunkAssumption, PeerAssumption, LenProperties DEF SyncTypeOK
  <1>1. CASE LoadChunk
    <2>1. PICK new : new = loads'
      OBVIOUS
    <2>2. new \in Seq(0 .. Len(Chunk)) /\ Len(new) = Len(loads) + 1
      BY <1>0, <1>1, <2>1, Appended DEF LoadChunk
    <2>3. new # <<>>
      BY <1>0, <2>2
    <2> QED  BY <1>0, <1>1, <2>1, <2>2, <2>3 DEF LoadChunk
  <1>2. CASE LoadRecord
    <2>1. PICK l, c : l = Len(loads) /\ c = loads[l]
      OBVIOUS
    <2>2. l \in 1 .. Len(loads)
      BY <1>0, <1>2, <2>1, EmptySeq DEF LoadRecord
    <2>3. c \in 0 .. Len(Chunk) /\ c < Len(Chunk)
      BY <1>0, <1>2, <2>1, <2>2, ElementOfSeq DEF LoadRecord, Last
    <2>4. c + 1 \in 0 .. Len(Chunk)
      BY <1>0, <2>3
    <2>5. loads' = [loads EXCEPT ![l] = c + 1]
      BY <1>2, <2>1 DEF LoadRecord
    <2>6. loads' \in Seq(0 .. Len(Chunk)) /\ Len(loads') = Len(loads)
      BY <1>0, <2>2, <2>4, <2>5, ExceptSeq
    <2>7. loads' # <<>>
      BY <1>0, <2>1, <2>2, <2>6, EmptySeq
    <2> QED  BY <1>0, <1>2, <2>6, <2>7 DEF LoadRecord
  <1>3. CASE LoadReturns \/ LoadFails \/ MunmapChunk
    <2>a. /\ loads' = loads
          /\ \/ loading /\ loading' = FALSE /\ chunkLoaded' = TRUE
             \/ loading /\ loading' = FALSE /\ chunkLoaded' = chunkLoaded
             \/ loading' = loading /\ chunkLoaded' = FALSE
      BY <1>3 DEF LoadReturns, LoadFails, MunmapChunk
    <2>1. /\ loads' = loads
          /\ loading' \in BOOLEAN /\ chunkLoaded' \in BOOLEAN
          /\ (loading' \/ chunkLoaded') => (loading \/ chunkLoaded)
      <3>0. loading \in BOOLEAN /\ chunkLoaded \in BOOLEAN
        BY <1>0
      <3>1. CASE loading /\ loading' = FALSE /\ chunkLoaded' = TRUE
        BY <2>a, <3>1
      <3>2. CASE loading /\ loading' = FALSE /\ chunkLoaded' = chunkLoaded
        BY <2>a, <3>0, <3>2
      <3>3. CASE loading' = loading /\ chunkLoaded' = FALSE
        BY <2>a, <3>0, <3>3
      <3> QED  BY <2>a, <3>1, <3>2, <3>3
    <2>2. Len(loads) <= Len(loads')
      BY <1>0, <2>1
    <2>3. loads' \in Seq(0 .. Len(Chunk)) /\ Len(loads') <= MaxLoads
      BY <1>0, <2>1
    <2>4. (loading' \/ chunkLoaded') => loads' # <<>>
      <3>1. (loading \/ chunkLoaded) => loads # <<>>
        BY <1>0, Zenon
      <3>2. loads # <<>> => loads' # <<>>
        BY <2>1
      <3> QED  BY <2>1, <3>1, <3>2, Zenon
    <2> QED  BY <1>0, <2>1, <2>2, <2>3, <2>4, Zenon
  <1> QED  BY <1>1, <1>2, <1>3 DEF LoadStep

LEMMA SyncTypeServer ==
    ASSUME SyncTypeOK, RoomInv, TypeOK', ServerStep
    PROVE  SyncTypeOK'
  <1> USE DEF SyncTypeOK
  <1>0. UNCHANGED <<loads, loading, chunkLoaded, apc, resp, a, held, applied,
                    calls>>
    BY ServerFrame DEF loadVars, peerVars
  <1>a. /\ results \in Seq(Sent) /\ sure \subseteq Slots
        /\ 0 \in 0 .. MaxSlots /\ k \in Nat /\ n \in Nat
        /\ Len(loads) \in Nat /\ <<>> \in Seq(Sent) /\ Len(Chunk) \in Nat
    BY SlotsAssumption, ChunkAssumption, LenProperties
  <1>1. CASE ChunkEntry \/ SyncEntry
    <2>1. /\ UNCHANGED <<spc, from, n, array, sure, steady, syncs, replies>>
          /\ k' = k + 1
          /\ (spc = "entry" /\ k < n) \/ (spc = "chunk" /\ k < Len(Chunk))
      BY <1>1, Collects DEF RoomInv
    <2>2. k' \in Nat /\ (spc' = "entry" => k' <= n')
          /\ (spc' = "chunk" => k' <= Len(Chunk))
      BY <1>a, <2>1
    <2>3. results' \in Seq(Sent)
      BY <1>1, <1>a, Collects, Appended DEF RoomInv
    <2> QED  BY <1>0, <2>1, <2>2, <2>3
  <1>2. CASE SyncDone
    BY <1>0, <1>2 DEF SyncDone
  <1>3. CASE Reply
    <2> DEFINE m == [entries |-> results,
                     counted |-> IF steady /\ from < 0
                                 THEN {Message(fill, s) : s \in sure \cap settled}
                                 ELSE {}]
    <2>1. m.entries \in Seq(Sent) /\ m.counted \subseteq Data
      <3>1. ASSUME NEW s \in Slots PROVE Message(fill, s) \in Data
        BY DEF Message, Data, RoomInv, RegionInv, RegionTypeOK
      <3> QED  BY <1>a, <3>1
    <2>2. replies' = replies \cup {m}
      BY <1>3 DEF Reply
    <2> HIDE DEF m
    <2>3. \A r \in replies' \cup {resp} :
              r.entries \in Seq(Sent) /\ r.counted \subseteq Data
      BY <2>1, <2>2
    <2>4. /\ spc' = "idle" /\ from' = 0 /\ n' = 0 /\ k' = 0 /\ results' = <<>>
          /\ sure' = {} /\ array' = 0 /\ steady' = FALSE /\ UNCHANGED syncs
      BY <1>3 DEF Reply
    <2>5. array' \in 0 .. Len(loads') /\ sure' \subseteq Slots
          /\ results' \in Seq(Sent)
      BY <1>0, <1>a, <2>4
    <2>6. resp'.entries = resp.entries
      BY <1>0
    <2> QED  BY <1>0, <1>a, <2>3, <2>4, <2>5, <2>6
  <1>4. ASSUME NEW f \in Stamps, HandleSync(f) PROVE SyncTypeOK'
    <2>1. /\ from' = f /\ k' = 0 /\ steady' = TRUE /\ results' = <<>>
          /\ UNCHANGED replies
      BY <1>4 DEF HandleSync
    <2>2. syncs' \in 0 .. MaxSyncs
      BY <1>4, PeerAssumption DEF HandleSync
    <2>3. /\ n' \in 0 .. MaxSlots /\ sure' \subseteq Slots
          /\ array' \in 0 .. Len(loads) /\ spc' \in {"entry", "chunk"}
          /\ spc' = "chunk" => array' # 0
      <3>1. committed \in 0 .. MaxSlots /\ Whole \subseteq Slots
        BY Committed DEF RoomInv, RegionInv, Whole
      <3>2. chunkLoaded => Len(loads) # 0
        BY <1>a, EmptySeq
      <3> QED  BY <1>4, <1>a, <3>1, <3>2 DEF HandleSync
    <2>4. 0 <= n' /\ 0 <= Len(Chunk)
      BY <1>a, <2>3, SlotsAssumption
    <2> QED  BY <1>0, <1>a, <2>1, <2>2, <2>3, <2>4
  <1> QED  BY <1>1, <1>2, <1>3, <1>4 DEF ServerStep

LEMMA SyncTypePeer ==
    ASSUME SyncTypeOK, TypeOK', PeerStep
    PROVE  SyncTypeOK'
  <1> USE DEF SyncTypeOK
  <1>0. UNCHANGED <<loads, loading, chunkLoaded, spc, from, n, k, array, results,
                    sure, steady, syncs, replies>>
    BY PeerFrame DEF loadVars, syncVars
  <1>a. /\ 0 \in 0 .. PeerSlots /\ PeerSlots \in Nat /\ MaxApplies \in Nat
        /\ Len(resp.entries) \in Nat /\ applied \in Seq(Sent)
        /\ resp.entries \in Seq(Sent)
    BY PeerAssumption, LenProperties
  <1>1. CASE ApplyOver /\ held' \in 0 .. PeerSlots
    <2>1. /\ NoResponse.entries \in Seq(Sent) /\ NoResponse.counted \subseteq Data
          /\ Len(NoResponse.entries) = 0
      BY DEF NoResponse
    <2>2. apc' = "idle" /\ resp' = NoResponse /\ a' = 0
          /\ UNCHANGED <<applied, calls>>
      BY <1>1 DEF ApplyOver
    <2> QED  BY <1>0, <1>1, <2>1, <2>2
  <1>2. CASE ApplyEntry
    <2>1. /\ UNCHANGED <<apc, resp, calls>> /\ a' = a + 1
          /\ a < Len(resp.entries) /\ held < PeerSlots /\ held' = held + 1
          /\ applied' = Append(applied, resp.entries[a + 1])
      BY <1>2 DEF ApplyEntry
    <2>2. a + 1 \in 1 .. Len(resp.entries)
      BY <1>a, <2>1
    <2>3. applied' \in Seq(Sent)
      <3>1. resp.entries[a + 1] \in Sent
        BY <1>a, <2>2, ElementOfSeq
      <3> QED  BY <1>a, <2>1, <3>1, Appended
    <2>4. held' \in 0 .. PeerSlots /\ a' \in 0 .. Len(resp'.entries)
      BY <1>a, <2>1, <2>2
    <2> QED  BY <1>0, <2>1, <2>3, <2>4
  <1>3. CASE PeerWrite
    BY <1>0, <1>a, <1>3 DEF PeerWrite
  <1>4. CASE PeerDrain
    BY <1>0, <1>a, <1>4 DEF PeerDrain
  <1>5. ASSUME NEW m \in replies, ApplySync(m) PROVE SyncTypeOK'
    <2>1. /\ apc' = "apply" /\ resp' = m /\ a' = 0 /\ UNCHANGED <<held, applied>>
          /\ calls' = Append(calls, m.entries) /\ Len(calls) < MaxApplies
      BY <1>5 DEF ApplySync
    <2>2. m.entries \in Seq(Sent) /\ m.counted \subseteq Data
          /\ Len(m.entries) \in Nat
      BY LenProperties
    <2>3. calls' \in Seq(Seq(Sent)) /\ Len(calls') <= MaxApplies
      <3>1. PICK es : es = m.entries /\ es \in Seq(Sent)
        BY <2>2
      <3>2. /\ calls' \in Seq(Seq(Sent)) /\ Len(calls) \in Nat
            /\ Len(calls') = Len(calls) + 1
        BY <2>1, <3>1, Appended
      <3> QED  BY <1>a, <2>1, <3>2
    <2>4. 0 \in 0 .. Len(m.entries)
      BY <2>2
    <2> QED  BY <1>0, <2>1, <2>2, <2>3, <2>4
  <1> QED
    BY <1>a, <1>1, <1>2, <1>3, <1>4, <1>5
       DEF PeerStep, ApplyFails, ApplyPanics, ApplyReturns

LEMMA SyncTypeNext ==
    ASSUME SyncTypeOK, RoomInv, TypeOK', [SyncNext]_replicationVars
    PROVE  SyncTypeOK'
  <1>1. CASE RegionStep
    <2>1. /\ UNCHANGED <<loads, loading, chunkLoaded, spc, from, n, k, array,
                         results, sure, syncs, replies, apc, resp, a, held,
                         applied, calls>>
          /\ steady' \in BOOLEAN
      BY <1>1, RegionFrame DEF loadVars, peerVars, RegionStep
    <2> QED  BY <2>1 DEF SyncTypeOK
  <1>2. CASE LoadStep
    <2>1. UNCHANGED <<spc, from, n, k, array, results, sure, steady, syncs,
                      replies, apc, resp, a, held, applied, calls>>
      BY <1>2, LoadFrame DEF syncVars, peerVars
    <2>2. array' \in 0 .. Len(loads')
      BY <1>2, <2>1, LoadType DEF SyncTypeOK
    <2> QED  BY <1>2, <2>1, <2>2, LoadType DEF SyncTypeOK
  <1>3. ASSUME UNCHANGED <<vars, loadVars, syncVars, peerVars>>,
               replies' \subseteq replies
        PROVE  SyncTypeOK'
    <2>1. UNCHANGED <<loads, loading, chunkLoaded, spc, from, n, k, array,
                      results, sure, steady, syncs, apc, resp, a, held,
                      applied, calls>>
      BY <1>3 DEF loadVars, syncVars, peerVars
    <2>2. \A m \in replies' \cup {resp'} :
              m.entries \in Seq(Sent) /\ m.counted \subseteq Data
      BY <1>3, <2>1 DEF SyncTypeOK
    <2> QED  BY <2>1, <2>2 DEF SyncTypeOK
  <1> QED  BY <1>1, <1>2, <1>3, SyncTypeServer, SyncTypePeer, SyncSteps

-----------------------------------------------------------------------------
(* The invariant *)

LEMMA SyncInvInit == SyncInit => SyncInv
  <1> SUFFICES ASSUME SyncInit PROVE SyncInv
    OBVIOUS
  <1>1. RoomInv
    BY RoomInit DEF SyncInit
  <1>2. SyncTypeOK
    <2>1. /\ 0 \in 0 .. MaxSlots /\ 0 \in 0 .. MaxSyncs
          /\ 0 \in 0 .. PeerSlots /\ 0 <= MaxApplies /\ 0 <= MaxLoads
      BY SlotsAssumption, PeerAssumption
    <2>2. NoResponse.entries = <<>> /\ NoResponse.counted = {}
      BY DEF NoResponse
    <2>3. \A m \in replies \cup {resp} :
              m.entries \in Seq(Sent) /\ m.counted \subseteq Data
      <3>1. replies \cup {resp} = {NoResponse} /\ <<>> \in Seq(Sent)
        BY DEF SyncInit
      <3> QED  BY <2>2, <3>1
    <2>4. a \in 0 .. Len(resp.entries)
      BY <2>2 DEF SyncInit
    <2>5. /\ loads \in Seq(0 .. Len(Chunk)) /\ results \in Seq(Sent)
          /\ applied \in Seq(Sent) /\ calls \in Seq(Seq(Sent))
          /\ Len(loads) = 0 /\ Len(calls) = 0
      BY DEF SyncInit
    <2>6. /\ ~loading /\ ~chunkLoaded /\ spc = "idle" /\ from = 0 /\ n = 0
          /\ k = 0 /\ array = 0 /\ sure = {} /\ steady = FALSE /\ syncs = 0
          /\ apc = "idle" /\ held = 0 /\ loading = FALSE /\ chunkLoaded = FALSE
      BY DEF SyncInit
    <2>7. array \in 0 .. Len(loads)
      BY <2>5, <2>6
    <2> QED
      BY <1>1, <2>1, <2>3, <2>4, <2>5, <2>6, <2>7 DEF SyncTypeOK, RoomInv
  <1>3. OrderInv /\ CompleteInv
    BY DEF SyncInit, OrderInv, Ordered, CompleteInv
  <1>4. ReplyInv
    BY DEF SyncInit, ReplyInv, NoResponse
  <1>5. ApplyInv
    <2>1. \A e \in Sent : Copies(e) = {}
      BY DEF SyncInit, Copies
    <2>2. \A e \in Sent : Calls(e) = {} /\ ~Ahead(e)
      BY DEF SyncInit, Calls, Ahead
    <2>3. Cardinality({}) <= Cardinality({})
      BY FS_EmptySet
    <2>4. \A e \in Sent : Cardinality(Copies(e)) <= Cardinality(Calls(e))
      BY <2>1, <2>2, <2>3
    <2> QED  BY <2>2, <2>4 DEF ApplyInv, SyncInit
  <1> QED  BY <1>1, <1>2, <1>3, <1>4, <1>5 DEF SyncInv

LEMMA SyncInvNext == SyncInv /\ [SyncNext]_replicationVars => SyncInv'
  <1> SUFFICES ASSUME SyncInv, [SyncNext]_replicationVars PROVE SyncInv'
    OBVIOUS
  <1>1. RoomInv' /\ TypeOK'
    BY RoomAside, RoomNext DEF SyncInv, RoomInv
  <1> QED
    BY <1>1, SyncTypeNext, OrderNext, CompleteNext, ReplyNext, ApplyNext
    DEF SyncInv

LEMMA SyncInvariant == SyncSpec => []SyncInv
  BY SyncInvInit, SyncInvNext, PTL DEF SyncSpec

\* Server, network and peer keep every variable in its type.
THEOREM SyncTypeCorrect == SyncSpec => []SyncTypeOK
  <1>1. SyncInv => SyncTypeOK
    BY DEF SyncInv
  <1> QED  BY <1>1, SyncInvariant, PTL

\* HandleSync never puts a slot into a response twice or out of its order, and
\* nothing newer before an entry that was settled when it was read, whatever
\* order writers commit in and whatever drains and WriteEntry do to the region
\* under its loop.
THEOREM ResponsesOrdered == SyncSpec => []ResponseOrdered
  <1>1. SyncInv => ResponseOrdered
    BY DEF SyncInv, OrderInv, ResponseOrdered
  <1> QED  BY <1>1, SyncInvariant, PTL

\* Unless a drain came, a response to a request from before all time has every
\* settled entry that was counted for it, and one to a later request none.
THEOREM ResponsesComplete == SyncSpec => []ResponseComplete
  <1>1. SyncInv => ResponseComplete
    <2> SUFFICES ASSUME SyncInv, spc = "reply", steady,
                        NEW s \in sure \cap settled
                 PROVE  IF from < 0
                        THEN \E x \in 1 .. Len(results) :
                                results[x].data = Message(fill, s)
                        ELSE \A x \in 1 .. Len(results) : results[x].slot # s
      BY DEF ResponseComplete
    <2>1. n <= k /\ sure \subseteq 0 .. n - 1 /\ Answered(s)
      BY DEF SyncInv, CompleteInv
    <2>2. n \in Nat /\ k \in Nat
      BY SlotsAssumption DEF SyncInv, SyncTypeOK
    <2>3. s < k
      BY <2>1, <2>2
    <2> QED  BY <2>1, <2>3 DEF Answered
  <1> QED  BY <1>1, SyncInvariant, PTL

\* When ApplySync has passed all entries of a response, the peer was written
\* every message that the server had settled and counted for it.
THEOREM SyncsCopy == SyncSpec => []SyncCopies
  <1>1. SyncInv => SyncCopies
    <2> SUFFICES ASSUME SyncInv, apc = "apply", a = Len(resp.entries),
                        NEW d \in resp.counted
                 PROVE  \E y \in 1 .. Len(applied) : applied[y].data = d
      BY DEF SyncCopies
    <2>1. PICK z \in 1 .. Len(resp.entries) : resp.entries[z].data = d
      BY DEF SyncInv, ReplyInv
    <2>2. PICK y \in 1 .. Len(applied) : applied[y] = resp.entries[z]
      BY DEF SyncInv, ApplyInv
    <2> QED  BY <2>1, <2>2
  <1> QED  BY <1>1, SyncInvariant, PTL

\* ApplySync writes an entry no more often than it is called with it.
THEOREM AppliedOncePerCall == SyncSpec => []OncePerCall
  <1>1. SyncInv => OncePerCall
    <2> SUFFICES ASSUME SyncInv, NEW x \in 1 .. Len(applied)
                 PROVE  Cardinality(Copies(applied[x]))
                            <= Cardinality(Calls(applied[x]))
      BY DEF OncePerCall
    <2>1. applied[x] \in Sent
      BY ElementOfSeq DEF SyncInv, SyncTypeOK
    <2> QED  BY <2>1 DEF SyncInv, ApplyInv
  <1> QED  BY <1>1, SyncInvariant, PTL
=============================================================================
