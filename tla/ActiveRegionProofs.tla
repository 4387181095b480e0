------------------------- MODULE ActiveRegionProofs -------------------------
(* What TLAPS proves of ActiveRegion, for its readers to build on: the       *)
(* inductive invariant, and what a step leaves of the slots it does not fill. *)
EXTENDS ActiveRegion, FiniteSetTheorems, TLAPS

\* A count is a number of slots, and grows with what it counts.
LEMMA Counts ==
    ASSUME NEW S, S \subseteq Slots
    PROVE  IsFiniteSet(S) /\ Cardinality(S) \in 0 .. MaxSlots
  <1>1. IsFiniteSet(Slots) /\ Cardinality(Slots) = MaxSlots
    BY FS_Interval, SlotsAssumption DEF Slots
  <1>2. IsFiniteSet(S) /\ Cardinality(S) <= MaxSlots
    BY <1>1, FS_Subset
  <1> QED  BY <1>2, FS_CardinalityType, SlotsAssumption

LEMMA CountsGrow ==
    ASSUME NEW S, NEW T, S \subseteq T, T \subseteq Slots
    PROVE  Cardinality(S) <= Cardinality(T)
  BY Counts, FS_Subset

LEMMA Committed ==
    ASSUME RegionTypeOK
    PROVE  /\ committed \in 0 .. MaxSlots
           /\ done \subseteq Slots /\ settled \subseteq Slots
  <1>1. done \subseteq Slots /\ settled \subseteq Slots
    BY SlotsAssumption DEF RegionTypeOK, Slots
  <1> QED  BY <1>1, Counts DEF committed

LEMMA RegionStart == RegionInit => RegionInv
  <1> SUFFICES ASSUME RegionInit PROVE RegionInv
    OBVIOUS
  <1>1. 0 \in Slots
    BY SlotsAssumption DEF Slots
  <1>2. Zero \in Entry
    BY <1>1, SlotsAssumption DEF Zero, Entry, None, Data
  <1>3. entries \in [0 .. 1 -> [Slots -> Entry]]
    BY <1>2 DEF RegionInit
  <1>4. mine \in [Writers -> [fill : 0 .. fill, slot : Slots, room_id : Rooms]]
    BY <1>1, SlotsAssumption DEF RegionInit, NoSlot
  <1>5. RegionTypeOK
    BY <1>3, <1>4, SlotsAssumption DEF RegionInit, RegionTypeOK
  <1>6. WritersApart
    BY DEF RegionInit, WritersApart
  <1>7. MessagesInPlace
    BY DEF RegionInit, MessagesInPlace, Zero, None
  <1> QED  BY <1>5, <1>6, <1>7 DEF RegionInv

LEMMA RegionSame == RegionInv /\ UNCHANGED regionVars => RegionInv'
  BY DEF RegionInv, RegionTypeOK, WritersApart, MessagesInPlace, regionVars

-----------------------------------------------------------------------------
(* What is stored in an entry. *)

\* A slot s of region r is not one that a reader may take for settled.
Loose(r, s) == r = fill % 2 => s \notin settled'

\* Storing data that are not a message, or the message of its place.
LEMMA StoreKeeps ==
    ASSUME RegionTypeOK, MessagesInPlace, UNCHANGED fill,
           NEW f \in Nat, NEW s \in Slots, NEW e \in Entry,
           Store(f, s, e), settled' \subseteq settled, Loose(f % 2, s),
           e.data.fill >= 0 => e.data = Message(f, s) /\ f <= fill
    PROVE  /\ entries' \in [0 .. 1 -> [Slots -> Entry]]
           /\ MessagesInPlace'
  <1>1. f % 2 \in 0 .. 1
    OBVIOUS
  <1>2. entries' \in [0 .. 1 -> [Slots -> Entry]]
    BY <1>1 DEF RegionTypeOK, Store
  <1>3. ASSUME NEW r \in 0 .. 1, NEW t \in Slots
        PROVE  LET d == entries'[r][t].data
               IN  /\ d.fill >= 0 => d.slot = t /\ d.fill <= fill /\ d.fill % 2 = r
                   /\ (r = fill % 2 /\ t \in settled') =>
                         d = Message(fill, t) /\ entries'[r][t].timestamp = 0
    <2>1. CASE r = f % 2 /\ t = s
      <3>1. entries'[r][t] = e
        BY <1>1, <2>1 DEF Store, RegionTypeOK
      <3> QED  BY <2>1, <3>1 DEF Loose, Message
    <2>2. CASE ~(r = f % 2 /\ t = s)
      <3>1. entries'[r][t] = entries[r][t]
        BY <1>1, <2>2 DEF Store, RegionTypeOK
      <3> QED  BY <3>1 DEF MessagesInPlace
    <2> QED  BY <2>1, <2>2
  <1> QED  BY <1>2, <1>3 DEF MessagesInPlace

\* The same for entries that differ in their other fields only.
LEMMA EntriesSame ==
    ASSUME RegionTypeOK, MessagesInPlace, UNCHANGED <<fill, entries>>,
           \A s \in Slots : s \in settled' =>
               \/ s \in settled
               \/ At(fill, s).data = Message(fill, s) /\ At(fill, s).timestamp = 0
    PROVE  MessagesInPlace'
  <1>1. fill % 2 \in 0 .. 1
    BY DEF RegionTypeOK
  <1> QED  BY <1>1 DEF MessagesInPlace, At

LEMMA EntryAt ==
    ASSUME RegionTypeOK, NEW f \in Nat, NEW s \in Slots
    PROVE  At(f, s) \in Entry
  BY DEF RegionTypeOK, At

LEMMA MineTypes ==
    ASSUME RegionInv, NEW w \in Writers, wpc[w] # "idle"
    PROVE  /\ mine[w].fill \in Nat /\ mine[w].fill <= fill /\ fill \in Nat
           /\ mine[w].fill # fill => mine[w].fill % 2 # fill % 2
           /\ mine[w].slot \in Slots /\ mine[w].room_id \in Rooms
           /\ mine[w].fill = fill =>
                mine[w].slot \in 0 .. cursor - 1 /\ mine[w].slot \notin done
  <1>1. /\ fill \in Nat /\ cursor \in Nat
        /\ mine[w] \in [fill : 0 .. fill, slot : Slots, room_id : Rooms]
    BY DEF RegionInv, RegionTypeOK
  <1>2. /\ mine[w].fill \in {fill, fill - 1}
        /\ mine[w].fill = fill => mine[w].slot < cursor /\ mine[w].slot \notin done
    BY DEF RegionInv, WritersApart
  <1>3. mine[w].fill \in 0 .. fill /\ mine[w].slot \in Slots
        /\ mine[w].room_id \in Rooms
    BY <1>1
  <1> DEFINE m == mine[w].fill
  <1>4. m \in 0 .. fill /\ m \in {fill, fill - 1}
    BY <1>2, <1>3
  <1> HIDE DEF m
  <1>5. m # fill => m % 2 # fill % 2
    BY <1>1, <1>4
  <1> QED  BY <1>1, <1>2, <1>3, <1>5, SlotsAssumption DEF m, Slots

-----------------------------------------------------------------------------
(* The steps *)

LEMMA TakeSlotKeeps ==
    ASSUME RegionInv, NEW w \in Writers, NEW q \in Rooms, TakeSlot(w, q)
    PROVE  RegionInv'
  <1>1. /\ fill \in Nat /\ cursor \in 0 .. MaxSlots /\ cursor < MaxSlots
        /\ done \subseteq 0 .. cursor - 1 /\ MaxSlots \in Nat
    BY SlotsAssumption DEF RegionInv, RegionTypeOK, TakeSlot
  <1>2. cursor \in Slots /\ cursor' \in 0 .. MaxSlots
        /\ done \subseteq 0 .. cursor' - 1 /\ cursor \notin done
    BY <1>1 DEF Slots, TakeSlot
  <1>3. mine' \in [Writers -> [fill : 0 .. fill, slot : Slots, room_id : Rooms]]
    BY <1>1, <1>2 DEF RegionInv, RegionTypeOK, TakeSlot
  <1>4. RegionTypeOK'
    BY <1>2, <1>3 DEF RegionInv, RegionTypeOK, TakeSlot
  <1>5. \A u \in Writers : wpc'[u] # "idle" =>
            IF u = w THEN mine'[u] = [fill |-> fill, slot |-> cursor, room_id |-> q]
            ELSE wpc[u] # "idle" /\ mine'[u] = mine[u]
    BY DEF RegionInv, RegionTypeOK, TakeSlot
  <1>6. \A u \in Writers : (wpc[u] # "idle" /\ mine[u].fill = fill) =>
            mine[u].slot < cursor
    BY DEF RegionInv, WritersApart
  <1>7. \A u \in Writers : wpc[u] # "idle" => mine[u].slot \in Slots
    BY MineTypes
  <1>8. WritersApart'
    <2> SUFFICES ASSUME NEW u \in Writers, wpc'[u] # "idle"
                 PROVE  /\ mine'[u].fill \in {fill, fill - 1}
                        /\ mine'[u].fill = fill => mine'[u].slot < cursor'
                                                   /\ mine'[u].slot \notin done
                        /\ \A x \in Writers \ {u} :
                             (wpc'[x] # "idle" /\ mine'[x].fill = mine'[u].fill) =>
                                 mine'[x].slot # mine'[u].slot
      BY DEF WritersApart, TakeSlot
    <2>1. CASE u = w
      <3>1. mine'[u].fill = fill /\ mine'[u].slot = cursor
        BY <1>5, <2>1
      <3>2. \A x \in Writers \ {u} :
               (wpc'[x] # "idle" /\ mine'[x].fill = fill) => mine'[x].slot < cursor
        BY <1>5, <1>6, <2>1
      <3> QED  BY <1>1, <1>2, <3>1, <3>2 DEF TakeSlot
    <2>2. CASE u # w
      <3>1. wpc[u] # "idle" /\ mine'[u] = mine[u]
        BY <1>5, <2>2
      <3>2. /\ mine[u].fill \in {fill, fill - 1}
            /\ mine[u].fill = fill => mine[u].slot < cursor /\ mine[u].slot \notin done
            /\ \A x \in Writers \ {u} :
                 (wpc[x] # "idle" /\ mine[x].fill = mine[u].fill) =>
                     mine[x].slot # mine[u].slot
        BY <3>1 DEF RegionInv, WritersApart
      <3>3. \A x \in Writers \ {u} :
                 (wpc'[x] # "idle" /\ mine'[x].fill = mine[u].fill) =>
                     mine'[x].slot # mine[u].slot
        BY <1>1, <1>2, <1>5, <3>2, <1>7, <3>1 DEF Slots
      <3>4. mine[u].slot < cursor => mine[u].slot < cursor'
        BY <1>1, <1>7, <3>1 DEF TakeSlot, Slots
      <3> QED  BY <3>1, <3>2, <3>3, <3>4
    <2> QED  BY <2>1, <2>2
  <1>9. MessagesInPlace'
    BY EntriesSame DEF RegionInv, TakeSlot
  <1> QED  BY <1>4, <1>8, <1>9 DEF RegionInv

\* A step of a writer that leaves it in its slot.
LEMMA WritersStay ==
    ASSUME RegionInv, NEW w \in Writers, wpc[w] # "idle",
           \A u \in Writers \ {w} : wpc'[u] = wpc[u],
           UNCHANGED <<fill, cursor, done, mine>>
    PROVE  WritersApart'
  BY DEF RegionInv, WritersApart

LEMMA StoresKeep ==
    ASSUME RegionInv, NEW w \in Writers, StoreFields(w) \/ StoreData(w)
    PROVE  RegionInv'
  <1>1. PICK f, s, q : f = mine[w].fill /\ s = mine[w].slot /\ q = mine[w].room_id
    OBVIOUS
  <1>2. wpc[w] # "idle"
    BY DEF StoreFields, StoreData
  <1>3. /\ f \in Nat /\ f <= fill /\ s \in Slots /\ q \in Rooms
        /\ f # fill => f % 2 # fill % 2
        /\ f = fill => s \notin done
    BY <1>1, <1>2, MineTypes
  <1>4. At(f, s) \in Entry
    BY <1>3, EntryAt DEF RegionInv
  <1>5. PICK e : /\ Store(f, s, e)
                 /\ \/ e = [room_id |-> q, timestamp |-> 0,
                            state_hash |-> At(f, s).state_hash, data |-> Torn]
                    \/ e = [At(f, s) EXCEPT !.data = Message(f, s)]
    BY <1>1 DEF StoreFields, StoreData
  <1>6. 0 \in Slots
    BY SlotsAssumption DEF Slots
  <1>t. Torn \in Data /\ Message(f, s) \in Data
    BY <1>3, <1>6 DEF Data, Torn, Message
  <1>7. e \in Entry /\ (e.data.fill >= 0 => e.data = Message(f, s))
    <2>1. PICK d \in Entry, y \in Data : d = At(f, s) /\ y = Message(f, s)
      BY <1>4, <1>t
    <2>2. CASE e = [room_id |-> q, timestamp |-> 0,
                    state_hash |-> d.state_hash, data |-> Torn]
      BY <1>3, <1>t, <2>2 DEF Entry, Torn
    <2>3. CASE e = [d EXCEPT !.data = y]
      BY <2>1, <2>3 DEF Entry
    <2> QED  BY <1>5, <2>1, <2>2, <2>3
  <1>8. /\ UNCHANGED <<fill, cursor, done, settled, mine, reservations>>
        /\ \A u \in Writers \ {w} : wpc'[u] = wpc[u]
        /\ wpc' \in [Writers -> {"idle", "taken", "fields", "data"}]
    BY DEF StoreFields, StoreData, RegionInv, RegionTypeOK
  <1>9. Loose(f % 2, s)
    BY <1>3, <1>8 DEF Loose, RegionInv, RegionTypeOK
  <1>10. entries' \in [0 .. 1 -> [Slots -> Entry]] /\ MessagesInPlace'
    BY <1>3, <1>5, <1>7, <1>8, <1>9, StoreKeeps DEF RegionInv
  <1>11. RegionTypeOK'
    BY <1>8, <1>10 DEF RegionInv, RegionTypeOK
  <1>12. WritersApart'
    BY <1>2, <1>8, WritersStay
  <1> QED  BY <1>10, <1>11, <1>12 DEF RegionInv

LEMMA CommitKeeps ==
    ASSUME RegionInv, NEW w \in Writers, Commit(w)
    PROVE  RegionInv'
  <1>1. PICK f, s : f = mine[w].fill /\ s = mine[w].slot
    OBVIOUS
  <1>2. wpc[w] = "data" /\ wpc[w] # "idle"
    BY DEF Commit
  <1>3. /\ f \in Nat /\ fill \in Nat /\ s \in Slots
        /\ f = fill => s \in 0 .. cursor - 1 /\ s \notin done
    BY <1>1, <1>2, MineTypes
  <1>4. /\ UNCHANGED <<fill, cursor, entries, reservations>>
        /\ wpc' = [wpc EXCEPT ![w] = "idle"] /\ mine' = [mine EXCEPT ![w] = NoSlot]
    BY DEF Commit
  <1>5. \/ f # fill /\ UNCHANGED <<done, settled>>
        \/ /\ f = fill /\ done' = done \cup {s}
           /\ \/ settled' = settled
              \/ /\ settled' = settled \cup {s} /\ At(f, s).data = Message(f, s)
                 /\ At(f, s).timestamp = 0
    BY <1>1 DEF Commit, Intact
  <1>6. 0 \in Slots /\ NoSlot \in [fill : 0 .. fill, slot : Slots, room_id : Rooms]
    BY <1>3, SlotsAssumption DEF Slots, NoSlot
  <1>7. RegionTypeOK'
    <2>1. done' \subseteq 0 .. cursor - 1 /\ settled' \subseteq done'
      BY <1>3, <1>5 DEF RegionInv, RegionTypeOK
    <2> QED  BY <1>4, <1>6, <2>1 DEF RegionInv, RegionTypeOK
  <1>8. MessagesInPlace'
    <2>1. \A t \in Slots : t \in settled' =>
             \/ t \in settled
             \/ At(fill, t).data = Message(fill, t) /\ At(fill, t).timestamp = 0
      BY <1>5
    <2> QED  BY <1>4, <2>1, EntriesSame DEF RegionInv
  <1>9. WritersApart'
    <2>1. \A u \in Writers : wpc'[u] # "idle" =>
              u # w /\ wpc[u] # "idle" /\ mine'[u] = mine[u]
      BY <1>4 DEF RegionInv, RegionTypeOK
    <2>2. \A u \in Writers \ {w} :
              (wpc[u] # "idle" /\ mine[u].fill = f) => mine[u].slot # s
      BY <1>1, <1>2 DEF RegionInv, WritersApart
    <2>3. \A u \in Writers : wpc'[u] # "idle" =>
              (mine[u].fill = fill => mine[u].slot \notin done')
      BY <1>5, <2>1, <2>2 DEF RegionInv, WritersApart
    <2> QED  BY <1>4, <2>1, <2>3 DEF RegionInv, WritersApart
  <1> QED  BY <1>7, <1>8, <1>9 DEF RegionInv

LEMMA ReserveKeeps == RegionInv /\ ReserveSlot => RegionInv'
  <1> SUFFICES ASSUME RegionInv, ReserveSlot PROVE RegionInv'
    OBVIOUS
  <1>1. /\ fill \in Nat /\ cursor \in Slots /\ cursor' \in 0 .. MaxSlots
        /\ done \subseteq 0 .. cursor' - 1
    BY SlotsAssumption DEF RegionInv, RegionTypeOK, ReserveSlot, Slots
  <1>2. reservations' \subseteq Reservations
    BY <1>1 DEF RegionInv, RegionTypeOK, ReserveSlot, Reservations
  <1>3. RegionTypeOK'
    BY <1>1, <1>2 DEF RegionInv, RegionTypeOK, ReserveSlot
  <1>4. \A w \in Writers : wpc[w] # "idle" => mine[w].slot \in Slots
    BY MineTypes
  <1>5. \A w \in Writers : wpc[w] # "idle" =>
            (mine[w].slot < cursor => mine[w].slot < cursor')
    BY <1>1, <1>4 DEF ReserveSlot, Slots
  <1>6. WritersApart'
    BY <1>5 DEF RegionInv, ReserveSlot, WritersApart
  <1>7. MessagesInPlace'
    BY EntriesSame DEF RegionInv, ReserveSlot
  <1> QED  BY <1>3, <1>6, <1>7 DEF RegionInv

LEMMA FillFieldsKeeps ==
    ASSUME RegionInv, NEW v \in reservations, NEW q \in Rooms, NEW t \in Times,
           NEW h \in Hashes, FillFields(v, q, t, h)
    PROVE  RegionInv'
  <1>1. PICK s : s = v.slot
    OBVIOUS
  <1>2. v \in Reservations /\ fill \in Nat /\ s \in Slots /\ 0 \in Slots
    BY <1>1, SlotsAssumption DEF RegionInv, RegionTypeOK, Reservations, Slots
  <1>3. At(fill, s) \in Entry
    BY <1>2, EntryAt DEF RegionInv
  <1>4. PICK e : /\ Store(fill, s, e)
                 /\ e = [room_id |-> q, timestamp |-> t, state_hash |-> h,
                         data |-> Torn]
    BY <1>1 DEF FillFields
  <1>5. e \in Entry /\ ~(e.data.fill >= 0)
    BY <1>2, <1>4 DEF Entry, Data, Torn
  <1>6. /\ UNCHANGED <<fill, cursor, done, wpc, mine>> /\ settled' = settled \ {s}
    BY <1>1 DEF FillFields
  <1>7. Loose(fill % 2, s)
    BY <1>6 DEF Loose
  <1>8. entries' \in [0 .. 1 -> [Slots -> Entry]] /\ MessagesInPlace'
    BY <1>2, <1>4, <1>5, <1>6, <1>7, StoreKeeps DEF RegionInv
  <1>9. reservations' \subseteq Reservations
    BY <1>2 DEF FillFields, RegionInv, RegionTypeOK, Reservations
  <1>10. RegionTypeOK'
    BY <1>6, <1>8, <1>9 DEF RegionInv, RegionTypeOK
  <1>11. WritersApart'
    BY <1>6 DEF RegionInv, WritersApart
  <1> QED  BY <1>8, <1>10, <1>11 DEF RegionInv

LEMMA FillDataKeeps ==
    ASSUME RegionInv, NEW v \in reservations, FillData(v)
    PROVE  RegionInv'
  <1>1. PICK s, f : s = v.slot /\ f = v.into
    OBVIOUS
  <1>2. v \in Reservations /\ fill \in Nat /\ s \in Slots /\ f \in Nat
    BY <1>1 DEF RegionInv, RegionTypeOK, Reservations, FillData
  <1>3. At(f, s) \in Entry
    BY <1>2, EntryAt DEF RegionInv
  <1>4. PICK e : Store(f, s, e) /\ e = [At(f, s) EXCEPT !.data = Filled(s)]
    BY <1>1 DEF FillData
  <1>5. e \in Entry /\ ~(e.data.fill >= 0)
    BY <1>2, <1>3, <1>4 DEF Entry, Data, Filled
  <1>6. /\ UNCHANGED <<fill, cursor, done, wpc, mine>>
        /\ settled' = IF f % 2 = fill % 2 THEN settled \ {s} ELSE settled
        /\ reservations' = reservations \ {v}
    BY <1>1 DEF FillData
  <1>7. Loose(f % 2, s)
    BY <1>6 DEF Loose
  <1>8. entries' \in [0 .. 1 -> [Slots -> Entry]] /\ MessagesInPlace'
    BY <1>1, <1>2, <1>4, <1>5, <1>6, <1>7, StoreKeeps DEF RegionInv
  <1>9. RegionTypeOK'
    BY <1>6, <1>8 DEF RegionInv, RegionTypeOK
  <1>10. WritersApart'
    BY <1>6 DEF RegionInv, WritersApart
  <1> QED  BY <1>8, <1>9, <1>10 DEF RegionInv

LEMMA SwitchKeeps == RegionInv /\ SwitchAndDrain => RegionInv'
  <1> SUFFICES ASSUME RegionInv, SwitchAndDrain PROVE RegionInv'
    OBVIOUS
  <1>1. /\ fill \in Nat /\ fill' = fill + 1 /\ fill' \in Nat
        /\ UNCHANGED <<entries, wpc, mine, reservations>>
        /\ cursor' = 0 /\ done' = {} /\ settled' = {}
    BY DEF SwitchAndDrain, RegionInv, RegionTypeOK
  <1>2. mine' \in [Writers -> [fill : 0 .. fill', slot : Slots, room_id : Rooms]]
    <2>1. 0 .. fill \subseteq 0 .. fill'
      BY <1>1
    <2>2. [fill : 0 .. fill, slot : Slots, room_id : Rooms]
              \subseteq [fill : 0 .. fill', slot : Slots, room_id : Rooms]
      BY <2>1
    <2> QED  BY <1>1, <2>2 DEF RegionInv, RegionTypeOK
  <1>3. RegionTypeOK'
    BY <1>1, <1>2, SlotsAssumption DEF RegionInv, RegionTypeOK
  <1>4. \A w \in Writers : wpc[w] # "idle" => mine[w].fill = fill
    BY DEF SwitchAndDrain, DrainOver
  <1>5. WritersApart'
    BY <1>1, <1>4 DEF RegionInv, WritersApart
  <1>6. MessagesInPlace'
    <2>1. \A d \in Int : d <= fill => d <= fill'
      BY <1>1
    <2>2. \A r \in 0 .. 1, s \in Slots : entries[r][s].data.fill \in Int
      BY DEF RegionInv, RegionTypeOK, Entry, Data
    <2> QED  BY <1>1, <2>1, <2>2 DEF RegionInv, MessagesInPlace
  <1> QED  BY <1>3, <1>5, <1>6 DEF RegionInv

LEMMA NewRegionsKeep == RegionInv /\ NewRegions => RegionInv'
  <1> SUFFICES ASSUME RegionInv, NewRegions PROVE RegionInv'
    OBVIOUS
  <1>1. fill \in Nat /\ fill' = fill + 1 /\ fill' \in Nat
    BY DEF NewRegions, RegionInv, RegionTypeOK
  <1>2. 0 \in Slots
    BY SlotsAssumption DEF Slots
  <1>3. Zero \in Entry
    BY <1>2, SlotsAssumption DEF Zero, Entry, None, Data
  <1>4. entries' \in [0 .. 1 -> [Slots -> Entry]]
    BY <1>3 DEF NewRegions
  <1>5. mine' \in [Writers -> [fill : 0 .. fill', slot : Slots, room_id : Rooms]]
    BY <1>1, <1>2, SlotsAssumption DEF NewRegions, NoSlot
  <1>6. RegionTypeOK'
    BY <1>1, <1>4, <1>5, SlotsAssumption DEF NewRegions, RegionTypeOK
  <1>7. WritersApart' /\ MessagesInPlace'
    BY DEF NewRegions, WritersApart, MessagesInPlace, Zero, None
  <1> QED  BY <1>6, <1>7 DEF RegionInv

LEMMA StoreStepKeeps == RegionInv /\ StoreStep => RegionInv'
  BY TakeSlotKeeps, StoresKeep, CommitKeeps, ReserveKeeps, FillDataKeeps
     DEF StoreStep, WriterStep

LEMMA FillStepKeeps == RegionInv /\ FillStep => RegionInv'
  BY StoreStepKeeps, FillFieldsKeeps DEF FillStep

-----------------------------------------------------------------------------
(* What a step that fills slots leaves alone. *)

\* A settled slot loses its message only by losing that place.
SettledStays ==
    \A s \in settled \cap settled' : At(fill, s)' = At(fill, s)

LEMMA StoreElsewhere ==
    ASSUME RegionTypeOK, UNCHANGED fill, NEW f \in Nat, NEW s \in Slots, NEW e,
           Store(f, s, e),
           f % 2 = fill % 2 => s \notin settled \cap settled'
    PROVE  SettledStays
  <1>1. f % 2 \in 0 .. 1 /\ fill % 2 \in 0 .. 1
    BY DEF RegionTypeOK
  <1> SUFFICES ASSUME NEW t \in settled \cap settled'
               PROVE  entries'[fill % 2][t] = entries[fill % 2][t]
    BY DEF SettledStays, At
  <1>2. t \in Slots
    BY Committed
  <1>3. ~(fill % 2 = f % 2 /\ t = s)
    OBVIOUS
  <1> QED  BY <1>1, <1>2, <1>3 DEF Store, RegionTypeOK

LEMMA FillFacts ==
    ASSUME RegionInv, FillStep
    PROVE  /\ UNCHANGED fill
           /\ done \subseteq done' /\ committed <= committed'
           /\ settled' \cap done \subseteq settled
           /\ SettledStays
  <1>1. UNCHANGED fill
    BY DEF FillStep, StoreStep, WriterStep, TakeSlot, StoreFields, StoreData,
           Commit, ReserveSlot, FillFields, FillData
  <1>2. \A w \in Writers : Commit(w) =>
            /\ done \subseteq done' /\ settled' \cap done \subseteq settled
            /\ SettledStays
    <2> SUFFICES ASSUME NEW w \in Writers, Commit(w)
                 PROVE  /\ done \subseteq done'
                        /\ settled' \cap done \subseteq settled
                        /\ SettledStays
      OBVIOUS
    <2>1. PICK s : s = mine[w].slot
      OBVIOUS
    <2>2. mine[w].fill = fill => s \notin done
      BY <2>1, MineTypes DEF Commit
    <2>3. \/ UNCHANGED <<done, settled>>
          \/ /\ mine[w].fill = fill /\ done' = done \cup {s}
             /\ settled' \subseteq settled \cup {s}
      BY <2>1 DEF Commit
    <2>4. UNCHANGED entries
      BY DEF Commit
    <2> QED  BY <1>1, <2>2, <2>3, <2>4 DEF SettledStays, At
  <1>3. \A w \in Writers : StoreFields(w) \/ StoreData(w) =>
            UNCHANGED <<done, settled>> /\ SettledStays
    <2> SUFFICES ASSUME NEW w \in Writers, StoreFields(w) \/ StoreData(w)
                 PROVE  UNCHANGED <<done, settled>> /\ SettledStays
      OBVIOUS
    <2>1. PICK f, s, e : /\ f = mine[w].fill /\ s = mine[w].slot
                         /\ Store(f, s, e)
      BY DEF StoreFields, StoreData
    <2>2. UNCHANGED <<done, settled>>
      BY DEF StoreFields, StoreData
    <2>3. /\ f \in Nat /\ s \in Slots
          /\ f # fill => f % 2 # fill % 2
          /\ f = fill => s \notin done
      BY <2>1, MineTypes DEF StoreFields, StoreData
    <2>4. settled \subseteq done
      BY DEF RegionInv, RegionTypeOK
    <2>5. f % 2 = fill % 2 => s \notin settled \cap settled'
      BY <2>3, <2>4
    <2>6. SettledStays
      BY <1>1, <2>1, <2>3, <2>5, StoreElsewhere DEF RegionInv
    <2> QED  BY <2>2, <2>6
  <1>4. \A w \in Writers, q \in Rooms : TakeSlot(w, q) =>
            UNCHANGED <<done, settled>> /\ SettledStays
    BY <1>1 DEF TakeSlot, SettledStays, At
  <1>5. ReserveSlot => UNCHANGED <<done, settled>> /\ SettledStays
    BY <1>1 DEF ReserveSlot, SettledStays, At
  <1>6. \A v \in reservations : FillData(v) =>
            UNCHANGED done /\ settled' \subseteq settled /\ SettledStays
    <2> SUFFICES ASSUME NEW v \in reservations, FillData(v)
                 PROVE  UNCHANGED done /\ settled' \subseteq settled /\ SettledStays
      OBVIOUS
    <2>1. PICK f, s, e : f = v.into /\ s = v.slot /\ Store(f, s, e)
      BY DEF FillData
    <2>2. v \in Reservations
      BY DEF RegionInv, RegionTypeOK
    <2>3. f \in Nat /\ s \in Slots
      BY <2>1, <2>2 DEF Reservations, FillData
    <2>4. /\ UNCHANGED done /\ settled' \subseteq settled
          /\ f % 2 = fill % 2 => s \notin settled'
      BY <2>1 DEF FillData
    <2>5. SettledStays
      BY <1>1, <2>1, <2>3, <2>4, StoreElsewhere DEF RegionInv
    <2> QED  BY <2>4, <2>5
  <1>7. \A v \in reservations, q \in Rooms, t \in Times, h \in Hashes :
            FillFields(v, q, t, h) =>
                UNCHANGED done /\ settled' \subseteq settled /\ SettledStays
    <2> SUFFICES ASSUME NEW v \in reservations, NEW q \in Rooms, NEW t \in Times,
                        NEW h \in Hashes, FillFields(v, q, t, h)
                 PROVE  UNCHANGED done /\ settled' \subseteq settled /\ SettledStays
      OBVIOUS
    <2>1. PICK f, s, e : f = fill /\ s = v.slot /\ Store(f, s, e)
      BY DEF FillFields
    <2>2. v \in Reservations /\ fill \in Nat
      BY DEF RegionInv, RegionTypeOK
    <2>3. f \in Nat /\ s \in Slots
      BY <2>1, <2>2 DEF Reservations
    <2>4. UNCHANGED done /\ settled' \subseteq settled /\ s \notin settled'
      BY <2>1 DEF FillFields
    <2>5. SettledStays
      BY <1>1, <2>1, <2>3, <2>4, StoreElsewhere DEF RegionInv
    <2> QED  BY <2>4, <2>5
  <1>8. /\ done \subseteq done' /\ settled' \cap done \subseteq settled
        /\ SettledStays
    <2>1. StoreStep => /\ done \subseteq done' /\ settled' \cap done \subseteq settled
                       /\ SettledStays
      BY <1>2, <1>3, <1>4, <1>5, <1>6, Zenon DEF StoreStep, WriterStep
    <2> QED  BY <1>7, <2>1 DEF FillStep
  <1>9. committed <= committed'
    <2>1. RegionTypeOK'
      BY FillStepKeeps DEF RegionInv
    <2>2. cursor' \in 0 .. MaxSlots /\ done' \subseteq 0 .. cursor' - 1
      BY <2>1, Zenon DEF RegionTypeOK
    <2>3. done' \subseteq Slots
      <3>1. PICK c, D : c = cursor' /\ D = done'
        OBVIOUS
      <3>2. c \in 0 .. MaxSlots /\ D \subseteq 0 .. c - 1
        BY <2>2, <3>1
      <3>3. D \subseteq Slots
        BY <3>2, SlotsAssumption DEF Slots
      <3> QED  BY <3>1, <3>3
    <2> QED  BY <1>8, <2>3, CountsGrow DEF committed
  <1> QED  BY <1>1, <1>8, <1>9

\* A message of the active fill is never of an older one.
LEMMA SettledHold ==
    ASSUME RegionInv, NEW s \in settled
    PROVE  /\ s \in Slots /\ At(fill, s).data = Message(fill, s)
           /\ At(fill, s).timestamp = 0
  <1>1. fill \in Nat /\ s \in Slots
    BY Committed DEF RegionInv, RegionTypeOK
  <1>2. fill % 2 \in 0 .. 1
    BY <1>1
  <1> QED  BY <1>1, <1>2 DEF RegionInv, MessagesInPlace, At
=============================================================================
