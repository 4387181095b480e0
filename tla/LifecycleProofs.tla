--------------------------- MODULE LifecycleProofs ---------------------------
(* What TLAPS proves of Lifecycle, for any number of owners, callers, calls   *)
(* of New, saves and deaths of the process.                                   *)
EXTENDS Lifecycle, FiniteSetTheorems, TLAPS

USE DEF Numbers, Ops

-----------------------------------------------------------------------------
(* What the three kinds of step leave alone *)

LEMMA OwnerFrame ==
    ASSUME NEW o \in Owners, OwnerStep(o)
    PROVE  UNCHANGED <<count, uuidCounter, callVars, saveVars, files, crashes,
                       rolledBack>>
  BY DEF OwnerStep, New, NewReturns, Shutdown, HandleShutdown, Store, Free,
         ClearZig, ShutdownReturns, dbVars

LEMMA CallerFrame ==
    ASSUME NEW c \in Callers, CallerStep(c)
    PROVE  /\ UNCHANGED <<database, closing, news, global_db, globalDB,
                          ownerVars, saveVars, files, crashes, rolledBack>>
           /\ Handles' = Handles
  <1>1. UNCHANGED <<database, closing, news, global_db, globalDB,
                    ownerVars, saveVars, files, crashes, rolledBack>>
    BY DEF CallerStep, Enter, Work, WriteUuid, Call, dbVars
  <1> QED  BY <1>1 DEF Handles, ownerVars

LEMMA SnapshotFrame ==
    ASSUME SnapshotStep
    PROVE  /\ UNCHANGED <<database, count, closing, news, global_db, globalDB,
                          ownerVars, callVars, crashes>>
           /\ Handles' = Handles
  <1>1. UNCHANGED <<database, count, closing, news, global_db, globalDB,
                    ownerVars, callVars, crashes>>
    BY DEF SnapshotStep, ExportChunk, CreateJson, Encode, SaveSnapshot,
           LoadSnapshot, dbVars
  <1> QED  BY <1>1 DEF Handles, ownerVars

LEMMA Steps ==
    ASSUME LifecycleTypeOK, [Next]_vars
    PROVE  \/ (\E o \in Owners : OwnerStep(o)) /\ overlapped' = (overlapped \/ Overlap')
           \/ (\E c \in Callers : CallerStep(c)) /\ overlapped' = (overlapped \/ Overlap')
           \/ SnapshotStep /\ overlapped' = (overlapped \/ Overlap')
           \/ Die /\ crashes <= MaxCrashes
           \/ UNCHANGED vars
  <1>1. ASSUME Crash PROVE Die /\ crashes <= MaxCrashes
    BY <1>1, LifecycleAssumption DEF Crash, LifecycleTypeOK
  <1>2. ASSUME NEW o \in Owners, NilPanic(o) PROVE Die /\ crashes <= MaxCrashes
    BY <1>2 DEF NilPanic
  <1> QED  BY <1>1, <1>2 DEF Next

-----------------------------------------------------------------------------
(* Type correctness *)

LEMMA TypeInit == Init => LifecycleTypeOK
  <1> SUFFICES ASSUME Init PROVE LifecycleTypeOK
    OBVIOUS
  <1>1. /\ 0 \in 0 .. MaxNews /\ 0 \in 0 .. MaxSlots /\ 0 \in 0 .. MaxSaves
        /\ 0 \in 0 .. MaxCrashes + 1
    BY LifecycleAssumption
  <1>2. json \in [save : 0 .. MaxSaves, whole : BOOLEAN, uuid : Nat,
                 calm : BOOLEAN]
        /\ chunk \in [save : 0 .. MaxSaves, count : 0 .. MaxSlots]
    BY <1>1 DEF Init, NoSnapshot
  <1>3. /\ database \in [Numbers -> {"none", "live", "freed"}]
        /\ count \in [Numbers -> 0 .. MaxSlots]
        /\ closing \in [Numbers -> BOOLEAN]
        /\ uuidCounter \in [Numbers -> Nat]
    BY <1>1 DEF Init
  <1>4. /\ opc \in [Owners -> {"idle", "new", "store", "free", "null", "clear"}]
        /\ oarg \in [Owners -> 0 .. MaxNews] /\ package \in [Owners -> BOOLEAN]
        /\ cpc \in [Callers -> {"idle", "enter", "inside", "uuid"}]
        /\ op \in [Callers -> Ops] /\ handle \in [Callers -> 0 .. MaxNews]
        /\ db \in [Callers -> 0 .. MaxNews]
    BY <1>1 DEF Init
  <1> QED  BY <1>1, <1>2, <1>3, <1>4 DEF Init, LifecycleTypeOK

LEMMA TypeOwner ==
    ASSUME LifecycleTypeOK, Placed, NEW o \in Owners, OwnerStep(o),
           overlapped' \in BOOLEAN
    PROVE  LifecycleTypeOK'
  <1> USE DEF LifecycleTypeOK
  <1>0. UNCHANGED <<count, uuidCounter, cpc, op, handle, db, spc, shandle,
                    saves, chunk, json, crashes, rolledBack>>
    BY OwnerFrame DEF callVars, saveVars, files
  <1>a. 0 \in 0 .. MaxNews /\ MaxNews \in Nat
    BY LifecycleAssumption
  <1>1. CASE New(o)
    <2>1. CASE UNCHANGED <<news, database, opc, oarg>>
      BY <1>0, <1>a, <1>1, <2>1 DEF New
    <2>2. CASE /\ news' = news + 1 /\ global_db' = news + 1
               /\ database' = [database EXCEPT ![news + 1] = "live"]
               /\ opc' = [opc EXCEPT ![o] = "new"]
               /\ oarg' = [oarg EXCEPT ![o] = news + 1]
      <3>1. news + 1 \in 0 .. MaxNews
        BY <1>a, <1>1 DEF New
      <3>2. news' \in 0 .. MaxNews /\ global_db' \in 0 .. MaxNews
            /\ oarg' \in [Owners -> 0 .. MaxNews]
        BY <2>2, <3>1
      <3>3. /\ database' \in [Numbers -> {"none", "live", "freed"}]
            /\ opc' \in [Owners -> {"idle", "new", "store", "free", "null", "clear"}]
        BY <2>2
      <3>4. renewed' \in BOOLEAN
            /\ UNCHANGED <<closing, globalDB, package, touched>>
        BY <1>1 DEF New
      <3> QED  BY <1>0, <3>2, <3>3, <3>4
    <2> QED  BY <1>1, <2>1, <2>2 DEF New
  <1>2. CASE NewReturns(o)
    BY <1>0, <1>a, <1>2 DEF NewReturns
  <1>3. CASE Shutdown(o)
    BY <1>0, <1>3 DEF Shutdown, dbVars
  <1>4. CASE Store(o)
    BY <1>0, <1>4 DEF Store
  <1>5. CASE Free(o)
    BY <1>0, <1>5 DEF Free, Touch
  <1>6. CASE ClearZig(o)
    BY <1>0, <1>a, <1>6 DEF ClearZig
  <1>7. CASE ShutdownReturns(o)
    BY <1>0, <1>a, <1>7 DEF ShutdownReturns
  <1>8. ASSUME NEW h \in Handles, HandleShutdown(o, h)
        PROVE  LifecycleTypeOK'
    BY <1>0, <1>8 DEF HandleShutdown
  <1> QED
    BY <1>1, <1>2, <1>3, <1>4, <1>5, <1>6, <1>7, <1>8 DEF OwnerStep

LEMMA TypeCaller ==
    ASSUME LifecycleTypeOK, Placed, NEW c \in Callers, CallerStep(c),
           overlapped' \in BOOLEAN
    PROVE  LifecycleTypeOK'
  <1> USE DEF LifecycleTypeOK
  <1>0. UNCHANGED <<database, closing, news, global_db, globalDB, opc, oarg,
                    package, renewed, spc, shandle, saves, chunk, json,
                    crashes, rolledBack>>
    BY CallerFrame DEF ownerVars, saveVars, files
  <1>a. 0 \in 0 .. MaxNews /\ 0 \in 0 .. MaxSlots
        /\ MaxNews \in Nat /\ MaxSlots \in Nat
    BY LifecycleAssumption
  <1>1. CASE Enter(c)
    <2>1. UNCHANGED <<count, uuidCounter, touched>>
      BY <1>1 DEF Enter, dbVars
    <2>2. /\ cpc' \in [Callers -> {"idle", "enter", "inside", "uuid"}]
          /\ op' \in [Callers -> Ops] /\ handle' \in [Callers -> 0 .. MaxNews]
          /\ db' \in [Callers -> 0 .. MaxNews]
      <3>1. CASE Leave(c)
        BY <1>a, <3>1 DEF Leave
      <3>2. CASE /\ cpc' = [cpc EXCEPT ![c] = "inside"]
                 /\ db' = [db EXCEPT ![c] = global_db]
                 /\ op' = op /\ handle' = handle
        BY <3>2
      <3> QED  BY <1>1, <3>1, <3>2 DEF Enter
    <2> QED  BY <1>0, <2>1, <2>2
  <1>2. CASE Work(c)
    <2>1. db[c] \in Numbers
      BY <1>2 DEF Work, Placed
    <2>2. count' \in [Numbers -> 0 .. MaxSlots]
      <3>1. count[db[c]] \in 0 .. MaxSlots
        BY <2>1
      <3>2. CASE op[c] = "write" /\ count[db[c]] < MaxSlots
        <4>1. count[db[c]] + 1 \in 0 .. MaxSlots
          BY <1>a, <3>1, <3>2
        <4>2. count' = [count EXCEPT ![db[c]] = @ + 1]
          BY <1>2, <3>2 DEF Work
        <4> QED  BY <4>1, <4>2
      <3>3. CASE ~(op[c] = "write" /\ count[db[c]] < MaxSlots)
        BY <1>a, <1>2, <3>3 DEF Work
      <3> QED  BY <3>2, <3>3
    <2>3. touched' \in BOOLEAN /\ uuidCounter' = uuidCounter
      BY <1>2 DEF Work, Touch
    <2>4. /\ cpc' \in [Callers -> {"idle", "enter", "inside", "uuid"}]
          /\ op' \in [Callers -> Ops] /\ handle' \in [Callers -> 0 .. MaxNews]
          /\ db' \in [Callers -> 0 .. MaxNews]
      <3>1. CASE Leave(c)
        BY <1>a, <3>1 DEF Leave
      <3>2. CASE op[c] = "write" /\ count[db[c]] < MaxSlots
        BY <1>a, <1>2, <3>2 DEF Work
      <3> QED  BY <1>2, <3>1, <3>2 DEF Work
    <2> QED  BY <1>0, <2>2, <2>3, <2>4
  <1>3. CASE WriteUuid(c)
    <2>1. uuidCounter' \in [Numbers -> Nat]
      <3>1. uuidCounter' = [uuidCounter EXCEPT ![handle[c]] = @ + 1]
            /\ handle[c] \in Numbers
        BY <1>3 DEF WriteUuid, Placed, Handles
      <3>2. uuidCounter[handle[c]] + 1 \in Nat
        BY <3>1
      <3> QED  BY <3>1, <3>2
    <2> QED  BY <1>0, <1>a, <1>3, <2>1 DEF WriteUuid, Leave
  <1>4. ASSUME NEW h \in Handles, NEW x \in Ops, Call(c, h, x)
        PROVE  LifecycleTypeOK'
    <2>1. h \in 0 .. MaxNews
      BY <1>a DEF Handles
    <2>2. UNCHANGED <<count, uuidCounter, touched, db>>
      BY <1>4 DEF Call, dbVars
    <2> QED  BY <1>0, <1>4, <2>1, <2>2 DEF Call
  <1> QED  BY <1>1, <1>2, <1>3, <1>4 DEF CallerStep

LEMMA TypeSnapshot ==
    ASSUME LifecycleTypeOK, Placed, SnapshotStep, overlapped' \in BOOLEAN
    PROVE  LifecycleTypeOK'
  <1> USE DEF LifecycleTypeOK
  <1>0. UNCHANGED <<database, count, closing, news, global_db, globalDB, opc,
                    oarg, package, renewed, cpc, op, handle, db, crashes>>
    BY SnapshotFrame DEF ownerVars, callVars
  <1>a. 0 \in 0 .. MaxNews /\ 0 \in 0 .. MaxSaves /\ MaxSaves \in Nat
        /\ MaxNews \in Nat
    BY LifecycleAssumption
  <1>1. ASSUME NEW h \in Handles, SaveSnapshot(h)
        PROVE  LifecycleTypeOK'
    <2>1. h \in 0 .. MaxNews
      BY <1>a DEF Handles
    <2>2. UNCHANGED <<uuidCounter, chunk, json, touched, rolledBack>>
      BY <1>1 DEF SaveSnapshot, dbVars, files
    <2>3. saves' \in 0 .. MaxSaves
      BY <1>a, <1>1 DEF SaveSnapshot
    <2> QED  BY <1>0, <1>1, <2>1, <2>2, <2>3 DEF SaveSnapshot
  <1>2. CASE ExportChunk
    <2>1. touched' \in BOOLEAN /\ UNCHANGED <<uuidCounter, json, rolledBack>>
      BY <1>2 DEF ExportChunk, Touch, dbVars
    <2>2. chunk' \in [save : 0 .. MaxSaves, count : 0 .. MaxSlots]
      <3>1. CASE chunk' = chunk
        BY <3>1
      <3>2. CASE global_db # 0 /\ chunk' = [save |-> saves, count |-> count[global_db]]
        <4>1. count[global_db] \in 0 .. MaxSlots
          BY <1>a, <3>2
        <4> QED  BY <3>2, <4>1
      <3> QED  BY <1>2, <3>1, <3>2 DEF ExportChunk
    <2>3. spc' \in {"idle", "export", "create", "encode"}
          /\ shandle' \in 0 .. MaxNews /\ saves' = saves
      BY <1>a, <1>2 DEF ExportChunk, SaveReturns
    <2> QED  BY <1>0, <2>1, <2>2, <2>3
  <1>3. CASE CreateJson
    <2>1. json' \in [save : 0 .. MaxSaves, whole : BOOLEAN, uuid : Nat,
                     calm : BOOLEAN]
      <3>1. NoSnapshot \in [save : 0 .. MaxSaves, whole : BOOLEAN, uuid : Nat,
                           calm : BOOLEAN]
        BY <1>a DEF NoSnapshot
      <3> QED  BY <1>3, <3>1 DEF CreateJson
    <2> QED  BY <1>0, <1>a, <1>3, <2>1 DEF CreateJson, SaveReturns, dbVars
  <1>4. CASE Encode
    <2>1. uuidCounter[shandle] \in Nat
      BY <1>4 DEF Encode, Placed, Handles
    <2> DEFINE calm == global_db = shandle /\ shandle \notin rolledBack
                       /\ Handles = {shandle}
                       /\ \A c \in Callers : cpc[c] # "uuid"
    <2>2. calm \in BOOLEAN
      OBVIOUS
    <2>3. json' = [save |-> saves, whole |-> TRUE,
                   uuid |-> uuidCounter[shandle], calm |-> calm]
      BY <1>4 DEF Encode
    <2> HIDE DEF calm
    <2>4. json' \in [save : 0 .. MaxSaves, whole : BOOLEAN, uuid : Nat,
                     calm : BOOLEAN]
      BY <2>1, <2>2, <2>3
    <2> QED  BY <1>0, <1>a, <1>4, <2>4 DEF Encode, SaveReturns, dbVars
  <1>5. ASSUME NEW h \in Handles, LoadSnapshot(h)
        PROVE  LifecycleTypeOK'
    BY <1>0, <1>5 DEF LoadSnapshot, Handles, saveVars, files
  <1> QED  BY <1>1, <1>2, <1>3, <1>4, <1>5 DEF SnapshotStep

LEMMA TypeNext ==
    ASSUME LifecycleTypeOK, Placed, [Next]_vars
    PROVE  LifecycleTypeOK'
  <1>1. CASE Die /\ crashes <= MaxCrashes
    <2>1. /\ 0 \in 0 .. MaxNews /\ 0 \in 0 .. MaxSlots
          /\ crashes' \in 0 .. MaxCrashes + 1
      BY <1>1, LifecycleAssumption DEF Die, LifecycleTypeOK
    <2>2. /\ database' \in [Numbers -> {"none", "live", "freed"}]
          /\ count' \in [Numbers -> 0 .. MaxSlots]
          /\ closing' \in [Numbers -> BOOLEAN]
          /\ uuidCounter' \in [Numbers -> Nat]
      BY <1>1, <2>1 DEF Die
    <2>3. /\ opc' \in [Owners -> {"idle", "new", "store", "free", "null", "clear"}]
          /\ oarg' \in [Owners -> 0 .. MaxNews] /\ package' \in [Owners -> BOOLEAN]
          /\ cpc' \in [Callers -> {"idle", "enter", "inside", "uuid"}]
          /\ op' \in [Callers -> Ops] /\ handle' \in [Callers -> 0 .. MaxNews]
          /\ db' \in [Callers -> 0 .. MaxNews]
      BY <1>1, <2>1 DEF Die
    <2>4. /\ UNCHANGED <<chunk, json, saves>>
          /\ news' = 0 /\ global_db' = 0 /\ globalDB' = 0
          /\ spc' = "idle" /\ shandle' = 0 /\ rolledBack' = {}
          /\ touched' = FALSE /\ overlapped' = FALSE /\ renewed' = FALSE
      BY <1>1 DEF Die, files
    <2>5. touched' \in BOOLEAN /\ overlapped' \in BOOLEAN /\ renewed' \in BOOLEAN
      BY <2>4
    <2>6. news' \in 0 .. MaxNews /\ global_db' \in 0 .. MaxNews
          /\ globalDB' \in 0 .. MaxNews /\ shandle' \in 0 .. MaxNews
          /\ spc' \in {"idle", "export", "create", "encode"}
          /\ rolledBack' \subseteq Numbers
      BY <2>1, <2>4
    <2>7. /\ chunk' \in [save : 0 .. MaxSaves, count : 0 .. MaxSlots]
          /\ json' \in [save : 0 .. MaxSaves, whole : BOOLEAN, uuid : Nat,
                        calm : BOOLEAN]
          /\ saves' \in 0 .. MaxSaves
      BY <2>4 DEF LifecycleTypeOK
    <2> QED  BY <2>1, <2>2, <2>3, <2>5, <2>6, <2>7 DEF LifecycleTypeOK
  <1>2. CASE UNCHANGED vars
    BY <1>2 DEF vars, dbVars, ownerVars, callVars, saveVars, files,
                LifecycleTypeOK
  <1>3. ASSUME overlapped' = (overlapped \/ Overlap')
        PROVE  overlapped' \in BOOLEAN
    BY <1>3
  <1>4. ASSUME NEW o \in Owners, OwnerStep(o), overlapped' \in BOOLEAN
        PROVE  LifecycleTypeOK'
    BY <1>4, TypeOwner
  <1>5. ASSUME NEW c \in Callers, CallerStep(c), overlapped' \in BOOLEAN
        PROVE  LifecycleTypeOK'
    BY <1>5, TypeCaller
  <1>6. ASSUME SnapshotStep, overlapped' \in BOOLEAN
        PROVE  LifecycleTypeOK'
    BY <1>6, TypeSnapshot
  <1> QED  BY <1>1, <1>2, <1>3, <1>4, <1>5, <1>6, Steps

-----------------------------------------------------------------------------
(* Handles are never taken back, and stay what calls and saves work on *)

LEMMA HandlesKept ==
    ASSUME LifecycleTypeOK, Placed, NEW o \in Owners, OwnerStep(o)
    PROVE  Handles \subseteq Handles' /\ news' \in Nat /\ news <= news'
  <1> USE DEF LifecycleTypeOK
  <1>1. CASE New(o)
    <2>1. CASE UNCHANGED <<news, database, opc, oarg>>
      BY <2>1 DEF Handles
    <2>2. CASE /\ news' = news + 1
               /\ opc' = [opc EXCEPT ![o] = "new"]
               /\ oarg' = [oarg EXCEPT ![o] = news + 1]
      <3>1. ASSUME NEW n \in Handles PROVE n \in Handles'
        <4>1. n \in Numbers /\ n <= news /\ n # news + 1 /\ n <= news + 1
          BY LifecycleAssumption DEF Handles
        <4>2. ASSUME NEW p \in Owners PROVE ~(opc'[p] = "new" /\ oarg'[p] = n)
          BY <2>2, <4>1 DEF Handles
        <4> QED  BY <2>2, <4>1, <4>2 DEF Handles
      <3> QED  BY <2>2, <3>1, LifecycleAssumption
    <2> QED  BY <1>1, <2>1, <2>2 DEF New
  <1>2. CASE news' = news /\ \A p \in Owners : opc'[p] = "new" =>
                                       opc[p] = "new" /\ oarg'[p] = oarg[p]
    BY <1>2, LifecycleAssumption DEF Handles
  <1>3. CASE NewReturns(o)
    BY <1>2, <1>3 DEF NewReturns
  <1>4. CASE Shutdown(o)
    BY <1>2, <1>4 DEF Shutdown, dbVars
  <1>5. CASE Store(o)
    BY <1>2, <1>5 DEF Store
  <1>6. CASE Free(o)
    BY <1>2, <1>6 DEF Free
  <1>7. CASE ClearZig(o)
    BY <1>2, <1>7 DEF ClearZig
  <1>8. CASE ShutdownReturns(o)
    BY <1>2, <1>8 DEF ShutdownReturns
  <1>9. ASSUME NEW h \in Handles, HandleShutdown(o, h)
        PROVE  Handles \subseteq Handles' /\ news' \in Nat /\ news <= news'
    BY <1>2, <1>9 DEF HandleShutdown
  <1> QED
    BY <1>1, <1>3, <1>4, <1>5, <1>6, <1>7, <1>8, <1>9 DEF OwnerStep

LEMMA PlacedOwner ==
    ASSUME LifecycleTypeOK, Placed, NEW o \in Owners, OwnerStep(o)
    PROVE  Placed'
  <1> USE DEF LifecycleTypeOK
  <1>1. /\ UNCHANGED <<cpc, op, handle, db, spc, shandle>>
        /\ Handles \subseteq Handles' /\ news <= news'
    BY OwnerFrame, HandlesKept DEF callVars, saveVars
  <1>2. /\ \A c \in Callers : /\ cpc'[c] # "idle" => handle'[c] \in Handles'
                              /\ cpc'[c] = "inside" => db'[c] \in Numbers
        /\ spc' # "idle" => shandle' \in Handles'
    BY <1>1 DEF Placed
  <1>3. CASE New(o)
    <2>1. CASE UNCHANGED <<news, database, opc, oarg>>
      BY <1>2, <1>3, <2>1 DEF New, Placed
    <2>2. CASE /\ news' = news + 1 /\ global_db' = news + 1
               /\ opc' = [opc EXCEPT ![o] = "new"]
               /\ oarg' = [oarg EXCEPT ![o] = news + 1]
      <3>1. \A p \in Owners : opc'[p] = "new" => oarg'[p] \in 1 .. news'
        BY <2>2, LifecycleAssumption DEF Placed
      <3> QED  BY <1>2, <2>2, <3>1 DEF Placed
    <2> QED  BY <1>3, <2>1, <2>2 DEF New
  <1>4. CASE /\ news' = news /\ global_db' \in {global_db, 0}
             /\ \A p \in Owners : opc'[p] = "new" =>
                                  opc[p] = "new" /\ oarg'[p] = oarg[p]
    BY <1>2, <1>4 DEF Placed
  <1>5. CASE NewReturns(o)
    BY <1>4, <1>5 DEF NewReturns
  <1>6. CASE Shutdown(o)
    BY <1>4, <1>6 DEF Shutdown, dbVars
  <1>7. CASE Store(o)
    BY <1>4, <1>7 DEF Store
  <1>8. CASE Free(o)
    BY <1>4, <1>8 DEF Free
  <1>9. CASE ClearZig(o)
    BY <1>4, <1>9 DEF ClearZig
  <1>10. CASE ShutdownReturns(o)
    BY <1>4, <1>10 DEF ShutdownReturns
  <1>11. ASSUME NEW h \in Handles, HandleShutdown(o, h) PROVE Placed'
    BY <1>4, <1>11 DEF HandleShutdown
  <1> QED
    BY <1>3, <1>5, <1>6, <1>7, <1>8, <1>9, <1>10, <1>11 DEF OwnerStep

LEMMA PlacedCaller ==
    ASSUME LifecycleTypeOK, Placed, NEW c \in Callers, CallerStep(c)
    PROVE  Placed'
  <1> USE DEF LifecycleTypeOK
  <1>1. UNCHANGED <<news, global_db, opc, oarg, spc, shandle>>
        /\ Handles' = Handles
    BY CallerFrame DEF ownerVars, saveVars
  <1> SUFFICES ASSUME NEW d \in Callers
               PROVE  /\ cpc'[d] # "idle" => handle'[d] \in Handles
                      /\ cpc'[d] = "inside" => db'[d] \in Numbers
    BY <1>1 DEF Placed
  <1>2. CASE Leave(c)
    BY <1>2 DEF Leave, Placed
  <1>3. CASE Enter(c)
    <2>1. CASE global_db # 0 /\ ~Leave(c)
      <3>1. global_db \in Numbers
        BY <2>1, LifecycleAssumption
      <3> QED  BY <1>3, <2>1, <3>1 DEF Enter, Placed
    <2> QED  BY <1>2, <1>3, <2>1 DEF Enter
  <1>4. CASE Work(c)
    <2>1. CASE cpc' = [cpc EXCEPT ![c] = "uuid"] /\ db' = [db EXCEPT ![c] = 0]
               /\ handle' = handle /\ cpc[c] = "inside"
      BY <2>1 DEF Placed
    <2> QED  BY <1>2, <1>4, <2>1 DEF Work
  <1>5. CASE WriteUuid(c)
    BY <1>2, <1>5 DEF WriteUuid
  <1>6. ASSUME NEW h \in Handles, NEW x \in Ops, Call(c, h, x)
        PROVE  /\ cpc'[d] # "idle" => handle'[d] \in Handles
               /\ cpc'[d] = "inside" => db'[d] \in Numbers
    BY <1>6 DEF Call, Placed
  <1> QED  BY <1>3, <1>4, <1>5, <1>6 DEF CallerStep

LEMMA PlacedNext ==
    ASSUME LifecycleTypeOK, Placed, [Next]_vars
    PROVE  Placed'
  <1>1. CASE Die
    BY <1>1 DEF Die, Placed
  <1>2. CASE UNCHANGED vars
    BY <1>2 DEF vars, dbVars, ownerVars, callVars, saveVars, Placed, Handles
  <1>3. ASSUME SnapshotStep PROVE Placed'
    <2>1. /\ UNCHANGED <<news, global_db, opc, oarg, cpc, handle, db>>
          /\ Handles' = Handles
      BY <1>3, SnapshotFrame DEF ownerVars, callVars
    <2>2. spc' # "idle" => shandle' \in Handles
      BY <1>3 DEF SnapshotStep, ExportChunk, CreateJson, Encode, SaveReturns,
                  SaveSnapshot, LoadSnapshot, saveVars, Placed
    <2> QED  BY <2>1, <2>2 DEF Placed
  <1> QED  BY <1>1, <1>2, <1>3, PlacedOwner, PlacedCaller, Steps

-----------------------------------------------------------------------------
(* Freed memory is used only by what overlaps with a shutdown *)

LEMMA FreedOwner ==
    ASSUME LifecycleTypeOK, Placed, FreedInv, NEW o \in Owners, OwnerStep(o),
           overlapped' = (overlapped \/ Overlap')
    PROVE  FreedInv'
  <1> USE DEF LifecycleTypeOK
  <1>1. UNCHANGED <<cpc, db>>
    BY OwnerFrame DEF callVars
  <1>2. CASE overlapped'
    BY <1>2 DEF FreedInv
  <1>3. CASE ~overlapped'
    <2>1. /\ ~overlapped /\ ~Overlap' /\ ~touched /\ ~Overlap
          /\ \A c \in Callers : cpc[c] = "inside" => database[db[c]] = "live"
          /\ global_db # 0 =>
                database[global_db] = "live" \/ \E p \in Owners : opc[p] = "null"
      BY <1>3 DEF FreedInv
    <2> SUFFICES /\ ~touched'
                 /\ \A c \in Callers : cpc'[c] = "inside" => database'[db'[c]] = "live"
                 /\ global_db' # 0 => \/ database'[global_db'] = "live"
                                      \/ \E p \in Owners : opc'[p] = "null"
      BY <2>1 DEF FreedInv
    <2>2. CASE New(o)
      <3>1. touched' = touched
        BY <2>2 DEF New
      <3>2. CASE global_db' = 0 /\ database' = database
        BY <1>1, <2>1, <3>1, <3>2
      <3>3. CASE /\ global_db' = news + 1 /\ news < MaxNews
                 /\ database' = [database EXCEPT ![news + 1] = "live"]
        <4>1. news + 1 \in Numbers /\ news + 1 # 0
          BY <3>3, LifecycleAssumption
        <4>2. ASSUME NEW c \in Callers, cpc[c] = "inside"
              PROVE  database'[db[c]] = "live"
          BY <2>1, <3>3, <4>1, <4>2 DEF Placed
        <4> QED  BY <1>1, <2>1, <3>1, <3>3, <4>1, <4>2
      <3> QED  BY <2>2, <3>2, <3>3 DEF New
    <2>3. CASE /\ UNCHANGED <<database, global_db, touched>>
               /\ \A p \in Owners : opc[p] = "null" => opc'[p] = "null"
      BY <1>1, <2>1, <2>3
    <2>4. CASE NewReturns(o)
      BY <2>3, <2>4 DEF NewReturns
    <2>5. CASE Shutdown(o)
      BY <2>3, <2>5 DEF Shutdown, dbVars
    <2>6. CASE Store(o)
      BY <2>3, <2>6 DEF Store
    <2>7. CASE Free(o)
      <3>1. CASE global_db = 0
        BY <2>3, <2>7, <3>1 DEF Free
      <3>2. CASE global_db # 0
        <4>1. opc[o] = "free" /\ opc'[o] = "null"
          BY <2>7, <3>2 DEF Free
        <4>2. \A p \in Owners : opc[p] # "null"
          <5> SUFFICES ASSUME NEW p \in Owners, opc[p] = "null" PROVE FALSE
            OBVIOUS
          <5>1. p \in Owners \ {o} /\ Freeing(o) /\ Freeing(p)
            BY <4>1 DEF Freeing
          <5> QED  BY <2>1, <5>1 DEF Overlap
        <4>3. touched' = touched
          BY <2>1, <2>7, <3>2, <4>2 DEF Free, Touch
        <4>4. \A c \in Callers : cpc'[c] # "inside"
          BY <2>1, <4>1 DEF Overlap, Freeing, InZig
        <4> QED  BY <2>1, <4>1, <4>3, <4>4
      <3> QED  BY <3>1, <3>2
    <2>8. CASE ClearZig(o)
      BY <1>1, <2>1, <2>8 DEF ClearZig
    <2>9. CASE ShutdownReturns(o)
      BY <2>3, <2>9 DEF ShutdownReturns
    <2>10. ASSUME NEW h \in Handles, HandleShutdown(o, h)
           PROVE  /\ UNCHANGED <<database, global_db, touched>>
                  /\ \A p \in Owners : opc[p] = "null" => opc'[p] = "null"
      BY <2>10 DEF HandleShutdown
    <2> QED
      BY <2>2, <2>3, <2>4, <2>5, <2>6, <2>7, <2>8, <2>9, <2>10 DEF OwnerStep
  <1> QED  BY <1>2, <1>3

\* A call or a save in Zig code finds what it was given still there.
LEMMA FreedInside ==
    ASSUME FreedInv, ~overlapped, InZig, global_db # 0
    PROVE  database[global_db] = "live"
  <1>1. ASSUME NEW p \in Owners, opc[p] = "null" PROVE FALSE
    BY <1>1 DEF FreedInv, Overlap, Freeing
  <1> QED  BY <1>1 DEF FreedInv

LEMMA FreedCaller ==
    ASSUME LifecycleTypeOK, Placed, FreedInv, NEW c \in Callers, CallerStep(c),
           overlapped' = (overlapped \/ Overlap')
    PROVE  FreedInv'
  <1> USE DEF LifecycleTypeOK
  <1>1. UNCHANGED <<database, global_db, opc>>
    BY CallerFrame DEF ownerVars
  <1>2. CASE overlapped'
    BY <1>2 DEF FreedInv
  <1>3. CASE ~overlapped'
    <2>1. /\ ~overlapped /\ ~Overlap' /\ ~touched /\ ~Overlap
          /\ \A d \in Callers : cpc[d] = "inside" => database[db[d]] = "live"
          /\ global_db # 0 =>
                database[global_db] = "live" \/ \E p \in Owners : opc[p] = "null"
      BY <1>3 DEF FreedInv
    <2> SUFFICES /\ ~touched'
                 /\ \A d \in Callers : cpc'[d] = "inside" => database[db'[d]] = "live"
      BY <1>1, <2>1 DEF FreedInv
    <2>2. CASE ~touched' /\ Leave(c)
      BY <2>1, <2>2 DEF Leave
    <2>3. CASE Enter(c)
      <3>1. CASE /\ global_db # 0 /\ cpc' = [cpc EXCEPT ![c] = "inside"]
                 /\ db' = [db EXCEPT ![c] = global_db]
        <4>1. database[global_db] = "live"
          <5>1. InZig
            BY <2>3 DEF Enter, InZig
          <5> QED  BY <2>1, <3>1, <5>1, FreedInside
        <4>2. touched' = touched
          BY <2>3 DEF Enter
        <4> QED  BY <2>1, <3>1, <4>1, <4>2
      <3> QED  BY <2>1, <2>2, <2>3, <3>1 DEF Enter
    <2>4. CASE Work(c)
      <3>1. ~touched'
        BY <2>1, <2>4 DEF Work, Touch
      <3>2. CASE /\ cpc' = [cpc EXCEPT ![c] = "uuid"]
                 /\ db' = [db EXCEPT ![c] = 0]
        BY <2>1, <3>1, <3>2
      <3> QED  BY <2>2, <2>4, <3>1, <3>2 DEF Work
    <2>5. CASE WriteUuid(c)
      BY <2>1, <2>2, <2>5 DEF WriteUuid
    <2>6. ASSUME NEW h \in Handles, NEW x \in Ops, Call(c, h, x)
          PROVE  /\ ~touched'
                 /\ \A d \in Callers : cpc'[d] = "inside" => database[db'[d]] = "live"
      BY <2>1, <2>6 DEF Call
    <2> QED  BY <2>3, <2>4, <2>5, <2>6 DEF CallerStep
  <1> QED  BY <1>2, <1>3

LEMMA FreedNext ==
    ASSUME LifecycleTypeOK, Placed, FreedInv, [Next]_vars
    PROVE  FreedInv'
  <1>1. CASE Die
    <2>1. ~Overlap'
      BY <1>1 DEF Die, Overlap, Freeing
    <2> QED  BY <1>1, <2>1 DEF Die, FreedInv
  <1>2. CASE UNCHANGED vars
    BY <1>2 DEF vars, dbVars, ownerVars, callVars, saveVars, FreedInv, Overlap,
                Freeing, InZig
  <1>3. ASSUME SnapshotStep, overlapped' = (overlapped \/ Overlap')
        PROVE  FreedInv'
    <2>1. UNCHANGED <<database, global_db, opc, cpc, db>>
      BY <1>3, SnapshotFrame DEF ownerVars, callVars
    <2>2. ASSUME ~overlapped PROVE ~touched'
      <3>1. ~touched
        BY <2>2 DEF FreedInv
      <3>2. CASE ExportChunk /\ global_db # 0
        <4>1. InZig
          BY <3>2 DEF ExportChunk, InZig
        <4>2. database[global_db] = "live"
          BY <2>2, <3>2, <4>1, FreedInside
        <4> QED  BY <3>1, <3>2, <4>2 DEF ExportChunk, Touch
      <3> QED
        BY <1>3, <3>1, <3>2 DEF SnapshotStep, ExportChunk, CreateJson, Encode,
                                SaveSnapshot, LoadSnapshot
    <2>3. CASE overlapped'
      BY <2>3 DEF FreedInv
    <2>4. CASE ~overlapped'
      BY <1>3, <2>1, <2>2, <2>4 DEF FreedInv
    <2> QED  BY <2>3, <2>4
  <1> QED  BY <1>1, <1>2, <1>3, FreedOwner, FreedCaller, Steps

-----------------------------------------------------------------------------
(* One database in memory *)

LEMMA LiveOwner ==
    ASSUME LifecycleTypeOK, Placed, LiveInv, NEW o \in Owners, OwnerStep(o),
           ~renewed', NEW n \in Numbers, database'[n] = "live"
    PROVE  n = global_db' /\ \A p \in Owners : opc'[p] # "null"
  <1> USE DEF LifecycleTypeOK
  <1>1. ASSUME ~renewed, NEW m \in Numbers, database[m] = "live"
        PROVE  m = global_db /\ m # 0 /\ \A p \in Owners : opc[p] # "null"
    BY <1>1 DEF LiveInv
  <1>2. CASE New(o)
    <2>1. /\ ~renewed /\ global_db = 0
          /\ \A p \in Owners : opc[p] \in {"idle", "clear"}
      BY <1>2 DEF New
    <2>2. \A m \in Numbers : database[m] # "live"
      BY <1>1, <2>1
    <2>3. CASE database' = database
      BY <2>2, <2>3
    <2>4. CASE /\ global_db' = news + 1
               /\ database' = [database EXCEPT ![news + 1] = "live"]
               /\ opc' = [opc EXCEPT ![o] = "new"]
      BY <2>1, <2>2, <2>4
    <2> QED  BY <1>2, <2>3, <2>4 DEF New
  <1>3. CASE /\ UNCHANGED <<database, global_db, renewed>>
             /\ \A p \in Owners : opc'[p] = "null" => opc[p] = "null"
    BY <1>1, <1>3
  <1>4. CASE NewReturns(o)
    BY <1>3, <1>4 DEF NewReturns
  <1>5. CASE Shutdown(o)
    BY <1>3, <1>5 DEF Shutdown, dbVars
  <1>6. CASE Store(o)
    BY <1>3, <1>6 DEF Store
  <1>7. CASE Free(o)
    BY <1>1, <1>7 DEF Free
  <1>8. CASE ClearZig(o)
    BY <1>1, <1>8 DEF ClearZig
  <1>9. CASE ShutdownReturns(o)
    BY <1>3, <1>9 DEF ShutdownReturns
  <1>10. ASSUME NEW h \in Handles, HandleShutdown(o, h)
         PROVE  /\ UNCHANGED <<database, global_db, renewed>>
                /\ \A p \in Owners : opc'[p] = "null" => opc[p] = "null"
    BY <1>10 DEF HandleShutdown
  <1> QED
    BY <1>2, <1>3, <1>4, <1>5, <1>6, <1>7, <1>8, <1>9, <1>10 DEF OwnerStep

LEMMA LiveNext ==
    ASSUME LifecycleTypeOK, Placed, LiveInv, [Next]_vars
    PROVE  LiveInv'
  <1>1. CASE Die
    BY <1>1 DEF Die, LiveInv
  <1>2. CASE UNCHANGED <<database, global_db, opc, renewed>>
    BY <1>2 DEF LiveInv
  <1>3. ASSUME NEW o \in Owners, OwnerStep(o) PROVE LiveInv'
    BY <1>3, LiveOwner DEF LiveInv
  <1>4. ASSUME NEW c \in Callers, CallerStep(c) PROVE LiveInv'
    BY <1>2, <1>4, CallerFrame DEF ownerVars
  <1>5. ASSUME SnapshotStep PROVE LiveInv'
    BY <1>2, <1>5, SnapshotFrame DEF ownerVars
  <1> QED
    BY <1>1, <1>2, <1>3, <1>4, <1>5, Steps DEF vars, dbVars, ownerVars

-----------------------------------------------------------------------------
(* The uuids of a handle *)

\* A call leaves its handle no fewer uuids, and a write adds one.
LEMMA DrawnCaller ==
    ASSUME LifecycleTypeOK, Placed, NEW c \in Callers, CallerStep(c),
           NEW n \in Numbers, IsFiniteSet(Drawing(n))
    PROVE  /\ IsFiniteSet(Drawing(n)') /\ Drawn(n) \in Nat /\ Drawn(n)' \in Nat
           /\ Drawn(n)' >= Drawn(n)
           /\ cpc'[c] = "uuid" /\ handle[c] = n => Drawn(n)' = Drawn(n) + 1
  <1> USE DEF LifecycleTypeOK
  <1>1. Cardinality(Drawing(n)) \in Nat /\ uuidCounter[n] \in Nat
    BY FS_CardinalityType
  <1>2. Drawn(n) \in Nat
    BY <1>1 DEF Drawn
  <1>3. CASE Drawing(n)' = Drawing(n) /\ uuidCounter' = uuidCounter
             /\ ~(cpc'[c] = "uuid" /\ handle[c] = n)
    BY <1>2, <1>3 DEF Drawn
  <1>4. CASE cpc[c] # "uuid" /\ cpc'[c] # "uuid" /\ uuidCounter' = uuidCounter
             /\ \A d \in Callers \ {c} : cpc'[d] = cpc[d] /\ handle'[d] = handle[d]
    BY <1>3, <1>4 DEF Drawing
  <1>5. CASE Enter(c)
    BY <1>4, <1>5 DEF Enter, Leave, dbVars
  <1>6. CASE Work(c)
    <2>1. CASE Leave(c)
      BY <1>4, <1>6, <2>1 DEF Work, Leave
    <2>2. CASE cpc' = [cpc EXCEPT ![c] = "uuid"] /\ UNCHANGED handle
      <3>1. cpc[c] = "inside" /\ uuidCounter' = uuidCounter
        BY <1>6 DEF Work
      <3>2. CASE handle[c] # n
        <4>1. Drawing(n)' = Drawing(n)
          BY <2>2, <3>1, <3>2 DEF Drawing
        <4> QED  BY <1>3, <3>1, <3>2, <4>1
      <3>3. CASE handle[c] = n
        <4>1. Drawing(n)' = Drawing(n) \cup {c} /\ c \notin Drawing(n)
          BY <2>2, <3>1, <3>3 DEF Drawing
        <4>2. /\ IsFiniteSet(Drawing(n)')
              /\ Cardinality(Drawing(n)') = Cardinality(Drawing(n)) + 1
          BY <4>1, FS_AddElement
        <4>3. Drawn(n)' = Drawn(n) + 1
          BY <1>1, <3>1, <4>2 DEF Drawn
        <4> QED  BY <1>2, <4>2, <4>3
      <3> QED  BY <3>2, <3>3
    <2> QED  BY <1>6, <2>1, <2>2 DEF Work
  <1>7. CASE WriteUuid(c)
    <2>1. /\ cpc[c] = "uuid" /\ cpc' = [cpc EXCEPT ![c] = "idle"]
          /\ handle' = [handle EXCEPT ![c] = 0]
          /\ uuidCounter' = [uuidCounter EXCEPT ![handle[c]] = @ + 1]
      BY <1>7 DEF WriteUuid, Leave
    <2>2. CASE handle[c] # n
      <3>1. Drawing(n)' = Drawing(n) /\ uuidCounter'[n] = uuidCounter[n]
        BY <2>1, <2>2 DEF Drawing
      <3> QED  BY <1>2, <2>1, <3>1 DEF Drawn
    <2>3. CASE handle[c] = n
      <3>1. Drawing(n)' = Drawing(n) \ {c} /\ c \in Drawing(n)
        BY <2>1, <2>3 DEF Drawing
      <3>2. /\ IsFiniteSet(Drawing(n)')
            /\ Cardinality(Drawing(n)') = Cardinality(Drawing(n)) - 1
        BY <3>1, FS_RemoveElement
      <3>3. uuidCounter'[n] = uuidCounter[n] + 1
        BY <2>1, <2>3
      <3>4. Drawn(n)' = Drawn(n)
        BY <1>1, <3>2, <3>3 DEF Drawn
      <3> QED  BY <1>2, <2>1, <3>2, <3>4
    <2> QED  BY <2>2, <2>3
  <1>8. ASSUME NEW h \in Handles, NEW x \in Ops, Call(c, h, x)
        PROVE  /\ cpc[c] # "uuid" /\ cpc'[c] # "uuid"
               /\ uuidCounter' = uuidCounter
               /\ \A d \in Callers \ {c} : cpc'[d] = cpc[d] /\ handle'[d] = handle[d]
    BY <1>8 DEF Call, dbVars
  <1> QED  BY <1>4, <1>5, <1>6, <1>7, <1>8 DEF CallerStep

LEMMA UuidOwner ==
    ASSUME LifecycleTypeOK, Placed, UuidInv, NEW o \in Owners, OwnerStep(o)
    PROVE  UuidInv'
  <1> USE DEF LifecycleTypeOK
  <1>1. /\ UNCHANGED <<count, uuidCounter, cpc, handle, spc, shandle, chunk,
                       rolledBack>>
        /\ Handles \subseteq Handles' /\ news' \in Nat /\ news <= news'
    BY OwnerFrame, HandlesKept DEF callVars, saveVars, files
  <1>2. \A n : Sole(n)' => Sole(n)
    BY <1>1 DEF Sole
  <1>3. \A n : Drawing(n)' = Drawing(n) /\ Drawn(n)' = Drawn(n)
    BY <1>1 DEF Drawing, Drawn
  <1>4. (spc # "idle" /\ shandle = news') => shandle = news
    BY <1>1, LifecycleAssumption DEF Placed, Handles
  <1>5. \A n \in Numbers :
          IsFiniteSet(Drawing(n)') /\ (Sole(n)' => count'[n] <= Drawn(n)')
    BY <1>1, <1>2, <1>3 DEF UuidInv
  <1>6. (spc' \in {"create", "encode"} /\ shandle' = news' /\ Sole(shandle)') =>
          chunk'.count <= Drawn(shandle)'
    <2> SUFFICES ASSUME spc \in {"create", "encode"}, shandle = news', Sole(shandle)'
                 PROVE  chunk.count <= Drawn(shandle)'
      BY <1>1
    <2>1. shandle = news /\ Sole(shandle)
      BY <1>1, <1>4 DEF Sole
    <2>2. Drawn(shandle)' = Drawn(shandle)
      BY <1>1 DEF Drawn, Drawing
    <2> QED  BY <2>1, <2>2 DEF UuidInv
  <1> QED  BY <1>5, <1>6 DEF UuidInv

LEMMA UuidCaller ==
    ASSUME LifecycleTypeOK, Placed, UuidInv, NEW c \in Callers, CallerStep(c)
    PROVE  UuidInv'
  <1> USE DEF LifecycleTypeOK
  <1>1. /\ UNCHANGED <<news, spc, shandle, chunk, rolledBack>>
        /\ Handles' = Handles
    BY CallerFrame DEF saveVars, files
  <1>2. \A n : Sole(n)' <=> Sole(n)
    BY <1>1 DEF Sole
  <1>3. ASSUME NEW n \in Numbers
        PROVE  /\ IsFiniteSet(Drawing(n)') /\ Drawn(n) \in Nat /\ Drawn(n)' \in Nat
               /\ Drawn(n)' >= Drawn(n)
               /\ cpc'[c] = "uuid" /\ handle[c] = n => Drawn(n)' = Drawn(n) + 1
    BY DrawnCaller DEF UuidInv
  <1>4. ASSUME NEW n \in Numbers, Sole(n)
        PROVE  count'[n] <= Drawn(n)'
    <2>1. count[n] \in Nat /\ count[n] <= Drawn(n)
      BY <1>4, LifecycleAssumption DEF UuidInv
    <2>2. CASE count'[n] = count[n] \/ count'[n] = 0
      BY <1>3, <2>1, <2>2
    <2>3. CASE UNCHANGED count
      BY <2>2, <2>3
    <2>4. CASE Enter(c)
      BY <2>3, <2>4 DEF Enter, dbVars
    <2>5. CASE Work(c)
      <3>1. db[c] \in Numbers /\ handle[c] = n
        BY <1>4, <2>5 DEF Work, Placed, Sole
      <3>2. CASE /\ count' = [count EXCEPT ![db[c]] = @ + 1]
                 /\ cpc' = [cpc EXCEPT ![c] = "uuid"]
        <4>1. count'[n] <= count[n] + 1
          BY <2>1, <3>1, <3>2
        <4>2. Drawn(n)' = Drawn(n) + 1 /\ Drawn(n) \in Nat
          BY <1>3, <3>1, <3>2
        <4>3. count'[n] \in Nat
          BY <2>1, <3>1, <3>2
        <4> QED  BY <2>1, <4>1, <4>2, <4>3
      <3>3. CASE count' = IF op[c] = "drain" THEN [count EXCEPT ![db[c]] = 0]
                          ELSE count
        BY <2>2, <3>1, <3>3
      <3> QED  BY <2>5, <3>2, <3>3 DEF Work
    <2>6. CASE WriteUuid(c)
      BY <2>3, <2>6 DEF WriteUuid
    <2>7. ASSUME NEW h \in Handles, NEW x \in Ops, Call(c, h, x)
          PROVE  UNCHANGED count
      BY <2>7 DEF Call, dbVars
    <2> QED  BY <2>3, <2>4, <2>5, <2>6, <2>7 DEF CallerStep
  <1>5. \A n \in Numbers :
          IsFiniteSet(Drawing(n)') /\ (Sole(n)' => count'[n] <= Drawn(n)')
    BY <1>2, <1>3, <1>4
  <1>6. (spc' \in {"create", "encode"} /\ shandle' = news' /\ Sole(shandle)') =>
          chunk'.count <= Drawn(shandle)'
    <2> SUFFICES ASSUME spc \in {"create", "encode"}, shandle = news, Sole(shandle)'
                 PROVE  chunk.count <= Drawn(shandle)'
      BY <1>1
    <2>1. Sole(shandle) /\ shandle \in Numbers
      BY <1>1 DEF Sole, Placed, Handles
    <2>2. chunk.count <= Drawn(shandle) /\ chunk.count \in Nat
      BY <2>1, LifecycleAssumption DEF UuidInv
    <2>3. /\ Drawn(shandle) \in Nat /\ Drawn(shandle)' \in Nat
          /\ Drawn(shandle)' >= Drawn(shandle)
      <3>1. PICK n \in Numbers : shandle = n
        BY <2>1
      <3>2. shandle' = n
        BY <1>1, <3>1
      <3>3. IsFiniteSet(Drawing(n))
        BY DEF UuidInv
      <3>4. /\ Drawn(n) \in Nat /\ Drawn(n)' \in Nat
            /\ Drawn(n)' >= Drawn(n)
        BY <3>3, DrawnCaller
      <3>5. Drawn(shandle)' = Drawn(n)'
        BY <3>2 DEF Drawn, Drawing
      <3> QED  BY <3>1, <3>4, <3>5
    <2> QED  BY <2>2, <2>3
  <1> QED  BY <1>5, <1>6 DEF UuidInv

LEMMA UuidSnapshot ==
    ASSUME LifecycleTypeOK, Placed, UuidInv, SnapshotStep
    PROVE  UuidInv'
  <1> USE DEF LifecycleTypeOK
  <1>1. /\ UNCHANGED <<count, news, global_db, cpc, handle>>
        /\ Handles' = Handles
    BY SnapshotFrame DEF callVars
  <1>2. ASSUME NEW h \in Handles, LoadSnapshot(h) PROVE UuidInv'
    <2>1. \A n : ~Sole(n)'
      BY <1>1, <1>2 DEF LoadSnapshot, Sole
    <2>2. \A n \in Numbers : IsFiniteSet(Drawing(n)')
      BY <1>1 DEF UuidInv, Drawing
    <2>3. spc' = "idle"
      BY <1>2 DEF LoadSnapshot, saveVars
    <2> QED  BY <2>1, <2>2, <2>3 DEF UuidInv
  <1>3. ASSUME UNCHANGED <<uuidCounter, rolledBack>>,
               (spc' \in {"create", "encode"} /\ shandle' = news /\ Sole(shandle)') =>
                   chunk'.count <= Drawn(shandle)'
        PROVE  UuidInv'
    <2>1. \A n : /\ Sole(n)' <=> Sole(n)
                 /\ Drawing(n)' = Drawing(n) /\ Drawn(n)' = Drawn(n)
      BY <1>1, <1>3 DEF Sole, Drawing, Drawn
    <2>2. \A n \in Numbers :
            IsFiniteSet(Drawing(n)') /\ (Sole(n)' => count'[n] <= Drawn(n)')
      BY <1>1, <2>1 DEF UuidInv
    <2> QED  BY <1>1, <1>3, <2>2 DEF UuidInv
  <1>4. CASE ExportChunk
    <2>1. UNCHANGED <<uuidCounter, rolledBack>>
      BY <1>4 DEF ExportChunk, dbVars
    <2>2. ASSUME spc' \in {"create", "encode"}, shandle' = news, Sole(shandle)'
          PROVE  chunk'.count <= Drawn(shandle)'
      <3>1. /\ global_db # 0 /\ shandle' = shandle
            /\ chunk' = [save |-> saves, count |-> count[global_db]]
        BY <1>4, <2>2 DEF ExportChunk, SaveReturns
      <3>2. news \in Numbers /\ global_db = news /\ shandle = news
        BY <2>2, <3>1, LifecycleAssumption DEF Placed
      <3>3. Sole(shandle) /\ Drawn(shandle)' = Drawn(shandle)
        BY <1>1, <2>1, <2>2, <3>1 DEF Sole, Drawn, Drawing
      <3> QED  BY <3>1, <3>2, <3>3 DEF UuidInv
    <2> QED  BY <1>3, <2>1, <2>2
  <1>5. CASE CreateJson
    <2>1. UNCHANGED <<uuidCounter, rolledBack, chunk>>
      BY <1>5 DEF CreateJson, dbVars
    <2>2. ASSUME spc' \in {"create", "encode"}, shandle' = news, Sole(shandle)'
          PROVE  chunk'.count <= Drawn(shandle)'
      <3>1. spc = "create" /\ shandle' = shandle
        BY <1>5, <2>2 DEF CreateJson, SaveReturns
      <3>2. Sole(shandle) /\ Drawn(shandle)' = Drawn(shandle)
        BY <1>1, <2>1, <2>2, <3>1 DEF Sole, Drawn, Drawing
      <3> QED  BY <2>1, <2>2, <3>1, <3>2 DEF UuidInv
    <2> QED  BY <1>3, <2>1, <2>2
  <1>6. CASE Encode
    BY <1>3, <1>6 DEF Encode, SaveReturns, dbVars
  <1>7. ASSUME NEW h \in Handles, SaveSnapshot(h) PROVE UuidInv'
    BY <1>3, <1>7 DEF SaveSnapshot, dbVars
  <1> QED  BY <1>2, <1>4, <1>5, <1>6, <1>7 DEF SnapshotStep

LEMMA UuidNext ==
    ASSUME LifecycleTypeOK, Placed, UuidInv, [Next]_vars
    PROVE  UuidInv'
  <1>1. CASE Die
    <2>1. \A n \in Numbers : Drawing(n)' = {} /\ Drawn(n)' = 0 /\ count'[n] = 0
      <3>1. Cardinality({}) = 0
        BY FS_EmptySet
      <3>2. \A n \in Numbers : Drawing(n)' = {}
        BY <1>1 DEF Die, Drawing
      <3>3. \A n \in Numbers : uuidCounter'[n] = 0 /\ count'[n] = 0
        BY <1>1 DEF Die
      <3> QED  BY <3>1, <3>2, <3>3 DEF Drawn
    <2>2. IsFiniteSet({}) /\ spc' = "idle"
      BY <1>1, FS_EmptySet DEF Die
    <2> QED  BY <2>1, <2>2 DEF UuidInv
  <1>2. CASE UNCHANGED vars
    BY <1>2 DEF vars, dbVars, ownerVars, callVars, saveVars, files, UuidInv,
                Drawing, Drawn, Sole, Handles
  <1> QED  BY <1>1, <1>2, UuidOwner, UuidCaller, UuidSnapshot, Steps

-----------------------------------------------------------------------------
(* The two files of a snapshot *)

LEMMA FilesSnapshot ==
    ASSUME LifecycleTypeOK, Placed, UuidInv, FilesInv, SnapshotStep
    PROVE  FilesInv'
  <1> USE DEF LifecycleTypeOK, FilesInv
  <1>a. /\ saves \in Nat /\ json.save \in Nat /\ chunk.save \in Nat
        /\ MaxSaves \in Nat
    BY LifecycleAssumption
  <1>1. ASSUME NEW h \in Handles, SaveSnapshot(h) PROVE FilesInv'
    BY <1>a, <1>1 DEF SaveSnapshot, files, UuidsCoverChunk
  <1>2. ASSUME NEW h \in Handles, LoadSnapshot(h) PROVE FilesInv'
    BY <1>2 DEF LoadSnapshot, saveVars, files, UuidsCoverChunk
  <1>3. CASE ExportChunk
    <2>1. CASE chunk' = [save |-> saves, count |-> count[global_db]]
      <3>1. json' = json /\ json.save < saves /\ UNCHANGED saves
            /\ spc' # "export"
        BY <1>a, <1>3 DEF ExportChunk, SaveReturns
      <3> QED  BY <1>a, <2>1, <3>1 DEF UuidsCoverChunk
    <2>2. CASE SaveReturns /\ UNCHANGED chunk
      BY <1>3, <2>2 DEF ExportChunk, SaveReturns, UuidsCoverChunk
    <2> QED  BY <1>3, <2>1, <2>2 DEF ExportChunk
  <1>4. CASE CreateJson
    BY <1>a, <1>4 DEF CreateJson, SaveReturns, NoSnapshot, UuidsCoverChunk
  <1>5. CASE Encode
    <2>1. /\ UNCHANGED <<chunk, saves>> /\ spc' = "idle" /\ chunk.save = saves
          /\ json'.save = saves /\ json'.uuid = uuidCounter[shandle]
          /\ json'.calm => /\ global_db = shandle /\ shandle \notin rolledBack
                           /\ Handles = {shandle}
                           /\ \A c \in Callers : cpc[c] # "uuid"
      BY <1>5 DEF Encode, SaveReturns
    <2>2. ASSUME json'.calm PROVE json'.uuid >= chunk.count
      <3>1. shandle \in Numbers /\ shandle = news /\ Sole(shandle)
        BY <1>5, <2>1, <2>2 DEF Encode, Placed, Handles, Sole
      <3>2. chunk.count <= Drawn(shandle)
        BY <1>5, <3>1 DEF Encode, UuidInv
      <3>3. Drawing(shandle) = {}
        BY <2>1, <2>2 DEF Drawing
      <3>4. chunk.count \in Nat /\ uuidCounter[shandle] \in Nat
        BY <3>1, LifecycleAssumption
      <3>5. Drawn(shandle) = uuidCounter[shandle]
        <4>1. Cardinality({}) = 0
          BY FS_EmptySet
        <4>2. Drawn(shandle) = uuidCounter[shandle] + 0
          BY <3>3, <4>1 DEF Drawn
        <4> QED  BY <3>4, <4>2
      <3> QED  BY <2>1, <3>2, <3>4, <3>5
    <2> QED  BY <1>a, <2>1, <2>2 DEF UuidsCoverChunk
  <1> QED  BY <1>1, <1>2, <1>3, <1>4, <1>5 DEF SnapshotStep

LEMMA FilesNext ==
    ASSUME LifecycleTypeOK, Placed, UuidInv, FilesInv, [Next]_vars
    PROVE  FilesInv'
  <1>1. CASE Die
    BY <1>1 DEF Die, files, FilesInv, UuidsCoverChunk
  <1>2. CASE UNCHANGED <<chunk, json, spc, saves>>
    BY <1>2 DEF FilesInv, UuidsCoverChunk
  <1>3. ASSUME NEW o \in Owners, OwnerStep(o) PROVE FilesInv'
    BY <1>2, <1>3, OwnerFrame DEF files, saveVars
  <1>4. ASSUME NEW c \in Callers, CallerStep(c) PROVE FilesInv'
    BY <1>2, <1>4, CallerFrame DEF files, saveVars
  <1> QED
    BY <1>1, <1>2, <1>3, <1>4, FilesSnapshot, Steps DEF vars, files, saveVars

-----------------------------------------------------------------------------
(* The invariant *)

LEMMA LifeInit == Init => LifeInv
  <1> SUFFICES ASSUME Init PROVE LifeInv
    OBVIOUS
  <1>1. LifecycleTypeOK
    BY TypeInit
  <1>2. Placed /\ LiveInv
    BY DEF Init, Placed, LiveInv
  <1>3. FreedInv
    BY DEF Init, FreedInv, Overlap, Freeing
  <1>4. UuidInv
    <2>1. \A n \in Numbers : Drawing(n) = {} /\ Drawn(n) = 0 /\ count[n] = 0
      <3>1. Cardinality({}) = 0
        BY FS_EmptySet
      <3>2. \A n \in Numbers : Drawing(n) = {}
        BY DEF Init, Drawing
      <3>3. \A n \in Numbers : uuidCounter[n] = 0 /\ count[n] = 0
        BY DEF Init
      <3> QED  BY <3>1, <3>2, <3>3 DEF Drawn
    <2>2. IsFiniteSet({}) /\ spc = "idle"
      BY FS_EmptySet DEF Init
    <2> QED  BY <2>1, <2>2 DEF UuidInv
  <1>5. FilesInv
    BY DEF Init, FilesInv, NoSnapshot, UuidsCoverChunk
  <1> QED  BY <1>1, <1>2, <1>3, <1>4, <1>5 DEF LifeInv

LEMMA LifeNext == LifeInv /\ [Next]_vars => LifeInv'
  BY TypeNext, PlacedNext, FreedNext, LiveNext, UuidNext, FilesNext DEF LifeInv

LEMMA LifeInvariant == Spec => []LifeInv
  BY LifeInit, LifeNext, PTL DEF Spec

\* New, Shutdown, calls, snapshots and deaths keep every variable in its type.
THEOREM LifecycleTypeCorrect == Spec => []LifecycleTypeOK
  <1>1. LifeInv => LifecycleTypeOK
    BY DEF LifeInv
  <1> QED  BY <1>1, LifeInvariant, PTL

\* Whatever owners and callers there are, db_shutdown frees memory that is used
\* again, or frees it twice, only if a call, a save or another shutdown was
\* between its test of global_db and its return at the time.
THEOREM FreedSafely == Spec => []FreedOnlyBesideCalls
  <1>1. LifeInv => FreedOnlyBesideCalls
    BY DEF LifeInv, FreedInv, FreedOnlyBesideCalls
  <1> QED  BY <1>1, LifeInvariant, PTL

\* However often it is shut down and made anew, there is one database in
\* memory, the one global_db points to, unless db_init ran over one.
THEOREM NoDatabaseLeft == Spec => []OneLiveDatabase
  <1>1. LifeInv => OneLiveDatabase
    BY DEF LifeInv, LiveInv, OneLiveDatabase
  <1> QED  BY <1>1, LifeInvariant, PTL

\* SaveSnapshot, failed, repeated or cut short by the death of the process, never
\* leaves a json that is newer than the chunk beside it.
THEOREM JsonBehindChunk == Spec => []JsonNotAhead
  <1>1. LifeInv => JsonNotAhead
    BY DEF LifeInv, FilesInv, JsonNotAhead
  <1> QED  BY <1>1, LifeInvariant, PTL

\* The uuid counter a calm save writes covers the messages in its chunk.
THEOREM UuidsCovered == Spec => []UuidsCoverChunk
  <1>1. LifeInv => UuidsCoverChunk
    BY DEF LifeInv, FilesInv
  <1> QED  BY <1>1, LifeInvariant, PTL
=============================================================================
