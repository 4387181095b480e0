----------------------------- MODULE Lifecycle -----------------------------
(***************************************************************************)
(* The life of a handle: New, Shutdown and ZigoDB.Shutdown of bridge.go    *)
(* with db_init and db_shutdown of zigo_db.zig, beside calls that are in   *)
(* flight, and SaveSnapshot and LoadSnapshot, which carry the uuid counter *)
(* of a handle and its messages over to another one.                       *)
(*                                                                         *)
(* The Zig side has one database, global_db, whatever handle a call comes  *)
(* through.  Shutdown waits for nobody: a call that has fetched global_db  *)
(* goes on in regions that may have been freed.  The process may die       *)
(* between any two steps.                                                  *)
(***************************************************************************)
EXTENDS Naturals, FiniteSets

CONSTANTS
    Owners,     \* threads that call New and Shutdown
    Callers,    \* threads that write, read or drain
    MaxNews,    \* model bound: calls of New
    MaxSlots,   \* entries a region holds
    MaxWrites,  \* model bound: uuids given by a handle
    MaxSaves,   \* model bound: calls of SaveSnapshot
    MaxCrashes  \* model bound: deaths of the process

ASSUME LifecycleAssumption ==
    /\ MaxNews \in Nat /\ MaxSlots \in Nat \ {0} /\ MaxWrites \in Nat
    /\ MaxSaves \in Nat /\ MaxCrashes \in Nat

\* Databases and handles are numbered by the call of New that made them; 0 is
\* a null pointer.
Numbers == 1 .. MaxNews
Ops == {"write", "read", "drain"}

VARIABLES
    database, count,           \* of a number: its state, entries committed
    closing, uuidCounter,      \* isShuttingDown and counter of a handle
    news, global_db, globalDB, \* numbers used; the Zig and the Go global
    opc, oarg, package,        \* an owner's place; what it has fetched;
                               \* whether it clears globalDB in the end
    cpc, op, handle, db,       \* a caller's place, call and handle; the
                               \* global_db it has fetched
    spc, shandle,              \* the snapshot thread's place and handle
    chunk, json,               \* the two files of the snapshot
    saves, crashes,
    \* History:
    touched,     \* freed memory was used, or freed again
    overlapped,  \* a shutdown was freeing while somebody was in Zig code
    renewed,     \* New was called over a database or beside a shutdown
    rolledBack   \* handles whose counter a LoadSnapshot has set

dbVars == <<database, count, closing, uuidCounter, news, global_db, globalDB>>
ownerVars == <<opc, oarg, package, renewed>>
callVars == <<cpc, op, handle, db>>
saveVars == <<spc, shandle, saves>>
files == <<chunk, json>>
vars == <<dbVars, ownerVars, callVars, saveVars, files, crashes,
          touched, overlapped, rolledBack>>

LifecycleTypeOK ==
    /\ database \in [Numbers -> {"none", "live", "freed"}]
    /\ count \in [Numbers -> 0 .. MaxSlots]
    /\ closing \in [Numbers -> BOOLEAN]
    /\ uuidCounter \in [Numbers -> Nat]
    /\ news \in 0 .. MaxNews
    /\ global_db \in 0 .. MaxNews /\ globalDB \in 0 .. MaxNews
    /\ opc \in [Owners -> {"idle", "new", "store", "free", "null", "clear"}]
    /\ oarg \in [Owners -> 0 .. MaxNews] /\ package \in [Owners -> BOOLEAN]
    /\ cpc \in [Callers -> {"idle", "enter", "inside", "uuid"}]
    /\ op \in [Callers -> Ops] /\ handle \in [Callers -> 0 .. MaxNews]
    /\ db \in [Callers -> 0 .. MaxNews]
    /\ spc \in {"idle", "export", "create", "encode"}
    /\ shandle \in 0 .. MaxNews
    /\ chunk \in [save : 0 .. MaxSaves, count : 0 .. MaxSlots]
    /\ json \in [save : 0 .. MaxSaves, whole : BOOLEAN, uuid : Nat,
                 calm : BOOLEAN]
    /\ saves \in 0 .. MaxSaves /\ crashes \in 0 .. MaxCrashes + 1
    /\ touched \in BOOLEAN /\ overlapped \in BOOLEAN /\ renewed \in BOOLEAN
    /\ rolledBack \subseteq Numbers

NoSnapshot == [save |-> 0, whole |-> FALSE, uuid |-> 0, calm |-> FALSE]

Init ==
    /\ database = [n \in Numbers |-> "none"] /\ count = [n \in Numbers |-> 0]
    /\ closing = [n \in Numbers |-> FALSE]
    /\ uuidCounter = [n \in Numbers |-> 0]
    /\ news = 0 /\ global_db = 0 /\ globalDB = 0
    /\ opc = [o \in Owners |-> "idle"] /\ oarg = [o \in Owners |-> 0]
    /\ package = [o \in Owners |-> FALSE]
    /\ cpc = [c \in Callers |-> "idle"] /\ op = [c \in Callers |-> "read"]
    /\ handle = [c \in Callers |-> 0] /\ db = [c \in Callers |-> 0]
    /\ spc = "idle" /\ shandle = 0 /\ saves = 0 /\ crashes = 0
    /\ chunk = [save |-> 0, count |-> 0] /\ json = NoSnapshot
    /\ touched = FALSE /\ overlapped = FALSE /\ renewed = FALSE
    /\ rolledBack = {}

\* Handles New has returned.
Handles == {n \in Numbers : n <= news /\ \A o \in Owners :
                                 ~(opc[o] = "new" /\ oarg[o] = n)}

\* A shutdown is about to free, or has freed, while a call, or another
\* shutdown, is in Zig code.
Freeing(o) == opc[o] \in {"free", "null"}
InZig == (\E c \in Callers : cpc[c] \in {"enter", "inside"}) \/ spc = "export"
Overlap == \E o \in Owners :
    Freeing(o) /\ (InZig \/ \E p \in Owners \ {o} : Freeing(p))

\* Memory of database d is used.
Touch(d) == touched' = (touched \/ database[d] # "live")

-----------------------------------------------------------------------------
(* Plausible bugs, kept to show that the properties notice them. *)

\* ClearZig that leaves global_db as it is.
LeaveZig(o) ==
    /\ opc[o] = "null"
    /\ opc' = [opc EXCEPT ![o] = "clear"]
    /\ UNCHANGED <<dbVars, oarg, package, callVars, saveVars, files, crashes,
                   touched, renewed, rolledBack>>

\* Free that only drops the pointer.
Forget(o) ==
    /\ opc[o] = "free"
    /\ opc' = [opc EXCEPT ![o] = "null"]
    /\ oarg' = [oarg EXCEPT ![o] = global_db]
    /\ UNCHANGED <<dbVars, package, callVars, saveVars, files, crashes,
                   touched, renewed, rolledBack>>

\* SaveSnapshot that writes the json before the chunk.
CreateFirst(h) ==
    /\ spc = "idle" /\ saves < MaxSaves
    /\ spc' = "export" /\ shandle' = h /\ saves' = saves + 1
    /\ json' = [save |-> saves + 1, whole |-> TRUE, uuid |-> uuidCounter[h],
                calm |-> TRUE]
    /\ UNCHANGED <<dbVars, ownerVars, callVars, chunk, crashes, touched,
                   rolledBack>>

\* WriteUuid with a plain increment, lost when another writer is at it too.
LostUuid(c) ==
    /\ cpc[c] = "uuid"
    /\ cpc' = [cpc EXCEPT ![c] = "idle"]
    /\ IF \E d \in Callers \ {c} : cpc[d] = "uuid" THEN UNCHANGED uuidCounter
       ELSE uuidCounter' = [uuidCounter EXCEPT ![handle[c]] = @ + 1]
    /\ UNCHANGED <<database, count, closing, news, global_db, globalDB,
                   ownerVars, op, handle, db, saveVars, files, crashes,
                   touched, rolledBack>>

-----------------------------------------------------------------------------
(* New and Shutdown *)

\* db_init: a new database, whether there is one or not.  Out of memory it is
\* null, and New returns an error.
New(o) ==
    /\ opc[o] = "idle" /\ news < MaxNews
    /\ renewed' = \/ renewed \/ global_db # 0
                   \/ \E p \in Owners : opc[p] \notin {"idle", "clear"}
    /\ \/ /\ news' = news + 1 /\ global_db' = news + 1
          /\ database' = [database EXCEPT ![news + 1] = "live"]
          /\ opc' = [opc EXCEPT ![o] = "new"]
          /\ oarg' = [oarg EXCEPT ![o] = news + 1]
       \/ /\ global_db' = 0
          /\ UNCHANGED <<news, database, opc, oarg>>
    /\ UNCHANGED <<count, closing, uuidCounter, globalDB, package, callVars,
                   saveVars, files, crashes, touched, rolledBack>>

\* The handle is made and published.
NewReturns(o) ==
    /\ opc[o] = "new"
    /\ globalDB' = oarg[o]
    /\ opc' = [opc EXCEPT ![o] = "idle"] /\ oarg' = [oarg EXCEPT ![o] = 0]
    /\ UNCHANGED <<database, count, closing, uuidCounter, news, global_db,
                   package, callVars, saveVars, files, crashes, touched,
                   renewed, rolledBack>>

\* Shutdown of the package, if it finds a handle, or of a handle somebody has
\* kept.  Another owner may clear globalDB between its test and its use.
Shutdown(o) ==
    /\ opc[o] = "idle"
    /\ globalDB # 0 /\ opc' = [opc EXCEPT ![o] = "store"]
    /\ package' = [package EXCEPT ![o] = TRUE]
    /\ UNCHANGED <<dbVars, oarg, callVars, saveVars, files, crashes, touched,
                   renewed, rolledBack>>

HandleShutdown(o, h) ==
    /\ opc[o] = "idle"
    /\ opc' = [opc EXCEPT ![o] = "free"]
    /\ closing' = [closing EXCEPT ![h] = TRUE]
    /\ UNCHANGED <<database, count, uuidCounter, news, global_db, globalDB,
                   oarg, package, callVars, saveVars, files, crashes,
                   touched, renewed, rolledBack>>

\* isShuttingDown.Store(true).
Store(o) ==
    /\ opc[o] = "store" /\ globalDB # 0
    /\ opc' = [opc EXCEPT ![o] = "free"]
    /\ closing' = [closing EXCEPT ![globalDB] = TRUE]
    /\ UNCHANGED <<database, count, uuidCounter, news, global_db, globalDB,
                   oarg, package, callVars, saveVars, files, crashes,
                   touched, renewed, rolledBack>>

\* db_shutdown: deinit of the database there is, ...
Free(o) ==
    /\ opc[o] = "free"
    /\ oarg' = [oarg EXCEPT ![o] = global_db]
    /\ IF global_db = 0
       THEN /\ opc' = [opc EXCEPT ![o] = "clear"]
            /\ UNCHANGED <<database, touched>>
       ELSE /\ opc' = [opc EXCEPT ![o] = "null"]
            /\ Touch(global_db)
            /\ database' = [database EXCEPT ![global_db] = "freed"]
    /\ UNCHANGED <<count, closing, uuidCounter, news, global_db, globalDB,
                   package, callVars, saveVars, files, crashes, renewed,
                   rolledBack>>

\* ... then global_db = null, whatever it points to by now.
ClearZig(o) ==
    /\ opc[o] = "null"
    /\ global_db' = 0
    /\ opc' = [opc EXCEPT ![o] = "clear"]
    /\ UNCHANGED <<database, count, closing, uuidCounter, news, globalDB,
                   oarg, package, callVars, saveVars, files, crashes,
                   touched, renewed, rolledBack>>

\* globalDB = nil, which the Shutdown of a handle leaves out.
ShutdownReturns(o) ==
    /\ opc[o] = "clear"
    /\ globalDB' = IF package[o] THEN 0 ELSE globalDB
    /\ package' = [package EXCEPT ![o] = FALSE]
    /\ opc' = [opc EXCEPT ![o] = "idle"] /\ oarg' = [oarg EXCEPT ![o] = 0]
    /\ UNCHANGED <<database, count, closing, uuidCounter, news, global_db,
                   callVars, saveVars, files, crashes, touched, renewed,
                   rolledBack>>

-----------------------------------------------------------------------------
(* Calls *)

\* A write of a closing handle is refused; nothing else looks at the flag.
Call(c, h, o) ==
    /\ cpc[c] = "idle"
    /\ o = "write" => ~closing[h] /\ uuidCounter[h] < MaxWrites
    /\ cpc' = [cpc EXCEPT ![c] = "enter"]
    /\ op' = [op EXCEPT ![c] = o] /\ handle' = [handle EXCEPT ![c] = h]
    /\ UNCHANGED <<dbVars, ownerVars, db, saveVars, files, crashes, touched,
                   rolledBack>>

Leave(c) ==
    /\ cpc' = [cpc EXCEPT ![c] = "idle"]
    /\ handle' = [handle EXCEPT ![c] = 0] /\ db' = [db EXCEPT ![c] = 0]
    /\ op' = [op EXCEPT ![c] = "read"]

\* if (global_db) |db|, else "database not initialized" or nothing.
Enter(c) ==
    /\ cpc[c] = "enter"
    /\ IF global_db = 0 THEN Leave(c)
       ELSE /\ cpc' = [cpc EXCEPT ![c] = "inside"]
            /\ db' = [db EXCEPT ![c] = global_db]
            /\ UNCHANGED <<op, handle>>
    /\ UNCHANGED <<dbVars, ownerVars, saveVars, files, crashes, touched,
                   rolledBack>>

\* The call does its work in the region.
Work(c) ==
    /\ cpc[c] = "inside"
    /\ Touch(db[c])
    /\ IF op[c] = "write" /\ count[db[c]] < MaxSlots
       THEN /\ count' = [count EXCEPT ![db[c]] = @ + 1]
            /\ cpc' = [cpc EXCEPT ![c] = "uuid"]
            /\ db' = [db EXCEPT ![c] = 0] /\ UNCHANGED <<op, handle>>
       ELSE /\ count' = IF op[c] = "drain" THEN [count EXCEPT ![db[c]] = 0]
                        ELSE count
            /\ Leave(c)
    /\ UNCHANGED <<database, closing, uuidCounter, news, global_db, globalDB,
                   ownerVars, saveVars, files, crashes, rolledBack>>

\* The uuid is drawn after the message is in the region.
WriteUuid(c) ==
    /\ cpc[c] = "uuid"
    /\ uuidCounter' = [uuidCounter EXCEPT ![handle[c]] = @ + 1]
    /\ Leave(c)
    /\ UNCHANGED <<database, count, closing, news, global_db, globalDB,
                   ownerVars, saveVars, files, crashes, touched, rolledBack>>

-----------------------------------------------------------------------------
(* Snapshots *)

SaveSnapshot(h) ==
    /\ spc = "idle" /\ saves < MaxSaves
    /\ spc' = "export" /\ shandle' = h /\ saves' = saves + 1
    /\ UNCHANGED <<dbVars, ownerVars, callVars, files, crashes, touched,
                   rolledBack>>

SaveReturns == spc' = "idle" /\ shandle' = 0 /\ UNCHANGED saves

\* ExportChunk of the active region; nothing to export is an error.
ExportChunk ==
    /\ spc = "export"
    /\ IF global_db = 0 THEN UNCHANGED touched ELSE Touch(global_db)
    /\ IF global_db # 0 /\ count[global_db] > 0
       THEN /\ chunk' = [save |-> saves, count |-> count[global_db]]
            /\ spc' = "create" /\ UNCHANGED <<shandle, saves>>
       ELSE SaveReturns /\ UNCHANGED chunk
    /\ UNCHANGED <<dbVars, ownerVars, callVars, json, crashes, rolledBack>>

\* os.Create empties the json, or fails.
CreateJson ==
    /\ spc = "create"
    /\ \/ /\ json' = NoSnapshot /\ spc' = "encode"
          /\ UNCHANGED <<shandle, saves>>
       \/ SaveReturns /\ UNCHANGED json
    /\ UNCHANGED <<dbVars, ownerVars, callVars, chunk, crashes, touched,
                   rolledBack>>

\* Encode, with the counter as it is by now.  History: calm says that the
\* handle is that of the database, its counter never rolled back and no write
\* between the region and its uuid.
Encode ==
    /\ spc = "encode"
    /\ json' = [save |-> saves, whole |-> TRUE, uuid |-> uuidCounter[shandle],
                calm |-> global_db = shandle /\ shandle \notin rolledBack
                         /\ Handles = {shandle}
                         /\ \A c \in Callers : cpc[c] # "uuid"]
    /\ SaveReturns
    /\ UNCHANGED <<dbVars, ownerVars, callVars, chunk, crashes, touched,
                   rolledBack>>

\* LoadSnapshot sets the counter first; without a whole json it returns an
\* error and changes nothing.  (Nor does LoadChunk, which may still fail then,
\* change any of this.)
LoadSnapshot(h) ==
    /\ spc = "idle" /\ json.whole
    /\ uuidCounter' = [uuidCounter EXCEPT ![h] = json.uuid]
    /\ rolledBack' = rolledBack \cup {h}
    /\ UNCHANGED <<database, count, closing, news, global_db, globalDB,
                   ownerVars, callVars, saveVars, files, crashes, touched>>

\* The process dies and is started again: the files are left.
Die ==
    /\ crashes' = crashes + 1
    /\ database' = [n \in Numbers |-> "none"] /\ count' = [n \in Numbers |-> 0]
    /\ closing' = [n \in Numbers |-> FALSE]
    /\ uuidCounter' = [n \in Numbers |-> 0]
    /\ news' = 0 /\ global_db' = 0 /\ globalDB' = 0
    /\ opc' = [o \in Owners |-> "idle"] /\ oarg' = [o \in Owners |-> 0]
    /\ package' = [o \in Owners |-> FALSE]
    /\ cpc' = [c \in Callers |-> "idle"] /\ op' = [c \in Callers |-> "read"]
    /\ handle' = [c \in Callers |-> 0] /\ db' = [c \in Callers |-> 0]
    /\ spc' = "idle" /\ shandle' = 0
    /\ touched' = FALSE /\ overlapped' = FALSE /\ renewed' = FALSE
    /\ rolledBack' = {}
    /\ UNCHANGED <<files, saves>>

Crash == crashes < MaxCrashes /\ Die

\* Shutdown of the package on a handle another owner has just cleared.
NilPanic(o) == opc[o] = "store" /\ globalDB = 0 /\ crashes <= MaxCrashes /\ Die

OwnerStep(o) ==
    \/ New(o) \/ NewReturns(o) \/ Shutdown(o) \/ Store(o) \/ Free(o)
    \/ ClearZig(o) \/ ShutdownReturns(o)
    \/ \E h \in Handles : HandleShutdown(o, h)

CallerStep(c) ==
    \/ Enter(c) \/ Work(c) \/ WriteUuid(c)
    \/ \E h \in Handles, o \in Ops : Call(c, h, o)

SnapshotStep ==
    \/ ExportChunk \/ CreateJson \/ Encode
    \/ \E h \in Handles : SaveSnapshot(h) \/ LoadSnapshot(h)

Next ==
    \/ /\ \/ \E o \in Owners : OwnerStep(o)
          \/ \E c \in Callers : CallerStep(c)
          \/ SnapshotStep
       /\ overlapped' = (overlapped \/ Overlap')
    \/ Crash
    \/ \E o \in Owners : NilPanic(o)

Spec == Init /\ [][Next]_vars

-----------------------------------------------------------------------------
\* Memory of a freed region is used, or freed a second time, only if some
\* call, or another shutdown, was in Zig code while a shutdown was freeing: a
\* program that has its other threads at rest around Shutdown may shut down
\* and start anew as often as it likes, through whatever handle, and call in
\* between.
FreedOnlyBesideCalls == touched => overlapped

\* Unless New was called over a database, or beside a shutdown, the only
\* database in memory is the one calls reach, and after Shutdown none is.
OneLiveDatabase ==
    ~renewed => \A n \in Numbers : database[n] = "live" => n = global_db

\* The json of a snapshot is never newer than its chunk, whenever a save fails
\* or the process dies: LoadSnapshot never restores the counter of a save
\* whose chunk was not written.
JsonNotAhead == json.whole => json.save <= chunk.save

\* The counter in a calm snapshot is no less than the messages in its chunk,
\* with writers at work from the export to the end of the save: a process that
\* loads it draws no uuid that one of these messages may have.
UuidsCoverChunk ==
    (json.whole /\ json.calm /\ json.save = chunk.save) =>
        json.uuid >= chunk.count

-----------------------------------------------------------------------------
(* The inductive invariants behind the properties above. *)

\* Calls and saves work on handles New has returned, and what calls reach is
\* the newest database, if any.
Placed ==
    /\ \A o \in Owners : opc[o] = "new" => oarg[o] \in 1 .. news
    /\ \A c \in Callers : /\ cpc[c] # "idle" => handle[c] \in Handles
                          /\ cpc[c] = "inside" => db[c] \in Numbers
    /\ spc # "idle" => shandle \in Handles
    /\ global_db \in {0, news}

\* As long as shutdowns did not overlap with calls, what a call works on is
\* live, and so is global_db but for the moment before it is cleared.
FreedInv ==
    /\ touched => overlapped
    /\ ~overlapped =>
          /\ ~Overlap
          /\ \A c \in Callers : cpc[c] = "inside" => database[db[c]] = "live"
          /\ global_db # 0 =>
                database[global_db] = "live" \/ \E o \in Owners : opc[o] = "null"

LiveInv ==
    ~renewed => \A n \in Numbers : database[n] = "live" =>
        n = global_db /\ \A o \in Owners : opc[o] # "null"

\* The uuids a handle has given or is about to give.
Drawing(n) == {c \in Callers : cpc[c] = "uuid" /\ handle[c] = n}
Drawn(n) == uuidCounter[n] + Cardinality(Drawing(n))

\* n is the only handle and its counter was never set by a LoadSnapshot.
Sole(n) == Handles \subseteq {n} /\ n \notin rolledBack

\* Each message in a sole database has a uuid drawn or about to be, those in
\* the chunk of a save under way included.
UuidInv ==
    /\ \A n \in Numbers :
          IsFiniteSet(Drawing(n)) /\ (Sole(n) => count[n] <= Drawn(n))
    /\ (spc \in {"create", "encode"} /\ shandle = news /\ Sole(shandle)) =>
          chunk.count <= Drawn(shandle)

\* How far the two files of a snapshot are apart.
FilesInv ==
    /\ json.save <= chunk.save /\ chunk.save <= saves
    /\ spc = "export" => chunk.save < saves
    /\ spc \in {"create", "encode"} => chunk.save = saves
    /\ UuidsCoverChunk

LifeInv ==
    LifecycleTypeOK /\ Placed /\ FreedInv /\ LiveInv /\ UuidInv /\ FilesInv
=============================================================================
