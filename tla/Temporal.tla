------------------------------ MODULE Temporal ------------------------------
(***************************************************************************)
(* Checkpoints and rewinding: CreateCheckpoint, TemporalIndex with         *)
(* AddCheckpoint, FindNearest and Save, LoadTemporalIndex and RewindTo of  *)
(* bridge.go, over the regions of ActiveRegion, exports of them by a       *)
(* thread in ExportChunk, and the chunk files of LoadedChunk.              *)
(*                                                                         *)
(* One thread takes checkpoints and saves the index while another rewinds: *)
(* nothing locks the index.  Chunk files are named by the second of a      *)
(* checkpoint, but only an export the user makes writes them.  Of an entry *)
(* an exported record has the state hash, as its id, and whether there are *)
(* data.  A raw write leaves the state hash that it finds in its slot:     *)
(* only WriteEntry stores one.                                             *)
(***************************************************************************)
EXTENDS ActiveRegion, LoadedChunk

CONSTANTS
    Second,             \* nanoseconds in a second
    MaxInt,             \* the largest time stamp: 2^63 - 1
    Targets,            \* time stamps to rewind to
    NewMax,             \* MaxCheckpoints of a new handle: 100
    RestoredMax,        \* MaxCheckpoints of a restored index: 1000
    MaxTime,            \* model bound: the clock
    MaxFills,           \* model bound: drains and restarts
    MaxMade             \* model bound: checkpoints of a process

MinInt == -MaxInt - 1
Ints == MinInt .. MaxInt

ASSUME TemporalAssumption ==
    /\ Second \in Nat \ {0} /\ MaxInt \in Nat \ {0}
    /\ NewMax \in Nat \ {0} /\ RestoredMax \in Nat /\ NewMax <= RestoredMax
    /\ MaxTime \in 1 .. MaxInt /\ MaxFills \in Nat
    /\ MaxMade \in Nat /\ Targets \subseteq Ints
    /\ Names = {t \div Second : t \in 0 .. MaxTime}

VARIABLES
    now,                          \* clock
    versions,                     \* history: for a slot, how often this fill
                                  \* a WriteEntry has stored a state hash there
    xpc, name, count, x_i,        \* ExportChunk: place, file, count, index
    origin,                       \* history: for a record of an export, the
                                  \* fill and version it was read at
    checkpoints, maxCheckpoints,
    kpc, cp,                      \* CreateCheckpoint and Save: place, value
    fpc, timestamp,               \* RewindTo and FindNearest: place, argument,
    len, f_i, minDiff, nearest,   \* range of its loop, index, best so far
    saved,                        \* the file of the index
    made,                         \* history: what went into the index
    steady                        \* history: no drop since len was read

exportVars == <<xpc, name, count, x_i>>
indexVars == <<checkpoints, maxCheckpoints, kpc, cp, saved, made>>
findVars == <<fpc, timestamp, len, f_i, minDiff, nearest, steady>>
sourceVars == <<regionVars, versions>>
temporalVars == <<chunkVars, sourceVars, now, exportVars, origin, indexVars,
                  findVars>>

\* Two's complement.
Wrap(x) == ((x - MinInt) % (2 * (MaxInt + 1))) + MinInt

\* History: the fill it was counted in, whether no drain came before the state
\* hash was read, and the version of the entry it was read from.
Checkpoints == [Timestamp : 0 .. MaxTime, Offset : 0 .. MaxSlots,
                StateHash : Nat, fill : Nat, calm : BOOLEAN, version : Nat]
NoCheckpoint == [Timestamp |-> 0, Offset |-> 0, StateHash |-> 0, fill |-> 0,
                 calm |-> FALSE, version |-> 0]

\* The name of a chunk file is the second of a checkpoint.
ChunkID(c) == c.Timestamp \div Second

TemporalTypeOK ==
    /\ ChunkTypeOK
    /\ RegionTypeOK /\ fill <= MaxFills
    /\ now \in 1 .. MaxTime /\ versions \in [Slots -> Nat]
    /\ xpc \in {"idle", "create", "entry"} /\ name \in Names
    /\ count \in 0 .. MaxSlots /\ x_i \in 0 .. count
    /\ origin \in [Names -> Seq([fill : Nat, version : Nat])]
    /\ checkpoints \in Seq(Checkpoints) /\ Len(checkpoints) <= maxCheckpoints
    /\ maxCheckpoints \in {NewMax, RestoredMax}
    /\ kpc \in {"idle", "count", "hash", "add", "append", "save"}
    /\ cp \in Checkpoints
    /\ fpc \in {"idle", "scan", "found", "rewound", "panic"}
    /\ timestamp \in Ints /\ len \in Nat /\ f_i \in 0 .. len
    /\ minDiff \in Ints /\ nearest \in Seq(Checkpoints) /\ Len(nearest) <= 1
    /\ saved.form \in {"absent", "empty", "whole"}
    /\ saved.checkpoints \in Seq(Checkpoints)
    /\ made \in Seq(Checkpoints) /\ steady \in BOOLEAN

Finding(pc, t, l, c) ==
    /\ fpc' = pc /\ timestamp' = t /\ len' = l /\ f_i' = 0
    /\ minDiff' = MaxInt /\ nearest' = c /\ steady' = (pc = "scan")

Exporting(pc, n, c, r) == xpc' = pc /\ name' = n /\ count' = c /\ x_i' = r

TemporalInit ==
    /\ ChunkInit
    /\ RegionInit
    /\ now = 1 /\ versions = [s \in Slots |-> 0]
    /\ xpc = "idle" /\ name = 0 /\ count = 0 /\ x_i = 0
    /\ origin = [n \in Names |-> <<>>]
    /\ checkpoints = <<>> /\ maxCheckpoints = NewMax
    /\ kpc = "idle" /\ cp = NoCheckpoint
    /\ fpc = "idle" /\ timestamp = 0 /\ len = 0 /\ f_i = 0
    /\ minDiff = MaxInt /\ nearest = <<>> /\ steady = FALSE
    /\ saved = [form |-> "absent", checkpoints |-> <<>>]
    /\ made = <<>>

-----------------------------------------------------------------------------
(* Plausible bugs, kept to show that the properties notice them. *)

\* CheckpointHash of the entry after the last one counted.
HashNext ==
    /\ kpc = "hash" /\ kpc' = "add"
    /\ LET s == cp.Offset
       IN  cp' = IF s = 0 THEN cp
                 ELSE [cp EXCEPT !.version = versions[s - 1],
                          !.StateHash = IF s \in Slots /\ Given(s)
                                        THEN At(fill, s).state_hash ELSE 0]
    /\ UNCHANGED <<chunkVars, sourceVars, now, exportVars, origin, checkpoints,
                   maxCheckpoints, saved, made, findVars>>

\* DropOldest of an index that is more than full.
DropLate ==
    /\ kpc = "add" /\ kpc' = "append"
    /\ IF Len(checkpoints) > maxCheckpoints
       THEN checkpoints' = Tail(checkpoints) /\ steady' = FALSE
       ELSE UNCHANGED <<checkpoints, steady>>
    /\ UNCHANGED <<chunkVars, sourceVars, now, exportVars, origin,
                   maxCheckpoints, cp, saved, made, fpc, timestamp, len, f_i,
                   minDiff, nearest>>

\* Diff with the sign left on.
SignedDiff(c) == Wrap(c.Timestamp - timestamp)

-----------------------------------------------------------------------------
(* The region and the process *)

Tick ==
    /\ now < MaxTime /\ now' = now + 1
    /\ UNCHANGED <<chunkVars, sourceVars, exportVars, origin, indexVars,
                   findVars>>

\* Raw writes, reservations, and the data of a WriteEntry.
Writes ==
    /\ StoreStep
    /\ UNCHANGED <<chunkVars, versions, now, exportVars, origin, indexVars,
                   findVars>>

\* WriteEntry stores a state hash, in the region that is active by now.
WriteEntry(v, q, t, h) ==
    /\ FillFields(v, q, t, h)
    /\ versions' = [versions EXCEPT ![v.slot] = @ + 1]
    /\ UNCHANGED <<chunkVars, now, exportVars, origin, indexVars, findVars>>

\* A checkpoint that is between its count and its hash is not calm.
TriggerDrain ==
    /\ fill < MaxFills /\ SwitchAndDrain
    /\ versions' = [s \in Slots |-> 0]
    /\ cp' = IF kpc = "hash" THEN [cp EXCEPT !.calm = FALSE] ELSE cp
    /\ UNCHANGED <<chunkVars, now, exportVars, origin, checkpoints,
                   maxCheckpoints, kpc, saved, made, findVars>>

\* The process ends and another one calls New: the files are left.
Restart ==
    /\ fill < MaxFills /\ NewRegions
    /\ versions' = [s \in Slots |-> 0]
    /\ Exporting("idle", 0, 0, 0)
    /\ LoadedChunkEntries' = <<>> /\ chunkLoaded' = FALSE
    /\ LoadedIndexEntries' = <<>>
    /\ mmap' = 0 /\ mappings' = {} /\ mapped' = FALSE /\ doubled' = FALSE
    /\ source' = Absent /\ read' = FALSE
    /\ checkpoints' = <<>> /\ maxCheckpoints' = NewMax
    /\ kpc' = "idle" /\ cp' = NoCheckpoint /\ made' = <<>>
    /\ Finding("idle", 0, 0, <<>>)
    /\ UNCHANGED <<file, puts, maps, now, origin, saved>>

\* The other operations of LoadedChunk, by the program that rewinds.  Nobody
\* puts a file where an export is writing.
Chunks ==
    /\ fpc = "idle" /\ ChunkNext
    /\ xpc = "entry" => file'[name] = file[name]
    /\ origin' = [n \in Names |-> IF file'[n] = file[n] THEN origin[n] ELSE <<>>]
    /\ UNCHANGED <<sourceVars, now, exportVars, indexVars, findVars>>

-----------------------------------------------------------------------------
(* ExportChunk.  That its writes and os.Create may fail is left to ChunkFile. *)

\* GetMessageCount.
ExportChunk(n) ==
    /\ xpc = "idle" /\ committed # 0 /\ puts < MaxPuts
    /\ puts' = puts + 1
    /\ Exporting("create", n, committed, 0)
    /\ UNCHANGED <<file, loadVars, sourceVars, now, origin, indexVars,
                   findVars>>

\* os.Create and the header.
ExportCreate ==
    /\ xpc = "create"
    /\ file' = [file EXCEPT ![name] = [form |-> "chunk", count |-> count,
                                       recs |-> <<>>, tail |-> <<>>]]
    /\ origin' = [origin EXCEPT ![name] = <<>>]
    /\ Exporting("entry", name, count, 0)
    /\ UNCHANGED <<puts, loadVars, sourceVars, now, indexVars, findVars>>

\* db_get_entry_cgo(i) has an entry, in the region that is active by now.
More == x_i < count /\ Given(x_i)

ExportEntry ==
    /\ xpc = "entry" /\ More
    /\ LET e == At(fill, x_i)
           rec == [id |-> e.state_hash, room |-> e.room_id,
                   data |-> IF e.data = None THEN "none" ELSE "hit"]
       IN  file' = [file EXCEPT ![name].recs = Append(@, rec)]
    /\ origin' = [origin EXCEPT ![name] =
                      Append(@, [fill |-> fill, version |-> versions[x_i]])]
    /\ Exporting("entry", name, count, x_i + 1)
    /\ UNCHANGED <<puts, loadVars, sourceVars, now, indexVars, findVars>>

ExportReturns ==
    /\ xpc = "entry" /\ ~More
    /\ Exporting("idle", 0, 0, 0)
    /\ UNCHANGED <<chunkVars, sourceVars, now, origin, indexVars, findVars>>

-----------------------------------------------------------------------------
(* CreateCheckpoint and Save *)

\* time.Now.
CreateCheckpoint ==
    /\ kpc = "idle" /\ Len(made) < MaxMade
    /\ kpc' = "count" /\ cp' = [NoCheckpoint EXCEPT !.Timestamp = now]
    /\ UNCHANGED <<chunkVars, sourceVars, now, exportVars, origin,
                   checkpoints, maxCheckpoints, saved, made, findVars>>

\* GetMessageCount.
CheckpointCount ==
    /\ kpc = "count" /\ kpc' = "hash"
    /\ cp' = [Timestamp |-> cp.Timestamp, Offset |-> committed,
              StateHash |-> 0, fill |-> fill, calm |-> TRUE, version |-> 0]
    /\ UNCHANGED <<chunkVars, sourceVars, now, exportVars, origin,
                   checkpoints, maxCheckpoints, saved, made, findVars>>

\* The state hash of the last entry counted, looked up in the region that is
\* active by now; 0 if it has no such entry.
CheckpointHash ==
    /\ kpc = "hash" /\ kpc' = "add"
    /\ LET s == cp.Offset - 1
       IN  cp' = IF s \in Slots /\ Given(s)
                 THEN [cp EXCEPT !.StateHash = At(fill, s).state_hash,
                                 !.version = versions[s]]
                 ELSE cp
    /\ UNCHANGED <<chunkVars, sourceVars, now, exportVars, origin,
                   checkpoints, maxCheckpoints, saved, made, findVars>>

\* AddCheckpoint: t.Checkpoints[1:] if the index is full, ...
DropOldest ==
    /\ kpc = "add" /\ kpc' = "append"
    /\ IF Len(checkpoints) >= maxCheckpoints
       THEN checkpoints' = Tail(checkpoints) /\ steady' = FALSE
       ELSE UNCHANGED <<checkpoints, steady>>
    /\ UNCHANGED <<chunkVars, sourceVars, now, exportVars, origin,
                   maxCheckpoints, cp, saved, made, fpc, timestamp, len, f_i,
                   minDiff, nearest>>

\* ... then append.
AppendCheckpoint ==
    /\ kpc = "append" /\ kpc' = "idle"
    /\ checkpoints' = Append(checkpoints, cp) /\ made' = Append(made, cp)
    /\ cp' = NoCheckpoint
    /\ UNCHANGED <<chunkVars, sourceVars, now, exportVars, origin,
                   maxCheckpoints, saved, findVars>>

\* Save: os.Create leaves an empty file ...
Save ==
    /\ kpc = "idle" /\ checkpoints # <<>> /\ kpc' = "save"
    /\ saved' = [form |-> "empty", checkpoints |-> <<>>]
    /\ UNCHANGED <<chunkVars, sourceVars, now, exportVars, origin,
                   checkpoints, maxCheckpoints, cp, made, findVars>>

\* ... until the checkpoints are encoded into it.
Encode ==
    /\ kpc = "save" /\ kpc' = "idle"
    /\ saved' = [form |-> "whole", checkpoints |-> checkpoints]
    /\ UNCHANGED <<chunkVars, sourceVars, now, exportVars, origin,
                   checkpoints, maxCheckpoints, cp, made, findVars>>

\* LoadTemporalIndex and SetTemporalIndex, while nothing uses the index.  An
\* empty file is an error.
LoadTemporalIndex ==
    /\ kpc = "idle" /\ fpc = "idle" /\ saved.form = "whole"
    /\ checkpoints' = saved.checkpoints /\ maxCheckpoints' = RestoredMax
    /\ made' = saved.checkpoints
    /\ UNCHANGED <<chunkVars, sourceVars, now, exportVars, origin, kpc, cp,
                   saved, findVars>>

-----------------------------------------------------------------------------
(* RewindTo *)

\* FindNearest: the range of the loop is the length of the slice by now.
\* Without checkpoints RewindTo returns an error and has changed nothing.
RewindTo(t) ==
    /\ fpc = "idle" /\ checkpoints # <<>>
    /\ Finding("scan", t, Len(checkpoints), <<>>)
    /\ UNCHANGED <<chunkVars, sourceVars, now, exportVars, origin, indexVars>>

Diff(c) ==
    LET diff == Wrap(c.Timestamp - timestamp)
    IN  IF diff < 0 THEN Wrap(-diff) ELSE diff

\* One round of the loop; the index is checked against the slice as it is.
FindStep ==
    /\ fpc = "scan" /\ f_i < len /\ f_i < Len(checkpoints)
    /\ LET c == checkpoints[f_i + 1]
       IN  IF Diff(c) < minDiff THEN minDiff' = Diff(c) /\ nearest' = <<c>>
           ELSE UNCHANGED <<minDiff, nearest>>
    /\ f_i' = f_i + 1
    /\ UNCHANGED <<chunkVars, sourceVars, now, exportVars, origin, indexVars,
                   fpc, timestamp, len, steady>>

\* Index out of range: the process is about to end.
FindPanics ==
    /\ fpc = "scan" /\ f_i < len /\ f_i >= Len(checkpoints)
    /\ fpc' = "panic"
    /\ UNCHANGED <<chunkVars, sourceVars, now, exportVars, origin, indexVars,
                   timestamp, len, f_i, minDiff, nearest, steady>>

FindReturns ==
    /\ fpc = "scan" /\ f_i = len
    /\ fpc' = "found"
    /\ UNCHANGED <<chunkVars, sourceVars, now, exportVars, origin, indexVars,
                   timestamp, len, f_i, minDiff, nearest, steady>>

\* LoadChunk of the file of the checkpoint's second.
Rewind ==
    /\ fpc = "found" /\ nearest # <<>>
    /\ LoadChunk(ChunkID(nearest[1]))
    /\ IF file[ChunkID(nearest[1])].form = "chunk"
       THEN Finding("rewound", 0, 0, nearest)
       ELSE Finding("idle", 0, 0, <<>>)
    /\ UNCHANGED <<sourceVars, now, exportVars, origin, indexVars>>

\* No nearest checkpoint, which is an error, or the load is over.
RewindReturns ==
    /\ fpc = "rewound" \/ (fpc = "found" /\ nearest = <<>>)
    /\ Finding("idle", 0, 0, <<>>)
    /\ UNCHANGED <<chunkVars, sourceVars, now, exportVars, origin, indexVars>>

ExportStep ==
    \/ ExportCreate \/ ExportEntry \/ ExportReturns
    \/ \E n \in Names : ExportChunk(n)

CheckpointStep ==
    \/ CreateCheckpoint \/ CheckpointCount \/ CheckpointHash \/ DropOldest
    \/ AppendCheckpoint \/ Save \/ Encode \/ LoadTemporalIndex

RewindStep ==
    \/ FindStep \/ FindPanics \/ FindReturns \/ Rewind \/ RewindReturns
    \/ \E t \in Targets : RewindTo(t)

TemporalNext ==
    \/ Tick \/ Writes \/ TriggerDrain \/ Restart \/ Chunks
    \/ \E v \in reservations, q \in Rooms, t \in Times, h \in Hashes :
          WriteEntry(v, q, t, h)
    \/ ExportStep
    \/ fpc # "panic" /\ CheckpointStep
    \/ RewindStep

TemporalSpec == TemporalInit /\ [][TemporalNext]_temporalVars

-----------------------------------------------------------------------------
\* Between additions the index holds the newest checkpoints in the order of
\* their making, as many as it may: also after a restart has brought back a
\* saved index with another maximum.
IndexIsNewest ==
    kpc # "append" =>
        LET kept == Min({Len(made), maxCheckpoints})
        IN  checkpoints = SubSeq(made, Len(made) - kept + 1, Len(made))

AbsDiff(x, y) == IF x < y THEN y - x ELSE x - y

\* FindNearest beside AddCheckpoint: unless the index dropped a checkpoint
\* meanwhile, it neither panics nor returns another checkpoint than the first
\* of the nearest, for every time stamp, as long as the distances fit their
\* integers.
NearestIsNearest ==
    /\ fpc = "panic" => ~steady
    /\ (fpc = "found" /\ steady) =>
        LET far(c) == AbsDiff(checkpoints[c].Timestamp, timestamp)
            best == {c \in 1 .. len : \A d \in 1 .. len : far(c) <= far(d)}
        IN  (\A c \in 1 .. len : far(c) < MaxInt) =>
                nearest = <<checkpoints[Min(best)]>>

\* A rewind that loads a chunk with an export's record for the entry before its
\* checkpoint's offset finds the checkpoint's state hash there, if the record
\* was read in the fill that the checkpoint counted and no WriteEntry changed
\* the slot between the two looks at it, and unless a drain came in the middle
\* of CreateCheckpoint.  Writes, drains and exports under way do not matter.
RewindMatches ==
    [][(fpc = "found" /\ fpc' = "rewound" /\ read') =>
          LET c == nearest[1]
              o == origin[ChunkID(c)]
          IN  (/\ c.calm /\ c.Offset \in DOMAIN o
               /\ o[c.Offset] = [fill |-> c.fill, version |-> c.version])
                  => LoadedChunkEntries'[c.Offset].id = c.StateHash]_temporalVars

-----------------------------------------------------------------------------
(* The inductive invariants behind the properties above. *)

\* No file has more records than it says, and one that is being written not
\* more than its export has come to.
FilesInv ==
    /\ \A n \in Names : /\ Len(file[n].tail) <= 1
                         /\ Len(file[n].recs) + Len(file[n].tail) <= file[n].count
                         /\ Len(origin[n]) <= Len(file[n].recs)
    /\ xpc = "entry" => /\ file[name].form = "chunk" /\ file[name].tail = <<>>
                        /\ file[name].count = count
                        /\ Len(file[name].recs) = x_i /\ Len(origin[name]) = x_i

LoadedInv == EntriesOfOneFile /\ MappingsPaired

\* Between DropOldest and AppendCheckpoint there is room for one more.  What
\* is saved fits a restored index.
Room == IF kpc = "append" THEN maxCheckpoints - 1 ELSE maxCheckpoints

IndexInv ==
    /\ Len(checkpoints) = IF Len(made) <= Room THEN Len(made) ELSE Room
    /\ \A j \in 1 .. Len(checkpoints) :
          checkpoints[j] = made[Len(made) - Len(checkpoints) + j]
    /\ Len(saved.checkpoints) <= RestoredMax

\* Everything a checkpoint is kept in.
Held ==
    (UNION {Range(s) : s \in {checkpoints, saved.checkpoints, nearest}})
        \cup (IF kpc \in {"add", "append"} THEN {cp} ELSE {})

\* The state hash of a slot with its fill and version: what is there by now,
\* what calm checkpoints have, and what the records of exports have.
Looks == [fill : Nat, slot : Slots, version : Nat, hash : Nat]
Look(s) == [fill |-> fill, slot |-> s, version |-> versions[s],
            hash |-> At(fill, s).state_hash]

Taken == {[fill |-> c.fill, slot |-> c.Offset - 1, version |-> c.version,
           hash |-> c.StateHash] : c \in {k \in Held : k.calm /\ k.Offset > 0}}
Noted == UNION {{[fill |-> origin[n][r].fill, slot |-> r - 1,
                  version |-> origin[n][r].version,
                  hash |-> file[n].recs[r].id] : r \in 1 .. Len(origin[n])} :
                n \in Names}

\* A look is not of a fill or version to come, and has the hash of its own.
Current(l) ==
    /\ l.fill <= fill
    /\ l.fill = fill => /\ l.version <= versions[l.slot]
                        /\ l.version = versions[l.slot] => l = Look(l.slot)

\* Checkpoints and records agree with the region, and with each other.
HashInv ==
    /\ Taken \cup Noted \subseteq Looks
    /\ \A l \in Taken \cup Noted : Current(l)
    /\ \A l \in Taken, m \in Noted :
          (l.fill = m.fill /\ l.slot = m.slot /\ l.version = m.version) => l = m
    /\ (kpc = "hash" /\ cp.calm) => cp.fill = fill /\ cp.Offset <= committed

\* The first of the nearest of the checkpoints FindNearest has passed.
Scanned ==
    \/ /\ nearest = <<>> /\ minDiff = MaxInt
       /\ \A d \in 1 .. f_i : Diff(checkpoints[d]) >= MaxInt
    \/ \E c \in 1 .. f_i :
          /\ nearest = <<checkpoints[c]>> /\ minDiff = Diff(checkpoints[c])
          /\ \A d \in 1 .. f_i : Diff(checkpoints[d]) >= minDiff
          /\ \A d \in 1 .. c - 1 : Diff(checkpoints[d]) > minDiff

FindInv ==
    /\ fpc \in {"scan", "found"} => len > 0
    /\ fpc = "found" => f_i = len
    /\ fpc = "rewound" => nearest # <<>>
    /\ fpc = "panic" => ~steady
    /\ (fpc \in {"scan", "found"} /\ steady) =>
          len <= Len(checkpoints) /\ Scanned

TemporalInv ==
    /\ TemporalTypeOK /\ RegionInv
    /\ FilesInv /\ LoadedInv /\ IndexInv /\ HashInv /\ FindInv
=============================================================================
