----------------------------- MODULE ChunkFile -----------------------------
(***************************************************************************)
(* Chunk and index files: ExportChunk, ExportIndex, AutoDumpOnDrain,       *)
(* LoadChunk and SearchWithPool of bridge.go.  An export counts the active *)
(* region, writes that count into the file's header and then asks for one  *)
(* entry after the other, while the writers, reservations and drains of    *)
(* ActiveRegion go on under it; it looks at no result of a write.  A load  *)
(* replaces LoadedChunkEntries before it has read the records.  Any step   *)
(* may be the last one before the process dies.                            *)
(*                                                                         *)
(* Of an entry a record has its data, and with them whether it has any.    *)
(* Records of one file that have data have one size.                       *)
(***************************************************************************)
EXTENDS ActiveRegion, Sequences

CONSTANTS
    Names,      \* file names, without .rb or .index
    Exporters,  \* threads in ExportChunk, ExportIndex or AutoDumpOnDrain
    Loaders,    \* threads in LoadChunk or SearchWithPool
    NeedAt,     \* db_needs_drain: committed entries that call for a drain
    MaxFills    \* model bound: drains and restarts in one behaviour

ASSUME FillsAssumption == MaxFills \in Nat /\ NeedAt \in Nat
ASSUME ExportersAssumption == IsFiniteSet(Exporters)

Kinds == {"chunk", "index"}
\* History: settled says that the slot was, when it was read.
Record == [data : Data, settled : BOOLEAN]
\* The zero MessageEntryData of make(), and a record whose data is cut short
\* or changed while it was copied.
Blank == [data |-> None, settled |-> FALSE]
Cut == [data |-> Torn, settled |-> FALSE]

VARIABLES
    file,              \* [Kinds -> [Names -> contents]]
    full,              \* the disk takes no more bytes
    epc, kind, name,   \* an exporter's place, what it writes and where
    count, i,          \* its count and index
    held, at,          \* the entry it was given, and the fill it is in
    dumping, drained,  \* it is in AutoDumpOnDrain, and the fill it drained
    solid,             \* history: the settled ones of the entries it counted
    calm,              \* history: no drain, no write cut or lost since count
    LoadedChunkEntries, chunkLoaded,
    lpc, source,       \* a loader's place and file
    lcount, j,         \* its count and index
    alone              \* history: no other load has touched
                       \* LoadedChunkEntries and no export its file

disk == <<file, full>>
exportVars == <<epc, kind, name, count, i, held, at, dumping, drained, solid,
                calm>>
loadVars == <<LoadedChunkEntries, chunkLoaded, lpc, source, lcount, j, alone>>
vars == <<regionVars, disk, exportVars, loadVars>>

\* A file: how far its header is, the count in it, the complete records, and
\* what follows them: nothing, part of a record without its data ("fields"),
\* or one with part of its data ("cut").
Contents == [head : {"absent", "created", "headed"}, count : 0 .. MaxSlots,
             recs : Seq(Record), tail : {"none", "fields", "cut"}]
Empty(h, c) == [head |-> h, count |-> c, recs |-> <<>>, tail |-> "none"]
Absent == Empty("absent", 0)

ExportPCs ==
    {"idle", "drain", "spin", "count", "create", "header", "entry", "data", "done"}

TypeOK ==
    /\ RegionTypeOK /\ fill <= MaxFills + 1
    /\ file \in [Kinds -> [Names -> Contents]] /\ full \in BOOLEAN
    /\ epc \in [Exporters -> ExportPCs]
    /\ kind \in [Exporters -> Kinds] /\ name \in [Exporters -> Names]
    /\ count \in [Exporters -> 0 .. MaxSlots]
    /\ i \in [Exporters -> 0 .. MaxSlots]
    /\ held \in [Exporters -> Record] /\ at \in [Exporters -> 0 .. fill]
    /\ dumping \in [Exporters -> BOOLEAN] /\ drained \in [Exporters -> Nat]
    /\ solid \in [Exporters -> SUBSET Slots] /\ calm \in [Exporters -> BOOLEAN]
    /\ LoadedChunkEntries \in Seq(Record)
    /\ chunkLoaded \in BOOLEAN
    /\ lpc \in [Loaders -> {"idle", "record", "search"}]
    /\ source \in [Loaders -> Names]
    /\ lcount \in [Loaders -> 0 .. MaxSlots]
    /\ j \in [Loaders -> 0 .. MaxSlots]
    /\ alone \in [Loaders -> BOOLEAN]

Init ==
    /\ RegionInit
    /\ file = [k \in Kinds |-> [n \in Names |-> Absent]] /\ full = FALSE
    /\ epc = [x \in Exporters |-> "idle"]
    /\ kind = [x \in Exporters |-> "chunk"]
    /\ name \in {[x \in Exporters |-> n] : n \in Names}
    /\ count = [x \in Exporters |-> 0]
    /\ i = [x \in Exporters |-> 0]
    /\ held = [x \in Exporters |-> Blank] /\ at = [x \in Exporters |-> 0]
    /\ dumping = [x \in Exporters |-> FALSE]
    /\ drained = [x \in Exporters |-> 0] /\ solid = [x \in Exporters |-> {}]
    /\ calm = [x \in Exporters |-> FALSE]
    /\ LoadedChunkEntries = <<>> /\ chunkLoaded = FALSE
    /\ lpc = [l \in Loaders |-> "idle"]
    /\ source \in {[l \in Loaders |-> n] : n \in Names}
    /\ lcount = [l \in Loaders |-> 0]
    /\ j = [l \in Loaders |-> 0]
    /\ alone = [l \in Loaders |-> FALSE]

\* The file exporter x is writing.
Out(x) == file[kind[x]][name[x]]

-----------------------------------------------------------------------------
(* The region and the process. *)

Fills == FillStep /\ UNCHANGED <<disk, exportVars, loadVars>>

\* The drained entries are gone; the other region takes over.
Drain ==
    /\ SwitchAndDrain
    /\ calm' = [x \in Exporters |-> FALSE]

\* Dumps about to drain; the model bound keeps their drains for them.
Draining == {x \in Exporters : epc[x] = "drain"}

TriggerDrain ==
    /\ fill + Cardinality(Draining) < MaxFills
    /\ Drain
    /\ UNCHANGED <<disk, epc, kind, name, count, i, held, at, dumping, drained,
                   solid, loadVars>>

\* The process ends where it is and a new one starts with empty regions:
\* only files survive, and by then somebody has made room on the disk.
Die ==
    /\ NewRegions
    /\ full' = FALSE
    /\ epc' = [x \in Exporters |-> "idle"]
    /\ count' = [x \in Exporters |-> 0] /\ i' = [x \in Exporters |-> 0]
    /\ held' = [x \in Exporters |-> Blank] /\ at' = [x \in Exporters |-> 0]
    /\ dumping' = [x \in Exporters |-> FALSE]
    /\ drained' = [x \in Exporters |-> 0]
    /\ solid' = [x \in Exporters |-> {}]
    /\ calm' = [x \in Exporters |-> FALSE]
    /\ LoadedChunkEntries' = <<>> /\ chunkLoaded' = FALSE
    /\ lpc' = [l \in Loaders |-> "idle"]
    /\ lcount' = [l \in Loaders |-> 0] /\ j' = [l \in Loaders |-> 0]
    /\ alone' = [l \in Loaders |-> FALSE]
    /\ UNCHANGED <<file, kind, name, source>>

Restart == fill < MaxFills /\ Die

-----------------------------------------------------------------------------
(* Exports. *)

\* The name is the caller's, or the second the dump starts in: no two
\* exports at a time share it.
Unused(x, n) == \A y \in Exporters \ {x} : epc[y] # "idle" => name[y] # n

\* The call returns, with an error or without.
Return(x) ==
    /\ epc' = [epc EXCEPT ![x] = "idle"]
    /\ count' = [count EXCEPT ![x] = 0] /\ i' = [i EXCEPT ![x] = 0]
    /\ held' = [held EXCEPT ![x] = Blank] /\ at' = [at EXCEPT ![x] = 0]
    /\ dumping' = [dumping EXCEPT ![x] = FALSE]
    /\ drained' = [drained EXCEPT ![x] = 0]
    /\ solid' = [solid EXCEPT ![x] = {}]
    /\ calm' = [calm EXCEPT ![x] = FALSE]

\* ExportChunk or ExportIndex is called.
Export(x, k, n) ==
    /\ epc[x] = "idle" /\ Unused(x, n)
    /\ epc' = [epc EXCEPT ![x] = "count"]
    /\ kind' = [kind EXCEPT ![x] = k]
    /\ name' = [name EXCEPT ![x] = n]
    /\ UNCHANGED <<regionVars, disk, count, i, held, at, dumping, drained,
                   solid, calm, loadVars>>

\* AutoDumpOnDrain finds that a drain is needed; otherwise it does nothing.
AutoDumpOnDrain(x, n) ==
    /\ epc[x] = "idle" /\ Unused(x, n)
    /\ committed >= NeedAt
    /\ fill + Cardinality(Draining) < MaxFills
    /\ epc' = [epc EXCEPT ![x] = "drain"]
    /\ kind' = [kind EXCEPT ![x] = "chunk"]
    /\ name' = [name EXCEPT ![x] = n]
    /\ dumping' = [dumping EXCEPT ![x] = TRUE]
    /\ UNCHANGED <<regionVars, disk, count, i, held, at, drained, solid, calm,
                   loadVars>>

\* It drains first, ...
DumpDrains(x) ==
    /\ epc[x] = "drain" /\ fill < MaxFills
    /\ Drain
    /\ epc' = [epc EXCEPT ![x] = "spin"]
    /\ drained' = [drained EXCEPT ![x] = fill]
    /\ UNCHANGED <<disk, kind, name, count, i, held, at, dumping, solid,
                   loadVars>>

\* ... until no writer is left in what it drained; what it exports then is
\* the region that took over, or a later one.
DumpSpins(x) ==
    /\ epc[x] = "spin"
    /\ \A w \in Writers : wpc[w] # "idle" => drained[x] < mine[w].fill
    /\ epc' = [epc EXCEPT ![x] = "count"]
    /\ drained' = [drained EXCEPT ![x] = 0]
    /\ UNCHANGED <<regionVars, disk, kind, name, count, i, held, at, dumping,
                   solid, calm, loadVars>>

\* GetMessageCount.  With nothing to export the call, dump or not, is over.
Count(x) ==
    /\ epc[x] = "count"
    /\ IF committed = 0
       THEN Return(x)
       ELSE /\ epc' = [epc EXCEPT ![x] = "create"]
            /\ count' = [count EXCEPT ![x] = committed]
            /\ i' = [i EXCEPT ![x] = 0]
            /\ solid' = [solid EXCEPT ![x] = {s \in settled : Given(s)}]
            \* the index of a dump is as calm as its chunk was
            /\ calm' = IF dumping[x] /\ kind[x] = "index" THEN calm
                       ELSE [calm EXCEPT ![x] = TRUE]
            /\ UNCHANGED <<held, at, dumping, drained>>
    /\ UNCHANGED <<regionVars, disk, kind, name, loadVars>>

\* os.Create empties the file, under whoever reads it, or fails.
Create(x) ==
    /\ epc[x] = "create"
    /\ \/ /\ file' = [file EXCEPT ![kind[x]][name[x]] = Empty("created", 0)]
          /\ epc' = [epc EXCEPT ![x] = "header"]
          /\ alone' = [l \in Loaders |-> alone[l] /\ ~(kind[x] = "chunk"
                                                    /\ source[l] = name[x])]
          /\ UNCHANGED <<count, i, held, at, dumping, drained, solid, calm>>
       \/ Return(x) /\ UNCHANGED <<file, alone>>
    /\ UNCHANGED <<regionVars, full, kind, name,
                   LoadedChunkEntries, chunkLoaded, lpc, source, lcount, j>>

\* A write to the file: all of it, the part that still fits on the disk, or
\* nothing.  The caller does not look.
Put(x, whole, part) ==
    \/ /\ ~full /\ UNCHANGED <<full, calm>>
       /\ file' = [file EXCEPT ![kind[x]][name[x]] = whole]
    \/ /\ ~full /\ full' = TRUE
       /\ calm' = [calm EXCEPT ![x] = FALSE]
       /\ file' = [file EXCEPT ![kind[x]][name[x]] = part]
    \/ /\ full /\ UNCHANGED disk
       /\ calm' = [calm EXCEPT ![x] = FALSE]

-----------------------------------------------------------------------------
(* Plausible bugs, kept to show that the properties notice them. *)

\* More, with a loop that asks for the count again each time round.
MoreByNow(x) == Given(i[x])

\* Header that asks for the count again.
LateCount(x) ==
    /\ epc[x] = "header"
    /\ Put(x, Empty("headed", committed), Out(x))
    /\ epc' = [epc EXCEPT ![x] = "entry"]
    /\ UNCHANGED <<regionVars, kind, name, count, i, held, at, dumping, drained,
                   solid, loadVars>>

\* EndLoop with a continue in the place of the break.
Continue(x) ==
    /\ epc[x] = "entry"
    /\ i[x] >= count[x] \/ ~Given(i[x])
    /\ IF i[x] < count[x] THEN i' = [i EXCEPT ![x] = @ + 1] /\ UNCHANGED epc
       ELSE epc' = [epc EXCEPT ![x] = "done"] /\ UNCHANGED i
    /\ UNCHANGED <<regionVars, disk, kind, name, count, held, at, dumping,
                   drained, solid, calm, loadVars>>

\* ExportReturns with one loop variable for both files.
SharedIndex(x) ==
    /\ epc[x] = "done"
    /\ IF dumping[x] /\ kind[x] = "chunk"
       THEN /\ epc' = [epc EXCEPT ![x] = "create"]
            /\ kind' = [kind EXCEPT ![x] = "index"]
            /\ UNCHANGED <<count, i, held, at, dumping, drained, solid, calm>>
       ELSE Return(x) /\ UNCHANGED kind
    /\ UNCHANGED <<regionVars, disk, name, loadVars>>

\* LoadFails that takes the end of the file for the end of the records.
EndOfFile(l) ==
    /\ lpc[l] = "record" /\ j[l] < lcount[l]
    /\ j[l] >= Len(file["chunk"][source[l]].recs)
    /\ chunkLoaded' = TRUE
    /\ lpc' = [lpc EXCEPT ![l] = "search"]
    /\ UNCHANGED <<regionVars, disk, exportVars, LoadedChunkEntries,
                   source, lcount, j, alone>>

-----------------------------------------------------------------------------
\* Magic, version and count.
Header(x) ==
    /\ epc[x] = "header"
    /\ Put(x, Empty("headed", count[x]), Out(x))
    /\ epc' = [epc EXCEPT ![x] = "entry"]
    /\ UNCHANGED <<regionVars, kind, name, count, i, held, at, dumping, drained,
                   solid, loadVars>>

\* db_get_entry_cgo(i), on the region that is active by now, has an entry;
\* null ends the loop, whatever the header promised.
More(x) == i[x] < count[x] /\ Given(i[x])

EndLoop(x) ==
    /\ epc[x] = "entry" /\ ~More(x)
    /\ epc' = [epc EXCEPT ![x] = "done"]
    /\ UNCHANGED <<regionVars, disk, kind, name, count, i, held, at, dumping,
                   drained, solid, calm, loadVars>>

\* The file with one more record, and with part of one.
Recorded(x, e) == [head |-> Out(x).head, count |-> Out(x).count,
                   recs |-> Append(Out(x).recs, e), tail |-> "none"]
Partial(x, t) == [Out(x) EXCEPT !.tail = t]

Read(x) == [data |-> At(fill, i[x]).data, settled |-> i[x] \in settled]

\* The seven fixed fields of a chunk record.
WriteFields(x) ==
    /\ epc[x] = "entry" /\ More(x) /\ kind[x] = "chunk"
    /\ Read(x).data # None
    /\ Put(x, Partial(x, "fields"), Partial(x, "fields"))
    /\ held' = [held EXCEPT ![x] = Read(x)] /\ at' = [at EXCEPT ![x] = fill]
    /\ epc' = [epc EXCEPT ![x] = "data"]
    /\ UNCHANGED <<regionVars, kind, name, count, i, dumping, drained, solid,
                   loadVars>>

\* A data_len of 0 makes them the whole record.
WriteEmpty(x) ==
    /\ epc[x] = "entry" /\ More(x) /\ kind[x] = "chunk"
    /\ Read(x).data = None
    /\ Put(x, Recorded(x, Read(x)), Partial(x, "fields"))
    /\ i' = [i EXCEPT ![x] = @ + 1]
    /\ UNCHANGED <<regionVars, epc, kind, name, count, held, at, dumping,
                   drained, solid, loadVars>>

\* The data, which are read again where the entry was found.
Copied(x) ==
    IF At(at[x], i[x]).data = held[x].data THEN held[x] ELSE Cut

WriteData(x) ==
    /\ epc[x] = "data"
    /\ Put(x, Recorded(x, Copied(x)), Partial(x, "cut"))
    /\ epc' = [epc EXCEPT ![x] = "entry"]
    /\ i' = [i EXCEPT ![x] = @ + 1]
    /\ held' = [held EXCEPT ![x] = Blank] /\ at' = [at EXCEPT ![x] = 0]
    /\ UNCHANGED <<regionVars, kind, name, count, dumping, drained, solid,
                   loadVars>>

\* An index record, which has fields only.
WriteIndexRecord(x) ==
    /\ epc[x] = "entry" /\ More(x) /\ kind[x] = "index"
    /\ Put(x, Recorded(x, Read(x)), Partial(x, "fields"))
    /\ i' = [i EXCEPT ![x] = @ + 1]
    /\ UNCHANGED <<regionVars, epc, kind, name, count, held, at, dumping,
                   drained, solid, loadVars>>

\* The export returns nil; a dump goes on from the chunk to the index.
ExportReturns(x) ==
    /\ epc[x] = "done"
    /\ IF dumping[x] /\ kind[x] = "chunk"
       THEN /\ epc' = [epc EXCEPT ![x] = "count"]
            /\ kind' = [kind EXCEPT ![x] = "index"]
            /\ UNCHANGED <<count, i, held, at, dumping, drained, solid, calm>>
       ELSE Return(x) /\ UNCHANGED kind
    /\ UNCHANGED <<regionVars, disk, name, loadVars>>

-----------------------------------------------------------------------------
(* Loads. *)

\* The header is read and LoadedChunkEntries replaced by blanks, also when
\* another load is still filling it.  Without a header the call fails here
\* and changes nothing.
LoadChunk(l, n) ==
    LET f == file["chunk"][n]
    IN  /\ lpc[l] = "idle" /\ f.head = "headed"
        /\ LoadedChunkEntries' = [b \in 1 .. f.count |-> Blank]
        /\ lpc' = [lpc EXCEPT ![l] = "record"]
        /\ source' = [source EXCEPT ![l] = n]
        /\ lcount' = [lcount EXCEPT ![l] = f.count]
        /\ j' = [j EXCEPT ![l] = 0]
        /\ alone' = [a \in Loaders |-> a = l]
        /\ UNCHANGED <<regionVars, disk, exportVars, chunkLoaded>>

\* What the file has at the loader's position.  binary.Read fails on missing
\* fields; file.Read of the data is content with a part of it, but not with
\* none.
Readable(l) ==
    LET f == file["chunk"][source[l]]
    IN  IF j[l] < Len(f.recs) THEN {f.recs[j[l] + 1]}
        ELSE IF j[l] = Len(f.recs) /\ f.tail = "cut" THEN {Cut} ELSE {}

ReadRecord(l) ==
    /\ lpc[l] = "record" /\ j[l] < lcount[l]
    /\ j[l] < Len(LoadedChunkEntries)
    /\ \E e \in Readable(l) :
           LoadedChunkEntries' = [LoadedChunkEntries EXCEPT ![j[l] + 1] = e]
    /\ j' = [j EXCEPT ![l] = @ + 1]
    /\ alone' = [a \in Loaders |-> a = l /\ alone[a]]
    /\ UNCHANGED <<regionVars, disk, exportVars, chunkLoaded, lpc, source,
                   lcount>>

LoaderDone(l) ==
    /\ lpc' = [lpc EXCEPT ![l] = "idle"]
    /\ lcount' = [lcount EXCEPT ![l] = 0] /\ j' = [j EXCEPT ![l] = 0]
    /\ alone' = [alone EXCEPT ![l] = FALSE]

\* The file ends early: an error, with LoadedChunkEntries left as it is and
\* chunkLoaded as it was.
LoadFails(l) ==
    /\ lpc[l] = "record" /\ j[l] < lcount[l]
    /\ Readable(l) = {}
    /\ LoaderDone(l)
    /\ UNCHANGED <<regionVars, disk, exportVars, LoadedChunkEntries,
                   chunkLoaded, source>>

\* Another load has put a shorter slice in place: index out of range.
LoadPanics(l) ==
    /\ lpc[l] = "record" /\ j[l] < lcount[l]
    /\ Readable(l) # {} /\ j[l] >= Len(LoadedChunkEntries)
    /\ fill <= MaxFills /\ Die

LoadReturns(l) ==
    /\ lpc[l] = "record" /\ j[l] = lcount[l]
    /\ chunkLoaded' = TRUE
    /\ lpc' = [lpc EXCEPT ![l] = "search"]
    /\ UNCHANGED <<regionVars, disk, exportVars, LoadedChunkEntries,
                   source, lcount, j, alone>>

\* SearchWithPool answers from LoadedChunkEntries as it is by now; any other
\* caller of LoadChunk just goes on.
Search(l) ==
    /\ lpc[l] = "search"
    /\ LoaderDone(l)
    /\ UNCHANGED <<regionVars, disk, exportVars, LoadedChunkEntries,
                   chunkLoaded, source>>

ExportStep(x) ==
    \/ DumpDrains(x) \/ DumpSpins(x) \/ Count(x) \/ Create(x) \/ Header(x)
    \/ WriteFields(x) \/ WriteEmpty(x) \/ WriteData(x) \/ WriteIndexRecord(x)
    \/ EndLoop(x) \/ ExportReturns(x)
    \/ \E n \in Names : AutoDumpOnDrain(x, n)
                        \/ \E k \in Kinds : Export(x, k, n)

LoadStep(l) ==
    \/ ReadRecord(l) \/ LoadFails(l) \/ LoadPanics(l) \/ LoadReturns(l)
    \/ Search(l) \/ \E n \in Names : LoadChunk(l, n)

Next ==
    \/ Fills \/ TriggerDrain \/ Restart
    \/ \E x \in Exporters : ExportStep(x)
    \/ \E l \in Loaders : LoadStep(l)

Spec == Init /\ [][Next]_vars

-----------------------------------------------------------------------------
\* No file, whole, cut or abandoned, has more records than its header counts,
\* and without a header it has none: a reader that trusts the header misses
\* nothing that was written.
HeaderBounds ==
    \A k \in Kinds, n \in Names :
        LET f == file[k][n]
            begun == IF f.tail = "none" THEN 0 ELSE 1
        IN  IF f.head = "headed" THEN Len(f.recs) + begun <= f.count
            ELSE f.recs = <<>> /\ f.tail = "none"

\* Record r of a file is of slot r - 1: a message in it is one that was written
\* for that slot.  A file that mixes fills, because a drain came during the
\* export, goes from older to newer ones wherever the slot was settled when it
\* was read; a slot in a writer's hands, or reserved, has what reset() left
\* there, be it of a fill before the others.
RecordsInOrder ==
    \A k \in Kinds, n \in Names :
        LET recs == file[k][n].recs
        IN  \A r \in 1 .. Len(recs) :
                /\ recs[r].data.fill >= 0 => recs[r].data.slot = r - 1
                /\ recs[r].settled =>
                      \A s \in 1 .. r : recs[s].data.fill <= recs[r].data.fill

\* An export that returns nil, with no drain and no failed write since it
\* counted, leaves in its file as many records as it counted, also when
\* writers committed more meanwhile; and of the slots below the count each one
\* that was settled by then, and still is, has its message there.  A slot
\* that was not committed when it was counted has whatever it held.
WholeExport ==
    \A x \in Exporters : (epc[x] = "done" /\ calm[x]) =>
        /\ Out(x).head = "headed" /\ Out(x).count = count[x]
        /\ Out(x).tail = "none" /\ Len(Out(x).recs) = count[x]
        /\ \A s \in solid[x] \cap settled :
               Out(x).recs[s + 1].data = Message(fill, s)

\* The index of a calm dump has a record for every record of the chunk dumped
\* with it, and the same one where the slot was settled when the chunk was
\* exported and still is: the chunk is exported first and the count only
\* grows.  Of any other slot the index may know more than the chunk has.
IndexCoversChunk ==
    \A x \in Exporters :
        (epc[x] = "done" /\ calm[x] /\ dumping[x] /\ kind[x] = "index") =>
            LET c == file["chunk"][name[x]].recs
            IN  Len(c) <= Len(Out(x).recs)
                /\ \A r \in 1 .. Len(c) :
                      (c[r].settled /\ r - 1 \in settled)
                          => c[r] = Out(x).recs[r]

\* A search that follows its own load, with no other load and no new export of
\* the file in between, sees all the records the file counts: no file that
\* ends before its last record is accepted.  Only the data of the last one may
\* be short, which the load does not notice.
LoadIsWhole ==
    \A l \in Loaders : (lpc[l] = "search" /\ alone[l]) =>
        LET f == file["chunk"][source[l]]
        IN  /\ chunkLoaded
            /\ Len(LoadedChunkEntries) = f.count
            /\ \A r \in 1 .. f.count :
                 IF r <= Len(f.recs) THEN LoadedChunkEntries[r] = f.recs[r]
                 ELSE r = f.count /\ LoadedChunkEntries[r] = Cut
=============================================================================
