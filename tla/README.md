# Zigo-DB in TLA+

A verification project for Zigo-DB, an in-memory chat-message store with two
alternating write regions (Zig, `db/`) behind a Go bridge (`bridge.go`,
`dumper.go`).  The modules model what the code does, the `.cfg` files check it
with TLC on small instances, and the `*Proofs` modules prove every safety
property of those runs, and the refinement, with TLAPS for every instance.

## 1. Inventory

| Part | Code | State it keeps | Operations | What is hard |
|---|---|---|---|---|
| Write path | `zigo_db.zig:32-63, 291-324`, `bridge.go:367-398` | per region: `cursor`, `active_writers`, `committed_entries`, `entries`; `region_bit`; Go's `uuidCounter` | `WriteToRoom` / `db_write_raw` | lock-free, seven shared accesses per call, stale `region_bit`, roll-back of a full region |
| Drain | `zigo_db.zig:83-122`, `types.zig:104-108`, `bridge.go:502-519` | `total_entries`, `total_drains` | `NeedsDrain`, `TriggerDrain`, `SwitchAndDrain` | flips the bit, spins on `active_writers`, resets three counters one after the other; nothing serialises drains |
| Readers | `zigo_db.zig:331-361`, `bridge.go:399-455, 497-500` | none (each step re-reads `region_bit`) | `ReadLast`, `ReadLastFromRoom`, `GetMessageCount` | count and entry come from different loads; commits are out of slot order; the returned slice is the slot itself |
| Reserve path | `zigo_db.zig:14-26, 67-80, 270-289`, `bridge.go:463-495` | the same `cursor`, no ticket, no commit | `ReserveSlot`, `WriteEntry`, `ReleaseSlot` | the fill looks the region up again; a failed reservation is not rolled back |
| Search pool | `types.zig:259-283`, `zigo_db.zig:214-248, 389-395`, `bridge.go:1002-1021` | `in_use` per segment, a bitmap of 64-bit words | `SearchReserveSegment`, `SearchReleaseSegment` | two representations of "taken", atomics on one and plain accesses on the other |
| Drain trigger | `bridge.go:63-71, 1429-1492` | `stopChan`, thresholds | `StartDrainTrigger`, `StopDrainTrigger`, `run` | ticker goroutine, stop racing a tick |
| Dumper | `dumper.go` | `isRunning`, `stopChan`, `wg` | `Start`, `Stop`, `ForceDump`, `run`, `dump` | ticker goroutine, final dump on stop, a forced dump at the same time |
| Chunk files | `bridge.go:521-931` | `LoadedChunkEntries`, `chunkLoaded`, `LoadedIndexEntries`, `mmapData`; files | `ExportChunk`, `ExportIndex`, `AutoDumpOnDrain`, `LoadChunk`, `LoadIndex`, `MmapChunk`, `MunmapChunk` | export while writers and drains run; partial failure of a load; ownership of a mapping |
| Queries | `bridge.go:933-1144` | reads the loaded chunk | `Search*`, `QueryChunk*` | index arithmetic over the loaded slice |
| Temporal index | `bridge.go:114-199, 1146-1201` | checkpoints, their maximum, the saved index | `CreateCheckpoint`, `AddCheckpoint`, `FindNearest`, `RewindTo`, `Save`, `LoadTemporalIndex` | int64 distances; nothing locks the index; count and state hash of a checkpoint are two reads |
| Snapshots | `bridge.go:1203-1269` | a json and a chunk file | `SaveSnapshot`, `LoadSnapshot` | two files, one after the other; a counter that moves meanwhile |
| Replication | `bridge.go:1343-1416` | none | `HandleSync`, `ApplySync` | a drain under the loop; repeated and failed applications |
| Gossip, events | `bridge.go:201-316, 1271-1341` | peers, messages | `AddPeer`, `Broadcast`, `GenerateEventID`, ... | one mutex around all of it; nothing is sent |
| Lifecycle | `bridge.go:318-365, 1417-1427`, `zigo_db.zig:261-268, 420-434` | `global_db`, `globalDB`, `isShuttingDown` | `New`, `Init`, `Shutdown` | frees the regions without waiting for calls in flight |

The parts meet in four places: every Go call goes through the one `global_db`
pointer, whatever handle it is made on; writers, readers, reservations, exports,
synchronisations, checkpoints and drains share the two regions; the drain trigger, the dumper
and manual calls all start drains without excluding each other; and chunk files
are what dumps, snapshots and rewinds hand to the loads and queries.

What makes each part correct: writers never share a slot and lose none (write
path); a drain only clears what nobody uses and returns (drain); a reader sees
the committed entries, and knows which ones it can be sure of (readers); a reserved slot is nobody else's (reserve
path); a segment has one holder and released segments come back (pool); each
goroutine stops when told and drains when a threshold is crossed (trigger,
dumper); a file loads back as what was exported, or not at all (chunk files); a
client that pages sees everything once (queries); the nearest checkpoint is the
nearest, and the chunk it names agrees with it (temporal index); a restored
counter fits the restored messages (snapshots); a synchronisation that went
through has copied what was committed when it was counted (replication); no call uses freed memory
(lifecycle).

## 2. Modules

| Module | Models | State and its counterpart in the code |
|---|---|---|
| `LockerWriter` | a write call and a drain, one action per shared access | `region_bit`, `cursor`, `active_writers`, `committed_entries`, `entries` are the fields of `ZigoDB` and `Region`; `pc`/`region`/`idx` are a writer's place and locals, `dpc`/`old_region` a drainer's; `late` is a history variable |
| `RegionLog` | *abstract*: what the two regions promise | entries held by each region, entries drained, entries accepted |
| `RegionRefinement` | `LockerWriter` implements `RegionLog` (`INSTANCE ... WITH`) | the history variable `exact` ends the promise with the first late writer or overlapping drain |
| `ReadPath` | `ReadLast` beside `LockerWriter` (extends it) | `rpc`, `rregion`, `count`: a reader's place, the region it looked at, its count |
| `ReservePath` | `ReserveSlot`, `WriteEntry`, `ReleaseSlot` beside all of `ReadPath` (extends it) | `vpc`, `home`, `slot`, `target`: a reserver's place, its reservation, the region it fills; `kept`, `spent`, `touched` are history |
| `ActiveRegion` | the same two regions as the calls that read them see them: writers whose commits overtake each other, reservations, `WriteEntry`, drains that clear no entry | `entries`: both regions' `entries`; `cursor`; `done`: the slots whose commit is counted, so `committed_entries` is `Cardinality(done)`; `fill`: drains so far, `region_bit` is `fill % 2`; `wpc`, `mine`: a writer's place, region and slot; `settled` is a history variable |
| `RoomScan` | `ReadLastFromRoom` over `ActiveRegion` (extends it) | `i`: the loop's `uint32`; `counted`, `whole`, `moved` are history |
| `Replication` | `HandleSync` beside `RoomScan` (extends it) and loads of a chunk, a network, `ApplySync` on a peer | `spc`, `n`, `k`, `array`, `results` and `apc`, `resp`, `a`: places and locals of the two calls; `loads`, `chunkLoaded`: slices `LoadChunk` has made and how far they are filled; `replies`: responses in flight; `held`: the peer's region |
| `SearchPool` | `search_reserve_segment`, `search_release_segment` | `in_use`, `bitmap` (one set of bits per word); `granted` counts holders |
| `AutoDrain` | `Dumper` and `DrainTrigger` with their goroutines | `isRunning`, `stopChan`, `wg`, tickers; `fill` stands for the entries of the active region |
| `ChunkFile` | exports, dumps and loads of chunk and index files, step by step, over `ActiveRegion` (extends it) | `file`: header, count, records and tail of each; `LoadedChunkEntries`, `chunkLoaded`; `epc`, `lpc`: places of exporters and loaders |
| `LoadedChunk` | `LoadChunk`, `LoadIndex`, `MmapChunk`, `MunmapChunk` as one step each, over files that end anywhere; the queries as operators | `LoadedChunkEntries`, `chunkLoaded`, `LoadedIndexEntries`, `mmap` are the handle's fields; `mappings`: what the process has mapped |
| `Temporal` | checkpoints, exports and rewinding over `LoadedChunk` and `ActiveRegion` (extends both) | `checkpoints`, `maxCheckpoints`: the `TemporalIndex`; `kpc`, `cp`: `CreateCheckpoint` and `Save`; `fpc`, `len`, `f_i`, `minDiff`, `nearest`: `FindNearest` in `RewindTo`; `xpc`, `x_i`: `ExportChunk`; `saved`: the index file; `versions`, `origin` are history: how often a slot had a `WriteEntry`, and what of that a record was read from |
| `Lifecycle` | `New`, both `Shutdown`s, calls in flight, snapshots, deaths of the process | `database`, `global_db`, `globalDB`, `closing` (`isShuttingDown`), `uuidCounter`; `chunk`, `json`: the snapshot's files; places of owners, callers and the snapshot thread |

`MC*` modules add symmetry sets and constraints for TLC; `*Proofs` modules hold
the theorems: `RegionProofs` those of `LockerWriter`, `RegionRefinement`,
`ReadPath` and `ReservePath`, `ActiveRegionProofs` the lemmas that
`ReplicationProofs`, `ChunkFileProofs` and `TemporalProofs` build on.  The operators headed "Plausible bugs" in each module are not part
of the specification: they are what a slip in the code would look like, and show
that every property would notice one.

How state and actions correspond, where it is not one to one:

- **Writes.** `LoadRegion`, `TakeTicket`, `TakeSlot`/`TakeSlotFull`, `UndoSlot`,
  `Reject`, `WriteHeader`, `CopyPayload`, `Commit`, `Leave`, `AssignUuid` follow
  `db_write_raw` and `WriteToRoom` line by line.  A slot is known by how far it
  is written ("free", a header, "full"), not by its bytes.  The bit is loaded
  before the ticket is taken (`zigo_db.zig:32-37`); a writer that is delayed in
  between and enters a region that a drain has already seen empty sets `late`.
- **Drains.** `LoadBit`, `Flip`, `SpinDone`, `Tally`, the load and the store of
  the plain `total_entries`, and the three stores of `reset()` are separate
  actions.  `total_drains`, updated in the same way and read by nothing, is left
  out.
- **Regions for readers.** `ActiveRegion` has the steps of a write that a reader
  can tell apart: the slot is taken (`TakeSlot`), the fields are stored
  (`StoreFields`), the data (`StoreData`), and the commit is counted (`Commit`)
  in whatever order the writers come to it.  `ReserveSlot` takes a slot and never
  counts one; `FillFields` and `FillData` are the two halves of `setData` in
  `WriteEntry`.  `SwitchAndDrain` leaves every entry as it is.  So the slots that
  `db_get_entry_cgo` gives out, those below the count, may be in a writer's hands,
  reserved, or hold the message of two fills ago, and a committed one may be
  above.  A slot is `settled` when its writer has counted its commit and no
  `WriteEntry` went over it: the properties of the readers are about settled
  slots, and their comments say what holds of the others.
- **The abstract log.** A drain takes its region in the one step that stores
  the totals: until then `RegionLog!held` counts the region as full, afterwards
  as empty, although `reset()` is still to come.
- **Reads.** `CountRegion`/`ReadCount` and `EntryRegion`/`CheckCommitted` are the
  two Zig calls of `ReadLast`, each with its own load of `region_bit`.
  A bounds-check panic is the place `"trapped"`.
- **Reservations.** `ReserveSlot` is two steps, the bit and the fetch-and-add;
  `WriteEntry` is three, the bit again, `setData`'s fields, its data;
  `ReleaseSlot` only forgets.
- **Coarser parts.** `ActiveRegion` takes the ticket together with the slot and
  gives it back with the commit, and a drain is one step once the writers of the
  drain before it are gone; writers that are refused leave nothing, and nobody is
  late.  `AutoDrain` and `Lifecycle` take a committed write and a drain as one
  step each.  What happens inside is the business of `LockerWriter`, `ReadPath`
  and `ReservePath`.  An entry is read in one step by `SyncEntry` and by the
  `ExportEntry` of `Temporal`, in two (fields, data) by `ChunkFile`; a
  load is one step in `LoadedChunk`, one per record in `Replication` and
  `ChunkFile`.
- **Files.** A record is one element of a sequence.  In `ChunkFile` the fields
  of a chunk record and its data are separate writes, and what does not fit on a
  full disk is the file's `tail`.  A crash (`Restart`, or `LoadPanics`, an index
  out of range) ends every call and leaves the files as they are.
- **Synchronisation.** The loop of `HandleSync` is one step per entry, over the
  region (`SyncEntry`) and over the slice it found (`ChunkEntry`), which a load
  may be filling and another replace.  A response stays in
  `replies` until it is lost, so it may arrive often, late and out of order.
  Applying an entry without data, such as a blank of a failed load, is a panic
  (`ApplyPanics`, `&data[0]` at `bridge.go:381`).
- **Queries.** They change nothing, so they are operators over the loaded
  entries.  The one loop all of them have, a pass that appends what it wants, is
  `Keep`; it is a recursive function, because proofs can unfold that.
- **Rewinding.** Each round of `FindNearest`'s loop is a step, with
  integers that wrap past `MaxInt`; `AddCheckpoint` is two (drop, append).  `ChunkID` is the
  second of a checkpoint, so files are named by seconds.  Only `WriteEntry`
  stores a state hash; a raw write keeps the one its slot has, so the hash of a
  checkpoint is that of the last `WriteEntry` of the slot it looked at, in
  this fill or an earlier one.
- **Shutting down.** `Free` and `ClearZig` are the two statements of
  `db_shutdown`; a call is `Enter` (it fetches `global_db`) and `Work` (it uses
  what it fetched), and a write has `WriteUuid` after it.  `touched` notes that
  freed memory was used.

## 3. Runs

| Run | Configuration | What it shows |
|---|---|---|
| `regions_late` | `MCLockerWriter.cfg` | late writers and wrapped cursors included: a region never counts more writers than are in it, and a drain on its own returns |
| `regions_three_writers` | `MCRegionRefinement.cfg` | three writers over two slots beside two drains, one after the other or at once: slots are exclusive, the cursor is exact, a drained region quiet, holes belong to writers at work, a region is refused only when it is full; and the regions implement `RegionLog` while drains do not overlap |
| `drain_loses_write` | `DataLoss.cfg` | *violated*: a late writer's acknowledged entry is wiped by `reset()` |
| `region_clients` | `MCReservePath.cfg` | writers, a drain, a reader and a reserver over the same regions: a reserved slot is nobody else's until a reset; the cursor is what writers and reservations took, failed ones included; a reader's index is in range even across a flip, and what it is given in a calm moment is whole, but for the holes of reservations |
| `room_scan` | `MCRoomScan.cfg` | `ReadLastFromRoom` passes over no settled message of the room that it counted, unless a drain came in between; while one of those below the count is of the room the scan ends with a match, also past the wrap of the index |
| `replication` | `MCReplication.cfg` | a response follows the slots, and is in the order of the fills wherever it was read from settled ones; without a drain it has every settled message that was counted, or none if the request has a time stamp; a synchronisation that went through copies those; duplicates come from repeated calls only |
| `pool_one_reserver` | `MCSearchPool.cfg` | with one reserver at a time a segment has one holder; an undisturbed null overlooks at most one free segment per word |
| `pool_double_grant` | `PoolDoubleGrant.cfg` | *violated*: two concurrent reservations take the same segment |
| `auto_drain` | `MCAutoDrain.cfg` | a `Stop` that returns has waited for the dumper at work and left no due region; dumps are due unless another drain came first; `Stop` and `StopDrainTrigger` return; dumper and trigger do drain |
| `chunk_files` | `MCChunkFile.cfg` | a file never has more than its header counts, and its record r is of slot r - 1; a calm export has as many records as it counted, with the message of every slot that was settled; its index agrees with it there; a load that is alone accepts no file that lacks a record |
| `rewind` | `MCTemporal.cfg` | loaded entries are those of one file; mappings are paired with unmappings; pages and windows partition what is loaded; the index keeps the newest checkpoints, across a restore; `FindNearest` is the nearest, ties to the first; a rewind finds the checkpoint's state hash in a chunk of the same fill, unless a `WriteEntry` or a drain came between the two looks at the slot |
| `lifecycle` | `MCLifecycle.cfg` | freed memory is used only if a shutdown and a call overlap; no database is left behind unless `New` was called over one; a snapshot's counter is never newer than its chunk, and covers it when the save was calm |

The type invariants (`TypeOK`, `RegionTypeOK`, `ReadTypeOK`, `ReserveTypeOK`,
`SyncTypeOK`, `ChunkTypeOK`, `TemporalTypeOK`, `LifecycleTypeOK`) are no properties of these
runs; each holds on its run's instance when it is added to the `.cfg`, and each is
a theorem or a part of the invariant proved.  The inductive invariants that stand
in the modules themselves (`ReserveInv`, `RegionInv`, `RoomInv`, `SyncInv`, `TemporalInv`, `LifeInv`) hold
on their runs' instances in the same way.

### Bounds, and why they are enough

- `LockerWriter`: two writers are enough for a slot collision and for one writer
  late while another fills; three, over two slots, let two overrun a full region
  while the third fills.  `CursorMod` stands for 2^32: any value above
  `MaxSlots + |Writers|` makes a wrapped cursor read as "full", as 2^32-1 does.
  With `MaxDrains` 2 a region goes through a whole cycle (filled, drained,
  active again), and two drainers may be at it at once.  `regions_late` has one
  drain: late writers make each further one expensive, and the liveness check is
  over the whole graph.
- `NobodyLate` (a CONSTRAINT of `regions_three_writers` and `region_clients`)
  stops at the first late writer.  The properties checked under it are stated
  for `~late`, or end with `exact`, and say nothing beyond it;
  `drain_loses_write` and `regions_late` run without it.
- `ReservePath`: two writers, one drain, one reader and one reserver with one
  reservation; one drain is what separates a reservation from its fill.  The
  clause of `ReservedExclusive` on two reservations of one region needs two
  reservers, which are beyond the run; the proof has any number.
- `SearchPool`: five segments in words of three bits give a full and a partial
  word; the interference of the exchange is within a word.
- `ActiveRegion`: two writers let commits overtake each other, a drain between
  two fills lets the second find what the first left (two drains: in its own
  region), one reservation leaves a hole below the count.
- `RoomScan`: `IndexMod` 5 over three slots leaves indices above the region to
  wrap through; two rooms, two writers, one scanner (scanners do not meet), one
  drain.  No reservation: holes below the count come from the writers here, and
  the proof has any number of reservations.
- `Replication`: one writer and one reservation over two slots and two drains,
  so that a slot holds an entry of a fill long drained; two synchronisations, so
  that responses overlap, and two applications; a peer with two slots,
  so that it fills up in the middle of a response; requests from before all
  time (-1) and from the time stamp of every raw write on (0); a chunk of two
  records, one without data, loaded twice.  `Apart` explores region, chunk and
  peer each beside the rest state of the others: the peer meets the server in
  responses only, and which ones there are is settled before it applies them.
- `AutoDrain`: two callers (a `Start`/`Stop` race needs two), one forced dump,
  thresholds 1 and 2 so that trigger and dumper fire at different fills.
- `ChunkFile`: two writers and a reservation over two slots, one exporter, two
  loaders of its one file, two drains or restarts, and one more restart for the
  panic of a load.  Two records are
  needed for a file to be cut in the middle or to mix two fills, two loaders for
  one to replace the slice of the other.  `Apart` explores an export or dump
  beside everything in the regions, with no file there before it, and loads and
  further exports beside drains and restarts with the writers at rest.  Two
  exporters do not share a file (`Unused`); the proofs cover any number.
- `LoadedChunk`: files with no bytes, half a header, an index, and chunks cut
  before a record, cut in its data, or whole without data at the end; two files
  put in place, two mappings, pages and windows of 1 to 4.
- `Temporal`: `MaxInt` 3 gives the integers -4 .. 3, so that distances to the
  target -4 wrap and those to 1 and 3 do not; a second of two ticks lets two
  checkpoints share a chunk name; a maximum of 2 for a new index and 3 for a
  restored one, with three checkpoints, lets an index be full before a restart
  and not after.  One writer, one reservation and one hash over two slots let a
  `WriteEntry` change, or leave behind, the hash of a slot.  `Apart` explores
  loads, the index, and exports with checkpoints each beside the rest state of
  the other two; the last up to the first rewind that returns with a chunk.
- `Lifecycle`: two owners and two callers, two calls of `New`, one death.
  `Sane` ends behaviours at the first use of freed memory, since nothing is
  known of what comes after, and explores shutdowns and snapshots separately.
- Symmetry is used in runs without liveness only.  `rewind` and `lifecycle`
  switch the deadlock check off: there the bounds, or a panic, end behaviours.

### Fairness

Weak fairness on the steps *inside* a call (the scheduler runs every thread);
nothing obliges a thread to start a call, write, read or drain.  In `AutoDrain`
tickers tick and goroutines run (weak), and `SelectStop` and `TriggerSelectStop`
are strongly fair: Go's
`select` picks at random among ready cases, so a closed `stopChan` that is ready
again and again is taken in the end.

### Assumptions of the models

- Memory is sequentially consistent.  The code's counters are atomics; the
  totals, `in_use` and Go's fields are plain, and only their interleaving is
  modelled, not torn or reordered accesses.
- The assignment of a slice header (`LoadedChunkEntries`, `Checkpoints`) is one
  step.
- Once the disk is full it stays so until the process ends.
- A panic in one goroutine ends the process (`StopPanic`, `LoadPanics`,
  `FindPanics`, `NilPanic`).
- Restoring a temporal index replaces it while nobody is using it
  (`LoadTemporalIndex`), and rewinds do not overlap each other.

## 4. Proofs

All theorems hold for any number of threads, slots and files.

| Theorem | States |
|---|---|
| `RegionProofs!TypeCorrect` | `TypeOK`: among others that a filling writer's index is inside the region |
| `RegionProofs!NoPhantomTickets` | `NeverOverCounts`, late writers and concurrent drains included |
| `RegionProofs!Exclusion`, `QuietDrain`, `ExactCursor`, `NoHoles` | `ExclusiveSlots`, `DrainIsQuiet`, `CursorExact`, `GapsAreInFlight` |
| `RegionProofs!FullMeansFull` | the action property `RejectOnlyWhenFull` |
| `RegionProofs!Refines` | `IsRegionLog`: `LockerWriter` implements `RegionLog` |
| `RegionProofs!ReserveTypeCorrect` | `ReserveTypeOK`, with it the types of `ReadPath` |
| `RegionProofs!ReadersStayInside`, `CalmReadsWhole` | `NeverTrapped`, `ReadsWhole` |
| `RegionProofs!ReservationsExclusive`, `ReservationsCounted` | `ReservedExclusive`, `CursorCounts` |
| `SearchPoolProofs!PoolTypeCorrect`, `SegmentsExclusive`, `NullOverlooksFew` | `TypeOK`, `OneHolder`, `OverlooksOnePerWord` |
| `ReplicationProofs!FoundIsLast` | `FindsLast` of `RoomScan` |
| `ReplicationProofs!SyncTypeCorrect` | `SyncTypeOK` |
| `ReplicationProofs!ResponsesOrdered`, `ResponsesComplete` | `ResponseOrdered`, `ResponseComplete` |
| `ReplicationProofs!SyncsCopy`, `AppliedOncePerCall` | `SyncCopies`, `OncePerCall` |
| `AutoDrainProofs!StopIsOrderly`, `DumpsDue` | `StopDrainsFirst`, `DumpsAreDue` |
| `ChunkFileProofs!FilesKeepToHeader`, `FilesInOrder`, `CalmExportIsWhole`, `DumpIndexCovers`, `QuietLoadIsWhole` | the five safety properties of `ChunkFile` |
| `TemporalProofs!TemporalTypeCorrect` | `TemporalTypeOK`, with it `ChunkTypeOK` |
| `TemporalProofs!LoadsNeverMix`, `MappingsReleased`, `QueriesSeeAll` | `EntriesOfOneFile`, `MappingsPaired`, `QueriesPartition` |
| `TemporalProofs!IndexStaysNewest`, `NearestFound`, `RewindFindsHash` | `IndexIsNewest`, `NearestIsNearest`, `RewindMatches` |
| `LifecycleProofs!LifecycleTypeCorrect` | `LifecycleTypeOK` |
| `LifecycleProofs!FreedSafely`, `NoDatabaseLeft` | `FreedOnlyBesideCalls`, `OneLiveDatabase` |
| `LifecycleProofs!JsonBehindChunk`, `UuidsCovered` | `JsonNotAhead`, `UuidsCoverChunk` |

That is every invariant and every action property the passing runs check, and
the refinement.

**Assumptions.** Each module names those on its constants, and TLC evaluates them
on the run's values.

- Sizes are positive naturals, model bounds are naturals, sets of threads are
  finite where they are counted.
- `CursorMod` exceeds `MaxSlots + |Writers|`, with reservations
  (`ReservesAssumption`) also `MaxReserves`: 2^32 against 31250 slots, and fewer
  failed reservations between two drains than it takes to wrap the cursor.
  `IndexMod` exceeds `MaxSlots` for the same reason.
- The files put in place are what an export leaves behind, whole or cut
  (`FilesAssumption`: no more records than the header counts).  A chunk that a
  synchronisation answers from is in the order of its slots (`ChunkAssumption`).
- A new index holds at most what a restored one may (`NewMax <= RestoredMax`):
  `CreateCheckpoint` and `LoadTemporalIndex` make them with 100 and 1000.

**Arguments.**

- *Regions.* `LockerWriter!IInv`: while nobody is late, the tickets of a region
  are exactly the writers inside it, a region being tallied or reset has none,
  its cursor is what it has given out plus the rollbacks under way, and its slots
  below the cursor are committed or belong to one filling writer each.
  `ExclusiveSlots` alone is not inductive: a slot is unique because the cursor
  is exact, and the cursor is exact because nobody is inside during a reset.
  `NeverOverCounts` holds late writers or not, because `reset()` only ever
  loses tickets.
- *Refinement.* The initial state maps to that of `RegionLog`; `Commit` maps to
  an append, `Flip` to a switch, `StoreTotals` to a take, every other step to a
  stutter.  The step invariant adds to `IInv` what one drainer alone knows: the
  region it works on is the inactive one, what it tallied is what is committed
  there, and the totals it loaded are `total_entries`.  A step that ends `exact` ends
  the promise.
- *Reservations and reads.* `ReserveInv` restates the region invariant with the
  increments that reservations spent (`CursorAccounted`), since a slot now may be
  nobody's writer's and still be taken; the slot of a reservation is below what
  was taken, is no writer's and no other reservation's (`ReservationsHeld`).  A
  reader's count fits its region whatever drains do; in a calm moment no writer
  has the slot it is about to read (`ReaderInside`).
- *Pool.* With one reserver, `in_use` of a segment is set exactly while it is
  held, or its release has not yet cleared it; the bitmap does not matter.  For
  an undisturbed null, `PInv` follows the one reservation: what it has passed and
  is still free is the only bit of its word.
- *Readers of the active region.* `RegionInv`: writers at work in one region have
  different slots, none of them committed (`WritersApart`); a message is found in
  its own slot and region only, never before its fill, and a settled slot has the
  message of the active fill (`MessagesInPlace`).  That is why a reader can be
  sure of a settled slot however the commits were ordered, and why an entry that
  is not settled can only be older.  The three readers below rest on it, by the
  lemmas of `ActiveRegionProofs` (`FillStepKeeps`, `SettledHold` and others).
- *Room scan.* `ScanInv`: no settled entry that the walk counted and has passed is
  of the room; past the wrap that means none of them is.
- *Replication.* `SyncInv`: the loop is past the slots of the entries it has, none
  of which is of a fill to come (`OrderInv`); without a drain it still has before
  it, or in the response, every settled entry it counted (`CompleteInv`); a
  response under way has what was noted with it (`ReplyInv`), and an entry that a
  call of `ApplySync` has still to write was written fewer times than it was
  tried (`ApplyInv`).
- *Auto drain.* `Launched` ties `wg`, the callers and the goroutine together;
  `Ended` says that a goroutine that is gone left no due region.
- *Chunk files.* Each file keeps to its header and its records to their slots
  (`FileOK`); an exporter's place determines what its file holds (`EInv`), and as
  long as it is calm every slot that was settled when it was counted has its
  message in the file or is still ahead (`CInv`); what a lone loader has read is a
  prefix of its file (`LInv`).
- *Loads and rewinding.* `TemporalInv`: no file has more records than it says, and
  an export's file has as many as it has come to (`FilesInv`); what is loaded is
  one file's, then blanks, and mappings are paired (`LoadedInv`); the index is the
  end of what was ever made, with room for one more between drop and append
  (`IndexInv`); of two looks at the state hash of a slot, in a checkpoint and in
  a record, with the same fill and version, both have the same hash, wherever the
  checkpoint went, into the saved index and back (`HashInv`); the search has kept
  the first of the nearest of what it has passed (`FindInv`), which appends beside
  it do not disturb.
- *Queries.* `QueriesPartition` depends on the loaded entries only, being any
  sequence of records: the pages, or windows, are the pieces between two cuts of
  a walk in equal steps, pieces flatten to the whole, and `Keep` of a
  concatenation is the concatenation of the `Keep`s.  `Keep` and `FlattenSeq`
  are recursive functions; induction over their lengths is done with a set of
  naturals, or of sequences, that has the first and with every element the next
  (`CountUp`, `GrowSequences`, from the well-foundedness of the order of the
  naturals).
- *Lifecycle.* `LifeInv`: what calls reach is the newest database or none
  (`Placed`); as long as no shutdown overlapped a call, what a call fetched is
  live until it returns (`FreedInv`); every message of a handle's only database
  has a uuid that was drawn or is about to be (`UuidInv`); the two files of a
  snapshot are at most the save under way apart (`FilesInv`).

**Only model-checked:** liveness (`DrainTerminates`, `ScanFindsRoom`,
`StopReturns`, `DumperDrains`, `TriggerFires`), which rests on fairness and
`ENABLED`, out of the prover's reach.  The two violated runs are counterexamples
and have no theorem.

## 5. Where code and documents disagree

Shown by runs:

1. `changelog.md:321` promises no data loss across a region switch; a write
   that loaded the bit before the flip and takes its ticket after the spin is
   acknowledged and wiped (`drain_loses_write`).
2. `docs/zig_core.md:72` calls the pool's bitmap atomic; the exchange stores the mask
   over the whole word (`pool_double_grant`).

Met while modelling, in the models but without a run of their own:

- *Reading.* `changelog.md:13-14` has readers use `committed_entries` to see
  only written data; commits are counted, not ordered, so the last counted slot
  may be half written (`ReadsWhole` excepts it: it asks for a calm moment), or
  hold what was written there two drains ago, in answers of `ReadLastFromRoom`
  and `HandleSync` and in exported chunks alike (`FindsLast`, `ResponseOrdered`,
  `WholeExport` are about settled slots for that reason).
  `ReadLastFromRoom` answers "no messages found in room" (`bridge.go:454`)
  after a loop that cannot end: without a message of the room the call never
  returns (`ScanFindsRoom` excepts it).
- *Draining.* Two drains at once: the old region becomes active again under the
  first one, which then spins as long as writers keep entering it
  (`zigo_db.zig:107`), and the totals may lose a tally (`exact` ends there).
- *Dumper, trigger.* A second `Stop` panics, and a `Start` after `Stop` does
  nothing (`dumper.go:32, 45`); a `Stop` between `Start`'s unlock and `wg.Add`
  does not wait (`dumper.go:39`); `ForceDump` declines below 90 %
  (`dumper.go:88`); the trigger ends after its first drain (`bridge.go:1473`);
  `timeThreshold` is never compared.
- *Reserving.* A reservation that fails is never rolled back, so the drain
  tallies slots that do not exist, and 2^32 failures would wrap the cursor
  (`zigo_db.zig:20`); `WriteEntry` fills its slot number in whatever region is
  active (`zigo_db.zig:281`), so after a drain it may go over somebody's entry.
- *Exporting.* `AutoDumpOnDrain` drains and then exports the region that took
  over, so the drained entries reach no file (`bridge.go:663-677`); two dumps
  within a second write the same file (`bridge.go:668`); no export looks at the
  result of a write; the offsets of an index do not count the checksum field and
  the chunk's header (`bridge.go:645`).
- *Loading.* A `LoadChunk` that fails leaves half-blank entries with
  `chunkLoaded` still true from an earlier load (`bridge.go:710, 746`);
  `MunmapChunk` unloads a chunk that `LoadChunk` loaded; a second `MmapChunk`
  leaks the first mapping (`bridge.go:836`); a last record without data is
  accepted by `LoadChunk` and refused by `MmapChunk`.
- *Querying.* `QueryChunkWithMeta` panics for an offset past the end, where
  `QueryChunk` answers with nothing (`bridge.go:999`).
- *Rewinding.* `RewindTo` looks for `chunk_<unix seconds>.rb`, while dumps are
  named `chunk_<date>_<time>.rb`, so only files the user exports are ever found;
  a distance of the largest integer is never the nearest and far distances wrap
  (`bridge.go:156`); an `AddCheckpoint` beside the loop may make it panic;
  `NewTemporalIndex(0)` cannot take a checkpoint without a panic; raw writes store
  no state hash, so a checkpoint after them has 0 or what an earlier
  `WriteEntry` left in the slot (`zigo_db.zig:310-314`).
- *Synchronising.* Raw writes store the time stamp 0, so a request with a time
  stamp that is not negative gets none of them (`bridge.go:1371`); `ApplySync`
  writes everything as new messages, so a retry after a failure duplicates, and
  panics at an entry without data (`bridge.go:381`).
- *Snapshots.* `LoadSnapshot` into a process that goes on writing sets the uuid
  counter back and hands out uuids again, and does so before the chunk may fail
  to load (`bridge.go:1258`); after a death in `SaveSnapshot` the json may be
  older than the chunk, which nothing verifies; `lastHash` is never updated.
- *Lifecycle.* "Gracefully shuts down the database" (`docs/go_api.md:38`): `Shutdown`
  waits for nobody (`bridge.go:1425`); two package `Shutdown`s at once may find a
  nil handle or free twice; `New` over a live database leaks it, and clears the
  search pool while segments are held.
- *Pool.* After a release the bitmap says "taken" while `in_use` says "free"
  (`zigo_db.zig:247` against `docs/zig_core.md:74`).

## 6. Not modelled, and the plan

Left out for good:

- gossip: a map of peers and a list of messages under one mutex; `Broadcast`
  prints and sends nothing, so there is no protocol to check;
- `GetStatus`, `GetRooms`, `GetLastHash`, `GenerateEventID`: plain loads or
  constants (the node of an event id is always 0);
- checksums and the hash chain: byte arithmetic; `VerifyChain` and `db_recover`
  are stubs or unused;
- types nothing uses (`WriteLock`, `CheckpointTrigger`) and stubs that return a
  constant (`dumpRegionToFile`, `search_query`);
- the clearing of the search pool by `New`, snippets, JSON wording, the contents
  of messages, and the example programs under `examples/`.

All other parts have their module, and all of their safety properties are
proved.  What may still be added:

| Subject | Why it would say more |
|---|---|
| an abstract pool and an abstract sequence of saved snapshots, refined by `SearchPool` and `Lifecycle` | one statement of what each promises, in place of several invariants |
| the refinement of a region by `ReservePath` | `RegionLog` knows of no reservations; an abstract log with spent slots would |
| invariants that the liveness arguments rest on, such as what a spinning drain waits for | the safety half of `DrainTerminates` and `StopReturns` holds for every instance |
