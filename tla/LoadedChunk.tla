---------------------------- MODULE LoadedChunk ----------------------------
(***************************************************************************)
(* The chunk a handle has loaded: LoadChunk, LoadIndex, MmapChunk,         *)
(* MunmapChunk, and the queries over it, QueryChunk, QueryChunkWithMeta,   *)
(* Search, SearchPaged and SearchInRoom of bridge.go.                      *)
(*                                                                         *)
(* Calls are one step each here: ChunkFile is about loads that overlap     *)
(* each other or an export.  The files are what exports leave behind:      *)
(* whole, or ended early at any place.                                     *)
(***************************************************************************)
EXTENDS Integers, SequencesExt

CONSTANTS
    Names,     \* files
    Files,     \* what somebody may put under a name, see Contents
    PageSizes, \* how much a client asks for at a time
    MaxPuts,   \* model bound: files put in place
    MaxMaps    \* model bound: calls of MmapChunk that map

\* What the query and the room of a search make of a record is all that is
\* kept of its data; "none" is a record without any.
Records == [id : Nat, room : Nat, data : {"hit", "miss", "none"}]
Blank == [id |-> 0, room |-> 0, data |-> "none"]

\* A file is missing, has no bytes, ends in its header, or starts with the
\* magic and count of a chunk or of an index.  tail is the record after the
\* complete ones of which part of the data is there, if any.
Contents == [form : {"absent", "empty", "stub", "chunk", "index"},
             count : Nat, recs : Seq(Records), tail : Seq(Records)]

ASSUME FilesAssumption ==
    \A f \in Files : /\ f \in Contents /\ Len(f.tail) <= 1
                     /\ Len(f.recs) + Len(f.tail) <= f.count
ASSUME PagesAssumption == PageSizes \subseteq Nat \ {0}
ASSUME LoadBoundsAssumption == MaxPuts \in Nat /\ MaxMaps \in Nat

VARIABLES
    file,                             \* [Names -> Contents]
    LoadedChunkEntries, chunkLoaded,
    LoadedIndexEntries,
    mmap,                             \* the handle's mapping, 0 for nil
    mappings,                         \* the open mappings of the process
    puts, maps,                       \* model bounds
    source,   \* history: the file LoadedChunkEntries was last made for ...
    read,     \* ... and whether all of it was read
    mapped,   \* history: MmapChunk has mapped since the last MunmapChunk ...
    doubled   \* ... and ever twice without one

entryVars == <<LoadedChunkEntries, chunkLoaded, source, read>>
mapVars == <<mmap, mappings, maps, mapped, doubled>>
loadVars == <<entryVars, mapVars, LoadedIndexEntries>>
chunkVars == <<file, puts, loadVars>>

Absent == [form |-> "absent", count |-> 0, recs |-> <<>>, tail |-> <<>>]

ChunkTypeOK ==
    /\ file \in [Names -> Contents] /\ source \in Contents
    /\ LoadedChunkEntries \in Seq(Records) /\ chunkLoaded \in BOOLEAN
    /\ LoadedIndexEntries \in Seq(Records)
    /\ mmap \in 0 .. maps /\ mappings \subseteq 1 .. maps
    /\ puts \in 0 .. MaxPuts /\ maps \in 0 .. MaxMaps
    /\ read \in BOOLEAN /\ mapped \in BOOLEAN /\ doubled \in BOOLEAN

\* A handle as New makes it, in a process that has nothing mapped.
NewHandle ==
    /\ LoadedChunkEntries = <<>> /\ chunkLoaded = FALSE
    /\ LoadedIndexEntries = <<>>
    /\ mmap = 0 /\ mappings = {} /\ maps = 0
    /\ source = Absent /\ read = FALSE
    /\ mapped = FALSE /\ doubled = FALSE

ChunkInit ==
    /\ file = [n \in Names |-> Absent] /\ puts = 0
    /\ NewHandle

-----------------------------------------------------------------------------
(* What a parser reads *)

\* file.Read returns no bytes for a record without data; a bytes.Reader that
\* is at its end says so instead, and the record is refused.
Refused(f, reader) ==
    /\ reader = "bytes" /\ f.tail = <<>>
    /\ f.recs # <<>> /\ Last(f.recs).data = "none"

\* The records read before the count is reached or the file ends.  Neither
\* reader minds that the data of the last one is short.
ReadBack(f, reader) ==
    IF Refused(f, reader) THEN Front(f.recs) ELSE f.recs \o f.tail

Pad(recs, count) == recs \o [b \in 1 .. count - Len(recs) |-> Blank]

-----------------------------------------------------------------------------
(* Plausible bugs, kept to show that the properties notice them. *)

\* Fill that keeps a slice that is long enough.
Reuse(f, reader) ==
    LET recs == ReadBack(f, reader)
    IN  /\ LoadedChunkEntries' =
               recs \o SubSeq(Pad(LoadedChunkEntries, f.count),
                              Len(recs) + 1, f.count)
        /\ chunkLoaded' = (chunkLoaded \/ Len(recs) = f.count)
        /\ source' = f /\ read' = (Len(recs) = f.count)

\* MunmapChunk of a handle without a chunk, as after a failed MmapChunk.
KeepFailed ==
    /\ IF chunkLoaded THEN mmap' = 0 /\ mappings' = mappings \ {mmap}
       ELSE UNCHANGED <<mmap, mappings>>
    /\ chunkLoaded' = FALSE /\ mapped' = FALSE
    /\ UNCHANGED <<file, puts, LoadedChunkEntries, LoadedIndexEntries, maps,
                   doubled, source, read>>

\* Page with an end that is not one past the last element.
PageInclusive(all, page, perPage) ==
    LET first == (page - 1) * perPage
    IN  SubSeq(all, first + 1, Min({first + perPage + 1, Len(all)}))

\* Window with a bound that leaves out the last entry.
WindowShort(offset, count) ==
    IF offset > Len(LoadedChunkEntries) THEN <<"panic">>
    ELSE SubSeq(LoadedChunkEntries, offset + 1,
                Min({offset + count, Len(LoadedChunkEntries) - 1}))

-----------------------------------------------------------------------------
(* Loads *)

\* Somebody exports, copies or removes a file.
Put(n, f) ==
    /\ puts < MaxPuts
    /\ file' = [file EXCEPT ![n] = f]
    /\ puts' = puts + 1
    /\ UNCHANGED loadVars

\* make() for the count of the header, then record by record into it.  A file
\* that ends early leaves blanks and the flag of an earlier load.
Fill(f, reader) ==
    LET recs == ReadBack(f, reader)
    IN  /\ LoadedChunkEntries' = Pad(recs, f.count)
        /\ chunkLoaded' = (chunkLoaded \/ Len(recs) = f.count)
        /\ source' = f /\ read' = (Len(recs) = f.count)

\* Anything but a chunk is an error before the entries are touched.
Parse(f, reader) ==
    IF f.form = "chunk" THEN Fill(f, reader) ELSE UNCHANGED entryVars

LoadChunk(n) ==
    /\ Parse(file[n], "file")
    /\ UNCHANGED <<file, puts, mapVars, LoadedIndexEntries>>

\* Index records have no data, so a record is either there or not.
LoadIndex(n) ==
    /\ file[n].form = "index"
    /\ LoadedIndexEntries' = Pad(file[n].recs, file[n].count)
    /\ UNCHANGED <<file, puts, entryVars, mapVars>>

\* A file is mapped before it is parsed: with an error of the parser it stays
\* mapped.  A mapping the handle had is overwritten and never unmapped.  No
\* file, and one of no bytes, cannot be mapped.
MmapChunk(n) ==
    LET f == file[n]
    IN  /\ f.form \notin {"absent", "empty"} /\ maps < MaxMaps
        /\ mmap' = maps + 1 /\ maps' = maps + 1
        /\ mappings' = mappings \cup {maps + 1}
        /\ mapped' = TRUE /\ doubled' = (doubled \/ mapped)
        /\ Parse(f, "bytes")
        /\ UNCHANGED <<file, puts, LoadedIndexEntries>>

\* The entries are copies and stay, but they count as unloaded, also when it
\* was LoadChunk that loaded them.
MunmapChunk ==
    /\ mmap' = 0 /\ mappings' = mappings \ {mmap}
    /\ chunkLoaded' = FALSE /\ mapped' = FALSE
    /\ UNCHANGED <<file, puts, LoadedChunkEntries, LoadedIndexEntries, maps,
                   doubled, source, read>>

ChunkNext ==
    \/ \E n \in Names : \/ LoadChunk(n) \/ LoadIndex(n) \/ MmapChunk(n)
                        \/ \E f \in Files : Put(n, f)
    \/ MunmapChunk

ChunkSpec == ChunkInit /\ [][ChunkNext]_chunkVars

-----------------------------------------------------------------------------
(* Queries, of a handle with a chunk loaded *)

\* One pass over a slice: what is in T is appended.
Keep(s, T) ==
    LET kept[n \in 0 .. Len(s)] ==
            IF n = 0 THEN <<>>
            ELSE IF s[n] \in T THEN Append(kept[n - 1], s[n]) ELSE kept[n - 1]
    IN  kept[Len(s)]

\* The offsets of the entries with a match.
Offsets == 0 .. Len(LoadedChunkEntries) - 1
Search == Keep([o \in 1 .. Len(LoadedChunkEntries) |-> o - 1],
               {o \in Offsets : LoadedChunkEntries[o + 1].data = "hit"})

SearchInRoom(q) ==
    Keep(Search, {o \in Offsets : LoadedChunkEntries[o + 1].room = q})

\* allResults[start:end], with start and end kept inside.
Page(all, page, perPage) ==
    LET first == (page - 1) * perPage
    IN  SubSeq(all, first + 1, Min({first + perPage, Len(all)}))

\* A page or a size below 1 stands for the first page or for ten.
SearchPaged(page, perPage) ==
    Page(Search, IF page < 1 THEN 1 ELSE page,
                 IF perPage < 1 THEN 10 ELSE perPage)

\* LoadedChunkEntries[offset:end].  The end is kept inside, the start is not.
Window(offset, count) ==
    IF offset > Len(LoadedChunkEntries) THEN <<"panic">>
    ELSE SubSeq(LoadedChunkEntries, offset + 1,
                Min({offset + count, Len(LoadedChunkEntries)}))

\* A negative offset or no count is an error, answered with nothing here.
QueryChunkWithMeta(offset, count) ==
    IF offset < 0 \/ count <= 0 THEN <<>> ELSE Window(offset, count)

Texts == {e \in Records : e.data # "none"}

\* Its loop ends at once from an offset beyond the end; what has no data is
\* left out of the answer.
QueryChunk(offset, count) ==
    IF offset > Len(LoadedChunkEntries) THEN <<>>
    ELSE Keep(QueryChunkWithMeta(offset, count), Texts)

-----------------------------------------------------------------------------
\* Whatever loads succeeded, failed half way or followed an unmapping, the
\* entries are the records of one file, the last one a load got hold of, from
\* its first record on and then blanks: never a mixture of two files.  A chunk
\* that counts as loaded after a load that read all of its file has no blanks.
EntriesOfOneFile ==
    LET e == LoadedChunkEntries
    IN  \E r \in 0 .. Len(e) :
            /\ Len(e) = source.count
            /\ SubSeq(e, 1, r) = SubSeq(source.recs \o source.tail, 1, r)
            /\ \A b \in r + 1 .. Len(e) : e[b] = Blank
            /\ read => r = Len(e)

\* A client that never calls MmapChunk twice without a MunmapChunk in between
\* has at most one file mapped and, after a MunmapChunk, none, also when
\* MmapChunk had failed in the middle of a file.
MappingsPaired == ~doubled => mappings = IF mapped THEN {mmap} ELSE {}

\* SearchPaged, asked for page after page until one is empty, gives every hit
\* of the chunk once and in order, whatever the size of a page; a page below
\* the first is the first again.
PagesPartition(size) ==
    LET pages == [p \in 1 .. Len(Search) + 1 |-> SearchPaged(p, size)]
    IN  /\ FlattenSeq(pages) = Search
        /\ Last(pages) = <<>>
        /\ \A p \in DOMAIN pages : Len(pages[p]) <= size
        /\ SearchPaged(0, size) = pages[1]

\* QueryChunkWithMeta, asked for window after window until one is not full,
\* gives every entry once and in order and never panics, and QueryChunk does
\* so for the entries with data.
WindowsCover(size) ==
    LET last == Len(LoadedChunkEntries) \div size
        windows == [w \in 1 .. last + 1 |->
                        QueryChunkWithMeta((w - 1) * size, size)]
    IN  /\ FlattenSeq(windows) = LoadedChunkEntries
        /\ Len(Last(windows)) < size
        /\ FlattenSeq([w \in 1 .. last + 1 |->
                           QueryChunk((w - 1) * size, size)])
           = Keep(LoadedChunkEntries, Texts)

\* A client that walks a loaded chunk page by page or window by window sees
\* everything once, whichever loads the chunk comes from.
QueriesPartition ==
    chunkLoaded =>
        \A size \in PageSizes : PagesPartition(size) /\ WindowsCover(size)
=============================================================================
