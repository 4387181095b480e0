--------------------------- MODULE TemporalProofs ---------------------------
(* What TLAPS proves of LoadedChunk and of Temporal, for every set of files, *)
(* region size, maximum of an index, clock and range of integers.            *)
EXTENDS Temporal, ActiveRegionProofs, SequenceTheorems, WellFoundedInduction

(* Loads *)

\* A file as FilesInv has it.
Sound(f) ==
    /\ f \in Contents /\ Len(f.tail) <= 1
    /\ Len(f.recs) + Len(f.tail) <= f.count

EntriesInv ==
    /\ LoadedChunkEntries \in Seq(Records) /\ chunkLoaded \in BOOLEAN
    /\ source \in Contents /\ read \in BOOLEAN
    /\ EntriesOfOneFile

FileInv ==
    /\ file \in [Names -> Contents] /\ puts \in 0 .. MaxPuts
    /\ LoadedIndexEntries \in Seq(Records)
    /\ \A n \in Names : Sound(file[n])

MapInv ==
    /\ maps \in 0 .. MaxMaps /\ mmap \in 0 .. maps /\ mappings \subseteq 1 .. maps
    /\ mapped \in BOOLEAN /\ doubled \in BOOLEAN
    /\ MappingsPaired

ChunkInv == EntriesInv /\ FileInv /\ MapInv

LEMMA ChunkInvIs == ChunkInv => ChunkTypeOK /\ LoadedInv
  BY DEF ChunkInv, EntriesInv, FileInv, MapInv, ChunkTypeOK, LoadedInv

LEMMA FilesAreSound ==
    ASSUME FileInv, NEW m \in Names
    PROVE  Sound(file[m])
  BY DEF FileInv

LEMMA Joined ==
    ASSUME NEW r \in Seq(Records), NEW t \in Seq(Records), NEW c \in Nat,
           Len(r) + Len(t) <= c
    PROVE  /\ r \o t \in Seq(Records)
           /\ Len(r) \in Nat /\ Len(r \o t) \in Nat
           /\ Len(r) <= Len(r \o t) /\ Len(r \o t) <= c
           /\ \A j \in 1 .. Len(r) : (r \o t)[j] = r[j]
  <1> DEFINE w == r \o t
  <1>1. Len(r) \in Nat /\ Len(t) \in Nat
    BY LenProperties
  <1>2. /\ w \in Seq(Records) /\ Len(w) = Len(r) + Len(t)
        /\ \A j \in 1 .. Len(r) + Len(t) :
              w[j] = IF j <= Len(r) THEN r[j] ELSE t[j - Len(r)]
    BY ConcatProperties
  <1> HIDE DEF w
  <1>3. /\ Len(w) \in Nat /\ Len(r) <= Len(w) /\ Len(w) <= c
        /\ \A j \in 1 .. Len(r) : w[j] = r[j]
    BY <1>1, <1>2
  <1> QED  BY <1>1, <1>2, <1>3 DEF w

LEMMA FrontOf ==
    ASSUME NEW r \in Seq(Records), r # <<>>
    PROVE  /\ Front(r) \in Seq(Records) /\ Len(Front(r)) = Len(r) - 1
           /\ Len(r) - 1 \in Nat
           /\ \A j \in 1 .. Len(r) - 1 : Front(r)[j] = r[j]
  <1> DEFINE last == Len(r) - 1
             s == SubSeq(r, 1, last)
  <1>1. Len(r) \in Nat \ {0}
    BY EmptySeq
  <1>2. last \in Nat /\ last <= Len(r)
    BY <1>1
  <1>3. \A j \in 1 .. last : r[j] \in Records
    BY <1>1, <1>2, ElementOfSeq
  <1> HIDE DEF last
  <1>4. /\ s \in Seq(Records)
        /\ Len(s) = IF 1 <= last THEN last - 1 + 1 ELSE 0
        /\ \A j \in 1 .. last - 1 + 1 : s[j] = r[1 + j - 1]
    <2>1. 1 \in Int /\ last \in Int
      BY <1>2
    <2> QED  BY <1>3, <2>1, SubSeqProperties
  <1> HIDE DEF s
  <1>5. Len(s) = last /\ \A j \in 1 .. last : s[j] = r[j]
    BY <1>2, <1>4
  <1> QED  BY <1>2, <1>4, <1>5 DEF last, s, Front

\* Either reader gets the records of a file from the first one on.
LEMMA ReadsPrefix ==
    ASSUME NEW f, Sound(f), NEW reader
    PROVE  \E recs, w \in Seq(Records) :
              /\ recs = ReadBack(f, reader) /\ w = f.recs \o f.tail
              /\ Len(recs) <= Len(w) /\ Len(w) <= f.count
              /\ \A j \in 1 .. Len(recs) : recs[j] = w[j]
  <1>1. /\ f.recs \in Seq(Records) /\ f.tail \in Seq(Records) /\ f.count \in Nat
    BY DEF Sound, Contents
  <1>2. PICK r, t \in Seq(Records), c \in Nat :
            r = f.recs /\ t = f.tail /\ c = f.count
    BY <1>1
  <1>3. Len(r) + Len(t) <= c
    BY <1>2 DEF Sound
  <1> DEFINE w == r \o t
             recs == ReadBack(f, reader)
  <1>4. /\ w \in Seq(Records) /\ Len(r) \in Nat /\ Len(w) \in Nat
        /\ Len(r) <= Len(w) /\ Len(w) <= c
        /\ \A j \in 1 .. Len(r) : w[j] = r[j]
    BY <1>3, Joined
  <1>5. /\ recs \in Seq(Records) /\ Len(recs) <= Len(w)
        /\ \A j \in 1 .. Len(recs) : recs[j] = w[j]
    <2>1. CASE Refused(f, reader)
      <3>1. recs = Front(r) /\ r # <<>>
        BY <1>2, <2>1 DEF ReadBack, Refused
      <3> HIDE DEF w, recs
      <3>2. /\ Front(r) \in Seq(Records) /\ Len(Front(r)) = Len(r) - 1
            /\ Len(r) - 1 \in Nat
            /\ \A j \in 1 .. Len(r) - 1 : Front(r)[j] = r[j]
        BY <3>1, FrontOf
      <3>3. /\ recs \in Seq(Records) /\ Len(recs) = Len(r) - 1
            /\ \A j \in 1 .. Len(r) - 1 : recs[j] = r[j]
        BY <3>1, <3>2, Zenon
      <3>4. Len(recs) <= Len(w)
        BY <1>4, <3>3
      <3>5. ASSUME NEW j \in 1 .. Len(recs) PROVE recs[j] = w[j]
        <4>1. j \in 1 .. Len(r) - 1 /\ j \in 1 .. Len(r)
          BY <1>4, <3>3
        <4> QED  BY <1>4, <3>3, <4>1
      <3> QED  BY <3>3, <3>4, <3>5
    <2>2. CASE ~Refused(f, reader)
      <3>1. recs = w
        BY <1>2, <2>2 DEF ReadBack
      <3> HIDE DEF w, recs
      <3> QED  BY <1>4, <3>1
    <2> QED  BY <2>1, <2>2
  <1> HIDE DEF recs
  <1>6. w = f.recs \o f.tail /\ Len(w) <= f.count
    BY <1>2, <1>4
  <1> HIDE DEF w
  <1> QED  BY <1>4, <1>5, <1>6 DEF recs

LEMMA Padded ==
    ASSUME NEW recs \in Seq(Records), NEW c \in Nat, Len(recs) <= c
    PROVE  /\ Pad(recs, c) \in Seq(Records) /\ Len(Pad(recs, c)) = c
           /\ \A j \in 1 .. Len(recs) : Pad(recs, c)[j] = recs[j]
           /\ \A j \in Len(recs) + 1 .. c : Pad(recs, c)[j] = Blank
  <1> DEFINE l == Len(recs)
             p == [b \in 1 .. c - l |-> Blank]
  <1>1. l \in Nat /\ c - l \in Nat
    BY LenProperties
  <1>2. Blank \in Records
    BY DEF Blank, Records
  <1>3. p \in Seq(Records) /\ Len(p) = c - l
    BY <1>1, <1>2
  <1>4. /\ recs \o p \in Seq(Records) /\ Len(recs \o p) = l + Len(p)
        /\ \A j \in 1 .. l + Len(p) :
              (recs \o p)[j] = IF j <= l THEN recs[j] ELSE p[j - l]
    <2> HIDE DEF p
    <2> QED  BY <1>3, ConcatProperties
  <1>5. \A j \in l + 1 .. c : p[j - l] = Blank
    BY <1>1
  <1>6. Pad(recs, c) = recs \o p
    BY DEF Pad
  <1> DEFINE q == recs \o p
  <1> HIDE DEF l, p, q
  <1>7. /\ q \in Seq(Records) /\ Len(q) = c
        /\ \A j \in 1 .. c : q[j] = IF j <= l THEN recs[j] ELSE p[j - l]
    BY <1>1, <1>3, <1>4 DEF q
  <1>8. \A j \in 1 .. l : q[j] = recs[j]
    BY <1>1, <1>7
  <1>9. \A j \in l + 1 .. c : q[j] = Blank
    BY <1>1, <1>5, <1>7
  <1> QED  BY <1>6, <1>7, <1>8, <1>9 DEF l, q

LEMMA SamePrefix ==
    ASSUME NEW s, NEW t, NEW r \in Nat,
           \A j \in 1 .. r : s[j] \in Records /\ s[j] = t[j]
    PROVE  SubSeq(s, 1, r) = SubSeq(t, 1, r)
  <1> DEFINE u == SubSeq(s, 1, r)
             v == SubSeq(t, 1, r)
  <1>1. 1 \in Int /\ r \in Int
    OBVIOUS
  <1>2. /\ u \in Seq(Records) /\ Len(u) = (IF 1 <= r THEN r - 1 + 1 ELSE 0)
        /\ \A j \in 1 .. r - 1 + 1 : u[j] = s[1 + j - 1]
    <2>1. \A j \in 1 .. r : s[j] \in Records
      OBVIOUS
    <2> QED  BY <1>1, <2>1, SubSeqProperties
  <1>3. /\ v \in Seq(Records) /\ Len(v) = (IF 1 <= r THEN r - 1 + 1 ELSE 0)
        /\ \A j \in 1 .. r - 1 + 1 : v[j] = t[1 + j - 1]
    <2>1. \A j \in 1 .. r : t[j] \in Records
      OBVIOUS
    <2> QED  BY <1>1, <2>1, SubSeqProperties
  <1> HIDE DEF u, v
  <1>4. Len(u) = Len(v) /\ \A j \in 1 .. Len(u) : u[j] = v[j]
    <2>1. Len(u) = r /\ Len(v) = r
      BY <1>2, <1>3
    <2>2. ASSUME NEW j \in 1 .. r PROVE u[j] = v[j]
      <3>1. j \in 1 .. r - 1 + 1 /\ 1 + j - 1 = j
        OBVIOUS
      <3>2. u[j] = s[j] /\ v[j] = t[j]
        BY <1>2, <1>3, <3>1
      <3> QED  BY <3>2
    <2> QED  BY <2>1, <2>2
  <1>5. u = v
    BY <1>2, <1>3, <1>4, SeqEqual
  <1> QED  BY <1>5 DEF u, v

LEMMA ParseKeeps ==
    ASSUME EntriesInv, NEW f, Sound(f), NEW reader, Parse(f, reader)
    PROVE  EntriesInv'
  <1>1. CASE f.form # "chunk"
    BY <1>1 DEF Parse, entryVars, EntriesInv, EntriesOfOneFile
  <1>2. CASE f.form = "chunk"
    <2>1. PICK recs, w \in Seq(Records) :
              /\ recs = ReadBack(f, reader) /\ w = f.recs \o f.tail
              /\ Len(recs) <= Len(w) /\ Len(w) <= f.count
              /\ \A j \in 1 .. Len(recs) : recs[j] = w[j]
      BY ReadsPrefix
    <2>2. PICK c \in Nat : c = f.count
      BY DEF Sound, Contents
    <2>3. /\ LoadedChunkEntries' = Pad(recs, c)
          /\ chunkLoaded' = (chunkLoaded \/ Len(recs) = c)
          /\ source' = f /\ read' = (Len(recs) = c)
      BY <1>2, <2>1, <2>2 DEF Parse, Fill
    <2>4. /\ Len(recs) \in Nat /\ Len(w) \in Nat
          /\ Len(recs) <= Len(w) /\ Len(w) <= c /\ Len(recs) <= c
      <3>1. Len(recs) \in Nat /\ Len(w) \in Nat
        BY LenProperties
      <3>2. Len(recs) <= Len(w) /\ Len(w) <= c
        BY <2>1, <2>2, Zenon
      <3> QED  BY <3>1, <3>2
    <2>5. PICK e \in Seq(Records) :
              /\ e = Pad(recs, c) /\ Len(e) = c
              /\ \A j \in 1 .. Len(recs) : e[j] = recs[j]
              /\ \A j \in Len(recs) + 1 .. c : e[j] = Blank
      BY <2>4, Padded
    <2>6. SubSeq(e, 1, Len(recs)) = SubSeq(w, 1, Len(recs))
      <3>1. \A j \in 1 .. Len(recs) : e[j] \in Records /\ e[j] = w[j]
        BY <2>1, <2>5, ElementOfSeq
      <3> QED  BY <2>4, <3>1, SamePrefix
    <2>7. EntriesOfOneFile'
      <3> DEFINE r == Len(recs)
      <3>1. /\ r \in 0 .. Len(e) /\ Len(e) = c
            /\ \A b \in r + 1 .. Len(e) : e[b] = Blank
            /\ read' => r = Len(e)
        <4>1. /\ Len(e) = c /\ \A b \in Len(recs) + 1 .. c : e[b] = Blank
              /\ read' => Len(recs) = c
          BY <2>3, <2>5, Zenon
        <4>2. r \in Nat /\ r <= c
          BY <2>4
        <4>3. r \in 0 .. Len(e)
          BY <4>1, <4>2
        <4> QED  BY <4>1, <4>3, Zenon
      <3>2. /\ LoadedChunkEntries' = e /\ source' = f /\ c = f.count
            /\ w = f.recs \o f.tail
        BY <2>1, <2>2, <2>3, <2>5
      <3> HIDE DEF r
      <3>3. SubSeq(e, 1, r) = SubSeq(w, 1, r)
        BY <2>6 DEF r
      <3> QED  BY <3>1, <3>2, <3>3, Zenon DEF EntriesOfOneFile
    <2>8. /\ chunkLoaded' \in BOOLEAN /\ read' \in BOOLEAN
          /\ source' \in Contents
      BY <2>3 DEF Sound
    <2> QED  BY <2>3, <2>5, <2>7, <2>8 DEF EntriesInv
  <1> QED  BY <1>1, <1>2

LEMMA PutKeeps ==
    ASSUME ChunkInv, NEW m \in Names, NEW f, Sound(f), Put(m, f)
    PROVE  ChunkInv'
  <1> USE DEF ChunkInv
  <1>1. /\ puts < MaxPuts /\ puts' = puts + 1
        /\ file' = [file EXCEPT ![m] = f] /\ UNCHANGED loadVars
    BY DEF Put
  <1>2. FileInv'
    <2>1. puts' \in 0 .. MaxPuts
      BY <1>1, LoadBoundsAssumption DEF FileInv
    <2>2. file' \in [Names -> Contents]
      BY <1>1 DEF FileInv, Sound
    <2>3. \A n \in Names : Sound(file'[n])
      BY <1>1, FilesAreSound DEF FileInv
    <2> QED  BY <1>1, <2>1, <2>2, <2>3 DEF FileInv, loadVars, Sound
  <1>3. MapInv' /\ EntriesInv'
    BY <1>1 DEF loadVars, mapVars, entryVars, MapInv, MappingsPaired,
       EntriesInv,
                EntriesOfOneFile
  <1> QED  BY <1>2, <1>3

LEMMA ChunkNextKeeps ==
    ASSUME ChunkInv, ChunkNext
    PROVE  ChunkInv'
  <1> USE DEF ChunkInv
  <1>1. ASSUME UNCHANGED <<file, puts, LoadedIndexEntries>> PROVE FileInv'
    BY <1>1 DEF FileInv, Sound
  <1>2. ASSUME UNCHANGED mapVars PROVE MapInv'
    BY <1>2 DEF mapVars, MapInv, MappingsPaired
  <1>3. ASSUME UNCHANGED entryVars PROVE EntriesInv'
    BY <1>3 DEF entryVars, EntriesInv, EntriesOfOneFile
  <1>4. ASSUME NEW m \in Names, LoadChunk(m) PROVE ChunkInv'
    <2>1. Sound(file[m])
      BY FilesAreSound
    <2>2. EntriesInv'
      BY <1>4, <2>1, ParseKeeps DEF LoadChunk
    <2> QED  BY <1>1, <1>2, <1>4, <2>2 DEF LoadChunk
  <1>5. ASSUME NEW m \in Names, LoadIndex(m) PROVE ChunkInv'
    <2>1. PICK r, t \in Seq(Records), c \in Nat :
              /\ r = file[m].recs /\ t = file[m].tail /\ c = file[m].count
              /\ Len(r) + Len(t) <= c
      BY FilesAreSound DEF Sound, Contents
    <2>2. Len(r) <= c
      <3>1. Len(r) \in Nat /\ Len(t) \in Nat
        BY LenProperties
      <3>2. Len(r) + Len(t) <= c
        BY <2>1, Zenon
      <3> QED  BY <3>1, <3>2
    <2>3. Pad(r, c) \in Seq(Records)
      BY <2>2, Padded
    <2>4. LoadedIndexEntries' = Pad(r, c) /\ UNCHANGED <<file, puts>>
      BY <1>5, <2>1 DEF LoadIndex
    <2>5. FileInv'
      BY <2>3, <2>4 DEF FileInv, Sound
    <2> QED  BY <1>2, <1>3, <1>5, <2>5 DEF LoadIndex
  <1>6. ASSUME NEW m \in Names, MmapChunk(m) PROVE ChunkInv'
    <2>1. EntriesInv'
      BY <1>6, FilesAreSound, ParseKeeps DEF MmapChunk
    <2>2. MapInv'
      <3>1. /\ maps < MaxMaps /\ mmap' = maps + 1 /\ maps' = maps + 1
            /\ mappings' = mappings \cup {maps + 1}
            /\ mapped' = TRUE /\ doubled' = (doubled \/ mapped)
        BY <1>6 DEF MmapChunk
      <3>2. /\ maps \in Nat /\ maps' \in 0 .. MaxMaps /\ mmap' \in 0 .. maps'
            /\ mappings' \subseteq 1 .. maps'
        BY <3>1, LoadBoundsAssumption DEF MapInv
      <3>3. doubled' \in BOOLEAN
        BY <3>1
      <3>4. MappingsPaired'
        BY <3>1 DEF MapInv, MappingsPaired
      <3> QED  BY <3>1, <3>2, <3>3, <3>4 DEF MapInv
    <2> QED  BY <1>1, <1>6, <2>1, <2>2 DEF MmapChunk
  <1>7. CASE MunmapChunk
    <2>1. MapInv'
      <3>1. /\ mmap' = 0 /\ mappings' = mappings \ {mmap} /\ mapped' = FALSE
            /\ UNCHANGED <<maps, doubled>>
        BY <1>7 DEF MunmapChunk
      <3>2. 0 \in 0 .. maps
        BY LoadBoundsAssumption DEF MapInv
      <3> QED  BY <3>1, <3>2 DEF MapInv, MappingsPaired
    <2>2. EntriesInv'
      BY <1>7 DEF MunmapChunk, EntriesInv, EntriesOfOneFile
    <2> QED  BY <1>1, <1>7, <2>1, <2>2 DEF MunmapChunk
  <1>8. ASSUME NEW m \in Names, NEW f \in Files, Put(m, f) PROVE ChunkInv'
    BY <1>8, FilesAssumption, PutKeeps DEF Sound
  <1> QED  BY <1>4, <1>5, <1>6, <1>7, <1>8 DEF ChunkNext

-----------------------------------------------------------------------------
(* Numbers of entries *)


LEMMA TimesNat ==
    ASSUME NEW x \in Nat, NEW y \in Nat
    PROVE  x * y \in Nat
  OBVIOUS

LEMMA TimesGrows ==
    ASSUME NEW x \in Nat, NEW y \in Nat, NEW z \in Nat, y <= z
    PROVE  y * x <= z * x
  <1>1. PICK d \in Nat : z = y + d
    <2>1. z - y \in Nat /\ z = y + (z - y)
      OBVIOUS
    <2> QED  BY <2>1
  <1>2. z * x = y * x + d * x
    BY <1>1
  <1>3. y * x \in Nat /\ d * x \in Nat
    BY TimesNat
  <1> QED  BY <1>2, <1>3

\* A handle without entries holds those of no file.
LEMMA NoEntries ==
    /\ <<>> \in Seq(Records) /\ Len(<<>>) = 0
    /\ Absent \in Contents /\ Absent.count = 0
    /\ SubSeq(<<>>, 1, 0) = SubSeq(Absent.recs \o Absent.tail, 1, 0)
  <1>1. \A s, t : SubSeq(s, 1, 0) = SubSeq(t, 1, 0)
    <2> TAKE s, t
    <2>1. SubSeq(s, 1, 0) = <<>> /\ SubSeq(t, 1, 0) = <<>>
      BY SubSeqEmpty
    <2> QED  BY <2>1
  <1>2. Absent \in Contents /\ Absent.count = 0
    BY DEF Absent, Contents
  <1>3. <<>> \in Seq(Records) /\ Len(<<>>) = 0
    OBVIOUS
  <1>4. SubSeq(<<>>, 1, 0) = SubSeq(Absent.recs \o Absent.tail, 1, 0)
    BY <1>1
  <1> QED  BY <1>2, <1>3, <1>4

LEMMA ChunkInvInit == ChunkInit => ChunkInv
  <1> SUFFICES ASSUME ChunkInit PROVE ChunkInv
    OBVIOUS
  <1>1. /\ LoadedChunkEntries = <<>> /\ chunkLoaded = FALSE
        /\ LoadedIndexEntries = <<>> /\ source = Absent /\ read = FALSE
        /\ mmap = 0 /\ mappings = {} /\ mapped = FALSE /\ doubled = FALSE
        /\ maps = 0 /\ puts = 0
    BY DEF ChunkInit, NewHandle
  <1>2. \A m \in Names : Sound(file[m])
    <2>1. \A m \in Names : file[m] = Absent
      BY DEF ChunkInit
    <2>2. Len(Absent.tail) <= 1 /\ Len(Absent.recs) + Len(Absent.tail) <= Absent.count
      BY DEF Absent
    <2> QED  BY <2>1, <2>2, NoEntries DEF Sound
  <1>3. EntriesOfOneFile
    <2>1. /\ 0 \in 0 .. Len(<<>>) /\ \A b \in 0 + 1 .. Len(<<>>) : FALSE
      BY NoEntries
    <2> QED  BY <1>1, <2>1, NoEntries, Zenon DEF EntriesOfOneFile
  <1>4. EntriesInv
    BY <1>1, <1>3, NoEntries DEF EntriesInv
  <1>5. FileInv
    <2>1. file \in [Names -> Contents] /\ 0 \in 0 .. MaxPuts
      BY NoEntries, LoadBoundsAssumption DEF ChunkInit
    <2> QED  BY <1>1, <1>2, <2>1, NoEntries DEF FileInv
  <1>6. MapInv
    <2>1. 0 \in 0 .. MaxMaps /\ 0 \in 0 .. 0
      BY LoadBoundsAssumption
    <2> QED  BY <1>1, <2>1 DEF MapInv, MappingsPaired
  <1> QED  BY <1>4, <1>5, <1>6 DEF ChunkInv

-----------------------------------------------------------------------------
(* The regions *)

SourceInv ==
    /\ RegionInv /\ fill <= MaxFills
    /\ now \in 1 .. MaxTime /\ versions \in [Slots -> Nat]

LEMMA SourceFrame ==
    ASSUME [TemporalNext]_temporalVars
    PROVE  \/ UNCHANGED <<sourceVars, now>>
           \/ Tick \/ Writes \/ TriggerDrain \/ Restart
           \/ \E v \in reservations, q \in Rooms, t \in Times, h \in Hashes :
                 WriteEntry(v, q, t, h)
  BY DEF TemporalNext, temporalVars, ExportStep, CheckpointStep, RewindStep,
         Chunks, ExportChunk, ExportCreate, ExportEntry, ExportReturns,
         CreateCheckpoint, CheckpointCount, CheckpointHash, DropOldest,
         AppendCheckpoint, Save, Encode, LoadTemporalIndex, FindStep,
         FindPanics, FindReturns, Rewind, RewindReturns, RewindTo

LEMMA ReservedSlots ==
    ASSUME RegionInv, NEW v \in reservations
    PROVE  v.slot \in Slots
  BY DEF RegionInv, RegionTypeOK, Reservations

LEMMA SourceSteps ==
    ASSUME SourceInv, [TemporalNext]_temporalVars
    PROVE  SourceInv'
  <1> USE DEF SourceInv
  <1>1. CASE UNCHANGED <<sourceVars, now>>
    <2>1. RegionInv'
      BY <1>1, RegionSame DEF sourceVars
    <2> QED  BY <1>1, <2>1 DEF sourceVars, regionVars
  <1>2. CASE Tick
    <2>1. UNCHANGED sourceVars /\ now' \in 1 .. MaxTime
      BY <1>2, TemporalAssumption DEF Tick
    <2>2. RegionInv'
      BY <2>1, RegionSame DEF sourceVars
    <2> QED  BY <2>1, <2>2 DEF sourceVars, regionVars
  <1>3. CASE Writes
    <2>1. StoreStep /\ UNCHANGED <<versions, now>>
      BY <1>3 DEF Writes
    <2>2. RegionInv'
      BY <2>1, StoreStepKeeps
    <2>3. UNCHANGED fill
      BY <2>1, FillFacts DEF FillStep
    <2> QED  BY <2>1, <2>2, <2>3
  <1>4. CASE TriggerDrain
    <2>1. /\ SwitchAndDrain /\ fill < MaxFills /\ fill' = fill + 1
          /\ versions' = [s \in Slots |-> 0] /\ UNCHANGED now
      BY <1>4 DEF TriggerDrain, SwitchAndDrain
    <2>2. RegionInv'
      BY <2>1, SwitchKeeps
    <2>3. fill \in Nat
      BY DEF RegionInv, RegionTypeOK
    <2> QED  BY <2>1, <2>2, <2>3, TemporalAssumption
  <1>5. CASE Restart
    <2>1. /\ NewRegions /\ fill < MaxFills /\ fill' = fill + 1
          /\ versions' = [s \in Slots |-> 0] /\ UNCHANGED now
      BY <1>5 DEF Restart, NewRegions
    <2>2. RegionInv'
      BY <2>1, NewRegionsKeep
    <2>3. fill \in Nat
      BY DEF RegionInv, RegionTypeOK
    <2> QED  BY <2>1, <2>2, <2>3, TemporalAssumption
  <1>6. ASSUME NEW v \in reservations, NEW q \in Rooms, NEW t \in Times,
               NEW h \in Hashes, WriteEntry(v, q, t, h)
        PROVE  SourceInv'
    <2>1. /\ FillFields(v, q, t, h) /\ UNCHANGED <<fill, now>>
          /\ versions' = [versions EXCEPT ![v.slot] = @ + 1]
      BY <1>6 DEF WriteEntry, FillFields
    <2>2. RegionInv'
      BY <2>1, FillFieldsKeeps
    <2>3. versions' \in [Slots -> Nat]
      <3>1. v.slot \in Slots
        BY ReservedSlots
      <3>2. PICK s \in Slots : s = v.slot
        BY <3>1
      <3>3. versions' = [versions EXCEPT ![s] = versions[s] + 1]
            /\ versions[s] + 1 \in Nat
        BY <2>1, <3>2
      <3> QED  BY <3>3
    <2> QED  BY <2>1, <2>2, <2>3
  <1> QED  BY <1>1, <1>2, <1>3, <1>4, <1>5, <1>6, SourceFrame

-----------------------------------------------------------------------------
(* Exports *)

Origins == [fill : Nat, version : Nat]

ExportInv ==
    /\ xpc \in {"idle", "create", "entry"} /\ name \in Names
    /\ count \in 0 .. MaxSlots /\ x_i \in 0 .. count
    /\ origin \in [Names -> Seq(Origins)]
    /\ \A n \in Names : Len(origin[n]) <= Len(file[n].recs)
    /\ xpc = "entry" => /\ file[name].form = "chunk" /\ file[name].tail = <<>>
                        /\ file[name].count = count
                        /\ Len(file[name].recs) = x_i /\ Len(origin[name]) = x_i

LEMMA ExportInvIs ==
    /\ FileInv /\ ExportInv => FilesInv
  BY DEF FileInv, ExportInv, FilesInv, Sound

LEMMA ZeroName == 0 \in Names
  <1>1. 0 \in 0 .. MaxTime /\ 0 \div Second = 0
    BY TemporalAssumption
  <1> QED  BY <1>1, TemporalAssumption

LEMMA ChunkFrame ==
    ASSUME [TemporalNext]_temporalVars
    PROVE  \/ UNCHANGED <<chunkVars, exportVars, origin>>
           \/ Chunks
           \/ Restart
           \/ \E m \in Names : ExportChunk(m)
           \/ ExportCreate
           \/ ExportEntry
           \/ ExportReturns
           \/ Rewind
  BY DEF TemporalNext, temporalVars, ExportStep, CheckpointStep, RewindStep,
         Tick, Writes, WriteEntry, TriggerDrain, CreateCheckpoint,
         CheckpointCount, CheckpointHash, DropOldest, AppendCheckpoint, Save,
         Encode, LoadTemporalIndex, FindStep, FindPanics, FindReturns,
         RewindReturns, RewindTo

\* The record of an entry, as it is exported.
Record(e) == [id |-> e.state_hash, room |-> e.room_id,
              data |-> IF e.data = None THEN "none" ELSE "hit"]

LEMMA RecordIs ==
    ASSUME NEW e \in Entry
    PROVE  Record(e) \in Records
  BY SlotsAssumption DEF Record, Entry, Records

\* What ExportEntry does to the file.
LEMMA EntryFacts ==
    ASSUME ChunkInv, SourceInv, ExportInv, ExportEntry
    PROVE  /\ x_i \in Slots /\ Record(At(fill, x_i)) \in Records
           /\ file[name].recs \in Seq(Records) /\ Len(file[name].recs) = x_i
           /\ file' = [file EXCEPT ![name] =
                  [form |-> "chunk", count |-> count, tail |-> <<>>,
                   recs |-> Append(file[name].recs, Record(At(fill, x_i)))]]
           /\ x_i < count /\ x_i \in Nat
           /\ origin' = [origin EXCEPT ![name] =
                  Append(@, [fill |-> fill, version |-> versions[x_i]])]
           /\ Exporting("entry", name, count, x_i + 1)
           /\ UNCHANGED <<puts, loadVars, sourceVars>>
  <1>1. /\ xpc = "entry" /\ x_i < count
        /\ Exporting("entry", name, count, x_i + 1)
        /\ UNCHANGED <<puts, loadVars, sourceVars>>
        /\ origin' = [origin EXCEPT ![name] =
               Append(@, [fill |-> fill, version |-> versions[x_i]])]
        /\ file' = [file EXCEPT ![name].recs = Append(@, Record(At(fill, x_i)))]
    BY DEF ExportEntry, More, Record
  <1>2. /\ name \in Names /\ count \in 0 .. MaxSlots /\ x_i \in 0 .. count
        /\ file[name].form = "chunk" /\ file[name].tail = <<>>
        /\ file[name].count = count /\ Len(file[name].recs) = x_i
    BY <1>1 DEF ExportInv
  <1>3. x_i \in Slots /\ x_i \in Nat
    BY <1>1, <1>2, SlotsAssumption DEF Slots
  <1>4. Record(At(fill, x_i)) \in Records
    <2>1. At(fill, x_i) \in Entry
      <3>1. RegionTypeOK /\ fill \in Nat
        BY DEF SourceInv, RegionInv, RegionTypeOK
      <3> QED  BY <1>3, <3>1, EntryAt
    <2> QED  BY <2>1, RecordIs
  <1>5. file[name] \in Contents /\ file[name].recs \in Seq(Records)
        /\ file \in [Names -> Contents]
    BY <1>2 DEF ChunkInv, FileInv, Contents
  <1>6. PICK f \in Contents, r \in Records :
            f = file[name] /\ r = Record(At(fill, x_i))
    BY <1>4, <1>5
  <1>7. file' = [file EXCEPT ![name] = [f EXCEPT !.recs = Append(f.recs, r)]]
    BY <1>1, <1>6
  <1>8. [f EXCEPT !.recs = Append(f.recs, r)] =
            [form |-> "chunk", count |-> count, tail |-> <<>>,
             recs |-> Append(f.recs, r)]
    <2>1. f.form = "chunk" /\ f.count = count /\ f.tail = <<>>
      BY <1>2, <1>6
    <2>2. PICK u : u = Append(f.recs, r)
      OBVIOUS
    <2>3. [f EXCEPT !.recs = u] =
              [form |-> "chunk", count |-> count, tail |-> <<>>, recs |-> u]
      BY <2>1 DEF Contents
    <2> QED  BY <2>2, <2>3
  <1>9. file' = [file EXCEPT ![name] =
                  [form |-> "chunk", count |-> count, tail |-> <<>>,
                   recs |-> Append(file[name].recs, Record(At(fill, x_i)))]]
    BY <1>6, <1>7, <1>8
  <1> QED  BY <1>1, <1>2, <1>3, <1>4, <1>5, <1>9

LEMMA Appended ==
    ASSUME NEW T, NEW s \in Seq(T), NEW e \in T
    PROVE  /\ Append(s, e) \in Seq(T) /\ Len(Append(s, e)) = Len(s) + 1
           /\ Len(s) \in Nat
           /\ \A j \in 1 .. Len(s) : Append(s, e)[j] = s[j]
           /\ Append(s, e)[Len(s) + 1] = e
  BY AppendProperties, LenProperties

LEMMA ExportFileIs ==
    ASSUME NEW c \in Nat, NEW r \in Seq(Records), Len(r) <= c, NEW f,
           f = [form |-> "chunk", count |-> c, tail |-> <<>>, recs |-> r]
    PROVE  Sound(f)
  <1>1. <<>> \in Seq(Records) /\ Len(<<>>) = 0 /\ Len(r) \in Nat
    BY LenProperties
  <1>2. /\ f.tail = <<>> /\ f.recs = r /\ f.count = c
    OBVIOUS
  <1>3. Len(f.tail) <= 1 /\ Len(f.recs) + Len(f.tail) <= f.count
    BY <1>1, <1>2
  <1>4. f \in Contents
    BY <1>1 DEF Contents
  <1> QED  BY <1>3, <1>4 DEF Sound

LEMMA ExportsSound ==
    ASSUME ChunkInv, SourceInv, ExportInv, ExportCreate \/ ExportEntry
    PROVE  \E f : /\ Sound(f) /\ file' = [file EXCEPT ![name] = f]
                  /\ UNCHANGED <<puts, loadVars>>
  <1>1. count \in Nat /\ name \in Names
    BY SlotsAssumption DEF ExportInv
  <1>2. CASE ExportCreate
    <2>1. file' = [file EXCEPT ![name] = [form |-> "chunk", count |-> count,
                       tail |-> <<>>, recs |-> <<>>]]
          /\ UNCHANGED <<puts, loadVars>>
      BY <1>2 DEF ExportCreate
    <2>2. <<>> \in Seq(Records) /\ Len(<<>>) <= count
      BY <1>1
    <2> QED  BY <1>1, <2>1, <2>2, ExportFileIs
  <1>3. CASE ExportEntry
    <2>1. PICK s \in Seq(Records), e \in Records :
             /\ s = file[name].recs /\ e = Record(At(fill, x_i))
             /\ Len(s) = x_i
             /\ file' = [file EXCEPT ![name] =
                   [form |-> "chunk", count |-> count, tail |-> <<>>,
                    recs |-> Append(s, e)]]
             /\ UNCHANGED <<puts, loadVars>> /\ x_i < count /\ x_i \in Nat
      BY <1>3, EntryFacts
    <2>2. PICK u \in Seq(Records) : u = Append(s, e) /\ Len(u) = Len(s) + 1
      BY Appended
    <2>3. Len(u) <= count
      BY <1>1, <2>1, <2>2
    <2> QED  BY <1>1, <2>1, <2>2, <2>3, ExportFileIs
  <1> QED  BY <1>2, <1>3

LEMMA ChunkSteps ==
    ASSUME ChunkInv, SourceInv, ExportInv, [TemporalNext]_temporalVars,
           Rewind => ChunkID(nearest[1]) \in Names
    PROVE  ChunkInv'
  <1>1. CASE UNCHANGED <<chunkVars, exportVars, origin>> \/ ExportReturns
    <2>1. UNCHANGED chunkVars
      BY <1>1 DEF ExportReturns
    <2> QED
      BY <2>1 DEF chunkVars, loadVars, entryVars, mapVars, ChunkInv, EntriesInv,
                  FileInv, MapInv, EntriesOfOneFile, MappingsPaired, Sound
  <1>2. CASE Chunks
    BY <1>2, ChunkNextKeeps DEF Chunks
  <1>3. CASE Restart
    <2>1. /\ LoadedChunkEntries' = <<>> /\ chunkLoaded' = FALSE
          /\ LoadedIndexEntries' = <<>> /\ source' = Absent /\ read' = FALSE
          /\ mmap' = 0 /\ mappings' = {} /\ mapped' = FALSE /\ doubled' = FALSE
          /\ UNCHANGED <<file, puts, maps>>
      BY <1>3 DEF Restart
    <2>2. EntriesOfOneFile'
      <3>1. /\ 0 \in 0 .. Len(<<>>) /\ \A b \in 0 + 1 .. Len(<<>>) : FALSE
        BY NoEntries
      <3> QED  BY <2>1, <3>1, NoEntries, Zenon DEF EntriesOfOneFile
    <2>3. EntriesInv'
      BY <2>1, <2>2, NoEntries DEF EntriesInv
    <2>4. FileInv'
      BY <2>1, NoEntries DEF ChunkInv, FileInv, Sound
    <2>5. MapInv'
      <3>1. 0 \in 0 .. maps /\ maps \in 0 .. MaxMaps
        BY LoadBoundsAssumption DEF ChunkInv, MapInv
      <3> QED  BY <2>1, <3>1 DEF MapInv, MappingsPaired
    <2> QED  BY <2>3, <2>4, <2>5 DEF ChunkInv
  <1>4. ASSUME UNCHANGED loadVars, FileInv' PROVE ChunkInv'
    BY <1>4 DEF ChunkInv, loadVars, entryVars, mapVars, EntriesInv, MapInv,
                EntriesOfOneFile, MappingsPaired
  <1>5. ASSUME NEW m \in Names, ExportChunk(m) PROVE ChunkInv'
    <2>1. puts < MaxPuts /\ puts' = puts + 1 /\ UNCHANGED <<file, loadVars>>
      BY <1>5 DEF ExportChunk
    <2>2. puts' \in 0 .. MaxPuts
      BY <2>1, LoadBoundsAssumption DEF ChunkInv, FileInv
    <2>3. FileInv'
      BY <2>1, <2>2 DEF ChunkInv, FileInv, Sound, loadVars
    <2> QED  BY <1>4, <2>1, <2>3
  <1>6. CASE ExportCreate \/ ExportEntry
    <2>1. PICK f : /\ Sound(f) /\ file' = [file EXCEPT ![name] = f]
                   /\ UNCHANGED <<puts, loadVars>>
      BY <1>6, ExportsSound
    <2>2. \A n \in Names : Sound(file'[n])
      BY <2>1 DEF ChunkInv, FileInv
    <2>3. file' \in [Names -> Contents]
      BY <2>1 DEF ChunkInv, FileInv, Sound
    <2>4. FileInv'
      BY <2>1, <2>2, <2>3 DEF ChunkInv, FileInv, Sound, loadVars
    <2> QED  BY <1>4, <2>1, <2>4
  <1>7. CASE Rewind
    BY <1>7, ChunkNextKeeps DEF Rewind, ChunkNext
  <1> QED  BY <1>1, <1>2, <1>3, <1>5, <1>6, <1>7, ChunkFrame

LEMMA ExportSteps ==
    ASSUME ChunkInv, SourceInv, ExportInv, [TemporalNext]_temporalVars
    PROVE  ExportInv'
  <1>0. /\ 0 \in Names /\ 0 \in 0 .. MaxSlots /\ 0 \in 0 .. 0 /\ MaxSlots \in Nat
        /\ <<>> \in Seq(Origins) /\ Len(<<>>) = 0
    BY ZeroName, SlotsAssumption
  <1>1. CASE UNCHANGED <<chunkVars, exportVars, origin>> \/ Rewind
    <2>1. UNCHANGED <<file, exportVars, origin>>
      BY <1>1 DEF Rewind, LoadChunk, chunkVars
    <2> QED  BY <2>1 DEF ExportInv, exportVars
  <1>2. CASE Chunks
    <2>1. /\ UNCHANGED exportVars
          /\ xpc = "entry" => file'[name] = file[name]
          /\ origin' = [n \in Names |->
                           IF file'[n] = file[n] THEN origin[n] ELSE <<>>]
      BY <1>2 DEF Chunks
    <2>2. \A n \in Names :
             \/ file'[n] = file[n] /\ origin'[n] = origin[n]
             \/ origin'[n] = <<>>
      BY <2>1
    <2>3. origin' \in [Names -> Seq(Origins)]
      BY <1>0, <2>1 DEF ExportInv
    <2>4. ASSUME NEW n \in Names PROVE Len(origin'[n]) <= Len(file'[n].recs)
      <3>1. CASE file'[n] = file[n] /\ origin'[n] = origin[n]
        BY <3>1 DEF ExportInv
      <3>2. CASE origin'[n] = <<>>
        <4>1. ChunkInv'
          BY <1>2, ChunkNextKeeps DEF Chunks
        <4>2. file'[n].recs \in Seq(Records)
          BY <4>1 DEF ChunkInv, FileInv, Contents
        <4>3. Len(file'[n].recs) \in Nat
          BY <4>2, LenProperties
        <4> QED  BY <1>0, <3>2, <4>3
      <3> QED  BY <2>2, <3>1, <3>2
    <2>5. xpc' = "entry" => origin'[name'] = origin[name] /\ file'[name'] = file[name]
      <3>1. xpc' = xpc /\ name' = name /\ name \in Names
        BY <2>1 DEF exportVars, ExportInv
      <3>2. xpc = "entry" => file'[name] = file[name]
        BY <1>2 DEF Chunks
      <3>3. file'[name] = file[name] => origin'[name] = origin[name]
        BY <2>1, <3>1
      <3> QED  BY <3>1, <3>2, <3>3
    <2> QED  BY <2>1, <2>3, <2>4, <2>5 DEF ExportInv, exportVars
  <1>3. CASE Restart \/ ExportReturns
    <2>1. UNCHANGED <<file, origin>> /\ Exporting("idle", 0, 0, 0)
      BY <1>3 DEF Restart, ExportReturns, chunkVars
    <2> QED  BY <1>0, <2>1 DEF ExportInv, Exporting
  <1>4. ASSUME NEW m \in Names, ExportChunk(m) PROVE ExportInv'
    <2>1. UNCHANGED <<file, origin>> /\ Exporting("create", m, committed, 0)
      BY <1>4 DEF ExportChunk
    <2>2. committed \in 0 .. MaxSlots /\ 0 \in 0 .. committed
      BY Committed DEF SourceInv, RegionInv
    <2> QED  BY <2>1, <2>2 DEF ExportInv, Exporting
  <1>5. CASE ExportCreate
    <2>1. PICK f : /\ f = [form |-> "chunk", count |-> count, recs |-> <<>>,
                           tail |-> <<>>]
                   /\ file' = [file EXCEPT ![name] = f]
                   /\ origin' = [origin EXCEPT ![name] = <<>>]
                   /\ Exporting("entry", name, count, 0)
      BY <1>5 DEF ExportCreate
    <2>2. /\ file'[name] = f /\ origin'[name] = <<>>
          /\ \A n \in Names \ {name} : file'[n] = file[n] /\ origin'[n] = origin[n]
      BY <2>1 DEF ExportInv, ChunkInv, FileInv
    <2>3. origin' \in [Names -> Seq(Origins)]
      BY <1>0, <2>1 DEF ExportInv
    <2>4. \A n \in Names : Len(origin'[n]) <= Len(file'[n].recs)
      BY <1>0, <2>1, <2>2 DEF ExportInv
    <2>5. /\ xpc' = "entry" /\ name' = name /\ count' = count /\ x_i' = 0
          /\ name \in Names /\ count \in 0 .. MaxSlots
      BY <2>1 DEF Exporting, ExportInv
    <2>6. 0 \in 0 .. count
      BY <2>5
    <2> QED  BY <1>0, <2>1, <2>2, <2>3, <2>4, <2>5, <2>6 DEF ExportInv
  <1>6. CASE ExportEntry
    <2>0. PICK s \in Seq(Records), e \in Records :
             /\ s = file[name].recs /\ e = Record(At(fill, x_i))
             /\ Len(s) = x_i
             /\ file' = [file EXCEPT ![name] =
                   [form |-> "chunk", count |-> count, tail |-> <<>>,
                    recs |-> Append(s, e)]]
      BY <1>6, EntryFacts
    <2>1. PICK f : /\ f = [form |-> "chunk", count |-> count, tail |-> <<>>,
                           recs |-> Append(s, e)]
                   /\ file' = [file EXCEPT ![name] = f]
      BY <2>0
    <2>2. /\ x_i \in Nat /\ x_i < count /\ x_i \in Slots
          /\ Exporting("entry", name, count, x_i + 1)
      BY <1>6, EntryFacts
    <2>3. PICK o \in Origins :
             origin' = [origin EXCEPT ![name] = Append(@, o)]
      <3>1. [fill |-> fill, version |-> versions[x_i]] \in Origins
        BY <2>2 DEF SourceInv, RegionInv, RegionTypeOK, Origins
      <3> QED  BY <1>6, <3>1, EntryFacts
    <2>4. PICK q \in Seq(Origins) : q = origin[name] /\ Len(q) = x_i
      BY <1>6 DEF ExportInv, ExportEntry
    <2>5. /\ Append(s, e) \in Seq(Records) /\ Len(Append(s, e)) = x_i + 1
          /\ Append(q, o) \in Seq(Origins) /\ Len(Append(q, o)) = x_i + 1
      BY <2>0, <2>4, Appended
    <2>6. /\ file'[name] = f /\ origin'[name] = Append(q, o)
          /\ \A n \in Names \ {name} : file'[n] = file[n] /\ origin'[n] = origin[n]
      BY <2>1, <2>3, <2>4 DEF ExportInv, ChunkInv, FileInv
    <2>7. origin' \in [Names -> Seq(Origins)]
      BY <2>3, <2>4, <2>5 DEF ExportInv
    <2>8. f.recs = Append(s, e) /\ f.form = "chunk" /\ f.tail = <<>> /\ f.count = count
      BY <2>1
    <2>9. ASSUME NEW n \in Names PROVE Len(origin'[n]) <= Len(file'[n].recs)
      <3>1. CASE n = name
        BY <2>2, <2>5, <2>6, <2>8, <3>1
      <3>2. CASE n # name
        BY <2>6, <3>2 DEF ExportInv
      <3> QED  BY <3>1, <3>2
    <2>10. /\ xpc' = "entry" /\ name' = name /\ count' = count /\ x_i' = x_i + 1
           /\ name \in Names /\ count \in 0 .. MaxSlots
      BY <2>2 DEF Exporting, ExportInv
    <2>11. x_i' \in 0 .. count
      BY <2>2, <2>10
    <2> QED  BY <2>5, <2>6, <2>7, <2>8, <2>9, <2>10, <2>11 DEF ExportInv
  <1> QED  BY <1>1, <1>2, <1>3, <1>4, <1>5, <1>6, ChunkFrame

-----------------------------------------------------------------------------
(* Integers *)

LEMMA IntsAre ==
    /\ MaxInt \in Nat \ {0} /\ MinInt \in Int /\ MinInt = -MaxInt - 1
    /\ 2 * (MaxInt + 1) \in Nat \ {0}
  BY TemporalAssumption DEF MinInt

LEMMA WrapInts ==
    ASSUME NEW x \in Int
    PROVE  Wrap(x) \in Ints
  <1>1. PICK m \in Nat \ {0} : m = 2 * (MaxInt + 1)
    BY IntsAre
  <1>2. PICK y \in Int : y = x - MinInt
    BY IntsAre
  <1>3. y % m \in 0 .. m - 1
    OBVIOUS
  <1>4. Wrap(x) = (y % m) + MinInt
    BY <1>1, <1>2 DEF Wrap
  <1>5. PICK z \in 0 .. m - 1 : z = y % m
    BY <1>3
  <1> QED  BY <1>1, <1>4, <1>5, IntsAre DEF Ints

LEMMA WrapSame ==
    ASSUME NEW x \in Ints
    PROVE  Wrap(x) = x
  <1>1. PICK m \in Nat \ {0} : m = 2 * (MaxInt + 1)
    BY IntsAre
  <1>2. PICK y \in 0 .. m - 1 : y = x - MinInt
    BY <1>1, IntsAre DEF Ints
  <1>3. y % m = y
    BY <1>2
  <1>4. Wrap(x) = (y % m) + MinInt
    BY <1>1, <1>2 DEF Wrap
  <1> QED  BY <1>2, <1>3, <1>4, IntsAre DEF Ints

LEMMA TimesAreInts ==
    ASSUME NEW c \in Checkpoints
    PROVE  c.Timestamp \in 0 .. MaxTime /\ c.Timestamp \in Ints
           /\ c.Timestamp \in Int
  BY IntsAre, TemporalAssumption DEF Checkpoints, Ints

LEMMA DiffInts ==
    ASSUME timestamp \in Ints, NEW c \in Checkpoints
    PROVE  Diff(c) \in Ints
  <1>1. PICK x, t \in Int : x = c.Timestamp /\ t = timestamp
    BY TimesAreInts, IntsAre DEF Ints
  <1>2. PICK d \in Ints : d = Wrap(x - t)
    BY WrapInts
  <1>3. d \in Int /\ -d \in Int
    BY IntsAre DEF Ints
  <1>4. Wrap(-d) \in Ints
    BY <1>3, WrapInts
  <1>5. Diff(c) = IF d < 0 THEN Wrap(-d) ELSE d
    BY <1>1, <1>2 DEF Diff
  <1> QED  BY <1>4, <1>5

\* A distance that fits the integers is what Diff gives.
LEMMA DiffIsDistance ==
    ASSUME timestamp \in Ints, NEW c \in Checkpoints,
           AbsDiff(c.Timestamp, timestamp) < MaxInt
    PROVE  Diff(c) = AbsDiff(c.Timestamp, timestamp)
  <1>1. PICK x, t \in Ints : x = c.Timestamp /\ t = timestamp
    BY TimesAreInts
  <1>2. x \in Int /\ t \in Int
    BY IntsAre DEF Ints
  <1>3. AbsDiff(x, t) < MaxInt
    BY <1>1
  <1>4. x - t \in Ints /\ t - x \in Ints
    BY <1>2, <1>3, IntsAre DEF Ints, AbsDiff
  <1>5. Wrap(x - t) = x - t /\ Wrap(t - x) = t - x
    BY <1>4, WrapSame
  <1>6. -(x - t) = t - x
    BY <1>2
  <1>7. Diff(c) = IF x - t < 0 THEN t - x ELSE x - t
    BY <1>1, <1>5, <1>6 DEF Diff
  <1> QED  BY <1>1, <1>2, <1>7 DEF AbsDiff

LEMMA ChunkNames ==
    ASSUME NEW c \in Checkpoints
    PROVE  ChunkID(c) \in Names
  BY TimesAreInts, TemporalAssumption DEF ChunkID

-----------------------------------------------------------------------------
(* Type correctness *)

IndexTypeOK ==
    /\ checkpoints \in Seq(Checkpoints)
    /\ maxCheckpoints \in {NewMax, RestoredMax}
    /\ kpc \in {"idle", "count", "hash", "add", "append", "save"}
    /\ cp \in Checkpoints
    /\ saved.form \in {"absent", "empty", "whole"}
    /\ saved.checkpoints \in Seq(Checkpoints) /\ made \in Seq(Checkpoints)

FindTypeOK ==
    /\ fpc \in {"idle", "scan", "found", "rewound", "panic"}
    /\ timestamp \in Ints /\ len \in Nat /\ f_i \in 0 .. len
    /\ minDiff \in Ints /\ nearest \in Seq(Checkpoints) /\ Len(nearest) <= 1
    /\ steady \in BOOLEAN

LEMMA NoCheckpointType == NoCheckpoint \in Checkpoints
  <1>1. 0 \in 0 .. MaxTime /\ 0 \in 0 .. MaxSlots
    BY TemporalAssumption, SlotsAssumption
  <1> QED  BY <1>1 DEF NoCheckpoint, Checkpoints

\* What a step may do to the index and to the checkpoint being made.
LEMMA IndexFrame ==
    ASSUME [TemporalNext]_temporalVars
    PROVE  \/ UNCHANGED indexVars
           \/ Restart
           \/ TriggerDrain
           \/ CheckpointStep
  BY DEF TemporalNext, temporalVars, indexVars, RewindStep, Tick, Writes,
         WriteEntry, Chunks, ExportStep, ExportChunk, ExportCreate, ExportEntry,
         ExportReturns, FindStep, FindPanics, FindReturns, Rewind,
         RewindReturns, RewindTo

LEMMA LookIs ==
    ASSUME SourceInv, NEW s \in Slots
    PROVE  /\ fill \in Nat /\ versions[s] \in Nat
           /\ At(fill, s).state_hash \in Nat /\ Look(s) \in Looks
  <1>1. RegionTypeOK /\ fill \in Nat /\ versions[s] \in Nat
    BY DEF SourceInv, RegionInv, RegionTypeOK
  <1>2. At(fill, s) \in Entry
    BY <1>1, EntryAt
  <1>3. At(fill, s).state_hash \in Nat
    BY <1>2, SlotsAssumption DEF Entry
  <1> QED  BY <1>1, <1>3 DEF Look, Looks

\* The state hash and its version are stored together.
LEMMA HashedIs ==
    ASSUME SourceInv, cp \in Checkpoints, CheckpointHash
    PROVE  \/ UNCHANGED cp /\ ~(cp.Offset - 1 \in Slots /\ Given(cp.Offset - 1))
           \/ \E s \in Slots :
                 /\ s = cp.Offset - 1
                 /\ cp' = [Timestamp |-> cp.Timestamp, Offset |-> cp.Offset,
                           StateHash |-> Look(s).hash, fill |-> cp.fill,
                           calm |-> cp.calm, version |-> Look(s).version]
  <1>1. CASE ~(cp.Offset - 1 \in Slots /\ Given(cp.Offset - 1))
    BY <1>1 DEF CheckpointHash
  <1>2. CASE cp.Offset - 1 \in Slots /\ Given(cp.Offset - 1)
    <2>1. PICK s \in Slots : s = cp.Offset - 1
      BY <1>2
    <2>2. PICK h, x : h = At(fill, s).state_hash /\ x = versions[s]
      OBVIOUS
    <2>3. PICK c \in Checkpoints : c = cp
      OBVIOUS
    <2>4. cp' = [cp EXCEPT !.StateHash = h, !.version = x]
      BY <1>2, <2>1, <2>2 DEF CheckpointHash
    <2>5. cp' = [Timestamp |-> c.Timestamp, Offset |-> c.Offset,
                 StateHash |-> h, fill |-> c.fill, calm |-> c.calm, version |-> x]
      BY <2>3, <2>4 DEF Checkpoints
    <2>6. h = Look(s).hash /\ x = Look(s).version
      BY <2>2 DEF Look
    <2> QED  BY <2>1, <2>3, <2>5, <2>6
  <1> QED  BY <1>1, <1>2

LEMMA HashedType ==
    ASSUME SourceInv, cp \in Checkpoints, CheckpointHash
    PROVE  cp' \in Checkpoints
  <1>1. CASE UNCHANGED cp
    BY <1>1
  <1>2. ASSUME NEW s \in Slots,
               cp' = [Timestamp |-> cp.Timestamp, Offset |-> cp.Offset,
                      StateHash |-> Look(s).hash, fill |-> cp.fill,
                      calm |-> cp.calm, version |-> Look(s).version]
        PROVE  cp' \in Checkpoints
    <2>1. PICK l \in Looks : l = Look(s)
      BY LookIs
    <2>2. l.hash \in Nat /\ l.version \in Nat
      BY DEF Looks
    <2>3. PICK h, x \in Nat : h = l.hash /\ x = l.version
      BY <2>2
    <2>4. cp' = [Timestamp |-> cp.Timestamp, Offset |-> cp.Offset,
                 StateHash |-> h, fill |-> cp.fill, calm |-> cp.calm, version |-> x]
      BY <1>2, <2>1, <2>3
    <2> QED  BY <2>4 DEF Checkpoints
  <1> QED  BY <1>1, <1>2, HashedIs

LEMMA IndexTypes ==
    ASSUME SourceInv, IndexTypeOK, [TemporalNext]_temporalVars,
           kpc = "add" => (Len(checkpoints) >= maxCheckpoints => checkpoints # <<>>)
    PROVE  IndexTypeOK'
  <1> USE DEF IndexTypeOK
  <1>0. <<>> \in Seq(Checkpoints)
    OBVIOUS
  <1>1. CASE UNCHANGED indexVars
    BY <1>1 DEF indexVars
  <1>2. CASE Restart
    BY <1>0, <1>2, NoCheckpointType DEF Restart
  <1>3. CASE TriggerDrain
    <2>1. cp' \in Checkpoints
      <3>1. PICK c \in Checkpoints : c = cp
        OBVIOUS
      <3>2. [c EXCEPT !.calm = FALSE] \in Checkpoints
        BY DEF Checkpoints
      <3> QED  BY <1>3, <3>1, <3>2 DEF TriggerDrain
    <2> QED  BY <1>3, <2>1 DEF TriggerDrain
  <1>4. CASE CreateCheckpoint
    <2>1. cp' = [Timestamp |-> now, Offset |-> 0, StateHash |-> 0,
                 fill |-> 0, calm |-> FALSE, version |-> 0]
      BY <1>4 DEF CreateCheckpoint, NoCheckpoint
    <2>2. now \in 0 .. MaxTime /\ 0 \in 0 .. MaxSlots
      BY TemporalAssumption, SlotsAssumption DEF SourceInv
    <2>3. cp' \in Checkpoints
      BY <2>1, <2>2 DEF Checkpoints
    <2> QED  BY <1>4, <2>3 DEF CreateCheckpoint
  <1>5. CASE CheckpointCount
    <2>1. committed \in 0 .. MaxSlots /\ fill \in Nat /\ cp.Timestamp \in 0 .. MaxTime
      BY Committed DEF SourceInv, RegionInv, RegionTypeOK, Checkpoints
    <2>2. PICK c, f, t : c = committed /\ f = fill /\ t = cp.Timestamp
      OBVIOUS
    <2>3. cp' = [Timestamp |-> t, Offset |-> c, StateHash |-> 0, fill |-> f,
                 calm |-> TRUE, version |-> 0]
      BY <1>5, <2>2 DEF CheckpointCount
    <2>4. cp' \in Checkpoints
      BY <2>1, <2>2, <2>3 DEF Checkpoints
    <2> QED  BY <1>5, <2>4 DEF CheckpointCount
  <1>6. CASE CheckpointHash
    <2>1. cp' \in Checkpoints
      BY <1>6, HashedType
    <2> QED  BY <1>6, <2>1 DEF CheckpointHash
  <1>7. CASE DropOldest
    <2>1. checkpoints' \in Seq(Checkpoints)
      <3>1. CASE Len(checkpoints) >= maxCheckpoints
        BY <1>7, <3>1, HeadTailProperties DEF DropOldest
      <3> QED  BY <1>7, <3>1 DEF DropOldest
    <2> QED  BY <1>7, <2>1 DEF DropOldest
  <1>8. CASE AppendCheckpoint
    <2>1. checkpoints' \in Seq(Checkpoints) /\ made' \in Seq(Checkpoints)
      BY <1>8, AppendProperties DEF AppendCheckpoint
    <2> QED  BY <1>8, <2>1, NoCheckpointType DEF AppendCheckpoint
  <1>9. CASE Save
    BY <1>0, <1>9 DEF Save
  <1>10. CASE Encode
    BY <1>10 DEF Encode
  <1>11. CASE LoadTemporalIndex
    BY <1>11 DEF LoadTemporalIndex
  <1> QED
    BY <1>1, <1>2, <1>3, <1>4, <1>5, <1>6, <1>7, <1>8, <1>9, <1>10, <1>11,
       IndexFrame DEF CheckpointStep

LEMMA FindTypes ==
    ASSUME FindTypeOK, checkpoints \in Seq(Checkpoints),
           [TemporalNext]_temporalVars
    PROVE  FindTypeOK'
  <1> USE DEF FindTypeOK
  <1>0. /\ <<>> \in Seq(Checkpoints) /\ Len(<<>>) = 0
        /\ MaxInt \in Ints /\ 0 \in Ints /\ Targets \subseteq Ints
        /\ Len(checkpoints) \in Nat
    BY IntsAre, TemporalAssumption, LenProperties DEF Ints
  <1>1. CASE UNCHANGED findVars
    BY <1>1 DEF findVars
  <1>2. ASSUME NEW place \in {"idle", "scan", "rewound"}, NEW t \in Ints,
               NEW l \in Nat, NEW c \in Seq(Checkpoints), Len(c) <= 1,
               Finding(place, t, l, c)
        PROVE  FindTypeOK'
    <2>1. /\ fpc' = place /\ timestamp' = t /\ len' = l /\ f_i' = 0
          /\ minDiff' = MaxInt /\ nearest' = c /\ steady' = (place = "scan")
      BY <1>2 DEF Finding
    <2>2. 0 \in 0 .. l /\ steady' \in BOOLEAN
      BY <2>1
    <2> QED  BY <1>0, <1>2, <2>1, <2>2
  <1>3. CASE Restart
    <2>1. Finding("idle", 0, 0, <<>>)
      BY <1>3 DEF Restart
    <2>2. 0 \in Nat /\ Len(<<>>) <= 1
      BY <1>0
    <2> QED  BY <1>0, <1>2, <2>1, <2>2
  <1>4. ASSUME NEW t \in Targets, RewindTo(t) PROVE FindTypeOK'
    <2>1. PICK l \in Nat : l = Len(checkpoints)
      BY <1>0
    <2>2. Finding("scan", t, l, <<>>)
      BY <1>4, <2>1 DEF RewindTo
    <2>3. t \in Ints /\ Len(<<>>) <= 1
      BY <1>0
    <2> QED  BY <1>0, <1>2, <2>2, <2>3
  <1>5. CASE Rewind \/ RewindReturns
    <2>1. PICK c \in Seq(Checkpoints) : c = nearest /\ Len(c) <= 1
      OBVIOUS
    <2>2. Finding("rewound", 0, 0, c) \/ Finding("idle", 0, 0, <<>>)
      BY <1>5, <2>1 DEF Rewind, RewindReturns
    <2>3. 0 \in Nat /\ Len(<<>>) <= 1
      BY <1>0
    <2> QED  BY <1>0, <1>2, <2>1, <2>2, <2>3
  <1>6. CASE FindStep
    <2>1. f_i + 1 \in 1 .. Len(checkpoints) /\ f_i + 1 \in 0 .. len
      BY <1>0, <1>6 DEF FindStep
    <2>2. PICK c \in Checkpoints : c = checkpoints[f_i + 1]
      BY <2>1, ElementOfSeq
    <2>3. /\ \/ minDiff' = Diff(c) /\ nearest' = <<c>>
             \/ UNCHANGED <<minDiff, nearest>>
          /\ f_i' = f_i + 1 /\ UNCHANGED <<fpc, timestamp, len, steady>>
      BY <1>6, <2>2 DEF FindStep
    <2>4. Diff(c) \in Ints /\ <<c>> \in Seq(Checkpoints) /\ Len(<<c>>) = 1
      BY DiffInts
    <2>5. minDiff' \in Ints /\ nearest' \in Seq(Checkpoints) /\ Len(nearest') <= 1
      <3>1. CASE minDiff' = Diff(c) /\ nearest' = <<c>>
        <4>1. Len(nearest') = 1
          BY <2>4, <3>1, Zenon
        <4>2. minDiff' \in Ints /\ nearest' \in Seq(Checkpoints)
          BY <2>4, <3>1, Zenon
        <4> QED  BY <4>1, <4>2
      <3>2. CASE UNCHANGED <<minDiff, nearest>>
        BY <3>2
      <3> QED  BY <2>3, <3>1, <3>2
    <2>6. f_i' \in 0 .. len' /\ UNCHANGED <<fpc, timestamp, len, steady>>
      BY <2>1, <2>3
    <2> QED  BY <2>5, <2>6
  <1>7. CASE FindPanics \/ FindReturns
    BY <1>7 DEF FindPanics, FindReturns
  <1>8. CASE DropOldest
    BY <1>8 DEF DropOldest
  <1>9. \/ UNCHANGED findVars \/ Restart \/ Rewind \/ RewindReturns \/ FindStep
        \/ FindPanics \/ FindReturns \/ DropOldest \/ \E t \in Targets : RewindTo(t)
    BY DEF TemporalNext, temporalVars, findVars, CheckpointStep, RewindStep,
           Tick, Writes, WriteEntry, TriggerDrain, Chunks, ExportStep,
           ExportChunk, ExportCreate, ExportEntry, ExportReturns,
           CreateCheckpoint, CheckpointCount, CheckpointHash,
           AppendCheckpoint, Save, Encode, LoadTemporalIndex
  <1> QED  BY <1>1, <1>3, <1>4, <1>5, <1>6, <1>7, <1>8, <1>9

-----------------------------------------------------------------------------
(* The index *)

LEMMA MaximaAre ==
    ASSUME IndexTypeOK
    PROVE  /\ maxCheckpoints \in Nat \ {0} /\ maxCheckpoints <= RestoredMax
           /\ NewMax \in Nat \ {0} /\ RestoredMax \in Nat
           /\ Room \in Nat /\ Room <= maxCheckpoints
           /\ Len(checkpoints) \in Nat /\ Len(made) \in Nat
           /\ Len(saved.checkpoints) \in Nat
  <1>1. /\ maxCheckpoints \in Nat \ {0} /\ maxCheckpoints <= RestoredMax
        /\ NewMax \in Nat \ {0} /\ RestoredMax \in Nat
    BY TemporalAssumption DEF IndexTypeOK
  <1>2. /\ Len(checkpoints) \in Nat /\ Len(made) \in Nat
        /\ Len(saved.checkpoints) \in Nat
    BY LenProperties DEF IndexTypeOK
  <1>3. Room \in Nat /\ Room <= maxCheckpoints
    BY <1>1 DEF Room
  <1> QED  BY <1>1, <1>2, <1>3

LEMMA IndexFits ==
    ASSUME IndexTypeOK, IndexInv
    PROVE  Len(checkpoints) <= maxCheckpoints
  BY MaximaAre DEF IndexInv

LEMMA IndexNext ==
    ASSUME IndexTypeOK, IndexInv, [TemporalNext]_temporalVars
    PROVE  IndexInv'
  <1>0. /\ maxCheckpoints \in Nat \ {0} /\ maxCheckpoints <= RestoredMax
        /\ NewMax \in Nat \ {0} /\ RestoredMax \in Nat
        /\ Len(checkpoints) \in Nat /\ Len(made) \in Nat
        /\ Len(saved.checkpoints) \in Nat
        /\ Len(checkpoints) <= maxCheckpoints
    BY MaximaAre, IndexFits
  <1>1. ASSUME UNCHANGED <<checkpoints, maxCheckpoints, made>>,
               (kpc = "append") <=> (kpc' = "append"),
               Len(saved'.checkpoints) <= RestoredMax
        PROVE  IndexInv'
    <2>1. Room' = Room
      BY <1>1 DEF Room
    <2> QED  BY <1>1, <2>1 DEF IndexInv
  <1>2. CASE Restart
    <2>1. /\ checkpoints' = <<>> /\ made' = <<>> /\ maxCheckpoints' = NewMax
          /\ kpc' = "idle" /\ saved' = saved
      BY <1>2 DEF Restart
    <2>2. Room' = NewMax
      BY <2>1 DEF Room
    <2>3. Len(checkpoints') = 0 /\ Len(made') = 0
      BY <2>1
    <2>4. Len(checkpoints') = IF Len(made') <= Room' THEN Len(made') ELSE Room'
      BY <1>0, <2>2, <2>3
    <2> QED  BY <2>1, <2>3, <2>4 DEF IndexInv
  <1>3. CASE DropOldest
    <2>1. kpc = "add" /\ kpc' = "append" /\ UNCHANGED <<maxCheckpoints, made, saved>>
      BY <1>3 DEF DropOldest
    <2>2. Room = maxCheckpoints /\ Room' = maxCheckpoints - 1
      BY <2>1 DEF Room
    <2>3. CASE Len(checkpoints) >= maxCheckpoints
      <3>1. checkpoints' = Tail(checkpoints) /\ checkpoints # <<>>
        BY <1>0, <1>3, <2>3 DEF DropOldest
      <3>2. /\ Len(checkpoints') = Len(checkpoints) - 1
            /\ \A j \in 1 .. Len(checkpoints') : checkpoints'[j] = checkpoints[j + 1]
        BY <3>1, HeadTailProperties DEF IndexTypeOK
      <3>3. Len(checkpoints) = maxCheckpoints /\ Len(made) >= maxCheckpoints
        BY <1>0, <2>2, <2>3 DEF IndexInv
      <3>4. ASSUME NEW j \in 1 .. Len(checkpoints')
            PROVE  checkpoints'[j] = made[Len(made) - Len(checkpoints') + j]
        <4>1. j + 1 \in 1 .. Len(checkpoints)
          BY <1>0, <3>2
        <4>2. checkpoints[j + 1] = made[Len(made) - Len(checkpoints) + (j + 1)]
          BY <4>1 DEF IndexInv
        <4>3. Len(made) - Len(checkpoints) + (j + 1)
                  = Len(made) - Len(checkpoints') + j
          BY <1>0, <3>2
        <4> QED  BY <3>2, <4>2, <4>3
      <3>5. Len(checkpoints') = IF Len(made) <= Room' THEN Len(made) ELSE Room'
        BY <1>0, <2>2, <3>2, <3>3
      <3>6. Len(saved'.checkpoints) <= RestoredMax
        BY <2>1 DEF IndexInv
      <3> QED  BY <2>1, <3>4, <3>5, <3>6 DEF IndexInv
    <2>4. CASE ~(Len(checkpoints) >= maxCheckpoints)
      <3>1. checkpoints' = checkpoints
        BY <1>3, <2>4 DEF DropOldest
      <3>2. Len(checkpoints) = Len(made) /\ Len(made) <= maxCheckpoints - 1
        BY <1>0, <2>2, <2>4 DEF IndexInv
      <3>3. Len(checkpoints) = IF Len(made) <= Room' THEN Len(made) ELSE Room'
        BY <2>2, <3>2
      <3> QED  BY <2>1, <3>1, <3>3 DEF IndexInv
    <2> QED  BY <2>3, <2>4
  <1>4. CASE AppendCheckpoint
    <2>1. /\ kpc = "append" /\ kpc' = "idle" /\ UNCHANGED <<maxCheckpoints, saved>>
          /\ checkpoints' = Append(checkpoints, cp) /\ made' = Append(made, cp)
      BY <1>4 DEF AppendCheckpoint
    <2>2. Room = maxCheckpoints - 1 /\ Room' = maxCheckpoints
      BY <2>1 DEF Room
    <2>3. /\ Len(checkpoints') = Len(checkpoints) + 1
          /\ \A j \in 1 .. Len(checkpoints) : checkpoints'[j] = checkpoints[j]
          /\ checkpoints'[Len(checkpoints) + 1] = cp
      BY <2>1, AppendProperties DEF IndexTypeOK
    <2>4. /\ Len(made') = Len(made) + 1
          /\ \A j \in 1 .. Len(made) : made'[j] = made[j]
          /\ made'[Len(made) + 1] = cp
      BY <2>1, AppendProperties DEF IndexTypeOK
    <2>5. /\ Len(checkpoints) <= Len(made)
          /\ Len(checkpoints') = IF Len(made') <= Room' THEN Len(made') ELSE Room'
      BY <1>0, <2>2, <2>3, <2>4 DEF IndexInv
    <2>6. ASSUME NEW j \in 1 .. Len(checkpoints')
          PROVE  checkpoints'[j] = made'[Len(made') - Len(checkpoints') + j]
      <3>1. Len(made') - Len(checkpoints') + j = Len(made) - Len(checkpoints) + j
        BY <1>0, <2>3, <2>4
      <3>2. CASE j \in 1 .. Len(checkpoints)
        <4>1. /\ checkpoints'[j] = checkpoints[j]
              /\ checkpoints[j] = made[Len(made) - Len(checkpoints) + j]
          BY <2>3, <3>2 DEF IndexInv
        <4>2. Len(made) - Len(checkpoints) + j \in 1 .. Len(made)
          BY <1>0, <2>5, <3>2
        <4> QED  BY <2>4, <3>1, <4>1, <4>2
      <3>3. CASE j = Len(checkpoints) + 1
        <4>1. Len(made) - Len(checkpoints) + j = Len(made) + 1
          BY <1>0, <3>3
        <4> QED  BY <2>3, <2>4, <3>1, <3>3, <4>1
      <3> QED  BY <1>0, <2>3, <3>2, <3>3
    <2>7. Len(saved'.checkpoints) <= RestoredMax
      BY <2>1 DEF IndexInv
    <2> QED  BY <2>5, <2>6, <2>7 DEF IndexInv
  <1>5. CASE LoadTemporalIndex
    <2>1. /\ checkpoints' = saved.checkpoints /\ made' = saved.checkpoints
          /\ maxCheckpoints' = RestoredMax /\ kpc = "idle" /\ kpc' = "idle"
          /\ saved' = saved
      BY <1>5 DEF LoadTemporalIndex
    <2>2. Room' = RestoredMax
      BY <2>1 DEF Room
    <2>3. Len(saved.checkpoints) <= RestoredMax
      BY DEF IndexInv
    <2>4. Len(checkpoints') = IF Len(made') <= Room' THEN Len(made') ELSE Room'
      BY <2>1, <2>2, <2>3
    <2>5. ASSUME NEW j \in 1 .. Len(checkpoints')
          PROVE  checkpoints'[j] = made'[Len(made') - Len(checkpoints') + j]
      <3>1. Len(saved.checkpoints) - Len(saved.checkpoints) + j = j
        BY <1>0
      <3> QED  BY <2>1, <3>1
    <2> QED  BY <2>1, <2>3, <2>4, <2>5 DEF IndexInv
  <1>6. CASE UNCHANGED indexVars
    BY <1>1, <1>6 DEF indexVars, IndexInv
  <1>7. CASE TriggerDrain
    BY <1>1, <1>7 DEF TriggerDrain, IndexInv
  <1>8. CASE CreateCheckpoint \/ CheckpointCount \/ CheckpointHash
    BY <1>1, <1>8 DEF CreateCheckpoint, CheckpointCount, CheckpointHash,
       IndexInv
  <1>9. CASE Save
    <2>1. Len(saved'.checkpoints) = 0
      BY <1>9 DEF Save
    <2> QED  BY <1>0, <1>1, <1>9, <2>1 DEF Save
  <1>10. CASE Encode
    <2>1. Len(saved'.checkpoints) = Len(checkpoints)
      BY <1>10 DEF Encode
    <2>2. Len(saved'.checkpoints) <= RestoredMax
      BY <1>0, <2>1
    <2> QED  BY <1>1, <1>10, <2>2 DEF Encode
  <1> QED
    BY <1>2, <1>3, <1>4, <1>5, <1>6, <1>7, <1>8, <1>9, <1>10, IndexFrame
    DEF CheckpointStep

-----------------------------------------------------------------------------
(* State hashes *)


-----------------------------------------------------------------------------
(* State hashes *)

\* A slot keeps its state hash as long as it keeps fill and version.
Ages ==
    \/ fill < fill'
    \/ /\ fill' = fill
       /\ \A s \in Slots :
             /\ versions[s] <= versions'[s]
             /\ versions'[s] = versions[s] => Look(s)' = Look(s)

LEMMA SameHash ==
    ASSUME RegionTypeOK, UNCHANGED fill, NEW f \in Nat, NEW s \in Slots, NEW e,
           Store(f, s, e), e.state_hash = At(f, s).state_hash
    PROVE  \A t \in Slots : At(fill, t).state_hash' = At(fill, t).state_hash
  <1>1. f % 2 \in 0 .. 1 /\ fill % 2 \in 0 .. 1
    BY DEF RegionTypeOK
  <1>2. entries' = [entries EXCEPT ![f % 2][s] = e]
    BY DEF Store
  <1> SUFFICES ASSUME NEW t \in Slots
               PROVE  entries'[fill % 2][t].state_hash
                          = entries[fill % 2][t].state_hash
    BY DEF At
  <1>3. CASE fill % 2 = f % 2 /\ t = s
    <2>1. entries'[fill % 2][t] = e
      BY <1>1, <1>2, <1>3 DEF RegionTypeOK
    <2> QED  BY <1>3, <2>1 DEF At
  <1>4. CASE ~(fill % 2 = f % 2 /\ t = s)
    <2>1. entries'[fill % 2][t] = entries[fill % 2][t]
      BY <1>1, <1>2, <1>4 DEF RegionTypeOK
    <2> QED  BY <2>1
  <1> QED  BY <1>3, <1>4

SameHashes ==
    /\ fill' = fill
    /\ \A t \in Slots : At(fill, t).state_hash' = At(fill, t).state_hash

LEMMA StoreHashes == RegionInv /\ StoreStep => SameHashes
  <1> SUFFICES ASSUME RegionInv, StoreStep PROVE SameHashes
    OBVIOUS
  <1>1. RegionTypeOK
    BY DEF RegionInv
  <1>2. UNCHANGED <<fill, entries>> => SameHashes
    BY DEF SameHashes, At
  <1>3. ASSUME NEW w \in Writers, StoreFields(w) \/ StoreData(w)
        PROVE  SameHashes
    <2>1. wpc[w] # "idle" /\ UNCHANGED fill
      BY <1>3 DEF StoreFields, StoreData
    <2>2. PICK f \in Nat, s \in Slots : f = mine[w].fill /\ s = mine[w].slot
      BY <2>1, MineTypes
    <2>3. PICK d \in Entry : d = At(f, s)
      BY <1>1, EntryAt
    <2>4. PICK q, y : q = mine[w].room_id /\ y = Message(f, s)
      OBVIOUS
    <2>5. PICK e : /\ Store(f, s, e)
                   /\ \/ e = [room_id |-> q, timestamp |-> 0,
                              state_hash |-> d.state_hash, data |-> Torn]
                      \/ e = [d EXCEPT !.data = y]
      BY <1>3, <2>2, <2>3, <2>4 DEF StoreFields, StoreData
    <2>6. e.state_hash = d.state_hash
      BY <2>5 DEF Entry
    <2> QED  BY <1>1, <2>1, <2>3, <2>5, <2>6, SameHash DEF SameHashes
  <1>4. ASSUME NEW v \in reservations, FillData(v) PROVE SameHashes
    <2>1. v \in Reservations
      BY DEF RegionInv, RegionTypeOK
    <2>2. v.into \in Nat /\ v.slot \in Slots
      BY <1>4, <2>1 DEF Reservations, FillData
    <2>3. PICK f \in Nat, s \in Slots : f = v.into /\ s = v.slot
      BY <2>2
    <2>4. PICK d \in Entry : d = At(f, s)
      BY <1>1, EntryAt
    <2>5. PICK y : y = Filled(s)
      OBVIOUS
    <2>6. PICK e : Store(f, s, e) /\ e = [d EXCEPT !.data = y]
      BY <1>4, <2>3, <2>4, <2>5 DEF FillData
    <2>7. e.state_hash = d.state_hash
      BY <2>6 DEF Entry
    <2>8. UNCHANGED fill
      BY <1>4 DEF FillData
    <2> QED  BY <1>1, <2>4, <2>6, <2>7, <2>8, SameHash DEF SameHashes
  <1>5. ASSUME NEW w \in Writers, WriterStep(w) PROVE SameHashes
    <2>1. \/ StoreFields(w) \/ StoreData(w) \/ UNCHANGED <<fill, entries>>
      BY <1>5 DEF WriterStep, TakeSlot, Commit
    <2> QED  BY <1>2, <1>3, <2>1
  <1>6. ReserveSlot => SameHashes
    BY <1>2 DEF ReserveSlot
  <1> QED  BY <1>4, <1>5, <1>6 DEF StoreStep

LEMMA RegionAges ==
    ASSUME SourceInv, [TemporalNext]_temporalVars
    PROVE  Ages
  <1>1. fill \in Nat /\ \A s \in Slots : versions[s] \in Nat
    BY DEF SourceInv, RegionInv, RegionTypeOK
  <1>2. ASSUME SameHashes, UNCHANGED versions PROVE Ages
    <2>1. \A s \in Slots : Look(s)' = Look(s)
      BY <1>2 DEF SameHashes, Look
    <2>2. \A s \in Slots : versions[s] <= versions'[s]
      BY <1>1, <1>2
    <2> QED  BY <1>2, <2>1, <2>2 DEF Ages, SameHashes
  <1>3. CASE UNCHANGED <<sourceVars, now>> \/ Tick
    <2>1. UNCHANGED sourceVars
      BY <1>3 DEF Tick
    <2>2. SameHashes /\ UNCHANGED versions
      BY <2>1 DEF sourceVars, regionVars, SameHashes, At
    <2> QED  BY <1>2, <2>2
  <1>4. CASE Writes
    BY <1>2, <1>4, StoreHashes DEF Writes, SourceInv
  <1>5. CASE TriggerDrain \/ Restart
    <2>1. fill' = fill + 1
      BY <1>5 DEF TriggerDrain, Restart, SwitchAndDrain, NewRegions
    <2> QED  BY <1>1, <2>1 DEF Ages
  <1>6. ASSUME NEW v \in reservations, NEW q \in Rooms, NEW t \in Times,
               NEW h \in Hashes, WriteEntry(v, q, t, h)
        PROVE  Ages
    <2>1. PICK s \in Slots : s = v.slot
      BY ReservedSlots DEF SourceInv
    <2>2. PICK e : entries' = [entries EXCEPT ![fill % 2][s] = e]
      BY <1>6, <2>1 DEF WriteEntry, FillFields, Store
    <2>3. /\ fill' = fill /\ versions' = [versions EXCEPT ![s] = versions[s] + 1]
      BY <1>6, <2>1 DEF WriteEntry, FillFields
    <2>4. versions'[s] = versions[s] + 1
          /\ \A u \in Slots \ {s} : versions'[u] = versions[u]
      BY <2>3 DEF SourceInv
    <2>5. \A u \in Slots \ {s} : At(fill, u)' = At(fill, u)
      <3>1. fill % 2 \in 0 .. 1
        BY <1>1
      <3> QED  BY <2>2, <2>3, <3>1 DEF At, SourceInv, RegionInv, RegionTypeOK
    <2>6. ASSUME NEW u \in Slots
          PROVE  /\ versions[u] <= versions'[u]
                 /\ versions'[u] = versions[u] => Look(u)' = Look(u)
      <3>1. CASE u = s
        BY <1>1, <2>4, <3>1
      <3>2. CASE u # s
        <4>1. versions'[u] = versions[u] /\ At(fill, u)' = At(fill, u)
          BY <2>4, <2>5, <3>2
        <4> QED  BY <1>1, <2>3, <4>1 DEF Look
      <3> QED  BY <3>1, <3>2
    <2> QED  BY <2>3, <2>6 DEF Ages
  <1> QED  BY <1>3, <1>4, <1>5, <1>6, SourceFrame

LEMMA CurrentStays ==
    ASSUME SourceInv, SourceInv', Ages, NEW l \in Looks, Current(l)
    PROVE  Current(l)'
  <1>1. PICK f, s, v : f = l.fill /\ s = l.slot /\ v = l.version
    OBVIOUS
  <1>2. f \in Nat /\ s \in Slots /\ v \in Nat
    BY <1>1 DEF Looks
  <1>3. PICK a, b \in Nat : a = fill /\ b = fill'
    BY DEF SourceInv, RegionInv, RegionTypeOK
  <1>4. PICK x, y \in Nat : x = versions[s] /\ y = versions'[s]
    BY <1>2 DEF SourceInv
  <1>5. f <= a /\ (f = a => v <= x /\ (v = x => l = Look(s)))
    BY <1>1, <1>3, <1>4 DEF Current
  <1>6. \/ a < b
        \/ b = a /\ x <= y /\ (y = x => Look(s)' = Look(s))
    BY <1>2, <1>3, <1>4 DEF Ages
  <1>7. /\ f <= b
        /\ f = b => v <= y /\ (v = y => l = Look(s)')
    BY <1>2, <1>5, <1>6
  <1> QED  BY <1>1, <1>3, <1>4, <1>7 DEF Current

\* A look of this very step.
Looked(l) == UNCHANGED sourceVars /\ \E s \in Slots : l = Look(s)

LEMMA LookedIs ==
    ASSUME SourceInv, NEW l, Looked(l)
    PROVE  l \in Looks /\ Current(l)'
  <1>1. PICK s \in Slots : l = Look(s) /\ UNCHANGED sourceVars
    BY DEF Looked
  <1>2. l \in Looks /\ fill \in Nat /\ versions[s] \in Nat
    BY <1>1, LookIs
  <1>3. l.fill = fill /\ l.slot = s /\ l.version = versions[s]
    BY <1>1 DEF Look
  <1>4. fill' = fill /\ versions' = versions /\ Look(s)' = Look(s)
    BY <1>1 DEF sourceVars, regionVars, Look, At
  <1> QED  BY <1>1, <1>2, <1>3, <1>4 DEF Current

\* A look of this step and an earlier one of the same slot.
LEMMA LookedAgain ==
    ASSUME SourceInv, NEW l, Looked(l), NEW m \in Looks, Current(m),
           l.fill = m.fill, l.slot = m.slot, l.version = m.version
    PROVE  l = m
  <1>1. PICK s \in Slots : l = Look(s)
    BY DEF Looked
  <1>2. l.fill = fill /\ l.slot = s /\ l.version = versions[s]
    BY <1>1 DEF Look
  <1> QED  BY <1>1, <1>2 DEF Current

LEMMA LookedTwice ==
    ASSUME NEW l, Looked(l), NEW m, Looked(m), l.slot = m.slot
    PROVE  l = m
  <1>1. PICK s, t \in Slots : l = Look(s) /\ m = Look(t)
    BY DEF Looked
  <1>2. s = t
    BY <1>1 DEF Look
  <1> QED  BY <1>1, <1>2

InSeq(c, s) == \E j \in 1 .. Len(s) : c = s[j]

HeldParts ==
    \A c : c \in Held <=>
        \/ InSeq(c, checkpoints) \/ InSeq(c, saved.checkpoints)
        \/ InSeq(c, nearest) \/ (kpc \in {"add", "append"} /\ c = cp)

LEMMA HeldIs == IndexTypeOK /\ FindTypeOK => HeldParts
  <1> SUFFICES ASSUME IndexTypeOK, FindTypeOK, NEW c
               PROVE  c \in Held <=>
                        \/ InSeq(c, checkpoints) \/ InSeq(c, saved.checkpoints)
                        \/ InSeq(c, nearest) \/ (kpc \in {"add", "append"} /\ c = cp)
    BY DEF HeldParts
  <1>1. \A s \in Seq(Checkpoints) : c \in Range(s) <=> InSeq(c, s)
    BY DEF Range, InSeq
  <1>2. /\ checkpoints \in Seq(Checkpoints) /\ saved.checkpoints \in Seq(Checkpoints)
        /\ nearest \in Seq(Checkpoints)
    BY DEF IndexTypeOK, FindTypeOK
  <1>3. c \in UNION {Range(s) : s \in {checkpoints, saved.checkpoints, nearest}}
          <=> \/ c \in Range(checkpoints) \/ c \in Range(saved.checkpoints)
              \/ c \in Range(nearest)
    <2> DEFINE all == {Range(s) : s \in {checkpoints, saved.checkpoints, nearest}}
    <2>1. PICK x, y, z : x = checkpoints /\ y = saved.checkpoints /\ z = nearest
      OBVIOUS
    <2>2. all = {Range(s) : s \in {x, y, z}}
      BY <2>1
    <2>3. c \in UNION {Range(s) : s \in {x, y, z}}
            <=> c \in Range(x) \/ c \in Range(y) \/ c \in Range(z)
      BY Zenon
    <2> QED  BY <2>1, <2>2, <2>3
  <1>4. c \in Held <=>
           \/ c \in UNION {Range(s) : s \in {checkpoints, saved.checkpoints, nearest}}
           \/ kpc \in {"add", "append"} /\ c = cp
    BY Zenon DEF Held
  <1> QED  BY <1>1, <1>2, <1>3, <1>4

LEMMA InTail ==
    ASSUME NEW s \in Seq(Checkpoints), s # <<>>, NEW c, InSeq(c, Tail(s))
    PROVE  InSeq(c, s)
  <1>1. /\ Len(Tail(s)) = Len(s) - 1 /\ Len(s) \in Nat
        /\ \A j \in 1 .. Len(Tail(s)) : Tail(s)[j] = s[j + 1]
    BY HeadTailProperties, LenProperties
  <1>2. PICK j \in 1 .. Len(Tail(s)) : c = Tail(s)[j]
    BY DEF InSeq
  <1>3. j + 1 \in 1 .. Len(s) /\ c = s[j + 1]
    BY <1>1, <1>2
  <1> QED  BY <1>3 DEF InSeq

LEMMA InAppend ==
    ASSUME NEW s \in Seq(Checkpoints), NEW e \in Checkpoints, NEW c,
           InSeq(c, Append(s, e))
    PROVE  InSeq(c, s) \/ c = e
  <1> DEFINE t == Append(s, e)
  <1>1. /\ Len(t) = Len(s) + 1 /\ Len(s) \in Nat
        /\ \A j \in 1 .. Len(s) : t[j] = s[j]
        /\ t[Len(s) + 1] = e
    BY Appended
  <1>2. PICK j \in 1 .. Len(t) : c = t[j]
    BY DEF InSeq
  <1> HIDE DEF t
  <1>3. j \in 1 .. Len(s) \/ j = Len(s) + 1
    BY <1>1
  <1> QED  BY <1>1, <1>2, <1>3 DEF InSeq

LEMMA InFew ==
    /\ \A c : ~InSeq(c, <<>>)
    /\ \A c, e : InSeq(c, <<e>>) => c = e
  BY DEF InSeq

\* Checkpoints are passed on: a new one is only made with its hash.
LEMMA HeldStep ==
    ASSUME IndexTypeOK, FindTypeOK, IndexTypeOK', FindTypeOK',
           [TemporalNext]_temporalVars, NEW c \in Held'
    PROVE  c \in Held \/ (CheckpointHash /\ c = cp')
  <1>1. \A k : k \in Held <=>
            \/ InSeq(k, checkpoints) \/ InSeq(k, saved.checkpoints)
            \/ InSeq(k, nearest) \/ (kpc \in {"add", "append"} /\ k = cp)
    BY HeldIs DEF HeldParts
  <1>2. HeldParts'
    <2>1. (IndexTypeOK /\ FindTypeOK => HeldParts)'
      BY HeldIs, PTL
    <2> QED  BY <2>1
  <1>3. \/ InSeq(c, checkpoints') \/ InSeq(c, saved'.checkpoints)
        \/ InSeq(c, nearest') \/ (kpc' \in {"add", "append"} /\ c = cp')
    <2>1. \A k : k \in Held' <=>
            \/ InSeq(k, checkpoints') \/ InSeq(k, saved'.checkpoints)
            \/ InSeq(k, nearest') \/ (kpc' \in {"add", "append"} /\ k = cp')
      BY <1>2 DEF HeldParts, InSeq
    <2> QED  BY <2>1
  <1>4. ASSUME InSeq(c, checkpoints') PROVE c \in Held
    <2>1. CASE UNCHANGED checkpoints
      BY <1>1, <1>4, <2>1
    <2>2. CASE Restart
      BY <1>4, <2>2, InFew DEF Restart
    <2>3. CASE DropOldest
      <3>1. CASE Len(checkpoints) >= maxCheckpoints
        <4>1. checkpoints # <<>>
          BY <3>1, MaximaAre
        <4>2. InSeq(c, checkpoints)
          BY <1>4, <2>3, <3>1, <4>1, InTail DEF DropOldest, IndexTypeOK
        <4> QED  BY <1>1, <4>2
      <3>2. CASE ~(Len(checkpoints) >= maxCheckpoints)
        BY <2>1, <2>3, <3>2 DEF DropOldest
      <3> QED  BY <3>1, <3>2
    <2>4. CASE AppendCheckpoint
      <3>1. checkpoints' = Append(checkpoints, cp) /\ kpc = "append"
        BY <2>4 DEF AppendCheckpoint
      <3>2. PICK s \in Seq(Checkpoints), k \in Checkpoints : s = checkpoints /\ k = cp
        BY DEF IndexTypeOK
      <3>3. InSeq(c, Append(s, k))
        BY <1>4, <3>1, <3>2
      <3>4. InSeq(c, s) \/ c = k
        BY <3>3, InAppend
      <3> QED  BY <1>1, <3>1, <3>2, <3>4
    <2>5. CASE LoadTemporalIndex
      BY <1>1, <1>4, <2>5 DEF LoadTemporalIndex
    <2>6. UNCHANGED checkpoints \/ Restart \/ DropOldest \/ AppendCheckpoint
          \/ LoadTemporalIndex
      BY IndexFrame DEF indexVars, TriggerDrain, CheckpointStep,
         CreateCheckpoint,
         CheckpointCount, CheckpointHash, Save, Encode
    <2> QED  BY <2>1, <2>2, <2>3, <2>4, <2>5, <2>6
  <1>5. ASSUME InSeq(c, saved'.checkpoints) PROVE c \in Held
    <2>1. CASE UNCHANGED saved
      BY <1>1, <1>5, <2>1
    <2>2. CASE Save
      BY <1>5, <2>2, InFew DEF Save
    <2>3. CASE Encode
      BY <1>1, <1>5, <2>3 DEF Encode
    <2>4. UNCHANGED saved \/ Save \/ Encode
      BY IndexFrame DEF indexVars, Restart, TriggerDrain, CheckpointStep,
         CreateCheckpoint, CheckpointCount, CheckpointHash, DropOldest,
         AppendCheckpoint, LoadTemporalIndex
    <2> QED  BY <2>1, <2>2, <2>3, <2>4
  <1>6. ASSUME InSeq(c, nearest') PROVE c \in Held
    <2>1. CASE nearest' = nearest \/ nearest' = <<>>
      BY <1>1, <1>6, <2>1, InFew
    <2>2. CASE FindStep
      <3>1. nearest' = <<checkpoints[f_i + 1]>> \/ nearest' = nearest
        BY <2>2 DEF FindStep
      <3>2. f_i + 1 \in 1 .. Len(checkpoints)
        BY <2>2, MaximaAre DEF FindStep, FindTypeOK
      <3>3. CASE nearest' = <<checkpoints[f_i + 1]>>
        <4>1. c = checkpoints[f_i + 1]
          BY <1>6, <3>3, InFew
        <4> QED  BY <1>1, <3>2, <4>1 DEF InSeq
      <3> QED  BY <2>1, <3>1, <3>3
    <2>3. nearest' = nearest \/ nearest' = <<>> \/ FindStep
      BY DEF TemporalNext, temporalVars, findVars, CheckpointStep, RewindStep,
             Tick, Writes, WriteEntry, TriggerDrain, Restart, Chunks,
             ExportStep, ExportChunk, ExportCreate, ExportEntry, ExportReturns,
             CreateCheckpoint, CheckpointCount, CheckpointHash, DropOldest,
             AppendCheckpoint, Save, Encode, LoadTemporalIndex, FindPanics,
             FindReturns, Rewind, RewindReturns, RewindTo, Finding
    <2> QED  BY <2>1, <2>2, <2>3
  <1>7. ASSUME kpc' \in {"add", "append"}, c = cp'
        PROVE  c \in Held \/ CheckpointHash
    <2>1. \/ CheckpointHash
          \/ kpc \in {"add", "append"} /\ cp' = cp
      BY <1>7, IndexFrame DEF indexVars, Restart, TriggerDrain, CheckpointStep,
         CreateCheckpoint, CheckpointCount, DropOldest, AppendCheckpoint, Save,
         Encode, LoadTemporalIndex
    <2> QED  BY <1>1, <1>7, <2>1
  <1> QED  BY <1>3, <1>4, <1>5, <1>6, <1>7

\* The checkpoint being made, from its count to its hash.
Counted == (kpc = "hash" /\ cp.calm) => cp.fill = fill /\ cp.Offset <= committed

LEMMA CommittedNext ==
    ASSUME RegionInv'
    PROVE  committed' \in 0 .. MaxSlots
  <1>1. (RegionTypeOK => committed \in 0 .. MaxSlots)'
    BY Committed, PTL
  <1> QED  BY <1>1 DEF RegionInv

LEMMA CountedStays ==
    ASSUME SourceInv, SourceInv', IndexTypeOK, Counted, [TemporalNext]_temporalVars
    PROVE  Counted'
  <1>0. RegionInv /\ RegionTypeOK /\ RegionInv'
    BY DEF SourceInv, RegionInv
  <1>1. committed \in Nat /\ cp.Offset \in Nat
    BY <1>0, Committed, SlotsAssumption DEF IndexTypeOK, Checkpoints
  <1>2. CASE kpc' # "hash"
    BY <1>2 DEF Counted
  <1>3. CASE CheckpointCount
    <2>1. /\ cp'.fill = fill /\ cp'.Offset = committed
          /\ fill' = fill /\ committed' = committed
      BY <1>3 DEF CheckpointCount, sourceVars, regionVars, committed
    <2> QED  BY <1>1, <2>1 DEF Counted
  <1>4. CASE kpc' = "hash" /\ ~CheckpointCount /\ ~TriggerDrain
    <2>1. UNCHANGED <<kpc, cp>> /\ ~Restart
      BY <1>4, IndexFrame DEF indexVars, Restart, CheckpointStep,
         CreateCheckpoint, CheckpointHash, DropOldest, AppendCheckpoint, Save,
         Encode, LoadTemporalIndex
    <2>2. fill' = fill /\ committed <= committed'
      <3>1. CASE UNCHANGED <<sourceVars, now>> \/ Tick
        <4>1. fill' = fill /\ committed' = committed
          BY <3>1 DEF Tick, sourceVars, regionVars, committed
        <4> QED  BY <1>1, <4>1
      <3>2. CASE Writes
        BY <1>0, <3>2, FillFacts DEF Writes, FillStep
      <3>3. ASSUME NEW v \in reservations, NEW q \in Rooms, NEW t \in Times,
                   NEW h \in Hashes, WriteEntry(v, q, t, h)
            PROVE  fill' = fill /\ committed <= committed'
        <4>1. FillStep
          BY <3>3 DEF WriteEntry, FillStep
        <4> QED  BY <1>0, <4>1, FillFacts
      <3> QED  BY <1>4, <2>1, <3>1, <3>2, <3>3, SourceFrame
    <2>3. committed' \in Nat
      <3>1. committed' \in 0 .. MaxSlots
        BY <1>0, CommittedNext
      <3> QED  BY <3>1, SlotsAssumption
    <2>4. PICK x, y, z \in Nat :
             x = committed /\ y = committed' /\ z = cp.Offset
      BY <1>1, <2>3
    <2>5. z <= x => z <= y
      BY <2>2, <2>4
    <2> QED  BY <2>1, <2>2, <2>4, <2>5 DEF Counted
  <1>5. CASE TriggerDrain
    <2>1. kpc = "hash" => cp'.calm = FALSE
      BY <1>5 DEF TriggerDrain, IndexTypeOK, Checkpoints
    <2>2. kpc' = kpc
      BY <1>5 DEF TriggerDrain
    <2> QED  BY <2>1, <2>2 DEF Counted
  <1> QED  BY <1>2, <1>3, <1>4, <1>5

CheckpointLook(c) == [fill |-> c.fill, slot |-> c.Offset - 1,
                      version |-> c.version, hash |-> c.StateHash]

LEMMA TakenIs ==
    \A l : l \in Taken <=>
        \E c \in Held : c.calm /\ c.Offset > 0 /\ l = CheckpointLook(c)
  BY DEF Taken, CheckpointLook

\* A checkpoint takes a look only when it reads its hash.
LEMMA TakenStep ==
    ASSUME SourceInv, IndexTypeOK, FindTypeOK, IndexTypeOK', FindTypeOK',
           Counted, [TemporalNext]_temporalVars, NEW l \in Taken'
    PROVE  l \in Taken \/ Looked(l)
  <1>2. PICK c \in Held' : c.calm /\ c.Offset > 0 /\ l = CheckpointLook(c)
    BY DEF Taken, CheckpointLook
  <1>3. CASE c \in Held
    BY <1>2, <1>3, TakenIs
  <1>4. CASE CheckpointHash /\ c = cp'
    <2>1. cp \in Checkpoints /\ kpc = "hash" /\ UNCHANGED sourceVars
      BY <1>4 DEF IndexTypeOK, CheckpointHash
    <2>2. CASE ~(cp.Offset - 1 \in Slots /\ Given(cp.Offset - 1)) /\ cp' = cp
      <3>1. cp.Offset <= committed /\ cp.Offset > 0
        BY <1>2, <1>4, <2>1, <2>2 DEF Counted
      <3>2. cp.Offset \in 0 .. MaxSlots /\ committed \in 0 .. MaxSlots
        BY <2>1, Committed DEF Checkpoints, SourceInv, RegionInv
      <3>3. cp.Offset - 1 \in Slots /\ Given(cp.Offset - 1)
        BY <3>1, <3>2, SlotsAssumption DEF Slots, Given
      <3> QED  BY <2>2, <3>3
    <2>3. ASSUME NEW s \in Slots, s = cp.Offset - 1,
                 cp' = [Timestamp |-> cp.Timestamp, Offset |-> cp.Offset,
                        StateHash |-> Look(s).hash, fill |-> cp.fill,
                        calm |-> cp.calm, version |-> Look(s).version]
          PROVE  Looked(l)
      <3>1. PICK x, y : x = Look(s).hash /\ y = Look(s).version
        OBVIOUS
      <3>2. /\ c.calm = cp.calm /\ c.fill = cp.fill /\ c.Offset = cp.Offset
            /\ c.version = y /\ c.StateHash = x
        BY <1>4, <2>3, <3>1
      <3>3. cp.fill = fill
        BY <1>2, <2>1, <3>2 DEF Counted
      <3>4. l = [fill |-> fill, slot |-> s, version |-> y, hash |-> x]
        BY <1>2, <2>3, <3>2, <3>3 DEF CheckpointLook
      <3>5. Look(s) = [fill |-> fill, slot |-> s, version |-> y, hash |-> x]
        BY <3>1 DEF Look
      <3> QED  BY <2>1, <3>4, <3>5 DEF Looked
    <2> QED  BY <1>4, <2>1, <2>2, <2>3, HashedIs
  <1> QED  BY <1>3, <1>4, HeldStep

RecordLook(o, f, r) == [fill |-> o[r].fill, slot |-> r - 1,
                        version |-> o[r].version, hash |-> f.recs[r].id]

LEMMA NotedIs ==
    \A l : l \in Noted <=>
        \E n \in Names : \E r \in 1 .. Len(origin[n]) :
            l = RecordLook(origin[n], file[n], r)
  BY DEF Noted, RecordLook

\* An export takes a look only when it reads an entry.
LEMMA NotedStep ==
    ASSUME ChunkInv, SourceInv, ExportInv, [TemporalNext]_temporalVars,
           NEW l \in Noted'
    PROVE  l \in Noted \/ Looked(l)
  <1>1. PICK n \in Names : \E r \in 1 .. Len(origin'[n]) :
                               l = RecordLook(origin'[n], file'[n], r)
    BY DEF Noted, RecordLook
  <1>2. PICK r \in 1 .. Len(origin'[n]) : l = RecordLook(origin'[n], file'[n], r)
    BY <1>1
  <1>3. ASSUME origin'[n] = origin[n], file'[n] = file[n]
        PROVE  l \in Noted
    <2>1. l = RecordLook(origin[n], file[n], r) /\ r \in 1 .. Len(origin[n])
      BY <1>2, <1>3
    <2> QED  BY <2>1, NotedIs
  <1>4. origin'[n] # <<>>
    BY <1>2
  <1>5. CASE UNCHANGED <<chunkVars, exportVars, origin>> \/ Restart
             \/ ExportReturns \/ Rewind \/ \E m \in Names : ExportChunk(m)
    <2>1. UNCHANGED <<file, origin>>
      BY <1>5 DEF chunkVars, Restart, ExportReturns, Rewind, LoadChunk,
         ExportChunk
    <2> QED  BY <1>3, <2>1
  <1>6. CASE Chunks
    <2>1. origin' = [m \in Names |->
                        IF file'[m] = file[m] THEN origin[m] ELSE <<>>]
      BY <1>6 DEF Chunks
    <2>2. file'[n] = file[n] /\ origin'[n] = origin[n]
      BY <1>4, <2>1
    <2> QED  BY <1>3, <2>2
  <1>7. CASE ExportCreate
    <2>1. PICK f : /\ file' = [file EXCEPT ![name] = f]
                   /\ origin' = [origin EXCEPT ![name] = <<>>]
      BY <1>7 DEF ExportCreate
    <2>2. n # name
      BY <1>4, <2>1 DEF ExportInv
    <2>3. file'[n] = file[n] /\ origin'[n] = origin[n]
      BY <2>1, <2>2 DEF ExportInv, ChunkInv, FileInv
    <2> QED  BY <1>3, <2>3
  <1>8. CASE ExportEntry
    <2>0. PICK s \in Seq(Records), e \in Records :
             /\ s = file[name].recs /\ e = Record(At(fill, x_i))
             /\ Len(s) = x_i
             /\ file' = [file EXCEPT ![name] =
                   [form |-> "chunk", count |-> count, tail |-> <<>>,
                    recs |-> Append(s, e)]]
      BY <1>8, EntryFacts
    <2>1. PICK f : /\ f = [form |-> "chunk", count |-> count, tail |-> <<>>,
                           recs |-> Append(s, e)]
                   /\ file' = [file EXCEPT ![name] = f]
      BY <2>0
    <2>2. PICK o : /\ o = [fill |-> fill, version |-> versions[x_i]]
                   /\ origin' = [origin EXCEPT ![name] = Append(@, o)]
      BY <1>8, EntryFacts
    <2>3. /\ x_i \in Slots /\ x_i \in Nat /\ UNCHANGED sourceVars
      BY <1>8, EntryFacts
    <2>4. o \in Origins
      BY <2>2, <2>3, LookIs DEF Origins
    <2>5. PICK q \in Seq(Origins) : q = origin[name] /\ Len(q) = x_i
      BY <1>8 DEF ExportInv, ExportEntry
    <2>6. CASE n # name
      <3>1. file'[n] = file[n] /\ origin'[n] = origin[n]
        BY <2>1, <2>2, <2>6 DEF ExportInv, ChunkInv, FileInv
      <3> QED  BY <1>3, <3>1
    <2>7. CASE n = name
      <3>1. file'[n].recs = Append(s, e) /\ origin'[n] = Append(q, o)
        BY <2>1, <2>2, <2>5, <2>7 DEF ExportInv, ChunkInv, FileInv
      <3>2. /\ Len(Append(q, o)) = x_i + 1
            /\ \A j \in 1 .. x_i : Append(q, o)[j] = q[j]
            /\ Append(q, o)[x_i + 1] = o
        BY <2>4, <2>5, Appended
      <3>3. /\ \A j \in 1 .. x_i : Append(s, e)[j] = s[j]
            /\ Append(s, e)[x_i + 1] = e
        BY <2>0, Appended
      <3>4. r \in 1 .. x_i \/ r = x_i + 1
        BY <1>2, <2>3, <3>1, <3>2
      <3>5. CASE r \in 1 .. x_i
        <4>1. origin'[n][r] = origin[n][r] /\ file'[n].recs[r] = file[n].recs[r]
          BY <2>0, <2>5, <2>7, <3>1, <3>2, <3>3, <3>5
        <4>2. l = RecordLook(origin[n], file[n], r)
          BY <1>2, <4>1 DEF RecordLook
        <4>3. r \in 1 .. Len(origin[n])
          BY <2>5, <2>7, <3>5
        <4> QED  BY <4>2, <4>3, NotedIs
      <3>6. CASE r = x_i + 1
        <4>1. origin'[n][r] = o /\ file'[n].recs[r] = e
          BY <3>1, <3>2, <3>3, <3>6
        <4>2. l = [fill |-> fill, slot |-> x_i, version |-> versions[x_i],
                   hash |-> e.id]
          <5>1. r - 1 = x_i
            BY <2>3, <3>6
          <5> QED  BY <1>2, <2>2, <4>1, <5>1 DEF RecordLook
        <4>3. e.id = At(fill, x_i).state_hash
          BY <2>0 DEF Record
        <4>4. l = Look(x_i)
          BY <4>2, <4>3 DEF Look
        <4> QED  BY <2>3, <4>4 DEF Looked
      <3> QED  BY <3>4, <3>5, <3>6
    <2> QED  BY <2>6, <2>7
  <1> QED  BY <1>5, <1>6, <1>7, <1>8, ChunkFrame

LEMMA HashKept ==
    ASSUME ChunkInv, SourceInv, SourceInv', ExportInv, IndexTypeOK,
           IndexTypeOK', FindTypeOK, FindTypeOK', HashInv,
           [TemporalNext]_temporalVars
    PROVE  HashInv'
  <1>1. Ages
    BY RegionAges
  <1>2. Counted
    BY DEF HashInv, Counted
  <1>3. Counted'
    BY <1>2, CountedStays
  <1>4. ASSUME NEW l \in Taken \cup Noted PROVE l \in Looks /\ Current(l)
    BY DEF HashInv
  <1>5. ASSUME NEW l \in Taken' \cup Noted'
        PROVE  l \in Looks /\ Current(l)'
    <2>1. l \in Taken \cup Noted \/ Looked(l)
      BY <1>2, TakenStep, NotedStep
    <2> QED  BY <1>1, <1>4, <2>1, CurrentStays, LookedIs
  <1>6. ASSUME NEW l \in Taken', NEW m \in Noted',
               l.fill = m.fill, l.slot = m.slot, l.version = m.version
        PROVE  l = m
    <2>1. (l \in Taken \/ Looked(l)) /\ (m \in Noted \/ Looked(m))
      BY <1>2, TakenStep, NotedStep
    <2>2. CASE l \in Taken /\ m \in Noted
      BY <1>6, <2>2 DEF HashInv
    <2>3. CASE Looked(l) /\ m \in Noted
      BY <1>4, <1>6, <2>3, LookedAgain
    <2>4. CASE l \in Taken /\ Looked(m)
      <3>1. m = l
        BY <1>4, <1>6, <2>4, LookedAgain
      <3> QED  BY <3>1
    <2>5. CASE Looked(l) /\ Looked(m)
      BY <1>6, <2>5, LookedTwice
    <2> QED  BY <2>1, <2>2, <2>3, <2>4, <2>5
  <1>7. (Taken \cup Noted)' \subseteq Looks' /\ Looks' = Looks
    BY <1>5 DEF Looks, Slots
  <1>8. \A l \in (Taken \cup Noted)' : Current(l)'
    BY <1>5
  <1> QED  BY <1>3, <1>6, <1>7, <1>8 DEF HashInv, Counted

-----------------------------------------------------------------------------
(* The search *)

\* Additions behind the range of the loop do not disturb it.
LEMMA FindExtends ==
    ASSUME FindTypeOK, FindInv, UNCHANGED <<findVars>>,
           \/ fpc \notin {"scan", "found"}
           \/ /\ Len(checkpoints) \in Nat /\ Len(checkpoints') \in Nat
              /\ Len(checkpoints) <= Len(checkpoints')
              /\ \A j \in 1 .. Len(checkpoints) : checkpoints'[j] = checkpoints[j]
    PROVE  FindInv'
  <1>1. UNCHANGED <<fpc, timestamp, len, f_i, minDiff, nearest, steady>>
    BY DEF findVars
  <1>2. CASE ~(fpc \in {"scan", "found"} /\ steady)
    BY <1>1, <1>2 DEF FindInv
  <1>3. CASE fpc \in {"scan", "found"} /\ steady
    <2>1. len <= Len(checkpoints) /\ Scanned
      BY <1>3 DEF FindInv
    <2>2. len <= Len(checkpoints') /\ f_i \in Nat /\ f_i <= Len(checkpoints)
      BY <1>3, <2>1 DEF FindTypeOK
    <2>3. \A d \in 1 .. f_i : d \in 1 .. Len(checkpoints)
      BY <1>3, <2>2
    <2>4. \A d \in 1 .. f_i : checkpoints'[d] = checkpoints[d]
      BY <1>3, <2>3
    <2>5. \A d \in 1 .. f_i : Diff(checkpoints[d])' = Diff(checkpoints[d])
      BY <1>1, <2>4 DEF Diff
    <2>6. Scanned'
      <3>1. CASE /\ nearest = <<>> /\ minDiff = MaxInt
                 /\ \A d \in 1 .. f_i : Diff(checkpoints[d]) >= MaxInt
        <4>1. \A d \in 1 .. f_i : Diff(checkpoints[d])' >= MaxInt
          BY <2>5, <3>1
        <4> QED  BY <1>1, <3>1, <4>1 DEF Scanned
      <3>2. ASSUME NEW c \in 1 .. f_i,
                   nearest = <<checkpoints[c]>>, minDiff = Diff(checkpoints[c]),
                   \A d \in 1 .. f_i : Diff(checkpoints[d]) >= minDiff,
                   \A d \in 1 .. c - 1 : Diff(checkpoints[d]) > minDiff
            PROVE  Scanned'
        <4>1. /\ nearest' = <<checkpoints'[c]>> /\ minDiff' = Diff(checkpoints[c])'
          BY <1>1, <2>4, <2>5, <3>2
        <4>2. \A d \in 1 .. f_i : Diff(checkpoints[d])' >= minDiff'
          BY <1>1, <2>5, <3>2
        <4>3. \A d \in 1 .. c - 1 : d \in 1 .. f_i
          BY <2>2
        <4>4. \A d \in 1 .. c - 1 : Diff(checkpoints[d])' > minDiff'
          BY <1>1, <2>5, <3>2, <4>3
        <4>5. c \in 1 .. f_i'
          BY <1>1
        <4>6. \A d \in 1 .. f_i' : Diff(checkpoints[d])' >= minDiff'
          BY <1>1, <4>2
        <4> QED  BY <4>1, <4>4, <4>5, <4>6, Zenon DEF Scanned
      <3> QED  BY <2>1, <3>1, <3>2 DEF Scanned
    <2> QED  BY <1>1, <1>3, <2>2, <2>6 DEF FindInv
  <1> QED  BY <1>2, <1>3

LEMMA FindStepKeeps ==
    ASSUME IndexTypeOK, FindTypeOK, FindInv, FindStep
    PROVE  FindInv'
  <1>1. /\ fpc = "scan" /\ f_i < len /\ f_i < Len(checkpoints) /\ f_i' = f_i + 1
        /\ UNCHANGED <<checkpoints, fpc, timestamp, len, steady>>
    BY DEF FindStep, indexVars
  <1>2. len > 0
    BY <1>1 DEF FindInv
  <1>3. CASE ~steady
    BY <1>1, <1>2, <1>3 DEF FindInv
  <1>4. CASE steady
    <2> DEFINE D(d) == Diff(checkpoints[d])
               b == f_i + 1
    <2>1. len <= Len(checkpoints) /\ Scanned
      BY <1>1, <1>4 DEF FindInv
    <2>2. f_i \in Nat /\ b \in 1 .. Len(checkpoints) /\ Len(checkpoints) \in Nat
      BY <1>1, MaximaAre DEF FindTypeOK
    <2>3. \A d \in 1 .. b : D(d) \in Int
      <3>1. ASSUME NEW d \in 1 .. b PROVE D(d) \in Int
        <4>1. checkpoints[d] \in Checkpoints
          BY <2>2, ElementOfSeq DEF IndexTypeOK
        <4>2. PICK c \in Checkpoints : c = checkpoints[d]
          BY <4>1
        <4>3. Diff(c) \in Ints
          BY DiffInts DEF FindTypeOK
        <4> QED  BY <4>2, <4>3, IntsAre DEF Ints
      <3> QED  BY <3>1
    <2>4. \A d \in 1 .. b : D(d)' = D(d)
      BY <1>1 DEF Diff
    <2>5. IF D(b) < minDiff THEN minDiff' = D(b) /\ nearest' = <<checkpoints[b]>>
          ELSE UNCHANGED <<minDiff, nearest>>
      BY DEF FindStep
    <2>6. f_i' = b /\ checkpoints' = checkpoints
      BY <1>1
    <2>7. \/ nearest = <<>> /\ minDiff = MaxInt /\ \A d \in 1 .. f_i : D(d) >= MaxInt
          \/ \E c \in 1 .. f_i :
                /\ nearest = <<checkpoints[c]>> /\ minDiff = D(c)
                /\ \A d \in 1 .. f_i : D(d) >= minDiff
                /\ \A d \in 1 .. c - 1 : D(d) > minDiff
      BY <2>1 DEF Scanned
    <2>8. minDiff \in Int /\ MaxInt \in Int
      BY IntsAre DEF FindTypeOK, Ints
    <2>9. (\A d \in 1 .. b : d \in 1 .. f_i \/ d = b) /\ b \in 1 .. b
          /\ b - 1 = f_i /\ \A d \in 1 .. f_i : d \in 1 .. b
      BY <2>2
    <2> SUFFICES
          \/ nearest' = <<>> /\ minDiff' = MaxInt /\ \A d \in 1 .. b : D(d) >= MaxInt
          \/ \E c \in 1 .. b :
                /\ nearest' = <<checkpoints[c]>> /\ minDiff' = D(c)
                /\ \A d \in 1 .. b : D(d) >= minDiff'
                /\ \A d \in 1 .. c - 1 : D(d) > minDiff'
      <3> HIDE DEF b
      <3>1. CASE /\ nearest' = <<>> /\ minDiff' = MaxInt
                 /\ \A d \in 1 .. b : D(d) >= MaxInt
        <4>1. \A d \in 1 .. f_i' : D(d)' >= MaxInt
          BY <2>4, <2>6, <3>1
        <4>2. Scanned'
          BY <3>1, <4>1 DEF Scanned
        <4> QED  BY <1>1, <1>2, <2>1, <4>2 DEF FindInv
      <3>2. ASSUME NEW c \in 1 .. b,
                   nearest' = <<checkpoints[c]>>, minDiff' = D(c),
                   \A d \in 1 .. b : D(d) >= minDiff',
                   \A d \in 1 .. c - 1 : D(d) > minDiff'
            PROVE  FindInv'
        <4>1. \A d \in 1 .. c - 1 : d \in 1 .. b
          BY <2>2, <2>9
        <4>2. /\ c \in 1 .. f_i' /\ nearest' = <<checkpoints'[c]>> /\ minDiff' = D(c)'
              /\ \A d \in 1 .. f_i' : D(d)' >= minDiff'
              /\ \A d \in 1 .. c - 1 : D(d)' > minDiff'
          BY <2>4, <2>6, <3>2, <4>1
        <4>3. Scanned'
          BY <4>2, Zenon DEF Scanned
        <4> QED  BY <1>1, <1>2, <2>1, <4>3 DEF FindInv
      <3> QED  BY <3>1, <3>2
    <2> HIDE DEF D, b
    <2>10. CASE D(b) < minDiff
      <3>1. \A d \in 1 .. f_i : D(d) >= minDiff
        BY <2>7, <2>8
      <3>2. \A d \in 1 .. f_i : D(d) > D(b)
        BY <2>3, <2>8, <2>9, <2>10, <3>1
      <3>3. \A d \in 1 .. b : D(d) >= D(b)
        BY <2>3, <2>9, <3>2
      <3>4. \A d \in 1 .. b - 1 : D(d) > D(b)
        BY <2>9, <3>2
      <3> QED  BY <2>5, <2>9, <2>10, <3>3, <3>4
    <2>11. CASE ~(D(b) < minDiff)
      <3>1. UNCHANGED <<minDiff, nearest>> /\ D(b) >= minDiff
        BY <2>3, <2>5, <2>8, <2>9, <2>11
      <3> QED  BY <2>7, <2>9, <3>1
    <2> QED  BY <2>10, <2>11
  <1> QED  BY <1>3, <1>4

LEMMA FindNext ==
    ASSUME IndexTypeOK, FindTypeOK, FindInv, [TemporalNext]_temporalVars
    PROVE  FindInv'
  <1>0. Len(checkpoints) \in Nat
    BY MaximaAre
  <1>1. CASE UNCHANGED <<findVars, checkpoints>>
    <2>1. Len(checkpoints) <= Len(checkpoints')
      BY <1>0, <1>1
    <2> QED  BY <1>0, <1>1, <2>1, FindExtends
  <1>2. CASE Restart
    BY <1>2 DEF Restart, Finding, FindInv
  <1>3. CASE DropOldest
    <2>1. CASE Len(checkpoints) >= maxCheckpoints
      <3>1. steady' = FALSE /\ UNCHANGED <<fpc, timestamp, len, f_i, minDiff, nearest>>
        BY <1>3, <2>1 DEF DropOldest
      <3> QED  BY <3>1 DEF FindInv
    <2>2. CASE ~(Len(checkpoints) >= maxCheckpoints)
      <3>1. UNCHANGED <<findVars, checkpoints>>
        BY <1>3, <2>2 DEF DropOldest, findVars
      <3> QED  BY <1>1, <3>1
    <2> QED  BY <2>1, <2>2
  <1>4. CASE AppendCheckpoint
    <2>1. checkpoints' = Append(checkpoints, cp) /\ UNCHANGED <<findVars>>
      BY <1>4 DEF AppendCheckpoint
    <2>2. /\ Len(checkpoints') = Len(checkpoints) + 1
          /\ \A j \in 1 .. Len(checkpoints) : checkpoints'[j] = checkpoints[j]
      BY <2>1, AppendProperties DEF IndexTypeOK
    <2>3. Len(checkpoints') \in Nat /\ Len(checkpoints) <= Len(checkpoints')
      BY <1>0, <2>2
    <2> QED  BY <1>0, <2>1, <2>2, <2>3, FindExtends
  <1>5. CASE LoadTemporalIndex
    <2>1. fpc = "idle" /\ UNCHANGED <<findVars>>
      BY <1>5 DEF LoadTemporalIndex
    <2> QED  BY <2>1, FindExtends
  <1>6. ASSUME NEW t \in Targets, RewindTo(t) PROVE FindInv'
    <2>1. /\ fpc' = "scan" /\ len' = Len(checkpoints) /\ f_i' = 0
          /\ minDiff' = MaxInt /\ nearest' = <<>>
          /\ checkpoints # <<>> /\ checkpoints' = checkpoints
      BY <1>6 DEF RewindTo, Finding, indexVars
    <2>2. len' > 0
      BY <1>0, <2>1, EmptySeq DEF IndexTypeOK
    <2>3. Scanned'
      BY <2>1 DEF Scanned
    <2> QED  BY <1>0, <2>1, <2>2, <2>3 DEF FindInv
  <1>7. CASE FindStep
    BY <1>7, FindStepKeeps
  <1>8. CASE FindPanics
    <2>1. /\ fpc = "scan" /\ f_i < len /\ f_i >= Len(checkpoints)
          /\ fpc' = "panic" /\ steady' = steady
      BY <1>8 DEF FindPanics
    <2>2. ~steady
      <3>1. steady => len <= Len(checkpoints)
        BY <2>1 DEF FindInv
      <3>2. len \in Nat /\ f_i \in Nat
        BY DEF FindTypeOK
      <3> QED  BY <1>0, <2>1, <3>1, <3>2
    <2> QED  BY <2>1, <2>2 DEF FindInv
  <1>9. CASE FindReturns
    <2>1. /\ fpc = "scan" /\ f_i = len /\ fpc' = "found"
          /\ UNCHANGED <<checkpoints, timestamp, len, f_i, minDiff, nearest, steady>>
      BY <1>9 DEF FindReturns, indexVars
    <2>2. Scanned => Scanned'
      BY <2>1 DEF Scanned, Diff
    <2> QED  BY <2>1, <2>2 DEF FindInv
  <1>10. CASE Rewind \/ RewindReturns
    <2>1. \/ fpc' = "idle"
          \/ fpc' = "rewound" /\ nearest' = nearest /\ nearest # <<>>
      BY <1>10 DEF Rewind, RewindReturns, Finding
    <2> QED  BY <2>1 DEF FindInv
  <1>11. \/ UNCHANGED <<findVars, checkpoints>> \/ Restart \/ DropOldest
         \/ AppendCheckpoint \/ LoadTemporalIndex
         \/ \E t \in Targets : RewindTo(t)
         \/ FindStep \/ FindPanics \/ FindReturns \/ Rewind \/ RewindReturns
    BY DEF TemporalNext, temporalVars, indexVars, CheckpointStep, RewindStep,
           Tick, Writes, WriteEntry, TriggerDrain, Chunks, ExportStep,
           ExportChunk, ExportCreate, ExportEntry, ExportReturns,
           CreateCheckpoint, CheckpointCount, CheckpointHash, Save, Encode
  <1> QED
    BY <1>1, <1>2, <1>3, <1>4, <1>5, <1>6, <1>7, <1>8, <1>9, <1>10, <1>11

-----------------------------------------------------------------------------
(* The inductive invariant *)

\* TemporalInv with what is behind it, by the parts that are kept together.
TInv ==
    /\ ChunkInv /\ SourceInv /\ ExportInv
    /\ IndexTypeOK /\ FindTypeOK /\ IndexInv /\ HashInv /\ FindInv

LEMMA TInvIs == TInv => TemporalInv
  <1> SUFFICES ASSUME TInv PROVE TemporalInv
    OBVIOUS
  <1>1. ChunkTypeOK /\ LoadedInv /\ FilesInv
    BY ChunkInvIs, ExportInvIs DEF TInv, ChunkInv
  <1>2. RegionInv /\ RegionTypeOK
    BY DEF TInv, SourceInv, RegionInv
  <1>3. Len(checkpoints) <= maxCheckpoints
    BY IndexFits DEF TInv
  <1>4. TemporalTypeOK
    BY <1>1, <1>2, <1>3
    DEF TInv, SourceInv, ExportInv, Origins, IndexTypeOK, FindTypeOK,
        TemporalTypeOK
  <1> QED  BY <1>1, <1>2, <1>4 DEF TInv, TemporalInv

LEMMA TemporalStart == TemporalInit => TInv
  <1> SUFFICES ASSUME TemporalInit PROVE TInv
    OBVIOUS
  <1>1. ChunkInv
    BY ChunkInvInit DEF TemporalInit
  <1>2. SourceInv
    <2>1. RegionInv /\ fill = 0
      BY RegionStart DEF TemporalInit, RegionInit
    <2> QED  BY <2>1, TemporalAssumption DEF TemporalInit, SourceInv
  <1>3. /\ <<>> \in Seq(Checkpoints) /\ Len(<<>>) = 0
        /\ saved.checkpoints = <<>> /\ saved.form = "absent"
    BY DEF TemporalInit
  <1>4. ExportInv
    <2>1. /\ xpc = "idle" /\ name = 0 /\ count = 0 /\ x_i = 0
          /\ origin = [n \in Names |-> <<>>]
      BY DEF TemporalInit
    <2>2. 0 \in 0 .. MaxSlots /\ 0 \in 0 .. 0 /\ <<>> \in Seq(Origins)
      BY SlotsAssumption
    <2>3. \A n \in Names : Len(file[n].recs) \in Nat
      BY <1>1, LenProperties DEF ChunkInv, FileInv, Contents
    <2>4. \A n \in Names : Len(origin[n]) <= Len(file[n].recs)
      BY <1>3, <2>1, <2>3
    <2> QED  BY <2>1, <2>2, <2>4, ZeroName DEF ExportInv
  <1>5. IndexTypeOK
    BY <1>3, NoCheckpointType DEF TemporalInit, IndexTypeOK
  <1>6. FindTypeOK
    <2>1. MaxInt \in Ints /\ 0 \in Ints /\ 0 \in 0 .. 0
      BY IntsAre DEF Ints
    <2>2. /\ fpc = "idle" /\ timestamp = 0 /\ len = 0 /\ f_i = 0
          /\ minDiff = MaxInt /\ nearest = <<>> /\ steady = FALSE
      BY DEF TemporalInit
    <2>3. nearest \in Seq(Checkpoints) /\ Len(nearest) <= 1
      BY <1>3, <2>2
    <2> QED  BY <2>1, <2>2, <2>3 DEF FindTypeOK
  <1>7. IndexInv
    <2>1. Room = NewMax /\ checkpoints = <<>> /\ made = <<>>
      BY DEF TemporalInit, Room
    <2>2. NewMax \in Nat /\ RestoredMax \in Nat
      BY TemporalAssumption
    <2> QED  BY <1>3, <2>1, <2>2 DEF IndexInv
  <1>8. HashInv
    <2>1. checkpoints = <<>> /\ nearest = <<>> /\ kpc = "idle"
      BY DEF TemporalInit
    <2>2. HeldParts
      BY <1>5, <1>6, HeldIs
    <2>3. \A c : c \notin Held
      BY <1>3, <2>1, <2>2, InFew DEF HeldParts
    <2>4. \A l : l \notin Taken
      BY <2>3, TakenIs
    <2>5. \A n \in Names : \A r \in 1 .. Len(origin[n]) : FALSE
      BY <1>3 DEF TemporalInit
    <2>6. \A l : l \notin Noted
      BY <2>5, NotedIs
    <2>7. Taken = {} /\ Noted = {}
      BY <2>4, <2>6
    <2> QED  BY <2>1, <2>7 DEF HashInv
  <1>9. FindInv
    BY DEF TemporalInit, FindInv
  <1> QED  BY <1>1, <1>2, <1>4, <1>5, <1>6, <1>7, <1>8, <1>9 DEF TInv

LEMMA TemporalSteps == TInv /\ [TemporalNext]_temporalVars => TInv'
  <1> SUFFICES ASSUME TInv, [TemporalNext]_temporalVars PROVE TInv'
    OBVIOUS
  <1>1. /\ ChunkInv /\ SourceInv /\ ExportInv
        /\ IndexTypeOK /\ FindTypeOK /\ IndexInv /\ HashInv /\ FindInv
    BY DEF TInv
  <1>2. Rewind => ChunkID(nearest[1]) \in Names
    <2> SUFFICES ASSUME Rewind PROVE ChunkID(nearest[1]) \in Names
      OBVIOUS
    <2>1. nearest # <<>> /\ nearest \in Seq(Checkpoints)
      BY <1>1 DEF Rewind, FindTypeOK
    <2>2. 1 \in 1 .. Len(nearest)
      BY <2>1, EmptySeq, LenProperties
    <2>3. PICK c \in Checkpoints : c = nearest[1]
      BY <2>1, <2>2, ElementOfSeq
    <2> QED  BY <2>3, ChunkNames
  <1>3. kpc = "add" => (Len(checkpoints) >= maxCheckpoints => checkpoints # <<>>)
    <2>1. maxCheckpoints \in Nat \ {0} /\ Len(<<>>) = 0
      BY <1>1, MaximaAre
    <2> QED  BY <2>1
  <1>4. checkpoints \in Seq(Checkpoints)
    BY <1>1 DEF IndexTypeOK
  <1>5. ChunkInv' /\ SourceInv' /\ ExportInv'
    BY <1>1, <1>2, ChunkSteps, SourceSteps, ExportSteps
  <1>6. IndexTypeOK'
    BY <1>1, <1>3, IndexTypes
  <1>7. FindTypeOK'
    BY <1>1, <1>4, FindTypes
  <1>8. IndexInv'
    BY <1>1, IndexNext
  <1>9. HashInv'
    BY <1>1, <1>5, <1>6, <1>7, HashKept
  <1>10. FindInv'
    BY <1>1, FindNext
  <1> QED  BY <1>5, <1>6, <1>7, <1>8, <1>9, <1>10 DEF TInv

LEMMA TInvHolds == TemporalSpec => []TInv
  BY TemporalStart, TemporalSteps, PTL DEF TemporalSpec

\* The invariant of Temporal holds in every behaviour: what files hold, what
\* was loaded of them, what the index holds, what a search has passed, and
\* that checkpoints and exported records of one fill and version agree.
THEOREM TemporalInvariant == TemporalSpec => []TemporalInv
  BY TInvHolds, TInvIs, PTL

-----------------------------------------------------------------------------
(* The properties *)


\* The variables of LoadedChunk and of Temporal keep their types, and the
\* index never holds more checkpoints than it may.
THEOREM TemporalTypeCorrect == TemporalSpec => []TemporalTypeOK
  <1>1. TemporalInv => TemporalTypeOK
    BY DEF TemporalInv
  <1> QED  BY <1>1, TemporalInvariant, PTL

\* Whatever loads fail half way, LoadedChunkEntries is a prefix of one file and
\* then blanks: LoadChunk and MmapChunk never mix two files.
THEOREM LoadsNeverMix == TemporalSpec => []EntriesOfOneFile
  <1>1. TemporalInv => EntriesOfOneFile
    BY DEF TemporalInv, LoadedInv
  <1> QED  BY <1>1, TemporalInvariant, PTL

\* MmapChunk and MunmapChunk, called in turns, leave no mapping behind.
THEOREM MappingsReleased == TemporalSpec => []MappingsPaired
  <1>1. TemporalInv => MappingsPaired
    BY DEF TemporalInv, LoadedInv
  <1> QED  BY <1>1, TemporalInvariant, PTL

LEMMA MinOfTwo ==
    ASSUME NEW x \in Int, NEW y \in Int
    PROVE  Min({x, y}) = IF x <= y THEN x ELSE y
  <1> DEFINE z == IF x <= y THEN x ELSE y
  <1>1. z \in {x, y} /\ \A v \in {x, y} : z <= v
    OBVIOUS
  <1>2. \A u \in {x, y} : (\A v \in {x, y} : u <= v) => u = z
    OBVIOUS
  <1> HIDE DEF z
  <1>3. Min({x, y}) = z
    BY <1>1, <1>2 DEF Min
  <1> QED  BY <1>3 DEF z

\* AddCheckpoint, across restarts and restored indexes, keeps the newest
\* checkpoints in the order of their making.
THEOREM IndexStaysNewest == TemporalSpec => []IndexIsNewest
  <1>1. ASSUME TInv PROVE IndexIsNewest
    <2>1. IndexTypeOK /\ IndexInv
      BY <1>1 DEF TInv
    <2> SUFFICES ASSUME kpc # "append"
                 PROVE  checkpoints = SubSeq(made, Len(made)
                            - Min({Len(made), maxCheckpoints}) + 1, Len(made))
      BY DEF IndexIsNewest
    <2>2. PICK s, m \in Seq(Checkpoints), n \in Nat \ {0} :
              s = checkpoints /\ m = made /\ n = maxCheckpoints
      BY <2>1, MaximaAre DEF IndexTypeOK
    <2>3. Len(s) \in Nat /\ Len(m) \in Nat
      BY LenProperties
    <2>4. /\ Len(s) = IF Len(m) <= n THEN Len(m) ELSE n
          /\ \A j \in 1 .. Len(s) : s[j] = m[Len(m) - Len(s) + j]
      BY <2>1, <2>2 DEF IndexInv, Room
    <2>5. Min({Len(m), n}) = Len(s)
      BY <2>3, <2>4, MinOfTwo
    <2> DEFINE from == Len(m) - Len(s) + 1
               u == SubSeq(m, from, Len(m))
    <2>6. from \in 1 .. Len(m) + 1 /\ Len(s) <= Len(m)
      <3>1. Len(s) <= Len(m)
        BY <2>3, <2>4
      <3> QED  BY <2>3, <3>1
    <2>7. /\ u \in Seq(Checkpoints)
          /\ Len(u) = IF from <= Len(m) THEN Len(m) - from + 1 ELSE 0
          /\ \A j \in 1 .. Len(m) - from + 1 : u[j] = m[from + j - 1]
      <3>1. from \in Int /\ Len(m) \in Int
        BY <2>3
      <3>2. \A j \in from .. Len(m) : m[j] \in Checkpoints
        <4>1. \A j \in from .. Len(m) : j \in 1 .. Len(m)
          BY <2>3, <2>6
        <4> QED  BY <4>1, ElementOfSeq
      <3> HIDE DEF from
      <3> QED  BY <3>1, <3>2, SubSeqProperties
    <2>8. Len(m) - from + 1 = Len(s)
      BY <2>3
    <2> HIDE DEF u
    <2>9. Len(u) = Len(s)
      BY <2>3, <2>6, <2>7, <2>8
    <2>10. ASSUME NEW j \in 1 .. Len(s) PROVE u[j] = s[j]
      <3>1. u[j] = m[from + j - 1]
        BY <2>7, <2>8
      <3>2. from + j - 1 = Len(m) - Len(s) + j
        BY <2>3
      <3> QED  BY <2>4, <3>1, <3>2
    <2> HIDE DEF from
    <2>11. u = s
      BY <2>7, <2>9, <2>10, SeqEqual
    <2> QED  BY <2>2, <2>5, <2>11 DEF u, from
  <1>2. TInv => IndexIsNewest
    BY <1>1
  <1> QED  BY <1>2, TInvHolds, PTL

\* FindNearest beside AddCheckpoint panics only after an index has dropped a
\* checkpoint, and without such a drop returns the first of the nearest.
THEOREM NearestFound == TemporalSpec => []NearestIsNearest
  <1>1. ASSUME TInv PROVE NearestIsNearest
    <2>1. IndexTypeOK /\ FindTypeOK /\ FindInv
      BY <1>1 DEF TInv
    <2> DEFINE far(c) == AbsDiff(checkpoints[c].Timestamp, timestamp)
               best == {c \in 1 .. len : \A d \in 1 .. len : far(c) <= far(d)}
    <2>2. fpc = "panic" => ~steady
      BY <2>1 DEF FindInv
    <2>3. ASSUME fpc = "found", steady,
                 \A c \in 1 .. len : far(c) < MaxInt
          PROVE  nearest = <<checkpoints[Min(best)]>>
      <3>1. len > 0 /\ f_i = len /\ len <= Len(checkpoints) /\ Scanned
        BY <2>1, <2>3 DEF FindInv
      <3>2. len \in Nat /\ Len(checkpoints) \in Nat /\ timestamp \in Ints
        BY <2>1, MaximaAre DEF FindTypeOK
      <3>3. ASSUME NEW d \in 1 .. len
            PROVE  Diff(checkpoints[d]) = far(d) /\ far(d) \in Int
        <4>1. d \in 1 .. Len(checkpoints)
          BY <3>1, <3>2
        <4>2. PICK c \in Checkpoints : c = checkpoints[d]
          BY <2>1, <4>1, ElementOfSeq DEF IndexTypeOK
        <4>3. AbsDiff(c.Timestamp, timestamp) < MaxInt
          BY <2>3, <4>2
        <4>4. Diff(c) = AbsDiff(c.Timestamp, timestamp)
          BY <3>2, <4>3, DiffIsDistance
        <4>5. AbsDiff(c.Timestamp, timestamp) \in Int
          BY <3>2, TimesAreInts, IntsAre DEF Ints, AbsDiff
        <4> QED  BY <4>2, <4>4, <4>5
      <3>4. MaxInt \in Int
        BY IntsAre
      <3>5. 1 \in 1 .. len
        BY <3>1, <3>2
      <3> HIDE DEF far
      <3>6. ~(\A d \in 1 .. f_i : Diff(checkpoints[d]) >= MaxInt)
        BY <2>3, <3>1, <3>3, <3>4, <3>5
      <3>7. PICK c \in 1 .. len :
                /\ nearest = <<checkpoints[c]>>
                /\ \A d \in 1 .. len : Diff(checkpoints[d]) >= Diff(checkpoints[c])
                /\ \A d \in 1 .. c - 1 : Diff(checkpoints[d]) > Diff(checkpoints[c])
        <4>1. PICK c \in 1 .. f_i :
                  /\ nearest = <<checkpoints[c]>> /\ minDiff = Diff(checkpoints[c])
                  /\ \A d \in 1 .. f_i : Diff(checkpoints[d]) >= minDiff
                  /\ \A d \in 1 .. c - 1 : Diff(checkpoints[d]) > minDiff
          BY <3>1, <3>6 DEF Scanned
        <4> QED  BY <3>1, <4>1
      <3>8. \A d \in 1 .. len : far(c) <= far(d)
        BY <3>3, <3>7
      <3>9. \A d \in 1 .. len : d < c => far(d) > far(c)
        <4> SUFFICES ASSUME NEW d \in 1 .. len, d < c PROVE far(d) > far(c)
          OBVIOUS
        <4>1. d \in 1 .. c - 1
          BY <3>2
        <4> QED  BY <3>3, <3>7, <4>1
      <3>10. \A d \in best : c <= d
        <4> SUFFICES ASSUME NEW d \in best, ~(c <= d) PROVE FALSE
          OBVIOUS
        <4>1. d \in 1 .. len /\ far(d) <= far(c)
          OBVIOUS
        <4>2. d < c
          BY <3>2, <4>1
        <4>3. far(d) > far(c)
          BY <3>9, <4>1, <4>2
        <4> QED  BY <3>3, <4>1, <4>3
      <3>11. c \in best /\ best \subseteq Int
        BY <3>2, <3>8
      <3> HIDE DEF best
      <3>12. \A y \in best : (\A d \in best : y <= d) => y = c
        <4> SUFFICES ASSUME NEW y \in best, \A d \in best : y <= d PROVE y = c
          OBVIOUS
        <4>1. y <= c /\ c <= y /\ y \in Int /\ c \in Int
          BY <3>10, <3>11
        <4> QED  BY <4>1
      <3>13. Min(best) = c
        BY <3>10, <3>11, <3>12 DEF Min
      <3> QED  BY <3>7, <3>13
    <2> QED  BY <2>2, <2>3 DEF NearestIsNearest
  <1>2. TInv => NearestIsNearest
    BY <1>1
  <1> QED  BY <1>2, TInvHolds, PTL

\* RewindTo of a checkpoint that CreateCheckpoint made without a drain in the
\* middle finds its state hash at its offset, if ExportChunk read that entry in
\* the same fill and no WriteEntry came in between: whatever was written,
\* drained, exported, saved and restored meanwhile.
THEOREM RewindFindsHash == TemporalSpec => RewindMatches
  <1>1. ASSUME TInv, [TemporalNext]_temporalVars,
               fpc = "found", fpc' = "rewound", read',
               nearest[1].calm,
               nearest[1].Offset \in DOMAIN origin[ChunkID(nearest[1])],
               origin[ChunkID(nearest[1])][nearest[1].Offset]
                   = [fill |-> nearest[1].fill, version |-> nearest[1].version]
        PROVE  LoadedChunkEntries'[nearest[1].Offset].id = nearest[1].StateHash
    <2>1. /\ ChunkInv /\ SourceInv /\ ExportInv
          /\ IndexTypeOK /\ FindTypeOK /\ HashInv
      BY <1>1 DEF TInv
    <2>2. Rewind
      BY <1>1 DEF TemporalNext, temporalVars, findVars, CheckpointStep,
         RewindStep,
             Tick, Writes, WriteEntry, TriggerDrain, Restart, Chunks,
             ExportStep, ExportChunk, ExportCreate, ExportEntry, ExportReturns,
             CreateCheckpoint, CheckpointCount, CheckpointHash, DropOldest,
             AppendCheckpoint, Save, Encode, LoadTemporalIndex, FindStep,
             FindPanics, FindReturns, RewindReturns, RewindTo, Finding
    <2>3. nearest # <<>> /\ nearest \in Seq(Checkpoints)
      BY <2>1, <2>2 DEF Rewind, FindTypeOK
    <2>4. 1 \in 1 .. Len(nearest)
      BY <2>3, EmptySeq, LenProperties
    <2>5. PICK c \in Checkpoints : c = nearest[1]
      BY <2>3, <2>4, ElementOfSeq
    <2>6. PICK n \in Names : n = ChunkID(c)
      BY ChunkNames
    <2>7. PICK o \in Seq(Origins) : o = origin[n]
      BY <2>1 DEF ExportInv
    <2>8. PICK r \in 1 .. Len(o) : r = c.Offset
      BY <1>1, <2>5, <2>6, <2>7
    <2>9. o[r].fill = c.fill /\ o[r].version = c.version
      BY <1>1, <2>5, <2>6, <2>7, <2>8
    <2>10. PICK f : f = file[n] /\ Sound(f)
      BY <2>1, FilesAreSound DEF ChunkInv
    <2>11. file[n].form = "chunk" /\ LoadChunk(n)
      BY <1>1, <2>2, <2>5, <2>6 DEF Rewind, Finding
    <2>12. r \in 1 .. Len(f.recs)
      <3>1. Len(o) <= Len(f.recs)
        BY <2>1, <2>7, <2>10 DEF ExportInv
      <3>2. Len(o) \in Nat /\ Len(f.recs) \in Nat
        BY <2>10, LenProperties DEF Sound, Contents
      <3> QED  BY <3>1, <3>2
    <2>13. LoadedChunkEntries'[r] = f.recs[r]
      <3>1. PICK s, t \in Seq(Records), d \in Nat :
                /\ s = f.recs /\ t = f.tail /\ d = f.count
                /\ Len(s) + Len(t) <= d
        BY <2>10 DEF Sound, Contents
      <3>2. LoadedChunkEntries' = Pad(s \o t, d)
        BY <2>10, <2>11, <3>1 DEF LoadChunk, Parse, Fill, ReadBack, Refused
      <3>3. PICK w \in Seq(Records) :
                /\ w = s \o t /\ Len(w) \in Nat /\ Len(w) <= d
                /\ Len(s) \in Nat /\ Len(s) <= Len(w)
                /\ \A j \in 1 .. Len(s) : w[j] = s[j]
        <4>1. Len(s) + Len(t) <= d
          BY <3>1, Zenon
        <4>2. /\ s \o t \in Seq(Records) /\ Len(s) \in Nat
              /\ Len(s \o t) \in Nat /\ Len(s) <= Len(s \o t)
              /\ Len(s \o t) <= d
              /\ \A j \in 1 .. Len(s) : (s \o t)[j] = s[j]
          BY <4>1, Joined
        <4> QED  BY <4>2, Zenon
      <3>4. \A j \in 1 .. Len(w) : Pad(w, d)[j] = w[j]
        BY <3>3, Padded
      <3>5. r \in 1 .. Len(s) /\ r \in 1 .. Len(w)
        <4>1. r \in 1 .. Len(s)
          BY <2>12, <3>1, Zenon
        <4>2. PICK x, y \in Nat : x = Len(s) /\ y = Len(w) /\ x <= y
          BY <3>3, Zenon
        <4>3. r \in 1 .. x /\ x \in Nat
          BY <4>1, <4>2
        <4>4. r \in 1 .. y
          BY <4>2, <4>3
        <4> QED  BY <4>1, <4>2, <4>4
      <3> QED  BY <3>1, <3>2, <3>3, <3>4, <3>5
    <2>14. CheckpointLook(c) \in Taken
      <3>1. c \in Held
        <4>1. HeldParts
          BY <2>1, HeldIs
        <4> QED  BY <2>4, <2>5, <4>1 DEF HeldParts, InSeq
      <3>2. c.calm /\ c.Offset > 0
        BY <1>1, <2>5, <2>8
      <3> QED  BY <3>1, <3>2, TakenIs
    <2>15. RecordLook(o, f, r) \in Noted
      BY <2>7, <2>10, NotedIs
    <2>16. PICK l \in Taken, m \in Noted :
               l = CheckpointLook(c) /\ m = RecordLook(o, f, r)
      BY <2>14, <2>15
    <2>17. /\ l.fill = c.fill /\ l.slot = c.Offset - 1
           /\ l.version = c.version /\ l.hash = c.StateHash
      BY <2>16 DEF CheckpointLook
    <2>18. /\ m.fill = o[r].fill /\ m.slot = r - 1
           /\ m.version = o[r].version /\ m.hash = f.recs[r].id
      BY <2>16 DEF RecordLook
    <2>19. l = m
      BY <2>1, <2>8, <2>9, <2>17, <2>18 DEF HashInv
    <2> QED  BY <2>5, <2>8, <2>13, <2>17, <2>18, <2>19
  <1>2. TInv /\ [TemporalNext]_temporalVars =>
            ((fpc = "found" /\ fpc' = "rewound" /\ read') =>
                LET c == nearest[1]
                    o == origin[ChunkID(c)]
                IN  (/\ c.calm /\ c.Offset \in DOMAIN o
                     /\ o[c.Offset] = [fill |-> c.fill, version |-> c.version])
                        => LoadedChunkEntries'[c.Offset].id = c.StateHash)
    BY <1>1
  <1> QED  BY <1>2, TInvHolds, PTL DEF TemporalSpec, RewindMatches

-----------------------------------------------------------------------------
(* Induction, with a set for what is to be shown.                            *)

LEMMA LeastOf ==
    ASSUME NEW T \in SUBSET Nat, T # {}
    PROVE  \E n \in T : \A m \in T : n <= m
  <1> DEFINE R == OpToRel(<, Nat)
  <1>1. IsWellFoundedOn(R, Nat)
    BY NatLessThanWellFounded
  <1>2. \A m, n \in Nat : m < n => <<m, n>> \in R
    BY DEF OpToRel
  <1> HIDE DEF R
  <1>3. PICK n \in T : \A m \in T : ~ (<<m, n>> \in R)
    BY <1>1, WFMin, Zenon
  <1>4. \A m \in T : ~(m < n) /\ m \in Nat /\ n \in Nat
    BY <1>2, <1>3
  <1> QED  BY <1>4

LEMMA CountUp ==
    ASSUME NEW T \in SUBSET Nat, 0 \in T, \A n \in T : n + 1 \in T
    PROVE  T = Nat
  <1> SUFFICES ASSUME T # Nat PROVE FALSE
    OBVIOUS
  <1>1. PICK n \in Nat \ T : \A m \in Nat \ T : n <= m
    <2>1. Nat \ T \in SUBSET Nat /\ Nat \ T # {}
      OBVIOUS
    <2> QED  BY <2>1, LeastOf
  <1>2. n - 1 \in Nat
    BY <1>1
  <1>3. n - 1 \in T
    BY <1>1, <1>2
  <1> QED  BY <1>1, <1>2, <1>3

LEMMA GrowSequences ==
    ASSUME NEW S, NEW U \in SUBSET Seq(S), <<>> \in U,
           \A s \in U : \A x \in S : Append(s, x) \in U
    PROVE  U = Seq(S)
  <1> DEFINE T == {n \in Nat : \A s \in Seq(S) : Len(s) = n => s \in U}
  <1>1. 0 \in T
    <2>1. \A s \in Seq(S) : Len(s) = 0 => s = <<>>
      BY EmptySeq
    <2> QED  BY <2>1
  <1>2. ASSUME NEW n \in T PROVE n + 1 \in T
    <2> SUFFICES ASSUME NEW s \in Seq(S), Len(s) = n + 1 PROVE s \in U
      OBVIOUS
    <2>1. s # <<>>
      BY EmptySeq
    <2>2. PICK t \in Seq(S), x \in S : s = Append(t, x)
      BY <2>1, SequenceEmptyOrAppend
    <2>3. Len(t) \in Nat /\ Len(s) = Len(t) + 1
      BY <2>2, AppendProperties, LenProperties
    <2>4. Len(t) = n
      BY <2>3
    <2>5. t \in U
      BY <2>4
    <2> QED  BY <2>2, <2>5
  <1> HIDE DEF T
  <1>3. T = Nat
    <2>1. T \in SUBSET Nat
      BY DEF T
    <2> QED  BY <1>1, <1>2, <2>1, CountUp
  <1>4. \A s \in Seq(S) : s \in U
    BY <1>3, LenProperties DEF T
  <1> QED  BY <1>4

-----------------------------------------------------------------------------
(* Keep *)

KeptFits(kept, s, T, n) ==
    kept = [b \in 0 .. n |->
               IF b = 0 THEN <<>>
               ELSE IF s[b] \in T THEN Append(kept[b - 1], s[b]) ELSE kept[b - 1]]

Kept(s, T) == CHOOSE kept : KeptFits(kept, s, T, Len(s))

LEMMA KeepIs ==
    ASSUME NEW s, NEW T
    PROVE  Keep(s, T) = Kept(s, T)[Len(s)]
  BY DEF Keep, Kept, KeptFits

LEMMA KeptExists ==
    ASSUME NEW s, NEW T, NEW n \in Nat
    PROVE  \E kept : KeptFits(kept, s, T, n)
  <1> DEFINE U == {m \in Nat : \E kept : KeptFits(kept, s, T, m)}
  <1>1. 0 \in U
    <2> DEFINE g == [b \in 0 .. 0 |-> <<>>]
    <2>1. KeptFits(g, s, T, 0)
      BY DEF KeptFits
    <2> QED  BY <2>1
  <1>2. ASSUME NEW m \in U PROVE m + 1 \in U
    <2>1. PICK g : KeptFits(g, s, T, m)
      OBVIOUS
    <2> DEFINE h == [b \in 0 .. m + 1 |->
                       IF b <= m THEN g[b]
                       ELSE IF s[b] \in T THEN Append(g[m], s[b]) ELSE g[m]]
    <2>2. m \in Nat
      OBVIOUS
    <2>3. \A b \in 0 .. m : h[b] = g[b]
      BY <2>2
    <2>4. \A b \in 1 .. m + 1 : h[b - 1] = g[b - 1] /\ (b > m => b - 1 = m)
      BY <2>2, <2>3
    <2>5. \A b \in 0 .. m :
             g[b] = IF b = 0 THEN <<>>
                    ELSE IF s[b] \in T THEN Append(g[b - 1], s[b]) ELSE g[b - 1]
      BY <2>1 DEF KeptFits
    <2>6. ASSUME NEW b \in 0 .. m + 1
          PROVE  h[b] = IF b = 0 THEN <<>>
                        ELSE IF s[b] \in T THEN Append(h[b - 1], s[b]) ELSE h[b - 1]
      <3>1. CASE b = 0
        BY <2>2, <2>3, <2>5, <3>1
      <3>2. CASE b \in 1 .. m
        <4>1. h[b] = g[b] /\ h[b - 1] = g[b - 1] /\ b # 0 /\ b \in 0 .. m
          BY <2>2, <2>3, <2>4, <3>2
        <4> HIDE DEF h
        <4> QED  BY <2>5, <4>1
      <3>3. CASE b = m + 1
        <4>1. ~(b <= m) /\ b # 0 /\ h[b - 1] = g[m]
          BY <2>2, <2>4, <3>3
        <4>2. h[b] = IF s[b] \in T THEN Append(g[m], s[b]) ELSE g[m]
          BY <4>1
        <4> HIDE DEF h
        <4> QED  BY <4>1, <4>2
      <3> QED  BY <2>2, <3>1, <3>2, <3>3
    <2>7. KeptFits(h, s, T, m + 1)
      <3>1. h = [b \in 0 .. m + 1 |-> h[b]]
        OBVIOUS
      <3> HIDE DEF h
      <3> QED  BY <2>6, <3>1 DEF KeptFits
    <2> HIDE DEF h
    <2> QED  BY <2>2, <2>7
  <1> HIDE DEF U
  <1>3. U = Nat
    <2>1. U \in SUBSET Nat
      BY DEF U
    <2> QED  BY <1>1, <1>2, <2>1, CountUp
  <1> QED  BY <1>3 DEF U

LEMMA KeptIs ==
    ASSUME NEW s, NEW T, Len(s) \in Nat
    PROVE  \A b \in 0 .. Len(s) :
              Kept(s, T)[b] =
                 IF b = 0 THEN <<>>
                 ELSE IF s[b] \in T THEN Append(Kept(s, T)[b - 1], s[b])
                      ELSE Kept(s, T)[b - 1]
  <1>1. KeptFits(Kept(s, T), s, T, Len(s))
    BY KeptExists DEF Kept
  <1> QED  BY <1>1 DEF KeptFits

\* Keep of a longer sequence goes on from Keep of the shorter one.
LEMMA KeepAppend ==
    ASSUME NEW S, NEW T, NEW s \in Seq(S), NEW x \in S
    PROVE  Keep(Append(s, x), T) =
              IF x \in T THEN Append(Keep(s, T), x) ELSE Keep(s, T)
  <1> DEFINE t == Append(s, x)
             f == Kept(s, T)
             g == Kept(t, T)
             l == Len(s)
  <1>1. /\ l \in Nat /\ t \in Seq(S) /\ Len(t) = l + 1 /\ t[l + 1] = x
        /\ \A b \in 1 .. l : t[b] = s[b]
    BY AppendProperties, LenProperties
  <1>2. \A b \in 0 .. l :
           f[b] = IF b = 0 THEN <<>>
                  ELSE IF s[b] \in T THEN Append(f[b - 1], s[b]) ELSE f[b - 1]
    BY <1>1, KeptIs
  <1>3. \A b \in 0 .. l + 1 :
           g[b] = IF b = 0 THEN <<>>
                  ELSE IF t[b] \in T THEN Append(g[b - 1], t[b]) ELSE g[b - 1]
    <2>1. Len(t) \in Nat
      BY <1>1
    <2> HIDE DEF t
    <2> QED  BY <1>1, <2>1, KeptIs
  <1>4. Keep(s, T) = f[l] /\ Keep(t, T) = g[l + 1]
    BY <1>1, KeepIs
  <1> HIDE DEF t, f, g, l
  <1> DEFINE U == {b \in Nat : b <= l => g[b] = f[b]}
  <1>5. 0 \in U
    BY <1>1, <1>2, <1>3
  <1>6. ASSUME NEW b \in U PROVE b + 1 \in U
    <2> SUFFICES ASSUME b + 1 <= l PROVE g[b + 1] = f[b + 1]
      OBVIOUS
    <2>1. /\ b \in Nat /\ b + 1 \in 1 .. l /\ b + 1 \in 0 .. l
          /\ b + 1 \in 0 .. l + 1 /\ (b + 1) - 1 = b /\ b + 1 # 0 /\ b <= l
      BY <1>1
    <2>2. g[b] = f[b] /\ t[b + 1] = s[b + 1]
      BY <1>1, <2>1
    <2>3. f[b + 1] = IF s[b + 1] \in T THEN Append(f[b], s[b + 1]) ELSE f[b]
      BY <1>2, <2>1
    <2>4. g[b + 1] = IF t[b + 1] \in T THEN Append(g[b], t[b + 1]) ELSE g[b]
      BY <1>3, <2>1
    <2> QED  BY <2>2, <2>3, <2>4
  <1> HIDE DEF U
  <1>7. U = Nat
    <2>1. U \in SUBSET Nat
      BY DEF U
    <2> QED  BY <1>5, <1>6, <2>1, CountUp
  <1>8. g[l] = f[l]
    BY <1>1, <1>7 DEF U
  <1>9. g[l + 1] = IF x \in T THEN Append(g[l], x) ELSE g[l]
    <2>1. l + 1 \in 0 .. l + 1 /\ l + 1 # 0 /\ (l + 1) - 1 = l
      BY <1>1
    <2> QED  BY <1>1, <1>3, <2>1
  <1> QED  BY <1>4, <1>8, <1>9 DEF t

LEMMA KeepNone == \A T : Keep(<<>>, T) = <<>>
  <1> TAKE T
  <1>1. Len(<<>>) = 0
    OBVIOUS
  <1>2. Kept(<<>>, T)[0] = <<>>
    BY <1>1, KeptIs
  <1> QED  BY <1>1, <1>2, KeepIs

LEMMA KeepType ==
    ASSUME NEW S, NEW T, NEW s \in Seq(S)
    PROVE  Keep(s, T) \in Seq(S)
  <1> DEFINE U == {t \in Seq(S) : Keep(t, T) \in Seq(S)}
  <1>1. <<>> \in U
    <2>1. <<>> \in Seq(S) /\ Keep(<<>>, T) = <<>>
      BY KeepNone
    <2> QED  BY <2>1
  <1>2. ASSUME NEW t \in U, NEW x \in S PROVE Append(t, x) \in U
    <2>1. t \in Seq(S) /\ Keep(t, T) \in Seq(S)
      OBVIOUS
    <2> HIDE DEF U
    <2>2. Append(t, x) \in Seq(S)
      BY <2>1, AppendProperties
    <2>3. \A u \in Seq(S) : Append(u, x) \in Seq(S)
      BY AppendProperties
    <2>4. Keep(Append(t, x), T) =
             IF x \in T THEN Append(Keep(t, T), x) ELSE Keep(t, T)
      <3>1. PICK u \in Seq(S) : u = t
        BY <2>1
      <3>2. Keep(Append(u, x), T) =
               IF x \in T THEN Append(Keep(u, T), x) ELSE Keep(u, T)
        BY KeepAppend
      <3> QED  BY <3>1, <3>2
    <2>5. Keep(Append(t, x), T) \in Seq(S)
      BY <2>1, <2>3, <2>4, Zenon
    <2> QED  BY <2>2, <2>5 DEF U
  <1> HIDE DEF U
  <1>3. U = Seq(S)
    <2>1. U \in SUBSET Seq(S)
      BY DEF U
    <2> QED  BY <1>1, <1>2, <2>1, GrowSequences
  <1> QED  BY <1>3 DEF U

\* Keeping can be done piece by piece.
LEMMA KeepJoin ==
    ASSUME NEW S, NEW T, NEW s \in Seq(S), NEW t \in Seq(S)
    PROVE  Keep(s \o t, T) = Keep(s, T) \o Keep(t, T)
  <1> DEFINE U == {u \in Seq(S) : Keep(s \o u, T) = Keep(s, T) \o Keep(u, T)}
  <1>0. Keep(s, T) \in Seq(S)
    BY KeepType
  <1>1. <<>> \in U
    <2>1. <<>> \in Seq(S) /\ s \o <<>> = s
      BY ConcatEmptySeq
    <2>2. Keep(s, T) \o <<>> = Keep(s, T)
      BY <1>0, ConcatEmptySeq
    <2> QED  BY <2>1, <2>2, KeepNone
  <1>2. ASSUME NEW u \in U, NEW x \in S PROVE Append(u, x) \in U
    <2>1. /\ u \in Seq(S) /\ s \o u \in Seq(S) /\ Append(u, x) \in Seq(S)
          /\ <<x>> \in Seq(S) /\ Keep(u, T) \in Seq(S)
      BY ConcatProperties, AppendProperties, KeepType
    <2>2. s \o Append(u, x) = Append(s \o u, x)
      <3>1. Append(u, x) = u \o <<x>> /\ Append(s \o u, x) = (s \o u) \o <<x>>
        BY <2>1, AppendIsConcat
      <3>2. (s \o u) \o <<x>> = s \o (u \o <<x>>)
        BY <2>1, ConcatAssociative
      <3> QED  BY <3>1, <3>2
    <2>3. Keep(s \o u, T) = Keep(s, T) \o Keep(u, T)
      OBVIOUS
    <2>4. Keep(Append(s \o u, x), T) =
             IF x \in T THEN Append(Keep(s \o u, T), x) ELSE Keep(s \o u, T)
      <3>1. PICK v \in Seq(S) : v = s \o u
        BY <2>1
      <3>2. Keep(Append(v, x), T) =
               IF x \in T THEN Append(Keep(v, T), x) ELSE Keep(v, T)
        BY KeepAppend
      <3> QED  BY <3>1, <3>2
    <2>5. Keep(Append(u, x), T) = IF x \in T THEN Append(Keep(u, T), x) ELSE Keep(u, T)
      BY <2>1, KeepAppend
    <2>6. Append(Keep(s, T) \o Keep(u, T), x) = Keep(s, T) \o Append(Keep(u, T), x)
      <3> DEFINE k1 == Keep(s, T)
                 k2 == Keep(u, T)
      <3>1. k1 \in Seq(S) /\ k2 \in Seq(S)
        BY <1>0, <2>1
      <3> HIDE DEF k1, k2
      <3>2. k1 \o k2 \in Seq(S)
        BY <3>1, ConcatProperties
      <3>3. Append(k2, x) = k2 \o <<x>> /\ Append(k1 \o k2, x) = (k1 \o k2) \o <<x>>
        BY <3>1, <3>2, AppendIsConcat
      <3>4. (k1 \o k2) \o <<x>> = k1 \o (k2 \o <<x>>)
        <4>1. PICK o \in Seq(S) : o = <<x>>
          BY <2>1
        <4>2. (k1 \o k2) \o o = k1 \o (k2 \o o)
          BY <3>1, ConcatAssociative
        <4> QED  BY <4>1, <4>2
      <3>5. Append(k1 \o k2, x) = k1 \o Append(k2, x)
        BY <3>3, <3>4
      <3> QED  BY <3>5 DEF k1, k2
    <2> QED  BY <2>1, <2>2, <2>3, <2>4, <2>5, <2>6
  <1> HIDE DEF U
  <1>3. U = Seq(S)
    <2>1. U \in SUBSET Seq(S)
      BY DEF U
    <2> QED  BY <1>1, <1>2, <2>1, GrowSequences
  <1> QED  BY <1>3 DEF U

-----------------------------------------------------------------------------
(* FlattenSeq *)

LEMMA FlattenIs ==
    ASSUME NEW q, NEW n \in Nat \ {0}, Len(q) = n, NEW f,
           \A b \in 1 .. n : f[b] = IF b = 1 THEN q[b] ELSE f[b - 1] \o q[b]
    PROVE  FlattenSeq(q) = f[n]
  <1> DEFINE Fits(h) == h = [b \in 1 .. Len(q) |->
                               IF b = 1 THEN q[b] ELSE h[b - 1] \o q[b]]
             g == CHOOSE h : Fits(h)
             e == [b \in 1 .. n |-> f[b]]
  <1>1. Fits(e)
    <2>1. \A b \in 1 .. n : e[b] = f[b] /\ (b # 1 => e[b - 1] = f[b - 1])
      OBVIOUS
    <2>2. \A b \in 1 .. n : f[b] = IF b = 1 THEN q[b] ELSE e[b - 1] \o q[b]
      BY <2>1
    <2> QED  BY <2>2
  <1>2. Fits(g)
    BY <1>1
  <1>3. FlattenSeq(q) = g[n]
    BY DEF FlattenSeq
  <1>4. \A b \in 1 .. n : g[b] = IF b = 1 THEN q[b] ELSE g[b - 1] \o q[b]
    BY <1>2
  <1>5. \A b \in 1 .. n : f[b] = IF b = 1 THEN q[b] ELSE f[b - 1] \o q[b]
    OBVIOUS
  <1> HIDE DEF g, Fits, e
  <1> DEFINE U == {m \in Nat : m < n => g[m + 1] = f[m + 1]}
  <1>6. 0 \in U
    <2>1. 1 \in 1 .. n
      OBVIOUS
    <2>2. g[1] = q[1] /\ f[1] = q[1]
      BY <1>4, <1>5, <2>1
    <2> QED  BY <2>2
  <1>7. ASSUME NEW m \in U PROVE m + 1 \in U
    <2> SUFFICES ASSUME m + 1 < n PROVE g[(m + 1) + 1] = f[(m + 1) + 1]
      OBVIOUS
    <2> DEFINE b == (m + 1) + 1
    <2>1. m \in Nat /\ m < n /\ b \in 1 .. n /\ b # 1 /\ b - 1 = m + 1
      OBVIOUS
    <2>2. g[m + 1] = f[m + 1]
      BY <2>1
    <2> HIDE DEF b
    <2>3. g[b] = g[b - 1] \o q[b] /\ f[b] = f[b - 1] \o q[b]
      BY <1>4, <1>5, <2>1
    <2>4. g[b] = f[b]
      BY <2>1, <2>2, <2>3
    <2> QED  BY <2>4 DEF b
  <1> HIDE DEF U
  <1>8. U = Nat
    <2>1. U \in SUBSET Nat
      BY DEF U
    <2> QED  BY <1>6, <1>7, <2>1, CountUp
  <1>9. n - 1 \in U /\ (n - 1) + 1 = n /\ n - 1 < n
    BY <1>8
  <1> QED  BY <1>3, <1>9 DEF U

\* Where a walk through l elements in steps of size is after p of them.
Cut(p, size, l) == IF p * size <= l THEN p * size ELSE l

LEMMA CutIs ==
    ASSUME NEW size \in Nat \ {0}, NEW l \in Nat, NEW p \in Nat \ {0}
    PROVE  /\ (p - 1) * size \in Nat /\ p * size \in Nat
           /\ (p - 1) * size + size = p * size
           /\ Cut(p, size, l) \in 0 .. l /\ Cut(p - 1, size, l) \in 0 .. Cut(p, size, l)
           /\ Cut(p, size, l) - Cut(p - 1, size, l) <= size
           /\ Cut(0, size, l) = 0
  <1>1. PICK m \in Nat : m = p - 1
    OBVIOUS
  <1>2. m * size \in Nat /\ p = m + 1
    BY <1>1, TimesNat
  <1>3. p * size = m * size + size
    BY <1>2
  <1>4. (p - 1) * size = m * size
    BY <1>1
  <1>5. PICK x \in Nat : x = m * size
    BY <1>2
  <1>6. /\ Cut(p, size, l) = IF x + size <= l THEN x + size ELSE l
        /\ Cut(p - 1, size, l) = IF x <= l THEN x ELSE l
    BY <1>1, <1>3, <1>5 DEF Cut
  <1>7. Cut(0, size, l) = 0
    BY DEF Cut
  <1> QED  BY <1>3, <1>4, <1>5, <1>6, <1>7

\* Consecutive pieces of a sequence, flattened, are the sequence, and what is
\* kept of them is what is kept of it.
KeptIf(keeps, s, T) == IF keeps THEN Keep(s, T) ELSE s
Pieces(q, n, keeps, T, all, size) ==
    /\ Len(q) = n
    /\ \A p \in 1 .. n :
          q[p] = KeptIf(keeps, SubSeq(all, Cut(p - 1, size, Len(all)) + 1,
                                      Cut(p, size, Len(all))), T)

LEMMA FlattenCuts ==
    ASSUME NEW S, NEW T, NEW all \in Seq(S), NEW size \in Nat \ {0},
           NEW n \in Nat \ {0}, Len(all) <= n * size, NEW keeps \in BOOLEAN,
           NEW q, Pieces(q, n, keeps, T, all, size)
    PROVE  FlattenSeq(q) = KeptIf(keeps, all, T)
  <1> DEFINE l == Len(all)
             C(p) == Cut(p, size, l)
             K(s) == KeptIf(keeps, s, T)
             f == [p \in 1 .. n |-> K(SubSeq(all, 1, C(p)))]
  <1>1. l \in Nat
    BY LenProperties
  <1>2. C(0) = 0 /\ C(n) = l
    BY <1>1, CutIs DEF Cut
  <1>3. \A p \in 1 .. n : C(p) \in 0 .. l /\ C(p - 1) \in 0 .. C(p)
    <2> TAKE p \in 1 .. n
    <2>1. PICK m \in Nat : m = l
      BY <1>1
    <2>2. p \in Nat \ {0}
      OBVIOUS
    <2>3. Cut(p, size, m) \in 0 .. m /\ Cut(p - 1, size, m) \in 0 .. Cut(p, size, m)
      BY <2>2, CutIs
    <2> QED  BY <2>1, <2>3
  <1>4. \A s, t \in Seq(S) : K(s \o t) = K(s) \o K(t)
    BY KeepJoin DEF KeptIf
  <1>5. Len(q) = n /\ \A p \in 1 .. n : q[p] = K(SubSeq(all, C(p - 1) + 1, C(p)))
    BY DEF Pieces
  <1>6. \A p \in 1 .. n : f[p] = K(SubSeq(all, 1, C(p)))
    OBVIOUS
  <1>8. \A x, y \in 0 .. l : SubSeq(all, x + 1, y) \in Seq(S)
    <2> SUFFICES ASSUME NEW x \in 0 .. l, NEW y \in 0 .. l
                 PROVE  SubSeq(all, x + 1, y) \in Seq(S)
      OBVIOUS
    <2>1. \A b \in x + 1 .. y : b \in 1 .. Len(all)
      BY <1>1
    <2>2. \A b \in x + 1 .. y : all[b] \in S
      BY <2>1, ElementOfSeq
    <2>3. x + 1 \in Int /\ y \in Int
      BY <1>1
    <2> QED  BY <2>2, <2>3, SubSeqProperties
  <1> HIDE DEF f, C, K
  <1>9. ASSUME NEW p \in 1 .. n
        PROVE  f[p] = IF p = 1 THEN q[p] ELSE f[p - 1] \o q[p]
    <2>1. CASE p = 1
      <3>1. q[p] = K(SubSeq(all, C(0) + 1, C(p)))
        BY <1>5, <2>1
      <3>2. q[p] = K(SubSeq(all, 1, C(p)))
        BY <1>2, <3>1
      <3> QED  BY <1>6, <2>1, <3>2
    <2>2. CASE p # 1
      <3>1. p - 1 \in 1 .. n
        BY <2>2
      <3>2. /\ C(p) \in 0 .. l /\ C(p - 1) \in 0 .. C(p) /\ C(p - 1) \in 0 .. l
        BY <1>1, <1>3
      <3>3. SubSeq(all, 1, C(p - 1)) \o SubSeq(all, C(p - 1) + 1, C(p))
               = SubSeq(all, 1, C(p))
        <4>1. PICK x \in 0 .. l, y \in 0 .. l : x = C(p - 1) /\ y = C(p) /\ x <= y
          BY <1>1, <3>2
        <4>2. 1 \in 1 .. Len(all) + 1 /\ x \in 1 - 1 .. Len(all) /\ y \in x .. Len(all)
          BY <1>1, <4>1
        <4>3. SubSeq(all, 1, x) \o SubSeq(all, x + 1, y) = SubSeq(all, 1, y)
          BY <4>2, ConcatAdjacentSubSeq
        <4> QED  BY <4>1, <4>3
      <3>4. /\ SubSeq(all, 1, C(p - 1)) \in Seq(S)
            /\ SubSeq(all, C(p - 1) + 1, C(p)) \in Seq(S)
        <4>1. 0 \in 0 .. l /\ 0 + 1 = 1
          BY <1>1
        <4> QED  BY <1>8, <3>2, <4>1
      <3>5. K(SubSeq(all, 1, C(p)))
               = K(SubSeq(all, 1, C(p - 1))) \o K(SubSeq(all, C(p - 1) + 1, C(p)))
        BY <1>4, <3>3, <3>4
      <3> QED  BY <1>5, <1>6, <2>2, <3>1, <3>5
    <2> QED  BY <2>1, <2>2
  <1>10. \A p \in 1 .. n : f[p] = IF p = 1 THEN q[p] ELSE f[p - 1] \o q[p]
    BY <1>9
  <1>11. FlattenSeq(q) = f[n]
    <2>1. PICK g : g = f
      OBVIOUS
    <2>2. \A b \in 1 .. n : g[b] = IF b = 1 THEN q[b] ELSE g[b - 1] \o q[b]
      BY <1>10, <2>1
    <2>3. FlattenSeq(q) = g[n]
      BY <1>5, <2>2, FlattenIs
    <2> QED  BY <2>1, <2>3
  <1>12. f[n] = K(SubSeq(all, 1, l))
    BY <1>2, <1>6
  <1>13. SubSeq(all, 1, l) = all
    BY SubSeqFull
  <1> QED  BY <1>11, <1>12, <1>13 DEF K

-----------------------------------------------------------------------------
(* Pages and windows *)

\* A page lies between two cuts of the walk.
LEMMA PageIs ==
    ASSUME NEW S, NEW all \in Seq(S), NEW size \in Nat \ {0}, NEW p \in Nat \ {0}
    PROVE  /\ Page(all, p, size) = SubSeq(all, Cut(p - 1, size, Len(all)) + 1,
                                               Cut(p, size, Len(all)))
           /\ Len(Page(all, p, size))
                  = Cut(p, size, Len(all)) - Cut(p - 1, size, Len(all))
  <1>1. PICK l \in Nat : l = Len(all)
    BY LenProperties
  <1>2. PICK x \in Nat : x = (p - 1) * size /\ p * size = x + size
    BY CutIs
  <1>3. /\ Cut(p, size, l) = IF x + size <= l THEN x + size ELSE l
        /\ Cut(p - 1, size, l) = IF x <= l THEN x ELSE l
    BY <1>2 DEF Cut
  <1>4. PICK y, z \in 0 .. l : /\ z = Cut(p, size, l) /\ y = Cut(p - 1, size, l)
                               /\ y <= z
    <2>1. Cut(p, size, l) \in 0 .. l /\ Cut(p - 1, size, l) \in 0 .. Cut(p, size, l)
      BY CutIs
    <2>2. PICK y, z : y = Cut(p - 1, size, l) /\ z = Cut(p, size, l)
      OBVIOUS
    <2>3. z \in 0 .. l /\ y \in 0 .. z
      BY <2>1, <2>2
    <2>4. y \in 0 .. l /\ y <= z
      BY <2>3
    <2> QED  BY <2>2, <2>3, <2>4
  <1>5. Min({x + size, l}) = z
    BY <1>3, <1>4, MinOfTwo
  <1>6. Page(all, p, size) = SubSeq(all, x + 1, z)
    BY <1>1, <1>2, <1>5 DEF Page
  <1>7. SubSeq(all, x + 1, z) = SubSeq(all, y + 1, z)
    <2>1. CASE x <= l
      BY <1>3, <1>4, <2>1
    <2>2. CASE ~(x <= l)
      <3>1. z < x + 1 /\ z < y + 1
        BY <1>3, <1>4, <2>2
      <3>2. SubSeq(all, x + 1, z) = <<>> /\ SubSeq(all, y + 1, z) = <<>>
        BY <3>1, SubSeqEmpty
      <3> QED  BY <3>2
    <2> QED  BY <2>1, <2>2
  <1>8. Len(SubSeq(all, y + 1, z)) = z - y
    <2>1. \A b \in y + 1 .. z : b \in 1 .. Len(all)
      BY <1>1
    <2>2. \A b \in y + 1 .. z : all[b] \in S
      BY <2>1, ElementOfSeq
    <2>3. PICK v \in Int : v = y + 1
      OBVIOUS
    <2>4. Len(SubSeq(all, v, z)) = IF v <= z THEN z - v + 1 ELSE 0
      BY <2>2, <2>3, SubSeqProperties
    <2> QED  BY <1>4, <2>3, <2>4
  <1> QED  BY <1>1, <1>4, <1>6, <1>7, <1>8

LEMMA OffsetsFound ==
    ASSUME LoadedChunkEntries \in Seq(Records)
    PROVE  Search \in Seq(Nat)
  <1>1. PICK l \in Nat : l = Len(LoadedChunkEntries)
    BY LenProperties
  <1>2. PICK s : s = [o \in 1 .. Len(LoadedChunkEntries) |-> o - 1]
    OBVIOUS
  <1>3. s \in Seq(Nat)
    BY <1>1, <1>2
  <1> QED  BY <1>2, <1>3, KeepType DEF Search

LEMMA PagesAre ==
    ASSUME LoadedChunkEntries \in Seq(Records), NEW size \in Nat \ {0}
    PROVE  PagesPartition(size)
  <1>1. PICK all \in Seq(Nat) : all = Search
    BY OffsetsFound
  <1>2. PICK l \in Nat : l = Len(all)
    BY LenProperties
  <1>3. PICK n \in Nat \ {0} : n = l + 1
    BY <1>2
  <1>4. PICK q : q = [p \in 1 .. Len(Search) + 1 |-> SearchPaged(p, size)]
    OBVIOUS
  <1>5. /\ \A p \in 1 .. n : q[p] = Page(all, p, size)
        /\ Len(q) = n /\ SearchPaged(0, size) = Page(all, 1, size)
    <2>1. \A p \in 1 .. n : ~(p < 1) /\ p \in Int
      OBVIOUS
    <2>2. ~(size < 1) /\ 0 < 1
      OBVIOUS
    <2>3. q = [p \in 1 .. n |-> SearchPaged(p, size)]
      BY <1>1, <1>2, <1>3, <1>4
    <2>4. Len(q) = n
      BY <2>3
    <2> QED  BY <1>1, <2>1, <2>2, <2>3, <2>4 DEF SearchPaged
  <1>6. l <= n * size /\ l <= l * size
    <2>1. 1 * n <= size * n /\ 1 * l <= size * l
      BY TimesGrows
    <2>2. size * n = n * size /\ size * l = l * size /\ 1 * n = n /\ 1 * l = l
      OBVIOUS
    <2>3. n * size \in Nat
      BY TimesNat
    <2> QED  BY <1>3, <2>1, <2>2, <2>3
  <1>7. FlattenSeq(q) = all
    <2>1. \A p \in 1 .. n :
             q[p] = SubSeq(all, Cut(p - 1, size, l) + 1, Cut(p, size, l))
      <3> TAKE p \in 1 .. n
      <3>1. p \in Nat \ {0}
        OBVIOUS
      <3> QED  BY <1>2, <1>5, <3>1, PageIs
    <2>2. PICK keeps \in BOOLEAN : keeps = FALSE
      OBVIOUS
    <2>3. Pieces(q, n, keeps, {}, all, size)
      BY <1>2, <1>5, <2>1, <2>2 DEF Pieces, KeptIf
    <2>4. FlattenSeq(q) = KeptIf(keeps, all, {})
      BY <1>2, <1>6, <2>3, FlattenCuts
    <2> QED  BY <2>2, <2>4 DEF KeptIf
  <1>8. Last(q) = <<>>
    <2>1. Last(q) = Page(all, n, size)
      BY <1>5 DEF Last
    <2>2. (n - 1) * size = l * size
      BY <1>3
    <2>3. PICK x \in Nat : x = l * size /\ l <= x
      BY <1>6, TimesNat
    <2>4. PICK m \in Int : m = Min({x + size, l}) /\ m <= l
      BY MinOfTwo
    <2>5. Page(all, n, size) = SubSeq(all, x + 1, m)
      BY <1>2, <2>2, <2>3, <2>4 DEF Page
    <2>6. m < x + 1
      <3>1. m <= l /\ l <= x
        BY <2>3, <2>4, Zenon
      <3>2. m \in Int /\ x \in Int /\ l \in Int
        BY <1>2
      <3> QED  BY ONLY <3>1, <3>2
    <2>7. SubSeq(all, x + 1, m) = <<>>
      BY <2>6, SubSeqEmpty
    <2> QED  BY <2>1, <2>5, <2>7
  <1>9. \A p \in 1 .. n : Len(q[p]) <= size
    <2> TAKE p \in 1 .. n
    <2>1. p \in Nat \ {0}
      OBVIOUS
    <2>2. Len(q[p]) = Cut(p, size, l) - Cut(p - 1, size, l)
      BY <1>2, <1>5, <2>1, PageIs
    <2>3. Cut(p, size, l) - Cut(p - 1, size, l) <= size
      BY <2>1, CutIs
    <2> QED  BY <2>2, <2>3
  <1>10. SearchPaged(0, size) = q[1] /\ DOMAIN q = 1 .. n
    <2>1. 1 \in 1 .. n
      BY <1>3
    <2> QED  BY <1>1, <1>2, <1>3, <1>4, <1>5, <2>1
  <1> QED  BY <1>1, <1>4, <1>7, <1>8, <1>9, <1>10 DEF PagesPartition

LEMMA WindowsAre ==
    ASSUME LoadedChunkEntries \in Seq(Records), NEW size \in Nat \ {0}
    PROVE  WindowsCover(size)
  <1>1. PICK all \in Seq(Records) : all = LoadedChunkEntries
    OBVIOUS
  <1>2. PICK l \in Nat : l = Len(all)
    BY LenProperties
  <1>3. PICK last \in Nat : last = l \div size /\ last * size <= l
                           /\ l < last * size + size
    <2>1. l \div size \in Nat
      OBVIOUS
    <2>2. l % size \in 0 .. size - 1 /\ l = (l \div size) * size + (l % size)
      OBVIOUS
    <2>3. PICK d \in Nat : d = l \div size
      BY <2>1
    <2>4. PICK r \in 0 .. size - 1 : r = l % size
      BY <2>2
    <2>5. l = d * size + r
      BY <2>2, <2>3, <2>4
    <2>6. d * size \in Nat
      BY TimesNat
    <2>7. d * size <= l /\ l < d * size + size
      BY <2>5, <2>6
    <2> QED  BY <2>3, <2>7
  <1>4. PICK n \in Nat \ {0} : n = last + 1
    BY <1>3
  <1>5. n * size = last * size + size /\ last * size \in Nat
    <2>1. last * size \in Nat
      BY TimesNat
    <2> QED  BY <1>4, <2>1
  <1>6. \A w \in 1 .. n :
           /\ QueryChunkWithMeta((w - 1) * size, size) = Page(all, w, size)
           /\ QueryChunk((w - 1) * size, size) = Keep(Page(all, w, size), Texts)
    <2> TAKE w \in 1 .. n
    <2>1. w - 1 \in Nat /\ w - 1 <= last
      BY <1>4
    <2>2. PICK x \in Nat : x = (w - 1) * size /\ x <= l
      <3>1. (w - 1) * size \in Nat /\ (w - 1) * size <= last * size
        BY <2>1, TimesNat, TimesGrows
      <3> QED  BY <1>3, <1>5, <3>1
    <2>3. QueryChunkWithMeta(x, size) = SubSeq(all, x + 1, Min({x + size, l}))
      <3>1. ~(x < 0) /\ ~(size <= 0) /\ ~(x > l)
        BY <2>2
      <3>2. ~(x < 0 \/ size <= 0) /\ ~(x > Len(LoadedChunkEntries))
        BY <1>1, <1>2, <3>1
      <3> QED  BY <1>1, <1>2, <3>2 DEF QueryChunkWithMeta, Window
    <2>4. Page(all, w, size) = SubSeq(all, x + 1, Min({x + size, l}))
      BY <1>2, <2>2 DEF Page
    <2>5. QueryChunk(x, size) = Keep(QueryChunkWithMeta(x, size), Texts)
      BY <1>1, <1>2, <2>2 DEF QueryChunk
    <2> QED  BY <2>2, <2>3, <2>4, <2>5
  <1>7. PICK q, k : /\ q = [w \in 1 .. last + 1 |-> QueryChunkWithMeta((w - 1) * size, size)]
                    /\ k = [w \in 1 .. last + 1 |-> QueryChunk((w - 1) * size, size)]
    OBVIOUS
  <1>8. /\ Len(q) = n /\ \A w \in 1 .. n : q[w] = Page(all, w, size)
        /\ Len(k) = n /\ \A w \in 1 .. n : k[w] = Keep(Page(all, w, size), Texts)
    <2>1. Len(q) = n /\ Len(k) = n
      BY <1>4, <1>7
    <2> QED  BY <1>4, <1>6, <1>7, <2>1
  <1>9. \A w \in 1 .. n :
           Page(all, w, size) = SubSeq(all, Cut(w - 1, size, l) + 1, Cut(w, size, l))
    <2> TAKE w \in 1 .. n
    <2>1. w \in Nat \ {0}
      OBVIOUS
    <2> QED  BY <1>2, <2>1, PageIs
  <1>10. l <= n * size
    BY <1>3, <1>5
  <1>11. FlattenSeq(q) = all
    <2>1. \A w \in 1 .. n :
             q[w] = SubSeq(all, Cut(w - 1, size, l) + 1, Cut(w, size, l))
      BY <1>8, <1>9
    <2>2. PICK keeps \in BOOLEAN : keeps = FALSE
      OBVIOUS
    <2>3. Pieces(q, n, keeps, {}, all, size)
      BY <1>2, <1>8, <2>1, <2>2 DEF Pieces, KeptIf
    <2>4. FlattenSeq(q) = KeptIf(keeps, all, {})
      BY <1>2, <1>10, <2>3, FlattenCuts
    <2> QED  BY <2>2, <2>4 DEF KeptIf
  <1>12. FlattenSeq(k) = Keep(all, Texts)
    <2>1. \A w \in 1 .. n :
             k[w] = Keep(SubSeq(all, Cut(w - 1, size, l) + 1, Cut(w, size, l)), Texts)
      BY <1>8, <1>9
    <2>2. PICK keeps \in BOOLEAN : keeps = TRUE
      OBVIOUS
    <2>3. Pieces(k, n, keeps, Texts, all, size)
      BY <1>2, <1>8, <2>1, <2>2 DEF Pieces, KeptIf
    <2>4. FlattenSeq(k) = KeptIf(keeps, all, Texts)
      BY <1>2, <1>10, <2>3, FlattenCuts
    <2> QED  BY <2>2, <2>4 DEF KeptIf
  <1>13. Len(Last(q)) < size
    <2>1. Last(q) = Page(all, n, size)
      BY <1>8 DEF Last
    <2>2. Len(Page(all, n, size)) = Cut(n, size, l) - Cut(n - 1, size, l)
      BY <1>2, PageIs
    <2>3. PICK x \in Nat : x = last * size
      BY <1>5
    <2>4. (n - 1) * size = x /\ n * size = x + size /\ x <= l /\ l < x + size
      BY <1>3, <1>4, <1>5, <2>3
    <2>5. Cut(n, size, l) = l /\ Cut(n - 1, size, l) = x
      BY <2>4 DEF Cut
    <2> QED  BY <2>1, <2>2, <2>4, <2>5
  <1> QED  BY <1>1, <1>2, <1>3, <1>7, <1>11, <1>12, <1>13 DEF WindowsCover

LEMMA QueriesAre ==
    LoadedChunkEntries \in Seq(Records) => QueriesPartition
  <1>1. \A size \in PageSizes : size \in Nat \ {0}
    BY PagesAssumption
  <1> QED  BY <1>1, PagesAre, WindowsAre DEF QueriesPartition

\* A client that walks a loaded chunk sees everything once: its hits page by
\* page, its entries and its texts window by window.
THEOREM QueriesSeeAll == TemporalSpec => []QueriesPartition
  <1>1. TInv => LoadedChunkEntries \in Seq(Records)
    BY DEF TInv, ChunkInv, EntriesInv
  <1>2. TInv => QueriesPartition
    BY <1>1, QueriesAre
  <1> QED  BY <1>2, TInvHolds, PTL
=============================================================================
