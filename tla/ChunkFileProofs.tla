-------------------------- MODULE ChunkFileProofs --------------------------
(* What the files and the loads of ChunkFile guarantee for any number of    *)
(* names, writers, exporters and loaders and any region size.               *)
EXTENDS ChunkFile, ActiveRegionProofs

Writing == {"header", "entry", "data", "done"}
Busy(x) == epc[x] # "idle"

\* No two exports share a name.
Exclusive ==
    \A x, y \in Exporters : (x # y /\ Busy(x) /\ Busy(y)) => name[x] # name[y]

\* Record e is one that may follow these: of its slot, no newer than fill g,
\* and none before it is newer where it was settled.
Follows(e, recs, g) ==
    /\ e.data.fill >= 0 => e.data.slot = Len(recs)
    /\ e.data.fill <= g
    /\ e.settled => \A s \in 1 .. Len(recs) : recs[s].data.fill <= e.data.fill

\* A file has what HeaderBounds and RecordsInOrder say, and nothing from
\* fills after g.
FileOK(f, g) ==
    /\ IF f.head = "headed"
       THEN Len(f.recs) + (IF f.tail = "none" THEN 0 ELSE 1) <= f.count
       ELSE f.recs = <<>> /\ f.tail = "none"
    /\ \A r \in 1 .. Len(f.recs) :
           /\ f.recs[r].data.fill >= 0 => f.recs[r].data.slot = r - 1
           /\ f.recs[r].data.fill <= g
           /\ f.recs[r].settled =>
                  \A s \in 1 .. r : f.recs[s].data.fill <= f.recs[r].data.fill

FilesOK == \A k \in Kinds, n \in Names : FileOK(file[k][n], fill)

\* The file of an export all of whose writes so far have got through.
Current(x) ==
    /\ epc[x] # "header" =>
           /\ Out(x).head = "headed" /\ Out(x).count = count[x]
           /\ Len(Out(x).recs) = i[x]
           /\ Out(x).tail = IF epc[x] = "data" THEN "fields" ELSE "none"
    /\ epc[x] = "data" => Follows(held[x], Out(x).recs, fill)

EInv(x) ==
    /\ epc[x] \in Writing =>
           /\ i[x] <= count[x]
           /\ ~full \/ calm[x] => Current(x)
    /\ epc[x] = "header" => i[x] = 0 /\ Out(x).head = "created"
    /\ epc[x] = "create" => i[x] = 0
    /\ epc[x] = "data" => i[x] < count[x] /\ kind[x] = "chunk"
    /\ epc[x] = "idle" => ~dumping[x]

\* What a file has of settled slots is of fill g, and those were counted.
Sure(f, D, g) ==
    \A r \in 1 .. Len(f.recs) : f.recs[r].settled =>
        f.recs[r].data = Message(g, r - 1) /\ r - 1 \in D

\* Of the slots S the file has the messages of fill g, as far as it goes.
Has(f, S, g) ==
    \A s \in S : s < Len(f.recs) => f.recs[s + 1].data = Message(g, s)

\* What the chunk c has of slots that were settled, and are, the index f has
\* so, too.
Covers(c, f, S) ==
    \A r \in 1 .. Len(c.recs) :
        (c.recs[r].settled /\ r - 1 \in S /\ r <= Len(f.recs)) =>
            f.recs[r].settled

\* A calm export counted slots that still count.
Counted(x) ==
    /\ count[x] <= committed
    /\ solid[x] \subseteq done /\ solid[x] \subseteq 0 .. count[x] - 1

\* The entry it was given is of the active region.
Holding(x) ==
    /\ at[x] = fill
    /\ held[x].settled => held[x].data = Message(fill, i[x]) /\ i[x] \in done
    /\ i[x] \in solid[x] \cap settled => held[x].data = Message(fill, i[x])

\* What it has written are settled slots of the active region and others, and
\* so is the chunk of a calm dump that has got to its index.
CInv(x) ==
    calm[x] =>
        /\ epc[x] \in Writing \cup {"create"} => Counted(x)
        /\ epc[x] \in Writing => /\ Sure(Out(x), done, fill)
                                 /\ Has(Out(x), solid[x] \cap settled, fill)
        /\ epc[x] = "data" => Holding(x)
        /\ epc[x] = "done" => i[x] = count[x]
        /\ (dumping[x] /\ kind[x] = "index") =>
               LET c == file["chunk"][name[x]]
               IN  /\ Sure(c, done, fill) /\ Len(c.recs) <= committed
                   /\ epc[x] \in Writing \cup {"create"} =>
                          Len(c.recs) <= count[x]
                   /\ epc[x] \in Writing => Covers(c, Out(x), settled)

\* What a load that is alone has stored is what its file has.
Stored(l, f) ==
    /\ f.head = "headed" /\ f.count = lcount[l] /\ j[l] <= lcount[l]
    /\ Len(LoadedChunkEntries) = lcount[l]
    /\ \A r \in 1 .. j[l] :
           IF r <= Len(f.recs) THEN LoadedChunkEntries[r] = f.recs[r]
           ELSE /\ r = Len(f.recs) + 1 /\ f.tail = "cut"
                /\ LoadedChunkEntries[r] = Cut
    /\ lpc[l] = "search" => chunkLoaded /\ j[l] = lcount[l]

LInv(l) == alone[l] => Stored(l, file["chunk"][source[l]])

IInv ==
    /\ TypeOK /\ RegionInv /\ Exclusive /\ FilesOK
    /\ \A x \in Exporters : EInv(x) /\ CInv(x)
    /\ \A l \in Loaders : LInv(l)

-----------------------------------------------------------------------------
(* Files. *)

\* What appending a record does to a file.
LEMMA RecordedFile ==
    ASSUME NEW f \in Contents, NEW e \in Record, NEW g,
           g = [head |-> f.head, count |-> f.count,
                recs |-> Append(f.recs, e), tail |-> "none"]
    PROVE  /\ g \in Contents
           /\ g.head = f.head /\ g.count = f.count /\ g.tail = "none"
           /\ Len(g.recs) = Len(f.recs) + 1
           /\ \A r \in 1 .. Len(f.recs) : g.recs[r] = f.recs[r]
           /\ g.recs[Len(f.recs) + 1] = e
           /\ Len(f.recs) \in Nat
           /\ \A r \in 1 .. Len(f.recs) : f.recs[r] \in Record
  <1>1. f.recs \in Seq(Record)
    BY DEF Contents
  <1>2. g.recs = Append(f.recs, e) /\ Append(f.recs, e) \in Seq(Record)
    BY <1>1 DEF Contents
  <1>3. g \in Contents /\ g.head = f.head /\ g.count = f.count
        /\ g.tail = "none"
    BY <1>1 DEF Contents
  <1> QED  BY <1>1, <1>2, <1>3

\* A write to a file: which file, and what becomes of it and of calm.
LEMMA PutEffect ==
    ASSUME TypeOK, NEW x \in Exporters,
           NEW whole \in Contents, NEW part \in Contents, Put(x, whole, part)
    PROVE  /\ file' \in [Kinds -> [Names -> Contents]]
           /\ full' \in BOOLEAN /\ calm' \in [Exporters -> BOOLEAN]
           /\ \A k \in Kinds, n \in Names :
                  (k # kind[x] \/ n # name[x]) => file'[k][n] = file[k][n]
           /\ full => full'
           /\ \A y \in Exporters : y # x => calm'[y] = calm[y]
           /\ calm'[x] => calm[x]
           /\ \/ ~full /\ ~full' /\ file'[kind[x]][name[x]] = whole
              \/ ~full /\ full' /\ ~calm'[x] /\ file'[kind[x]][name[x]] = part
              \/ full /\ ~calm'[x] /\ file' = file
  <1> USE DEF TypeOK
  <1>1. CASE ~full /\ UNCHANGED <<full, calm>>
             /\ file' = [file EXCEPT ![kind[x]][name[x]] = whole]
    BY <1>1
  <1>2. CASE /\ ~full /\ full' = TRUE /\ calm' = [calm EXCEPT ![x] = FALSE]
             /\ file' = [file EXCEPT ![kind[x]][name[x]] = part]
    BY <1>2
  <1>3. CASE full /\ UNCHANGED disk /\ calm' = [calm EXCEPT ![x] = FALSE]
    BY <1>3 DEF disk
  <1> QED  BY <1>1, <1>2, <1>3 DEF Put

LEMMA RecordFill ==
    ASSUME NEW e \in Record
    PROVE  e.data \in Data /\ e.data.fill \in Int /\ e.settled \in BOOLEAN
           /\ e = [data |-> e.data, settled |-> e.settled]
  BY DEF Record, Data

\* A file stays as good as it was when later fills are allowed in it.
LEMMA FileKept ==
    ASSUME NEW f \in Contents, NEW g \in Int, NEW h \in Int, g <= h,
           FileOK(f, g)
    PROVE  FileOK(f, h)
  <1>1. \A r \in 1 .. Len(f.recs) : f.recs[r] \in Record
    BY DEF Contents
  <1>2. \A r \in 1 .. Len(f.recs) : f.recs[r].data.fill <= h
    <2> TAKE r \in 1 .. Len(f.recs)
    <2>1. PICK d : d = f.recs[r].data.fill
      OBVIOUS
    <2>2. d \in Int /\ d <= g
      BY <1>1, <2>1, RecordFill DEF FileOK
    <2> QED  BY <2>1, <2>2
  <1> QED  BY <1>2, Zenon DEF FileOK

\* What is known of a file and of what was counted stays so while more is
\* committed and less of what was is settled.
LEMMA SureKept ==
    ASSUME NEW f, NEW D, NEW E, D \subseteq E, NEW g, Sure(f, D, g)
    PROVE  Sure(f, E, g)
  BY DEF Sure

LEMMA HasKept ==
    ASSUME NEW f, NEW S, NEW T, T \subseteq S, NEW g, Has(f, S, g)
    PROVE  Has(f, T, g)
  BY DEF Has

LEMMA CoversKept ==
    ASSUME NEW c, NEW f, NEW D, NEW S, NEW T, NEW g, T \cap D \subseteq S,
           Sure(c, D, g), Covers(c, f, S)
    PROVE  Covers(c, f, T)
  BY DEF Sure, Covers

\* What IInv says of the numbers.
LEMMA Numbers ==
    ASSUME IInv
    PROVE  /\ fill \in Nat /\ committed \in 0 .. MaxSlots /\ MaxSlots \in Nat
           /\ done \subseteq Slots /\ settled \subseteq done
           /\ \A x \in Exporters : count[x] \in 0 .. MaxSlots
                                   /\ i[x] \in 0 .. MaxSlots
                                   /\ kind[x] \in Kinds /\ name[x] \in Names
           /\ "chunk" \in Kinds
  BY Committed, SlotsAssumption
     DEF IInv, TypeOK, RegionInv, RegionTypeOK, Kinds

LEMMA OutType ==
    ASSUME IInv, NEW x \in Exporters
    PROVE  /\ Out(x) \in Contents /\ FileOK(Out(x), fill)
           /\ file["chunk"][name[x]] \in Contents
           /\ Len(Out(x).recs) \in Nat
           /\ Len(file["chunk"][name[x]].recs) \in Nat
  <1>1. Out(x) \in Contents /\ FileOK(Out(x), fill)
        /\ file["chunk"][name[x]] \in Contents
    BY Numbers DEF IInv, TypeOK, Out, FilesOK
  <1>2. \A f \in Contents : Len(f.recs) \in Nat
    BY DEF Contents
  <1> QED  BY <1>1, <1>2

-----------------------------------------------------------------------------
(* What a step leaves alone. *)

\* The region under an export that stays calm: more is committed, and nothing
\* that was gets settled only now.
Steady ==
    /\ UNCHANGED fill /\ committed <= committed'
    /\ done \subseteq done' /\ settled' \cap done \subseteq settled

\* An exporter keeps its invariants through the steps of others: they leave
\* its locals and its files, and while it stays calm its region only grows.
LEMMA ExporterKept ==
    ASSUME IInv, NEW y \in Exporters,
           UNCHANGED <<epc[y], kind[y], name[y], count[y], i[y], held[y], at[y],
                       dumping[y], solid[y]>>,
           fill' \in Int, committed' \in Int, fill <= fill', full => full',
           calm'[y] => calm[y] /\ Steady,
           Busy(y) => \A k \in Kinds : file'[k][name[y]] = file[k][name[y]]
    PROVE  EInv(y)' /\ CInv(y)'
  <1>1. kind[y] \in Kinds /\ "chunk" \in Kinds /\ EInv(y) /\ CInv(y)
    BY Numbers DEF IInv
  <1>2. Busy(y) => Out(y)' = Out(y)
                   /\ (file["chunk"][name[y]])' = file["chunk"][name[y]]
    BY <1>1 DEF Out
  <1>3. ASSUME Busy(y), Current(y) PROVE Current(y)'
    <2>1. ASSUME epc[y] = "data", NEW e \in Record, NEW s,
                 Follows(e, s, fill)
          PROVE  Follows(e, s, fill')
      <3>1. PICK d : d = e.data.fill
        OBVIOUS
      <3>2. d \in Int /\ d <= fill /\ fill \in Int
        BY <2>1, <3>1, RecordFill, Numbers DEF Follows
      <3>3. d <= fill'
        BY <3>2
      <3> QED  BY <2>1, <3>1, <3>3, Zenon DEF Follows
    <2>2. held[y] \in Record
      BY DEF IInv, TypeOK
    <2> QED  BY <1>2, <1>3, <2>1, <2>2 DEF Current
  <1>4. EInv(y)'
    BY <1>1, <1>2, <1>3 DEF EInv, Busy, Writing
  <1>5. ASSUME calm'[y] PROVE CInv(y)'
    <2>1. calm[y] /\ Steady /\ fill' = fill
      BY <1>5 DEF Steady
    <2>2. PICK D, S, T, m : D = done' /\ S = settled /\ T = settled'
                            /\ m = committed'
      OBVIOUS
    <2>3. done \subseteq D /\ T \cap done \subseteq S /\ committed <= m
      BY <2>1, <2>2 DEF Steady
    <2>4. PICK o, c : o = Out(y) /\ c = file["chunk"][name[y]]
      OBVIOUS
    <2>5. committed \in Int /\ m \in Int /\ count[y] \in Int /\ Len(c.recs) \in Int
      BY <2>2, <2>4, Numbers, OutType
    <2>6. CASE Busy(y)
      <3>1. Out(y)' = o /\ (file["chunk"][name[y]])' = c
        BY <1>2, <2>4, <2>6
      <3>2. Counted(y) => Counted(y)'
        BY <2>1, <2>2, <2>3, <2>5 DEF Counted
      <3>3. Counted(y) => solid[y] \cap T \subseteq solid[y] \cap S
        BY <2>3 DEF Counted
      <3>4. (epc[y] \in Writing) => Sure(o, D, fill) /\ Has(o, solid[y] \cap T, fill)
        BY <1>1, <2>1, <2>2, <2>3, <2>4, <3>3, SureKept, HasKept DEF CInv
      <3>5. epc[y] = "data" => Holding(y)'
        BY <1>1, <2>1, <2>2, <2>3, <3>3 DEF CInv, Holding, Writing
      <3>6. (dumping[y] /\ kind[y] = "index") =>
                /\ Sure(c, D, fill) /\ Len(c.recs) <= m
                /\ epc[y] \in Writing \cup {"create"} => Len(c.recs) <= count[y]
                /\ epc[y] \in Writing => Covers(c, o, T)
        <4> SUFFICES ASSUME dumping[y], kind[y] = "index"
                     PROVE  /\ Sure(c, D, fill) /\ Len(c.recs) <= m
                            /\ epc[y] \in Writing \cup {"create"} =>
                                   Len(c.recs) <= count[y]
                            /\ epc[y] \in Writing => Covers(c, o, T)
          OBVIOUS
        <4>1. /\ Sure(c, done, fill) /\ Len(c.recs) <= committed
              /\ epc[y] \in Writing \cup {"create"} => Len(c.recs) <= count[y]
              /\ epc[y] \in Writing => Covers(c, o, S)
          BY <1>1, <2>1, <2>2, <2>4 DEF CInv
        <4>2. Sure(c, D, fill)
          BY <2>3, <4>1, SureKept
        <4>3. Len(c.recs) <= m
          BY <2>3, <2>5, <4>1
        <4>4. epc[y] \in Writing => Covers(c, o, T)
          BY <2>3, <4>1, CoversKept
        <4> QED  BY <4>1, <4>2, <4>3, <4>4
      <3>7. epc[y] = "done" => i[y] = count[y]
        BY <1>1, <2>1 DEF CInv
      <3>8. epc[y] \in Writing \cup {"create"} => Counted(y)'
        BY <1>1, <2>1, <3>2 DEF CInv
      <3> QED
        BY <2>1, <2>2, <3>1, <3>4, <3>5, <3>6, <3>7, <3>8 DEF CInv
    <2>7. CASE ~Busy(y)
      <3>1. epc'[y] = "idle" /\ ~dumping'[y]
        BY <1>1, <2>7 DEF EInv, Busy
      <3> QED  BY <3>1 DEF CInv, Writing
    <2> QED  BY <2>6, <2>7
  <1> QED  BY <1>4, <1>5 DEF CInv

\* What a file may become while a load that is alone reads it.
Grows(f, g) ==
    /\ g.head = f.head /\ g.count = f.count
    /\ Len(f.recs) <= Len(g.recs)
    /\ \A r \in 1 .. Len(f.recs) : g.recs[r] = f.recs[r]
    /\ f.tail = "cut" => g = f

LEMMA GrowsSame == ASSUME NEW f \in Contents PROVE Grows(f, f)
  BY DEF Grows, Contents

\* A loader keeps its invariant through the steps of others.
LEMMA LoaderKept ==
    ASSUME TypeOK, file' \in [Kinds -> [Names -> Contents]],
           NEW l \in Loaders, LInv(l),
           alone'[l] =>
               /\ alone[l]
               /\ UNCHANGED <<LoadedChunkEntries, chunkLoaded, lpc[l],
                              source[l], lcount[l], j[l]>>
               /\ Grows(file["chunk"][source[l]], file'["chunk"][source[l]])
    PROVE  LInv(l)'
  <1> SUFFICES ASSUME alone'[l] PROVE LInv(l)'
    BY DEF LInv
  <1> DEFINE f == file["chunk"][source[l]]
             g == file'["chunk"][source[l]]
  <1>1. Stored(l, f) /\ Grows(f, g)
    BY DEF LInv
  <1>2. f \in Contents /\ g \in Contents
    BY DEF TypeOK, Kinds
  <1>3. Len(f.recs) \in Nat /\ Len(g.recs) \in Nat /\ j[l] \in Nat
    BY <1>2, SlotsAssumption DEF Contents, TypeOK
  <1>4. CASE f.tail = "cut"
    <2>1. f = g
      BY <1>1, <1>4 DEF Grows
    <2> HIDE DEF f, g
    <2>2. /\ f.head = "headed" /\ f.count = lcount'[l] /\ j'[l] <= lcount'[l]
          /\ Len(LoadedChunkEntries') = lcount'[l]
      BY <1>1 DEF Stored
    <2>3. \A r \in 1 .. j'[l] :
              IF r <= Len(f.recs) THEN LoadedChunkEntries'[r] = f.recs[r]
              ELSE /\ r = Len(f.recs) + 1 /\ f.tail = "cut"
                   /\ LoadedChunkEntries'[r] = Cut
      BY <1>1 DEF Stored
    <2>4. lpc'[l] = "search" => chunkLoaded' /\ j'[l] = lcount'[l]
      BY <1>1 DEF Stored
    <2> QED  BY <2>1, <2>2, <2>3, <2>4, Zenon DEF f, g, LInv, Stored
  <1>5. CASE f.tail # "cut"
    <2>1. \A r \in 1 .. j[l] :
              /\ r <= Len(f.recs) /\ r <= Len(g.recs)
              /\ LoadedChunkEntries[r] = f.recs[r]
      BY <1>1, <1>3, <1>5 DEF Stored, Grows
    <2>2. \A r \in 1 .. j[l] : LoadedChunkEntries[r] = g.recs[r]
      BY <1>1, <1>3, <2>1 DEF Grows
    <2> QED  BY <1>1, <1>3, <2>1, <2>2 DEF Grows, LInv, Stored
  <1> QED  BY <1>4, <1>5

\* A write of exporter x leaves all others as they were.
LEMMA PutKeeps ==
    ASSUME IInv, NEW x \in Exporters, Busy(x),
           NEW whole \in Contents, NEW part \in Contents, Put(x, whole, part),
           ~full => FileOK(whole, fill) /\ FileOK(part, fill),
           \A l \in Loaders :
               (~full /\ alone[l] /\ kind[x] = "chunk" /\ source[l] = name[x])
                   => Grows(Out(x), whole) /\ Grows(Out(x), part),
           UNCHANGED <<regionVars, kind, name, count, dumping, drained, solid,
                       loadVars>>,
           \A y \in Exporters : y # x => UNCHANGED <<epc[y], i[y], held[y], at[y]>>
    PROVE  /\ FilesOK' /\ RegionInv'
           /\ \A y \in Exporters : y # x => EInv(y)' /\ CInv(y)'
           /\ \A l \in Loaders : LInv(l)'
  <1>1. /\ file' \in [Kinds -> [Names -> Contents]]
        /\ \A k \in Kinds, n \in Names :
               (k # kind[x] \/ n # name[x]) => file'[k][n] = file[k][n]
        /\ full => full' /\ file' = file
        /\ \A y \in Exporters : y # x => calm'[y] = calm[y]
        /\ file'[kind[x]][name[x]] \in {whole, part} \/ full
    BY PutEffect DEF IInv
  <1>2. kind[x] \in Kinds /\ name[x] \in Names /\ "chunk" \in Kinds
    BY Numbers
  <1>3. FilesOK'
    BY <1>1, <1>2 DEF FilesOK, IInv, regionVars
  <1>4. ASSUME NEW y \in Exporters, y # x PROVE EInv(y)' /\ CInv(y)'
    <2>1. Busy(y) => name[y] # name[x]
      BY <1>4 DEF Exclusive, IInv
    <2>2. /\ fill' \in Int /\ committed' \in Int /\ fill <= fill' /\ Steady
          /\ name[y] \in Names
      BY Numbers DEF regionVars, committed, Steady
    <2> QED  BY <1>1, <1>4, <2>1, <2>2, ExporterKept DEF Busy
  <1>5. ASSUME NEW l \in Loaders PROVE LInv(l)'
    <2>1. source[l] \in Names /\ file["chunk"][source[l]] \in Contents
      BY <1>2 DEF TypeOK, IInv
    <2>2. alone[l] => Grows(file["chunk"][source[l]], file'["chunk"][source[l]])
      BY <1>1, <1>2, <2>1, GrowsSame DEF Out
    <2> QED  BY <1>1, <2>2, LoaderKept DEF IInv, loadVars
  <1>6. RegionInv'
    BY RegionSame DEF IInv
  <1> QED  BY <1>3, <1>4, <1>5, <1>6

\* A step of exporter x that writes nothing leaves all others as they were.
LEMMA LocalKeeps ==
    ASSUME IInv, NEW x \in Exporters,
           UNCHANGED <<regionVars, disk, loadVars>>,
           \A y \in Exporters : y # x =>
               UNCHANGED <<epc[y], kind[y], name[y], count[y], i[y], held[y],
                           at[y], dumping[y], solid[y], calm[y]>>
    PROVE  /\ FilesOK' /\ RegionInv'
           /\ \A y \in Exporters : y # x => EInv(y)' /\ CInv(y)'
           /\ \A l \in Loaders : LInv(l)'
  <1>1. /\ fill' \in Int /\ committed' \in Int /\ fill <= fill' /\ Steady
        /\ file' = file /\ full' = full
    BY Numbers DEF regionVars, committed, Steady, disk
  <1>2. FilesOK' /\ RegionInv'
    BY RegionSame DEF FilesOK, IInv, disk, regionVars
  <1>3. ASSUME NEW y \in Exporters, y # x PROVE EInv(y)' /\ CInv(y)'
    BY <1>1, <1>3, ExporterKept
  <1>4. ASSUME NEW l \in Loaders PROVE LInv(l)'
    BY DEF IInv, LInv, Stored, disk, loadVars
  <1> QED  BY <1>2, <1>3, <1>4

\* A step of a loader leaves the files and the exporters as they were.
LEMMA LoadKeeps ==
    ASSUME IInv, UNCHANGED <<regionVars, disk, exportVars>>
    PROVE  /\ FilesOK' /\ RegionInv' /\ Exclusive'
           /\ \A y \in Exporters : EInv(y)' /\ CInv(y)'
  <1>1. /\ fill' \in Int /\ committed' \in Int /\ fill <= fill' /\ Steady
        /\ file' = file /\ full' = full
    BY Numbers DEF regionVars, committed, Steady, disk
  <1>2. FilesOK' /\ RegionInv' /\ Exclusive'
    BY RegionSame DEF FilesOK, IInv, disk, regionVars, Exclusive, Busy,
       exportVars
  <1>3. ASSUME NEW y \in Exporters PROVE EInv(y)' /\ CInv(y)'
    BY <1>1, ExporterKept DEF exportVars
  <1> QED  BY <1>2, <1>3

-----------------------------------------------------------------------------
(* The region and the process. *)

LEMMA IInvInit == Init => IInv
  <1> SUFFICES ASSUME Init PROVE IInv
    OBVIOUS
  <1>0. RegionInv
    BY RegionStart DEF Init
  <1> USE DEF Init
  <1>1. TypeOK
    <2>1. Absent \in Contents /\ Blank \in Record
      <3>1. 0 \in Slots
        BY SlotsAssumption DEF Slots
      <3> QED
        BY <3>1, SlotsAssumption
           DEF Absent, Empty, Contents, Blank, Record, None, Data
    <2>2. fill <= MaxFills + 1 /\ file \in [Kinds -> [Names -> Contents]]
      BY <2>1, FillsAssumption DEF RegionInit
    <2>3. /\ epc \in [Exporters -> ExportPCs]
          /\ kind \in [Exporters -> Kinds] /\ name \in [Exporters -> Names]
          /\ count \in [Exporters -> 0 .. MaxSlots]
          /\ i \in [Exporters -> 0 .. MaxSlots]
      BY SlotsAssumption DEF ExportPCs, Kinds
    <2>4. /\ held \in [Exporters -> Record] /\ at \in [Exporters -> 0 .. fill]
          /\ drained \in [Exporters -> Nat]
          /\ dumping \in [Exporters -> BOOLEAN]
          /\ solid \in [Exporters -> SUBSET Slots]
          /\ calm \in [Exporters -> BOOLEAN]
      BY <2>1 DEF RegionInit
    <2>5. /\ lpc \in [Loaders -> {"idle", "record", "search"}]
          /\ source \in [Loaders -> Names]
          /\ lcount \in [Loaders -> 0 .. MaxSlots]
          /\ j \in [Loaders -> 0 .. MaxSlots]
          /\ alone \in [Loaders -> BOOLEAN]
      BY SlotsAssumption
    <2>6. full \in BOOLEAN /\ chunkLoaded \in BOOLEAN
      BY Zenon
    <2>7. LoadedChunkEntries \in Seq(Record)
      OBVIOUS
    <2> QED
      BY <1>0, <2>2, <2>3, <2>4, <2>5, <2>6, <2>7 DEF TypeOK, RegionInv
  <1>2. FilesOK
    BY DEF FilesOK, FileOK, Absent, Empty
  <1>3. Exclusive /\ \A x \in Exporters : EInv(x) /\ CInv(x)
    BY DEF Exclusive, Busy, EInv, CInv, Writing
  <1>4. \A l \in Loaders : LInv(l)
    BY DEF LInv
  <1> QED  BY <1>0, <1>1, <1>2, <1>3, <1>4 DEF IInv

\* Of the new counters.
LEMMA CommittedNext ==
    ASSUME RegionInv'
    PROVE  committed' \in 0 .. MaxSlots /\ committed' \in Int
  <1>1. (RegionTypeOK => committed \in 0 .. MaxSlots)'
    BY Committed, PTL
  <1> QED  BY <1>1, SlotsAssumption DEF RegionInv

LEMMA FillsStep == IInv /\ Fills => IInv'
  <1> SUFFICES ASSUME IInv, Fills PROVE IInv'
    OBVIOUS
  <1>1. RegionInv /\ FillStep /\ UNCHANGED <<disk, exportVars, loadVars>>
    BY DEF Fills, IInv
  <1>2. RegionInv' /\ Steady
    BY <1>1, FillStepKeeps, FillFacts DEF Steady
  <1>3. /\ fill' \in Int /\ committed' \in Int /\ fill <= fill' /\ fill' = fill
    BY <1>2, CommittedNext, Numbers DEF Steady
  <1>4. TypeOK'
    BY <1>1, <1>2, <1>3
       DEF IInv, TypeOK, RegionInv, disk, exportVars, loadVars
  <1>5. FilesOK' /\ Exclusive'
    BY <1>1, <1>3 DEF IInv, FilesOK, Exclusive, Busy, disk, exportVars
  <1>6. ASSUME NEW y \in Exporters PROVE EInv(y)' /\ CInv(y)'
    BY <1>1, <1>2, <1>3, ExporterKept DEF disk, exportVars
  <1>7. ASSUME NEW l \in Loaders PROVE LInv(l)'
    BY <1>1 DEF IInv, LInv, Stored, disk, loadVars
  <1> QED  BY <1>2, <1>4, <1>5, <1>6, <1>7 DEF IInv

\* The next fill: no file changes, and nobody stays calm.
LEMMA DrainKeeps ==
    ASSUME IInv, SwitchAndDrain \/ NewRegions, fill <= MaxFills, UNCHANGED file
    PROVE  /\ RegionInv' /\ fill' \in Nat /\ fill' <= MaxFills + 1
           /\ fill' \in Int /\ committed' \in Int /\ fill <= fill'
           /\ FilesOK'
           /\ \A g : g \in [Exporters -> 0 .. fill]
                         => g \in [Exporters -> 0 .. fill']
  <1>1. RegionInv' /\ committed' \in Int
    BY SwitchKeeps, NewRegionsKeep, CommittedNext DEF IInv
  <1>2. /\ fill \in Nat /\ fill' = fill + 1
    BY Numbers DEF SwitchAndDrain, NewRegions
  <1>3. /\ fill' \in Nat /\ fill' \in Int /\ fill \in Int /\ fill <= fill'
        /\ fill' <= MaxFills + 1 /\ 0 .. fill \subseteq 0 .. fill'
    BY <1>2, FillsAssumption
  <1>4. FilesOK'
    <2> SUFFICES ASSUME NEW k \in Kinds, NEW n \in Names
                 PROVE  FileOK(file[k][n], fill')
      BY DEF FilesOK
    <2>1. file[k][n] \in Contents /\ FileOK(file[k][n], fill)
      BY DEF IInv, TypeOK, FilesOK
    <2> QED  BY <1>3, <2>1, FileKept
  <1> QED  BY <1>1, <1>3, <1>4

LEMMA TriggerDrainStep == IInv /\ TriggerDrain => IInv'
  <1> SUFFICES ASSUME IInv, TriggerDrain PROVE IInv'
    OBVIOUS
  <1>1. /\ SwitchAndDrain /\ calm' = [x \in Exporters |-> FALSE]
        /\ fill + Cardinality(Draining) < MaxFills
        /\ UNCHANGED <<disk, epc, kind, name, count, i, held, at, dumping,
                       drained, solid, loadVars>>
    BY DEF TriggerDrain, Drain
  <1>2. fill <= MaxFills
    <2>1. Cardinality(Draining) \in Nat
      BY ExportersAssumption, FS_Subset, FS_CardinalityType DEF Draining
    <2> QED  BY <1>1, <2>1, FillsAssumption, Numbers
  <1>3. /\ RegionInv' /\ fill' \in Nat /\ fill' <= MaxFills + 1
        /\ fill' \in Int /\ committed' \in Int /\ fill <= fill'
        /\ FilesOK'
        /\ \A g : g \in [Exporters -> 0 .. fill]
                      => g \in [Exporters -> 0 .. fill']
    BY <1>1, <1>2, DrainKeeps DEF disk
  <1>4. TypeOK'
    <2>1. at' \in [Exporters -> 0 .. fill'] /\ calm' \in [Exporters -> BOOLEAN]
      BY <1>1, <1>3 DEF IInv, TypeOK
    <2> QED  BY <1>1, <1>3, <2>1 DEF IInv, TypeOK, RegionInv, disk, loadVars
  <1>5. Exclusive'
    BY <1>1 DEF IInv, Exclusive, Busy
  <1>6. ASSUME NEW y \in Exporters PROVE EInv(y)' /\ CInv(y)'
    BY <1>1, <1>3, ExporterKept DEF disk
  <1>7. ASSUME NEW l \in Loaders PROVE LInv(l)'
    BY <1>1 DEF IInv, LInv, Stored, disk, loadVars
  <1> QED  BY <1>3, <1>4, <1>5, <1>6, <1>7 DEF IInv

\* A restart, after a crash or after a panic.
LEMMA DieStep == IInv /\ Die /\ fill <= MaxFills => IInv'
  <1> SUFFICES ASSUME IInv, Die, fill <= MaxFills PROVE IInv'
    OBVIOUS
  <1>1. RegionInv' /\ fill' \in Nat /\ fill' <= MaxFills + 1 /\ FilesOK'
    BY DrainKeeps DEF Die
  <1> USE DEF Die
  <1>2. TypeOK'
    <2>1. /\ epc' \in [Exporters -> ExportPCs]
          /\ count' \in [Exporters -> 0 .. MaxSlots]
          /\ i' \in [Exporters -> 0 .. MaxSlots]
          /\ dumping' \in [Exporters -> BOOLEAN]
      BY SlotsAssumption DEF ExportPCs
    <2>2. /\ held' \in [Exporters -> Record] /\ at' \in [Exporters -> 0 .. fill']
          /\ drained' \in [Exporters -> Nat]
          /\ solid' \in [Exporters -> SUBSET Slots]
          /\ calm' \in [Exporters -> BOOLEAN]
      <3>1. 0 \in Slots
        BY SlotsAssumption DEF Slots
      <3>2. Blank \in Record
        BY <3>1 DEF Blank, Record, None, Data
      <3> QED  BY <1>1, <3>2
    <2>3. /\ lpc' \in [Loaders -> {"idle", "record", "search"}]
          /\ lcount' \in [Loaders -> 0 .. MaxSlots]
          /\ j' \in [Loaders -> 0 .. MaxSlots]
          /\ alone' \in [Loaders -> BOOLEAN]
      BY SlotsAssumption
    <2>4. chunkLoaded' \in BOOLEAN /\ full' \in BOOLEAN
      BY Zenon
    <2>5. LoadedChunkEntries' \in Seq(Record)
      OBVIOUS
    <2> QED  BY <1>1, <2>1, <2>2, <2>3, <2>4, <2>5 DEF IInv, TypeOK, RegionInv
  <1>3. Exclusive' /\ \A x \in Exporters : EInv(x)' /\ CInv(x)'
    BY DEF Exclusive, Busy, EInv, CInv, Writing
  <1>4. \A l \in Loaders : LInv(l)'
    BY DEF LInv
  <1> QED  BY <1>1, <1>2, <1>3, <1>4 DEF IInv

-----------------------------------------------------------------------------
(* Exports: the steps that write nothing. *)

\* Calls under way keep their names to themselves.
LEMMA NamesKept ==
    ASSUME IInv, NEW x \in Exporters, Busy(x), name' = name,
           \A y \in Exporters : y # x => epc'[y] = epc[y]
    PROVE  Exclusive'
  BY DEF IInv, Exclusive, Busy

LEMMA CallStep ==
    ASSUME IInv, NEW x \in Exporters, NEW k \in Kinds, NEW n \in Names,
           Export(x, k, n) \/ AutoDumpOnDrain(x, n)
    PROVE  IInv'
  <1>0. /\ epc' = [epc EXCEPT ![x] = IF Export(x, k, n) THEN "count"
                                     ELSE "drain"]
        /\ kind' = [kind EXCEPT ![x] = IF Export(x, k, n) THEN k
                                       ELSE "chunk"]
        /\ name' = [name EXCEPT ![x] = n]
        /\ dumping' = [dumping EXCEPT ![x] = IF Export(x, k, n) THEN @
                                             ELSE TRUE]
        /\ UNCHANGED <<regionVars, disk, count, i, held, at, drained, solid,
                       calm, loadVars>>
        /\ epc[x] = "idle" /\ Unused(x, n)
    <2>1. CASE Export(x, k, n)
      <3>1. dumping' = [dumping EXCEPT ![x] = @]
        BY <2>1 DEF Export, IInv, TypeOK
      <3> QED  BY <2>1, <3>1 DEF Export
    <2>2. CASE ~Export(x, k, n)
      BY <2>2 DEF AutoDumpOnDrain
    <2> QED  BY <2>1, <2>2
  <1>1. TypeOK'
    <2>1. /\ epc' \in [Exporters -> ExportPCs]
          /\ kind' \in [Exporters -> Kinds] /\ name' \in [Exporters -> Names]
          /\ dumping' \in [Exporters -> BOOLEAN]
      BY <1>0 DEF IInv, TypeOK, ExportPCs, Kinds
    <2>2. RegionTypeOK'
      BY <1>0, RegionSame DEF IInv, RegionInv
    <2> QED
      BY <1>0, <2>1, <2>2 DEF IInv, TypeOK, regionVars, disk, loadVars
  <1>2. epc'[x] \in {"count", "drain"} /\ kind'[x] \in Kinds
        /\ calm' = calm
        /\ epc[x] = "idle" /\ ~dumping[x] /\ (dumping'[x] => kind'[x] = "chunk")
    BY <1>0 DEF IInv, TypeOK, EInv, Kinds
  <1>3. Exclusive'
    <2> SUFFICES ASSUME NEW y \in Exporters, NEW z \in Exporters, y # z,
                        Busy(y)', Busy(z)'
                 PROVE  name'[y] # name'[z]
      BY DEF Exclusive
    <2>1. \A u \in Exporters : u # x => epc'[u] = epc[u] /\ name'[u] = name[u]
      BY <1>0 DEF IInv, TypeOK
    <2>2. name'[x] = n
      BY <1>0 DEF IInv, TypeOK
    <2>3. \A u \in Exporters : (u # x /\ Busy(u)') => name'[u] # n
      BY <1>0, <2>1 DEF Unused, Busy
    <2> QED  BY <2>1, <2>2, <2>3 DEF IInv, Exclusive, Busy
  <1>4. /\ FilesOK' /\ RegionInv'
        /\ \A y \in Exporters : y # x => EInv(y)' /\ CInv(y)'
        /\ \A l \in Loaders : LInv(l)'
    <2>1. /\ UNCHANGED <<regionVars, disk, loadVars>>
          /\ \A y \in Exporters : y # x =>
                 UNCHANGED <<epc[y], kind[y], name[y], count[y], i[y], held[y],
                             at[y], dumping[y], solid[y], calm[y]>>
      BY <1>0 DEF IInv, TypeOK
    <2> QED  BY <2>1, LocalKeeps
  <1>5. EInv(x)' /\ CInv(x)'
    BY <1>2 DEF EInv, CInv, Writing
  <1> QED  BY <1>1, <1>3, <1>4, <1>5 DEF IInv

LEMMA DumpDrainsStep ==
    ASSUME IInv, NEW x \in Exporters, DumpDrains(x)
    PROVE  IInv'
  <1>0. /\ epc[x] = "drain" /\ fill < MaxFills
        /\ SwitchAndDrain /\ calm' = [y \in Exporters |-> FALSE]
        /\ epc' = [epc EXCEPT ![x] = "spin"]
        /\ drained' = [drained EXCEPT ![x] = fill]
        /\ UNCHANGED <<disk, kind, name, count, i, held, at, dumping, solid,
                       loadVars>>
    BY DEF DumpDrains, Drain
  <1>1. fill <= MaxFills /\ fill \in Nat
    BY <1>0, FillsAssumption, Numbers
  <1>2. /\ RegionInv' /\ fill' \in Nat /\ fill' <= MaxFills + 1
        /\ fill' \in Int /\ committed' \in Int /\ fill <= fill'
        /\ FilesOK'
        /\ \A g : g \in [Exporters -> 0 .. fill]
                      => g \in [Exporters -> 0 .. fill']
    BY <1>0, <1>1, DrainKeeps DEF disk
  <1>3. TypeOK'
    <2>1. /\ at' \in [Exporters -> 0 .. fill'] /\ calm' \in [Exporters -> BOOLEAN]
          /\ drained' \in [Exporters -> Nat] /\ epc' \in [Exporters -> ExportPCs]
      BY <1>0, <1>1, <1>2 DEF IInv, TypeOK, ExportPCs
    <2> QED  BY <1>0, <1>2, <2>1 DEF IInv, TypeOK, RegionInv, disk, loadVars
  <1>4. Exclusive'
    BY <1>0, NamesKept DEF Busy, IInv, TypeOK
  <1>5. ASSUME NEW y \in Exporters PROVE EInv(y)' /\ CInv(y)'
    <2>1. ~calm'[y]
      BY <1>0
    <2>2. CASE y = x
      BY <1>0, <2>1, <2>2 DEF EInv, CInv, Writing, IInv, TypeOK
    <2>3. CASE y # x
      BY <1>0, <1>2, <2>1, <2>3, ExporterKept DEF IInv, TypeOK, disk
    <2> QED  BY <2>2, <2>3
  <1>6. ASSUME NEW l \in Loaders PROVE LInv(l)'
    BY <1>0 DEF IInv, LInv, Stored, disk, loadVars
  <1> QED  BY <1>2, <1>3, <1>4, <1>5, <1>6 DEF IInv

LEMMA DumpSpinsStep ==
    ASSUME IInv, NEW x \in Exporters, DumpSpins(x)
    PROVE  IInv'
  <1>0. /\ epc[x] = "spin" /\ epc' = [epc EXCEPT ![x] = "count"]
        /\ drained' = [drained EXCEPT ![x] = 0]
        /\ UNCHANGED <<regionVars, disk, kind, name, count, i, held, at,
                       dumping, solid, calm, loadVars>>
    BY DEF DumpSpins
  <1>1. TypeOK'
    <2>1. epc' \in [Exporters -> ExportPCs] /\ drained' \in [Exporters -> Nat]
      BY <1>0 DEF IInv, TypeOK, ExportPCs
    <2>2. RegionTypeOK'
      BY <1>0, RegionSame DEF IInv, RegionInv
    <2> QED
      BY <1>0, <2>1, <2>2 DEF IInv, TypeOK, regionVars, disk, loadVars
  <1>2. Exclusive'
    BY <1>0, NamesKept DEF Busy, IInv, TypeOK
  <1>3. /\ FilesOK' /\ RegionInv'
        /\ \A y \in Exporters : y # x => EInv(y)' /\ CInv(y)'
        /\ \A l \in Loaders : LInv(l)'
    BY <1>0, LocalKeeps DEF IInv, TypeOK
  <1>4. EInv(x)' /\ CInv(x)'
    <2>1. epc'[x] = "count" /\ CInv(x)
      BY <1>0 DEF IInv, TypeOK
    <2>2. EInv(x)'
      BY <2>1 DEF EInv, Writing
    <2>3. CInv(x)'
      BY <1>0, <2>1 DEF CInv, Writing, regionVars, disk, committed
    <2> QED  BY <2>2, <2>3
  <1> QED  BY <1>1, <1>2, <1>3, <1>4 DEF IInv

LEMMA BlankType == Blank \in Record /\ Cut \in Record
  <1>1. 0 \in Slots
    BY SlotsAssumption DEF Slots
  <1> QED  BY <1>1 DEF Blank, Cut, Record, None, Torn, Data

\* The end of a call, in whatever step.
LEMMA ReturnEffect ==
    ASSUME IInv, NEW x \in Exporters, Return(x)
    PROVE  /\ epc' \in [Exporters -> ExportPCs]
           /\ count' \in [Exporters -> 0 .. MaxSlots]
           /\ i' \in [Exporters -> 0 .. MaxSlots]
           /\ held' \in [Exporters -> Record]
           /\ at' \in [Exporters -> 0 .. fill]
           /\ dumping' \in [Exporters -> BOOLEAN]
           /\ drained' \in [Exporters -> Nat]
           /\ solid' \in [Exporters -> SUBSET Slots]
           /\ calm' \in [Exporters -> BOOLEAN]
           /\ \A y \in Exporters : y # x =>
                  UNCHANGED <<epc[y], count[y], i[y], held[y], at[y],
                              dumping[y], solid[y], calm[y]>>
           /\ EInv(x)' /\ CInv(x)'
  <1>1. epc'[x] = "idle" /\ ~dumping'[x] /\ ~calm'[x]
    BY DEF Return, IInv, TypeOK
  <1>2. EInv(x)' /\ CInv(x)'
    BY <1>1 DEF EInv, CInv, Writing
  <1>3. /\ epc' \in [Exporters -> ExportPCs]
        /\ count' \in [Exporters -> 0 .. MaxSlots]
        /\ i' \in [Exporters -> 0 .. MaxSlots]
        /\ held' \in [Exporters -> Record]
        /\ at' \in [Exporters -> 0 .. fill]
        /\ drained' \in [Exporters -> Nat]
        /\ solid' \in [Exporters -> SUBSET Slots]
    BY SlotsAssumption, BlankType, Numbers DEF Return, IInv, TypeOK, ExportPCs
  <1>4. dumping' \in [Exporters -> BOOLEAN] /\ calm' \in [Exporters -> BOOLEAN]
    BY DEF Return, IInv, TypeOK
  <1>5. \A y \in Exporters : y # x =>
            UNCHANGED <<epc[y], count[y], i[y], held[y], at[y], dumping[y],
                        solid[y], calm[y]>>
    BY DEF Return, IInv, TypeOK
  <1> QED  BY <1>2, <1>3, <1>4, <1>5

\* A call that ends without writing.
LEMMA ReturnStep ==
    ASSUME IInv, NEW x \in Exporters, Busy(x), Return(x),
           UNCHANGED <<regionVars, disk, kind, name, loadVars>>
    PROVE  IInv'
  <1>1. /\ epc' \in [Exporters -> ExportPCs]
        /\ count' \in [Exporters -> 0 .. MaxSlots]
        /\ i' \in [Exporters -> 0 .. MaxSlots]
        /\ held' \in [Exporters -> Record]
        /\ at' \in [Exporters -> 0 .. fill]
        /\ dumping' \in [Exporters -> BOOLEAN]
        /\ drained' \in [Exporters -> Nat]
        /\ solid' \in [Exporters -> SUBSET Slots]
        /\ calm' \in [Exporters -> BOOLEAN]
        /\ \A y \in Exporters : y # x =>
               UNCHANGED <<epc[y], kind[y], name[y], count[y], i[y], held[y],
                           at[y], dumping[y], solid[y], calm[y]>>
        /\ EInv(x)' /\ CInv(x)'
    BY ReturnEffect
  <1>2. TypeOK'
    <2>1. RegionTypeOK'
      BY RegionSame DEF IInv, RegionInv
    <2> QED  BY <1>1, <2>1 DEF IInv, TypeOK, regionVars, disk, loadVars
  <1>3. Exclusive'
    BY <1>1, NamesKept
  <1>4. /\ FilesOK' /\ RegionInv'
        /\ \A y \in Exporters : y # x => EInv(y)' /\ CInv(y)'
        /\ \A l \in Loaders : LInv(l)'
    BY <1>1, LocalKeeps
  <1> QED  BY <1>1, <1>2, <1>3, <1>4 DEF IInv

LEMMA CountStep ==
    ASSUME IInv, NEW x \in Exporters, Count(x)
    PROVE  IInv'
  <1>1. CASE committed = 0
    BY <1>1, ReturnStep DEF Count, Busy
  <1>2. CASE committed # 0
    <2>1. /\ epc[x] = "count" /\ epc' = [epc EXCEPT ![x] = "create"]
          /\ count' = [count EXCEPT ![x] = committed]
          /\ i' = [i EXCEPT ![x] = 0]
          /\ solid' = [solid EXCEPT ![x] = {s \in settled : Given(s)}]
          /\ calm' = IF dumping[x] /\ kind[x] = "index" THEN calm
                     ELSE [calm EXCEPT ![x] = TRUE]
          /\ UNCHANGED <<regionVars, disk, kind, name, held, at, dumping,
                         drained, loadVars>>
      BY <1>2 DEF Count
    <2>2. /\ committed \in 0 .. MaxSlots /\ 0 \in 0 .. MaxSlots
          /\ settled \subseteq Slots /\ settled \subseteq done
          /\ \A s \in Slots : s \in Nat
      BY Numbers, SlotsAssumption DEF Slots
    <2>3. {s \in settled : Given(s)} \in SUBSET Slots
      BY <2>2
    <2>4. TypeOK'
      <3>1. /\ epc' \in [Exporters -> ExportPCs]
            /\ count' \in [Exporters -> 0 .. MaxSlots]
            /\ i' \in [Exporters -> 0 .. MaxSlots]
        BY <2>1, <2>2 DEF IInv, TypeOK, ExportPCs
      <3>2. solid' \in [Exporters -> SUBSET Slots]
        BY <2>1, <2>3 DEF IInv, TypeOK
      <3>3. calm' \in [Exporters -> BOOLEAN]
        BY <2>1 DEF IInv, TypeOK
      <3>4. RegionTypeOK'
        BY <2>1, RegionSame DEF IInv, RegionInv
      <3> QED
        BY <2>1, <3>1, <3>2, <3>3, <3>4
           DEF IInv, TypeOK, regionVars, disk, loadVars
    <2>5. \A y \in Exporters : y # x =>
              UNCHANGED <<epc[y], kind[y], name[y], count[y], i[y], held[y],
                          at[y], dumping[y], solid[y], calm[y]>>
      BY <2>1 DEF IInv, TypeOK
    <2>6. Exclusive'
      BY <2>1, <2>5, NamesKept DEF Busy
    <2>7. /\ FilesOK' /\ RegionInv'
          /\ \A y \in Exporters : y # x => EInv(y)' /\ CInv(y)'
          /\ \A l \in Loaders : LInv(l)'
      BY <2>1, <2>5, LocalKeeps
    <2>8. /\ epc'[x] = "create" /\ i'[x] = 0 /\ count'[x] = committed
          /\ solid'[x] = {s \in settled : Given(s)}
          /\ UNCHANGED <<fill, done, settled, file, kind, name, dumping>>
      BY <2>1 DEF IInv, TypeOK, regionVars, disk
    <2>9. EInv(x)'
      BY <2>8 DEF EInv, Writing
    <2>10. CInv(x)'
      <3>1. (calm'[x] /\ dumping[x] /\ kind[x] = "index") => calm[x]
        BY <2>1
      <3>2. PICK c : c = file["chunk"][name[x]]
        OBVIOUS
      <3>3. (dumping[x] /\ kind[x] = "index" /\ calm[x]) =>
                Sure(c, done, fill) /\ Len(c.recs) <= committed
        BY <3>2 DEF IInv, CInv
      <3>4. committed' = committed
        BY <2>8 DEF committed
      <3>5. PICK m : m = committed
        OBVIOUS
      <3>6. Counted(x)'
        <4>1. \A s \in solid'[x] : s \in settled /\ s \in Nat /\ s < m
          BY <2>2, <2>8, <3>5 DEF Given
        <4>2. solid'[x] \subseteq 0 .. m - 1 /\ solid'[x] \subseteq done
          BY <2>2, <3>5, <4>1
        <4> QED  BY <2>2, <2>8, <3>4, <3>5, <4>2 DEF Counted
      <3> QED
        BY <2>8, <3>1, <3>2, <3>3, <3>4, <3>6 DEF CInv, Writing
    <2> QED  BY <2>4, <2>6, <2>7, <2>9, <2>10 DEF IInv
  <1> QED  BY <1>1, <1>2

LEMMA EndLoopStep ==
    ASSUME IInv, NEW x \in Exporters, EndLoop(x)
    PROVE  IInv'
  <1>0. /\ epc[x] = "entry" /\ ~More(x) /\ epc' = [epc EXCEPT ![x] = "done"]
        /\ UNCHANGED <<regionVars, disk, kind, name, count, i, held, at,
                       dumping, drained, solid, calm, loadVars>>
    BY DEF EndLoop
  <1>1. TypeOK'
    <2>1. epc' \in [Exporters -> ExportPCs]
      BY <1>0 DEF IInv, TypeOK, ExportPCs
    <2>2. RegionTypeOK'
      BY <1>0, RegionSame DEF IInv, RegionInv
    <2> QED
      BY <1>0, <2>1, <2>2 DEF IInv, TypeOK, regionVars, disk, loadVars
  <1>2. Exclusive'
    BY <1>0, NamesKept DEF Busy, IInv, TypeOK
  <1>3. /\ FilesOK' /\ RegionInv'
        /\ \A y \in Exporters : y # x => EInv(y)' /\ CInv(y)'
        /\ \A l \in Loaders : LInv(l)'
    BY <1>0, LocalKeeps DEF IInv, TypeOK
  <1>4. epc[x] = "entry" /\ epc'[x] = "done" /\ EInv(x) /\ CInv(x)
    BY <1>0 DEF IInv, TypeOK
  <1>5. EInv(x)'
    BY <1>0, <1>4 DEF EInv, Current, Out, Writing, disk
  <1>6. CInv(x)'
    <2>1. calm[x] => i[x] = count[x]
      <3>1. i[x] <= count[x] /\ (calm[x] => count[x] <= committed)
        BY <1>4 DEF EInv, CInv, Counted, Writing
      <3>2. i[x] \in Int /\ count[x] \in Int /\ committed \in Int
        BY Numbers
      <3>3. ~(i[x] < count[x] /\ i[x] < committed)
        BY <1>0 DEF More, Given
      <3> QED  BY <3>1, <3>2, <3>3
    <2>2. committed' = committed
      BY <1>0 DEF committed, regionVars
    <2> QED
      BY <1>0, <1>4, <2>1, <2>2
         DEF CInv, Counted, Out, Writing, regionVars, disk
  <1> QED  BY <1>1, <1>2, <1>3, <1>5, <1>6 DEF IInv

LEMMA ExportReturnsStep ==
    ASSUME IInv, NEW x \in Exporters, ExportReturns(x)
    PROVE  IInv'
  <1>1. CASE dumping[x] /\ kind[x] = "chunk"
    <2>1. /\ epc[x] = "done" /\ epc' = [epc EXCEPT ![x] = "count"]
          /\ kind' = [kind EXCEPT ![x] = "index"]
          /\ UNCHANGED <<regionVars, disk, name, count, i, held, at, dumping,
                         drained, solid, calm, loadVars>>
      BY <1>1 DEF ExportReturns
    <2>2. TypeOK'
      <3>1. epc' \in [Exporters -> ExportPCs] /\ kind' \in [Exporters -> Kinds]
        BY <2>1 DEF IInv, TypeOK, ExportPCs, Kinds
      <3>2. RegionTypeOK'
        BY <2>1, RegionSame DEF IInv, RegionInv
      <3> QED
        BY <2>1, <3>1, <3>2 DEF IInv, TypeOK, regionVars, disk, loadVars
    <2>3. Exclusive'
      BY <2>1, NamesKept DEF Busy, IInv, TypeOK
    <2>4. /\ FilesOK' /\ RegionInv'
          /\ \A y \in Exporters : y # x => EInv(y)' /\ CInv(y)'
          /\ \A l \in Loaders : LInv(l)'
      BY <2>1, LocalKeeps DEF IInv, TypeOK
    <2>5. epc'[x] = "count" /\ kind'[x] = "index" /\ EInv(x) /\ CInv(x)
      BY <2>1 DEF IInv, TypeOK
    <2>6. EInv(x)'
      BY <2>5 DEF EInv, Writing
    <2>7. CInv(x)'
      <3> SUFFICES ASSUME calm[x] PROVE CInv(x)'
        BY <2>1 DEF CInv
      <3>1. PICK f : f = Out(x)
        OBVIOUS
      <3>2. /\ Sure(f, done, fill) /\ i[x] = count[x] /\ count[x] <= committed
            /\ Len(f.recs) = i[x] /\ f = file["chunk"][name[x]]
        BY <1>1, <2>1, <2>5, <3>1 DEF CInv, EInv, Current, Counted, Writing, Out
      <3>3. committed' = committed
        BY <2>1 DEF committed, regionVars
      <3> QED
        BY <2>1, <2>5, <3>2, <3>3 DEF CInv, Writing, regionVars, disk
    <2> QED  BY <2>2, <2>3, <2>4, <2>6, <2>7 DEF IInv
  <1>2. CASE ~(dumping[x] /\ kind[x] = "chunk")
    BY <1>2, ReturnStep DEF ExportReturns, Busy
  <1> QED  BY <1>1, <1>2

-----------------------------------------------------------------------------
(* Exports: the steps that write. *)

LEMMA CreateStep ==
    ASSUME IInv, NEW x \in Exporters, Create(x)
    PROVE  IInv'
  <1> DEFINE e == Empty("created", 0)
  <1>1. CASE /\ epc[x] = "create"
             /\ file' = [file EXCEPT ![kind[x]][name[x]] = e]
             /\ epc' = [epc EXCEPT ![x] = "header"]
             /\ alone' = [l \in Loaders |-> alone[l] /\ ~(kind[x] = "chunk"
                                                    /\ source[l] = name[x])]
             /\ UNCHANGED <<regionVars, full, kind, name, count, i, held, at,
                            dumping, drained, solid, calm, LoadedChunkEntries,
                            chunkLoaded, lpc, source, lcount, j>>
    <2> USE <1>1
    <2>1. kind[x] \in Kinds /\ name[x] \in Names /\ "chunk" \in Kinds
          /\ e \in Contents
      BY Numbers, SlotsAssumption DEF Empty, Contents
    <2>2. /\ file' \in [Kinds -> [Names -> Contents]]
          /\ file'[kind[x]][name[x]] = e
          /\ \A k \in Kinds, n \in Names :
                 (k # kind[x] \/ n # name[x]) => file'[k][n] = file[k][n]
      BY <2>1 DEF IInv, TypeOK
    <2>3. /\ alone' \in [Loaders -> BOOLEAN]
          /\ \A l \in Loaders : alone'[l] =>
                 alone[l] /\ ~(kind[x] = "chunk" /\ source[l] = name[x])
      BY DEF IInv, TypeOK
    <2>r. RegionInv'
      BY RegionSame DEF IInv
    <2>4. TypeOK'
      <3>1. epc' \in [Exporters -> ExportPCs]
        BY DEF IInv, TypeOK, ExportPCs
      <3> QED
        BY <2>2, <2>3, <2>r, <3>1 DEF IInv, TypeOK, RegionInv, regionVars
    <2>5. Exclusive'
      BY NamesKept DEF Busy, IInv, TypeOK
    <2>6. FilesOK'
      <3>1. FileOK(e, fill)
        BY DEF FileOK, Empty
      <3> HIDE DEF e
      <3> QED  BY <2>2, <3>1 DEF IInv, FilesOK, regionVars
    <2>7. ASSUME NEW y \in Exporters, y # x PROVE EInv(y)' /\ CInv(y)'
      <3>1. Busy(y) => name[y] # name[x]
        BY <2>7 DEF IInv, Exclusive, Busy
      <3>2. /\ fill' \in Int /\ committed' \in Int /\ fill <= fill' /\ Steady
            /\ name[y] \in Names
        BY Numbers DEF regionVars, committed, Steady
      <3>3. UNCHANGED <<epc[y], fill, full>>
        BY <2>7 DEF IInv, TypeOK, regionVars
      <3> HIDE DEF e
      <3> QED  BY <2>2, <3>1, <3>2, <3>3, ExporterKept
    <2>8. ASSUME NEW l \in Loaders PROVE LInv(l)'
      <3>1. source[l] \in Names /\ file["chunk"][source[l]] \in Contents
        BY <2>1 DEF IInv, TypeOK
      <3>2. alone'[l] => Grows(file["chunk"][source[l]],
                               file'["chunk"][source[l]])
        BY <2>1, <2>2, <2>3, <3>1, GrowsSame
      <3> QED  BY <2>2, <2>3, <3>2, LoaderKept DEF IInv
    <2>9. epc'[x] = "header" /\ EInv(x) /\ CInv(x) /\ Out(x)' = e
      BY <2>2 DEF IInv, TypeOK, Out
    <2>10. EInv(x)'
      <3>1. i[x] = 0 /\ 0 <= count[x]
        BY <2>9, Numbers DEF EInv
      <3> QED  BY <2>9, <3>1 DEF EInv, Current, Empty, Writing
    <2>11. CInv(x)'
      <3>1. Len(e.recs) = 0
        BY DEF Empty
      <3> HIDE DEF e
      <3>2. /\ Sure(e, done, fill) /\ \A S \in SUBSET Slots : Has(e, S, fill)
            /\ \A c, S : Covers(c, e, S)
        <4>1. Sure(e, done, fill) /\ \A c, S : Covers(c, e, S)
          BY <3>1 DEF Sure, Covers
        <4>2. \A s \in Slots : ~(s < 0)
          BY SlotsAssumption DEF Slots
        <4> QED  BY <3>1, <4>1, <4>2 DEF Has
      <3>3. (kind[x] = "index") =>
                (file["chunk"][name[x]])' = file["chunk"][name[x]]
        BY <2>1, <2>2
      <3>4. Counted(x) => Counted(x)'
        BY DEF Counted, regionVars, committed
      <3>5. committed' = committed /\ solid[x] \cap settled \in SUBSET Slots
        BY Numbers DEF committed, regionVars
      <3> QED
        BY <2>9, <3>2, <3>3, <3>4, <3>5 DEF CInv, Writing, regionVars
    <2> QED
      BY <2>r, <2>4, <2>5, <2>6, <2>7, <2>8, <2>10, <2>11 DEF IInv
  <1>2. CASE /\ epc[x] = "create" /\ Return(x)
             /\ UNCHANGED <<file, alone, regionVars, full, kind, name,
                            LoadedChunkEntries, chunkLoaded, lpc, source,
                            lcount, j>>
    BY <1>2, ReturnStep DEF Busy, disk, loadVars
  <1> QED  BY <1>1, <1>2 DEF Create

\* If the disk is not full after a write of x, or x is calm, it got through.
LEMMA PutThrough ==
    ASSUME IInv, NEW x \in Exporters,
           NEW whole \in Contents, NEW part \in Contents, Put(x, whole, part),
           kind'[x] = kind[x], name'[x] = name[x]
    PROVE  /\ (~full' \/ calm'[x]) => ~full /\ Out(x)' = whole
           /\ calm'[x] => calm[x]
           /\ kind[x] = "index" =>
                  (file["chunk"][name[x]])' = file["chunk"][name[x]]
  <1>1. kind[x] \in Kinds /\ name[x] \in Names /\ "chunk" \in Kinds
    BY Numbers
  <1> QED  BY <1>1, PutEffect DEF IInv, Out

LEMMA HeaderStep ==
    ASSUME IInv, NEW x \in Exporters, Header(x)
    PROVE  IInv'
  <1> DEFINE e == Empty("headed", count[x])
  <1>1. /\ epc[x] = "header" /\ Put(x, e, Out(x))
        /\ epc' = [epc EXCEPT ![x] = "entry"]
        /\ UNCHANGED <<regionVars, kind, name, count, i, held, at, dumping,
                       drained, solid, loadVars>>
    BY DEF Header
  <1>2. Out(x) \in Contents /\ e \in Contents /\ FileOK(Out(x), fill)
        /\ EInv(x) /\ CInv(x)
    <2>1. e \in Contents
      BY Numbers DEF Contents, Empty
    <2> QED  BY <2>1, OutType DEF IInv
  <1>3. i[x] = 0 /\ Out(x).head = "created" /\ 0 <= count[x]
        /\ e.head = "headed" /\ e.count = count[x] /\ e.recs = <<>>
        /\ e.tail = "none" /\ FileOK(e, fill) /\ Len(e.recs) = 0
    BY <1>1, <1>2, Numbers DEF EInv, Empty, FileOK, Writing
  <1> HIDE DEF e
  <1>4. \A l \in Loaders :
            ~(alone[l] /\ kind[x] = "chunk" /\ source[l] = name[x])
    BY <1>3 DEF IInv, LInv, Stored, Out
  <1>5. \A y \in Exporters : y # x => UNCHANGED <<epc[y], i[y], held[y], at[y]>>
    BY <1>1 DEF IInv, TypeOK
  <1>6. /\ FilesOK' /\ RegionInv'
        /\ \A y \in Exporters : y # x => EInv(y)' /\ CInv(y)'
        /\ \A l \in Loaders : LInv(l)'
    BY <1>1, <1>2, <1>3, <1>4, <1>5, PutKeeps DEF Busy
  <1>7. TypeOK'
    <2>1. /\ file' \in [Kinds -> [Names -> Contents]]
          /\ full' \in BOOLEAN /\ calm' \in [Exporters -> BOOLEAN]
      BY <1>1, <1>2, PutEffect DEF IInv
    <2>2. epc' \in [Exporters -> ExportPCs]
      BY <1>1 DEF IInv, TypeOK, ExportPCs
    <2> QED
      BY <1>1, <1>6, <2>1, <2>2 DEF IInv, TypeOK, RegionInv, regionVars,
         loadVars
  <1>8. Exclusive'
    BY <1>1, <1>5, NamesKept DEF Busy
  <1>9. /\ (~full' \/ calm'[x]) => ~full /\ Out(x)' = e
        /\ calm'[x] => calm[x]
        /\ kind[x] = "index" =>
               (file["chunk"][name[x]])' = file["chunk"][name[x]]
    BY <1>1, <1>2, PutThrough
  <1>10. epc'[x] = "entry"
    BY <1>1 DEF IInv, TypeOK
  <1>11. EInv(x)'
    BY <1>1, <1>3, <1>9, <1>10 DEF EInv, Current, Writing
  <1>12. CInv(x)'
    <2>1. /\ Sure(e, done, fill) /\ \A S \in SUBSET Slots : Has(e, S, fill)
          /\ \A c, S : Covers(c, e, S)
      <3>1. \A s \in Slots : ~(s < 0)
        BY SlotsAssumption DEF Slots
      <3>2. Sure(e, done, fill) /\ \A c, S : Covers(c, e, S)
        BY <1>3 DEF Sure, Covers
      <3> QED  BY <1>3, <3>1, <3>2 DEF Has
    <2>2. Counted(x) => Counted(x)'
      BY <1>1 DEF Counted, regionVars, committed
    <2>3. committed' = committed /\ solid[x] \cap settled \in SUBSET Slots
      BY <1>1, Numbers DEF committed, regionVars
    <2> QED
      BY <1>1, <1>2, <1>9, <1>10, <2>1, <2>2, <2>3 DEF CInv, Writing, regionVars
  <1> QED  BY <1>6, <1>7, <1>8, <1>11, <1>12 DEF IInv

\* A complete record, or part of one, at the end of a file with room for it.
LEMMA RecordedOK ==
    ASSUME NEW f \in Contents, NEW e \in Record, NEW g, NEW m \in Int,
           g = [head |-> f.head, count |-> f.count,
                recs |-> Append(f.recs, e), tail |-> "none"],
           FileOK(f, m), f.head = "headed", Len(f.recs) < f.count,
           Follows(e, f.recs, m)
    PROVE  FileOK(g, m) /\ (f.tail # "cut" => Grows(f, g))
  <1>1. /\ g \in Contents
        /\ g.head = f.head /\ g.count = f.count /\ g.tail = "none"
        /\ Len(g.recs) = Len(f.recs) + 1
        /\ \A r \in 1 .. Len(f.recs) : g.recs[r] = f.recs[r]
        /\ g.recs[Len(f.recs) + 1] = e
        /\ Len(f.recs) \in Nat
        /\ \A r \in 1 .. Len(f.recs) : f.recs[r] \in Record
    BY RecordedFile
  <1>2. e.data.fill \in Int
    BY RecordFill
  <1>3. f.count \in Int
    BY SlotsAssumption DEF Contents
  <1>4. \A r \in 1 .. Len(g.recs) :
            r \in 1 .. Len(f.recs) \/ (r = Len(f.recs) + 1 /\ g.recs[r] = e)
    BY <1>1
  <1>5. FileOK(g, m)
    <2>1. Len(g.recs) + 0 <= g.count
      BY <1>1, <1>3
    <2>2. ASSUME NEW r \in 1 .. Len(g.recs)
          PROVE  /\ g.recs[r].data.fill >= 0 => g.recs[r].data.slot = r - 1
                 /\ g.recs[r].data.fill <= m
                 /\ g.recs[r].settled =>
                       \A s \in 1 .. r :
                           g.recs[s].data.fill <= g.recs[r].data.fill
      <3>1. CASE r \in 1 .. Len(f.recs)
        <4>1. \A s \in 1 .. r : s \in 1 .. Len(f.recs)
          BY <1>1, <3>1
        <4> QED  BY <1>1, <3>1, <4>1 DEF FileOK
      <3>2. CASE r = Len(f.recs) + 1
        <4>1. \A s \in 1 .. r : s \in 1 .. Len(f.recs) \/ s = r
          BY <1>1, <3>2
        <4> QED  BY <1>1, <1>2, <3>2, <4>1 DEF Follows
      <3> QED  BY <1>4, <3>1, <3>2
    <2> QED  BY <1>1, <2>1, <2>2 DEF FileOK
  <1>6. f.tail # "cut" => Grows(f, g)
    BY <1>1 DEF Grows
  <1> QED  BY <1>5, <1>6

\* What a longer file is known to have.
LEMMA Longer ==
    ASSUME NEW f \in Contents, NEW e \in Record, NEW g, NEW n, n = Len(f.recs),
           g = [head |-> f.head, count |-> f.count,
                recs |-> Append(f.recs, e), tail |-> "none"]
    PROVE  /\ Len(g.recs) = n + 1 /\ n \in Nat
           /\ \A r \in 1 .. n : g.recs[r] = f.recs[r]
           /\ g.recs[n + 1] = e
           /\ \A r \in 1 .. n + 1 : r \in 1 .. n \/ r = n + 1
  <1>1. /\ Len(g.recs) = n + 1 /\ n \in Nat
        /\ \A r \in 1 .. n : g.recs[r] = f.recs[r]
        /\ g.recs[n + 1] = e
    BY RecordedFile
  <1> QED  BY <1>1

LEMMA SureGrows ==
    ASSUME NEW f \in Contents, NEW e \in Record, NEW g, NEW n, n = Len(f.recs),
           g = [head |-> f.head, count |-> f.count,
                recs |-> Append(f.recs, e), tail |-> "none"],
           NEW D, NEW m, Sure(f, D, m),
           e.settled => e.data = Message(m, n) /\ n \in D
    PROVE  Sure(g, D, m)
  BY Longer DEF Sure

LEMMA HasGrows ==
    ASSUME NEW f \in Contents, NEW e \in Record, NEW g, NEW n, n = Len(f.recs),
           g = [head |-> f.head, count |-> f.count,
                recs |-> Append(f.recs, e), tail |-> "none"],
           NEW S \in SUBSET Nat, NEW m, Has(f, S, m),
           n \in S => e.data = Message(m, n)
    PROVE  Has(g, S, m)
  <1> SUFFICES ASSUME NEW s \in S, s < n + 1
               PROVE  g.recs[s + 1].data = Message(m, s)
    BY Longer DEF Has
  <1>1. s \in Nat /\ n \in Nat
    BY Longer
  <1>2. CASE s = n
    BY <1>2, Longer
  <1>3. CASE s # n
    <2>1. s + 1 \in 1 .. n /\ s < n
      BY <1>1, <1>3
    <2>2. f.recs[s + 1].data = Message(m, s)
      BY <2>1 DEF Has
    <2>3. g.recs[s + 1] = f.recs[s + 1]
      BY <2>1, Longer
    <2> QED  BY <2>2, <2>3
  <1> QED  BY <1>2, <1>3

LEMMA CoversGrows ==
    ASSUME NEW f \in Contents, NEW e \in Record, NEW g, NEW n, n = Len(f.recs),
           g = [head |-> f.head, count |-> f.count,
                recs |-> Append(f.recs, e), tail |-> "none"],
           NEW T, NEW c, Covers(c, f, T), n \in T => e.settled
    PROVE  Covers(c, g, T)
  <1> SUFFICES ASSUME NEW r \in 1 .. Len(c.recs), c.recs[r].settled,
                      r - 1 \in T, r <= n + 1
               PROVE  g.recs[r].settled
    BY Longer DEF Covers
  <1>1. r \in Int /\ 1 <= r /\ n \in Nat
    BY Longer
  <1>2. CASE r = n + 1
    <2>1. n = r - 1
      BY <1>1, <1>2
    <2> QED  BY <1>2, <2>1, Longer
  <1>3. CASE r # n + 1
    <2>1. r <= n /\ r \in 1 .. n
      BY <1>1, <1>3
    <2> QED  BY <2>1, Longer DEF Covers
  <1> QED  BY <1>2, <1>3

LEMMA PartialOK ==
    ASSUME NEW f \in Contents, NEW t \in {"fields", "cut"}, NEW m \in Int,
           NEW g, g = [f EXCEPT !.tail = t]
    PROVE  /\ g \in Contents /\ g.head = f.head /\ g.count = f.count
           /\ g.recs = f.recs /\ g.tail = t
           /\ (FileOK(f, m) /\ f.head = "headed" /\ Len(f.recs) < f.count)
                  => FileOK(g, m)
           /\ f.tail # "cut" => Grows(f, g)
  <1>1. /\ g \in Contents /\ g.head = f.head /\ g.count = f.count
        /\ g.recs = f.recs /\ g.tail = t
        /\ Len(f.recs) \in Nat /\ f.count \in Int
    BY SlotsAssumption DEF Contents
  <1>2. (FileOK(f, m) /\ f.head = "headed" /\ Len(f.recs) < f.count)
            => FileOK(g, m)
    <2> SUFFICES ASSUME FileOK(f, m), f.head = "headed",
                        Len(f.recs) < f.count
                 PROVE  FileOK(g, m)
      OBVIOUS
    <2>1. Len(g.recs) + 1 <= g.count /\ g.tail # "none" /\ g.head = "headed"
      BY <1>1
    <2>2. \A r \in 1 .. Len(g.recs) :
              /\ g.recs[r].data.fill >= 0 => g.recs[r].data.slot = r - 1
              /\ g.recs[r].data.fill <= m
              /\ g.recs[r].settled =>
                    \A s \in 1 .. r : g.recs[s].data.fill <= g.recs[r].data.fill
      BY <1>1, Zenon DEF FileOK
    <2> QED  BY <2>1, <2>2 DEF FileOK
  <1>3. f.tail # "cut" => Grows(f, g)
    BY <1>1 DEF Grows
  <1> QED  BY <1>1, <1>2, <1>3

\* An entry that More lets an export have may follow what is in its file.
LEMMA ReadOK ==
    ASSUME IInv, NEW x \in Exporters, More(x)
    PROVE  /\ Read(x) \in Record /\ i[x] \in Slots
           /\ i[x] = Len(Out(x).recs) => Follows(Read(x), Out(x).recs, fill)
           /\ Read(x).settled <=> i[x] \in settled
           /\ i[x] \in settled => Read(x).data = Message(fill, i[x])
                                  /\ i[x] \in done
  <1>1. PICK s : s = i[x]
    OBVIOUS
  <1>2. fill \in Nat /\ s \in Slots /\ RegionInv /\ fill % 2 \in 0 .. 1
    <2>1. s \in 0 .. MaxSlots /\ s < committed /\ committed \in 0 .. MaxSlots
      BY <1>1, Numbers DEF More, Given
    <2> QED  BY <2>1, Numbers DEF Slots, IInv
  <1>3. PICK d : d = At(fill, s).data
    OBVIOUS
  <1>4. d \in Data /\ Read(x) = [data |-> d, settled |-> s \in settled]
    <2>1. At(fill, s) \in Entry
      BY <1>2, EntryAt DEF RegionInv
    <2> QED  BY <1>1, <1>3, <2>1 DEF Entry, Read
  <1>5. d.fill \in Int /\ (d.fill >= 0 => d.slot = s /\ d.fill <= fill)
    <2>1. d.fill \in Int
      BY <1>4 DEF Data
    <2>2. d.fill >= 0 => d.slot = s /\ d.fill <= fill
      BY <1>2, <1>3 DEF RegionInv, MessagesInPlace, At
    <2> QED  BY <2>1, <2>2
  <1>6. d.fill <= fill
    BY <1>2, <1>5
  <1>7. s \in settled => d = Message(fill, s) /\ s \in done /\ d.fill = fill
    BY <1>3, SettledHold, Numbers DEF IInv, Message
  <1>8. Read(x) \in Record /\ Read(x).data = d
        /\ (Read(x).settled <=> s \in settled)
    <2>1. PICK b \in BOOLEAN : b <=> s \in settled
      OBVIOUS
    <2>2. b = (s \in settled)
      BY <2>1, Zenon
    <2>3. Read(x) = [data |-> d, settled |-> b]
      BY <1>4, <2>2
    <2>4. d \in Data
      BY <1>4
    <2>5. Read(x) \in Record /\ Read(x).data = d /\ Read(x).settled = b
      BY <2>1, <2>3, <2>4 DEF Record
    <2> QED  BY <2>1, <2>5
  <1>9. \A r \in 1 .. Len(Out(x).recs) : Out(x).recs[r].data.fill <= fill
    BY OutType DEF FileOK
  <1>10. s = Len(Out(x).recs) => Follows(Read(x), Out(x).recs, fill)
    BY <1>5, <1>6, <1>7, <1>8, <1>9 DEF Follows
  <1> QED  BY <1>1, <1>2, <1>7, <1>8, <1>10

\* A record e that exporter x adds to its file.
LEMMA RecordStep ==
    ASSUME IInv, NEW x \in Exporters, epc[x] \in {"entry", "data"},
           NEW e \in Record, NEW t \in {"fields", "cut"},
           Put(x, Recorded(x, e), Partial(x, t)),
           epc' = [epc EXCEPT ![x] = "entry"], i' = [i EXCEPT ![x] = @ + 1],
           held' \in [Exporters -> Record], at' \in [Exporters -> 0 .. fill],
           \A y \in Exporters : y # x => UNCHANGED <<held[y], at[y]>>,
           UNCHANGED <<regionVars, kind, name, count, dumping, drained, solid,
                       loadVars>>,
           i[x] < count[x],
           (~full \/ calm[x]) => Follows(e, Out(x).recs, fill),
           (calm[x] /\ e.settled) => e.data = Message(fill, i[x])
                                     /\ i[x] \in done,
           (calm[x] /\ i[x] \in solid[x] \cap settled) =>
               e.data = Message(fill, i[x]),
           kind[x] = "index" => (e.settled <=> i[x] \in settled)
    PROVE  IInv'
  <1>1. PICK f, g, p, n : /\ f = Out(x) /\ g = Recorded(x, e)
                          /\ p = Partial(x, t) /\ n = i[x]
    OBVIOUS
  <1>2. /\ f \in Contents /\ FileOK(f, fill) /\ EInv(x) /\ CInv(x)
        /\ fill \in Int /\ committed \in Int /\ n \in Nat
        /\ count[x] \in 0 .. MaxSlots /\ n < count[x] /\ MaxSlots \in Nat
    BY <1>1, Numbers, OutType DEF IInv
  <1>3. (~full \/ calm[x]) =>
            /\ f.head = "headed" /\ f.count = count[x]
            /\ Len(f.recs) = n /\ f.tail # "cut"
    BY <1>1, <1>2 DEF EInv, Current, Writing
  <1>4. /\ p = [f EXCEPT !.tail = t]
        /\ g = [head |-> f.head, count |-> f.count,
                recs |-> Append(f.recs, e), tail |-> "none"]
    BY <1>1 DEF Partial, Recorded
  <1>5. /\ p \in Contents /\ g \in Contents
        /\ ~full => FileOK(p, fill) /\ Grows(f, p)
    BY <1>2, <1>3, <1>4, PartialOK, RecordedFile
  <1>6. /\ g.head = f.head /\ g.count = f.count /\ g.tail = "none"
        /\ Len(g.recs) = Len(f.recs) + 1
    BY <1>2, <1>4, RecordedFile
  <1>7. (~full \/ calm[x]) => FileOK(g, fill) /\ Grows(f, g)
    BY <1>1, <1>2, <1>3, <1>4, RecordedOK
  <1>8. \A y \in Exporters : y # x => UNCHANGED <<epc[y], i[y], held[y], at[y]>>
    BY DEF IInv, TypeOK
  <1>9. /\ FilesOK' /\ RegionInv'
        /\ \A y \in Exporters : y # x => EInv(y)' /\ CInv(y)'
        /\ \A l \in Loaders : LInv(l)'
    <2>1. Put(x, g, p) /\ (~full => FileOK(g, fill) /\ FileOK(p, fill))
          /\ (~full => Grows(Out(x), g) /\ Grows(Out(x), p)) /\ Busy(x)
      BY <1>1, <1>5, <1>7 DEF Busy
    <2> QED  BY <1>5, <1>8, <2>1, PutKeeps
  <1>10. TypeOK'
    <2>1. /\ file' \in [Kinds -> [Names -> Contents]]
          /\ full' \in BOOLEAN /\ calm' \in [Exporters -> BOOLEAN]
      BY <1>1, <1>5, PutEffect DEF IInv
    <2>2. epc' \in [Exporters -> ExportPCs]
      BY DEF IInv, TypeOK, ExportPCs
    <2>3. i' \in [Exporters -> 0 .. MaxSlots]
      <3>1. i[x] + 1 \in 0 .. MaxSlots
        BY <1>1, <1>2
      <3> QED  BY <3>1 DEF IInv, TypeOK
    <2>4. at' \in [Exporters -> 0 .. fill']
      BY DEF regionVars
    <2> QED
      BY <1>9, <2>1, <2>2, <2>3, <2>4
         DEF IInv, TypeOK, RegionInv, regionVars, loadVars
  <1>11. Exclusive'
    BY <1>8, NamesKept DEF Busy
  <1>12. /\ (~full' \/ calm'[x]) => ~full /\ Out(x)' = g
         /\ calm'[x] => calm[x]
         /\ kind[x] = "index" =>
                (file["chunk"][name[x]])' = file["chunk"][name[x]]
    BY <1>1, <1>5, PutThrough
  <1>13. epc'[x] = "entry" /\ i'[x] = n + 1
    BY <1>1 DEF IInv, TypeOK
  <1>14. EInv(x)'
    <2>1. (~full' \/ calm'[x]) => Current(x)'
      BY <1>3, <1>6, <1>12, <1>13 DEF Current
    <2>2. i'[x] <= count'[x]
      BY <1>2, <1>13
    <2> QED  BY <1>13, <2>1, <2>2 DEF EInv
  <1>15. CInv(x)'
    <2> SUFFICES ASSUME calm'[x] PROVE CInv(x)'
      BY DEF CInv
    <2>1. PICK c, S : c = file["chunk"][name[x]] /\ S = solid[x] \cap settled
      OBVIOUS
    <2>2. calm[x] /\ Len(f.recs) = n /\ Out(x)' = g
      BY <1>3, <1>12
    <2>3. S \in SUBSET Nat
      BY <2>1, Numbers DEF Slots
    <2>4. /\ Counted(x) /\ Sure(f, done, fill) /\ Has(f, S, fill)
          /\ (dumping[x] /\ kind[x] = "index") =>
                /\ Sure(c, done, fill) /\ Len(c.recs) <= committed
                /\ Len(c.recs) <= count[x] /\ Covers(c, f, settled)
      BY <1>1, <1>2, <2>1, <2>2 DEF CInv, Writing
    <2>5. /\ e.settled => e.data = Message(fill, n) /\ n \in done
          /\ n \in S => e.data = Message(fill, n)
      BY <1>1, <2>1, <2>2
    <2>6. Sure(g, done, fill) /\ Has(g, S, fill)
      BY <1>2, <1>4, <2>2, <2>3, <2>4, <2>5, SureGrows, HasGrows
    <2>7. (dumping[x] /\ kind[x] = "index") => Covers(c, g, settled)
      <3> SUFFICES ASSUME dumping[x], kind[x] = "index"
                   PROVE  Covers(c, g, settled)
        OBVIOUS
      <3>1. n \in settled => e.settled
        BY <1>1
      <3>2. Covers(c, f, settled)
        BY <2>4
      <3> QED  BY <1>2, <1>4, <2>2, <2>3, <3>1, <3>2, CoversGrows
    <2>8. Counted(x)'
      BY <2>4 DEF Counted, regionVars, committed
    <2>9. committed' = committed
      BY DEF regionVars, committed
    <2> QED
      BY <1>12, <1>13, <2>1, <2>2, <2>4, <2>6, <2>7, <2>8, <2>9
         DEF CInv, regionVars
  <1> QED  BY <1>9, <1>10, <1>11, <1>14, <1>15 DEF IInv

LEMMA WriteReadStep ==
    ASSUME IInv, NEW x \in Exporters, WriteEmpty(x) \/ WriteIndexRecord(x)
    PROVE  IInv'
  <1>1. PICK e : e = Read(x)
    OBVIOUS
  <1>2. /\ epc[x] = "entry" /\ More(x) /\ Put(x, Recorded(x, e), Partial(x, "fields"))
        /\ i' = [i EXCEPT ![x] = @ + 1]
        /\ UNCHANGED <<regionVars, epc, kind, name, count, held, at, dumping,
                       drained, solid, loadVars>>
    BY <1>1 DEF WriteEmpty, WriteIndexRecord
  <1>3. epc' = [epc EXCEPT ![x] = "entry"]
    BY <1>2 DEF IInv, TypeOK
  <1>4. /\ e \in Record /\ (e.settled <=> i[x] \in settled)
        /\ i[x] \in settled => e.data = Message(fill, i[x]) /\ i[x] \in done
        /\ i[x] = Len(Out(x).recs) => Follows(e, Out(x).recs, fill)
    BY <1>1, <1>2, ReadOK
  <1>5. (~full \/ calm[x]) => i[x] = Len(Out(x).recs)
    BY <1>2 DEF IInv, EInv, Current, Writing
  <1>6. i[x] < count[x]
    BY <1>2 DEF More
  <1>7. held' \in [Exporters -> Record] /\ at' \in [Exporters -> 0 .. fill]
    BY <1>2 DEF IInv, TypeOK
  <1>8. (~full \/ calm[x]) => Follows(e, Out(x).recs, fill)
    BY <1>4, <1>5
  <1>9. /\ (calm[x] /\ e.settled) => e.data = Message(fill, i[x]) /\ i[x] \in done
        /\ (calm[x] /\ i[x] \in solid[x] \cap settled) =>
              e.data = Message(fill, i[x])
    BY <1>4
  <1>10. "fields" \in {"fields", "cut"}
    OBVIOUS
  <1> QED
    BY <1>2, <1>3, <1>4, <1>6, <1>7, <1>8, <1>9, <1>10, RecordStep

LEMMA WriteDataStep ==
    ASSUME IInv, NEW x \in Exporters, WriteData(x)
    PROVE  IInv'
  <1>1. PICK e, h : e = Copied(x) /\ h = held[x]
    OBVIOUS
  <1>2. /\ epc[x] = "data" /\ Put(x, Recorded(x, e), Partial(x, "cut"))
        /\ epc' = [epc EXCEPT ![x] = "entry"]
        /\ i' = [i EXCEPT ![x] = @ + 1]
        /\ held' = [held EXCEPT ![x] = Blank] /\ at' = [at EXCEPT ![x] = 0]
        /\ UNCHANGED <<regionVars, kind, name, count, dumping, drained, solid,
                       loadVars>>
    BY <1>1 DEF WriteData
  <1>3. EInv(x) /\ CInv(x) /\ fill \in Nat /\ h \in Record
    BY <1>1, Numbers DEF IInv, TypeOK
  <1>4. i[x] < count[x] /\ kind[x] = "chunk"
        /\ ((~full \/ calm[x]) => Follows(h, Out(x).recs, fill))
    BY <1>1, <1>2, <1>3 DEF EInv, Current, Writing
  <1>5. e \in Record /\ (e = h \/ e = Cut)
    BY <1>1, <1>3, BlankType DEF Copied
  <1>6. Cut.data.fill = -2 /\ ~Cut.settled
    BY DEF Cut, Torn
  <1>7. (~full \/ calm[x]) => Follows(e, Out(x).recs, fill)
    <2>1. Follows(Cut, Out(x).recs, fill)
      BY <1>3, <1>6 DEF Follows
    <2> QED  BY <1>4, <1>5, <2>1
  <1>8. ASSUME calm[x]
        PROVE  /\ at[x] = fill
               /\ h.settled => h.data = Message(fill, i[x]) /\ i[x] \in done
               /\ i[x] \in solid[x] \cap settled => h.data = Message(fill, i[x])
    BY <1>1, <1>2, <1>3, <1>8 DEF CInv, Holding
  <1>9. (calm[x] /\ e.settled) => e.data = Message(fill, i[x]) /\ i[x] \in done
    BY <1>5, <1>6, <1>8
  <1>10. (calm[x] /\ i[x] \in solid[x] \cap settled) =>
             e.data = Message(fill, i[x])
    <2> SUFFICES ASSUME calm[x], i[x] \in solid[x] \cap settled
                 PROVE  e.data = Message(fill, i[x])
      OBVIOUS
    <2>1. At(fill, i[x]).data = Message(fill, i[x])
      BY SettledHold DEF IInv
    <2>2. At(at[x], i[x]).data = h.data
      BY <1>8, <2>1
    <2>3. e = h
      BY <1>1, <2>2 DEF Copied
    <2> QED  BY <1>8, <2>3
  <1>11. held' \in [Exporters -> Record] /\ at' \in [Exporters -> 0 .. fill]
    BY <1>2, <1>3, BlankType DEF IInv, TypeOK
  <1>12. \A y \in Exporters : y # x => UNCHANGED <<held[y], at[y]>>
    BY <1>2 DEF IInv, TypeOK
  <1>13. "cut" \in {"fields", "cut"} /\ epc[x] \in {"entry", "data"}
    BY <1>2
  <1>14. kind[x] = "index" => (e.settled <=> i[x] \in settled)
    BY <1>4
  <1> QED
    BY <1>2, <1>4, <1>5, <1>7, <1>9, <1>10, <1>11, <1>12, <1>13, <1>14,
       RecordStep

LEMMA WriteFieldsStep ==
    ASSUME IInv, NEW x \in Exporters, WriteFields(x)
    PROVE  IInv'
  <1>1. PICK f, g, e : f = Out(x) /\ g = Partial(x, "fields") /\ e = Read(x)
    OBVIOUS
  <1>2. /\ epc[x] = "entry" /\ More(x) /\ kind[x] = "chunk" /\ Put(x, g, g)
        /\ held' = [held EXCEPT ![x] = e] /\ at' = [at EXCEPT ![x] = fill]
        /\ epc' = [epc EXCEPT ![x] = "data"]
        /\ UNCHANGED <<regionVars, kind, name, count, i, dumping, drained,
                       solid, loadVars>>
    BY <1>1 DEF WriteFields
  <1>3. /\ f \in Contents /\ FileOK(f, fill) /\ EInv(x) /\ CInv(x)
        /\ fill \in Nat /\ count[x] \in Int /\ i[x] \in Nat
        /\ i[x] < count[x]
    BY <1>1, <1>2, Numbers, OutType DEF IInv, More
  <1>4. (~full \/ calm[x]) =>
            /\ f.head = "headed" /\ f.count = count[x]
            /\ Len(f.recs) = i[x] /\ f.tail = "none"
    BY <1>1, <1>2, <1>3 DEF EInv, Current, Writing
  <1>5. g = [f EXCEPT !.tail = "fields"]
    BY <1>1 DEF Partial
  <1>6. /\ g \in Contents /\ g.head = f.head /\ g.count = f.count
        /\ g.recs = f.recs /\ g.tail = "fields"
        /\ ~full => FileOK(g, fill) /\ Grows(f, g)
    BY <1>3, <1>4, <1>5, PartialOK
  <1>7. /\ e \in Record /\ (e.settled <=> i[x] \in settled)
        /\ i[x] \in settled => e.data = Message(fill, i[x]) /\ i[x] \in done
        /\ i[x] = Len(f.recs) => Follows(e, f.recs, fill)
    BY <1>1, <1>2, ReadOK
  <1>8. \A y \in Exporters : y # x => UNCHANGED <<epc[y], i[y], held[y], at[y]>>
    BY <1>2 DEF IInv, TypeOK
  <1>9. /\ FilesOK' /\ RegionInv'
        /\ \A y \in Exporters : y # x => EInv(y)' /\ CInv(y)'
        /\ \A l \in Loaders : LInv(l)'
    <2>1. (~full => Grows(Out(x), g)) /\ Busy(x)
      BY <1>1, <1>2, <1>6 DEF Busy
    <2> QED  BY <1>2, <1>6, <1>8, <2>1, PutKeeps
  <1>10. TypeOK'
    <2>1. /\ file' \in [Kinds -> [Names -> Contents]]
          /\ full' \in BOOLEAN /\ calm' \in [Exporters -> BOOLEAN]
      BY <1>2, <1>6, PutEffect DEF IInv
    <2>2. epc' \in [Exporters -> ExportPCs]
          /\ held' \in [Exporters -> Record] /\ at' \in [Exporters -> 0 .. fill]
      BY <1>2, <1>3, <1>7 DEF IInv, TypeOK, ExportPCs
    <2>3. at' \in [Exporters -> 0 .. fill']
      BY <1>2, <2>2 DEF regionVars
    <2> QED
      BY <1>2, <1>9, <2>1, <2>2, <2>3
         DEF IInv, TypeOK, RegionInv, regionVars, loadVars
  <1>11. Exclusive'
    BY <1>2, <1>8, NamesKept DEF Busy
  <1>12. /\ (~full' \/ calm'[x]) => ~full /\ Out(x)' = g
         /\ calm'[x] => calm[x]
    BY <1>2, <1>6, PutThrough
  <1>13. epc'[x] = "data" /\ held'[x] = e /\ at'[x] = fill
    BY <1>2 DEF IInv, TypeOK
  <1>14. EInv(x)'
    <2>1. fill' = fill
      BY <1>2 DEF regionVars
    <2>2. (~full' \/ calm'[x]) => Current(x)'
      BY <1>2, <1>4, <1>6, <1>7, <1>12, <1>13, <2>1 DEF Current
    <2>3. i[x] <= count[x]
      BY <1>3
    <2> QED  BY <1>2, <1>3, <1>13, <2>2, <2>3 DEF EInv
  <1>15. CInv(x)'
    <2> SUFFICES ASSUME calm'[x] PROVE CInv(x)'
      BY DEF CInv
    <2>1. calm[x] /\ Out(x)' = g
      BY <1>12
    <2>2. Counted(x) /\ Sure(f, done, fill) /\ Has(f, solid[x] \cap settled, fill)
      BY <1>1, <1>2, <1>3, <2>1 DEF CInv, Writing
    <2>3. Sure(g, done, fill) /\ Has(g, solid[x] \cap settled, fill)
      BY <1>6, <2>2 DEF Sure, Has
    <2>4. Counted(x)' /\ Holding(x)'
      BY <1>2, <1>7, <1>13, <2>2 DEF Counted, Holding, regionVars, committed
    <2> QED
      BY <1>2, <1>13, <2>1, <2>3, <2>4 DEF CInv, regionVars
  <1> QED  BY <1>9, <1>10, <1>11, <1>14, <1>15 DEF IInv

-----------------------------------------------------------------------------
(* Loads. *)

LEMMA LoadChunkStep ==
    ASSUME IInv, NEW l \in Loaders, NEW n \in Names, LoadChunk(l, n)
    PROVE  IInv'
  <1> DEFINE f == file["chunk"][n]
  <1>1. /\ f.head = "headed"
        /\ LoadedChunkEntries' = [b \in 1 .. f.count |-> Blank]
        /\ lpc' = [lpc EXCEPT ![l] = "record"]
        /\ source' = [source EXCEPT ![l] = n]
        /\ lcount' = [lcount EXCEPT ![l] = f.count]
        /\ j' = [j EXCEPT ![l] = 0]
        /\ alone' = [a \in Loaders |-> a = l]
        /\ UNCHANGED <<regionVars, disk, exportVars, chunkLoaded>>
    BY DEF LoadChunk
  <1>2. f \in Contents /\ f.count \in 0 .. MaxSlots
    BY DEF IInv, TypeOK, Kinds, Contents
  <1>3. /\ LoadedChunkEntries' \in Seq(Record)
        /\ Len(LoadedChunkEntries') = f.count
    <2>1. PICK m, z : m = f.count /\ z = Blank
      OBVIOUS
    <2>2. m \in Nat /\ z \in Record
      BY <1>2, <2>1, BlankType, SlotsAssumption
    <2>3. LoadedChunkEntries' = [b \in 1 .. m |-> z]
      BY <1>1, <2>1
    <2>4. /\ [b \in 1 .. m |-> z] \in Seq(Record)
          /\ Len([b \in 1 .. m |-> z]) = m
      BY <2>2
    <2> QED  BY <2>1, <2>3, <2>4
  <1>4. TypeOK'
    <2>1. /\ lpc' \in [Loaders -> {"idle", "record", "search"}]
          /\ source' \in [Loaders -> Names]
          /\ lcount' \in [Loaders -> 0 .. MaxSlots]
          /\ j' \in [Loaders -> 0 .. MaxSlots]
          /\ alone' \in [Loaders -> BOOLEAN]
      BY <1>1, <1>2, SlotsAssumption DEF IInv, TypeOK
    <2>r. RegionTypeOK'
      BY <1>1, RegionSame DEF IInv, RegionInv
    <2> QED
      BY <1>1, <1>3, <2>1, <2>r DEF IInv, TypeOK, regionVars, disk, exportVars
  <1>5. /\ FilesOK' /\ RegionInv' /\ Exclusive'
        /\ \A y \in Exporters : EInv(y)' /\ CInv(y)'
    BY <1>1, LoadKeeps
  <1>6. ASSUME NEW a \in Loaders PROVE LInv(a)'
    <2>1. CASE a # l
      BY <1>1, <2>1 DEF LInv
    <2>2. CASE a = l
      <3>1. /\ source'[l] = n /\ lcount'[l] = f.count /\ j'[l] = 0
            /\ lpc'[l] = "record" /\ file' = file
        BY <1>1 DEF IInv, TypeOK, disk
      <3> QED  BY <1>1, <1>2, <1>3, <2>2, <3>1 DEF LInv, Stored
    <2> QED  BY <2>1, <2>2
  <1> QED  BY <1>4, <1>5, <1>6 DEF IInv

LEMMA ReadRecordStep ==
    ASSUME IInv, NEW l \in Loaders, ReadRecord(l)
    PROVE  IInv'
  <1> DEFINE f == file["chunk"][source[l]]
  <1>1. PICK e \in Readable(l) :
            LoadedChunkEntries' = [LoadedChunkEntries EXCEPT ![j[l] + 1] = e]
    BY DEF ReadRecord
  <1>2. /\ lpc[l] = "record" /\ j[l] < lcount[l]
        /\ j[l] < Len(LoadedChunkEntries)
        /\ j' = [j EXCEPT ![l] = @ + 1]
        /\ alone' = [a \in Loaders |-> a = l /\ alone[a]]
        /\ UNCHANGED <<regionVars, disk, exportVars, chunkLoaded, lpc, source,
                       lcount>>
    BY DEF ReadRecord
  <1>3. f \in Contents /\ Len(f.recs) \in Nat /\ f.recs \in Seq(Record)
        /\ j[l] \in Nat /\ lcount[l] \in 0 .. MaxSlots
    BY SlotsAssumption DEF IInv, TypeOK, Kinds, Contents
  <1>4. \/ j[l] < Len(f.recs) /\ e = f.recs[j[l] + 1]
        \/ j[l] = Len(f.recs) /\ f.tail = "cut" /\ e = Cut
    BY <1>1, <1>3 DEF Readable
  <1>5. e \in Record
    BY <1>3, <1>4, BlankType
  <1>6. /\ LoadedChunkEntries' \in Seq(Record)
        /\ Len(LoadedChunkEntries') = Len(LoadedChunkEntries)
        /\ LoadedChunkEntries'[j[l] + 1] = e
        /\ \A r \in 1 .. j[l] : LoadedChunkEntries'[r] = LoadedChunkEntries[r]
    BY <1>1, <1>2, <1>3, <1>5 DEF IInv, TypeOK
  <1>7. TypeOK'
    <2>1. j[l] + 1 \in 0 .. MaxSlots
      BY <1>2, <1>3, SlotsAssumption
    <2>2. j' \in [Loaders -> 0 .. MaxSlots]
      BY <1>2, <2>1 DEF IInv, TypeOK
    <2>3. alone' \in [Loaders -> BOOLEAN]
      BY <1>2 DEF IInv, TypeOK
    <2>r. RegionTypeOK'
      BY <1>2, RegionSame DEF IInv, RegionInv
    <2> QED
      BY <1>2, <1>6, <2>2, <2>3, <2>r DEF IInv, TypeOK, regionVars, disk,
         exportVars
  <1>8. /\ FilesOK' /\ RegionInv' /\ Exclusive'
        /\ \A y \in Exporters : EInv(y)' /\ CInv(y)'
    BY <1>2, LoadKeeps
  <1>9. ASSUME NEW a \in Loaders PROVE LInv(a)'
    <2>1. CASE a # l \/ ~alone[l]
      BY <1>2, <2>1 DEF LInv
    <2>2. CASE a = l /\ alone[l]
      <3>1. Stored(l, f)
        BY <2>2 DEF IInv, LInv
      <3>2. /\ j'[l] = j[l] + 1 /\ file' = file /\ source'[l] = source[l]
            /\ lcount'[l] = lcount[l] /\ lpc'[l] = "record"
        BY <1>2 DEF IInv, TypeOK, disk
      <3>3. j[l] + 1 <= lcount[l]
        BY <1>2, <1>3
      <3>4. ASSUME NEW r \in 1 .. j[l] + 1
            PROVE  IF r <= Len(f.recs) THEN LoadedChunkEntries'[r] = f.recs[r]
                   ELSE /\ r = Len(f.recs) + 1 /\ f.tail = "cut"
                        /\ LoadedChunkEntries'[r] = Cut
        <4>1. CASE r \in 1 .. j[l]
          BY <1>6, <3>1, <4>1 DEF Stored
        <4>2. CASE r = j[l] + 1
          BY <1>3, <1>4, <1>6, <4>2
        <4> QED  BY <1>3, <4>1, <4>2
      <3>5. /\ f.head = "headed" /\ f.count = lcount[l]
            /\ Len(LoadedChunkEntries') = lcount[l]
        BY <1>6, <3>1 DEF Stored
      <3> HIDE DEF f
      <3>6. Stored(l, f)'
        BY <3>2, <3>3, <3>4, <3>5 DEF Stored, f
      <3> QED  BY <2>2, <3>2, <3>6 DEF LInv, f
    <2> QED  BY <2>1, <2>2
  <1> QED  BY <1>7, <1>8, <1>9 DEF IInv

LEMMA LoadEndsStep ==
    ASSUME IInv, NEW l \in Loaders, LoadFails(l) \/ Search(l)
    PROVE  IInv'
  <1>1. /\ LoaderDone(l)
        /\ UNCHANGED <<regionVars, disk, exportVars, LoadedChunkEntries,
                       chunkLoaded, source>>
    BY DEF LoadFails, Search
  <1>2. TypeOK'
    <2>1. /\ lpc' \in [Loaders -> {"idle", "record", "search"}]
          /\ lcount' \in [Loaders -> 0 .. MaxSlots]
          /\ j' \in [Loaders -> 0 .. MaxSlots]
          /\ alone' \in [Loaders -> BOOLEAN]
      BY <1>1, SlotsAssumption DEF LoaderDone, IInv, TypeOK
    <2>r. RegionTypeOK'
      BY <1>1, RegionSame DEF IInv, RegionInv
    <2> QED
      BY <1>1, <2>1, <2>r DEF IInv, TypeOK, regionVars, disk, exportVars
  <1>3. /\ FilesOK' /\ RegionInv' /\ Exclusive'
        /\ \A y \in Exporters : EInv(y)' /\ CInv(y)'
    BY <1>1, LoadKeeps
  <1>4. ASSUME NEW a \in Loaders PROVE LInv(a)'
    <2>1. CASE a = l
      BY <1>1, <2>1 DEF LInv, LoaderDone, IInv, TypeOK
    <2>2. CASE a # l
      BY <1>1, <2>2 DEF LInv, Stored, LoaderDone, IInv, TypeOK, disk
    <2> QED  BY <2>1, <2>2
  <1> QED  BY <1>2, <1>3, <1>4 DEF IInv

LEMMA LoadReturnsStep ==
    ASSUME IInv, NEW l \in Loaders, LoadReturns(l)
    PROVE  IInv'
  <1>1. /\ lpc[l] = "record" /\ j[l] = lcount[l] /\ chunkLoaded' = TRUE
        /\ lpc' = [lpc EXCEPT ![l] = "search"]
        /\ UNCHANGED <<regionVars, disk, exportVars, LoadedChunkEntries,
                       source, lcount, j, alone>>
    BY DEF LoadReturns
  <1>2. TypeOK'
    <2>1. lpc' \in [Loaders -> {"idle", "record", "search"}]
      BY <1>1 DEF IInv, TypeOK
    <2>2. chunkLoaded' \in BOOLEAN
      BY <1>1, Zenon
    <2>r. RegionTypeOK'
      BY <1>1, RegionSame DEF IInv, RegionInv
    <2> QED
      BY <1>1, <2>1, <2>2, <2>r
         DEF IInv, TypeOK, regionVars, disk, exportVars
  <1>3. /\ FilesOK' /\ RegionInv' /\ Exclusive'
        /\ \A y \in Exporters : EInv(y)' /\ CInv(y)'
    BY <1>1, LoadKeeps
  <1>4. ASSUME NEW a \in Loaders PROVE LInv(a)'
    BY <1>1 DEF LInv, Stored, IInv, TypeOK, disk
  <1> QED  BY <1>2, <1>3, <1>4 DEF IInv

-----------------------------------------------------------------------------
(* The invariant of the specification, and what follows from it. *)

LEMMA IInvNext == IInv /\ [Next]_vars => IInv'
  <1> SUFFICES ASSUME IInv, [Next]_vars PROVE IInv'
    OBVIOUS
  <1>1. CASE Fills \/ TriggerDrain
    BY <1>1, FillsStep, TriggerDrainStep
  <1>2. ASSUME fill <= MaxFills, Die PROVE IInv'
    BY <1>2, DieStep
  <1>3. CASE Restart
    <2>1. fill <= MaxFills
      BY <1>3, FillsAssumption, Numbers DEF Restart
    <2> QED  BY <1>2, <1>3, <2>1 DEF Restart
  <1>4. ASSUME NEW x \in Exporters, ExportStep(x) PROVE IInv'
    BY <1>4, CallStep, DumpDrainsStep, DumpSpinsStep, CountStep, CreateStep,
       HeaderStep, EndLoopStep, WriteFieldsStep, WriteReadStep, WriteDataStep,
       ExportReturnsStep DEF ExportStep, Kinds
  <1>5. ASSUME NEW l \in Loaders, LoadStep(l) PROVE IInv'
    BY <1>2, <1>5, LoadChunkStep, ReadRecordStep, LoadEndsStep, LoadReturnsStep
    DEF LoadStep, LoadPanics
  <1>6. CASE UNCHANGED vars
    <2> USE <1>6 DEF vars
    <2>2. /\ FilesOK' /\ RegionInv' /\ Exclusive'
          /\ \A y \in Exporters : EInv(y)' /\ CInv(y)'
      BY LoadKeeps
    <2>1. TypeOK'
      BY <2>2 DEF IInv, TypeOK, RegionInv, regionVars, disk, exportVars,
         loadVars
    <2>3. \A l \in Loaders : LInv(l)'
      BY DEF IInv, LInv, Stored, disk, loadVars
    <2> QED  BY <2>1, <2>2, <2>3 DEF IInv
  <1> QED  BY <1>1, <1>3, <1>4, <1>5, <1>6 DEF Next

THEOREM Invariance == Spec => []IInv
  BY IInvInit, IInvNext, PTL DEF Spec

\* Every file, whole, cut or abandoned, keeps to its header: a crash, a full
\* disk or a drain under ExportChunk leaves it short but never too long.
THEOREM FilesKeepToHeader == Spec => []HeaderBounds
  <1>1. IInv => HeaderBounds
    BY DEF IInv, FilesOK, FileOK, HeaderBounds
  <1> QED  BY <1>1, Invariance, PTL

\* A message in record r of a file is of slot r - 1, and where slots were
\* settled when they were read the fills only go forward.
THEOREM FilesInOrder == Spec => []RecordsInOrder
  <1>1. IInv => RecordsInOrder
    BY DEF IInv, FilesOK, FileOK, RecordsInOrder
  <1> QED  BY <1>1, Invariance, PTL

\* ExportChunk and ExportIndex without a drain or a failed write under them
\* leave as many records as they counted, and the message of every slot that
\* was committed by then and has its message still.
THEOREM CalmExportIsWhole == Spec => []WholeExport
  <1>1. IInv => WholeExport
    <2> SUFFICES ASSUME IInv, NEW x \in Exporters, epc[x] = "done", calm[x]
                 PROVE  /\ Out(x).head = "headed" /\ Out(x).count = count[x]
                        /\ Out(x).tail = "none" /\ Len(Out(x).recs) = count[x]
                        /\ \A s \in solid[x] \cap settled :
                               Out(x).recs[s + 1].data = Message(fill, s)
      BY DEF WholeExport
    <2>1. EInv(x) /\ CInv(x)
      BY DEF IInv
    <2>2. /\ Current(x) /\ Has(Out(x), solid[x] \cap settled, fill)
          /\ i[x] = count[x] /\ solid[x] \subseteq 0 .. count[x] - 1
      BY <2>1 DEF EInv, CInv, Counted, Writing
    <2>3. Len(Out(x).recs) = count[x] /\ count[x] \in Nat
      BY <2>2, Numbers DEF Current
    <2>4. \A s \in solid[x] : s < Len(Out(x).recs)
      BY <2>2, <2>3
    <2> QED  BY <2>2, <2>3, <2>4 DEF Current, Has
  <1> QED  BY <1>1, Invariance, PTL

\* The index of a calm AutoDumpOnDrain has a record for every record of its
\* chunk, and the same one where the slot was, and is, settled.
THEOREM DumpIndexCovers == Spec => []IndexCoversChunk
  <1>1. IInv => IndexCoversChunk
    <2> SUFFICES ASSUME IInv, NEW x \in Exporters, epc[x] = "done", calm[x],
                        dumping[x], kind[x] = "index",
                        NEW c, c = file["chunk"][name[x]],
                        NEW f, f = Out(x)
                 PROVE  /\ Len(c.recs) <= Len(f.recs)
                        /\ \A r \in 1 .. Len(c.recs) :
                              (c.recs[r].settled /\ r - 1 \in settled)
                                  => c.recs[r] = f.recs[r]
      BY DEF IndexCoversChunk
    <2>1. EInv(x) /\ CInv(x)
      BY DEF IInv
    <2>2. /\ Current(x) /\ Sure(f, done, fill) /\ i[x] = count[x]
          /\ Sure(c, done, fill) /\ Covers(c, f, settled)
          /\ Len(c.recs) <= count[x]
      BY <2>1 DEF EInv, CInv, Writing
    <2>3. /\ c \in Contents /\ f \in Contents
          /\ Len(c.recs) \in Nat /\ Len(f.recs) \in Nat
      BY OutType
    <2>4. Len(c.recs) <= Len(f.recs)
      BY <2>2 DEF Current
    <2>5. ASSUME NEW r \in 1 .. Len(c.recs), c.recs[r].settled,
                 r - 1 \in settled
          PROVE  c.recs[r] = f.recs[r]
      <3>1. r \in 1 .. Len(f.recs) /\ r <= Len(f.recs)
        BY <2>3, <2>4, <2>5
      <3>2. PICK a, b : a = c.recs[r] /\ b = f.recs[r]
        OBVIOUS
      <3>3. a \in Record /\ b \in Record
        BY <2>3, <3>1, <3>2 DEF Contents
      <3>4. b.settled /\ a.settled
        BY <2>2, <2>5, <3>1, <3>2 DEF Covers
      <3>5. a.data = Message(fill, r - 1) /\ b.data = Message(fill, r - 1)
        BY <2>2, <3>1, <3>2, <3>4 DEF Sure
      <3>6. a.settled = TRUE /\ b.settled = TRUE
        BY <3>3, <3>4, RecordFill
      <3>7. a = [data |-> a.data, settled |-> a.settled]
            /\ b = [data |-> b.data, settled |-> b.settled]
        BY <3>3, RecordFill
      <3> QED  BY <3>2, <3>5, <3>6, <3>7
    <2> QED  BY <2>4, <2>5
  <1> QED  BY <1>1, Invariance, PTL

\* A LoadChunk that nobody interferes with and that returns nil has loaded
\* every record its file counts.
THEOREM QuietLoadIsWhole == Spec => []LoadIsWhole
  <1>1. IInv => LoadIsWhole
    <2> SUFFICES ASSUME IInv, NEW l \in Loaders, lpc[l] = "search", alone[l],
                        NEW f, f = file["chunk"][source[l]]
                 PROVE  /\ chunkLoaded
                        /\ Len(LoadedChunkEntries) = f.count
                        /\ \A r \in 1 .. f.count :
                             IF r <= Len(f.recs)
                             THEN LoadedChunkEntries[r] = f.recs[r]
                             ELSE r = f.count /\ LoadedChunkEntries[r] = Cut
      BY DEF LoadIsWhole
    <2>1. Stored(l, f) /\ j[l] = lcount[l] /\ chunkLoaded
      BY DEF IInv, LInv, Stored
    <2>2. f \in Contents /\ Len(f.recs) \in Nat /\ f.count \in Nat
      BY SlotsAssumption DEF IInv, TypeOK, Kinds, Contents
    <2>3. FileOK(f, fill)
      BY DEF IInv, TypeOK, FilesOK, Kinds
    <2>4. f.tail = "cut" => Len(f.recs) + 1 <= f.count
      BY <2>1, <2>3 DEF FileOK, Stored
    <2>5. ASSUME NEW r \in 1 .. f.count, ~(r <= Len(f.recs))
          PROVE  r = f.count /\ LoadedChunkEntries[r] = Cut
      <3>1. /\ f.count \in 1 .. f.count /\ ~(f.count <= Len(f.recs))
        BY <2>2, <2>5
      <3>2. f.count = Len(f.recs) + 1
        BY <2>1, <3>1 DEF Stored
      <3> QED  BY <2>1, <2>2, <2>5, <3>2 DEF Stored
    <2> QED  BY <2>1, <2>5 DEF Stored
  <1> QED  BY <1>1, Invariance, PTL
=============================================================================
