---------------------------- MODULE MCChunkFile ----------------------------
(* ChunkFile on a small instance: one exporter whose file two loaders read   *)
(* while it may be written again.                                            *)
EXTENDS ChunkFile, TLC

Symmetry == Permutations(Loaders) \cup Permutations(Writers)

\* A file that is not of the export or dump at work.
Left(x, n, k) ==
    /\ file[k][n].head # "absent"
    /\ epc[x] = "idle" \/ (kind[x] # k /\ ~dumping[x])
Earlier == \E x \in Exporters, n \in Names, k \in Kinds : Left(x, n, k)

\* All slots taken are committed and all records in the files of such.
AtRest ==
    /\ reservations = {} /\ \A w \in Writers : wpc[w] = "idle"
    /\ settled = 0 .. cursor - 1 /\ fill < MaxFills
    /\ \A k \in Kinds, n \in Names : \A r \in 1 .. Len(file[k][n].recs) :
           file[k][n].recs[r].settled

\* The loads meet the region in the files only, and an export nothing of what
\* it finds in them.  What is explored is an export or dump beside anything in
\* the regions, with no file there before it, and loads and more exports beside
\* drains and restarts at rest.  Reservations are not made in the first fill,
\* which leaves what it held to the third one.
Apart ==
    /\ reservations # {} => fill > 0
    /\ (LoadedChunkEntries # <<>> \/ Earlier) => AtRest
=============================================================================
