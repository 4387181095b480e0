----------------------------- MODULE MCTemporal -----------------------------
(* Temporal on a small instance.  The files somebody puts in place are, in   *)
(* turn, ones without or with half a header, an index, and chunks: cut       *)
(* before a record, cut in its data, and whole with no data at the end.      *)
EXTENDS Temporal

Seconds == {t \div Second : t \in 0 .. MaxTime}

\* The smallest integer, to which no distance fits, and two to which all do.
SomeTargets == {-4, 1, 3}

Rec(n, q, d) == [id |-> 100 + n, room |-> q, data |-> d]
File(form, n, recs, tail) ==
    [form |-> form, count |-> n, recs |-> recs, tail |-> tail]

SomeFiles ==
    {File("empty", 0, <<>>, <<>>), File("stub", 0, <<>>, <<>>),
     File("index", 1, <<Rec(1, 1, "none")>>, <<>>),
     File("chunk", 3, <<Rec(2, 1, "hit"), Rec(3, 2, "hit")>>, <<>>),
     File("chunk", 3, <<Rec(4, 1, "hit"), Rec(5, 2, "none")>>,
          <<Rec(6, 1, "miss")>>),
     File("chunk", 2, <<Rec(7, 1, "hit"), Rec(8, 1, "none")>>, <<>>)}

\* Three things share little: loads, the index, and the hashes in checkpoints
\* and exports.  What is explored is loads with nothing to rewind to; the index
\* beside a region at rest, with no files to rewind to; and exports beside a
\* region at work, with one checkpoint at a time that is not saved, up to the
\* first rewind that returns with a chunk.
NoFiles == \A n \in Names : file[n] = Absent
NoHashes == \A r \in 0 .. 1, s \in Slots : entries[r][s].state_hash = 0
AtRest == /\ reservations = {} /\ \A w \in Writers : wpc[w] = "idle"
          /\ settled = 0 .. cursor - 1 /\ NoHashes
OnlyLoads == /\ now = 1 /\ fill = 0 /\ cursor = 0
             /\ kpc = "idle" /\ made = <<>>
OnlyIndex == /\ NoFiles /\ AtRest /\ LoadedChunkEntries = <<>>
             /\ xpc = "idle" /\ puts = 0 /\ maps = 0
             /\ cursor + Len(made) <= MaxMade
OnlyHashes == /\ maps = 0 /\ puts <= 1 /\ LoadedIndexEntries = <<>>
              /\ \A n \in Names : file[n] \notin Files
              /\ LoadedChunkEntries # <<>> => fpc = "rewound"
              /\ now = 1 /\ Len(made) <= 1 /\ (made # <<>> => kpc = "idle")
              /\ saved.form = "absent" /\ timestamp \in {0, 1}
Apart == OnlyLoads \/ OnlyIndex \/ OnlyHashes
=============================================================================
