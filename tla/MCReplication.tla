--------------------------- MODULE MCReplication ---------------------------
(* Replication, and with it RoomScan, on small instances.  The chunk has two *)
(* records, one of them without data.                                        *)
EXTENDS Replication

Record(x, d, t) == [slot |-> x - 1, data |-> [fill |-> d, slot |-> x - 1],
                    timestamp |-> t, settled |-> FALSE]
ServerChunk == <<Record(1, -4, 0), Record(2, -1, 1)>>

\* Before all time, and from the time stamp of every raw write on.
Requests == {-1, 0}

\* The peer meets the server in the responses only, and a chunk has nothing to
\* do with a region.  What is explored is each of the three beside the rest
\* state of the other two: whatever is in flight, the server has answered
\* first and the peer applies it afterwards.
RegionAtRest == cursor = 0 /\ DrainOver /\ reservations = {}
OnlyPeer == spc = "idle" /\ ~loading /\ RegionAtRest
Apart ==
    /\ calls # <<>> \/ held # 0 => OnlyPeer /\ fill \in {0, MaxDrains}
    /\ loads # <<>> => RegionAtRest /\ fill = 0
=============================================================================
