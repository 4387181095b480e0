----------------------------- MODULE MCRoomScan -----------------------------
(* RoomScan on small instances: an index with two values past the region,   *)
(* so that a scan wraps through indices that have no entry.                 *)
EXTENDS RoomScan, TLC
=============================================================================
