-------------------------- MODULE RegionRefinement --------------------------
(***************************************************************************)
(* LockerWriter implements RegionLog, as long as no writer comes in late   *)
(* and drains do not overlap.  The history variable exact says so far so   *)
(* good; it restrains no step of the regions.                              *)
(***************************************************************************)
EXTENDS LockerWriter

VARIABLE exact

refinementVars == <<vars, exact>>

DrainsOverlap == \E d, e \in Drainers :
    d # e /\ dpc[d] # "idle" /\ dpc[e] # "idle"

RefinementInit == Init /\ exact = TRUE

RefinementNext == Next /\ exact' = (exact /\ ~late' /\ ~DrainsOverlap')

RefinementSpec == RefinementInit /\ [][RefinementNext]_refinementVars

-----------------------------------------------------------------------------
\* The counters and the six steps of a drain are an implementation of
\* RegionLog: every accepted entry stays in its region until a drain takes it,
\* a drain takes the inactive region as a whole, in the step that stores the
\* totals, and total_entries is what was taken.
Log == INSTANCE RegionLog WITH
    active   <- region_bit,
    held     <- [r \in Regions |-> Pending(r)],
    drained  <- total_entries,
    accepted <- uuidCounter
                + Cardinality({w \in Writers : pc[w] \in {"leave", "uuid"}})
IsRegionLog == Log!Spec
=============================================================================
