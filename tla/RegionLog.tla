----------------------------- MODULE RegionLog -----------------------------
(***************************************************************************)
(* What the two regions promise, without cursors, tickets or slots: each   *)
(* holds the entries accepted since it was last drained, a drain takes all *)
(* entries of the region that is not active in one step, and the tally of  *)
(* the drains is exactly what was taken.  The promise ends when `exact`    *)
(* does.  LockerWriter implements it with one drainer.                     *)
(***************************************************************************)
EXTENDS Naturals

CONSTANT MaxSlots    \* entries a region holds

VARIABLES
    active,      \* the region new entries are meant for
    held,        \* [{0, 1} -> entries in the region]
    drained,     \* entries taken by drains
    accepted,    \* entries accepted
    exact        \* the promise still stands

vars == <<active, held, drained, accepted, exact>>

Init ==
    /\ active = 0 /\ held = [r \in {0, 1} |-> 0]
    /\ drained = 0 /\ accepted = 0 /\ exact = TRUE

\* A slow writer may still reach the region that is no longer active.
Accept(r) ==
    /\ held[r] < MaxSlots
    /\ held' = [held EXCEPT ![r] = @ + 1]
    /\ accepted' = accepted + 1
    /\ UNCHANGED <<active, drained>>

Switch ==
    /\ active' = 1 - active
    /\ UNCHANGED <<held, drained, accepted>>

Take(r) ==
    /\ r # active
    /\ drained' = drained + held[r]
    /\ held' = [held EXCEPT ![r] = 0]
    /\ UNCHANGED <<active, accepted>>

Next ==
    \/ exact /\ exact' /\ (Switch \/ \E r \in {0, 1} : Accept(r) \/ Take(r))
    \/ ~exact'

Spec == Init /\ [][Next]_vars
=============================================================================
