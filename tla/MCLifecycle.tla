---------------------------- MODULE MCLifecycle ----------------------------
(* Lifecycle on a small instance: two threads that start and shut down       *)
(* beside two that call and one that saves and loads snapshots.              *)
EXTENDS Lifecycle, TLC

Symmetry == Permutations(Owners) \cup Permutations(Callers)

\* What a program does after it has used freed memory is anybody's guess and
\* not explored.  Shutdowns and snapshots are explored each without the other:
\* once a snapshot is begun, processes call New once and end by dying; before,
\* one write per handle and calls that only read do for all the others.
Quiet == \A o \in Owners : opc[o] \in {"idle", "new"}
Doing(o) == \E c \in Callers : cpc[c] # "idle" /\ op[c] = o
Sane ==
    /\ ~touched
    /\ IF saves = 0
       THEN ~Doing("drain") /\ \A n \in Numbers : uuidCounter[n] <= 1
       ELSE ~Doing("read") /\ news <= 1 /\ Quiet
=============================================================================
