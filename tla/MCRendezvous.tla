---------------------------- MODULE MCRendezvous ----------------------------
(***************************************************************************)
(* Small instances of the rendezvous: one job with its ranks, and a second *)
(* one that finds all its rows measured and only starts up next to it.     *)
(***************************************************************************)
EXTENDS Rendezvous

CONSTANTS j1, j2

ThreeRanks == [j \in Job |-> IF j = j1 THEN 3 ELSE 0]
TwoRanks == [j \in Job |-> IF j = j1 THEN 2 ELSE 0]

Requeued == [j \in Job |-> IF j = j1 THEN 2 ELSE 1]
Once == [j \in Job |-> 1]
=============================================================================
