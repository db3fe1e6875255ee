------------------------------ MODULE MCManager ------------------------------
(***************************************************************************)
(* Small instances of the manager.  Two addresses are enough for a pinned  *)
(* and an unpinned FloatingIP to compete and for a retry to take another   *)
(* address; one address makes the pool full.  The extra configurations of  *)
(* PoolConfigs shrink the range to its second address, and end it at the   *)
(* broadcast address, which the webhook admits and RefreshSubnet refuses.  *)
(* The model values of Owner and of Worker are interchangeable: they are   *)
(* only compared for equality.                                             *)
(***************************************************************************)
EXTENDS Manager, TLC

MCAddr    == 1 .. 2
MCConfigs == {[lo |-> 1, hi |-> 2, v4 |-> FALSE, start |-> 1, end |-> 2]}

OneAddr   == {1}
OneConfig == {[lo |-> 1, hi |-> 1, v4 |-> FALSE, start |-> 1, end |-> 1]}

PoolConfigs == MCConfigs \cup
    { [lo |-> 1, hi |-> 2, v4 |-> FALSE, start |-> 2, end |-> 2],
      [lo |-> 1, hi |-> 2, v4 |-> TRUE,  start |-> 1, end |-> 2] }

Symmetry == Permutations(Owner) \cup Permutations(Worker)
=============================================================================
