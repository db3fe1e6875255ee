------------------------------- MODULE MCIPAM --------------------------------
(***************************************************************************)
(* One pool over four addresses, three owners.  The ranges overlap, shrink  *)
(* and grow into each other, one config is refused because its end is the  *)
(* broadcast address and one because it is too large.                      *)
(***************************************************************************)
EXTENDS IPAM

MCAddr == 0 .. 3

MCConfigs ==
    { [lo |-> 0, hi |-> 3, v4 |-> TRUE,  start |-> 1, end |-> 2],
      [lo |-> 0, hi |-> 3, v4 |-> TRUE,  start |-> 0, end |-> 1],
      [lo |-> 0, hi |-> 3, v4 |-> TRUE,  start |-> 2, end |-> 3],
      [lo |-> 0, hi |-> 3, v4 |-> FALSE, start |-> 1, end |-> 3],
      [lo |-> 0, hi |-> 3, v4 |-> FALSE, start |-> 0, end |-> 3] }
=============================================================================
