--------------------------- MODULE MCLBController ---------------------------
(* Instances of LBController: two Services that share the address of their  *)
(* group, or take one each from a pool of two, and one thing that goes      *)
(* wrong.                                                                    *)
EXTENDS LBController, TLC

CONSTANTS s1, s2, a1, a2, p1, p2, grp,
          Shared,   \* what may happen, once, to two Services of a group
          Apart,    \* what may happen, once, to two Services with an address each
          Alone     \* what may happen, all of it, to a Service on its own

InGroup == [s \in Service |-> grp]
NoGroup == [s \in Service |-> None]

Once(set) == [b \in Bounded |-> IF b \in set THEN 1 ELSE 0]
MCCases == [names : {Service}, range : {{a} : a \in Addr}, group : {InGroup},
            limit : {Once({b}) : b \in Shared}]
      \cup [names : {Service}, range : {Addr}, group : {NoGroup}, limit : {Once({b}) : b \in Apart}]
      \cup [names : {{s} : s \in Service}, range : {Addr}, group : {NoGroup}, limit : {Once(Alone)}]

Alike == Permutations(Service) \cup Permutations(Addr) \cup Permutations(Worker)
=============================================================================
