------------------------------ MODULE MCQuota ------------------------------
(* Instances of Quota: a few FloatingIPs compete for fewer slots.           *)
EXTENDS Quota, TLC

CONSTANTS f1, f2, f3,
          Two,    \* cases of two FloatingIPs and one slot: what happens once
          Room,   \* the same with a slot for each: time does not matter
          Three   \* cases of three FloatingIPs and two slots, the manager down

Usual(submits, set) ==
    [b \in Bounded |-> IF b = "submit" THEN submits ELSE IF b \in set THEN 1 ELSE 0]
MCCases ==
           [names : {{f1, f2}}, limit : {1}, up : {TRUE}, time : {TRUE}, bound : {Usual(3, s) : s \in Two}]
      \cup [names : {{f1, f2}}, limit : {2}, up : {TRUE}, time : {FALSE}, bound : {Usual(2, s) : s \in Room}]
      \cup [names : {FIP}, limit : {2}, up : {FALSE}, time : {TRUE}, bound : {Usual(4, s) : s \in Three}]

Alike == Permutations({f1, f2})
=============================================================================
