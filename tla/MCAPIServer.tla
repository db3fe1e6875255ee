----------------------------- MODULE MCAPIServer -----------------------------
(* Instances of APIServer: two clusters, two pools, Services that ask       *)
(* for a pinned address, for any address, or for the address of a group.    *)
EXTENDS APIServer, TLC

CONSTANTS a1, a2, p1, p2, g1, g2, g3, h1, h2, k1, k2, s1, s2, s3, s4, s5, grp

C(k, s) == [cluster |-> k, svc |-> s]
Want(c, q, a, g) == [who |-> c, pool |-> q, ip |-> a, group |-> g]

\* Two pools that share an address.
TwoSubnets  == [q \in Pool |-> IF q = p1 THEN {a1, a2} ELSE {a1}]

TwoClusters == {C(k1, s1), C(k1, s2), C(k1, s3), C(k2, s4), C(k2, s5)}
MixedAsk    == {Want(C(k1, s1), p1, a1, None),
                Want(C(k1, s2), p1, NoIP, None), Want(C(k1, s2), p1, NoIP, grp),
                Want(C(k1, s3), p1, NoIP, grp),
                Want(C(k2, s4), p2, NoIP, None), Want(C(k2, s5), p1, a1, None)}

\* A release names the address and, of a group, the group; or nothing.
Releases == {[ip |-> a1, group |-> None], [ip |-> a2, group |-> grp], [ip |-> NoIP, group |-> None]}

\* What it takes to show one race at a time.
GroupAsk    == {Want(C(k1, s2), p1, NoIP, grp), Want(C(k1, s3), p1, NoIP, grp), Want(C(k2, s4), p1, NoIP, None)}
PinnedAsk   == {Want(C(k1, s1), p1, a1, None), Want(C(k1, s2), p1, a1, None), Want(C(k2, s4), p1, a1, None)}

\* A Service that asks twice, and a neighbour that pins an address.
RetryAsk    == {Want(C(k1, s1), p1, NoIP, None), Want(C(k1, s2), p1, a2, None)}

Allow(q, r, d, a, f) == [request |-> q, release |-> r, delete |-> d, race |-> a, fault |-> f]
\* Two or three requests, and what can go wrong once.
Mixed == {Allow(2, 1, 0, 1, 1), Allow(2, 0, 1, 1, 1), Allow(3, 0, 0, 1, 1)}
TwoRequests   == {Allow(2, 0, 0, 0, 0)}
ThreeRequests == {Allow(3, 1, 0, 0, 0)}

\* Handlers are alike, and so are the names that are not in use yet.
Alike == Permutations({h1, h2}) \cup Permutations({g2, g3})
=============================================================================
