-------------------------- MODULE MCClusterManager --------------------------
(* Instances of ClusterManager.                                              *)
EXTENDS ClusterManager, TLC

CONSTANTS p1, p2,
          Charts,  \* cases about charts and claims: what may happen
          Metal,   \* cases of a bare metal cluster: one quota, p1
          Both,    \* cases of a bare metal cluster with both quotas
          Guest,   \* cases of a guest cluster with the quota of its project
          Shared   \* cases of a guest cluster with both quotas

MCCases == [guest : {FALSE}, quotas : {{}}, kinds : Charts]
      \cup [guest : {FALSE}, quotas : {{p1}}, kinds : Metal]
      \cup [guest : {FALSE}, quotas : {{p1, p2}}, kinds : Both]
      \cup [guest : {TRUE}, quotas : {{p1}}, kinds : Guest]
      \cup [guest : {TRUE}, quotas : {{p1, p2}}, kinds : Shared]
=============================================================================
