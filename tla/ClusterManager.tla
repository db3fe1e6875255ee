--------------------------- MODULE ClusterManager ---------------------------
(***************************************************************************)
(* The cluster manager: the reconciler of Clusters, the reconciler of      *)
(* FloatingIPProjectQuotas and the sweeper, in one process that the leader *)
(* election lets run alone, with what disturbs them.                       *)
(***************************************************************************)
EXTENDS ClusterProvisioning

vars == <<secretVars, envVars, ctlVars, case, chartVars, claimVars, pass>>

\* What the reconciler of Clusters does to a bare metal cluster touches no
\* Secret: it is followed in a guest cluster and where there are no quotas.
Followed == IF case.guest \/ case.quotas = {} THEN {Key} ELSE {}

\* Quotas that are there have not been reconciled yet; "old" ones have, by an
\* earlier process, and "orphan" ones were deleted while none ran.
Init ==
    /\ case \in Cases
    /\ left = case.kinds \ {"sweep", "fresh", "old", "orphan"}
    /\ LET had == IF "old" \in case.kinds THEN case.quotas
                  ELSE IF "orphan" \in case.kinds THEN Project \ case.quotas ELSE {}
           t   == CHOOSE t \in Token : TRUE
       IN  /\ quota = [p \in Project |->
                          [state |-> IF p \in case.quotas THEN "live" ELSE "none",
                           fin   |-> p \in case.quotas /\ "old" \in case.kinds]]
           /\ local = [p \in Project |-> IF p \in had THEN t ELSE Absent]
           /\ down = [p \in Project |-> IF p \in had /\ (~ case.guest \/ p = Home) THEN t ELSE Absent]
    /\ quotaSeen = quota /\ localSeen = local /\ expired = {}
    /\ conf = 1 /\ copied = [ca |-> 0, map |-> 0]
    /\ cluster = [exists |-> TRUE, enabled |-> TRUE, lb |-> "purelb"]
    /\ reach = TRUE
    /\ due = case.quotas \cup Followed
    /\ job = [w \in Worker |-> Idle] /\ sweep = NoSweep
    /\ rel = [c \in Chart |-> IF "fresh" \notin case.kinds /\ c \in {"lbc", cluster.lb}
                              THEN Deployed(1) ELSE NoRelease]
    /\ want = 1 /\ pass = NoPass /\ labelled = "no"
    /\ claim = [f \in FIP |-> Mine] /\ claimSeen = claim

\* The process is replaced, perhaps with a configuration of newer charts.  The
\* informers list afresh: every object there is comes as created.
Restart ==
    /\ \/ Happens("crash") /\ UNCHANGED want
       \/ Happens("bump") /\ want' = 2
    /\ job' = [w \in Worker |-> Idle] /\ sweep' = NoSweep /\ pass' = NoPass
    /\ quotaSeen' = quota /\ localSeen' = local /\ claimSeen' = claim
    /\ due' = {p \in Project : quota[p].state # "none"} \cup (IF cluster.exists THEN Followed ELSE {})
    /\ UNCHANGED <<quota, expired, local, down, conf, copied, envVars, rel, labelled, claim>>

Others == UNCHANGED <<case, chartVars, claimVars, pass>>

Secrets(w) == HandleConfigSecrets(w) /\ Others
Quotas     == QuotaReconciler /\ Others
Clusters   == ClusterReconciler /\ UNCHANGED case
Sweeping   == Sweeper /\ Others
Informers  == UNCHANGED case /\ ((Sync /\ Others) \/ \E f \in FIP : ClaimSync(f))
Grace      == (\E p \in Project : GraceExpires(p)) /\ Others

Next ==
    \/ \E w \in Worker : Secrets(w)
    \/ Quotas
    \/ Clusters
    \/ Sweeping
    \/ Informers
    \/ Grace
    \/ SecretsEnvironment /\ Others
    \/ ProvisioningEnvironment /\ UNCHANGED case
    \/ Restart /\ UNCHANGED case

Spec == Init /\ [][Next]_vars

\* The work queues, timers, informers and the clock keep going; nothing is
\* assumed of the disturbances, each of which happens at most once.
Fairness ==
    /\ \A w \in Worker : WF_vars(Secrets(w))
    /\ WF_vars(Quotas)
    /\ WF_vars(Clusters)
    /\ WF_vars(Sweeping)
    /\ WF_vars(Informers)
    /\ WF_vars(Grace)

FairSpec == Spec /\ Fairness

-----------------------------------------------------------------------------

\* What is handed on is well-formed: above all, a token that a reconciler holds
\* for the downstream cluster is never an empty one.
TypeOK ==
    /\ quota \in [Project -> [state : {"none", "live", "deleting"}, fin : BOOLEAN]]
    /\ quotaSeen \in [Project -> [state : {"none", "live", "deleting"}, fin : BOOLEAN]]
    /\ expired \subseteq {p \in Project : quota[p].state = "deleting"}
    /\ local \in [Project -> Token \cup {Absent, Blank}]
    /\ localSeen \in [Project -> Token \cup {Absent, Blank}]
    /\ down \in [Project -> Token \cup {Absent}]
    /\ conf \in Version /\ copied \in [ca : 0 .. 2, map : 0 .. 2]
    /\ due \subseteq Project \cup {Key}
    /\ \A w \in Worker : job[w].p \in Project /\ job[w].token \in Token \cup {Absent}
    /\ sweep.active \subseteq Project
    /\ rel \in [Chart -> Release] /\ want \in Version
    /\ pass.chart \in Chart /\ pass.todo \subseteq FIP
    /\ labelled \in {"no", "unseen", "restarted"}
    /\ claim \in [FIP -> {Mine, Free, Theirs}]

\* The two load balancers are never installed side by side, not even in part,
\* although the label changes, installs die half way and records are spoilt.
OneLoadBalancer == ~ (rel["metallb"].st # "none" /\ rel["purelb"].st # "none")

\* The cluster manager does not take the local Secret of a project that has a
\* quota: what is deleted, by the finalizer's cleanup or by the sweep, belongs
\* to no quota that lives.
LiveKeepsSecret ==
    [][\A p \in Project :
          quota[p].state = "live" /\ local[p] # Absent /\ local'[p] = Absent => "loss" \in left \ left']_vars

\* What another cluster has claimed meanwhile is not released with the cluster
\* that is gone.
ForeignClaimKept == [][\A f \in FIP : claim[f] = Theirs => claim'[f] = Theirs]_vars

Works == reach /\ cluster.exists /\ cluster.enabled

\* Whatever state an upgrade, a crash or a spoilt record leaves, the charts get
\* to the wanted version in the end, unless the other load balancer is there.
ChartsConverge ==
    <>[](Works => \/ rel["lbc"] = Deployed(want) /\ rel[cluster.lb] = Deployed(want)
                  \/ rel["lbc"] = Deployed(want) /\ rel[Other[cluster.lb]].st # "none")

\* Whether somebody looks for what is left over: another project is there, and
\* has a Secret that names the cluster.
Swept(p) == "sweep" \in case.kinds /\ \E q \in Project \ {p} : quota[q].state = "live"

\* In the end a project with a quota can authenticate from the downstream
\* cluster, and one without has no Secret left.
InSync(p) ==
    /\ quota[p].state = "live" =>
          local[p] \in Token /\ ((~ case.guest \/ p = Home) => down[p] = local[p])
    /\ quota[p].state = "none" /\ Swept(p) =>
          local[p] = Absent /\ (~ case.guest => down[p] = Absent)
SecretsConverge ==
    <>[](Works /\ rel[Other[cluster.lb]].st = "none"
         => (\A p \in Project : InSync(p)) /\ (case.guest /\ quota[Home].state = "live" => copied = [ca |-> conf, map |-> conf]))

\* A quota that is being deleted goes, even when its downstream cluster never
\* answers again.
DeletionFinishes == \A p \in Project : quota[p].state = "deleting" ~> quota[p].state = "none"

\* The FloatingIPs of a cluster that is gone are released.
ClaimsReleased == ~ cluster.exists ~> \A f \in FIP : claim[f] # Mine
=============================================================================
