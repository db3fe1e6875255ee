------------------------- MODULE ClusterProvisioning -------------------------
(***************************************************************************)
(* The reconciler of Clusters: it installs the charts in the downstream    *)
(* cluster, hands a guest cluster its config Secrets, and releases the     *)
(* FloatingIPs of a cluster that is gone.  One worker per cluster.         *)
(***************************************************************************)
EXTENDS ConfigSecrets, HelmRelease

VARIABLES rel,        \* the Helm release of every chart
          want,       \* the chart version of the configuration
          pass,       \* what the reconcile has read
          labelled,   \* the project label of the lb-controller's namespace
          claim,      \* who claims a FloatingIP
          claimSeen   \* the informer's copy

chartVars == <<rel, want, labelled>>
claimVars == <<claim, claimSeen>>

Chart   == {"lbc", "metallb", "purelb"}
Other   == [metallb |-> "purelb", purelb |-> "metallb"]
NoPass  == [lb |-> "purelb", chart |-> "lbc", failed |-> FALSE, todo |-> {}]

Mine   == "mine"     \* claimed by the cluster
Free   == "free"
Theirs == "theirs"   \* claimed by another cluster

Prov(step)   == At("prov", step)
Proceed(step) == Goto("prov", step) /\ UNCHANGED due
Return       == End("prov", TRUE)

-----------------------------------------------------------------------------

\* A cluster that is gone has its FloatingIPs released, as the cache lists them.
ReconcileCluster ==
    /\ Prov("idle") /\ Key \in due
    /\ due' = due \ {Key}
    /\ Goto("prov", CASE ~ cluster.exists  -> "release"
                      [] ~ cluster.enabled -> "idle"
                      [] OTHER             -> "connect")
    /\ pass' = [NoPass EXCEPT !.lb = cluster.lb,
                              !.todo = IF cluster.exists THEN {} ELSE {f \in FIP : claimSeen[f] = Mine}]
    /\ UNCHANGED <<secretVars, envVars, sweep, left, chartVars, claimVars>>

\* The kubeconfig, the health check and the namespace.
Connect ==
    /\ Prov("connect") /\ reach
    /\ Proceed("sanitize")
    /\ UNCHANGED <<secretVars, envVars, sweep, left, chartVars, claimVars, pass>>

\* Some call of the reconcile fails.  Every way out comes back: an error, a
\* RequeueAfter or provisioningReconcileInterval.
ReconcileFails ==
    /\ \/ ~ reach /\ Prov("connect") /\ UNCHANGED left
       \/ job["prov"].at \in {"connect", "sanitize", "purge", "conflict", "gate", "label"} /\ Fault
    /\ Return
    /\ UNCHANGED <<secretVars, envVars, sweep, chartVars, claimVars, pass>>

-----------------------------------------------------------------------------
(* InstallOrUpgrade of pass.chart                                          *)

Put(r) == rel' = [rel EXCEPT ![pass.chart] = r]

AfterChart == IF pass.chart = "lbc" THEN "conflict" ELSE IF case.guest THEN "gate" ELSE "done"
Converged  == IF AfterChart = "done" THEN Return ELSE Proceed(AfterChart)

purgeUndecodableRecords ==
    /\ Prov("sanitize")
    /\ IF rel[pass.chart].st = "junk" THEN Put(NoRelease) ELSE UNCHANGED rel
    /\ Proceed("plan")
    /\ UNCHANGED <<secretVars, envVars, sweep, left, want, labelled, claimVars, pass>>

\* A record that became unreadable meanwhile is dropped.
Plan ==
    LET r == rel[pass.chart] IN
    /\ Prov("plan")
    /\ \/ r.st = "none" /\ Proceed("install") /\ UNCHANGED rel
       \/ r.st = "junk" /\ Put(NoRelease) /\ Proceed("install")
       \/ /\ r.st \notin {"none", "junk"}
          /\ LET act == planReleaseAction(r, want) IN IF act = "skip" THEN Converged ELSE Proceed(act)
          /\ UNCHANGED rel
    /\ pass' = [pass EXCEPT !.failed = (r.st = "failed")]
    /\ UNCHANGED <<secretVars, envVars, sweep, left, want, labelled, claimVars>>

\* Helm writes a pending record, works on the cluster, then writes the outcome.
\* An install over a record, an upgrade of a pending or missing one, is refused.
Begin ==
    /\ Prov("install") \/ Prov("upgrade")
    /\ \/ /\ IF Prov("install") THEN rel[pass.chart].st = "none"
                                ELSE rel[pass.chart].st \in {"deployed", "failed"}
          /\ Put([st |-> "pending", ver |-> want])
          /\ Proceed(IF Prov("install") THEN "installing" ELSE "upgrading")
       \/ /\ IF Prov("install") THEN rel[pass.chart].st # "none"
                                ELSE rel[pass.chart].st \notin {"deployed", "failed"}
          /\ IF Prov("upgrade") /\ pass.failed THEN Proceed("purge") ELSE Return
          /\ UNCHANGED rel
    /\ UNCHANGED <<secretVars, envVars, sweep, left, want, labelled, claimVars, pass>>

Succeed ==
    /\ Prov("installing") \/ Prov("upgrading")
    /\ Put(Deployed(want))
    /\ Converged
    /\ UNCHANGED <<secretVars, envVars, sweep, left, want, labelled, claimVars, pass>>

\* The wait for the resources runs out.  A failed release whose repair in place
\* fails too is purged.
TimeOut ==
    /\ Prov("installing") \/ Prov("upgrading")
    /\ Fault
    /\ Put([st |-> "failed", ver |-> want])
    /\ IF Prov("upgrading") /\ pass.failed THEN Proceed("purge") ELSE Return
    /\ UNCHANGED <<secretVars, envVars, sweep, want, labelled, claimVars, pass>>

\* Helm cannot uninstall what it cannot decode.
repairRelease ==
    /\ Prov("purge")
    /\ \/ rel[pass.chart].st # "junk" /\ Put(NoRelease) /\ Proceed("install")
       \/ rel[pass.chart].st = "junk" /\ Return /\ UNCHANGED rel
    /\ UNCHANGED <<secretVars, envVars, sweep, left, want, labelled, claimVars, pass>>

InstallOrUpgrade ==
    purgeUndecodableRecords \/ Plan \/ Begin \/ Succeed \/ TimeOut \/ repairRelease

-----------------------------------------------------------------------------

\* The chart of the other load balancer must not be there.
CheckConflict ==
    /\ Prov("conflict")
    /\ \/ /\ ~ CheckIfChartIsInstalled(rel[Other[pass.lb]])
          /\ pass' = [pass EXCEPT !.chart = pass.lb]
          /\ Proceed("sanitize")
       \/ /\ CheckIfChartIsInstalled(rel[Other[pass.lb]])
          /\ Return /\ UNCHANGED pass
    /\ UNCHANGED <<secretVars, envVars, sweep, left, chartVars, claimVars>>

\* Only a project with a FloatingIPProjectQuota gets config Secrets; a quota
\* that is being deleted counts.
QuotaGate ==
    /\ Prov("gate")
    /\ IF quotaSeen[Home].state = "none" THEN Return ELSE Proceed("label")
    /\ UNCHANGED <<secretVars, envVars, sweep, left, chartVars, claimVars, pass>>

\* The label, then the restart of the lb-controller that reads it.  A label that
\* is right already is taken for the whole.
LabelNamespaceWithProjectID ==
    /\ Prov("label")
    /\ \/ /\ labelled' = IF labelled = "no" THEN "restarted" ELSE labelled
          /\ Proceed("map") /\ UNCHANGED left
       \/ /\ labelled = "no" /\ labelled' = "unseen"
          /\ Fault /\ Return
    /\ UNCHANGED <<secretVars, envVars, sweep, rel, want, claimVars, pass>>

releaseBlindly ==
    /\ Prov("release")
    /\ \/ /\ pass.todo = {}
          /\ End("prov", FALSE) /\ UNCHANGED <<claim, pass, left>>
       \/ \E f \in pass.todo :
             /\ claim' = [claim EXCEPT ![f] = Free]
             /\ pass' = [pass EXCEPT !.todo = @ \ {f}]
             /\ UNCHANGED <<job, due, left>>
    /\ UNCHANGED <<secretVars, envVars, sweep, chartVars, claimSeen>>

\* The update carries the version of the cached copy.
releaseFloatingIPs ==
    /\ Prov("release")
    /\ \/ /\ pass.todo = {}
          /\ End("prov", FALSE) /\ UNCHANGED <<claim, pass, left>>
       \/ \E f \in pass.todo :
          \/ /\ claim[f] = Mine
             /\ claim' = [claim EXCEPT ![f] = Free]
             /\ pass' = [pass EXCEPT !.todo = @ \ {f}]
             /\ UNCHANGED <<job, due, left>>
          \/ /\ (claim[f] # Mine /\ UNCHANGED left) \/ Fault
             /\ End("prov", TRUE) /\ UNCHANGED <<claim, pass>>
    /\ UNCHANGED <<secretVars, envVars, sweep, chartVars, claimSeen>>

ClusterReconciler ==
    \/ ReconcileCluster
    \/ Connect
    \/ ReconcileFails
    \/ InstallOrUpgrade
    \/ CheckConflict
    \/ QuotaGate
    \/ LabelNamespaceWithProjectID
    \/ releaseFloatingIPs

-----------------------------------------------------------------------------
(* The cluster and its FloatingIPs change                                  *)

EditNotDeletion ==
    /\ cluster.exists
    /\ \/ Happens("relabel") /\ cluster' = [cluster EXCEPT !.lb = Other[@]] /\ due' = due \cup {Key}
       \/ Happens("disable") /\ cluster' = [cluster EXCEPT !.enabled = FALSE] /\ due' = due \cup {Key}
       \/ Happens("teardown") /\ cluster' = [cluster EXCEPT !.exists = FALSE] /\ due' = due \ {Key}
    /\ UNCHANGED <<secretVars, reach, job, sweep, chartVars, claimVars, pass>>

\* Label changes that matter and the deletion reach the queue.
EditCluster ==
    /\ cluster.exists
    /\ \/ Happens("relabel") /\ cluster' = [cluster EXCEPT !.lb = Other[@]]
       \/ Happens("disable") /\ cluster' = [cluster EXCEPT !.enabled = FALSE]
       \/ Happens("teardown") /\ cluster' = [cluster EXCEPT !.exists = FALSE]
    /\ due' = due \cup {Key}
    /\ UNCHANGED <<secretVars, reach, job, sweep, chartVars, claimVars, pass>>

\* The API server releases a claim of the cluster and gives it to another.
Reclaim(f) ==
    /\ \/ claim[f] = Mine /\ Happens("release") /\ claim' = [claim EXCEPT ![f] = Free]
       \/ claim[f] = Free /\ Happens("claim") /\ claim' = [claim EXCEPT ![f] = Theirs]
    /\ UNCHANGED <<secretVars, envVars, due, job, sweep, chartVars, claimSeen, pass>>

ClaimSync(f) ==
    /\ claimSeen[f] # claim[f]
    /\ claimSeen' = [claimSeen EXCEPT ![f] = claim[f]]
    /\ UNCHANGED <<secretVars, envVars, ctlVars, chartVars, claim, pass>>

\* Somebody or something spoils the record of a release that is there.
SpoilRecord(c) ==
    /\ rel[c].st \in {"deployed", "pending", "failed"} /\ Happens("junk")
    /\ rel' = [rel EXCEPT ![c].st = "junk"]
    /\ UNCHANGED <<secretVars, envVars, due, job, sweep, want, labelled, claimVars, pass>>

ProvisioningEnvironment ==
    \/ EditCluster
    \/ \E f \in FIP : Reclaim(f)
    \/ \E c \in Chart : SpoilRecord(c)
=============================================================================
