---------------------------- MODULE ConfigSecrets ----------------------------
(***************************************************************************)
(* The config Secrets of the cluster manager: per project a local Secret   *)
(* the API server checks a token against, and a copy in the downstream     *)
(* cluster that the load-balancer controller presents.  The reconciler of  *)
(* FloatingIPProjectQuotas creates and removes them, the sweeper removes   *)
(* what is left over, and the reconciler of Clusters (ClusterProvisioning) *)
(* creates them in a Harvester guest cluster.                              *)
(*                                                                         *)
(* One downstream cluster is followed: a bare metal cluster that all       *)
(* projects belong to, or a Harvester guest cluster of the project Home.   *)
(* The data of a Secret is its token.                                      *)
(***************************************************************************)
EXTENDS Naturals, FiniteSets

CONSTANTS Project, Home,
          Token,     \* values of clientSecret
          FIP,       \* FloatingIPs, some claimed by the cluster
          Cases      \* topology, initial state and disturbances that are tried

ASSUME SecretsAssumption ==
    /\ Home \in Project
    /\ \A c \in Cases : c.guest \in BOOLEAN /\ c.quotas \subseteq Project

VARIABLES quota,      \* the FloatingIPProjectQuota of a project
          quotaSeen,  \* the informer's copy
          expired,    \* projects whose deletion is older than the grace window
          local,      \* clientSecret of the local Secret of a project
          localSeen,  \* the informer's copy
          down,       \* clientSecret of the downstream copy
          conf,       \* version of the CA bundle and of the FloatingIPPools' networks
          copied,     \* what of it the downstream cluster has
          cluster,    \* the Cluster object and its labels
          reach,      \* the downstream cluster answers
          due,        \* keys that wait in a work queue, or for their RequeueAfter
          job,        \* where the two reconcilers are
          sweep,      \* where the sweeper is
          case,       \* the case that is tried
          left        \* disturbances of the case that may still happen

secretVars == <<quota, quotaSeen, expired, local, localSeen, down, conf, copied>>
envVars    == <<cluster, reach>>
ctlVars    == <<due, job, sweep, left>>

-----------------------------------------------------------------------------

Absent == "absent"
Blank  == "blank"    \* a Secret without clientSecret
Key    == "cluster"  \* the key of the cluster in the queue of its reconciler

NoQuota == [state |-> "none", fin |-> FALSE]
Worker  == {"quota", "prov"}
Idle    == [at |-> "idle", p |-> Home, token |-> Absent, grace |-> FALSE]

\* A token is not empty, and there is always one that is used nowhere: not in
\* the downstream copy, and by neither worker.
ASSUME TokenAssumption ==
    /\ Token # {} /\ Absent \notin Token /\ Blank \notin Token
    /\ \A a, b, c \in Token : \E t \in Token : t \notin {a, b, c}

\* The two reconcilers have a queue each.
ASSUME KeyAssumption == Key \notin Project

At(w, step)      == job[w].at = step
Goto(w, step)    == job' = [job EXCEPT ![w].at = step]
Hold(w, step, t) == job' = [job EXCEPT ![w] = [@ EXCEPT !.at = step, !.token = t]]

\* A reconcile returns; again: with an error or a RequeueAfter.
KeyOf(w) == IF w = "prov" THEN Key ELSE job[w].p
End(w, again) ==
    /\ job' = [job EXCEPT ![w] = Idle]
    /\ due' = IF again THEN due \cup {KeyOf(w)} ELSE due

\* A disturbance happens, once; a call may fail a second time.
Happens(what) == what \in left /\ left' = left \ {what}
Fault         == IF "fault" \in left THEN Happens("fault") ELSE Happens("fault2")

FreshToken(p) == CHOOSE t \in Token : t \notin {local[p], down[p]} \cup {job[w].token : w \in Worker}

\* The downstream client of a quota: none in a Harvester cluster.
HasDownstream(w) == w = "prov" \/ ~ case.guest

-----------------------------------------------------------------------------
(* HandleConfigSecrets, and HandleNetworkConfigMap before it               *)

HandleNetworkConfigMap(w) ==
    /\ At(w, "map")
    /\ reach
    /\ copied' = [copied EXCEPT !.map = conf]
    /\ Goto(w, "read")
    /\ UNCHANGED <<quota, quotaSeen, expired, local, localSeen, down, conf, envVars, due, sweep, left>>

ReadLocalBlankToo(w) ==
    /\ At(w, "read")
    /\ LET t == local[job[w].p] IN
       \/ /\ t # Absent
          /\ IF HasDownstream(w) THEN Hold(w, "ca", t) /\ UNCHANGED due ELSE End(w, FALSE)
          /\ UNCHANGED left
       \/ /\ (t = Absent /\ UNCHANGED left) \/ Fault
          /\ Goto(w, "create") /\ UNCHANGED due
    /\ UNCHANGED <<secretVars, envVars, sweep>>

\* Whatever the read fails with counts as "does not exist".
ReadLocal(w) ==
    /\ At(w, "read")
    /\ LET t == local[job[w].p] IN
       \/ /\ t \in Token
          /\ IF HasDownstream(w) THEN Hold(w, "ca", t) /\ UNCHANGED due ELSE End(w, FALSE)
          /\ UNCHANGED left
       \/ t = Blank /\ Goto(w, "regenerate") /\ UNCHANGED <<due, left>>
       \/ /\ (t = Absent /\ UNCHANGED left) \/ Fault
          /\ Goto(w, "create") /\ UNCHANGED due
    /\ UNCHANGED <<secretVars, envVars, sweep>>

\* A Create that meets a Secret, an Update that meets another version, fails.
WriteLocal(w) ==
    /\ At(w, "create") \/ At(w, "regenerate")
    /\ LET p == job[w].p
           t == FreshToken(p)
       IN  \/ /\ local[p] = IF At(w, "create") THEN Absent ELSE Blank
              /\ local' = [local EXCEPT ![p] = t]
              /\ IF HasDownstream(w) THEN Hold(w, "ca", t) /\ UNCHANGED due ELSE End(w, FALSE)
           \/ /\ local[p] # IF At(w, "create") THEN Absent ELSE Blank
              /\ End(w, TRUE) /\ UNCHANGED local
    /\ UNCHANGED <<quota, quotaSeen, expired, localSeen, down, conf, copied, envVars, sweep, left>>

\* The namespace and the CA bundle, read afresh.
ReconcileCACerts(w) ==
    /\ At(w, "ca")
    /\ reach
    /\ copied' = [copied EXCEPT !.ca = conf]
    /\ Goto(w, "push")
    /\ UNCHANGED <<quota, quotaSeen, expired, local, localSeen, down, conf, envVars, due, sweep, left>>

PushIfAbsent(w) ==
    /\ At(w, "push")
    /\ reach
    /\ down' = [down EXCEPT ![job[w].p] = IF @ = Absent THEN job[w].token ELSE @]
    /\ End(w, w = "prov")
    /\ UNCHANGED <<quota, quotaSeen, expired, local, localSeen, conf, copied, envVars, sweep, left>>

\* The copy is created, or updated where it differs.  A quota's reconcile ends
\* here; the cluster's comes back after provisioningReconcileInterval.
PushDownstream(w) ==
    /\ At(w, "push")
    /\ reach
    /\ down' = [down EXCEPT ![job[w].p] = job[w].token]
    /\ End(w, w = "prov")
    /\ UNCHANGED <<quota, quotaSeen, expired, local, localSeen, conf, copied, envVars, sweep, left>>

\* A call fails, or the downstream cluster does not answer.
HandlerFails(w) ==
    /\ \/ job[w].at \in {"map", "create", "regenerate", "ca", "push"} /\ Fault
       \/ job[w].at \in {"map", "ca", "push"} /\ ~ reach /\ UNCHANGED left
    /\ End(w, TRUE)
    /\ UNCHANGED <<secretVars, envVars, sweep>>

HandleConfigSecrets(w) ==
    \/ HandleNetworkConfigMap(w)
    \/ ReadLocal(w)
    \/ WriteLocal(w)
    \/ ReconcileCACerts(w)
    \/ PushDownstream(w)
    \/ HandlerFails(w)

-----------------------------------------------------------------------------
(* FloatingIPProjectQuotaReconciler, one worker                            *)

\* The cached object decides.
ReconcileQuota(p) ==
    /\ At("quota", "idle") /\ p \in due
    /\ due' = due \ {p}
    /\ job' = [job EXCEPT !["quota"] =
           [Idle EXCEPT !.p = p, !.grace = p \in expired,
                        !.at = CASE quotaSeen[p].state = "none"     -> "idle"
                                 [] quotaSeen[p].state = "deleting" -> "find"
                                 [] OTHER                           -> "guard"]]
    /\ UNCHANGED <<secretVars, envVars, sweep, left>>

\* The finalizer is patched against the version the cache has.  A bare metal
\* cluster that is gone is an error, one that is not enabled the end.
EnsureFinalizer ==
    LET p == job["quota"].p IN
    /\ At("quota", "guard")
    /\ quotaSeen[p].fin \/ quota[p] = quotaSeen[p]
    /\ quota' = IF quotaSeen[p].fin THEN quota ELSE [quota EXCEPT ![p].fin = TRUE]
    /\ \/ case.guest /\ Goto("quota", "read") /\ UNCHANGED due
       \/ ~ case.guest /\ cluster.exists /\ cluster.enabled /\ Goto("quota", "map") /\ UNCHANGED due
       \/ ~ case.guest /\ cluster.exists /\ ~ cluster.enabled /\ End("quota", FALSE)
       \/ ~ case.guest /\ ~ cluster.exists /\ End("quota", TRUE)
    /\ UNCHANGED <<quotaSeen, expired, local, localSeen, down, conf, copied, envVars, sweep, left>>

GuardFails ==
    /\ At("quota", "guard")
    /\ \/ ~ quotaSeen[job["quota"].p].fin /\ quota[job["quota"].p] # quotaSeen[job["quota"].p]
          /\ UNCHANGED left
       \/ Fault
    /\ End("quota", TRUE)
    /\ UNCHANGED <<secretVars, envVars, sweep>>

NeverTolerated(next) == End("quota", TRUE)

\* handleFloatingIPProjectQuotaDelete.  A failure ends the attempt until the
\* grace window is over, and is ignored afterwards.
Tolerated(next) ==
    IF job["quota"].grace THEN Goto("quota", next) /\ UNCHANGED due ELSE End("quota", TRUE)

\* The namespace of the cached local Secret names the cluster.
findLocalConfigSecretNamespace ==
    /\ At("quota", "find")
    /\ \/ /\ Goto("quota", IF localSeen[job["quota"].p] # Absent /\ ~ case.guest /\ cluster.exists
                           THEN "downstream" ELSE "local")
          /\ UNCHANGED <<due, left>>
       \/ Fault /\ Tolerated("local")
    /\ UNCHANGED <<secretVars, envVars, sweep>>

deleteDownstreamConfigSecret ==
    /\ At("quota", "downstream")
    /\ \/ ~ cluster.enabled /\ Goto("quota", "local") /\ UNCHANGED <<down, due, left>>
       \/ /\ cluster.enabled /\ reach
          /\ down' = [down EXCEPT ![job["quota"].p] = Absent]
          /\ Goto("quota", "local") /\ UNCHANGED <<due, left>>
       \/ /\ cluster.enabled
          /\ (~ reach /\ UNCHANGED left) \/ Fault
          /\ Tolerated("local") /\ UNCHANGED down
    /\ UNCHANGED <<quota, quotaSeen, expired, local, localSeen, conf, copied, envVars, sweep>>

\* By name, from a cached list; a Delete that fails is only logged.
deleteLocalConfigSecretsByName ==
    /\ At("quota", "local")
    /\ \/ /\ \/ /\ localSeen[job["quota"].p] # Absent
                /\ local' = [local EXCEPT ![job["quota"].p] = Absent]
                /\ UNCHANGED left
             \/ UNCHANGED local /\ ((localSeen[job["quota"].p] = Absent /\ UNCHANGED left) \/ Fault)
          /\ Goto("quota", "finalizer") /\ UNCHANGED due
       \/ Fault /\ Tolerated("finalizer") /\ UNCHANGED local
    /\ UNCHANGED <<quota, quotaSeen, expired, localSeen, down, conf, copied, envVars, sweep>>

\* An object that is gone has nothing to release; another version is a conflict.
releaseCleanupFinalizer ==
    LET p == job["quota"].p IN
    /\ At("quota", "finalizer")
    /\ \/ /\ \/ quotaSeen[p] = quota[p] /\ quota' = [quota EXCEPT ![p] = NoQuota]
             \/ "none" \in {quotaSeen[p].state, quota[p].state} /\ UNCHANGED quota
          /\ expired' = expired \ {p}
          /\ End("quota", FALSE) /\ UNCHANGED left
       \/ /\ \/ quotaSeen[p] # quota[p] /\ "none" \notin {quotaSeen[p].state, quota[p].state}
                /\ UNCHANGED left
             \/ Fault
          /\ End("quota", TRUE) /\ UNCHANGED <<quota, expired>>
    /\ UNCHANGED <<quotaSeen, local, localSeen, down, conf, copied, envVars, sweep>>

QuotaReconciler ==
    \/ \E p \in Project : ReconcileQuota(p)
    \/ EnsureFinalizer
    \/ GuardFails
    \/ findLocalConfigSecretNamespace
    \/ deleteDownstreamConfigSecret
    \/ deleteLocalConfigSecretsByName
    \/ releaseCleanupFinalizer

-----------------------------------------------------------------------------
(* floatingIPProjectQuotaSweeper                                           *)

NoSweep == [at |-> "idle", active |-> {}, visit |-> FALSE]

sweepAnyList ==
    /\ sweep.at = "idle" /\ "sweep" \in case.kinds
    /\ sweep' = [NoSweep EXCEPT !.at = "local", !.active = {p \in Project : quotaSeen[p].state # "none"}]
    /\ UNCHANGED <<secretVars, envVars, due, job, left>>

\* It runs every orphanedSecretSweepInterval.  An empty list stops the pass.
sweepOrphanedConfigSecrets ==
    /\ sweep.at = "idle" /\ "sweep" \in case.kinds
    /\ LET active == {p \in Project : quotaSeen[p].state # "none"} IN
       /\ active # {}
       /\ sweep' = [NoSweep EXCEPT !.at = "local", !.active = active]
    /\ UNCHANGED <<secretVars, envVars, due, job, left>>

\* One cached list names the clusters to visit and the orphans to delete.
deleteOrphanedLocalConfigSecrets ==
    LET orphans == {p \in Project \ sweep.active : localSeen[p] # Absent} IN
    /\ sweep.at = "local"
    /\ \/ /\ local' = [p \in Project |-> IF p \in orphans THEN Absent ELSE local[p]]
          /\ UNCHANGED left
       \/ orphans # {} /\ Fault /\ UNCHANGED local
    /\ sweep' = [sweep EXCEPT !.at = "down", !.visit = \E p \in Project : localSeen[p] # Absent]
    /\ UNCHANGED <<quota, quotaSeen, expired, localSeen, down, conf, copied, envVars, due, job>>

\* The downstream list is read there and then.
SweepDownstream ==
    /\ sweep.at = "down"
    /\ \/ /\ sweep.visit /\ ~ case.guest /\ cluster.exists /\ cluster.enabled /\ reach
          /\ down' = [p \in Project |-> IF p \in sweep.active THEN down[p] ELSE Absent]
          /\ UNCHANGED left
       \/ /\ \/ ~ (sweep.visit /\ ~ case.guest /\ cluster.exists /\ cluster.enabled /\ reach)
                /\ UNCHANGED left
             \/ Fault
          /\ UNCHANGED down
    /\ sweep' = NoSweep
    /\ UNCHANGED <<quota, quotaSeen, expired, local, localSeen, conf, copied, envVars, due, job>>

Sweeper == sweepOrphanedConfigSecrets \/ deleteOrphanedLocalConfigSecrets \/ SweepDownstream

-----------------------------------------------------------------------------
(* What the reconcilers react to                                           *)

\* A quota's events: its creation, and the update that carries a
\* deletionTimestamp.  Other updates are filtered out.  What was being deleted
\* and lives, or had the finalizer and has not, is another object.
Created(p) ==
    /\ quota[p].state = "live"
    /\ quotaSeen[p].state # "live" \/ (quotaSeen[p].fin /\ ~ quota[p].fin)
QuotaSync(p) ==
    /\ quotaSeen[p] # quota[p]
    /\ quotaSeen' = [quotaSeen EXCEPT ![p] = quota[p]]
    /\ due' = IF Created(p) \/ quota[p].state = "deleting" THEN due \cup {p} ELSE due
    /\ UNCHANGED <<quota, expired, local, localSeen, down, conf, copied, envVars, job, sweep, left>>

SecretSync(p) ==
    /\ localSeen[p] # local[p]
    /\ localSeen' = [localSeen EXCEPT ![p] = local[p]]
    /\ UNCHANGED <<quota, quotaSeen, expired, local, down, conf, copied, envVars, ctlVars>>

CreateQuota(p) ==
    /\ quota[p].state = "none" /\ Happens("create")
    /\ case.guest => p = Home
    /\ quota' = [quota EXCEPT ![p].state = "live"]
    /\ UNCHANGED <<quotaSeen, expired, local, localSeen, down, conf, copied, envVars, due, job, sweep>>

\* Without a finalizer the object goes at once.
DeleteQuota(p) ==
    /\ quota[p].state = "live" /\ Happens("delete")
    /\ quota' = [quota EXCEPT ![p] = IF @.fin THEN [@ EXCEPT !.state = "deleting"] ELSE NoQuota]
    /\ UNCHANGED <<quotaSeen, expired, local, localSeen, down, conf, copied, envVars, due, job, sweep>>

GraceExpires(p) ==
    /\ quota[p].state = "deleting" /\ p \notin expired
    /\ expired' = expired \cup {p}
    /\ UNCHANGED <<quota, quotaSeen, local, localSeen, down, conf, copied, envVars, ctlVars>>

\* An operator loses or blanks the local Secret of a live project, rotates the
\* CA or edits the pools; the downstream cluster is switched off for good.
LoseLocal ==
    /\ local[Home] \in Token
    /\ \/ Happens("loss") /\ local' = [local EXCEPT ![Home] = Absent]
       \/ Happens("blank") /\ local' = [local EXCEPT ![Home] = Blank]
    /\ UNCHANGED <<quota, quotaSeen, expired, localSeen, down, conf, copied, envVars, due, job, sweep>>

Reconfigure ==
    /\ Happens("edit")
    /\ conf' = 2
    /\ UNCHANGED <<quota, quotaSeen, expired, local, localSeen, down, copied, envVars, due, job, sweep>>

Outage ==
    /\ Happens("outage")
    /\ reach' = FALSE
    /\ UNCHANGED <<secretVars, cluster, due, job, sweep>>

Sync == \E p \in Project : QuotaSync(p) \/ SecretSync(p)

SecretsEnvironment ==
    \/ \E p \in Project : CreateQuota(p) \/ DeleteQuota(p)
    \/ LoseLocal
    \/ Reconfigure
    \/ Outage
=============================================================================
