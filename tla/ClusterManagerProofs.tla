------------------------ MODULE ClusterManagerProofs -------------------------
(***************************************************************************)
(* Proofs about the cluster manager, for any sets of projects, tokens and  *)
(* FloatingIPs and for any cases: whatever may disturb it.                 *)
(***************************************************************************)
EXTENDS ClusterManager, TLAPS

-----------------------------------------------------------------------------
(* Types                                                                   *)

LoadBalancer == {"metallb", "purelb"}
Quota        == [state : {"none", "live", "deleting"}, fin : BOOLEAN]
Step         == {"idle", "release", "connect", "sanitize", "plan", "install", "upgrade",
                 "installing", "upgrading", "purge", "conflict", "gate", "label", "map",
                 "read", "create", "regenerate", "ca", "push", "guard", "find", "downstream",
                 "local", "finalizer"}
Job          == [at : Step, p : Project, token : Token \cup {Absent}, grace : BOOLEAN]
Pass         == [lb : LoadBalancer, chart : Chart, failed : BOOLEAN, todo : SUBSET FIP]

\* The steps at which a reconcile holds the token of the local Secret.
Holding == {"ca", "push"}

\* The types, with those of what TypeOK leaves open, and what makes the copy
\* that is pushed downstream a token.
QuotaTypes  == /\ quota \in [Project -> Quota] /\ quotaSeen \in [Project -> Quota]
               /\ expired \subseteq {p \in Project : quota[p].state = "deleting"}
SecretTypes == /\ local \in [Project -> Token \cup {Absent, Blank}]
               /\ localSeen \in [Project -> Token \cup {Absent, Blank}]
               /\ down \in [Project -> Token \cup {Absent}]
               /\ conf \in Version /\ copied \in [ca : 0 .. 2, map : 0 .. 2]
EnvTypes    == cluster \in [exists : BOOLEAN, enabled : BOOLEAN, lb : LoadBalancer]
CtlTypes    == /\ case \in Cases
               /\ due \subseteq Project \cup {Key}
               /\ job \in [Worker -> Job]
               /\ sweep \in [at : {"idle", "local", "down"}, active : SUBSET Project, visit : BOOLEAN]
ChartTypes  == /\ rel \in [Chart -> Release] /\ want \in Version /\ pass \in Pass
               /\ labelled \in {"no", "unseen", "restarted"}
ClaimTypes  == claim \in [FIP -> {Mine, Free, Theirs}]
HeldTokens  == \A w \in Worker : job[w].at \in Holding => job[w].token \in Token

TypeInv == /\ QuotaTypes /\ SecretTypes /\ EnvTypes /\ CtlTypes /\ ChartTypes /\ ClaimTypes
           /\ HeldTokens

\* A reconcile that moves on to a step that holds no token stays well-formed.
LEMMA GotoTypes ==
  ASSUME CtlTypes, HeldTokens, NEW w \in Worker, NEW step \in Step \ Holding, Goto(w, step)
  PROVE  job' \in [Worker -> Job] /\ HeldTokens'
  BY DEF CtlTypes, HeldTokens, Goto, Job

\* So does one that takes a token along.
LEMMA HoldTypes ==
  ASSUME CtlTypes, HeldTokens, NEW w \in Worker, NEW t \in Token, Hold(w, "ca", t)
  PROVE  job' \in [Worker -> Job] /\ HeldTokens'
<1> DEFINE j == [job[w] EXCEPT !.at = "ca", !.token = t]
<1>1. job' = [job EXCEPT ![w] = j]
  BY DEF Hold
<1>2. j \in Job
  BY ZenonT(30) DEF CtlTypes, Job, Step
<1> HIDE DEF j
<1>3. \A v \in Worker : job'[v] = IF v = w THEN j ELSE job[v]
  BY <1>1 DEF CtlTypes
<1>4. j.token \in Token
  BY DEF j, CtlTypes, Job
<1> QED BY <1>1, <1>2, <1>3, <1>4 DEF CtlTypes, HeldTokens

\* A reconcile that returns forgets its token and queues at most its own key.
LEMMA EndTypes ==
  ASSUME CtlTypes, HeldTokens, NEW w \in Worker, NEW again, End(w, again)
  PROVE  /\ job' \in [Worker -> Job] /\ HeldTokens'
         /\ due' \subseteq Project \cup {Key}
<1>1. Idle \in Job /\ Idle.at \notin Holding
  BY SecretsAssumption DEF Idle, Job, Step, Holding
<1>2. KeyOf(w) \in Project \cup {Key}
  BY DEF CtlTypes, KeyOf, Job
<1>3. job' \in [Worker -> Job] /\ HeldTokens'
  BY <1>1 DEF CtlTypes, HeldTokens, End
<1>4. due' \subseteq Project \cup {Key}
  BY <1>2 DEF CtlTypes, End
<1> QED BY <1>3, <1>4

\* There is a fresh token whenever the local Secret of a project has none.
LEMMA FreshTokenExists ==
  ASSUME TypeInv, NEW p \in Project, local[p] \notin Token
  PROVE  FreshToken(p) \in Token
<1> DEFINE d == down[p]
           q == job["quota"].token
           r == job["prov"].token
<1>1. d \in Token \cup {Absent} /\ q \in Token \cup {Absent} /\ r \in Token \cup {Absent}
  BY DEF TypeInv, SecretTypes, CtlTypes, Worker, Job
<1>2. \E t \in Token : t \notin {d, q, r}
  <2>1. PICK x \in Token : TRUE
    BY TokenAssumption
  <2> DEFINE tok(y) == IF y \in Token THEN y ELSE x
  <2>2. PICK t \in Token : t \notin {tok(d), tok(q), tok(r)}
    BY <2>1, TokenAssumption, ZenonT(30)
  <2> QED BY <2>2
<1>3. {local[p], down[p]} \cup {job[w].token : w \in Worker} = {local[p], d, q, r}
  BY DEF Worker
<1>4. \E t \in Token : t \notin {local[p], down[p]} \cup {job[w].token : w \in Worker}
  BY <1>2, <1>3
<1> QED BY <1>4 DEF FreshToken

\* HandleConfigSecrets, for a quota or for a cluster, keeps the types: above
\* all, what it pushes is a token.
LEMMA SecretsTypes ==
  ASSUME TypeInv, NEW w \in Worker, Secrets(w)
  PROVE  TypeInv'
<1> USE DEF TypeInv
<1>0. UNCHANGED <<case, chartVars, claimVars, pass>>
  BY DEF Secrets, Others
<1>f. job[w].p \in Project /\ w \in Worker
  BY DEF CtlTypes, Job
<1>1. CASE HandleNetworkConfigMap(w)
  <2>1. SecretTypes'
    BY <1>1 DEF HandleNetworkConfigMap, SecretTypes, Version
  <2>2. job' \in [Worker -> Job] /\ HeldTokens'
    BY <1>1, GotoTypes DEF HandleNetworkConfigMap, Step, Holding
  <2> QED BY <1>0, <1>1, <2>1, <2>2
          DEF HandleNetworkConfigMap, envVars, chartVars, claimVars, QuotaTypes, EnvTypes, CtlTypes,
              ChartTypes, ClaimTypes
<1>2. CASE ReadLocal(w)
  <2> DEFINE t == local[job[w].p]
  <2>1. /\ job' \in [Worker -> Job] /\ HeldTokens'
        /\ due' \subseteq Project \cup {Key}
    <3>1. CASE t \in Token /\ Hold(w, "ca", t) /\ UNCHANGED due
      BY <3>1, HoldTypes DEF CtlTypes
    <3>2. CASE End(w, FALSE)
      BY <3>2, EndTypes
    <3>3. CASE (Goto(w, "regenerate") \/ Goto(w, "create")) /\ UNCHANGED due
      BY <3>3, GotoTypes DEF Step, Holding, CtlTypes
    <3> QED BY <1>2, <3>1, <3>2, <3>3 DEF ReadLocal
  <2> QED BY <1>0, <1>2, <2>1
          DEF ReadLocal, secretVars, envVars, chartVars, claimVars, QuotaTypes, SecretTypes, EnvTypes,
              CtlTypes, ChartTypes, ClaimTypes
<1>3. CASE WriteLocal(w)
  <2> DEFINE p == job[w].p
             t == FreshToken(p)
  <2>1. /\ local' \in [Project -> Token \cup {Absent, Blank}]
        /\ job' \in [Worker -> Job] /\ HeldTokens'
        /\ due' \subseteq Project \cup {Key}
    <3>1. CASE /\ local[p] \in {Absent, Blank}
               /\ local' = [local EXCEPT ![p] = t]
               /\ IF HasDownstream(w) THEN Hold(w, "ca", t) /\ UNCHANGED due ELSE End(w, FALSE)
      <4>1. t \in Token
        BY <1>f, <3>1, FreshTokenExists, TokenAssumption
      <4> HIDE DEF t
      <4>2. CASE Hold(w, "ca", t) /\ UNCHANGED due
        BY <1>f, <3>1, <4>1, <4>2, HoldTypes DEF SecretTypes, CtlTypes
      <4>3. CASE End(w, FALSE)
        BY <1>f, <3>1, <4>1, <4>3, EndTypes DEF SecretTypes
      <4> QED BY <3>1, <4>2, <4>3
    <3>2. CASE End(w, TRUE) /\ UNCHANGED local
      BY <3>2, EndTypes DEF SecretTypes
    <3> QED BY <1>3, <3>1, <3>2 DEF WriteLocal
  <2> QED BY <1>0, <1>3, <2>1
          DEF WriteLocal, envVars, chartVars, claimVars, QuotaTypes, SecretTypes, EnvTypes,
              CtlTypes, ChartTypes, ClaimTypes
<1>4. CASE ReconcileCACerts(w)
  <2>1. SecretTypes'
    BY <1>4 DEF ReconcileCACerts, SecretTypes, Version
  <2>2. job' \in [Worker -> Job] /\ HeldTokens'
    BY <1>4 DEF ReconcileCACerts, HeldTokens, CtlTypes, At, Goto, Job, Step, Holding
  <2> QED BY <1>0, <1>4, <2>1, <2>2
          DEF ReconcileCACerts, envVars, chartVars, claimVars, QuotaTypes, EnvTypes, CtlTypes,
              ChartTypes, ClaimTypes
<1>5. CASE PushDownstream(w)
  <2>1. SecretTypes'
    BY <1>f, <1>5 DEF PushDownstream, SecretTypes, HeldTokens, At, Holding
  <2>2. /\ job' \in [Worker -> Job] /\ HeldTokens'
        /\ due' \subseteq Project \cup {Key}
    BY <1>5, EndTypes DEF PushDownstream
  <2> QED BY <1>0, <1>5, <2>1, <2>2
          DEF PushDownstream, envVars, chartVars, claimVars, QuotaTypes, EnvTypes, CtlTypes,
              ChartTypes, ClaimTypes
<1>6. CASE HandlerFails(w)
  <2>1. /\ job' \in [Worker -> Job] /\ HeldTokens'
        /\ due' \subseteq Project \cup {Key}
    BY <1>6, EndTypes DEF HandlerFails
  <2> QED BY <1>0, <1>6, <2>1
          DEF HandlerFails, secretVars, envVars, chartVars, claimVars, QuotaTypes, SecretTypes,
              EnvTypes, CtlTypes, ChartTypes, ClaimTypes
<1> QED BY <1>1, <1>2, <1>3, <1>4, <1>5, <1>6 DEF Secrets, HandleConfigSecrets

\* A worker that moves on, or returns, and nothing else that has a type here.
LEMMA JobStepTypes ==
  ASSUME TypeInv, UNCHANGED <<case, secretVars, envVars, sweep, chartVars, claimVars, pass>>,
         NEW w \in Worker, NEW step \in Step \ Holding, NEW again,
         (Goto(w, step) /\ UNCHANGED due) \/ End(w, again)
  PROVE  TypeInv'
<1>1. /\ job' \in [Worker -> Job] /\ HeldTokens'
      /\ due' \subseteq Project \cup {Key}
  BY GotoTypes, EndTypes DEF TypeInv, CtlTypes
<1> QED BY <1>1 DEF TypeInv, secretVars, envVars, chartVars, claimVars, QuotaTypes, SecretTypes,
            EnvTypes, CtlTypes, ChartTypes, ClaimTypes

\* The reconciler of quotas keeps the types: above all, only a quota that is
\* being deleted is past its grace window.
LEMMA QuotasTypes ==
  ASSUME TypeInv, Quotas
  PROVE  TypeInv'
<1> USE DEF TypeInv
<1> DEFINE p == job["quota"].p
<1>0. UNCHANGED <<case, chartVars, claimVars, pass>>
  BY DEF Quotas, Others
<1>f. p \in Project /\ "quota" \in Worker
  BY DEF CtlTypes, Job, Worker
<1>a. ASSUME NEW next \in Step \ Holding, Tolerated(next)
      PROVE  (Goto("quota", next) /\ UNCHANGED due) \/ End("quota", TRUE)
  BY <1>a DEF Tolerated
<1>1. ASSUME NEW q \in Project, ReconcileQuota(q)
      PROVE  TypeInv'
  <2> DEFINE s == CASE quotaSeen[q].state = "none"     -> "idle"
                    [] quotaSeen[q].state = "deleting" -> "find"
                    [] OTHER                           -> "guard"
             g == q \in expired
             j == [Idle EXCEPT !.p = q, !.grace = g, !.at = s]
  <2>0. s \in {"idle", "find", "guard"}
    OBVIOUS
  <2>2. job' = [job EXCEPT !["quota"] = j]
    BY <1>1 DEF ReconcileQuota
  <2>g. g \in BOOLEAN
    OBVIOUS
  <2> HIDE DEF s, g
  <2>1. j \in Job /\ j.at \notin Holding
    BY <2>0, <2>g DEF Idle, Job, Step, Holding
  <2> HIDE DEF j
  <2>3. job' \in [Worker -> Job] /\ HeldTokens'
    BY <2>1, <2>2 DEF CtlTypes, HeldTokens
  <2> QED BY <1>0, <1>1, <2>3
          DEF ReconcileQuota, secretVars, envVars, chartVars, claimVars, QuotaTypes, SecretTypes,
              EnvTypes, CtlTypes, ChartTypes, ClaimTypes
<1>2. CASE EnsureFinalizer
  <2>1. /\ job' \in [Worker -> Job] /\ HeldTokens'
        /\ due' \subseteq Project \cup {Key}
    <3>1. CASE (Goto("quota", "read") \/ Goto("quota", "map")) /\ UNCHANGED due
      BY <1>f, <3>1, GotoTypes DEF Step, Holding, CtlTypes
    <3>2. CASE End("quota", FALSE) \/ End("quota", TRUE)
      BY <1>f, <3>2, EndTypes
    <3> QED BY <1>2, <3>1, <3>2 DEF EnsureFinalizer
  <2>2. QuotaTypes'
    BY <1>2, <1>f DEF EnsureFinalizer, QuotaTypes, Quota
  <2> QED BY <1>0, <1>2, <2>1, <2>2
          DEF EnsureFinalizer, envVars, chartVars, claimVars, SecretTypes, EnvTypes, CtlTypes,
              ChartTypes, ClaimTypes
<1>3. CASE GuardFails
  <2>1. UNCHANGED <<case, secretVars, envVars, sweep, chartVars, claimVars, pass>> /\ End("quota", TRUE)
    BY <1>0, <1>3 DEF GuardFails
  <2>2. "idle" \in Step \ Holding
    BY DEF Step, Holding
  <2> QED BY <1>f, <2>1, <2>2, JobStepTypes
<1>4. CASE findLocalConfigSecretNamespace
  <2> DEFINE s == IF localSeen[p] # Absent /\ ~ case.guest /\ cluster.exists THEN "downstream" ELSE "local"
  <2>1. UNCHANGED <<case, secretVars, envVars, sweep, chartVars, claimVars, pass>>
    BY <1>0, <1>4 DEF findLocalConfigSecretNamespace
  <2>2. \/ (Goto("quota", s) \/ Goto("quota", "local")) /\ UNCHANGED due
        \/ End("quota", TRUE)
    BY <1>4, <1>a DEF findLocalConfigSecretNamespace, Step, Holding
  <2>3. s \in Step \ Holding /\ "local" \in Step \ Holding
    BY DEF Step, Holding
  <2> HIDE DEF s
  <2> QED BY <1>f, <2>1, <2>2, <2>3, JobStepTypes
<1>5. CASE deleteDownstreamConfigSecret
  <2>1. /\ job' \in [Worker -> Job] /\ HeldTokens'
        /\ due' \subseteq Project \cup {Key}
    <3>1. (Goto("quota", "local") /\ UNCHANGED due) \/ End("quota", TRUE)
      BY <1>5, <1>a DEF deleteDownstreamConfigSecret, Step, Holding
    <3> QED BY <1>f, <3>1, GotoTypes, EndTypes DEF Step, Holding, CtlTypes
  <2> QED BY <1>0, <1>5, <1>f, <2>1
          DEF deleteDownstreamConfigSecret, envVars, chartVars, claimVars, QuotaTypes, SecretTypes,
              EnvTypes, CtlTypes, ChartTypes, ClaimTypes
<1>6. CASE deleteLocalConfigSecretsByName
  <2>1. /\ job' \in [Worker -> Job] /\ HeldTokens'
        /\ due' \subseteq Project \cup {Key}
    <3>1. (Goto("quota", "finalizer") /\ UNCHANGED due) \/ End("quota", TRUE)
      BY <1>6, <1>a DEF deleteLocalConfigSecretsByName, Step, Holding
    <3> QED BY <1>f, <3>1, GotoTypes, EndTypes DEF Step, Holding, CtlTypes
  <2> QED BY <1>0, <1>6, <1>f, <2>1
          DEF deleteLocalConfigSecretsByName, envVars, chartVars, claimVars, QuotaTypes, SecretTypes,
              EnvTypes, CtlTypes, ChartTypes, ClaimTypes
<1>7. CASE releaseCleanupFinalizer
  <2>1. /\ job' \in [Worker -> Job] /\ HeldTokens'
        /\ due' \subseteq Project \cup {Key}
    BY <1>7, <1>f, EndTypes DEF releaseCleanupFinalizer
  <2>2. QuotaTypes'
    <3>1. CASE quota' = [quota EXCEPT ![p] = NoQuota] /\ expired' = expired \ {p}
      <4>1. NoQuota \in Quota
        BY DEF NoQuota, Quota
      <4> QED BY <1>7, <1>f, <3>1, <4>1 DEF releaseCleanupFinalizer, QuotaTypes
    <3>2. CASE UNCHANGED quota /\ expired' \subseteq expired
      BY <1>7, <3>2 DEF releaseCleanupFinalizer, QuotaTypes
    <3> QED BY <1>7, <3>1, <3>2 DEF releaseCleanupFinalizer
  <2> QED BY <1>0, <1>7, <2>1, <2>2
          DEF releaseCleanupFinalizer, envVars, chartVars, claimVars, SecretTypes, EnvTypes, CtlTypes,
              ChartTypes, ClaimTypes
<1> QED BY <1>1, <1>2, <1>3, <1>4, <1>5, <1>6, <1>7 DEF Quotas, QuotaReconciler

\* InstallOrUpgrade takes a release from one of Helm's statuses to another.
LEMMA InstallTypes ==
  ASSUME TypeInv, InstallOrUpgrade, UNCHANGED case
  PROVE  TypeInv'
<1> USE DEF TypeInv
<1>f. "prov" \in Worker /\ pass.chart \in Chart
  BY DEF ChartTypes, Pass, Worker
<1>v. /\ NoRelease \in Release /\ Deployed(want) \in Release
      /\ [st |-> "pending", ver |-> want] \in Release
      /\ [st |-> "failed", ver |-> want] \in Release
  BY DEF NoRelease, Deployed, Release, Status, Version, ChartTypes
<1>p. ASSUME NEW step \in {"plan", "install", "upgrade", "installing", "upgrading", "purge",
                            "conflict", "gate"}, Proceed(step)
      PROVE  job' \in [Worker -> Job] /\ HeldTokens' /\ UNCHANGED due
  BY <1>p, <1>f, GotoTypes DEF Proceed, Step, Holding
<1>r. ASSUME Return
      PROVE  /\ job' \in [Worker -> Job] /\ HeldTokens'
             /\ due' \subseteq Project \cup {Key}
  BY <1>r, <1>f, EndTypes DEF Return
<1>c. ASSUME Converged
      PROVE  /\ job' \in [Worker -> Job] /\ HeldTokens'
             /\ due' \subseteq Project \cup {Key}
  <2>1. Return \/ Proceed("conflict") \/ Proceed("gate")
    BY <1>c DEF Converged, AfterChart
  <2> QED BY <2>1, <1>p, <1>r DEF CtlTypes
<1>1. /\ job' \in [Worker -> Job] /\ HeldTokens'
      /\ due' \subseteq Project \cup {Key}
  <2>1. CASE Plan
    <3> DEFINE act == planReleaseAction(rel[pass.chart], want)
    <3>1. act \in {"skip", "upgrade", "purge"}
      BY DEF planReleaseAction
    <3> HIDE DEF act
    <3>2. Converged \/ Proceed("install") \/ Proceed("upgrade") \/ Proceed("purge")
      BY <2>1, <3>1 DEF Plan, act
    <3> QED BY <3>2, <1>p, <1>c DEF CtlTypes
  <2>2. CASE Begin
    <3>1. Return \/ Proceed("installing") \/ Proceed("upgrading") \/ Proceed("purge")
      BY <2>2 DEF Begin
    <3> QED BY <3>1, <1>p, <1>r DEF CtlTypes
  <2>3. CASE purgeUndecodableRecords
    BY <2>3, <1>p DEF purgeUndecodableRecords, CtlTypes
  <2>4. CASE Succeed
    BY <2>4, <1>c DEF Succeed
  <2>5. CASE TimeOut
    BY <2>5, <1>p, <1>r DEF TimeOut, CtlTypes
  <2>6. CASE repairRelease
    BY <2>6, <1>p, <1>r DEF repairRelease, CtlTypes
  <2> QED BY <2>1, <2>2, <2>3, <2>4, <2>5, <2>6 DEF InstallOrUpgrade
<1>2. rel' \in [Chart -> Release]
  BY <1>f, <1>v DEF InstallOrUpgrade, purgeUndecodableRecords, Plan, Begin, Succeed, TimeOut,
     repairRelease, Put, ChartTypes
<1>3. pass' \in Pass
  <2>1. CASE Plan
    BY <2>1 DEF Plan, ChartTypes, Pass
  <2>2. CASE UNCHANGED pass
    BY <2>2 DEF ChartTypes
  <2> QED BY <2>1, <2>2 DEF InstallOrUpgrade, purgeUndecodableRecords, Begin, Succeed, TimeOut,
     repairRelease
<1>4. UNCHANGED <<secretVars, envVars, sweep, want, labelled, claimVars>>
  BY DEF InstallOrUpgrade, purgeUndecodableRecords, Plan, Begin, Succeed, TimeOut, repairRelease
<1> QED BY <1>1, <1>2, <1>3, <1>4
        DEF secretVars, envVars, claimVars, QuotaTypes, SecretTypes, EnvTypes, CtlTypes, ChartTypes,
            ClaimTypes

\* The other steps of the reconciler of Clusters.
LEMMA ClustersTypes ==
  ASSUME TypeInv, Clusters
  PROVE  TypeInv'
<1> USE DEF TypeInv
<1>0. UNCHANGED case
  BY DEF Clusters
<1>f. "prov" \in Worker /\ (\A step \in {"idle", "release", "connect", "sanitize", "label", "map"} :
                               step \in Step \ Holding)
  BY DEF Worker, Step, Holding
<1>1. CASE ReconcileCluster
  <2> DEFINE s == CASE ~ cluster.exists  -> "release"
                    [] ~ cluster.enabled -> "idle"
                    [] OTHER             -> "connect"
             T == IF cluster.exists THEN {} ELSE {f \in FIP : claimSeen[f] = Mine}
  <2>1. s \in Step \ Holding
    BY <1>f
  <2>2. T \in SUBSET FIP
    OBVIOUS
  <2>3. Goto("prov", s) /\ pass' = [NoPass EXCEPT !.lb = cluster.lb, !.todo = T]
    BY <1>1 DEF ReconcileCluster
  <2> HIDE DEF s, T
  <2>4. job' \in [Worker -> Job] /\ HeldTokens'
    BY <1>f, <2>1, <2>3, GotoTypes
  <2>5. pass' \in Pass
    BY <2>2, <2>3 DEF NoPass, Pass, EnvTypes, Chart, LoadBalancer
  <2> QED BY <1>0, <1>1, <2>4, <2>5
          DEF ReconcileCluster, secretVars, envVars, chartVars, claimVars, QuotaTypes, SecretTypes,
              EnvTypes, CtlTypes, ChartTypes, ClaimTypes
<1>2. CASE Connect
  <2>1. /\ UNCHANGED <<case, secretVars, envVars, sweep, chartVars, claimVars, pass>>
        /\ Goto("prov", "sanitize") /\ UNCHANGED due
    BY <1>0, <1>2 DEF Connect, Proceed
  <2> QED BY <1>f, <2>1, JobStepTypes
<1>3. CASE ReconcileFails
  <2>1. /\ UNCHANGED <<case, secretVars, envVars, sweep, chartVars, claimVars, pass>>
        /\ End("prov", TRUE)
    BY <1>0, <1>3 DEF ReconcileFails, Return
  <2> QED BY <1>f, <2>1, JobStepTypes
<1>4. CASE InstallOrUpgrade
  BY <1>0, <1>4, InstallTypes
<1>5. CASE CheckConflict
  <2>1. pass' \in Pass
    BY <1>5 DEF CheckConflict, ChartTypes, Pass, LoadBalancer, Chart
  <2>2. /\ job' \in [Worker -> Job] /\ HeldTokens'
        /\ due' \subseteq Project \cup {Key}
    BY <1>5, <1>f, GotoTypes, EndTypes DEF CheckConflict, Proceed, Return, CtlTypes
  <2> QED BY <1>0, <1>5, <2>1, <2>2
          DEF CheckConflict, secretVars, envVars, chartVars, claimVars, QuotaTypes, SecretTypes,
              EnvTypes, CtlTypes, ChartTypes, ClaimTypes
<1>6. CASE QuotaGate
  <2>1. /\ UNCHANGED <<case, secretVars, envVars, sweep, chartVars, claimVars, pass>>
        /\ End("prov", TRUE) \/ (Goto("prov", "label") /\ UNCHANGED due)
    BY <1>0, <1>6 DEF QuotaGate, Return, Proceed
  <2> QED BY <1>f, <2>1, JobStepTypes
<1>7. CASE LabelNamespaceWithProjectID
  <2>1. /\ job' \in [Worker -> Job] /\ HeldTokens'
        /\ due' \subseteq Project \cup {Key}
    BY <1>7, <1>f, GotoTypes, EndTypes DEF LabelNamespaceWithProjectID, Proceed, Return, CtlTypes
  <2> QED BY <1>0, <1>7, <2>1
          DEF LabelNamespaceWithProjectID, secretVars, envVars, claimVars, QuotaTypes, SecretTypes,
              EnvTypes, CtlTypes, ChartTypes, ClaimTypes
<1>8. CASE releaseFloatingIPs
  <2>1. /\ job' \in [Worker -> Job] /\ HeldTokens'
        /\ due' \subseteq Project \cup {Key}
    <3>1. CASE End("prov", FALSE) \/ End("prov", TRUE)
      BY <3>1, <1>f, EndTypes
    <3>2. CASE UNCHANGED <<job, due>>
      BY <3>2 DEF CtlTypes, HeldTokens
    <3> QED BY <1>8, <3>1, <3>2 DEF releaseFloatingIPs
  <2>2. claim' \in [FIP -> {Mine, Free, Theirs}] /\ pass' \in Pass
    BY <1>8 DEF releaseFloatingIPs, ClaimTypes, ChartTypes, Pass
  <2> QED BY <1>0, <1>8, <2>1, <2>2
          DEF releaseFloatingIPs, secretVars, envVars, chartVars, QuotaTypes, SecretTypes,
              EnvTypes, CtlTypes, ChartTypes, ClaimTypes
<1> QED BY <1>1, <1>2, <1>3, <1>4, <1>5, <1>6, <1>7, <1>8 DEF Clusters, ClusterReconciler

\* The sweeper, the informers, the clock and everybody else.
LEMMA OtherTypes ==
  ASSUME TypeInv,
         Sweeping \/ Informers \/ Grace \/ (SecretsEnvironment /\ Others)
         \/ (ProvisioningEnvironment /\ UNCHANGED case)
  PROVE  TypeInv'
<1> USE DEF TypeInv
<1>1. CASE Sweeping
  <2>1. /\ UNCHANGED <<case, due, job, rel, want, labelled, claim, pass, cluster, quota, quotaSeen,
                        expired, localSeen, conf, copied>>
        /\ UNCHANGED local \/ deleteOrphanedLocalConfigSecrets
        /\ UNCHANGED down \/ SweepDownstream
    BY <1>1 DEF Sweeping, Others, Sweeper, sweepOrphanedConfigSecrets,
       deleteOrphanedLocalConfigSecrets, SweepDownstream, secretVars, envVars, chartVars, claimVars
  <2>2. sweep' \in [at : {"idle", "local", "down"}, active : SUBSET Project, visit : BOOLEAN]
    <3>1. CASE sweepOrphanedConfigSecrets
      BY <3>1 DEF sweepOrphanedConfigSecrets, NoSweep
    <3>2. CASE deleteOrphanedLocalConfigSecrets
      <4> DEFINE v == \E p \in Project : localSeen[p] # Absent
      <4>1. v \in BOOLEAN
        OBVIOUS
      <4>2. sweep' = [sweep EXCEPT !.at = "down", !.visit = v]
        BY <3>2 DEF deleteOrphanedLocalConfigSecrets
      <4> HIDE DEF v
      <4> QED BY <4>1, <4>2 DEF CtlTypes
    <3>3. CASE SweepDownstream
      BY <3>3 DEF SweepDownstream, NoSweep
    <3> QED BY <1>1, <3>1, <3>2, <3>3 DEF Sweeping, Sweeper
  <2>3. /\ local' \in [Project -> Token \cup {Absent, Blank}]
        /\ down' \in [Project -> Token \cup {Absent}]
    BY <2>1 DEF deleteOrphanedLocalConfigSecrets, SweepDownstream, SecretTypes
  <2> QED BY <2>1, <2>2, <2>3
          DEF QuotaTypes, SecretTypes, EnvTypes, CtlTypes, ChartTypes, ClaimTypes, HeldTokens
<1>2. CASE Informers \/ Grace
  <2>1. /\ UNCHANGED <<case, quota, local, down, conf, copied, cluster, job, sweep, rel, want,
                        labelled, claim, pass>>
        /\ due' \subseteq due \cup Project
    BY <1>2 DEF Informers, Grace, Others, Sync, QuotaSync, SecretSync, ClaimSync, GraceExpires,
       secretVars, envVars, ctlVars, chartVars, claimVars
  <2>2. quotaSeen' \in [Project -> Quota] /\ localSeen' \in [Project -> Token \cup {Absent, Blank}]
    BY <1>2 DEF Informers, Grace, Others, Sync, QuotaSync, SecretSync, ClaimSync, GraceExpires,
       secretVars, QuotaTypes, SecretTypes
  <2>3. expired' \subseteq {p \in Project : quota[p].state = "deleting"}
    BY <1>2 DEF Informers, Grace, Others, Sync, QuotaSync, SecretSync, ClaimSync, GraceExpires,
       secretVars, QuotaTypes
  <2> QED BY <2>1, <2>2, <2>3
          DEF QuotaTypes, SecretTypes, EnvTypes, CtlTypes, ChartTypes, ClaimTypes, HeldTokens
<1>3. CASE SecretsEnvironment /\ Others
  <2>1. UNCHANGED <<case, quotaSeen, expired, localSeen, down, copied, cluster, due, job, sweep,
                    rel, want, labelled, claim, pass>>
    BY <1>3 DEF SecretsEnvironment, Others, CreateQuota, DeleteQuota, LoseLocal, Reconfigure, Outage,
       secretVars, envVars, chartVars, claimVars
  <2>2. QuotaTypes'
    <3>1. CASE UNCHANGED quota
      BY <2>1, <3>1 DEF QuotaTypes
    <3>2. ASSUME NEW p \in Project, CreateQuota(p)
          PROVE  QuotaTypes'
      BY <2>1, <3>2 DEF CreateQuota, QuotaTypes, Quota
    <3>3. ASSUME NEW p \in Project, DeleteQuota(p)
          PROVE  QuotaTypes'
      <4> DEFINE q == IF quota[p].fin THEN [quota[p] EXCEPT !.state = "deleting"] ELSE NoQuota
      <4>1. q \in Quota
        BY DEF QuotaTypes, Quota, NoQuota
      <4>2. quota[p].state = "live" /\ quota' = [quota EXCEPT ![p] = q]
        BY <3>3 DEF DeleteQuota
      <4> HIDE DEF q
      <4>3. p \notin expired
        BY <4>2 DEF QuotaTypes
      <4> QED BY <2>1, <4>1, <4>2, <4>3 DEF QuotaTypes
    <3> QED BY <1>3, <3>1, <3>2, <3>3
            DEF SecretsEnvironment, LoseLocal, Reconfigure, Outage, secretVars
  <2>3. local' \in [Project -> Token \cup {Absent, Blank}] /\ conf' \in Version
    BY <1>3, SecretsAssumption
    DEF SecretsEnvironment, CreateQuota, DeleteQuota, LoseLocal, Reconfigure, Outage, secretVars,
        SecretTypes, Version
  <2> QED BY <2>1, <2>2, <2>3
          DEF SecretTypes, EnvTypes, CtlTypes, ChartTypes, ClaimTypes, HeldTokens
<1>4. CASE ProvisioningEnvironment /\ UNCHANGED case
  <2>1. /\ UNCHANGED <<secretVars, job, sweep, want, labelled, pass>>
        /\ due' = due \/ due' = due \cup {Key}
    BY <1>4 DEF ProvisioningEnvironment, EditCluster, Reclaim, SpoilRecord, chartVars, claimVars
  <2>2. EnvTypes'
    <3>1. Other[cluster.lb] \in LoadBalancer
      BY DEF EnvTypes, Other, LoadBalancer
    <3> QED BY <1>4, <3>1
            DEF ProvisioningEnvironment, EditCluster, Reclaim, SpoilRecord, envVars, EnvTypes
  <2>3. claim' \in [FIP -> {Mine, Free, Theirs}]
    BY <1>4 DEF ProvisioningEnvironment, EditCluster, Reclaim, SpoilRecord, claimVars, ClaimTypes
  <2>4. rel' \in [Chart -> Release]
    BY <1>4 DEF ProvisioningEnvironment, EditCluster, Reclaim, SpoilRecord, chartVars, ChartTypes,
       Release, Status
  <2> QED BY <1>4, <2>1, <2>2, <2>3, <2>4
          DEF secretVars, QuotaTypes, SecretTypes, CtlTypes, ChartTypes, ClaimTypes, HeldTokens
<1> QED BY <1>1, <1>2, <1>3, <1>4

\* A new process starts from what the API server has.
LEMMA RestartTypes ==
  ASSUME TypeInv, Restart, UNCHANGED case
  PROVE  TypeInv'
<1> USE DEF TypeInv
<1>1. Idle \in Job /\ Idle.at \notin Holding
  BY SecretsAssumption DEF Idle, Job, Step, Holding
<1>2. NoPass \in Pass
  BY DEF NoPass, Pass, Chart, LoadBalancer
<1>3. NoSweep \in [at : {"idle", "local", "down"}, active : SUBSET Project, visit : BOOLEAN]
  BY DEF NoSweep
<1>4. want' \in Version
  BY DEF Restart, ChartTypes, Version
<1>5. CtlTypes' /\ HeldTokens'
  BY <1>1, <1>3 DEF Restart, CtlTypes, HeldTokens, Followed
<1> QED BY <1>2, <1>4, <1>5
        DEF Restart, envVars, QuotaTypes, SecretTypes, EnvTypes, ChartTypes, ClaimTypes

\* Every state is well-formed, whatever the case.
LEMMA InitTypes == Init => TypeInv
<1> SUFFICES ASSUME Init
             PROVE  TypeInv
  OBVIOUS
<1> DEFINE t   == CHOOSE t \in Token : TRUE
           had == IF "old" \in case.kinds THEN case.quotas
                  ELSE IF "orphan" \in case.kinds THEN Project \ case.quotas ELSE {}
<1>1. t \in Token
  BY TokenAssumption
<1> HIDE DEF t
<1>2. QuotaTypes
  <2>1. \A p \in Project : (p \in case.quotas /\ "old" \in case.kinds) \in BOOLEAN
    OBVIOUS
  <2> QED BY <2>1 DEF Init, QuotaTypes, Quota
<1>3. SecretTypes
  <2>1. local = [p \in Project |-> IF p \in had THEN t ELSE Absent]
    BY DEF Init, t
  <2>2. down = [p \in Project |-> IF p \in had /\ (~ case.guest \/ p = Home) THEN t ELSE Absent]
    BY DEF Init, t
  <2> HIDE DEF had
  <2> QED BY <1>1, <2>1, <2>2 DEF Init, SecretTypes, Version
<1>4. CtlTypes /\ HeldTokens
  <2>1. Idle \in Job /\ Idle.at \notin Holding
    BY SecretsAssumption DEF Idle, Job, Step, Holding
  <2> QED BY <2>1, SecretsAssumption DEF Init, CtlTypes, HeldTokens, NoSweep, Followed
<1>5. EnvTypes
  BY DEF Init, EnvTypes, LoadBalancer
<1>6. ChartTypes
  <2>1. NoRelease \in Release /\ Deployed(1) \in Release
    BY DEF NoRelease, Deployed, Release, Status, Version
  <2> QED BY <2>1 DEF Init, ChartTypes, NoPass, Pass, Chart, LoadBalancer, Version
<1>7. ClaimTypes
  BY DEF Init, ClaimTypes
<1> QED BY <1>2, <1>3, <1>4, <1>5, <1>6, <1>7 DEF TypeInv

\* No step leaves the types.
LEMMA NextTypes == TypeInv /\ [Next]_vars => TypeInv'
<1>1. CASE UNCHANGED vars
  BY <1>1 DEF vars, secretVars, envVars, ctlVars, chartVars, claimVars, TypeInv, QuotaTypes,
     SecretTypes, EnvTypes, CtlTypes, ChartTypes, ClaimTypes, HeldTokens
<1> QED BY <1>1, SecretsTypes, QuotasTypes, ClustersTypes, OtherTypes, RestartTypes DEF Next

\* The state keeps its shape, with what TypeOK leaves out about the jobs.
THEOREM Typing == Spec => []TypeInv
  BY InitTypes, NextTypes, PTL DEF Spec

\* What is handed on is well-formed in every state: the copy in the downstream
\* cluster is a token, and only deletions have a grace window that is over.
THEOREM TypeCorrect == Spec => []TypeOK
<1>1. TypeInv => TypeOK
  BY DEF TypeInv, TypeOK, QuotaTypes, SecretTypes, CtlTypes, ChartTypes, ClaimTypes, Quota, Job, Pass
<1> QED BY <1>1, Typing, PTL

-----------------------------------------------------------------------------
(* Who writes what                                                         *)

\* The actions that may change a variable; every other leaves it alone.
LEMMA Writers ==
  ASSUME Next
  PROVE  /\ \/ UNCHANGED quota
            \/ EnsureFinalizer \/ releaseCleanupFinalizer
            \/ \E p \in Project : CreateQuota(p) \/ DeleteQuota(p)
         /\ UNCHANGED quotaSeen \/ (\E p \in Project : QuotaSync(p)) \/ Restart
         /\ \/ UNCHANGED local
            \/ \E w \in Worker : WriteLocal(w)
            \/ deleteLocalConfigSecretsByName \/ LoseLocal
            \/ deleteOrphanedLocalConfigSecrets /\ Sweeping
         /\ UNCHANGED sweep \/ Sweeping \/ Restart
         /\ UNCHANGED claim \/ releaseFloatingIPs \/ (\E f \in FIP : Reclaim(f))
<1>1. \/ UNCHANGED quota
      \/ EnsureFinalizer \/ releaseCleanupFinalizer
      \/ \E p \in Project : CreateQuota(p) \/ DeleteQuota(p)
  BY DEF Next, Secrets, HandleConfigSecrets, HandleNetworkConfigMap, ReadLocal, WriteLocal,
      ReconcileCACerts, PushDownstream, HandlerFails, Quotas, QuotaReconciler, ReconcileQuota,
      GuardFails, findLocalConfigSecretNamespace, deleteDownstreamConfigSecret,
      deleteLocalConfigSecretsByName, Clusters, ClusterReconciler, ReconcileCluster, Connect,
      ReconcileFails, InstallOrUpgrade, purgeUndecodableRecords, Plan, Begin, Succeed, TimeOut,
      repairRelease, CheckConflict, QuotaGate, LabelNamespaceWithProjectID, releaseFloatingIPs,
      Sweeping, Sweeper, sweepOrphanedConfigSecrets, deleteOrphanedLocalConfigSecrets,
      SweepDownstream, Informers, Sync, QuotaSync, SecretSync, ClaimSync, Grace, GraceExpires,
      SecretsEnvironment, LoseLocal, Reconfigure, Outage, ProvisioningEnvironment, EditCluster,
      Reclaim, SpoilRecord, Restart, secretVars
<1>2. UNCHANGED quotaSeen \/ (\E p \in Project : QuotaSync(p)) \/ Restart
  BY DEF Next, Secrets, HandleConfigSecrets, HandleNetworkConfigMap, ReadLocal, WriteLocal,
      ReconcileCACerts, PushDownstream, HandlerFails, Quotas, QuotaReconciler, ReconcileQuota,
      EnsureFinalizer, GuardFails, findLocalConfigSecretNamespace, deleteDownstreamConfigSecret,
      deleteLocalConfigSecretsByName, releaseCleanupFinalizer, Clusters, ClusterReconciler,
      ReconcileCluster, Connect, ReconcileFails, InstallOrUpgrade, purgeUndecodableRecords, Plan,
      Begin, Succeed, TimeOut, repairRelease, CheckConflict, QuotaGate, LabelNamespaceWithProjectID,
      releaseFloatingIPs, Sweeping, Sweeper, sweepOrphanedConfigSecrets,
      deleteOrphanedLocalConfigSecrets, SweepDownstream, Informers, Sync, SecretSync, ClaimSync,
      Grace, GraceExpires, SecretsEnvironment, CreateQuota, DeleteQuota, LoseLocal, Reconfigure,
      Outage, ProvisioningEnvironment, EditCluster, Reclaim, SpoilRecord, secretVars
<1>3. \/ UNCHANGED local
      \/ \E w \in Worker : WriteLocal(w)
      \/ deleteLocalConfigSecretsByName \/ LoseLocal
      \/ deleteOrphanedLocalConfigSecrets /\ Sweeping
  BY DEF Next, Secrets, HandleConfigSecrets, HandleNetworkConfigMap, ReadLocal, ReconcileCACerts,
      PushDownstream, HandlerFails, Quotas, QuotaReconciler, ReconcileQuota, EnsureFinalizer,
      GuardFails, findLocalConfigSecretNamespace, deleteDownstreamConfigSecret,
      releaseCleanupFinalizer, Clusters, ClusterReconciler, ReconcileCluster, Connect,
      ReconcileFails, InstallOrUpgrade, purgeUndecodableRecords, Plan, Begin, Succeed, TimeOut,
      repairRelease, CheckConflict, QuotaGate, LabelNamespaceWithProjectID, releaseFloatingIPs,
      Sweeping, Sweeper, sweepOrphanedConfigSecrets, SweepDownstream, Informers, Sync, QuotaSync,
      SecretSync, ClaimSync, Grace, GraceExpires, SecretsEnvironment, CreateQuota, DeleteQuota,
      Reconfigure, Outage, ProvisioningEnvironment, EditCluster, Reclaim, SpoilRecord, Restart,
      secretVars
<1>4. UNCHANGED sweep \/ Sweeping \/ Restart
  BY DEF Next, Secrets, HandleConfigSecrets, HandleNetworkConfigMap, ReadLocal, WriteLocal,
      ReconcileCACerts, PushDownstream, HandlerFails, Quotas, QuotaReconciler, ReconcileQuota,
      EnsureFinalizer, GuardFails, findLocalConfigSecretNamespace, deleteDownstreamConfigSecret,
      deleteLocalConfigSecretsByName, releaseCleanupFinalizer, Clusters, ClusterReconciler,
      ReconcileCluster, Connect, ReconcileFails, InstallOrUpgrade, purgeUndecodableRecords, Plan,
      Begin, Succeed, TimeOut, repairRelease, CheckConflict, QuotaGate, LabelNamespaceWithProjectID,
      releaseFloatingIPs, Informers, Sync, QuotaSync, SecretSync, ClaimSync, Grace, GraceExpires,
      SecretsEnvironment, CreateQuota, DeleteQuota, LoseLocal, Reconfigure, Outage,
      ProvisioningEnvironment, EditCluster, Reclaim, SpoilRecord, ctlVars
<1>5. UNCHANGED claim \/ releaseFloatingIPs \/ (\E f \in FIP : Reclaim(f))
  BY DEF Next, Secrets, Quotas, Clusters, ClusterReconciler, ReconcileCluster, Connect, ReconcileFails,
      InstallOrUpgrade, purgeUndecodableRecords, Plan, Begin, Succeed, TimeOut, repairRelease,
      CheckConflict, QuotaGate, LabelNamespaceWithProjectID, Sweeping, Informers, ClaimSync, Grace,
      ProvisioningEnvironment, EditCluster, SpoilRecord, Restart, Others, claimVars
<1> QED BY <1>1, <1>2, <1>3, <1>4, <1>5

-----------------------------------------------------------------------------
(* One load balancer                                                       *)

\* The steps at which the reconcile works on the release of pass.chart.
ChartStep == {"sanitize", "plan", "install", "upgrade", "installing", "upgrading", "purge"}

\* Between the check for a conflict and the last write of the chart nobody
\* installs the other one: there is one worker, and the check and the writes go
\* by the load balancer read at the start of the reconcile, not by the label.
ConflictChecked ==
    /\ job["prov"].at \in {"connect", "conflict"} => pass.chart = "lbc"
    /\ job["prov"].at \in ChartStep /\ pass.chart # "lbc" => rel[Other[pass.chart]].st = "none"

LoadBalancerInv == OneLoadBalancer /\ ConflictChecked

\* A step that leaves the releases alone keeps the invariant when the reconcile
\* stays where it is or leaves the chart.
LEMMA LoadBalancerFrame ==
  ASSUME LoadBalancerInv, UNCHANGED <<rel, pass>>,
         job'["prov"].at = job["prov"].at \/ job'["prov"].at \notin ChartStep \cup {"connect", "conflict"}
  PROVE  LoadBalancerInv'
  BY DEF LoadBalancerInv, OneLoadBalancer, ConflictChecked

\* What the moves of a worker do to where the workers are.
LEMMA Moves ==
  ASSUME TypeInv, NEW w \in Worker, NEW step \in Step
  PROVE  /\ Goto(w, step) => \A v \in Worker : /\ job'[v].at = IF v = w THEN step ELSE job[v].at
                                               /\ job'[v].p = job[v].p
         /\ \A t : Hold(w, step, t) => \A v \in Worker :
               /\ job'[v].at = IF v = w THEN step ELSE job[v].at
               /\ job'[v].p = job[v].p
<1> USE DEF TypeInv, CtlTypes
<1>1. Goto(w, step) => \A v \in Worker : /\ job'[v].at = IF v = w THEN step ELSE job[v].at
                                         /\ job'[v].p = job[v].p
  BY DEF Goto, Job
<1>2. ASSUME NEW t, Hold(w, step, t), NEW v \in Worker
      PROVE  /\ job'[v].at = IF v = w THEN step ELSE job[v].at
             /\ job'[v].p = job[v].p
  <2>1. CASE v = w
    BY <1>2, <2>1 DEF Hold, Job
  <2>2. CASE v # w
    BY <1>2, <2>2 DEF Hold
  <2> QED BY <2>1, <2>2
<1> QED BY <1>1, <1>2

\* A reconcile that ends frees its worker and queues at most its own key.
LEMMA Returns ==
  ASSUME TypeInv, NEW w \in Worker, NEW again, End(w, again)
  PROVE  /\ \A v \in Worker : job'[v] = IF v = w THEN Idle ELSE job[v]
         /\ due' \subseteq due \cup {KeyOf(w)}
  BY DEF TypeInv, CtlTypes, End

\* No step has the two load balancers installed.
LEMMA NextLoadBalancer == TypeInv /\ LoadBalancerInv /\ [Next]_vars => LoadBalancerInv'
<1> SUFFICES ASSUME TypeInv, LoadBalancerInv, [Next]_vars
             PROVE  LoadBalancerInv'
  OBVIOUS
<1>f. "prov" \in Worker /\ "quota" \in Worker /\ "prov" # "quota" /\ Idle.at = "idle"
  BY DEF Worker, Idle
<1>1. ASSUME NEW w \in Worker, Secrets(w)
      PROVE  LoadBalancerInv'
  <2>1. \/ \E step \in {"read", "create", "regenerate", "push"} : Goto(w, step)
        \/ \E t : Hold(w, "ca", t)
        \/ \E again : End(w, again)
    BY <1>1 DEF Secrets, HandleConfigSecrets, HandleNetworkConfigMap, ReadLocal, WriteLocal,
       ReconcileCACerts, PushDownstream, HandlerFails
  <2>2. job'["prov"].at = job["prov"].at \/ job'["prov"].at \notin ChartStep \cup {"connect", "conflict"}
    BY <1>f, <2>1, Moves, Returns DEF Step, ChartStep
  <2> QED BY <1>1, <2>2, LoadBalancerFrame DEF Secrets, Others, chartVars
<1>2. CASE Quotas
  <2>1. job'["prov"] = job["prov"]
    BY <1>2, <1>f DEF Quotas, QuotaReconciler, ReconcileQuota, EnsureFinalizer, GuardFails,
       findLocalConfigSecretNamespace, deleteDownstreamConfigSecret, deleteLocalConfigSecretsByName,
       releaseCleanupFinalizer, Tolerated, Goto, End, TypeInv, CtlTypes
  <2> QED BY <1>2, <2>1, LoadBalancerFrame DEF Quotas, Others, chartVars
<1>3. CASE Clusters
  <2>g. ASSUME NEW step \in Step, Proceed(step)
        PROVE  job'["prov"].at = step
    BY <1>f, <2>g, Moves DEF Proceed
  <2>r. Return => job'["prov"].at = "idle"
    BY <1>f, Returns DEF Return
  <2>1. CASE ReconcileCluster
    <3>1. pass'.chart = "lbc"
      BY <2>1 DEF ReconcileCluster, NoPass
    <3>2. UNCHANGED rel
      BY <2>1 DEF ReconcileCluster, chartVars
    <3> QED BY <3>1, <3>2 DEF LoadBalancerInv, OneLoadBalancer, ConflictChecked
  <2>2. CASE Connect
    <3>1. job'["prov"].at = "sanitize"
      BY <2>2, <2>g DEF Connect, Step
    <3> QED BY <2>2, <3>1
            DEF Connect, Prov, At, chartVars, LoadBalancerInv, OneLoadBalancer, ConflictChecked
  <2>3. CASE ReconcileFails
    BY <2>3, <2>r, LoadBalancerFrame DEF ReconcileFails, chartVars, ChartStep
  <2>4. CASE InstallOrUpgrade
    <3>1. /\ job["prov"].at \in ChartStep
          /\ pass'.chart = pass.chart
          /\ UNCHANGED rel \/ \E r : Put(r)
      BY <2>4 DEF InstallOrUpgrade, purgeUndecodableRecords, Plan, Begin, Succeed, TimeOut,
         repairRelease, Prov, At, ChartStep, TypeInv, ChartTypes, Pass
    <3>2. \/ job'["prov"].at \in ChartStep
          \/ job'["prov"].at \in {"idle", "gate"}
          \/ job'["prov"].at = "conflict" /\ pass.chart = "lbc"
      <4>c. Converged => \/ job'["prov"].at \in {"idle", "gate"}
                         \/ job'["prov"].at = "conflict" /\ pass.chart = "lbc"
        BY <2>g, <2>r DEF Converged, AfterChart, Step
      <4>1. CASE Plan
        <5> DEFINE act == planReleaseAction(rel[pass.chart], want)
        <5>1. act \in {"skip", "upgrade", "purge"}
          BY DEF planReleaseAction
        <5> HIDE DEF act
        <5>2. Converged \/ Proceed("install") \/ Proceed("upgrade") \/ Proceed("purge")
          BY <4>1, <5>1 DEF Plan, act
        <5> QED BY <4>c, <5>2, <2>g DEF Step, ChartStep
      <4>2. CASE Begin
        <5>1. Return \/ Proceed("installing") \/ Proceed("upgrading") \/ Proceed("purge")
          BY <4>2 DEF Begin
        <5> QED BY <5>1, <2>g, <2>r DEF Step, ChartStep
      <4>3. CASE purgeUndecodableRecords
        BY <4>3, <2>g DEF purgeUndecodableRecords, Step, ChartStep
      <4>4. CASE Succeed
        BY <4>4, <4>c DEF Succeed
      <4>5. CASE TimeOut
        BY <4>5, <2>g, <2>r DEF TimeOut, Step, ChartStep
      <4>6. CASE repairRelease
        BY <4>6, <2>g, <2>r DEF repairRelease, Step, ChartStep
      <4> QED BY <2>4, <4>1, <4>2, <4>3, <4>4, <4>5, <4>6 DEF InstallOrUpgrade
    <3>3. pass.chart # "lbc" => UNCHANGED rel[Other[pass.chart]]
      BY <3>1 DEF Put, TypeInv, ChartTypes, Pass, Chart, Other
    <3>4. pass.chart = "lbc" => UNCHANGED <<rel["metallb"], rel["purelb"]>>
      BY <3>1 DEF Put, TypeInv, ChartTypes, Chart
    <3>5. OneLoadBalancer'
      BY <3>1, <3>3, <3>4 DEF LoadBalancerInv, OneLoadBalancer, ConflictChecked, Other, TypeInv, ChartTypes,
         Pass, Chart
    <3>6. ConflictChecked'
      BY <3>1, <3>2, <3>3 DEF LoadBalancerInv, ConflictChecked, ChartStep
    <3> QED BY <3>5, <3>6 DEF LoadBalancerInv
  <2>5. CASE CheckConflict
    <3>1. pass.lb \in LoadBalancer
      BY DEF TypeInv, ChartTypes, Pass
    <3>2. CASE rel[Other[pass.lb]].st = "none" /\ pass' = [pass EXCEPT !.chart = pass.lb] /\ Proceed("sanitize")
      <4>1. job'["prov"].at = "sanitize" /\ pass'.chart = pass.lb
        BY <3>2, <2>g DEF Step, TypeInv, ChartTypes, Pass
      <4> QED BY <2>5, <3>2, <4>1
              DEF CheckConflict, chartVars, LoadBalancerInv, OneLoadBalancer, ConflictChecked
    <3>3. CASE Return /\ UNCHANGED pass
      BY <2>5, <3>3, <2>r, LoadBalancerFrame DEF CheckConflict, chartVars, ChartStep
    <3> QED BY <2>5, <3>2, <3>3 DEF CheckConflict, CheckIfChartIsInstalled
  <2>6. CASE QuotaGate \/ LabelNamespaceWithProjectID
    <3>1. UNCHANGED <<rel, pass>> /\ (Return \/ Proceed("label") \/ Proceed("map"))
      BY <2>6 DEF QuotaGate, LabelNamespaceWithProjectID, chartVars
    <3>2. job'["prov"].at \in {"idle", "label", "map"}
      BY <3>1, <2>g, <2>r DEF Step
    <3> QED BY <3>1, <3>2, LoadBalancerFrame DEF ChartStep
  <2>7. CASE releaseFloatingIPs
    <3>1. UNCHANGED rel /\ job'["prov"].at \in {"idle", "release"}
      BY <2>7, <1>f, Returns DEF releaseFloatingIPs, chartVars, Prov, At
    <3> QED BY <3>1 DEF LoadBalancerInv, OneLoadBalancer, ConflictChecked, ChartStep
  <2> QED BY <1>3, <2>1, <2>2, <2>3, <2>4, <2>5, <2>6, <2>7 DEF Clusters, ClusterReconciler
<1>4. CASE Sweeping \/ Informers \/ Grace \/ (SecretsEnvironment /\ Others)
  <2>1. UNCHANGED <<job, rel, pass>>
    BY <1>4 DEF Sweeping, Informers, Grace, Others, chartVars, Sweeper, sweepOrphanedConfigSecrets,
       deleteOrphanedLocalConfigSecrets, SweepDownstream, Sync, QuotaSync, SecretSync, ClaimSync,
       GraceExpires, ctlVars, SecretsEnvironment, CreateQuota, DeleteQuota, LoseLocal, Reconfigure, Outage
  <2> QED BY <2>1, LoadBalancerFrame
<1>5. CASE ProvisioningEnvironment
  <2>1. UNCHANGED <<job, pass>>
    BY <1>5 DEF ProvisioningEnvironment, EditCluster, Reclaim, SpoilRecord
  <2>2. \A c \in Chart : rel'[c].st = "none" <=> rel[c].st = "none"
    <3>1. CASE UNCHANGED rel
      BY <3>1
    <3>2. ASSUME NEW c \in Chart, SpoilRecord(c)
          PROVE  \A d \in Chart : rel'[d].st = "none" <=> rel[d].st = "none"
      BY <3>2 DEF SpoilRecord, TypeInv, ChartTypes, Release
    <3> QED BY <1>5, <3>1, <3>2 DEF ProvisioningEnvironment, EditCluster, Reclaim, chartVars
  <2> QED BY <2>1, <2>2
          DEF LoadBalancerInv, OneLoadBalancer, ConflictChecked, Chart, Other, TypeInv, ChartTypes, Pass
<1>6. CASE Restart
  <2>1. UNCHANGED rel /\ job'["prov"].at = "idle"
    BY <1>6, <1>f DEF Restart
  <2> QED BY <2>1 DEF LoadBalancerInv, OneLoadBalancer, ConflictChecked, ChartStep
<1>7. CASE UNCHANGED vars
  BY <1>7, LoadBalancerFrame DEF vars, chartVars, ctlVars
<1> QED BY <1>1, <1>2, <1>3, <1>4, <1>5, <1>6, <1>7 DEF Next

\* Whatever the labels, crashes, failures and spoilt records: the two load
\* balancers are never installed side by side.
THEOREM OneLoadBalancerAlways == Spec => []OneLoadBalancer
<1>1. Init => LoadBalancerInv
  BY DEF Init, LoadBalancerInv, OneLoadBalancer, ConflictChecked, NoPass, NoRelease, Deployed, Chart,
     Worker, Idle, ChartStep
<1>2. LoadBalancerInv => OneLoadBalancer
  BY DEF LoadBalancerInv
<1> QED BY <1>1, <1>2, NextLoadBalancer, Typing, PTL DEF Spec

\* The claim of another cluster survives the release of the FloatingIPs of a
\* cluster that is gone, however stale the list that the release works through.
THEOREM ForeignClaimAlwaysKept == Spec => ForeignClaimKept
<1> DEFINE Kept == \A f \in FIP : claim[f] = Theirs => claim'[f] = Theirs
<1>1. TypeInv /\ [Next]_vars => [Kept]_vars
  <2> SUFFICES ASSUME TypeInv, Next
               PROVE  Kept
    OBVIOUS
  <2>1. CASE UNCHANGED claim
    BY <2>1
  <2>2. ASSUME NEW g \in FIP, claim[g] \in {Mine, Free}, NEW c, claim' = [claim EXCEPT ![g] = c]
        PROVE  Kept
    BY <2>2 DEF TypeInv, ClaimTypes, Mine, Free, Theirs
  <2>3. pass.todo \subseteq FIP
    BY DEF TypeInv, ChartTypes, Pass
  <2>4. CASE releaseFloatingIPs
    BY <2>1, <2>2, <2>3, <2>4 DEF releaseFloatingIPs
  <2>5. ASSUME NEW g \in FIP, Reclaim(g)
        PROVE  Kept
    BY <2>2, <2>5 DEF Reclaim
  <2> QED BY <2>1, <2>4, <2>5, Writers
<1> QED BY <1>1, Typing, PTL DEF Spec, ForeignClaimKept

-----------------------------------------------------------------------------
(* A project that lives keeps its Secret                                   *)

\* The steps of a quota's cleanup.
Cleaning == {"find", "downstream", "local", "finalizer"}

\* The queue or the worker has to do with the project.
Involved(p) == p \in due \/ (job["quota"].at # "idle" /\ job["quota"].p = p)

\* The cached copy that a cleanup starts from may be old, but not so old that
\* the quota has gone and come back: only the worker lets it go, and it does so
\* with the last of the cleanup's steps, when nothing of it is queued.
CleanupInv ==
    \A p \in Project :
       /\ quota[p].state = "deleting" => quota[p].fin
       /\ quotaSeen[p].state = "deleting" => quotaSeen[p].fin
       /\ quotaSeen[p].state = "deleting" /\ Involved(p) => quota[p].state = "deleting"
       /\ job["quota"].at \in Cleaning /\ job["quota"].p = p =>
             quota[p].state = "deleting" /\ quotaSeen[p].state = "deleting" /\ p \notin due

\* Steps that touch no quota and make nobody look at another project.
LEMMA CleanupFrame ==
  ASSUME CleanupInv, UNCHANGED <<quota, quotaSeen>>,
         \A p \in Project : Involved(p)' => Involved(p),
         \A p \in Project : job'["quota"].at \in Cleaning /\ job'["quota"].p = p =>
            job["quota"].at \in Cleaning /\ job["quota"].p = p /\ p \notin due'
  PROVE  CleanupInv'
  BY DEF CleanupInv

\* The steps around the config secrets leave quotas and the queue alone.
LEMMA SecretsCleanup ==
  ASSUME TypeInv, CleanupInv, NEW w \in Worker, Secrets(w)
  PROVE  CleanupInv'
<1>f. "prov" \in Worker /\ "quota" \in Worker /\ "prov" # "quota" /\ Idle.at = "idle" /\ Idle.p = Home
  BY DEF Worker, Idle
<1>0. UNCHANGED <<quota, quotaSeen>> /\ job[w].at \notin Cleaning \cup {"idle"}
  BY DEF Secrets, HandleConfigSecrets, HandleNetworkConfigMap, ReadLocal, WriteLocal,
     ReconcileCACerts, PushDownstream, HandlerFails, secretVars, At, Cleaning
<1>1. \/ /\ UNCHANGED due
         /\ \/ \E step \in {"read", "create", "regenerate", "push"} : Goto(w, step)
            \/ \E t : Hold(w, "ca", t)
      \/ \E again : End(w, again)
  BY DEF Secrets, HandleConfigSecrets, HandleNetworkConfigMap, ReadLocal, WriteLocal,
     ReconcileCACerts, PushDownstream, HandlerFails
<1>2. CASE w = "prov"
  <2>1. UNCHANGED <<job["quota"].at, job["quota"].p>>
    BY <1>f, <1>1, <1>2, Moves, Returns DEF Step
  <2>2. \A p \in Project : p \in due' <=> p \in due
    BY <1>1, <1>2, KeyAssumption DEF End, KeyOf
  <2> QED BY <1>0, <2>1, <2>2, CleanupFrame DEF CleanupInv, Involved
<1>3. CASE w = "quota"
  <2>1. \/ job'["quota"].at \notin Cleaning /\ job'["quota"].p = job["quota"].p /\ UNCHANGED due
        \/ job'["quota"].at = "idle" /\ due' \subseteq due \cup {job["quota"].p}
    <3>1. CASE \E again : End(w, again)
      BY <1>f, <1>3, <3>1, Returns DEF KeyOf
    <3>2. CASE UNCHANGED due /\ \E step \in {"read", "create", "regenerate", "push"} : Goto(w, step)
      BY <1>f, <1>3, <3>2, Moves DEF Step, Cleaning
    <3>3. CASE UNCHANGED due /\ \E t : Hold(w, "ca", t)
      BY <1>f, <1>3, <3>3, Moves DEF Step, Cleaning
    <3> QED BY <1>1, <3>1, <3>2, <3>3
  <2>2. \A p \in Project : Involved(p)' => Involved(p)
    BY <1>0, <1>3, <2>1 DEF Involved
  <2>3. job'["quota"].at \notin Cleaning
    BY <2>1 DEF Cleaning
  <2> QED BY <1>0, <2>2, <2>3, CleanupFrame
<1> QED BY <1>2, <1>3 DEF Worker

\* The quota reconciler lets a quota go with the last step of its cleanup.
LEMMA QuotasCleanup ==
  ASSUME TypeInv, CleanupInv, Quotas
  PROVE  CleanupInv'
<1> DEFINE p == job["quota"].p
<1>f. /\ "quota" \in Worker /\ "prov" # "quota" /\ Idle.at = "idle" /\ p \in Project
      /\ "idle" \notin Cleaning
  BY DEF Worker, Idle, TypeInv, CtlTypes, Job, Cleaning
<1>e. ASSUME NEW again, End("quota", again)
      PROVE  job'["quota"].at = "idle" /\ due' \subseteq due \cup {p}
  BY <1>e, <1>f, Returns DEF End, KeyOf
<1>a. ASSUME NEW next \in Step, Tolerated(next)
      PROVE  \/ Goto("quota", next) /\ UNCHANGED due
             \/ job'["quota"].at = "idle" /\ due' \subseteq due \cup {p}
  BY <1>a, <1>e DEF Tolerated
\* The worker returns, or goes on to a step that is no later than a cleanup's.
<1>g. ASSUME UNCHANGED <<quota, quotaSeen>>, job["quota"].at # "idle",
             \/ job'["quota"].at = "idle" /\ due' \subseteq due \cup {p}
             \/ /\ job'["quota"].p = p /\ UNCHANGED due
                /\ job["quota"].at \in Cleaning \/ job'["quota"].at \notin Cleaning
      PROVE  CleanupInv'
  <2>1. \A q \in Project : Involved(q)' => Involved(q)
    BY <1>g DEF Involved
  <2>2. \A q \in Project : job'["quota"].at \in Cleaning /\ job'["quota"].p = q =>
            job["quota"].at \in Cleaning /\ p = q /\ q \notin due'
    BY <1>f, <1>g DEF CleanupInv
  <2> QED BY <1>g, <2>1, <2>2, CleanupFrame
<1>1. ASSUME NEW q \in Project, ReconcileQuota(q)
      PROVE  CleanupInv'
  <2> DEFINE s == CASE quotaSeen[q].state = "none"     -> "idle"
                    [] quotaSeen[q].state = "deleting" -> "find"
                    [] OTHER                           -> "guard"
             g == q \in expired
  <2>1. s \in Cleaning => quotaSeen[q].state = "deleting"
    BY DEF Cleaning
  <2>2. job' = [job EXCEPT !["quota"] = [Idle EXCEPT !.p = q, !.grace = g, !.at = s]]
    BY <1>1 DEF ReconcileQuota
  <2>3. g \in BOOLEAN
    OBVIOUS
  <2> HIDE DEF s, g
  <2>4. job'["quota"].at = s /\ job'["quota"].p = q
    BY <1>f, <2>2 DEF TypeInv, CtlTypes, Idle
  <2>5. /\ UNCHANGED <<quota, quotaSeen>> /\ q \in due /\ due' = due \ {q}
        /\ job["quota"].at = "idle"
    BY <1>1 DEF ReconcileQuota, secretVars, At
  <2> QED BY <2>1, <2>4, <2>5 DEF CleanupInv, Involved
<1>2. CASE EnsureFinalizer
  <2>1. /\ job["quota"].at = "guard" /\ UNCHANGED quotaSeen
        /\ \A q \in Project : /\ quota'[q].state = quota[q].state
                              /\ quota[q].fin => quota'[q].fin
    BY <1>2, <1>f DEF EnsureFinalizer, At, TypeInv, QuotaTypes, Quota
  <2>2. \/ job'["quota"].at = "idle" /\ due' \subseteq due \cup {p}
        \/ job'["quota"].at \notin Cleaning /\ job'["quota"].p = p /\ UNCHANGED due
    <3>1. CASE End("quota", TRUE) \/ End("quota", FALSE)
      BY <3>1, <1>e
    <3>2. CASE (Goto("quota", "read") \/ Goto("quota", "map")) /\ UNCHANGED due
      BY <1>f, <3>2, Moves DEF Step, Cleaning
    <3> QED BY <1>2, <3>1, <3>2 DEF EnsureFinalizer
  <2>3. \A q \in Project : Involved(q)' => Involved(q)
    BY <2>1, <2>2 DEF Involved
  <2> QED BY <1>f, <2>1, <2>2, <2>3 DEF CleanupInv
<1>3. CASE GuardFails
  <2>1. UNCHANGED <<quota, quotaSeen>> /\ job["quota"].at = "guard"
    BY <1>3 DEF GuardFails, secretVars, At
  <2> QED BY <1>3, <2>1, <1>e, <1>g DEF GuardFails
<1>4. CASE findLocalConfigSecretNamespace \/ deleteDownstreamConfigSecret \/ deleteLocalConfigSecretsByName
  <2>1. UNCHANGED <<quota, quotaSeen>> /\ job["quota"].at \in Cleaning
    BY <1>4 DEF findLocalConfigSecretNamespace, deleteDownstreamConfigSecret,
       deleteLocalConfigSecretsByName, secretVars, At, Cleaning
  <2>2. \/ \E step \in Cleaning : Goto("quota", step) /\ UNCHANGED due
        \/ job'["quota"].at = "idle" /\ due' \subseteq due \cup {p}
    <3>1. CASE findLocalConfigSecretNamespace
      BY <3>1, <1>a DEF findLocalConfigSecretNamespace, Cleaning, Step
    <3>2. CASE deleteDownstreamConfigSecret
      BY <3>2, <1>a DEF deleteDownstreamConfigSecret, Cleaning, Step
    <3>3. CASE deleteLocalConfigSecretsByName
      BY <3>3, <1>a DEF deleteLocalConfigSecretsByName, Cleaning, Step
    <3> QED BY <1>4, <3>1, <3>2, <3>3
  <2>3. Cleaning \subseteq Step
    BY DEF Cleaning, Step
  <2>4. \/ job'["quota"].p = p /\ UNCHANGED due
        \/ job'["quota"].at = "idle" /\ due' \subseteq due \cup {p}
    BY <1>f, <2>2, <2>3, Moves
  <2> QED BY <1>f, <1>g, <2>1, <2>4
<1>5. CASE releaseCleanupFinalizer
  <2>1. /\ job["quota"].at = "finalizer" /\ "finalizer" \in Cleaning /\ UNCHANGED quotaSeen
        /\ job'["quota"].at = "idle"
    BY <1>5, <1>e DEF releaseCleanupFinalizer, At, Cleaning
  <2>2. quota[p].state = "deleting" /\ quotaSeen[p].state = "deleting" /\ p \notin due
    BY <1>f, <2>1 DEF CleanupInv
  <2>3. CASE quota' = [quota EXCEPT ![p] = NoQuota] /\ End("quota", FALSE)
    <3>1. due' = due
      BY <2>3 DEF End
    <3>2. quota'[p].state = "none" /\ \A q \in Project \ {p} : quota'[q] = quota[q]
      BY <1>f, <2>3 DEF TypeInv, QuotaTypes, NoQuota
    <3> QED BY <1>f, <2>1, <2>2, <3>1, <3>2 DEF CleanupInv, Involved
  <2>4. CASE UNCHANGED quota /\ End("quota", TRUE)
    BY <1>f, <2>1, <2>4, <1>e, <1>g
  <2> QED BY <1>5, <2>2, <2>3, <2>4 DEF releaseCleanupFinalizer
<1> QED BY <1>1, <1>2, <1>3, <1>4, <1>5 DEF Quotas, QuotaReconciler

\* Provisioning a cluster is not about quotas.
LEMMA ClustersCleanup ==
  ASSUME TypeInv, CleanupInv, Clusters
  PROVE  CleanupInv'
<1>f. "prov" \in Worker /\ "quota" \in Worker /\ "prov" # "quota"
  BY DEF Worker
<1>p. ASSUME NEW step, Goto("prov", step)
      PROVE  job'["quota"] = job["quota"]
  BY <1>f, <1>p DEF Goto, TypeInv, CtlTypes
<1>r. ASSUME NEW again, End("prov", again)
      PROVE  job'["quota"] = job["quota"] /\ due' \subseteq due \cup {Key}
  BY <1>f, <1>r, Returns DEF KeyOf
<1>1. UNCHANGED <<quota, quotaSeen>>
  BY DEF Clusters, ClusterReconciler, ReconcileCluster, Connect, ReconcileFails, InstallOrUpgrade,
     purgeUndecodableRecords, Plan, Begin, Succeed, TimeOut, repairRelease, CheckConflict, QuotaGate,
     LabelNamespaceWithProjectID, releaseFloatingIPs, secretVars
<1>2. job'["quota"] = job["quota"] /\ due' \subseteq due \cup {Key}
  <2>1. CASE ReconcileCluster
    BY <2>1, <1>p DEF ReconcileCluster
  <2>2. CASE Connect \/ ReconcileFails
    BY <2>2, <1>p, <1>r DEF Connect, ReconcileFails, Proceed, Return
  <2>3. CASE InstallOrUpgrade
    BY <2>3, <1>p, <1>r DEF InstallOrUpgrade, purgeUndecodableRecords, Plan, Begin, Succeed, TimeOut,
       repairRelease, Converged, Proceed, Return
  <2>4. CASE CheckConflict \/ QuotaGate \/ LabelNamespaceWithProjectID
    BY <2>4, <1>p, <1>r DEF CheckConflict, QuotaGate, LabelNamespaceWithProjectID, Proceed, Return
  <2>5. CASE releaseFloatingIPs
    BY <2>5, <1>r DEF releaseFloatingIPs
  <2> QED BY <2>1, <2>2, <2>3, <2>4, <2>5 DEF Clusters, ClusterReconciler
<1>3. \A p \in Project : p \in due' => p \in due
  BY <1>2, KeyAssumption
<1> QED BY <1>1, <1>2, <1>3, CleanupFrame DEF CleanupInv, Involved

\* Neither the watches nor the administrators bring back a quota that is being
\* cleaned up.
LEMMA OtherCleanup ==
  ASSUME TypeInv, CleanupInv, Informers \/ (SecretsEnvironment /\ Others)
  PROVE  CleanupInv'
<1>0. UNCHANGED job
  BY DEF Informers, Sync, QuotaSync, SecretSync, ClaimSync, SecretsEnvironment, CreateQuota,
     DeleteQuota, LoseLocal, Reconfigure, Outage, ctlVars
<1>1. ASSUME NEW p \in Project, QuotaSync(p)
      PROVE  CleanupInv'
  <2>1. /\ quotaSeen[p] # quota[p] /\ UNCHANGED quota
        /\ quotaSeen' = [quotaSeen EXCEPT ![p] = quota[p]]
        /\ due' \subseteq due \cup {p}
    BY <1>1 DEF QuotaSync
  <2>2. quotaSeen'[p] = quota[p] /\ \A q \in Project \ {p} : quotaSeen'[q] = quotaSeen[q]
    BY <2>1 DEF TypeInv, QuotaTypes
  <2>3. ~ (job["quota"].at \in Cleaning /\ job["quota"].p = p)
    <3> SUFFICES ASSUME job["quota"].at \in Cleaning, job["quota"].p = p
                 PROVE  FALSE
      OBVIOUS
    <3>1. quota[p].state = quotaSeen[p].state /\ quota[p].fin = TRUE /\ quotaSeen[p].fin = TRUE
      BY DEF CleanupInv, TypeInv, QuotaTypes, Quota
    <3> QED BY <2>1, <3>1 DEF TypeInv, QuotaTypes, Quota
  <2> QED BY <1>0, <2>1, <2>2, <2>3 DEF CleanupInv, Involved
<1>2. ASSUME NEW p \in Project, CreateQuota(p)
      PROVE  CleanupInv'
  <2>1. /\ quota[p].state = "none" /\ UNCHANGED <<quotaSeen, due>>
        /\ quota'[p].state = "live" /\ \A q \in Project \ {p} : quota'[q] = quota[q]
    BY <1>2 DEF CreateQuota, TypeInv, QuotaTypes, Quota
  <2> QED BY <1>0, <2>1 DEF CleanupInv, Involved
<1>3. ASSUME NEW p \in Project, DeleteQuota(p)
      PROVE  CleanupInv'
  <2> DEFINE q == IF quota[p].fin THEN [quota[p] EXCEPT !.state = "deleting"] ELSE NoQuota
  <2>1. q.state = "none" \/ (q.state = "deleting" /\ q.fin)
    BY DEF TypeInv, QuotaTypes, Quota, NoQuota
  <2>2. /\ quota[p].state = "live" /\ UNCHANGED <<quotaSeen, due>> /\ quota' = [quota EXCEPT ![p] = q]
    BY <1>3 DEF DeleteQuota
  <2> HIDE DEF q
  <2>3. quota'[p] = q /\ \A r \in Project \ {p} : quota'[r] = quota[r]
    BY <2>2 DEF TypeInv, QuotaTypes
  <2> QED BY <1>0, <2>1, <2>2, <2>3 DEF CleanupInv, Involved
<1>4. CASE UNCHANGED <<quota, quotaSeen, due>>
  BY <1>0, <1>4 DEF CleanupInv, Involved
<1> QED BY <1>1, <1>2, <1>3, <1>4
        DEF Informers, Sync, SecretSync, ClaimSync, secretVars, ctlVars, SecretsEnvironment, LoseLocal,
            Reconfigure, Outage

\* No step lets a cleanup run on for a quota that is not being deleted.
LEMMA NextCleanup == TypeInv /\ CleanupInv /\ [Next]_vars => CleanupInv'
<1> SUFFICES ASSUME TypeInv, CleanupInv, [Next]_vars
             PROVE  CleanupInv'
  OBVIOUS
<1>1. CASE Sweeping \/ Grace \/ UNCHANGED vars
  <2>1. UNCHANGED <<quota, quotaSeen, due, job>>
    BY <1>1 DEF Sweeping, Sweeper, sweepOrphanedConfigSecrets, deleteOrphanedLocalConfigSecrets,
       SweepDownstream, Grace, GraceExpires, secretVars, ctlVars, vars
  <2> QED BY <2>1 DEF CleanupInv, Involved
<1>2. CASE ProvisioningEnvironment
  <2>1. UNCHANGED <<quota, quotaSeen, job>> /\ due' \subseteq due \cup {Key}
    BY <1>2 DEF ProvisioningEnvironment, EditCluster, Reclaim, SpoilRecord, secretVars
  <2> QED BY <2>1, KeyAssumption DEF CleanupInv, Involved
<1>3. CASE Restart
  <2>1. UNCHANGED quota /\ quotaSeen' = quota /\ job'["quota"].at = "idle"
    BY <1>3 DEF Restart, Worker, Idle
  <2> QED BY <2>1 DEF CleanupInv, Cleaning
<1> QED BY <1>1, <1>2, <1>3, SecretsCleanup, QuotasCleanup, ClustersCleanup, OtherCleanup DEF Next

\* A cleanup that is under way is of a quota that is being deleted: the object
\* has not been replaced by a new one since the cached copy was read.
THEOREM CleanupOfDeletedOnly == Spec => []CleanupInv
<1>1. Init => CleanupInv
  BY DEF Init, CleanupInv, Worker, Idle, Cleaning
<1> QED BY <1>1, NextCleanup, Typing, PTL DEF Spec

\* Who takes the local Secret of a project that lives: an operator, or the
\* sweeper.
LEMMA WhoTakesTheSecret ==
  ASSUME TypeInv, CleanupInv, [Next]_vars, NEW p \in Project,
         quota[p].state = "live", local[p] # Absent, local'[p] = Absent
  PROVE  "loss" \in left \ left' \/ (deleteOrphanedLocalConfigSecrets /\ Sweeping)
<1>f. job["quota"].p \in Project
  BY DEF TypeInv, CtlTypes, Worker, Job
<1>1. ASSUME NEW w \in Worker, WriteLocal(w)
      PROVE  FALSE
  <2>1. job[w].p \in Project
    BY DEF TypeInv, CtlTypes, Job
  <2>2. local[job[w].p] \in {Absent, Blank} /\ local' = [local EXCEPT ![job[w].p] = FreshToken(job[w].p)]
    BY <1>1 DEF WriteLocal
  <2>3. FreshToken(job[w].p) \in Token
    BY <2>1, <2>2, FreshTokenExists, TokenAssumption
  <2> QED BY <2>1, <2>2, <2>3, TokenAssumption DEF TypeInv, SecretTypes
<1>2. CASE deleteLocalConfigSecretsByName
  <2>1. quota[job["quota"].p].state = "deleting"
    BY <1>2, <1>f DEF deleteLocalConfigSecretsByName, At, Cleaning, CleanupInv
  <2>2. p # job["quota"].p
    BY <2>1
  <2> QED BY <1>2, <2>2 DEF deleteLocalConfigSecretsByName, TypeInv, SecretTypes
<1>3. CASE LoseLocal
  BY <1>3, SecretsAssumption DEF LoseLocal, Happens, Absent, Blank, TypeInv, SecretTypes
<1>4. CASE UNCHANGED local
  BY <1>4
<1>5. CASE UNCHANGED vars
  BY <1>5 DEF vars, secretVars
<1> QED BY <1>1, <1>2, <1>3, <1>4, <1>5, Writers

\* As long as the sweeper does nothing, a project that lives keeps its Secret:
\* no finalizer's cleanup, delayed, retried or started from an old cached copy,
\* takes it away.
THEOREM CleanupKeepsSecrets == Spec /\ [][~ Sweeping]_vars => LiveKeepsSecret
<1> DEFINE Kept == \A p \in Project :
                      quota[p].state = "live" /\ local[p] # Absent /\ local'[p] = Absent =>
                         "loss" \in left \ left'
<1>1. TypeInv /\ CleanupInv /\ [Next]_vars /\ [~ Sweeping]_vars => [Kept]_vars
  BY WhoTakesTheSecret
<1> QED BY <1>1, Typing, CleanupOfDeletedOnly, PTL DEF Spec, LiveKeepsSecret

-----------------------------------------------------------------------------

\* Nobody creates a quota.
NoCreation == \A p \in Project : ~ CreateQuota(p)

\* The sweeper knows of every project that lives.
SweeperKnows ==
    \A p \in Project : quota[p].state = "live" =>
       quotaSeen[p].state # "none" /\ (sweep.at = "local" => p \in sweep.active)

\* As long as no quota is created, the sweeper's list of active projects is
\* complete.
LEMMA NextSweeperKnows ==
  ASSUME TypeInv, SweeperKnows, [Next]_vars, [NoCreation]_vars
  PROVE  SweeperKnows'
<1>0. CASE UNCHANGED vars
  BY <1>0 DEF vars, secretVars, ctlVars, SweeperKnows
<1> SUFFICES ASSUME Next, NoCreation
             PROVE  SweeperKnows'
  BY <1>0
<1>f. job["quota"].p \in Project
  BY DEF TypeInv, CtlTypes, Worker, Job
<1>1. ASSUME NEW p \in Project, quota'[p].state = "live"
      PROVE  quota[p].state = "live"
  <2>1. CASE EnsureFinalizer
    BY <1>1, <1>f, <2>1 DEF EnsureFinalizer, TypeInv, QuotaTypes, Quota
  <2>2. CASE releaseCleanupFinalizer
    <3> DEFINE q == job["quota"].p
    <3>1. CASE quota' = [quota EXCEPT ![q] = NoQuota]
      <4>1. quota'[q].state = "none" /\ (p # q => quota'[p] = quota[p])
        BY <1>f, <3>1 DEF NoQuota, TypeInv, QuotaTypes
      <4> QED BY <1>1, <4>1
    <3>2. CASE UNCHANGED quota
      BY <1>1, <3>2
    <3> QED BY <2>2, <3>1, <3>2 DEF releaseCleanupFinalizer
  <2>3. ASSUME NEW q \in Project, DeleteQuota(q)
        PROVE  quota[p].state = "live"
    <3>1. CASE p = q
      BY <2>3, <3>1 DEF DeleteQuota
    <3>2. CASE p # q
      BY <1>1, <2>3, <3>2 DEF DeleteQuota, TypeInv, QuotaTypes
    <3> QED BY <3>1, <3>2
  <2>4. CASE UNCHANGED quota
    BY <1>1, <2>4
  <2> QED BY <2>1, <2>2, <2>3, <2>4, Writers DEF NoCreation
<1>2. ASSUME NEW p \in Project
      PROVE  quotaSeen'[p] = quotaSeen[p] \/ quotaSeen'[p] = quota[p]
  <2>1. ASSUME NEW q \in Project, QuotaSync(q)
        PROVE  quotaSeen'[p] = quotaSeen[p] \/ quotaSeen'[p] = quota[p]
    BY <2>1 DEF QuotaSync, TypeInv, QuotaTypes
  <2> QED BY <2>1, Writers DEF Restart
<1>3. \/ sweep' = sweep
      \/ sweep'.at # "local"
      \/ sweep'.active = {p \in Project : quotaSeen[p].state # "none"} /\ UNCHANGED quotaSeen
  <2>1. CASE sweepOrphanedConfigSecrets
    BY <2>1 DEF sweepOrphanedConfigSecrets, NoSweep, secretVars
  <2>2. CASE deleteOrphanedLocalConfigSecrets
    BY <2>2 DEF deleteOrphanedLocalConfigSecrets, TypeInv, CtlTypes
  <2>3. CASE SweepDownstream \/ Restart
    BY <2>3 DEF SweepDownstream, Restart, NoSweep
  <2> QED BY <2>1, <2>2, <2>3, Writers DEF Sweeping, Sweeper
<1> QED BY <1>1, <1>2, <1>3 DEF SweeperKnows

\* As long as nobody creates a quota, the sweeper does not take the Secret of a
\* project that lives either: the two together are what it takes to lose one.
THEOREM SweeperSparesKnown == Spec /\ [][NoCreation]_vars => LiveKeepsSecret
<1> DEFINE Kept == \A p \in Project :
                      quota[p].state = "live" /\ local[p] # Absent /\ local'[p] = Absent =>
                         "loss" \in left \ left'
<1>1. Init => SweeperKnows
  BY DEF Init, SweeperKnows, NoSweep
<1>2. TypeInv /\ CleanupInv /\ SweeperKnows /\ [Next]_vars => [Kept]_vars
  <2> SUFFICES ASSUME TypeInv, CleanupInv, SweeperKnows, [Next]_vars, NEW p \in Project,
                      quota[p].state = "live", local[p] # Absent, local'[p] = Absent
               PROVE  "loss" \in left \ left'
    OBVIOUS
  <2>1. ~ deleteOrphanedLocalConfigSecrets
    BY DEF deleteOrphanedLocalConfigSecrets, SweeperKnows
  <2> QED BY <2>1, WhoTakesTheSecret
<1>3. TypeInv /\ SweeperKnows /\ [Next]_vars /\ [NoCreation]_vars => SweeperKnows'
  BY NextSweeperKnows
<1> QED BY <1>1, <1>2, <1>3, Typing, CleanupOfDeletedOnly, PTL DEF Spec, LiveKeepsSecret

=============================================================================
