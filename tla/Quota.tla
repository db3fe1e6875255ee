------------------------------- MODULE Quota -------------------------------
(***************************************************************************)
(* The quota of one project on one pool: the admission webhook that guards *)
(* it, the FloatingIPProjectQuota controller that rebuilds its status and  *)
(* cascades its deletion, and the writes of the FloatingIP controller to   *)
(* the same status.                                                        *)
(*                                                                         *)
(* An admitted CREATE holds a slot before its object is persisted, so the  *)
(* webhook keeps a reservation for quotaReservationTTL and pairs the       *)
(* reservations off against the objects that appeared since.  Time is a    *)
(* Tick; reservations and objects carry their age.                         *)
(*                                                                         *)
(* Every FloatingIP is of the one project and pool, has a name that is not *)
(* used again, and is given an address of its own: an address is the name  *)
(* of its FloatingIP.  One webhook process, which does not restart.        *)
(***************************************************************************)
EXTENDS Naturals, FiniteSets

CONSTANTS FIP,         \* FloatingIP names
          None,
          TTL,         \* quotaReservationTTL, in ticks
          Latency,     \* ticks an admitted object takes to persist
          ListTimeout, \* ipClaimListTimeout, in ticks
          Cases        \* names in use, quota, manager up or down, whether
                       \* time passes, and bounds

\* What is bounded: CREATE requests, deletions by a user, grants that fail for
\* lack of an address, API calls that fail, restarts of the manager, deletions
\* of the quota.
Bounded == {"submit", "delete", "fail", "fault", "crash", "retire"}

ASSUME QuotaAssumption ==
    /\ IsFiniteSet(FIP) /\ None \notin FIP
    /\ TTL \in Nat /\ Latency \in Nat /\ ListTimeout \in Nat /\ Latency + ListTimeout < TTL
    /\ Cases \subseteq [names : SUBSET FIP, limit : Nat, up : BOOLEAN, time : BOOLEAN, bound : [Bounded -> Nat]]

VARIABLES fip,      \* FloatingIPs, from the CREATE request on
          age,      \* ticks since the API server stamped a FloatingIP
          adm,      \* the admission that holds the project's lock
          resv,     \* quotaReservations: age of the one taken for a FloatingIP
          fcache,   \* FloatingIPs in the manager's informer
          quota,    \* the FloatingIPProjectQuota in the API
          qcache,   \* the FloatingIPProjectQuota in the manager's informer
          job,      \* what the FloatingIP controller is in the middle of
          fqueue,   \* FloatingIP keys queued
          qqueue,   \* the quota's key is queued
          case,     \* the case that is tried
          revived,  \* history: FloatingIPs granted after an error
          spent     \* what is used of the bounds

hookVars  == <<age, adm, resv>>
queues    == <<fqueue, qqueue>>
caches    == <<fcache, qcache>>
vars == <<fip, hookVars, quota, caches, job, queues, case, revived, spent>>

-----------------------------------------------------------------------------

\* The ages that are told apart.
Age == 0..TTL
Older(a) == IF a < TTL THEN a + 1 ELSE TTL

FIPObj == [st  : {"none", "submitted", "admitted", "pending", "error", "granted", "gone"},
           del : BOOLEAN,
           fin : BOOLEAN]
Unseen == [st |-> "none", del |-> FALSE, fin |-> FALSE]

\* Status.FloatingIPs[pool]: whether there is an entry, Allocated, and Used.
Status   == [init : BOOLEAN, alloc : SUBSET FIP, used : Nat]
NoStatus == [init |-> FALSE, alloc |-> {}, used |-> 0]

QuotaObj == [live : BOOLEAN, del : BOOLEAN, fin : BOOLEAN, status : Status]
NoQuota  == [live |-> FALSE, del |-> FALSE, fin |-> FALSE, status |-> NoStatus]

Admission == [key : FIP \cup {None}, seen : SUBSET FIP, age : Nat]
NoAdm     == [key |-> None, seen |-> {}, age |-> 0]

Persisted(o) == o.st \in {"pending", "error", "granted"}
Stored(f)  == IF Persisted(fip[f]) THEN fip[f] ELSE Unseen
Occupying  == {f \in FIP : fip[f].st \in {"pending", "granted"}}
Admitted   == {f \in FIP : fip[f].st = "admitted"}

\* spec.floatingIPQuota of the pool.
Limit == case.limit

Spend(what) == spent[what] < case.bound[what] /\ spent' = [spent EXCEPT ![what] = @ + 1]

-----------------------------------------------------------------------------
(* Admission webhook                                                       *)

\* A CREATE reaches the API server, which stamps the object.
Submit(f) ==
    /\ f \in case.names /\ fip[f].st = "none"
    /\ Spend("submit")
    /\ fip' = [fip EXCEPT ![f].st = "submitted"]
    /\ age' = [age EXCEPT ![f] = 0]
    /\ UNCHANGED <<adm, resv, quota, caches, job, queues, revived>>

\* lockQuotaForAdmission, the quota and the list.  Without a quota the request
\* is refused.
ListFloatingIPs(f) ==
    /\ fip[f].st = "submitted" /\ adm.key = None
    /\ \/ /\ quota.live
          /\ adm' = [key |-> f, seen |-> Occupying, age |-> 0]
          /\ UNCHANGED fip
       \/ /\ ~ quota.live
          /\ fip' = [fip EXCEPT ![f] = Unseen]
          /\ UNCHANGED adm
    /\ UNCHANGED <<age, resv, quota, caches, job, queues, revived, spent>>

activeQuotaReservations == {f \in FIP : resv[f] < TTL}

slotsTakenUnaged(listed) ==
    LET reserved == Cardinality(activeQuotaReservations)
        recent   == Cardinality(listed)
    IN  Cardinality(listed) + (IF reserved > recent THEN reserved - recent ELSE 0)

\* Every slot that is taken, and the reservations no recent object stands for.
slotsTaken(listed) ==
    LET reserved == Cardinality(activeQuotaReservations)
        recent   == Cardinality({f \in listed : age[f] < TTL})
    IN  Cardinality(listed) + (IF reserved > recent THEN reserved - recent ELSE 0)

liveQuotaUsage == slotsTaken(adm.seen)

takeQuotaReservation(f) == resv' = [resv EXCEPT ![f] = 0]

\* The decision of validateFloatingIP, and unlockQuota.
Decide(f) ==
    /\ adm.key = f
    /\ adm' = NoAdm
    /\ \/ /\ liveQuotaUsage < Limit
          /\ takeQuotaReservation(f)
          /\ fip' = [fip EXCEPT ![f].st = "admitted"]
       \/ /\ liveQuotaUsage >= Limit
          /\ fip' = [fip EXCEPT ![f] = Unseen]
          /\ UNCHANGED resv
    /\ UNCHANGED <<age, quota, caches, job, queues, revived, spent>>

\* The API server persists what was admitted, or loses it.
Persist(f) ==
    /\ fip[f].st = "admitted"
    /\ \/ fip' = [fip EXCEPT ![f].st = "pending"] /\ UNCHANGED spent
       \/ fip' = [fip EXCEPT ![f].st = "gone"] /\ Spend("fault")
    /\ UNCHANGED <<hookVars, quota, caches, job, queues, revived>>

\* A list that takes longer is given up; the TTL covers that and the time an
\* object takes to persist.
Tick ==
    /\ case.time
    /\ adm.key # None => adm.age < ListTimeout
    /\ \A f \in Admitted : resv[f] < Latency
    /\ age' = [f \in FIP |-> Older(age[f])]
    /\ resv' = [f \in FIP |-> Older(resv[f])]
    /\ adm' = IF adm.key = None THEN adm ELSE [adm EXCEPT !.age = @ + 1]
    /\ UNCHANGED <<fip, quota, caches, job, queues, revived, spent>>

-----------------------------------------------------------------------------
(* FloatingIP controller: what it does to the quota                        *)

Busy(f) == job[f] # "idle"

Dequeue(f) == f \in fqueue /\ ~ Busy(f) /\ fqueue' = fqueue \ {f}

AddFinalizer(f) ==
    /\ Dequeue(f)
    /\ Persisted(fcache[f]) /\ ~ fcache[f].del /\ ~ fcache[f].fin
    /\ fip' = IF Persisted(fip[f]) THEN [fip EXCEPT ![f].fin = TRUE] ELSE fip
    /\ UNCHANGED <<hookVars, quota, caches, job, qqueue, revived, spent>>

\* The object and its copy call for an allocation, and the quota is known.
Allocating(f) ==
    /\ fcache[f].st \in {"pending", "error"} /\ fcache[f].fin /\ ~ fcache[f].del
    /\ qcache.live

\* The update of the spec with the address.  It passes the webhook, which lets
\* a slot that is held through and checks one that an error gave up, without a
\* reservation; a copy that is stale makes it fail.
UpdateSpec(f) ==
    /\ Allocating(f)
    /\ \/ /\ Dequeue(f)
          /\ fip[f] = fcache[f]
          /\ fip[f].st = "error" => quota.live /\ adm.key = None /\ slotsTaken(Occupying) < Limit
          /\ job' = [job EXCEPT ![f] = "grant"]
       \/ /\ f \in fqueue /\ ~ Busy(f)
          /\ fip[f] # fcache[f]
          /\ UNCHANGED <<fqueue, job>>
    /\ UNCHANGED <<fip, hookVars, quota, caches, qqueue, revived, spent>>

\* No address is free: Error, and the key comes back.
GrantFails(f) ==
    /\ Allocating(f) /\ f \in fqueue /\ ~ Busy(f)
    /\ fip[f].st = "pending"
    /\ Spend("fail")
    /\ fip' = [fip EXCEPT ![f].st = "error"]
    /\ UNCHANGED <<hookVars, quota, caches, job, queues, revived>>

\* A quota that is not in the lister ends the reconcile.
GivesUp(f) ==
    /\ Dequeue(f)
    /\ Persisted(fcache[f]) /\ fcache[f].fin /\ ~ fcache[f].del
    /\ ~ qcache.live
    /\ UNCHANGED <<fip, hookVars, quota, caches, job, qqueue, revived, spent>>

\* The status with the address.
Grant(f) ==
    /\ job[f] = "grant"
    /\ \/ /\ Persisted(fip[f])
          /\ fip' = [fip EXCEPT ![f].st = "granted"]
          /\ revived' = IF fip[f].st = "error" THEN revived \cup {f} ELSE revived
          /\ job' = [job EXCEPT ![f] = "record"]
          /\ UNCHANGED <<fqueue, spent>>
       \/ /\ Spend("fault")
          /\ job' = [job EXCEPT ![f] = "idle"]
          /\ fqueue' = fqueue \cup {f}
          /\ UNCHANGED <<fip, revived>>
    /\ UNCHANGED <<hookVars, quota, caches, qqueue>>

\* ... and the quota's status, read and written again on every conflict.
RecordAllocation(f) ==
    /\ job[f] = "record"
    /\ \/ /\ quota.live
          /\ quota' = [quota EXCEPT !.status =
                [init  |-> TRUE,
                 alloc |-> @.alloc \cup {f},
                 used  |-> IF f \in @.alloc THEN @.used ELSE @.used + 1]]
          /\ UNCHANGED <<fqueue, spent>>
       \/ /\ \/ ~ quota.live /\ UNCHANGED spent
             \/ Spend("fault")
          /\ fqueue' = fqueue \cup {f}
          /\ UNCHANGED quota
    /\ job' = [job EXCEPT ![f] = "idle"]
    /\ UNCHANGED <<fip, hookVars, caches, qqueue, revived>>

relisted(s, f) == [s EXCEPT !.alloc = @ \cup {f}]

\* reconcile of an address that is granted: the quota's status in the lister
\* lacks it, or has it under another cluster.  It is written into a status that
\* has addresses (an empty map reads back as none), without counting it.
Reassert(f) ==
    /\ f \in fqueue /\ ~ Busy(f)
    /\ fcache[f].st = "granted" /\ ~ fcache[f].del /\ qcache.live
    /\ \/ /\ f \in qcache.status.alloc
          /\ Dequeue(f) /\ UNCHANGED quota
       \/ /\ quota.live
          /\ quota' = IF quota.status.alloc # {}
                      THEN [quota EXCEPT !.status = relisted(@, f)] ELSE quota
          /\ Dequeue(f)
       \/ ~ quota.live /\ UNCHANGED <<quota, fqueue>>
    /\ UNCHANGED <<fip, hookVars, caches, job, qqueue, revived, spent>>

decrementedUnclamped(n) == n - 1

\* Used never goes below zero.
decremented(n) == IF n > 0 THEN n - 1 ELSE n

without(s, f) == [s EXCEPT !.alloc = @ \ {f}, !.used = decremented(@)]

\* reconcileDelete: the quota's status first; one that is gone is no error.
Unrecord(f) ==
    /\ Dequeue(f)
    /\ Persisted(fcache[f]) /\ fcache[f].del
    /\ quota' = IF quota.live /\ fcache[f].st = "granted" /\ f \in quota.status.alloc
                THEN [quota EXCEPT !.status = without(@, f)]
                ELSE quota
    /\ job' = [job EXCEPT ![f] = "release"]
    /\ UNCHANGED <<fip, hookVars, caches, qqueue, revived, spent>>

\* ... then the address and the finalizer.
removeFinalizer(f) ==
    /\ job[f] = "release"
    /\ \/ /\ fip' = [fip EXCEPT ![f] = [st |-> "gone", del |-> FALSE, fin |-> FALSE]]
          /\ UNCHANGED <<fqueue, spent>>
       \/ Spend("fault") /\ fqueue' = fqueue \cup {f} /\ UNCHANGED fip
    /\ job' = [job EXCEPT ![f] = "idle"]
    /\ UNCHANGED <<hookVars, quota, caches, qqueue, revived>>

-----------------------------------------------------------------------------
(* FloatingIPProjectQuota controller                                       *)

\* The status rebuilt from the FloatingIPs in the cache.
rebuiltStatus ==
    LET mine == {f \in FIP : Persisted(fcache[f])}
        held == {f \in mine : fcache[f].st = "granted"}
    IN  [init |-> mine # {}, alloc |-> held, used |-> Cardinality(held)]

\* An Update or UpdateStatus of a copy from the cache fails on a conflict when
\* the object has changed since.
Fresh == qcache = quota

\* reflect.DeepEqual tells an empty map, which is what the rebuilt status has,
\* from none, which is what an empty map reads back as.
UpToDate == qcache.status = rebuiltStatus /\ rebuiltStatus.alloc # {}

\* syncHandler of a quota that stays.  The status is compared with the copy in
\* the cache; the update that adds the finalizer makes the one of the status
\* conflict.
syncHandler ==
    /\ qqueue /\ qcache.live /\ ~ qcache.del
    /\ \/ /\ qcache.fin /\ UpToDate
          /\ qqueue' = FALSE /\ UNCHANGED quota
       \/ /\ qcache.fin /\ ~ UpToDate /\ Fresh
          /\ quota' = [quota EXCEPT !.status = rebuiltStatus]
          /\ qqueue' = FALSE
       \/ /\ ~ qcache.fin /\ Fresh
          /\ quota' = [quota EXCEPT !.fin = TRUE]
          /\ qqueue' = ~ UpToDate
       \/ /\ ~ Fresh /\ ~ (qcache.fin /\ UpToDate)
          /\ UNCHANGED <<quota, qqueue>>
    /\ UNCHANGED <<fip, hookVars, caches, job, fqueue, revived, spent>>

syncGone ==
    /\ qqueue /\ ~ qcache.live
    /\ qqueue' = FALSE
    /\ UNCHANGED <<fip, hookVars, quota, caches, job, fqueue, revived, spent>>

\* A FloatingIP whose deletion is asked for stays until its finalizer goes.
Deleted(obj) == IF obj.fin THEN [obj EXCEPT !.del = TRUE] ELSE [Unseen EXCEPT !.st = "gone"]

\* handleFloatingIPProjectQuotaDelete: delete what the cache lists and come
\* back, or let the quota go.
Attached == {f \in FIP : Persisted(fcache[f])}
handleFloatingIPProjectQuotaDelete ==
    /\ qqueue /\ qcache.live /\ qcache.del
    /\ \/ /\ Attached # {}
          /\ fip' = [f \in FIP |-> IF f \in Attached /\ Persisted(fip[f]) THEN Deleted(fip[f]) ELSE fip[f]]
          /\ UNCHANGED <<quota, qqueue>>
       \/ /\ Attached = {}
          /\ quota' = IF quota.live /\ quota.fin THEN NoQuota ELSE quota
          /\ qqueue' = FALSE
          /\ UNCHANGED fip
    /\ UNCHANGED <<hookVars, caches, job, fqueue, revived, spent>>

-----------------------------------------------------------------------------
(* Informers, users and restarts                                           *)

enqueueNothing == qqueue' = qqueue

\* The quota is looked up in the lister.
enqueueQuotaForFloatingIP == qqueue' = (qqueue \/ qcache.live)

FIPEvent(f) ==
    /\ fcache[f] # Stored(f)
    /\ fcache' = [fcache EXCEPT ![f] = Stored(f)]
    /\ fqueue' = IF Persisted(Stored(f)) THEN fqueue \cup {f} ELSE fqueue
    /\ enqueueQuotaForFloatingIP
    /\ UNCHANGED <<fip, hookVars, quota, qcache, job, revived, spent>>

\* Nothing is enqueued for a deletion.
QuotaEvent ==
    /\ qcache # quota
    /\ qcache' = quota
    /\ qqueue' = (qqueue \/ quota.live)
    /\ UNCHANGED <<fip, hookVars, quota, fcache, job, fqueue, revived, spent>>

\* The key of a FloatingIP that the cache no longer has.
ForgetKey(f) ==
    /\ Dequeue(f) /\ ~ Persisted(fcache[f])
    /\ UNCHANGED <<fip, hookVars, quota, caches, job, qqueue, revived, spent>>

DeleteFIP(f) ==
    /\ Persisted(fip[f]) /\ ~ fip[f].del
    /\ Spend("delete")
    /\ fip' = [fip EXCEPT ![f] = Deleted(@)]
    /\ UNCHANGED <<hookVars, quota, caches, job, queues, revived>>

DeleteQuota ==
    /\ quota.live /\ ~ quota.del
    /\ Spend("retire")
    /\ quota' = IF quota.fin THEN [quota EXCEPT !.del = TRUE] ELSE NoQuota
    /\ UNCHANGED <<fip, hookVars, caches, job, queues, revived>>

\* The manager restarts: its informers list what is there.
Restart ==
    /\ case.up /\ Spend("crash")
    /\ job' = [f \in FIP |-> "idle"]
    /\ fcache' = [f \in FIP |-> Stored(f)]
    /\ qcache' = quota
    /\ fqueue' = {f \in FIP : Persisted(Stored(f))}
    /\ qqueue' = quota.live
    /\ UNCHANGED <<fip, hookVars, quota, revived>>

-----------------------------------------------------------------------------

Init ==
    /\ fip = [f \in FIP |-> Unseen]
    /\ age = [f \in FIP |-> 0]
    /\ resv = [f \in FIP |-> TTL]
    /\ adm = NoAdm
    /\ fcache = fip
    /\ quota = [NoQuota EXCEPT !.live = TRUE]
    /\ qcache = quota
    /\ job = [f \in FIP |-> "idle"]
    /\ fqueue = {}
    /\ qqueue = TRUE
    /\ revived = {}
    /\ case \in Cases
    /\ spent = [b \in Bounded |-> 0]

Webhook(f) == Submit(f) \/ ListFloatingIPs(f) \/ Decide(f) \/ Persist(f)
FIPWorker(f) ==
    \/ AddFinalizer(f) \/ UpdateSpec(f) \/ GrantFails(f) \/ GivesUp(f) \/ Grant(f) \/ RecordAllocation(f) \/ Reassert(f)
    \/ Unrecord(f) \/ removeFinalizer(f) \/ ForgetKey(f)
QuotaWorker == syncHandler \/ syncGone \/ handleFloatingIPProjectQuotaDelete

Next ==
    /\ \/ \E f \in FIP : Webhook(f) \/ DeleteFIP(f) \/ (case.up /\ FIPWorker(f)) \/ (case.up /\ FIPEvent(f))
       \/ Tick \/ (case.up /\ QuotaWorker) \/ (case.up /\ QuotaEvent) \/ DeleteQuota \/ Restart
    /\ UNCHANGED case

Spec == Init /\ [][Next]_vars

-----------------------------------------------------------------------------

\* The counters stay numbers: used is never decremented below zero by the
\* deletions that find an address listed and not counted.
TypeOK ==
    /\ fip \in [FIP -> FIPObj]
    /\ age \in [FIP -> Age]
    /\ resv \in [FIP -> Age]
    /\ adm \in Admission
    /\ fcache \in [FIP -> FIPObj]
    /\ quota \in QuotaObj /\ qcache \in QuotaObj
    /\ job \in [FIP -> {"idle", "grant", "record", "release"}]
    /\ fqueue \subseteq FIP /\ qqueue \in BOOLEAN
    /\ revived \subseteq FIP

\* The project never holds, or was promised, more slots than its quota: creates
\* that are admitted while others persist, are granted, go or expire see each
\* other exactly.  Only a FloatingIP that recovers from an error, and was not
\* counted meanwhile, comes on top.
QuotaRespected == Cardinality((Occupying \cup Admitted) \ revived) <= Limit

\* What the comments of validateFloatingIP say, without the exception.
NeverOverQuota == Cardinality(Occupying \cup Admitted) <= Limit

AtRest ==
    /\ fqueue = {} /\ ~ qqueue
    /\ \A f \in FIP : ~ Busy(f) /\ fcache[f] = Stored(f)
    /\ qcache = quota

\* At rest the status of the quota lists exactly the granted FloatingIPs and
\* counts them, although two controllers write it, one of them from a cache.
SettledStatus ==
    AtRest /\ quota.live /\ ~ quota.del =>
        /\ quota.status.alloc = {f \in FIP : fip[f].st = "granted"}
        /\ quota.status.used = Cardinality(quota.status.alloc)

\* A quota that is being deleted takes its FloatingIPs along: once it is gone
\* none of the project's is left.
CascadeComplete == ~ quota.live => \A f \in FIP : ~ Persisted(fip[f])
=============================================================================
