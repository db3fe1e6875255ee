----------------------------- MODULE QuotaProofs -----------------------------
(***************************************************************************)
(* Proofs about the quota, for any set of FloatingIPs, any limit, any time *)
(* to live of a reservation that covers two latencies, and any number of   *)
(* requests, deletions, failures and restarts.                             *)
(*                                                                         *)
(* That the status of the quota is right at rest (StatusSettles) rests on  *)
(* an invariant of its own, RInv, at the end.                              *)
(***************************************************************************)
EXTENDS Quota, FiniteSetTheorems, TLAPS

-----------------------------------------------------------------------------
(* The inductive invariant                                                 *)

\* f has been persisted, or lost on the way.
Past(f) == fip[f].st \notin {"none", "submitted", "admitted"}

\* A reservation is taken after the object was stamped.
Stamped == \A f \in FIP : fip[f].st \notin {"none", "submitted"} => resv[f] <= age[f]

\* The controllers work on what has been persisted.
Worked == \A f \in FIP : Persisted(fcache[f]) \/ Busy(f) => Past(f)

\* What was admitted is persisted in time.
Waiting == \A f \in Admitted : resv[f] <= Latency

\* What the admission under way has not seen was persisted while it waited for
\* its list, so its reservation is young.
Locked ==
    adm.key # None =>
        /\ fip[adm.key].st = "submitted"
        /\ adm.age <= ListTimeout
        /\ \A f \in adm.seen : Past(f)
        /\ \A f \in Occupying \ (adm.seen \cup revived) : resv[f] <= Latency + adm.age

QInv == TypeOK /\ case \in Cases /\ Stamped /\ Worked /\ Waiting /\ Locked /\ QuotaRespected

-----------------------------------------------------------------------------
(* Kinds of steps                                                          *)

\* What controllers and users do to objects that have been persisted.
Passes(f) ==
    \/ fip'[f].st = fip[f].st
    \/ Past(f) /\ fip'[f].st \in {"error", "gone"}
    \/ Past(f) /\ fip'[f].st = "granted" /\ (fip[f].st = "pending" \/ f \in revived')
Later ==
    /\ UNCHANGED <<age, adm, resv>>
    /\ \A f \in FIP : Passes(f)
    /\ revived \subseteq revived'

\* The copies and the jobs follow the objects.
Follows ==
    /\ \A f \in FIP : fcache'[f] = fcache[f] \/ fcache'[f] = Stored(f)
    /\ \A f \in FIP : job'[f] # "idle" => job[f] # "idle" \/ Persisted(fcache[f])

\* The shape of the objects, of their copies and of the jobs.
Shape ==
    /\ fip \in [FIP -> FIPObj] /\ fcache \in [FIP -> FIPObj]
    /\ job \in [FIP -> {"idle", "grant", "record", "release"}]
    /\ fqueue \subseteq FIP /\ qqueue \in BOOLEAN /\ revived \subseteq FIP

\* A write of the state of one object.
LEMMA PutState ==
  ASSUME fip \in [FIP -> FIPObj], NEW f \in FIP,
         NEW st \in {"none", "submitted", "admitted", "pending", "error", "granted", "gone"},
         fip' = [fip EXCEPT ![f].st = st]
  PROVE  /\ fip' \in [FIP -> FIPObj] /\ fip'[f].st = st
         /\ \A g \in FIP \ {f} : fip'[g] = fip[g]
<1>1. fip[f] \in FIPObj
  OBVIOUS
<1> DEFINE obj == [fip[f] EXCEPT !.st = st]
<1>2. obj \in FIPObj /\ obj.st = st
  BY <1>1 DEF FIPObj
<1>3. fip' = [fip EXCEPT ![f] = obj]
  OBVIOUS
<1> HIDE DEF obj
<1> QED BY <1>2, <1>3

\* A deletion of an object that was persisted.
LEMMA DeletedObject ==
  ASSUME NEW obj \in FIPObj
  PROVE  Deleted(obj) \in FIPObj /\ (Deleted(obj).st = obj.st \/ Deleted(obj).st = "gone")
<1>1. [obj EXCEPT !.del = TRUE] \in FIPObj /\ [obj EXCEPT !.del = TRUE].st = obj.st
  BY DEF FIPObj
<1>2. [Unseen EXCEPT !.st = "gone"] \in FIPObj /\ [Unseen EXCEPT !.st = "gone"].st = "gone"
  BY DEF FIPObj, Unseen
<1> QED BY <1>1, <1>2 DEF Deleted

\* The FloatingIP controller's part of the state.
LEMMA FIPWorkerSteps ==
  ASSUME QInv, NEW f \in FIP, FIPWorker(f)
  PROVE  Later /\ Follows /\ Shape'
<1>t. Shape
  BY DEF QInv, TypeOK, Shape
<1>s. UNCHANGED fip /\ UNCHANGED <<age, adm, resv, revived>> => Later
  BY DEF Later, Passes
<1>f. UNCHANGED <<fcache, job>> => Follows
  BY DEF Follows
<1>j. ASSUME NEW j \in {"idle", "grant", "record", "release"}, job' = [job EXCEPT ![f] = j], UNCHANGED fcache,
             j # "idle" => job[f] # "idle" \/ Persisted(fcache[f])
      PROVE  Follows /\ job' \in [FIP -> {"idle", "grant", "record", "release"}]
  BY <1>j, <1>t DEF Follows, Shape
<1>1. CASE AddFinalizer(f)
  <2>1. /\ UNCHANGED <<age, adm, resv, revived, fcache, job, qqueue>> /\ fqueue' = fqueue \ {f}
        /\ fip' \in {fip, [fip EXCEPT ![f].fin = TRUE]}
    BY <1>1 DEF AddFinalizer, Dequeue, hookVars, caches
  <2>2. fip' \in [FIP -> FIPObj] /\ \A g \in FIP : fip'[g].st = fip[g].st
    <3> DEFINE obj == [fip[f] EXCEPT !.fin = TRUE]
    <3>1. obj \in FIPObj /\ obj.st = fip[f].st
      BY <1>t DEF Shape, FIPObj
    <3>2. fip' \in {fip, [fip EXCEPT ![f] = obj]}
      BY <2>1
    <3> HIDE DEF obj
    <3> QED BY <1>t, <3>1, <3>2 DEF Shape
  <2>3. Later
    BY <2>1, <2>2 DEF Later, Passes
  <2> QED BY <1>f, <1>t, <2>1, <2>2, <2>3 DEF Shape
<1>2. CASE UpdateSpec(f)
  <2>1. /\ UNCHANGED <<fip, age, adm, resv, revived, fcache, qqueue>> /\ fqueue' \subseteq fqueue
        /\ UNCHANGED job \/ job' = [job EXCEPT ![f] = "grant"]
        /\ Persisted(fcache[f])
    BY <1>2 DEF UpdateSpec, Allocating, Persisted, Dequeue, hookVars, caches
  <2> QED BY <1>f, <1>j, <1>s, <1>t, <2>1 DEF Shape
<1>3. CASE GrantFails(f)
  <2>1. /\ UNCHANGED <<age, adm, resv, revived, fcache, job, fqueue, qqueue>>
        /\ fip[f].st = "pending" /\ fip' = [fip EXCEPT ![f].st = "error"]
    BY <1>3 DEF GrantFails, hookVars, caches, queues
  <2>2. fip' \in [FIP -> FIPObj] /\ fip'[f].st = "error" /\ \A g \in FIP \ {f} : fip'[g] = fip[g]
    BY <1>t, <2>1, PutState DEF Shape
  <2>3. Later
    BY <2>1, <2>2 DEF Later, Passes, Past
  <2> QED BY <1>f, <1>t, <2>1, <2>2, <2>3 DEF Shape
<1>4. CASE GivesUp(f) \/ ForgetKey(f) \/ Reassert(f)
  <2>1. UNCHANGED <<fip, age, adm, resv, revived, fcache, job, qqueue>> /\ fqueue' \subseteq fqueue
    BY <1>4 DEF GivesUp, ForgetKey, Reassert, Dequeue, hookVars, caches
  <2> QED BY <1>f, <1>s, <1>t, <2>1 DEF Shape
<1>5. CASE Grant(f)
  <2>1. /\ UNCHANGED <<age, adm, resv, fcache, qqueue>> /\ fqueue' \in {fqueue, fqueue \cup {f}}
        /\ job[f] = "grant"
        /\ \E j \in {"idle", "record"} : job' = [job EXCEPT ![f] = j]
    BY <1>5 DEF Grant, hookVars, caches
  <2>2. Follows /\ job' \in [FIP -> {"idle", "grant", "record", "release"}]
    BY <1>j, <2>1
  <2>3. CASE UNCHANGED <<fip, revived>>
    BY <1>s, <1>t, <2>1, <2>2, <2>3 DEF Shape
  <2>4. CASE /\ Persisted(fip[f])
             /\ fip' = [fip EXCEPT ![f].st = "granted"]
             /\ revived' = IF fip[f].st = "error" THEN revived \cup {f} ELSE revived
    <3>1. fip' \in [FIP -> FIPObj] /\ fip'[f].st = "granted" /\ \A g \in FIP \ {f} : fip'[g] = fip[g]
      BY <1>t, <2>4, PutState DEF Shape
    <3>2. Later
      BY <2>1, <2>4, <3>1 DEF Later, Passes, Past, Persisted
    <3> QED BY <1>t, <2>1, <2>2, <2>4, <3>1, <3>2 DEF Shape
  <2> QED BY <1>5, <2>3, <2>4 DEF Grant
<1>6. CASE RecordAllocation(f)
  <2>1. /\ UNCHANGED <<fip, age, adm, resv, revived, fcache, qqueue>> /\ fqueue' \in {fqueue, fqueue \cup {f}}
        /\ job' = [job EXCEPT ![f] = "idle"]
    BY <1>6 DEF RecordAllocation, hookVars, caches
  <2> QED BY <1>j, <1>s, <1>t, <2>1 DEF Shape
<1>7. CASE Unrecord(f)
  <2>1. /\ UNCHANGED <<fip, age, adm, resv, revived, fcache, qqueue>> /\ fqueue' \subseteq fqueue
        /\ Persisted(fcache[f]) /\ job' = [job EXCEPT ![f] = "release"]
    BY <1>7 DEF Unrecord, Dequeue, hookVars, caches
  <2> QED BY <1>j, <1>s, <1>t, <2>1 DEF Shape
<1>8. CASE removeFinalizer(f)
  <2> DEFINE obj == [st |-> "gone", del |-> FALSE, fin |-> FALSE]
  <2>1. /\ UNCHANGED <<age, adm, resv, revived, fcache, qqueue>> /\ fqueue' \in {fqueue, fqueue \cup {f}}
        /\ job[f] = "release" /\ job' = [job EXCEPT ![f] = "idle"]
        /\ fip' \in {fip, [fip EXCEPT ![f] = obj]}
    BY <1>8 DEF removeFinalizer, hookVars, caches
  <2>2. obj \in FIPObj /\ obj.st = "gone"
    BY DEF FIPObj
  <2>3. Past(f)
    BY <2>1 DEF QInv, Worked, Busy
  <2> HIDE DEF obj
  <2>4. fip' \in [FIP -> FIPObj] /\ (fip'[f] = fip[f] \/ fip'[f].st = "gone") /\ \A g \in FIP \ {f} : fip'[g] = fip[g]
    BY <1>t, <2>1, <2>2 DEF Shape
  <2>5. Later
    BY <2>1, <2>3, <2>4 DEF Later, Passes
  <2> QED BY <1>j, <1>t, <2>1, <2>4, <2>5 DEF Shape
<1> QED BY <1>1, <1>2, <1>3, <1>4, <1>5, <1>6, <1>7, <1>8 DEF FIPWorker

\* The quota controller, the informers, the users and a restart.
LEMMA OtherSteps ==
  ASSUME QInv,
         \/ \E f \in FIP : DeleteFIP(f) \/ FIPEvent(f)
         \/ QuotaWorker \/ QuotaEvent \/ DeleteQuota \/ Restart
  PROVE  Later /\ Follows /\ Shape'
<1>t. Shape /\ quota.live \in BOOLEAN /\ qcache.live \in BOOLEAN
  BY DEF QInv, TypeOK, Shape, QuotaObj
<1>s. UNCHANGED fip /\ UNCHANGED <<age, adm, resv, revived>> => Later
  BY DEF Later, Passes
<1>f. UNCHANGED <<fcache, job>> => Follows
  BY DEF Follows
<1>o. Unseen \in FIPObj /\ \A f \in FIP : Stored(f) \in FIPObj
  BY <1>t DEF Shape, FIPObj, Unseen, Stored
<1>1. ASSUME NEW f \in FIP, DeleteFIP(f)
      PROVE  Later /\ Follows /\ Shape'
  <2>1. /\ UNCHANGED <<age, adm, resv, revived, fcache, job, fqueue, qqueue>>
        /\ Persisted(fip[f]) /\ fip' = [fip EXCEPT ![f] = Deleted(fip[f])]
    BY <1>1 DEF DeleteFIP, hookVars, caches, queues
  <2>2. Deleted(fip[f]) \in FIPObj /\ (Deleted(fip[f]).st = fip[f].st \/ Deleted(fip[f]).st = "gone")
    BY <1>t, DeletedObject DEF Shape
  <2>3. fip' \in [FIP -> FIPObj] /\ fip'[f] = Deleted(fip[f]) /\ \A g \in FIP \ {f} : fip'[g] = fip[g]
    BY <1>t, <2>1, <2>2 DEF Shape
  <2>4. Later
    BY <2>1, <2>2, <2>3 DEF Later, Passes, Past, Persisted
  <2> QED BY <1>f, <1>t, <2>1, <2>3, <2>4 DEF Shape
<1>2. ASSUME NEW f \in FIP, FIPEvent(f)
      PROVE  Later /\ Follows /\ Shape'
  <2>1. /\ UNCHANGED <<fip, age, adm, resv, revived, job>> /\ fqueue' \in {fqueue, fqueue \cup {f}}
        /\ fcache' = [fcache EXCEPT ![f] = Stored(f)] /\ qqueue' = (qqueue \/ qcache.live)
    BY <1>2 DEF FIPEvent, enqueueQuotaForFloatingIP, hookVars
  <2>2. fcache' \in [FIP -> FIPObj] /\ qqueue' \in BOOLEAN
    BY <1>o, <1>t, <2>1 DEF Shape
  <2>3. Follows
    BY <1>t, <2>1 DEF Follows, Shape
  <2> QED BY <1>s, <1>t, <2>1, <2>2, <2>3 DEF Shape
<1>3. CASE syncHandler \/ syncGone
  <2>1. UNCHANGED <<fip, age, adm, resv, revived, fcache, job, fqueue>> /\ qqueue' \in BOOLEAN
    BY <1>3, <1>t DEF syncHandler, syncGone, hookVars, caches, Shape
  <2> QED BY <1>f, <1>s, <1>t, <2>1 DEF Shape
<1>4. CASE handleFloatingIPProjectQuotaDelete
  <2>1. UNCHANGED <<age, adm, resv, revived, fcache, job, fqueue>> /\ qqueue' \in BOOLEAN
    BY <1>4, <1>t DEF handleFloatingIPProjectQuotaDelete, hookVars, caches, Shape
  <2>2. CASE UNCHANGED fip
    BY <1>f, <1>s, <1>t, <2>1, <2>2 DEF Shape
  <2>3. CASE fip' = [f \in FIP |-> IF f \in Attached /\ Persisted(fip[f]) THEN Deleted(fip[f]) ELSE fip[f]]
    <3>1. \A f \in FIP : Deleted(fip[f]) \in FIPObj /\ (Deleted(fip[f]).st = fip[f].st \/ Deleted(fip[f]).st = "gone")
      BY <1>t, DeletedObject DEF Shape
    <3>2. /\ fip' \in [FIP -> FIPObj]
          /\ \A f \in FIP : fip'[f] = fip[f] \/ (Persisted(fip[f]) /\ fip'[f] = Deleted(fip[f]))
      BY <1>t, <2>3, <3>1 DEF Shape
    <3>3. Later
      BY <2>1, <3>1, <3>2 DEF Later, Passes, Past, Persisted
    <3> QED BY <1>f, <1>t, <2>1, <3>2, <3>3 DEF Shape
  <2> QED BY <1>4, <2>2, <2>3 DEF handleFloatingIPProjectQuotaDelete
<1>5. CASE QuotaEvent \/ DeleteQuota
  <2>1. UNCHANGED <<fip, age, adm, resv, revived, fcache, job, fqueue>> /\ qqueue' \in BOOLEAN
    BY <1>5, <1>t DEF QuotaEvent, DeleteQuota, hookVars, caches, queues, Shape
  <2> QED BY <1>f, <1>s, <1>t, <2>1 DEF Shape
<1>6. CASE Restart
  <2>1. /\ UNCHANGED <<fip, age, adm, resv, revived>> /\ fqueue' \subseteq FIP /\ qqueue' \in BOOLEAN
        /\ job' = [f \in FIP |-> "idle"] /\ fcache' = [f \in FIP |-> Stored(f)]
    BY <1>6, <1>t DEF Restart, hookVars
  <2>2. Follows /\ fcache' \in [FIP -> FIPObj]
    BY <1>o, <2>1 DEF Follows
  <2> QED BY <1>s, <1>t, <2>1, <2>2 DEF Shape
<1> QED BY <1>1, <1>2, <1>3, <1>4, <1>5, <1>6 DEF QuotaWorker

\* The webhook's steps on the objects: a request comes in, is refused, is
\* admitted, and is persisted or lost.
WebhookKinds(f) ==
    \/ /\ fip[f].st = "none" /\ fip'[f].st = "submitted" /\ age' = [age EXCEPT ![f] = 0] /\ UNCHANGED <<adm, resv>>
    \/ /\ fip[f].st = "submitted" /\ adm.key = None /\ UNCHANGED <<age, resv>>
       /\ \/ UNCHANGED fip /\ adm' = [key |-> f, seen |-> Occupying, age |-> 0]
          \/ fip'[f].st = "none" /\ UNCHANGED adm
    \/ /\ adm.key = f /\ adm' = NoAdm /\ UNCHANGED age
       /\ \/ /\ liveQuotaUsage < Limit
             /\ fip'[f].st = "admitted" /\ resv' = [resv EXCEPT ![f] = 0]
          \/ fip'[f].st = "none" /\ UNCHANGED resv
    \/ fip[f].st = "admitted" /\ fip'[f].st \in {"pending", "gone"} /\ UNCHANGED <<age, adm, resv>>

\* The webhook works on one object, and leaves the controllers alone.
LEMMA WebhookSteps ==
  ASSUME QInv, NEW f \in FIP, Webhook(f)
  PROVE  /\ WebhookKinds(f) /\ (\A g \in FIP \ {f} : fip'[g] = fip[g])
         /\ UNCHANGED revived /\ Follows /\ Shape'
<1>t. Shape
  BY DEF QInv, TypeOK, Shape
<1>u. UNCHANGED <<revived, fcache, job, fqueue, qqueue>>
  BY DEF Webhook, Submit, ListFloatingIPs, Decide, Persist, caches, queues
<1>f. Follows
  BY <1>u DEF Follows
<1>o. Unseen \in FIPObj /\ Unseen.st = "none"
  BY DEF FIPObj, Unseen
<1>p. ASSUME NEW st \in {"submitted", "admitted", "pending", "gone"}, fip' = [fip EXCEPT ![f].st = st]
      PROVE  Shape' /\ fip'[f].st = st /\ \A g \in FIP \ {f} : fip'[g] = fip[g]
  BY <1>p, <1>t, <1>u, PutState DEF Shape
<1>r. ASSUME fip' = [fip EXCEPT ![f] = Unseen]
      PROVE  Shape' /\ fip'[f].st = "none" /\ \A g \in FIP \ {f} : fip'[g] = fip[g]
  BY <1>o, <1>r, <1>t, <1>u DEF Shape
<1>n. UNCHANGED fip => Shape'
  BY <1>t, <1>u DEF Shape
<1> HIDE DEF Unseen
<1>1. CASE Submit(f)
  BY <1>1, <1>f, <1>p, <1>u DEF Submit, WebhookKinds
<1>2. CASE ListFloatingIPs(f)
  BY <1>2, <1>f, <1>n, <1>r, <1>u DEF ListFloatingIPs, WebhookKinds
<1>3. CASE Decide(f)
  BY <1>3, <1>f, <1>p, <1>r, <1>u DEF Decide, takeQuotaReservation, WebhookKinds
<1>4. CASE Persist(f)
  BY <1>4, <1>f, <1>p, <1>u DEF Persist, hookVars, WebhookKinds
<1> QED BY <1>1, <1>2, <1>3, <1>4 DEF Webhook

-----------------------------------------------------------------------------
(* Slots                                                                   *)

Held == (Occupying \cup Admitted) \ revived

\* Sets of FloatingIPs are finite.
LEMMA Counts ==
  ASSUME NEW S \in SUBSET FIP
  PROVE  IsFiniteSet(S) /\ Cardinality(S) \in Nat
<1>1. IsFiniteSet(S)
  BY QuotaAssumption, FS_Subset
<1> QED BY <1>1, FS_CardinalityType

\* A subset has no more elements, and one more element adds at most one.
LEMMA CountsUp ==
  ASSUME NEW S \in SUBSET FIP, NEW T \in SUBSET FIP, NEW f \in FIP
  PROVE  /\ T \subseteq S => Cardinality(T) <= Cardinality(S)
         /\ T \subseteq S \cup {f} => Cardinality(T) <= Cardinality(S) + 1
<1>1. IsFiniteSet(S) /\ Cardinality(S) \in Nat
  BY Counts
<1>2. T \subseteq S => Cardinality(T) <= Cardinality(S)
  BY <1>1, FS_Subset
<1>3. IsFiniteSet(S \cup {f}) /\ Cardinality(S \cup {f}) <= Cardinality(S) + 1 /\ Cardinality(S \cup {f}) \in Nat
  BY <1>1, FS_AddElement
<1>4. ASSUME T \subseteq S \cup {f}
      PROVE  Cardinality(T) <= Cardinality(S) + 1
  <2>1. Cardinality(T) <= Cardinality(S \cup {f})
    BY <1>3, <1>4, FS_Subset
  <2>2. Cardinality(T) \in Nat
    BY Counts
  <2> QED BY <1>1, <1>3, <2>1, <2>2
<1> QED BY <1>2, <1>4

\* The webhook's count is never below the slots that are held: an object that is
\* not in the list has a reservation, a recent object in the list accounts for
\* no more than its own.
LEMMA UsageCovers ==
  ASSUME QInv, adm.key # None
  PROVE  liveQuotaUsage \in Nat /\ Cardinality(Held) <= liveQuotaUsage
<1> DEFINE S == adm.seen
           V == activeQuotaReservations
           R == {f \in S : age[f] < TTL}
           U == Held \ S
<1>t. /\ age \in [FIP -> Age] /\ resv \in [FIP -> Age] /\ adm \in Admission
      /\ Stamped /\ Waiting /\ Locked
  BY DEF QInv, TypeOK
<1>n. TTL \in Nat /\ Latency \in Nat /\ ListTimeout \in Nat /\ Latency + ListTimeout < TTL
  BY QuotaAssumption
<1>1. S \subseteq FIP /\ V \subseteq FIP /\ R \subseteq S /\ Held \subseteq FIP /\ U \subseteq FIP
  BY <1>t DEF Admission, activeQuotaReservations, Held, Occupying, Admitted
<1>2. ASSUME NEW f \in U
      PROVE  f \in V
  <2>1. f \in FIP /\ resv[f] \in Nat /\ adm.age \in Nat /\ adm.age <= ListTimeout
    BY <1>1, <1>n, <1>t DEF Age, Admission, Locked
  <2>2. CASE f \in Admitted
    <3>1. resv[f] <= Latency
      BY <1>t, <2>2 DEF Waiting
    <3>2. resv[f] < TTL
      BY <1>n, <2>1, <3>1
    <3> QED BY <2>1, <3>2 DEF activeQuotaReservations
  <2>3. CASE f \in Occupying
    <3>1. resv[f] <= Latency + adm.age
      BY <1>t, <2>3 DEF Locked, Held
    <3>2. resv[f] < TTL
      BY <1>n, <2>1, <3>1
    <3> QED BY <2>1, <3>2 DEF activeQuotaReservations
  <2> QED BY <2>2, <2>3 DEF Held
<1>3. ASSUME NEW f \in R
      PROVE  f \in V
  <2>1. f \in FIP /\ Past(f) /\ age[f] < TTL
    BY <1>1, <1>t DEF Locked
  <2>2. resv[f] <= age[f] /\ resv[f] \in Int /\ age[f] \in Int
    BY <1>n, <1>t, <2>1 DEF Stamped, Past, Age
  <2> QED BY <1>n, <2>1, <2>2 DEF activeQuotaReservations
<1>4. liveQuotaUsage = Cardinality(S) + (IF Cardinality(V) > Cardinality(R) THEN Cardinality(V) - Cardinality(R) ELSE 0)
  BY DEF liveQuotaUsage, slotsTaken
<1>5. Held \subseteq S \cup U /\ S \cap U = {} /\ U \cap R = {} /\ U \cup R \subseteq V /\ R \subseteq FIP
  BY <1>1, <1>2, <1>3
<1> HIDE DEF S, V, R, U
<1>6. /\ IsFiniteSet(S) /\ IsFiniteSet(V) /\ IsFiniteSet(R) /\ IsFiniteSet(U)
      /\ Cardinality(S) \in Nat /\ Cardinality(V) \in Nat /\ Cardinality(R) \in Nat /\ Cardinality(U) \in Nat
      /\ Cardinality(Held) \in Nat
  BY <1>1, <1>5, Counts
<1>7. Cardinality({}) = 0
  BY FS_EmptySet
<1>8. IsFiniteSet(S \cup U) /\ Cardinality(S \cup U) = Cardinality(S) + Cardinality(U)
  <2>1. /\ IsFiniteSet(S \cup U)
        /\ Cardinality(S \cup U) = Cardinality(S) + Cardinality(U) - Cardinality(S \cap U)
    BY <1>6, FS_Union
  <2>2. Cardinality(S \cap U) = 0
    BY <1>5, <1>7
  <2> QED BY <1>6, <2>1, <2>2
<1>9. Cardinality(U \cup R) = Cardinality(U) + Cardinality(R)
  <2>1. Cardinality(U \cup R) = Cardinality(U) + Cardinality(R) - Cardinality(U \cap R)
    BY <1>6, FS_Union
  <2>2. Cardinality(U \cap R) = 0
    BY <1>5, <1>7
  <2> QED BY <1>6, <2>1, <2>2
<1>10. Cardinality(Held) <= Cardinality(S) + Cardinality(U)
  BY <1>5, <1>8, FS_Subset
<1>11. Cardinality(U) + Cardinality(R) <= Cardinality(V)
  BY <1>5, <1>6, <1>9, FS_Subset
<1> QED BY <1>4, <1>6, <1>10, <1>11

-----------------------------------------------------------------------------
(* Preservation of the invariant's parts                                   *)

HookShape == age \in [FIP -> Age] /\ resv \in [FIP -> Age] /\ adm \in Admission

HookInv == HookShape /\ Stamped /\ Worked /\ Waiting /\ Locked /\ QuotaRespected

\* The limit is not exceeded as long as no slot is added.
LEMMA HeldShrinks ==
  ASSUME QInv, UNCHANGED case, Held' \subseteq Held
  PROVE  QuotaRespected'
<1>1. Held \subseteq FIP /\ Held' \subseteq FIP
  BY DEF Held, Occupying, Admitted
<1>2. Limit' = Limit /\ Limit \in Nat /\ Cardinality(Held) <= Limit
  BY QuotaAssumption DEF QInv, Limit, QuotaRespected, Held
<1>3. Cardinality(Held) \in Nat /\ Cardinality(Held') \in Nat
  BY <1>1, Counts
<1>4. Cardinality(Held') <= Cardinality(Held)
  <2>1. IsFiniteSet(Held)
    BY <1>1, Counts
  <2> QED BY <2>1, FS_Subset
<1>5. Cardinality(Held') <= Limit'
  BY <1>2, <1>3, <1>4
<1> QED BY <1>5 DEF QuotaRespected, Held

\* Copies and jobs are of objects that have been persisted.
LEMMA WorkedKept ==
  ASSUME QInv, Follows, \A f \in FIP : Past(f) => Past(f)'
  PROVE  Worked'
<1>1. ASSUME NEW f \in FIP, Persisted(fcache[f])'
      PROVE  Past(f)
  <2>1. Persisted(Stored(f)) => Past(f)
    BY DEF Stored, Persisted, Past, Unseen
  <2>2. Persisted(fcache[f]) => Past(f)
    BY DEF QInv, Worked
  <2> QED BY <1>1, <2>1, <2>2 DEF Follows, Persisted
<1>2. ASSUME NEW f \in FIP, job'[f] # "idle"
      PROVE  Past(f)
  BY <1>2 DEF QInv, Worked, Busy, Follows
<1> QED BY <1>1, <1>2 DEF Worked, Busy

\* The controllers take no slots, except for a FloatingIP that recovers.
LEMMA LaterKeeps ==
  ASSUME QInv, Later, Follows, UNCHANGED case
  PROVE  HookInv'
<1>s. HookShape /\ Stamped /\ Waiting /\ Locked
  BY DEF QInv, TypeOK, HookShape
<1>u. UNCHANGED <<age, adm, resv>> /\ revived \subseteq revived' /\ \A f \in FIP : Passes(f)
  BY DEF Later
<1>1. \A f \in FIP : Past(f) => Past(f)'
  BY <1>u DEF Passes, Past
<1>2. Worked'
  BY <1>1, WorkedKept
<1>3. \A f \in FIP : fip'[f].st = "admitted" => fip[f].st = "admitted"
  BY <1>u DEF Passes
<1>4. \A f \in FIP : fip'[f].st \in {"pending", "granted"} => fip[f].st \in {"pending", "granted"} \/ f \in revived'
  BY <1>u DEF Passes
<1>5. Stamped'
  BY <1>s, <1>u DEF Stamped, Passes, Past
<1>6. Waiting'
  BY <1>3, <1>s, <1>u DEF Waiting, Admitted
<1>7. Locked'
  <2>1. SUFFICES ASSUME adm.key # None
                 PROVE  /\ fip'[adm.key].st = "submitted"
                        /\ \A f \in adm.seen : Past(f)'
                        /\ \A f \in Occupying' \ (adm.seen \cup revived') : resv[f] <= Latency + adm.age
    BY <1>s, <1>u DEF Locked
  <2>2. adm.key \in FIP /\ adm.seen \subseteq FIP
    BY <1>s, <2>1 DEF HookShape, Admission
  <2>3. fip'[adm.key].st = "submitted"
    BY <1>s, <1>u, <2>1, <2>2 DEF Locked, Passes, Past
  <2>4. \A f \in adm.seen : Past(f)'
    BY <1>1, <1>s, <2>1, <2>2 DEF Locked
  <2>5. \A f \in Occupying' \ (adm.seen \cup revived') : resv[f] <= Latency + adm.age
    BY <1>4, <1>s, <1>u, <2>1 DEF Locked, Occupying
  <2> QED BY <2>3, <2>4, <2>5
<1>8. Held' \subseteq Held
  BY <1>3, <1>4, <1>u DEF Held, Occupying, Admitted
<1>9. QuotaRespected'
  BY <1>8, HeldShrinks
<1>10. HookShape'
  BY <1>s, <1>u DEF HookShape
<1> QED BY <1>2, <1>5, <1>6, <1>7, <1>9, <1>10 DEF HookInv

\* Time passes: reservations and stamps age alike, and only while nobody is
\* overdue.
LEMMA TickKeeps ==
  ASSUME QInv, Tick, UNCHANGED case
  PROVE  HookInv' /\ Shape'
<1>s. HookShape /\ Stamped /\ Waiting /\ Locked
  BY DEF QInv, TypeOK, HookShape
<1>n. TTL \in Nat /\ Latency \in Nat /\ ListTimeout \in Nat
  BY QuotaAssumption
<1>u. /\ UNCHANGED <<fip, fcache, job, fqueue, qqueue, revived>>
      /\ age' = [f \in FIP |-> Older(age[f])] /\ resv' = [f \in FIP |-> Older(resv[f])]
      /\ adm' = IF adm.key = None THEN adm ELSE [adm EXCEPT !.age = @ + 1]
      /\ adm.key # None => adm.age < ListTimeout
      /\ \A f \in Admitted : resv[f] < Latency
  BY DEF Tick, caches, queues
<1>o. ASSUME NEW a \in Age
      PROVE  Older(a) \in Age /\ Older(a) <= a + 1 /\ a <= Older(a)
  BY <1>n, <1>o DEF Age, Older
<1>m. ASSUME NEW a \in Age, NEW b \in Age, a <= b
      PROVE  Older(a) <= Older(b)
  BY <1>n, <1>m DEF Age, Older
<1>a. \A f \in FIP : age[f] \in Age /\ resv[f] \in Age
  BY <1>s DEF HookShape
<1>b. \A a \in Age : a \in Nat
  BY <1>n DEF Age
<1>1. /\ adm' \in Admission /\ adm'.key = adm.key /\ adm'.seen = adm.seen
      /\ adm.key # None => adm'.age = adm.age + 1
  <2>1. adm \in Admission /\ adm.age \in Nat
    BY <1>s DEF HookShape, Admission
  <2> DEFINE m == adm.age + 1
  <2>2. m \in Nat
    BY <2>1
  <2>3. adm' = adm \/ (adm.key # None /\ adm' = [adm EXCEPT !.age = m])
    BY <1>u
  <2>4. adm.key # None => adm' = [adm EXCEPT !.age = m]
    BY <1>u
  <2> HIDE DEF m
  <2>5. adm' \in Admission /\ adm'.key = adm.key /\ adm'.seen = adm.seen /\ (adm.key # None => adm'.age = m)
    BY <2>1, <2>2, <2>3, <2>4 DEF Admission
  <2> QED BY <2>5 DEF m
<1>2. HookShape'
  BY <1>1, <1>a, <1>o, <1>u DEF HookShape
<1>3. Stamped'
  BY <1>a, <1>m, <1>s, <1>u DEF Stamped
<1>4. Waiting'
  <2>1. ASSUME NEW f \in Admitted
        PROVE  resv'[f] <= Latency
    <3>1. resv[f] \in Nat /\ resv[f] < Latency /\ resv'[f] = Older(resv[f]) /\ resv[f] \in Age
      BY <1>a, <1>b, <1>u DEF Admitted
    <3>2. Older(resv[f]) \in Nat /\ Older(resv[f]) <= resv[f] + 1
      BY <1>b, <1>o, <3>1
    <3> QED BY <1>n, <3>1, <3>2
  <2> QED BY <1>u, <2>1 DEF Waiting, Admitted
<1>5. Locked'
  <2>1. SUFFICES ASSUME adm.key # None
                 PROVE  /\ fip[adm.key].st = "submitted"
                        /\ adm'.age <= ListTimeout
                        /\ \A f \in adm.seen : Past(f)
                        /\ \A f \in Occupying \ (adm.seen \cup revived) : resv'[f] <= Latency + adm'.age
    BY <1>1, <1>u DEF Locked, Past, Occupying
  <2>2. adm.age \in Nat /\ adm'.age = adm.age + 1 /\ adm.age < ListTimeout
    BY <1>1, <1>s, <1>u, <2>1 DEF HookShape, Admission
  <2>3. ASSUME NEW f \in Occupying \ (adm.seen \cup revived)
        PROVE  resv'[f] <= Latency + adm'.age
    <3>1. resv[f] \in Nat /\ resv[f] \in Age /\ resv'[f] = Older(resv[f]) /\ resv[f] <= Latency + adm.age
      BY <1>a, <1>b, <1>s, <1>u, <2>1 DEF Locked, Occupying
    <3>2. Older(resv[f]) \in Nat /\ Older(resv[f]) <= resv[f] + 1
      BY <1>b, <1>o, <3>1
    <3> QED BY <1>n, <2>2, <3>1, <3>2
  <2> QED BY <1>n, <1>s, <2>1, <2>2, <2>3 DEF Locked
<1>6. Follows /\ Worked'
  <2>1. Follows
    BY <1>u DEF Follows
  <2>2. \A f \in FIP : Past(f) => Past(f)'
    BY <1>u DEF Past
  <2> QED BY <2>1, <2>2, WorkedKept
<1>7. QuotaRespected'
  <2>1. Held' \subseteq Held
    BY <1>u DEF Held, Occupying, Admitted
  <2> QED BY <2>1, HeldShrinks
<1>8. Shape'
  BY <1>u DEF QInv, TypeOK, Shape
<1> QED BY <1>2, <1>3, <1>4, <1>5, <1>6, <1>7, <1>8 DEF HookInv

\* The webhook admits no more than the limit.
LEMMA WebhookKeeps ==
  ASSUME QInv, NEW f \in FIP, Webhook(f), UNCHANGED case
  PROVE  HookInv'
<1>s. HookShape /\ Stamped /\ Waiting /\ Locked
  BY DEF QInv, TypeOK, HookShape
<1>n. TTL \in Nat /\ Latency \in Nat /\ ListTimeout \in Nat /\ 0 \in Age /\ None \notin FIP
  BY QuotaAssumption DEF Age
<1>k. WebhookKinds(f) /\ (\A g \in FIP \ {f} : fip'[g] = fip[g]) /\ UNCHANGED revived /\ Follows
  BY WebhookSteps
<1>a. \A g \in FIP : age[g] \in Nat /\ resv[g] \in Nat
  BY <1>n, <1>s DEF HookShape, Age
<1>1. \A g \in FIP : Past(g) => Past(g)'
  <2>1. adm.key = f => fip[f].st = "submitted"
    BY <1>n, <1>s DEF Locked
  <2>2. Past(f) => Past(f)'
    BY <1>k, <2>1 DEF WebhookKinds, Past
  <2> QED BY <1>k, <2>2 DEF Past
<1>2. Worked'
  BY <1>1, <1>k, WorkedKept
<1>3. CASE fip[f].st = "none" /\ fip'[f].st = "submitted" /\ age' = [age EXCEPT ![f] = 0] /\ UNCHANGED <<adm, resv>>
  <2>1. HookShape'
    BY <1>3, <1>n, <1>s DEF HookShape
  <2>2. \A g \in FIP \ {f} : age'[g] = age[g]
    BY <1>3, <1>s DEF HookShape
  <2>3. Stamped' /\ Waiting'
    BY <1>3, <1>k, <1>s, <2>2 DEF Stamped, Waiting, Admitted
  <2>4. Locked'
    <3>1. adm.key # None => adm.key # f /\ adm.key \in FIP /\ adm.seen \subseteq FIP
      BY <1>3, <1>s DEF Locked, HookShape, Admission
    <3> QED BY <1>1, <1>3, <1>k, <1>s, <3>1 DEF Locked, Occupying
  <2>5. Held' \subseteq Held
    BY <1>3, <1>k DEF Held, Occupying, Admitted
  <2> QED BY <1>2, <2>1, <2>3, <2>4, <2>5, HeldShrinks DEF HookInv
<1>4. CASE /\ fip[f].st = "submitted" /\ adm.key = None /\ UNCHANGED <<age, resv, fip>>
           /\ adm' = [key |-> f, seen |-> Occupying, age |-> 0]
  <2> DEFINE o == Occupying
  <2>1. o \subseteq FIP /\ \A g \in o : Past(g)
    BY DEF Occupying, Past
  <2>2. adm' = [key |-> f, seen |-> o, age |-> 0]
    BY <1>4
  <2>o. Occupying' = o
    BY <1>4 DEF Occupying
  <2> HIDE DEF o
  <2>3. adm' \in Admission /\ adm'.key = f /\ adm'.seen = o /\ adm'.age = 0
    BY <2>1, <2>2 DEF Admission
  <2>4. HookShape'
    BY <1>4, <1>s, <2>3 DEF HookShape
  <2>5. Stamped' /\ Waiting'
    BY <1>4, <1>s DEF Stamped, Waiting, Admitted
  <2>6. Locked'
    BY <1>1, <1>4, <1>n, <2>1, <2>3, <2>o DEF Locked
  <2>7. Held' \subseteq Held
    BY <1>4, <1>k DEF Held, Occupying, Admitted
  <2> QED BY <1>2, <2>4, <2>5, <2>6, <2>7, HeldShrinks DEF HookInv
<1>5. CASE fip[f].st = "submitted" /\ adm.key = None /\ UNCHANGED <<age, resv, adm>> /\ fip'[f].st = "none"
  <2>1. HookShape'
    BY <1>5, <1>s DEF HookShape
  <2>2. Stamped' /\ Waiting'
    BY <1>5, <1>k, <1>s DEF Stamped, Waiting, Admitted
  <2>3. Locked'
    BY <1>5 DEF Locked
  <2>4. Held' \subseteq Held
    BY <1>5, <1>k DEF Held, Occupying, Admitted
  <2> QED BY <1>2, <2>1, <2>2, <2>3, <2>4, HeldShrinks DEF HookInv
<1>6. CASE adm.key = f /\ adm' = NoAdm /\ UNCHANGED age /\ fip'[f].st = "none" /\ UNCHANGED resv
  <2>1. NoAdm \in Admission /\ NoAdm.key = None
    BY DEF NoAdm, Admission
  <2>2. HookShape' /\ Locked'
    BY <1>6, <1>s, <2>1 DEF HookShape, Locked
  <2>3. Stamped' /\ Waiting'
    BY <1>6, <1>k, <1>s DEF Stamped, Waiting, Admitted
  <2>4. Held' \subseteq Held
    BY <1>6, <1>k DEF Held, Occupying, Admitted
  <2> QED BY <1>2, <2>2, <2>3, <2>4, HeldShrinks DEF HookInv
<1>7. CASE /\ adm.key = f /\ adm' = NoAdm /\ UNCHANGED age
           /\ liveQuotaUsage < Limit /\ fip'[f].st = "admitted" /\ resv' = [resv EXCEPT ![f] = 0]
  <2>1. NoAdm \in Admission /\ NoAdm.key = None
    BY DEF NoAdm, Admission
  <2>2. HookShape' /\ Locked'
    BY <1>7, <1>n, <1>s, <2>1 DEF HookShape, Locked
  <2>3. resv'[f] = 0 /\ \A g \in FIP \ {f} : resv'[g] = resv[g]
    BY <1>7, <1>s DEF HookShape
  <2>4. Stamped' /\ Waiting'
    BY <1>7, <1>a, <1>k, <1>n, <1>s, <2>3 DEF Stamped, Waiting, Admitted
  <2>5. Held' \subseteq Held \cup {f} /\ Held \subseteq FIP /\ Held' \subseteq FIP
    BY <1>k DEF Held, Occupying, Admitted
  <2>6. Cardinality(Held) <= liveQuotaUsage /\ liveQuotaUsage \in Nat
    BY <1>7, <1>n, UsageCovers
  <2>7. Limit' = Limit /\ Limit \in Nat
    BY QuotaAssumption DEF QInv, Limit
  <2>8. Cardinality(Held) \in Nat /\ Cardinality(Held') \in Nat
    BY <2>5, Counts
  <2>9. Cardinality(Held') <= Cardinality(Held) + 1
    <3> DEFINE S == Held
               T == Held'
    <3> HIDE DEF S, T
    <3>1. S \in SUBSET FIP /\ T \in SUBSET FIP /\ T \subseteq S \cup {f}
      BY <2>5 DEF S, T
    <3>2. Cardinality(T) <= Cardinality(S) + 1
      BY <3>1, CountsUp
    <3> QED BY <3>2 DEF S, T
  <2>10. Cardinality(Held') <= Limit'
    BY <1>7, <2>6, <2>7, <2>8, <2>9
  <2>11. QuotaRespected'
    BY <2>10 DEF QuotaRespected, Held
  <2> QED BY <1>2, <2>2, <2>4, <2>11 DEF HookInv
<1>8. CASE fip[f].st = "admitted" /\ fip'[f].st \in {"pending", "gone"} /\ UNCHANGED <<age, adm, resv>>
  <2>1. HookShape'
    BY <1>8, <1>s DEF HookShape
  <2>2. Stamped' /\ Waiting'
    BY <1>8, <1>k, <1>s DEF Stamped, Waiting, Admitted
  <2>3. Locked'
    <3>1. SUFFICES ASSUME adm.key # None
                   PROVE  /\ fip'[adm.key].st = "submitted"
                          /\ \A g \in adm.seen : Past(g)'
                          /\ \A g \in Occupying' \ (adm.seen \cup revived) : resv[g] <= Latency + adm.age
      BY <1>8, <1>k, <1>s DEF Locked
    <3>2. adm.key \in FIP \ {f} /\ adm.seen \subseteq FIP /\ adm.age \in Nat
      BY <1>8, <1>s, <3>1 DEF Locked, HookShape, Admission
    <3>3. ASSUME NEW g \in Occupying' \ (adm.seen \cup revived)
          PROVE  resv[g] <= Latency + adm.age
      <4>1. CASE g = f
        <5>1. resv[f] <= Latency
          BY <1>8, <1>s DEF Waiting, Admitted
        <5> QED BY <1>a, <1>n, <3>2, <4>1, <5>1
      <4>2. CASE g # f
        BY <1>k, <1>s, <3>1, <4>2 DEF Locked, Occupying
      <4> QED BY <4>1, <4>2
    <3> QED BY <1>1, <1>k, <1>s, <3>1, <3>2, <3>3 DEF Locked
  <2>4. Held' \subseteq Held
    BY <1>8, <1>k DEF Held, Occupying, Admitted
  <2> QED BY <1>2, <2>1, <2>2, <2>3, <2>4, HeldShrinks DEF HookInv
<1> QED BY <1>3, <1>4, <1>5, <1>6, <1>7, <1>8, <1>k DEF WebhookKinds

-----------------------------------------------------------------------------
(* The quota's status                                                      *)

\* A write of the status, of the finalizer or of the deletion keeps the shape.
LEMMA PutQuota ==
  ASSUME quota \in QuotaObj
  PROVE  /\ \A s \in Status : [quota EXCEPT !.status = s] \in QuotaObj
         /\ [quota EXCEPT !.fin = TRUE] \in QuotaObj /\ [quota EXCEPT !.del = TRUE] \in QuotaObj
         /\ NoQuota \in QuotaObj /\ quota.status \in Status
<1>1. NoStatus \in Status
  BY DEF NoStatus, Status
<1>2. \A s \in Status : [quota EXCEPT !.status = s] \in QuotaObj
  BY DEF QuotaObj
<1>3. [quota EXCEPT !.fin = TRUE] \in QuotaObj /\ [quota EXCEPT !.del = TRUE] \in QuotaObj
  BY DEF QuotaObj
<1> HIDE DEF NoStatus, Status
<1>4. NoQuota \in QuotaObj /\ quota.status \in Status
  BY <1>1 DEF NoQuota, QuotaObj
<1> QED BY <1>2, <1>3, <1>4

\* The status that the quota controller rebuilds counts what it lists.
LEMMA RebuiltShape == rebuiltStatus \in Status
<1> DEFINE mine == {f \in FIP : Persisted(fcache[f])}
           held == {f \in mine : fcache[f].st = "granted"}
           some == mine # {}
           n    == Cardinality(held)
<1>1. held \subseteq FIP /\ some \in BOOLEAN
  OBVIOUS
<1>2. n \in Nat
  BY <1>1, Counts
<1>3. rebuiltStatus = [init |-> some, alloc |-> held, used |-> n]
  BY DEF rebuiltStatus
<1> HIDE DEF mine, held, some, n
<1> QED BY <1>1, <1>2, <1>3 DEF Status

\* Whoever writes the quota's status writes addresses and a count.
LEMMA NextQuota ==
  ASSUME QInv, Next
  PROVE  quota' \in QuotaObj /\ qcache' \in QuotaObj
<1>t. quota \in QuotaObj /\ qcache \in QuotaObj /\ quota.status \in Status
  BY PutQuota DEF QInv, TypeOK
<1>a. quota.status.alloc \subseteq FIP /\ quota.status.used \in Nat
  BY <1>t DEF Status
<1>p. ASSUME NEW s \in Status, quota' = [quota EXCEPT !.status = s]
      PROVE  quota' \in QuotaObj
  BY <1>p, <1>t, PutQuota
<1>1. qcache' \in QuotaObj
  <2>1. qcache' = qcache \/ qcache' = quota
    BY DEF Next, Webhook, Submit, ListFloatingIPs, Decide, Persist, DeleteFIP, FIPWorker, AddFinalizer, UpdateSpec,
       GrantFails, GivesUp, Grant, RecordAllocation, Reassert, Unrecord, removeFinalizer, ForgetKey, FIPEvent, Tick,
       QuotaWorker, syncHandler, syncGone, handleFloatingIPProjectQuotaDelete, QuotaEvent, DeleteQuota, Restart, caches
  <2> QED BY <1>t, <2>1
<1>2. ASSUME NEW f \in FIP, RecordAllocation(f)
      PROVE  quota' \in QuotaObj
  <2> DEFINE al == quota.status.alloc \cup {f}
             n  == IF f \in quota.status.alloc THEN quota.status.used ELSE quota.status.used + 1
             s  == [init |-> TRUE, alloc |-> al, used |-> n]
  <2>1. al \subseteq FIP /\ n \in Nat
    BY <1>a
  <2>2. quota' = quota \/ quota' = [quota EXCEPT !.status = s]
    BY <1>2 DEF RecordAllocation
  <2> HIDE DEF al, n
  <2>3. s \in Status
    BY <2>1 DEF Status
  <2> HIDE DEF s
  <2> QED BY <1>p, <1>t, <2>2, <2>3
<1>3. ASSUME NEW f \in FIP, Reassert(f)
      PROVE  quota' \in QuotaObj
  <2> DEFINE al == quota.status.alloc \cup {f}
             s  == [quota.status EXCEPT !.alloc = al]
  <2>1. al \subseteq FIP
    BY <1>a
  <2>2. quota' = quota \/ quota' = [quota EXCEPT !.status = s]
    <3>1. s = relisted(quota.status, f)
      BY DEF relisted
    <3> HIDE DEF s
    <3> QED BY <1>3, <3>1 DEF Reassert
  <2> HIDE DEF al
  <2>3. s \in Status
    BY <1>t, <2>1 DEF Status
  <2> HIDE DEF s
  <2> QED BY <1>p, <1>t, <2>2, <2>3
<1>4. ASSUME NEW f \in FIP, Unrecord(f)
      PROVE  quota' \in QuotaObj
  <2> DEFINE al == quota.status.alloc \ {f}
             n  == decremented(quota.status.used)
             s  == [quota.status EXCEPT !.alloc = al, !.used = n]
  <2>1. al \subseteq FIP /\ n \in Nat
    BY <1>a DEF decremented
  <2>2. quota' = quota \/ quota' = [quota EXCEPT !.status = s]
    <3>1. s = without(quota.status, f)
      BY DEF without
    <3> HIDE DEF s
    <3> QED BY <1>4, <3>1 DEF Unrecord
  <2> HIDE DEF al, n
  <2>3. s \in Status
    BY <1>t, <2>1 DEF Status
  <2> HIDE DEF s
  <2> QED BY <1>p, <1>t, <2>2, <2>3
<1>5. ASSUME syncHandler
      PROVE  quota' \in QuotaObj
  <2>1. quota' \in {quota, [quota EXCEPT !.status = rebuiltStatus], [quota EXCEPT !.fin = TRUE]}
    BY <1>5 DEF syncHandler
  <2> QED BY <1>t, <2>1, PutQuota, RebuiltShape
<1>6. ASSUME handleFloatingIPProjectQuotaDelete \/ DeleteQuota
      PROVE  quota' \in QuotaObj
  <2>1. quota' \in {quota, NoQuota, [quota EXCEPT !.del = TRUE]}
    BY <1>6 DEF handleFloatingIPProjectQuotaDelete, DeleteQuota
  <2> QED BY <1>t, <2>1, PutQuota
<1>7. CASE UNCHANGED quota
  BY <1>1, <1>7, <1>t
<1> QED BY <1>1, <1>2, <1>3, <1>4, <1>5, <1>6, <1>7
        DEF Next, Webhook, Submit, ListFloatingIPs, Decide, Persist, DeleteFIP, FIPWorker, AddFinalizer, UpdateSpec,
            GrantFails, GivesUp, Grant, removeFinalizer, ForgetKey, FIPEvent, Tick, QuotaWorker, syncGone, QuotaEvent,
            Restart

-----------------------------------------------------------------------------
(* The invariant and what follows from it                                  *)

\* Nothing has been asked for, in the beginning.
LEMMA InitQ == Init => QInv
<1> SUFFICES ASSUME Init
             PROVE  QInv
  OBVIOUS
<1>n. TTL \in Nat /\ Latency \in Nat /\ ListTimeout \in Nat /\ 0 \in Age /\ TTL \in Age
  BY QuotaAssumption DEF Age
<1>o. Unseen \in FIPObj /\ Unseen.st = "none"
  BY DEF FIPObj, Unseen
<1> HIDE DEF Unseen
<1>f. \A f \in FIP : fip[f] = Unseen /\ fcache[f] = Unseen /\ job[f] = "idle"
  BY DEF Init
<1>1. Shape
  BY <1>o DEF Init, Shape
<1>2. HookShape /\ adm.key = None
  BY <1>n DEF Init, HookShape, NoAdm, Admission
<1>3. quota \in QuotaObj /\ qcache \in QuotaObj
  <2>1. [NoQuota EXCEPT !.live = TRUE] \in QuotaObj
    BY DEF NoQuota, NoStatus, QuotaObj, Status
  <2> QED BY <2>1 DEF Init
<1>4. TypeOK
  BY <1>1, <1>2, <1>3 DEF TypeOK, Shape, HookShape
<1>5. Stamped /\ Worked /\ Waiting /\ Locked
  BY <1>2, <1>f, <1>o DEF Stamped, Worked, Waiting, Locked, Admitted, Persisted, Busy
<1>6. case \in Cases
  BY DEF Init
<1>7. QuotaRespected
  <2>1. (Occupying \cup Admitted) \ revived = {}
    BY <1>f, <1>o DEF Occupying, Admitted
  <2>2. Cardinality({}) = 0
    BY FS_EmptySet
  <2>3. Limit \in Nat
    BY <1>6, QuotaAssumption DEF Limit
  <2> QED BY <2>1, <2>2, <2>3 DEF QuotaRespected
<1> QED BY <1>4, <1>5, <1>6, <1>7 DEF QInv

\* No step breaks the invariant.
LEMMA NextQ == QInv /\ [Next]_vars => QInv'
<1>1. ASSUME QInv, Next
      PROVE  QInv'
  <2>1. UNCHANGED case
    BY <1>1 DEF Next
  <2>2. Shape' /\ HookInv'
    <3>1. ASSUME NEW f \in FIP, Webhook(f)
          PROVE  Shape' /\ HookInv'
      BY <1>1, <2>1, <3>1, WebhookSteps, WebhookKeeps
    <3>2. CASE Tick
      BY <1>1, <2>1, <3>2, TickKeeps
    <3>3. CASE Later /\ Follows /\ Shape'
      BY <1>1, <2>1, <3>3, LaterKeeps
    <3>4. ASSUME NEW f \in FIP, FIPWorker(f)
          PROVE  Later /\ Follows /\ Shape'
      BY <1>1, <3>4, FIPWorkerSteps
    <3>5. ASSUME \/ \E f \in FIP : DeleteFIP(f) \/ FIPEvent(f)
                 \/ QuotaWorker \/ QuotaEvent \/ DeleteQuota \/ Restart
          PROVE  Later /\ Follows /\ Shape'
      BY <1>1, <3>5, OtherSteps
    <3> QED BY <1>1, <3>1, <3>2, <3>3, <3>4, <3>5 DEF Next
  <2>3. quota' \in QuotaObj /\ qcache' \in QuotaObj
    BY <1>1, NextQuota
  <2>4. TypeOK'
    BY <2>2, <2>3 DEF TypeOK, Shape, HookInv, HookShape
  <2> QED BY <1>1, <2>1, <2>2, <2>4 DEF QInv, HookInv
<1>2. ASSUME QInv, UNCHANGED vars
      PROVE  QInv'
  <2>1. UNCHANGED <<fip, age, adm, resv, quota, fcache, qcache, job, fqueue, qqueue, case, revived>>
    BY <1>2 DEF vars, hookVars, caches, queues
  <2>2. TypeOK' /\ case' \in Cases
    BY <1>2, <2>1 DEF QInv, TypeOK
  <2>3. Stamped' /\ Worked' /\ Waiting'
    BY <1>2, <2>1 DEF QInv, Stamped, Worked, Waiting, Admitted, Persisted, Busy, Past
  <2>4. Locked' /\ QuotaRespected'
    BY <1>2, <2>1 DEF QInv, Locked, QuotaRespected, Occupying, Admitted, Past, Limit
  <2> QED BY <2>2, <2>3, <2>4 DEF QInv
<1> QED BY <1>1, <1>2

\* The inductive invariant holds throughout.
THEOREM Invariance == Spec => []QInv
  BY InitQ, NextQ, PTL DEF Spec

\* The state keeps its shape; in particular the quota's status.used, which two
\* controllers count up, down and anew, is never negative.
THEOREM TypeCorrect == Spec => []TypeOK
<1>1. QInv => TypeOK
  BY DEF QInv
<1> QED BY <1>1, Invariance, PTL

\* The project is never promised more slots than its quota: the reservations of
\* the webhook and the objects in its list, paired off by their ages, account
\* for every slot that is held, however long objects take to appear.
THEOREM QuotaAlwaysRespected == Spec => []QuotaRespected
<1>1. QInv => QuotaRespected
  BY DEF QInv
<1> QED BY <1>1, Invariance, PTL

-----------------------------------------------------------------------------
(* At rest: the quota's status                                             *)

\* The FloatingIP that an address is granted to stays, in the cache too.
Granting ==
    \A f \in FIP :
        /\ job[f] \in {"grant", "record"} => Persisted(fip[f]) /\ fip[f].fin /\ Persisted(fcache[f])
        /\ job[f] = "record" => fip[f].st = "granted"

\* A FloatingIP that the cache shows as terminating is not left alone.
Releasing ==
    \A f \in FIP : Persisted(fcache[f]) /\ fcache[f].del =>
        f \in fqueue \/ job[f] = "release" \/ fip[f].st = "gone"

\* The cache has yet to show what makes a difference to the status of the quota.
Outdated(f) ==
    /\ Persisted(fcache[f])
    /\ \/ fcache[f].del
       \/ fcache[f].st # "granted" /\ fip[f].st \in {"granted", "gone"}

\* The status counts what it lists, and differs from what the cache calls for
\* only where the cache is outdated.
Agrees(s) ==
    /\ s.used = Cardinality(s.alloc)
    /\ \A f \in FIP : ~ (f \in s.alloc <=> f \in rebuiltStatus.alloc) => Outdated(f)

\* The quota controller has seen the status right, or made it so.
Rebuilt ==
    qcache.live /\ ~ qcache.del /\ ~ qqueue =>
        qcache.status = rebuiltStatus \/ (quota.live => Agrees(quota.status))

RInv == Granting /\ Releasing /\ Rebuilt

\* What a step may do to an object.
Matures(g) ==
    /\ fip[g].st \in {"granted", "gone"} => fip'[g].st \in {"granted", "gone"}
    /\ fip[g].st = "gone" => fip'[g].st = "gone"
    /\ Persisted(fip[g]) /\ fip[g].fin /\ job[g] # "release" =>
          Persisted(fip'[g]) /\ fip'[g].fin /\ (fip[g].st = "granted" => fip'[g].st = "granted")

\* An object with the finalizer stays as long as nobody removes it, and keeps
\* the address that it was granted.
LEMMA NextMatures ==
  ASSUME QInv, Next, NEW g \in FIP
  PROVE  Matures(g)
<1>t. fip \in [FIP -> FIPObj] /\ Locked /\ None \notin FIP
  BY QuotaAssumption DEF QInv, TypeOK
<1>u. fip'[g] = fip[g] => Matures(g)
  BY DEF Matures
<1>p. ASSUME NEW f \in FIP, NEW st, fip' = [fip EXCEPT ![f].st = st],
             \/ fip[f].st \in {"none", "submitted", "admitted"}
             \/ fip[f].st = "pending" /\ st = "error"
             \/ Persisted(fip[f]) /\ st = "granted"
      PROVE  Matures(g)
  <2> DEFINE obj == [fip[f] EXCEPT !.st = st]
  <2>1. obj.st = st /\ obj.fin = fip[f].fin
    BY <1>t DEF FIPObj
  <2>2. fip' = [fip EXCEPT ![f] = obj]
    BY <1>p
  <2> HIDE DEF obj
  <2>3. CASE g = f
    <3>1. fip'[g].st = st /\ fip'[g].fin = fip[g].fin
      BY <1>t, <2>1, <2>2, <2>3
    <3> QED BY <1>p, <2>3, <3>1 DEF Matures, Persisted
  <2>4. CASE g # f
    <3>1. fip'[g] = fip[g]
      BY <1>t, <2>2, <2>4
    <3> QED BY <1>u, <3>1
  <2> QED BY <2>3, <2>4
<1>r. ASSUME NEW f \in FIP, NEW obj, fip' = [fip EXCEPT ![f] = obj], fip[f].st = "submitted"
      PROVE  Matures(g)
  <2>1. CASE g = f
    BY <1>r, <2>1 DEF Matures, Persisted
  <2>2. CASE g # f
    <3>1. fip'[g] = fip[g]
      BY <1>r, <1>t, <2>2
    <3> QED BY <1>u, <3>1
  <2> QED BY <2>1, <2>2
<1>d. ASSUME Persisted(fip[g]), fip'[g] = Deleted(fip[g])
      PROVE  Matures(g)
  <2>1. CASE fip[g].fin
    <3>1. [fip[g] EXCEPT !.del = TRUE].fin = fip[g].fin /\ [fip[g] EXCEPT !.del = TRUE].st = fip[g].st
      BY <1>t DEF FIPObj
    <3>2. fip'[g].st = fip[g].st /\ fip'[g].fin
      BY <1>d, <2>1, <3>1 DEF Deleted
    <3> QED BY <3>2 DEF Matures, Persisted
  <2>2. CASE ~ fip[g].fin
    <3>1. fip'[g].st = "gone"
      BY <1>d, <2>2 DEF Deleted, Unseen
    <3> QED BY <2>2, <3>1 DEF Matures
  <2> QED BY <2>1, <2>2
<1>l. \A f \in FIP : adm.key = f => fip[f].st = "submitted"
  BY <1>t DEF Locked
<1>1. ASSUME NEW f \in FIP, Webhook(f)
      PROVE  Matures(g)
  <2>1. CASE Submit(f) \/ Persist(f)
    BY <1>p, <2>1 DEF Submit, Persist
  <2>2. CASE ListFloatingIPs(f)
    BY <1>r, <1>u, <2>2 DEF ListFloatingIPs
  <2>3. CASE Decide(f)
    BY <1>l, <1>p, <1>r, <2>3 DEF Decide
  <2> QED BY <1>1, <2>1, <2>2, <2>3 DEF Webhook
<1>2. ASSUME NEW f \in FIP, DeleteFIP(f)
      PROVE  Matures(g)
  BY <1>2, <1>d, <1>t, <1>u DEF DeleteFIP
<1>3. ASSUME NEW f \in FIP, FIPWorker(f)
      PROVE  Matures(g)
  <2>1. CASE AddFinalizer(f)
    <3> DEFINE obj == [fip[f] EXCEPT !.fin = TRUE]
    <3>1. obj.st = fip[f].st /\ obj.fin
      BY <1>t DEF FIPObj
    <3>2. fip' \in {fip, [fip EXCEPT ![f] = obj]}
      BY <2>1 DEF AddFinalizer
    <3> HIDE DEF obj
    <3>3. fip'[g] = fip[g] \/ (fip'[g].st = fip[g].st /\ fip'[g].fin)
      BY <1>t, <3>1, <3>2
    <3> QED BY <1>u, <3>3 DEF Matures, Persisted
  <2>2. CASE GrantFails(f) \/ Grant(f)
    BY <1>p, <1>u, <2>2 DEF GrantFails, Grant
  <2>3. CASE removeFinalizer(f)
    <3> DEFINE obj == [st |-> "gone", del |-> FALSE, fin |-> FALSE]
    <3>1. fip' \in {fip, [fip EXCEPT ![f] = obj]} /\ job[f] = "release"
      BY <2>3 DEF removeFinalizer
    <3>2. obj.st = "gone"
      OBVIOUS
    <3> HIDE DEF obj
    <3>3. fip'[g] = fip[g] \/ (g = f /\ fip'[g].st = "gone")
      BY <1>t, <3>1, <3>2
    <3> QED BY <1>u, <3>1, <3>3 DEF Matures
  <2>4. CASE UNCHANGED fip
    BY <1>u, <2>4
  <2> QED BY <1>3, <2>1, <2>2, <2>3, <2>4 DEF FIPWorker, UpdateSpec, GivesUp, RecordAllocation, Reassert, Unrecord, ForgetKey
<1>4. CASE handleFloatingIPProjectQuotaDelete
  BY <1>4, <1>d, <1>u DEF handleFloatingIPProjectQuotaDelete
<1>5. CASE UNCHANGED fip
  BY <1>5, <1>u
<1> QED BY <1>1, <1>2, <1>3, <1>4, <1>5
        DEF Next, FIPEvent, Tick, QuotaWorker, syncHandler, syncGone, QuotaEvent, DeleteQuota, Restart

\* What a step may do to the work on an object: nothing, the watch shows it anew,
\* or its worker does something.
Quiet(g) == job'[g] = job[g] /\ fcache'[g] = fcache[g] /\ (g \in fqueue <=> g \in fqueue')
Shown(g) ==
    /\ fcache'[g] = Stored(g) /\ fip'[g] = fip[g] /\ job'[g] \in {job[g], "idle"}
    /\ Persisted(Stored(g)) => g \in fqueue'

\* The workers do not meddle with each other's objects.
LEMMA NextWork ==
  ASSUME QInv, Next, NEW g \in FIP
  PROVE  Quiet(g) \/ Shown(g) \/ FIPWorker(g)
<1>t. fcache \in [FIP -> FIPObj] /\ job \in [FIP -> {"idle", "grant", "record", "release"}]
  BY DEF QInv, TypeOK
<1>u. UNCHANGED <<fcache, job, fqueue>> => Quiet(g)
  BY DEF Quiet
<1>1. ASSUME NEW f \in FIP, FIPWorker(f), f # g
      PROVE  Quiet(g)
  <2>1. /\ UNCHANGED fcache /\ fqueue' \in {fqueue, fqueue \ {f}, fqueue \cup {f}}
        /\ UNCHANGED job \/ \E j : job' = [job EXCEPT ![f] = j]
    BY <1>1 DEF FIPWorker, AddFinalizer, UpdateSpec, GrantFails, GivesUp, Grant, RecordAllocation, Reassert, Unrecord,
       removeFinalizer, ForgetKey, Dequeue, caches, queues
  <2> QED BY <1>1, <1>t, <2>1 DEF Quiet
<1>2. ASSUME NEW f \in FIP, FIPEvent(f)
      PROVE  Quiet(g) \/ Shown(g)
  <2>1. /\ UNCHANGED <<fip, job>> /\ fcache' = [fcache EXCEPT ![f] = Stored(f)]
        /\ fqueue' = IF Persisted(Stored(f)) THEN fqueue \cup {f} ELSE fqueue
    BY <1>2 DEF FIPEvent
  <2> QED BY <1>t, <2>1 DEF Quiet, Shown
<1>3. CASE Restart
  <2>1. /\ UNCHANGED fip /\ job' = [f \in FIP |-> "idle"] /\ fcache' = [f \in FIP |-> Stored(f)]
        /\ fqueue' = {f \in FIP : Persisted(Stored(f))}
    BY <1>3 DEF Restart
  <2> QED BY <2>1 DEF Shown
<1>4. ASSUME NEW f \in FIP, Webhook(f) \/ DeleteFIP(f)
      PROVE  Quiet(g)
  BY <1>4, <1>u DEF Webhook, Submit, ListFloatingIPs, Decide, Persist, DeleteFIP, caches, queues
<1>5. CASE Tick \/ QuotaWorker \/ QuotaEvent \/ DeleteQuota
  BY <1>5, <1>u DEF Tick, QuotaWorker, syncHandler, syncGone, handleFloatingIPProjectQuotaDelete, QuotaEvent, DeleteQuota,
     caches, queues
<1> QED BY <1>1, <1>2, <1>3, <1>4, <1>5 DEF Next

\* An object with the finalizer that is granted an address is not lost.
LEMMA GrantingKept ==
  ASSUME QInv, Granting, Next
  PROVE  Granting'
<1>t. fip \in [FIP -> FIPObj] /\ job \in [FIP -> {"idle", "grant", "record", "release"}]
  BY DEF QInv, TypeOK
<1>1. ASSUME NEW g \in FIP, job'[g] \in {"grant", "record"}
      PROVE  /\ Persisted(fip'[g]) /\ fip'[g].fin /\ Persisted(fcache'[g])
             /\ job'[g] = "record" => fip'[g].st = "granted"
  <2>m. Matures(g)
    BY NextMatures
  <2>1. CASE Quiet(g)
    BY <1>1, <2>1, <2>m DEF Quiet, Matures, Granting
  <2>2. CASE Shown(g)
    BY <1>1, <2>2, <2>m DEF Shown, Stored, Matures, Granting
  <2>3. CASE UpdateSpec(g)
    <3>1. UNCHANGED <<fip, fcache>> /\ (UNCHANGED job \/ job' = [job EXCEPT ![g] = "grant"])
      BY <2>3 DEF UpdateSpec, caches
    <3>2. CASE UNCHANGED job
      BY <1>1, <3>1, <3>2 DEF Granting
    <3>3. CASE ~ UNCHANGED job
      <4>1. fip[g] = fcache[g] /\ Persisted(fcache[g]) /\ fcache[g].fin
        BY <2>3, <3>3 DEF UpdateSpec, Allocating, Persisted
      <4>2. job'[g] = "grant"
        BY <1>t, <3>1, <3>3
      <4> QED BY <3>1, <4>1, <4>2
    <3> QED BY <3>2, <3>3
  <2>4. CASE Grant(g)
    <3>1. UNCHANGED fcache /\ job[g] = "grant"
      BY <2>4 DEF Grant, caches
    <3>2. CASE job' = [job EXCEPT ![g] = "record"] /\ fip' = [fip EXCEPT ![g].st = "granted"]
      <4>1. fip'[g].st = "granted"
        BY <1>t, <3>2, PutState
      <4> QED BY <2>m, <3>1, <4>1 DEF Matures, Granting
    <3>3. CASE job' = [job EXCEPT ![g] = "idle"]
      BY <1>1, <1>t, <3>3
    <3> QED BY <2>4, <3>2, <3>3 DEF Grant
  <2>5. CASE RecordAllocation(g) \/ removeFinalizer(g) \/ Unrecord(g)
    BY <1>1, <1>t, <2>5 DEF RecordAllocation, removeFinalizer, Unrecord
  <2>6. CASE UNCHANGED <<job, fcache>>
    BY <1>1, <2>6, <2>m DEF Matures, Granting
  <2>7. CASE FIPWorker(g)
    BY <2>3, <2>4, <2>5, <2>6, <2>7 DEF FIPWorker, AddFinalizer, GrantFails, GivesUp, Reassert, ForgetKey, caches
  <2> QED BY <2>1, <2>2, <2>7, NextWork
<1> QED BY <1>1 DEF Granting

\* A deletion in the cache is worked on until the object has gone.
LEMMA ReleasingKept ==
  ASSUME QInv, Releasing, Next
  PROVE  Releasing'
<1>t. fip \in [FIP -> FIPObj] /\ job \in [FIP -> {"idle", "grant", "record", "release"}]
  BY DEF QInv, TypeOK
<1>1. ASSUME NEW g \in FIP, Persisted(fcache'[g]), fcache'[g].del
      PROVE  g \in fqueue' \/ job'[g] = "release" \/ fip'[g].st = "gone"
  <2>m. fip[g].st = "gone" => fip'[g].st = "gone"
    BY NextMatures DEF Matures
  <2>1. CASE Quiet(g)
    BY <1>1, <2>1, <2>m DEF Quiet, Releasing
  <2>2. CASE Shown(g)
    BY <1>1, <2>2 DEF Shown
  <2>3. CASE FIPWorker(g)
    <3>1. UNCHANGED fcache
      BY <2>3 DEF FIPWorker, AddFinalizer, UpdateSpec, GrantFails, GivesUp, Grant, RecordAllocation, Reassert, Unrecord,
         removeFinalizer, ForgetKey, caches
    <3>2. g \in fqueue \/ job[g] = "release" \/ fip[g].st = "gone"
      BY <1>1, <3>1 DEF Releasing
    <3>3. CASE Unrecord(g)
      BY <1>t, <3>3 DEF Unrecord
    <3>4. CASE removeFinalizer(g)
      <4>1. CASE fip' = [fip EXCEPT ![g] = [st |-> "gone", del |-> FALSE, fin |-> FALSE]]
        BY <1>t, <4>1
      <4> QED BY <3>4, <4>1 DEF removeFinalizer
    <3>5. CASE GrantFails(g)
      BY <2>m, <3>2, <3>5 DEF GrantFails, queues
    <3>6. CASE Grant(g) \/ RecordAllocation(g)
      BY <2>m, <3>2, <3>6 DEF Grant, RecordAllocation
    <3> QED BY <1>1, <2>3, <3>1, <3>3, <3>4, <3>5, <3>6 DEF FIPWorker, AddFinalizer, UpdateSpec, Allocating, GivesUp,
               Reassert, ForgetKey
  <2> QED BY <2>1, <2>2, <2>3, NextWork
<1> QED BY <1>1 DEF Releasing


\* What the status is rebuilt to depends on the cache alone.
LEMMA RebuiltAlloc ==
  /\ rebuiltStatus.alloc = {f \in FIP : Persisted(fcache[f]) /\ fcache[f].st = "granted"}
  /\ rebuiltStatus.used = Cardinality(rebuiltStatus.alloc)
  /\ UNCHANGED fcache => UNCHANGED rebuiltStatus
<1>1. /\ rebuiltStatus.alloc = {f \in {g \in FIP : Persisted(fcache[g])} : fcache[f].st = "granted"}
      /\ rebuiltStatus.used = Cardinality({f \in {g \in FIP : Persisted(fcache[g])} : fcache[f].st = "granted"})
  BY DEF rebuiltStatus
<1>2. UNCHANGED fcache => UNCHANGED rebuiltStatus
  BY DEF rebuiltStatus, Persisted
<1> QED BY <1>1, <1>2

\* As long as the cache stays, a write that lists or drops only what the cache
\* is outdated on, and counts it, leaves the status in agreement.
LEMMA AgreesKept ==
  ASSUME QInv, Next, UNCHANGED fcache, NEW s, NEW t, Agrees(s), NEW f \in FIP,
         \/ t.alloc = s.alloc
         \/ t.alloc \in {s.alloc \cup {f}, s.alloc \ {f}} /\ Outdated(f),
         t.used = Cardinality(t.alloc)
  PROVE  /\ t.used = Cardinality(t.alloc)
         /\ \A g \in FIP : ~ (g \in t.alloc <=> g \in rebuiltStatus'.alloc) => Outdated(g)'
<1>1. ASSUME NEW g \in FIP, ~ (g \in t.alloc <=> g \in rebuiltStatus'.alloc)
      PROVE  Outdated(g)'
  <2>1. UNCHANGED rebuiltStatus
    BY RebuiltAlloc
  <2>2. Outdated(g)
    <3>1. CASE g \in s.alloc <=> g \in rebuiltStatus.alloc
      <4>1. ~ (g \in t.alloc <=> g \in s.alloc)
        BY <1>1, <2>1, <3>1
      <4> QED BY <4>1
    <3>2. CASE ~ (g \in s.alloc <=> g \in rebuiltStatus.alloc)
      BY <3>2 DEF Agrees
    <3> QED BY <3>1, <3>2
  <2>3. fip[g].st \in {"granted", "gone"} => fip'[g].st \in {"granted", "gone"}
    BY NextMatures DEF Matures
  <2> QED BY <2>2, <2>3 DEF Outdated
<1> QED BY <1>1

\* The FloatingIP controller changes the status only where the cache is behind.
LEMMA WorkerAgrees ==
  ASSUME QInv, Granting, Next, NEW f \in FIP, FIPWorker(f), quota'.live, quota.live => Agrees(quota.status)
  PROVE  Agrees(quota.status)'
<1>t. /\ quota \in QuotaObj /\ fcache \in [FIP -> FIPObj]
      /\ quota.status.alloc \in SUBSET FIP /\ quota.status.used \in Nat
  BY DEF QInv, TypeOK, QuotaObj, Status
<1>u. UNCHANGED fcache
  BY DEF FIPWorker, AddFinalizer, UpdateSpec, GrantFails, GivesUp, Grant, RecordAllocation, Reassert, Unrecord,
         removeFinalizer, ForgetKey, caches
<1>a. ASSUME quota.live,
             \/ quota'.status.alloc = quota.status.alloc
             \/ quota'.status.alloc \in {quota.status.alloc \cup {f}, quota.status.alloc \ {f}} /\ Outdated(f),
             quota'.status.used = Cardinality(quota'.status.alloc)
      PROVE  Agrees(quota.status)'
  <2>1. Agrees(quota.status)
    BY <1>a
  <2> DEFINE s == quota.status
             t == quota'.status
  <2>2. Agrees(s) /\ (t.alloc = s.alloc \/ (t.alloc \in {s.alloc \cup {f}, s.alloc \ {f}} /\ Outdated(f)))
        /\ t.used = Cardinality(t.alloc)
    BY <1>a, <2>1
  <2> HIDE DEF s, t
  <2>3. /\ t.used = Cardinality(t.alloc)
        /\ \A g \in FIP : ~ (g \in t.alloc <=> g \in rebuiltStatus'.alloc) => Outdated(g)'
    BY <1>u, <2>2, AgreesKept
  <2> USE DEF t
  <2> QED BY <2>3 DEF Agrees
<1>b. ASSUME UNCHANGED quota
      PROVE  Agrees(quota.status)'
  BY <1>a, <1>b DEF Agrees
<1>1. CASE RecordAllocation(f) /\ ~ UNCHANGED quota
  <2>1. /\ quota.live /\ job[f] = "record"
        /\ quota' = [quota EXCEPT !.status =
                [init  |-> TRUE,
                 alloc |-> @.alloc \cup {f},
                 used  |-> IF f \in @.alloc THEN @.used ELSE @.used + 1]]
    BY <1>1 DEF RecordAllocation
  <2>2. /\ quota'.status.alloc = quota.status.alloc \cup {f}
        /\ quota'.status.used = IF f \in quota.status.alloc THEN quota.status.used ELSE quota.status.used + 1
    BY <1>t, <2>1 DEF QuotaObj
  <2>3. IsFiniteSet(quota.status.alloc)
    BY <1>t, Counts
  <2>4. quota.status.used = Cardinality(quota.status.alloc)
    BY <2>1 DEF Agrees
  <2>5. quota'.status.used = Cardinality(quota'.status.alloc)
    <3>1. CASE f \in quota.status.alloc
      <4>1. quota.status.alloc \cup {f} = quota.status.alloc
        BY <3>1
      <4> QED BY <2>2, <2>4, <3>1, <4>1
    <3>2. CASE f \notin quota.status.alloc
      BY <2>2, <2>3, <2>4, <3>2, FS_AddElement
    <3> QED BY <3>1, <3>2
  <2>6. Persisted(fcache[f]) /\ fip[f].st = "granted"
    BY <2>1 DEF Granting
  <2>7. CASE Outdated(f)
    BY <1>a, <2>1, <2>2, <2>5, <2>7
  <2>8. CASE ~ Outdated(f)
    <3>1. fcache[f].st = "granted"
      BY <2>6, <2>8 DEF Outdated
    <3>2. f \in rebuiltStatus.alloc
      BY <2>6, <3>1, RebuiltAlloc
    <3>3. f \in quota.status.alloc
      BY <2>1, <2>8, <3>2 DEF Agrees
    <3>4. quota'.status.alloc = quota.status.alloc
      BY <2>2, <3>3
    <3> QED BY <1>a, <2>1, <2>5, <3>4
  <2> QED BY <2>7, <2>8
<1>2. CASE Reassert(f) /\ ~ UNCHANGED quota
  <2>1. /\ quota.live /\ fcache[f].st = "granted" /\ ~ fcache[f].del
        /\ quota' = [quota EXCEPT !.status = relisted(@, f)]
    BY <1>2 DEF Reassert
  <2>2. quota'.status.alloc = quota.status.alloc \cup {f} /\ quota'.status.used = quota.status.used
    BY <1>t, <2>1 DEF QuotaObj, Status, relisted
  <2>3. f \in rebuiltStatus.alloc /\ ~ Outdated(f)
    BY <2>1, RebuiltAlloc DEF Outdated, Persisted
  <2>4. f \in quota.status.alloc /\ quota.status.used = Cardinality(quota.status.alloc)
    BY <2>1, <2>3 DEF Agrees
  <2>5. quota'.status.alloc = quota.status.alloc
    BY <2>2, <2>4
  <2> QED BY <1>a, <2>1, <2>2, <2>4, <2>5
<1>3. CASE Unrecord(f) /\ ~ UNCHANGED quota
  <2>1. /\ quota.live /\ f \in quota.status.alloc /\ Persisted(fcache[f]) /\ fcache[f].del
        /\ quota' = [quota EXCEPT !.status = without(@, f)]
    BY <1>3 DEF Unrecord
  <2>2. quota'.status.alloc = quota.status.alloc \ {f} /\ quota'.status.used = decremented(quota.status.used)
    BY <1>t, <2>1 DEF QuotaObj, Status, without
  <2>3. IsFiniteSet(quota.status.alloc)
    BY <1>t, Counts
  <2>4. quota.status.used = Cardinality(quota.status.alloc)
    BY <2>1 DEF Agrees
  <2>5. /\ Cardinality(quota.status.alloc \ {f}) = Cardinality(quota.status.alloc) - 1
        /\ Cardinality(quota.status.alloc \ {f}) \in Nat
    <3>1. Cardinality(quota.status.alloc \ {f}) = Cardinality(quota.status.alloc) - 1
      BY <2>1, <2>3, FS_RemoveElement
    <3>2. quota.status.alloc \ {f} \in SUBSET FIP
      BY <1>t
    <3> QED BY <3>1, <3>2, Counts
  <2>6. quota'.status.used = Cardinality(quota'.status.alloc)
    BY <1>t, <2>2, <2>4, <2>5 DEF decremented
  <2>7. Outdated(f)
    BY <2>1 DEF Outdated
  <2> QED BY <1>a, <2>1, <2>2, <2>6, <2>7
<1> QED BY <1>1, <1>2, <1>3, <1>b DEF FIPWorker, AddFinalizer, UpdateSpec, GrantFails, GivesUp, Grant, removeFinalizer, ForgetKey

\* The quota controller leaves its key queued unless the status is right.
LEMMA RebuiltKept ==
  ASSUME QInv, Granting, Rebuilt, Next
  PROVE  Rebuilt'
<1> SUFFICES ASSUME qcache'.live, ~ qcache'.del, ~ qqueue'
             PROVE  qcache'.status = rebuiltStatus' \/ (quota'.live => Agrees(quota.status)')
  BY DEF Rebuilt
<1>t. quota \in QuotaObj /\ qcache \in QuotaObj /\ qqueue \in BOOLEAN
  BY DEF QInv, TypeOK
<1>u. UNCHANGED <<fcache, qcache>>
  <2>1. CASE \E f \in FIP : FIPEvent(f)
    BY <1>t, <2>1 DEF FIPEvent, enqueueQuotaForFloatingIP
  <2>2. CASE QuotaEvent \/ Restart
    BY <1>t, <2>2 DEF QuotaEvent, Restart
  <2>3. CASE \E f \in FIP : FIPWorker(f)
    BY <2>3 DEF FIPWorker, AddFinalizer, UpdateSpec, GrantFails, GivesUp, Grant, RecordAllocation, Reassert, Unrecord,
           removeFinalizer, ForgetKey, caches
  <2>4. CASE \E f \in FIP : Webhook(f) \/ DeleteFIP(f)
    BY <2>4 DEF Webhook, Submit, ListFloatingIPs, Decide, Persist, DeleteFIP, caches
  <2>5. CASE Tick \/ QuotaWorker \/ DeleteQuota
    BY <2>5 DEF Tick, QuotaWorker, syncHandler, syncGone, handleFloatingIPProjectQuotaDelete, DeleteQuota, caches
  <2> QED BY <2>1, <2>2, <2>3, <2>4, <2>5 DEF Next
<1>v. UNCHANGED rebuiltStatus
  BY <1>u, RebuiltAlloc
<1>w. qcache.live /\ ~ qcache.del
  BY <1>u
<1>1. CASE syncHandler
  <2>1. CASE UpToDate
    BY <1>u, <1>v, <2>1 DEF UpToDate
  <2>2. CASE ~ UpToDate
    <3>1. quota' = [quota EXCEPT !.status = rebuiltStatus]
      BY <1>1, <2>2 DEF syncHandler
    <3>2. quota'.status = rebuiltStatus'
      BY <1>t, <1>v, <3>1 DEF QuotaObj
    <3>3. rebuiltStatus'.used = Cardinality(rebuiltStatus'.alloc)
      BY <1>v, RebuiltAlloc
    <3> QED BY <3>2, <3>3 DEF Agrees
  <2> QED BY <2>1, <2>2
<1>2. ASSUME UNCHANGED qqueue
      PROVE  qcache'.status = rebuiltStatus' \/ (quota'.live => Agrees(quota.status)')
  <2>1. qcache.status = rebuiltStatus \/ (quota.live => Agrees(quota.status))
    BY <1>2, <1>w DEF Rebuilt
  <2>2. CASE qcache.status = rebuiltStatus
    BY <1>u, <1>v, <2>2
  <2>3. CASE quota.live => Agrees(quota.status)
    <3>1. ASSUME NEW f \in FIP, FIPWorker(f)
          PROVE  quota'.live => Agrees(quota.status)'
      BY <2>3, <3>1, WorkerAgrees
    <3>2. ASSUME quota'.live => quota.live /\ quota'.status = quota.status, quota'.live
          PROVE  Agrees(quota.status)'
      <4>1. Agrees(quota.status)
        BY <2>3, <3>2
      <4>2. ASSUME NEW g \in FIP, Outdated(g)
            PROVE  Outdated(g)'
        <5>1. fip[g].st \in {"granted", "gone"} => fip'[g].st \in {"granted", "gone"}
          BY NextMatures DEF Matures
        <5> QED BY <1>u, <4>2, <5>1 DEF Outdated
      <4> QED BY <1>v, <3>2, <4>1, <4>2 DEF Agrees
    <3>3. CASE DeleteQuota
      <4>1. quota'.live => quota.live /\ quota'.status = quota.status
        BY <1>t, <3>3 DEF DeleteQuota, QuotaObj, NoQuota
      <4> QED BY <3>2, <4>1
    <3>4. CASE UNCHANGED quota
      BY <3>2, <3>4
    <3>5. CASE \E f \in FIP : Webhook(f) \/ DeleteFIP(f) \/ FIPEvent(f)
      <4>1. UNCHANGED quota
        BY <3>5 DEF Webhook, Submit, ListFloatingIPs, Decide, Persist, DeleteFIP, FIPEvent
      <4> QED BY <3>4, <4>1
    <3>6. CASE Tick \/ QuotaEvent \/ Restart \/ syncGone
      BY <3>4, <3>6 DEF Tick, QuotaEvent, Restart, syncGone
    <3>7. ~ handleFloatingIPProjectQuotaDelete
      BY <1>w DEF handleFloatingIPProjectQuotaDelete
    <3> QED BY <1>1, <3>1, <3>3, <3>5, <3>6, <3>7 DEF Next, QuotaWorker
  <2> QED BY <2>1, <2>2, <2>3
<1>3. CASE syncGone \/ handleFloatingIPProjectQuotaDelete
  BY <1>3, <1>w DEF syncGone, handleFloatingIPProjectQuotaDelete
<1>4. ASSUME NEW f \in FIP, FIPEvent(f) PROVE UNCHANGED qqueue
  BY <1>4, <1>t DEF FIPEvent, enqueueQuotaForFloatingIP
<1>5. CASE \E f \in FIP : Webhook(f) \/ DeleteFIP(f) \/ FIPWorker(f)
  <2>1. UNCHANGED qqueue
    BY <1>5 DEF Webhook, Submit, ListFloatingIPs, Decide, Persist, DeleteFIP, FIPWorker, AddFinalizer, UpdateSpec,
       GrantFails, GivesUp, Grant, RecordAllocation, Reassert, Unrecord, removeFinalizer, ForgetKey, queues
  <2> QED BY <1>2, <2>1
<1>6. CASE Tick \/ DeleteQuota
  BY <1>2, <1>6 DEF Tick, DeleteQuota, queues
<1>7. CASE QuotaEvent \/ Restart
  <2>1. qcache' = quota /\ (quota.live => qqueue')
    BY <1>7 DEF QuotaEvent, Restart
  <2> QED BY <2>1
<1> QED BY <1>1, <1>2, <1>3, <1>4, <1>5, <1>6, <1>7 DEF Next, QuotaWorker

\* The reason is an invariant.
LEMMA RInvAlways == Spec => []RInv
<1>1. Init => RInv
  <2>1. Init => Granting /\ Releasing
    BY DEF Init, Granting, Releasing, Unseen, Persisted
  <2>2. Init => Rebuilt
    BY DEF Init, Rebuilt
  <2> QED BY <2>1, <2>2 DEF RInv
<1>2. QInv /\ RInv /\ [Next]_vars => RInv'
  <2>1. CASE QInv /\ RInv /\ Next
    BY <2>1, GrantingKept, ReleasingKept, RebuiltKept DEF RInv
  <2>2. CASE RInv /\ UNCHANGED vars
    <3>1. UNCHANGED <<fip, quota, fcache, qcache, job, fqueue, qqueue>>
      BY <2>2 DEF vars, caches, queues
    <3>2. UNCHANGED rebuiltStatus
      BY <3>1, RebuiltAlloc
    <3>3. Granting' /\ Releasing'
      BY <2>2, <3>1 DEF RInv, Granting, Releasing
    <3>4. Rebuilt'
      BY <2>2, <3>1, <3>2 DEF RInv, Rebuilt, Agrees, Outdated
    <3> QED BY <3>3, <3>4 DEF RInv
  <2> QED BY <2>1, <2>2
<1> QED BY <1>1, <1>2, Invariance, PTL DEF Spec

\* At rest the quota's status lists exactly the granted FloatingIPs and counts
\* them, whatever the order in which the quota controller writes it from its
\* cache and the FloatingIP controller adds to it and takes from it.
THEOREM StatusSettles == Spec => []SettledStatus
<1>1. ASSUME QInv, RInv, AtRest, quota.live, ~ quota.del
      PROVE  /\ quota.status.alloc = {f \in FIP : fip[f].st = "granted"}
             /\ quota.status.used = Cardinality(quota.status.alloc)
  <2>t. quota.status.alloc \subseteq FIP
    BY <1>1 DEF QInv, TypeOK, QuotaObj, Status
  <2>1. \A f \in FIP : fcache[f] = Stored(f) /\ job[f] = "idle" /\ f \notin fqueue
    BY <1>1 DEF AtRest, Busy
  <2>2. \A f \in FIP : Persisted(fcache[f]) => fcache[f] = fip[f]
    BY <2>1 DEF Stored, Unseen, Persisted
  <2>3. ASSUME NEW f \in FIP
        PROVE  ~ Outdated(f)
    <3>1. ~ (Persisted(fcache[f]) /\ fcache[f].del)
      <4>1. Persisted(fcache[f]) /\ fcache[f].del => fip[f].st = "gone"
        BY <1>1, <2>1 DEF RInv, Releasing
      <4> QED BY <2>2, <4>1 DEF Persisted
    <3> QED BY <2>2, <3>1 DEF Outdated, Persisted
  <2>4. rebuiltStatus.alloc = {f \in FIP : fip[f].st = "granted"}
    <3>1. \A f \in FIP : Persisted(fcache[f]) /\ fcache[f].st = "granted" <=> fip[f].st = "granted"
      BY <2>1, <2>2 DEF Stored, Persisted
    <3> QED BY <3>1, RebuiltAlloc
  <2>5. qcache = quota /\ ~ qqueue
    BY <1>1 DEF AtRest
  <2>6. quota.status = rebuiltStatus \/ Agrees(quota.status)
    BY <1>1, <2>5 DEF RInv, Rebuilt
  <2>7. CASE quota.status = rebuiltStatus
    BY <2>4, <2>7, RebuiltAlloc
  <2>8. CASE Agrees(quota.status)
    <3>1. quota.status.alloc = rebuiltStatus.alloc
      BY <2>3, <2>4, <2>8, <2>t DEF Agrees
    <3> QED BY <2>4, <2>8, <3>1 DEF Agrees
  <2> QED BY <2>6, <2>7, <2>8
<1>2. QInv /\ RInv => SettledStatus
  BY <1>1 DEF SettledStatus
<1> QED BY <1>2, Invariance, RInvAlways, PTL
=============================================================================
