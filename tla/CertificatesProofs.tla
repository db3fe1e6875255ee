------------------------- MODULE CertificatesProofs -------------------------
(***************************************************************************)
(* Proofs about the webhook's certificate: the timing argument of the      *)
(* renewal scheduler for every renewal period and every remaining lifetime,*)
(* and what the pods keep and answer with, for any keys, lifetimes, bounds *)
(* and failures.                                                           *)
(***************************************************************************)
EXTENDS Certificates, TLAPS

-----------------------------------------------------------------------------
(* The schedule                                                            *)

\* AtMost and AtLeast are the minimum and the maximum.
LEMMA Clamps ==
    ASSUME NEW a \in Int, NEW b \in Int
    PROVE  /\ AtMost(a, b) \in {a, b} /\ AtMost(a, b) <= a /\ AtMost(a, b) <= b
           /\ AtLeast(a, b) \in {a, b} /\ AtLeast(a, b) >= a /\ AtLeast(a, b) >= b
BY DEF AtMost, AtLeast

\* A third, rounded down, is what Go's integer division yields of a lifetime
\* that is not over.
LEMMA Third ==
    ASSUME NEW left \in Nat
    PROVE  /\ left \div 3 \in Nat
           /\ 3 * (left \div 3) <= left
BY Z3

\* parseAppEnv yields a period that the schedule can work with, whatever
\* CERTRENEWALPERIOD holds: the assumption PeriodAssumption is justified.
THEOREM PeriodIsSane ==
    ASSUME NEW value \in Int, NEW default \in Int, NEW min \in Nat \ {0}, NEW max \in Nat,
           min <= max
    PROVE  ClampedPeriod(value, default, min, max) \in min .. max
<1> DEFINE given == IF value = 0 THEN default ELSE value
<1>1. given \in Int
  OBVIOUS
<1>2. AtLeast(given, min) \in Int /\ AtLeast(given, min) >= min
  BY <1>1, Clamps
<1> HIDE DEF given
<1>3. AtMost(AtLeast(given, min), max) \in min .. max
  BY <1>2, Clamps
<1> QED
  BY <1>3 DEF ClampedPeriod, given

\* renewalCheckIntervalMinutes keeps what its comment says: a tick is never
\* shorter than a minute, never longer than the renewal period, and a
\* certificate of at least three minutes is looked at three times in what is
\* left of its life.
THEOREM IntervalIsBounded ==
    ASSUME NEW left \in Int
    PROVE  LET wait == renewalCheckIntervalMinutes(left) IN
           /\ wait \in 1 .. certRenewalPeriod
           /\ left >= 3 => 3 * wait <= left
<1> DEFINE third   == IF left < 0 THEN 0 ELSE left \div 3
           maxWait == AtLeast(AtMost(third, certRenewalPeriod), 1)
           raw     == left - certRenewalPeriod + 1
           wait    == AtLeast(AtMost(raw, maxWait), 1)
<1>1. certRenewalPeriod \in Int /\ certRenewalPeriod >= 1
  BY PeriodAssumption
<1>2. third \in Nat /\ (left >= 0 => 3 * third <= left)
  <2>1. CASE left < 0
    BY <2>1
  <2>2. CASE left >= 0
    BY <2>2, Third
  <2> QED
    BY <2>1, <2>2
<1>3. left >= 3 => third >= 1
  BY Z3
<1> HIDE DEF third
<1>4. /\ AtMost(third, certRenewalPeriod) \in Int
      /\ AtMost(third, certRenewalPeriod) <= third
      /\ AtMost(third, certRenewalPeriod) <= certRenewalPeriod
  BY <1>1, <1>2, Clamps
<1>5. /\ maxWait \in 1 .. certRenewalPeriod
      /\ third >= 1 => maxWait <= third
  BY <1>1, <1>2, <1>4 DEF AtLeast
<1>6. raw \in Int
  BY <1>1
<1> HIDE DEF maxWait, raw
<1>7. wait \in 1 .. maxWait
  BY <1>5, <1>6 DEF AtMost, AtLeast
<1> HIDE DEF wait
<1>8. wait \in 1 .. certRenewalPeriod /\ (left >= 3 => 3 * wait <= left)
  BY <1>1, <1>2, <1>3, <1>5, <1>7
<1> QED
  BY <1>8 DEF renewalCheckIntervalMinutes, wait, maxWait, third, raw

\* A certificate that a check leaves alone is looked at again before it is too
\* late: at least certRenewalPeriod - 1 minutes remain at the next tick, so
\* the first check that renews has that long to succeed.
THEOREM NextCheckInTime ==
    ASSUME NEW left \in Int, ~ MustRenew(left)
    PROVE  left - renewalCheckIntervalMinutes(left) >= certRenewalPeriod - 1
<1> DEFINE third   == IF left < 0 THEN 0 ELSE left \div 3
           maxWait == AtLeast(AtMost(third, certRenewalPeriod), 1)
           raw     == left - certRenewalPeriod + 1
<1>1. certRenewalPeriod \in Int /\ left >= certRenewalPeriod
  BY PeriodAssumption DEF MustRenew
<1>2. raw \in Int /\ raw >= 1
  BY <1>1
<1>3. third \in Int
  BY Third
<1>4. maxWait \in Int
  BY <1>1, <1>3 DEF AtLeast, AtMost
<1> HIDE DEF raw, maxWait
<1>5. AtLeast(AtMost(raw, maxWait), 1) \in Int /\ AtLeast(AtMost(raw, maxWait), 1) <= raw
  BY <1>2, <1>4 DEF AtLeast, AtMost
<1>6. renewalCheckIntervalMinutes(left) = AtLeast(AtMost(raw, maxWait), 1)
  BY DEF renewalCheckIntervalMinutes, raw, maxWait
<1> QED
  BY <1>1, <1>5, <1>6 DEF raw

-----------------------------------------------------------------------------
(* Types                                                                   *)

\* What a pod has at hand: a key from the request on, a pair from the answer
\* or from the Secret on.
Holds ==
    \A p \in Pod :
        /\ job[p].at \in {"approve", "poll"} => job[p].held.key \in Key
        /\ job[p].at \in {"store", "writeKey", "writeCert"} => job[p].held \in Pair

\* A request that is signed has its certificate.
Answers == csr # None /\ csr.st = "signed" => csr.crt \in Cert

TypeInv ==
    /\ TypeOK /\ Holds /\ Answers
    /\ case \in Cases /\ spent \in [Bounded -> Nat]

\* The job of one pod changes, to what its step may hold.
LEMMA JobTypes ==
  ASSUME TypeInv, NEW p \in Pod, NEW j \in Job, job' = [job EXCEPT ![p] = j],
         j.at \in {"approve", "poll"} => j.held.key \in Key,
         j.at \in {"store", "writeKey", "writeCert"} => j.held \in Pair
  PROVE  job' \in [Pod -> Job] /\ Holds'
<1>1. job \in [Pod -> Job]
  BY DEF TypeInv, TypeOK
<1> QED BY <1>1 DEF TypeInv, Holds

\* A step of the same pod with what it holds.
LEMMA GotoTypes ==
  ASSUME TypeInv, NEW p \in Pod, NEW step \in Steps, Goto(p, step),
         step \in {"approve", "poll"} => job[p].held.key \in Key,
         step \in {"store", "writeKey", "writeCert"} => job[p].held \in Pair
  PROVE  job' \in [Pod -> Job] /\ Holds'
<1> DEFINE j == [job[p] EXCEPT !.at = step]
<1>1. job \in [Pod -> Job]
  BY DEF TypeInv, TypeOK
<1>2. j \in Job /\ j.at = step /\ j.held = job[p].held
  BY <1>1 DEF Job
<1>3. job' = [job EXCEPT ![p] = j]
  BY <1>1 DEF Goto
<1> HIDE DEF j
<1> QED BY <1>2, <1>3, JobTypes

\* A step of the same pod with something else at hand.
LEMMA HoldTypes ==
  ASSUME TypeInv, NEW p \in Pod, NEW step \in Steps, NEW pair, Hold(p, step, pair),
         pair \in [key : Key \cup {None}, crt : Cert \cup {None}],
         step \in {"approve", "poll"} => pair.key \in Key,
         step \in {"store", "writeKey", "writeCert"} => pair \in Pair
  PROVE  job' \in [Pod -> Job] /\ Holds'
<1> DEFINE j == [job[p] EXCEPT !.at = step, !.held = pair]
<1>1. job \in [Pod -> Job]
  BY DEF TypeInv, TypeOK
<1>2. j \in Job /\ j.at = step /\ j.held = pair
  BY <1>1 DEF Job
<1>3. job' = [job EXCEPT ![p] = j]
  BY <1>1 DEF Hold
<1> HIDE DEF j
<1> QED BY <1>2, <1>3, JobTypes

\* A Run that fails.
LEMMA FailTypes ==
  ASSUME TypeInv, NEW p \in Pod, FailRun(p)
  PROVE  job' \in [Pod -> Job] /\ Holds'
<1> DEFINE j == [job[p] EXCEPT !.at = AfterFailure(p), !.ok = FALSE, !.held = NoFiles]
<1>1. job \in [Pod -> Job]
  BY DEF TypeInv, TypeOK
<1>2. AfterFailure(p) \in {"arm", "push"}
  BY DEF AfterFailure
<1>3. NoFiles \in [key : Key \cup {None}, crt : Cert \cup {None}]
  BY DEF NoFiles
<1>4. j \in Job /\ j.at = AfterFailure(p)
  BY <1>1, <1>2, <1>3 DEF Job, Steps
<1>5. job' = [job EXCEPT ![p] = j]
  BY <1>1 DEF FailRun
<1> HIDE DEF j
<1> QED BY <1>2, <1>4, <1>5, JobTypes

\* A call that fails is counted.
LEMMA FaultTypes ==
  ASSUME TypeInv, NEW p \in Pod, Fault(p), UNCHANGED case
  PROVE  failed' \in [Pod -> 0 .. case'.bound["fault"]]
<1>1. case.bound["fault"] \in Nat
  BY CertAssumption DEF TypeInv, Bounded
<1> QED BY <1>1 DEF TypeInv, TypeOK, Fault

\* What the steps of a Run leave alone.
LEMMA Frame ==
  ASSUME TypeInv, job' \in [Pod -> Job], Holds', UNCHANGED <<mem, serving, timer, spent, case>>,
         secret' \in Pair \cup {None, Broken}, mixed' \in BOOLEAN, late' \subseteq Pod,
         csr' \in CSR \cup {None},
         Answers', disk' \in [Pod -> [key : Key \cup {None}, crt : Cert \cup {None}]],
         failed' \in [Pod -> 0 .. case'.bound["fault"]]
  PROVE  TypeInv'
  BY DEF TypeInv, TypeOK

\* Every step of Run keeps the types.
LEMMA RunTypes ==
  ASSUME TypeInv, NEW p \in Pod, Run(p), UNCHANGED case
  PROVE  TypeInv'
<1>t. /\ job \in [Pod -> Job] /\ job[p] \in Job
      /\ secret \in Pair \cup {None, Broken}
      /\ csr \in CSR \cup {None}
      /\ disk \in [Pod -> [key : Key \cup {None}, crt : Cert \cup {None}]]
      /\ failed \in [Pod -> 0 .. case.bound["fault"]]
      /\ mixed \in BOOLEAN /\ late \subseteq Pod
  BY DEF TypeInv, TypeOK
<1>n. NoFiles \in [key : Key \cup {None}, crt : Cert \cup {None}]
  BY DEF NoFiles
<1>a. UNCHANGED csr => Answers'
  BY DEF TypeInv, Answers
<1>1. CASE checkSecret(p)
  <2> DEFINE j == [job[p] EXCEPT !.at = IF secret = None THEN "checkCSR" ELSE "checkExpire",
                                 !.ok = TRUE, !.fresh = (secret = None)]
  <2>1. (IF secret = None THEN "checkCSR" ELSE "checkExpire") \in {"checkCSR", "checkExpire"}
    OBVIOUS
  <2>2. j \in Job /\ j.at \in {"checkCSR", "checkExpire"}
    BY <1>t, <2>1 DEF Job, Steps
  <2>3. job' = [job EXCEPT ![p] = j]
    BY <1>1, <1>t DEF checkSecret
  <2> HIDE DEF j
  <2>4. job' \in [Pod -> Job] /\ Holds'
    BY <2>2, <2>3, JobTypes
  <2> QED BY <1>1, <1>t, <1>a, <2>4, Frame DEF checkSecret
<1>2. CASE checkCertExpireDate(p)
  <2>1. job' \in [Pod -> Job] /\ Holds'
    BY <1>2, GotoTypes DEF checkCertExpireDate, Steps
  <2>2. failed' \in [Pod -> 0 .. case'.bound["fault"]]
    BY <1>2, <1>t, FaultTypes DEF checkCertExpireDate
  <2> QED BY <1>2, <1>t, <1>a, <2>1, <2>2, Frame DEF checkCertExpireDate
<1>3. CASE checkCSR(p)
  <2>1. job' \in [Pod -> Job] /\ Holds'
    BY <1>3, GotoTypes DEF checkCSR, Steps
  <2> QED BY <1>3, <1>t, <1>a, <2>1, Frame DEF checkCSR
<1>4. CASE deleteCSR(p)
  <2>1. job' \in [Pod -> Job] /\ Holds'
    BY <1>4, GotoTypes, FailTypes DEF deleteCSR, Steps
  <2>2. csr' \in {None, csr} /\ Answers'
    BY <1>4, <1>a DEF deleteCSR, Answers
  <2> QED BY <1>4, <1>t, <2>1, <2>2, Frame DEF deleteCSR
<1>5. CASE createCSR(p)
  <2>1. CASE csr # None /\ FailRun(p) /\ UNCHANGED csr
    BY <1>5, <2>1, <1>t, <1>a, FailTypes, Frame DEF createCSR
  <2>2. CASE ~ (csr # None /\ FailRun(p) /\ UNCHANGED csr)
    <3> DEFINE k == CHOOSE k \in Key : k \notin KeysInUse
    <3>1. k \in Key
      BY <1>5, <2>2 DEF createCSR
    <3>2. csr' = [key |-> k, st |-> "new", crt |-> None] /\ Hold(p, "approve", [key |-> k, crt |-> None])
      BY <1>5, <2>2 DEF createCSR
    <3> HIDE DEF k
    <3>3. job' \in [Pod -> Job] /\ Holds'
      BY <3>1, <3>2, HoldTypes DEF Steps
    <3>4. Answers'
      BY <3>2 DEF Answers
    <3>5. csr' \in CSR
      BY <3>1, <3>2 DEF CSR
    <3> QED BY <1>5, <1>t, <3>3, <3>4, <3>5, Frame DEF createCSR
  <2> QED BY <2>1, <2>2
<1>6. CASE approveCSR(p)
  <2>1. job' \in [Pod -> Job] /\ Holds'
    BY <1>6, GotoTypes, FailTypes DEF approveCSR, Steps, TypeInv, Holds, At
  <2>2. /\ csr' \in CSR \cup {None}
        /\ Answers'
    BY <1>6, <1>t, <1>a DEF approveCSR, Answers, OwnCSR, CSR
  <2> QED BY <1>6, <1>t, <2>1, <2>2, Frame DEF approveCSR
<1>7. CASE pollCSR(p)
  <2>1. CASE FailRun(p)
    BY <1>7, <2>1, <1>t, <1>a, FailTypes, Frame DEF pollCSR
  <2>2. CASE ~ FailRun(p)
    <3> DEFINE pair == [job[p].held EXCEPT !.crt = csr.crt]
    <3>1. csr # None /\ csr.st = "signed" /\ Hold(p, "store", pair)
      BY <1>7, <2>2 DEF pollCSR
    <3>2. csr.crt \in Cert /\ job[p].held.key \in Key
      BY <1>7, <3>1 DEF TypeInv, Answers, Holds, pollCSR, At
    <3>3. pair \in Pair /\ pair \in [key : Key \cup {None}, crt : Cert \cup {None}]
      BY <1>t, <3>2 DEF Job, Pair
    <3> HIDE DEF pair
    <3>4. job' \in [Pod -> Job] /\ Holds'
      BY <3>1, <3>3, HoldTypes DEF Steps
    <3> QED BY <1>7, <1>t, <1>a, <3>4, Frame DEF pollCSR
  <2> QED BY <2>1, <2>2
<1>8. CASE storeSecret(p)
  <2>1. job' \in [Pod -> Job] /\ Holds'
    BY <1>8, <1>n, HoldTypes, FailTypes DEF storeSecret, Steps
  <2>2. secret' \in Pair \cup {None, Broken}
    BY <1>8, <1>t DEF storeSecret, TypeInv, Holds, At
  <2>3. mixed' \in BOOLEAN
    BY <1>8, <1>t DEF storeSecret
  <2> QED BY <1>8, <1>t, <1>a, <2>1, <2>2, <2>3, Frame DEF storeSecret
<1>9. CASE readSecret(p)
  <2>1. secret # None /\ secret # Broken => secret \in Pair /\ secret \in [key : Key \cup {None}, crt : Cert \cup {None}]
    BY <1>t DEF Pair
  <2>2. job' \in [Pod -> Job] /\ Holds'
    BY <1>9, <2>1, HoldTypes, FailTypes DEF readSecret, Steps
  <2> QED BY <1>9, <1>t, <1>a, <2>2, Frame DEF readSecret
<1>10. CASE writeKey(p)
  <2>1. job[p].held \in Pair
    BY <1>10 DEF writeKey, TypeInv, Holds, At
  <2>2. job' \in [Pod -> Job] /\ Holds'
    BY <1>10, <2>1, GotoTypes DEF writeKey, Steps
  <2>3. disk' \in [Pod -> [key : Key \cup {None}, crt : Cert \cup {None}]]
    BY <1>10, <1>t, <2>1 DEF writeKey, Pair
  <2> QED BY <1>10, <1>t, <1>a, <2>2, <2>3, Frame DEF writeKey
<1>11. CASE writeCert(p)
  <2>1. job[p].held \in Pair
    BY <1>11 DEF writeCert, TypeInv, Holds, At
  <2>2. job' \in [Pod -> Job] /\ Holds'
    BY <1>11, <1>n, HoldTypes DEF writeCert, Steps
  <2>3. disk' \in [Pod -> [key : Key \cup {None}, crt : Cert \cup {None}]]
    BY <1>11, <1>t, <2>1 DEF writeCert, Pair
  <2>4. late' \subseteq Pod
    BY <1>11, <1>t DEF writeCert
  <2> QED BY <1>11, <1>t, <1>a, <2>2, <2>3, <2>4, Frame DEF writeCert
<1> QED BY <1>1, <1>2, <1>3, <1>4, <1>5, <1>6, <1>7, <1>8, <1>9, <1>10, <1>11 DEF Run

\* The scheduler's steps, a start and a failing call keep the types.
LEMMA SchedulerTypes ==
  ASSUME TypeInv, NEW p \in Pod, CallFails(p) \/ Scheduler(p) \/ StartPod(p), UNCHANGED case
  PROVE  TypeInv'
<1>t. /\ job \in [Pod -> Job] /\ job[p] \in Job
      /\ secret \in Pair \cup {None, Broken}
      /\ disk \in [Pod -> [key : Key \cup {None}, crt : Cert \cup {None}]]
      /\ mem \in [Pod -> Pair \cup {None}]
      /\ failed \in [Pod -> 0 .. case.bound["fault"]]
      /\ timer \in [Pod -> 0 .. certRenewalPeriod]
      /\ serving \subseteq Pod /\ late \subseteq Pod
  BY DEF TypeInv, TypeOK
<1>a. UNCHANGED csr => Answers'
  BY DEF TypeInv, Answers
<1>b. case.bound["fault"] \in Nat
  BY CertAssumption DEF TypeInv, Bounded
<1>1. CASE CallFails(p)
  <2>1. job' \in [Pod -> Job] /\ Holds'
    BY <1>1, FailTypes DEF CallFails
  <2>2. failed' \in [Pod -> 0 .. case'.bound["fault"]]
    BY <1>1, FaultTypes DEF CallFails
  <2> QED BY <1>1, <1>a, <2>1, <2>2 DEF CallFails, TypeInv, TypeOK
<1>2. CASE push(p)
  <2>1. job' \in [Pod -> Job] /\ Holds'
    BY <1>2, GotoTypes DEF push, Steps
  <2>2. Servable => secret \in Pair
    BY <1>t DEF Servable, Matches, Broken
  <2>3. mem' \in [Pod -> Pair \cup {None}]
    BY <1>2, <1>t, <2>2 DEF push
  <2>4. failed' \in [Pod -> 0 .. case'.bound["fault"]]
    BY <1>2, <1>t, <1>b, FaultTypes DEF push
  <2> QED BY <1>2, <1>a, <2>1, <2>3, <2>4 DEF push, TypeInv, TypeOK
<1>3. CASE restartService(p)
  <2>1. job' \in [Pod -> Job] /\ Holds'
    BY <1>3, GotoTypes DEF restartService, Steps
  <2> QED BY <1>3, <1>t, <1>a, <2>1 DEF restartService, TypeInv, TypeOK
<1>4. CASE StartCertRenewalScheduler(p)
  <2> DEFINE j == [job[p] EXCEPT !.at = "idle", !.boot = FALSE]
             wait == IF disk[p].crt = None THEN 1 ELSE renewalCheckIntervalMinutes(disk[p].crt.left)
  <2>1. j \in Job /\ j.at = "idle"
    BY <1>t DEF Job, Steps
  <2>2. job' = [job EXCEPT ![p] = j]
    BY <1>4, <1>t DEF StartCertRenewalScheduler
  <2>3. disk[p].crt # None => disk[p].crt.left \in Int
    BY <1>t, CertAssumption DEF Cert, Left
  <2>4. wait \in 0 .. certRenewalPeriod
    BY <2>3, IntervalIsBounded, PeriodAssumption
  <2>5. timer' = [timer EXCEPT ![p] = wait]
    BY <1>4 DEF StartCertRenewalScheduler
  <2> HIDE DEF j, wait
  <2>6. job' \in [Pod -> Job] /\ Holds'
    BY <2>1, <2>2, JobTypes
  <2>7. timer' \in [Pod -> 0 .. certRenewalPeriod]
    BY <1>t, <2>4, <2>5
  <2>8. serving' \subseteq Pod
    BY <1>4, <1>t DEF StartCertRenewalScheduler
  <2> QED BY <1>4, <1>a, <2>6, <2>7, <2>8 DEF StartCertRenewalScheduler, TypeInv, TypeOK
<1>5. CASE renewCertificate(p)
  <2>1. job' \in [Pod -> Job] /\ Holds'
    BY <1>5, GotoTypes DEF renewCertificate, Steps
  <2> QED BY <1>5, <1>a, <2>1 DEF renewCertificate, TypeInv, TypeOK
<1>6. CASE StartPod(p)
  <2> DEFINE j == [Off EXCEPT !.at = "checkSecret"]
  <2>1. j \in Job /\ j.at = "checkSecret"
    BY DEF Job, Steps, Off, NoFiles
  <2>2. job' = [job EXCEPT ![p] = j]
    BY <1>6 DEF StartPod
  <2> HIDE DEF j
  <2>3. job' \in [Pod -> Job] /\ Holds'
    BY <2>1, <2>2, JobTypes
  <2>4. late' \subseteq Pod
    BY <1>6, <1>t DEF StartPod
  <2> QED BY <1>6, <1>a, <2>3, <2>4 DEF StartPod, TypeInv, TypeOK
<1> QED BY <1>1, <1>2, <1>3, <1>4, <1>5, <1>6 DEF Scheduler

\* What a minute does to a certificate.
LEMMA SoonerTypes ==
  ASSUME NEW crt \in Cert \cup {None}
  PROVE  /\ Sooner(crt) \in Cert \cup {None}
         /\ Sooner(crt) = None <=> crt = None
         /\ crt # None => /\ Sooner(crt).key = crt.key
                          /\ Sooner(crt).left = (IF crt.left = -1 THEN -1 ELSE crt.left - 1)
<1>0. Life \in Nat
  BY CertAssumption
<1>1. CASE crt = None \/ crt.left = -1
  BY <1>0, <1>1 DEF Sooner, Cert, Left
<1>2. CASE crt # None /\ crt.left # -1
  <2> DEFINE n == crt.left - 1
  <2>1. crt \in Cert /\ crt.left \in 0 .. Life
    BY <1>0, <1>2 DEF Cert, Left
  <2>2. n \in Left /\ n = crt.left - 1
    BY <1>0, <2>1 DEF Left
  <2>3. Sooner(crt) = [crt EXCEPT !.left = n]
    BY <1>2 DEF Sooner
  <2> HIDE DEF n
  <2>4. Sooner(crt) \in Cert /\ Sooner(crt).key = crt.key /\ Sooner(crt).left = n
    BY <2>1, <2>2, <2>3 DEF Cert
  <2> QED BY <1>2, <2>2, <2>4, MaterialAssumption
<1> QED BY <1>1, <1>2

\* What a minute does to a pair.
LEMMA AgedTypes ==
  ASSUME NEW pair \in [key : Key \cup {None}, crt : Cert \cup {None}]
  PROVE  /\ Aged(pair) \in [key : Key \cup {None}, crt : Cert \cup {None}]
         /\ Aged(pair).key = pair.key /\ Aged(pair).crt = Sooner(pair.crt)
         /\ pair \in Pair => Aged(pair) \in Pair
<1> DEFINE c == Sooner(pair.crt)
<1>1. Aged(pair) = [pair EXCEPT !.crt = c]
  BY DEF Aged
<1>2. c \in Cert \cup {None} /\ (pair.crt # None => c # None)
  BY SoonerTypes
<1> HIDE DEF c
<1>3. Aged(pair) \in [key : Key \cup {None}, crt : Cert \cup {None}]
      /\ Aged(pair).key = pair.key /\ Aged(pair).crt = c
  BY <1>1, <1>2
<1>4. pair \in Pair => Aged(pair) \in Pair
  BY <1>1, <1>2, MaterialAssumption DEF Pair
<1> QED BY <1>3, <1>4 DEF c

\* The signer, time, and what goes wrong with a pod or the Secret.
LEMMA OtherTypes ==
  ASSUME TypeInv, Signer \/ Time \/ Trouble
  PROVE  TypeInv'
<1>t. /\ job \in [Pod -> Job]
      /\ secret \in Pair \cup {None, Broken}
      /\ csr \in CSR \cup {None}
      /\ disk \in [Pod -> [key : Key \cup {None}, crt : Cert \cup {None}]]
      /\ mem \in [Pod -> Pair \cup {None}]
      /\ timer \in [Pod -> 0 .. certRenewalPeriod]
      /\ serving \subseteq Pod /\ spent \in [Bounded -> Nat]
  BY DEF TypeInv, TypeOK
<1>a. UNCHANGED csr => Answers'
  BY DEF TypeInv, Answers
<1>h. UNCHANGED job => Holds'
  BY DEF TypeInv, Holds
<1>0. Life \in Left
  BY CertAssumption DEF Left
<1>1. CASE Signer
  <2>1. csr' \in CSR /\ Answers'
    BY <1>1, <1>t, <1>0 DEF Signer, Sign, Cert, Answers, CSR
  <2> QED BY <1>1, <1>h, <2>1 DEF Signer, Sign, TypeInv, TypeOK
<1>2. CASE Time
  <2>1. secret' \in Pair \cup {None, Broken}
    <3>1. Aged(Broken) = Broken
      BY DEF Aged, Broken, Sooner
    <3>2. secret \in Pair => Aged(secret) \in Pair
      BY AgedTypes DEF Pair
    <3> QED BY <1>2, <1>t, <3>1, <3>2 DEF Time, Minute
  <2>2. csr = None \/ csr' = [csr EXCEPT !.crt = Sooner(csr.crt)]
    BY <1>2 DEF Time, Minute, Aged
  <2>3. csr = None => csr' = None
    BY <1>2 DEF Time, Minute
  <2>4. /\ csr' \in CSR \cup {None}
        /\ Answers'
    BY <1>t, <2>2, <2>3, SoonerTypes DEF Answers, TypeInv, CSR
  <2>5. disk' \in [Pod -> [key : Key \cup {None}, crt : Cert \cup {None}]]
    BY <1>2, <1>t, AgedTypes DEF Time, Minute
  <2>6. mem' \in [Pod -> Pair \cup {None}]
    <3>1. \A p \in Pod : mem[p] # None => mem[p] \in [key : Key \cup {None}, crt : Cert \cup {None}]
      BY <1>t DEF Pair
    <3> QED BY <1>2, <1>t, <3>1, AgedTypes DEF Time, Minute
  <2>7. timer' \in [Pod -> 0 .. certRenewalPeriod]
    BY <1>2, <1>t, PeriodAssumption DEF Time, Minute
  <2> QED BY <1>2, <1>h, <2>1, <2>4, <2>5, <2>6, <2>7 DEF Time, Minute, TypeInv, TypeOK
<1>3. CASE LoseSecret /\ UNCHANGED case
  <2>1. spent' \in [Bounded -> Nat]
    BY <1>3, <1>t DEF LoseSecret, Spend, Bounded
  <2> QED BY <1>3, <1>a, <1>h, <2>1 DEF LoseSecret, TypeInv, TypeOK
<1>4. ASSUME NEW p \in Pod, Crash(p), UNCHANGED case PROVE TypeInv'
  <2>1. Off \in Job /\ Off.at = "off"
    BY DEF Off, Job, Steps, NoFiles
  <2>2. job' \in [Pod -> Job] /\ Holds'
    BY <1>4, <2>1, JobTypes DEF Crash
  <2>3. disk' \in [Pod -> [key : Key \cup {None}, crt : Cert \cup {None}]]
    BY <1>4, <1>t DEF Crash, NoFiles
  <2>4. spent' \in [Bounded -> Nat]
    BY <1>4, <1>t DEF Crash, Spend, Bounded
  <2>5. mem' \in [Pod -> Pair \cup {None}] /\ timer' \in [Pod -> 0 .. certRenewalPeriod] /\ serving' \subseteq Pod
    BY <1>4, <1>t, PeriodAssumption DEF Crash
  <2> QED BY <1>4, <1>a, <2>2, <2>3, <2>4, <2>5 DEF Crash, TypeInv, TypeOK
<1>5. ASSUME NEW p \in Pod, ServerDies(p), UNCHANGED case PROVE TypeInv'
  <2>1. spent' \in [Bounded -> Nat]
    BY <1>5, <1>t DEF ServerDies, Spend, Bounded
  <2> QED BY <1>5, <1>t, <1>a, <1>h, <2>1 DEF ServerDies, TypeInv, TypeOK
<1> QED BY <1>1, <1>2, <1>3, <1>4, <1>5 DEF Trouble

\* The initial states have the types.
LEMMA InitTypes == Init => TypeInv
<1> SUFFICES ASSUME Init PROVE TypeInv
  OBVIOUS
<1> DEFINE k == CHOOSE k \in Key : TRUE
<1>1. k \in Key
  BY CertAssumption
<1>2. Life \in Nat /\ -1 \in Left /\ 1 \in Left /\ Life \in Left
  BY CertAssumption, PeriodAssumption DEF Left
<1>3. secret \in {None, Broken} \cup {[key |-> k, crt |-> [key |-> k, left |-> n]] : n \in {-1, 1, Life}}
  BY DEF Init
<1> HIDE DEF k
<1>4. secret \in Pair \cup {None, Broken}
  BY <1>1, <1>2, <1>3 DEF Pair, Cert
<1>5. Off \in Job /\ Off.at = "off"
  BY DEF Off, Job, Steps, NoFiles
<1>6. case \in Cases /\ case.bound["fault"] \in Nat
  BY CertAssumption DEF Init, Bounded
<1>7. disk \in [Pod -> [key : Key \cup {None}, crt : Cert \cup {None}]]
  BY DEF Init, NoFiles
<1>8. job \in [Pod -> Job] /\ Holds
  BY <1>5 DEF Init, Holds
<1>9. timer \in [Pod -> 0 .. certRenewalPeriod] /\ failed \in [Pod -> 0 .. case.bound["fault"]]
  BY <1>6, PeriodAssumption DEF Init
<1> QED BY <1>4, <1>6, <1>7, <1>8, <1>9 DEF Init, TypeInv, TypeOK, Answers

\* Every step keeps the types.
LEMMA NextTypes == TypeInv /\ [Next]_vars => TypeInv'
<1> SUFFICES ASSUME TypeInv, [Next]_vars PROVE TypeInv'
  OBVIOUS
<1>1. CASE UNCHANGED vars
  BY <1>1 DEF vars, TypeInv, TypeOK, Holds, Answers
<1>2. CASE Next
  BY <1>2, RunTypes, SchedulerTypes, OtherTypes DEF Next, PodStep
<1> QED BY <1>1, <1>2

\* The state keeps its shape, with what a pod has at hand at each step.
THEOREM Typing == Spec => []TypeInv
  BY InitTypes, NextTypes, PTL DEF Spec

\* Key and certificate are well-formed wherever they are kept, and a timer is
\* never negative and never longer than the renewal period, however long the
\* pods run and whatever fails.
THEOREM TypeCorrect == Spec => []TypeOK
<1>1. TypeInv => TypeOK
  BY DEF TypeInv
<1> QED BY <1>1, Typing, PTL

-----------------------------------------------------------------------------
(* What is stored can be served                                            *)

\* Only a store and a lost Secret change more than the age of what is stored.
LEMMA SecretSteps ==
  ASSUME TypeInv, Next
  PROVE  \/ UNCHANGED secret
         \/ secret' = None
         \/ secret # None /\ secret' = Aged(secret)
         \/ \E p \in Pod : /\ storeSecret(p) /\ secret' = job[p].held /\ job[p].held \in Pair
                           /\ mixed' = (mixed \/ (job[p].held.crt # None /\ ~ Matches(job[p].held)))
<1>1. ASSUME NEW p \in Pod, PodStep(p), ~ storeSecret(p)
      PROVE  UNCHANGED secret
  BY <1>1 DEF PodStep, Run, Scheduler, CallFails, checkSecret, checkCertExpireDate, checkCSR, deleteCSR,
     createCSR, approveCSR, pollCSR, readSecret, writeKey, writeCert, push, restartService,
     StartCertRenewalScheduler, renewCertificate, StartPod
<1>2. ASSUME NEW p \in Pod, storeSecret(p)
      PROVE  \/ UNCHANGED secret
             \/ /\ secret' = job[p].held /\ job[p].held \in Pair
                /\ mixed' = (mixed \/ (job[p].held.crt # None /\ ~ Matches(job[p].held)))
  BY <1>2 DEF storeSecret, TypeInv, Holds, At
<1>3. Signer \/ Trouble => UNCHANGED secret \/ secret' = None
  BY DEF Signer, Sign, Trouble, LoseSecret, Crash, ServerDies
<1>4. Time => secret' = None \/ (secret # None /\ secret' = Aged(secret))
  BY DEF Time, Minute
<1> QED BY <1>1, <1>2, <1>3, <1>4 DEF Next

\* However many pods renew, fail and stop at any call: a Secret that could be
\* served is followed by one that can be, unless a pod has stored the answer to
\* another pod's request or an operator has deleted the Secret.
THEOREM SecretAlwaysServable == Spec => SecretStaysServable
<1> DEFINE Kept == Servable => Servable' \/ mixed' \/ secret' = None
<1>1. ASSUME TypeInv, Next PROVE Kept
  <2> SUFFICES ASSUME Servable, secret' # None, ~ mixed' PROVE Servable'
    BY DEF Kept
  <2>1. secret \in Pair /\ secret.crt # None /\ secret.key = secret.crt.key
    BY <1>1 DEF Servable, Matches, Broken, TypeInv, TypeOK
  <2>2. CASE secret' = Aged(secret)
    <3>1. secret \in [key : Key \cup {None}, crt : Cert \cup {None}]
      BY <2>1 DEF Pair
    <3>2. secret'.key = secret.key /\ secret'.crt = Sooner(secret.crt)
      BY <2>2, <3>1, AgedTypes
    <3>3. secret'.crt # None /\ secret'.crt.key = secret.crt.key
      BY <2>1, <3>1, <3>2, SoonerTypes
    <3> QED BY <2>1, <3>2, <3>3 DEF Servable, Matches
  <2>3. ASSUME NEW p \in Pod, secret' = job[p].held, job[p].held \in Pair,
               mixed' = (mixed \/ (job[p].held.crt # None /\ ~ Matches(job[p].held)))
        PROVE  Servable'
    <3>1. job[p].held.crt # None
      BY <2>3, MaterialAssumption DEF Pair
    <3>2. Matches(job[p].held)
      BY <2>3, <3>1
    <3> QED BY <2>3, <3>1, <3>2 DEF Servable, Matches
  <2>4. CASE UNCHANGED secret
    BY <2>4 DEF Servable, Matches
  <2> QED BY <1>1, <2>2, <2>3, <2>4, SecretSteps
<1>2. TypeInv /\ [Next]_vars => [Kept]_vars
  BY <1>1
<1> QED BY <1>2, Typing, PTL DEF Spec, SecretStaysServable

-----------------------------------------------------------------------------
(* A pod on its own renews in time                                         *)

\* Minutes in hand: what a check leaves, less one for every failed call since
\* the last success and for every deletion of the Secret.
Reserve(q) == certRenewalPeriod - 1 - failed[q] - spent["loss"]

\* Everything that q answers with, or will read, lives n minutes more.  The
\* memory counts as long as there are no files: the scheduler goes by the files.
Lasts(q, n) ==
    /\ disk[q].crt # None => disk[q].crt.left >= n
    /\ disk[q].crt = None /\ mem[q] # None => mem[q].crt.left >= n
    /\ secret \in Pair => secret.crt.left >= n

Renewed(q) == disk[q].crt # None /\ disk[q].crt.left >= certRenewalPeriod

\* The steps of a Run up to the store.
Renewing == {"checkCSR", "deleteCSR", "generate", "approve", "poll", "store"}
Checking == {"checkSecret", "checkExpire"}
Writing  == {"writeKey", "writeCert"}

\* Nobody else works on the request and the Secret.
Undisturbed(q) ==
    /\ At(q, "off") => disk[q].crt = None /\ mem[q] = None
    /\ At(q, "checkExpire") => ~ job[q].fresh
    /\ At(q, "deleteCSR") => csr # None
    /\ At(q, "generate")  => csr = None
    /\ At(q, "approve")   => csr # None /\ csr.key = job[q].held.key /\ csr.st = "new"
    /\ At(q, "poll")      => csr # None /\ csr.st # "new" /\ (csr.st = "signed" => csr.crt.left = Life)
    /\ At(q, "store")     => job[q].held.crt.left = Life
    /\ job[q].at \in Renewing /\ job[q].fresh => secret = None
    /\ job[q].at \in Writing => secret \in {None, job[q].held}
    /\ At(q, "push") /\ job[q].ok => secret = None \/ (disk[q].crt # None /\ secret.crt = disk[q].crt)
    /\ secret \in Pair /\ disk[q].crt # None => secret.crt.left >= disk[q].crt.left

\* A Run that does not renew has used up a minute of the reserve.
InTime(q) ==
    /\ job[q].at \in Checking \cup Renewing \cup {"read"} \cup Writing => Lasts(q, Reserve(q))
    /\ At(q, "checkExpire") /\ secret = None => Lasts(q, Reserve(q) + 1)
    /\ At(q, "read") => \/ Lasts(q, Reserve(q) + 1)
                        \/ secret \in Pair /\ secret.crt.left >= certRenewalPeriod
    /\ job[q].at \in Writing => \/ Lasts(q, Reserve(q) + 1) /\ job[q].held.crt.left >= Reserve(q) + 1
                                \/ job[q].held.crt.left >= certRenewalPeriod
    /\ job[q].at \in {"push", "serve", "arm"} => Lasts(q, Reserve(q) + 1) \/ Renewed(q)
    /\ At(q, "idle") => Lasts(q, Reserve(q) + timer[q])

OthersOff(q) == \A p \in Pod \ {q} : At(p, "off") /\ disk[p] = NoFiles /\ mem[p] = None

AloneInv(q) ==
    /\ OthersOff(q) /\ spent["loss"] <= case.bound["loss"]
    /\ Undisturbed(q)
    /\ q \notin late => InTime(q)

\* The hypotheses: q is the only pod, and the calls that may fail in a row and
\* the deletions of the Secret do not use up the renewal period between them.
Alone(q) ==
    \A c \in Cases : c.pods = {q} /\ c.bound["fault"] + c.bound["loss"] < certRenewalPeriod

\* The numbers.
LEMMA Minutes ==
  ASSUME TypeInv, NEW q \in Pod
  PROVE  /\ certRenewalPeriod \in Nat /\ Life \in Nat /\ certRenewalPeriod < Life
         /\ failed[q] \in Nat /\ spent["loss"] \in Nat /\ timer[q] \in Nat
         /\ Reserve(q) \in Int /\ Reserve(q) < certRenewalPeriod
         /\ disk[q].crt # None => disk[q].crt \in Cert /\ disk[q].crt.left \in Int /\ disk[q].crt.left <= Life
         /\ mem[q] # None => mem[q] \in Pair /\ mem[q].crt.left \in Int
         /\ secret \in Pair => secret.crt \in Cert /\ secret.crt.left \in Int
         /\ job[q].held \in Pair => job[q].held.crt.left \in Int
<1>1. certRenewalPeriod \in Nat /\ Life \in Nat /\ certRenewalPeriod < Life
  BY CertAssumption, PeriodAssumption
<1>2. case.bound["fault"] \in Nat
  BY CertAssumption DEF TypeInv, Bounded
<1>3. failed[q] \in Nat /\ spent["loss"] \in Nat /\ timer[q] \in Nat
  BY <1>1, <1>2 DEF TypeInv, TypeOK, Bounded
<1>4. Reserve(q) \in Int /\ Reserve(q) < certRenewalPeriod
  BY <1>1, <1>3 DEF Reserve
<1>5. \A c \in Cert : c.left \in Int /\ c.left <= Life
  BY <1>1 DEF Cert, Left
<1>6. \A x \in Pair : x.crt \in Cert
  BY DEF Pair
<1>7. disk[q].crt \in Cert \cup {None} /\ mem[q] \in Pair \cup {None}
  BY DEF TypeInv, TypeOK
<1> QED BY <1>1, <1>3, <1>4, <1>5, <1>6, <1>7

\* Only q runs.
LEMMA OnlyOne ==
  ASSUME TypeInv, NEW q \in Pod, Alone(q), AloneInv(q), NEW p \in Pod,
         PodStep(p) \/ Crash(p) \/ ServerDies(p)
  PROVE  p = q
<1>1. case.pods = {q}
  BY DEF TypeInv, Alone
<1> SUFFICES ASSUME p # q, job[p].at = "off" PROVE FALSE
  BY DEF AloneInv, OthersOff, At
<1>2. ~ StartPod(p) /\ ~ Crash(p) /\ ~ ServerDies(p)
  BY <1>1 DEF StartPod, Crash, ServerDies, At
<1>3. ~ CallFails(p) /\ ~ Scheduler(p)
  BY DEF CallFails, Scheduler, push, restartService, StartCertRenewalScheduler, renewCertificate, At
<1>4. ~ Run(p)
  BY DEF Run, checkSecret, checkCertExpireDate, checkCSR, deleteCSR, createCSR, approveCSR, pollCSR,
     storeSecret, readSecret, writeKey, writeCert, At
<1> QED BY <1>2, <1>3, <1>4 DEF PodStep

\* What a step of q does to the job of q, and to nobody else's.
LEMMA Jobs ==
  ASSUME TypeInv, NEW q \in Pod
  PROVE  /\ \A step : Goto(q, step) =>
               job'[q].at = step /\ job'[q].held = job[q].held /\ job'[q].fresh = job[q].fresh /\ job'[q].ok = job[q].ok
         /\ \A step, pair : Hold(q, step, pair) =>
               job'[q].at = step /\ job'[q].held = pair /\ job'[q].fresh = job[q].fresh /\ job'[q].ok = job[q].ok
         /\ FailRun(q) => job'[q].at \in {"arm", "push"} /\ job'[q].ok = FALSE
         /\ \A step, pair : Goto(q, step) \/ Hold(q, step, pair) \/ FailRun(q) =>
               \A p \in Pod \ {q} : job'[p] = job[p]
<1>1. job \in [Pod -> Job]
  BY DEF TypeInv, TypeOK
<1>2. AfterFailure(q) \in {"arm", "push"}
  BY DEF AfterFailure
<1> HIDE DEF AfterFailure
<1> QED BY <1>1, <1>2 DEF Job, Goto, Hold, FailRun

\* A Run that fails because a call of it failed costs the minute that it is
\* charged for.
LEMMA FailedInTime ==
  ASSUME TypeInv, NEW q \in Pod, AloneInv(q), FailRun(q), UNCHANGED <<secret, disk, mem, late, spent, case>>,
         q \notin late => Lasts(q, Reserve(q)' + 1)
  PROVE  AloneInv(q)'
<1>1. job'[q].at \in {"arm", "push"} /\ job'[q].ok = FALSE /\ \A p \in Pod \ {q} : job'[p] = job[p]
  BY Jobs
<1>2. Undisturbed(q)'
  BY <1>1 DEF AloneInv, Undisturbed, At, Renewing, Writing
<1>3. q \notin late' => InTime(q)'
  BY <1>1 DEF InTime, At, Checking, Renewing, Writing, Lasts
<1>4. OthersOff(q)'
  BY <1>1 DEF AloneInv, OthersOff, At
<1> QED BY <1>2, <1>3, <1>4 DEF AloneInv

\* A call that fails lowers the reserve by one.
LEMMA FaultCosts ==
  ASSUME TypeInv, NEW q \in Pod, Fault(q), UNCHANGED spent
  PROVE  Reserve(q)' = Reserve(q) - 1
<1>1. failed'[q] = failed[q] + 1
  BY DEF TypeInv, TypeOK, Fault
<1>2. failed[q] \in Nat /\ spent["loss"] \in Nat /\ certRenewalPeriod \in Nat
  BY Minutes
<1> QED BY <1>1, <1>2 DEF Reserve

\* Every step of Run keeps the invariant.
LEMMA AloneRuns ==
  ASSUME TypeInv, TypeInv', NEW q \in Pod, AloneInv(q), Run(q), UNCHANGED case
  PROVE  AloneInv(q)'
<1>m. /\ certRenewalPeriod \in Nat /\ Life \in Nat /\ certRenewalPeriod < Life
      /\ Reserve(q) \in Int /\ Reserve(q) < certRenewalPeriod
      /\ disk[q].crt # None => disk[q].crt \in Cert /\ disk[q].crt.left \in Int /\ disk[q].crt.left <= Life
      /\ mem[q] # None => mem[q] \in Pair /\ mem[q].crt.left \in Int
      /\ secret \in Pair => secret.crt \in Cert /\ secret.crt.left \in Int
      /\ job[q].held \in Pair => job[q].held.crt.left \in Int
  BY Minutes
<1>s. secret \in Pair \cup {None, Broken}
  BY DEF TypeInv, TypeOK
<1>b. Broken \notin Pair /\ None \notin Pair /\ None \notin Cert
  BY MaterialAssumption DEF Broken, Pair
<1>o. /\ UNCHANGED <<disk, mem>> /\ (\A p \in Pod \ {q} : job'[p] = job[p]) => OthersOff(q)'
      /\ UNCHANGED spent => spent'["loss"] <= case'.bound["loss"]
  BY DEF AloneInv, OthersOff, At
<1>r. UNCHANGED <<failed, spent>> => Reserve(q)' = Reserve(q)
  BY DEF Reserve
<1>1. CASE checkSecret(q)
  <2>1. /\ job'[q].at = (IF secret = None THEN "checkCSR" ELSE "checkExpire")
        /\ job'[q].fresh <=> secret = None
        /\ \A p \in Pod \ {q} : job'[p] = job[p]
    BY <1>1 DEF checkSecret, TypeInv, TypeOK, Job
  <2>2. Undisturbed(q)'
    BY <1>1, <2>1 DEF checkSecret, AloneInv, Undisturbed, At, Renewing, Writing
  <2>3. q \notin late' => InTime(q)'
    BY <1>1, <1>r, <2>1 DEF checkSecret, AloneInv, InTime, At, Checking, Renewing, Writing, Lasts
  <2> QED BY <1>1, <1>o, <2>1, <2>2, <2>3 DEF checkSecret, AloneInv
<1>2. CASE checkCertExpireDate(q)
  <2>0. At(q, "checkExpire") /\ UNCHANGED <<secret, csr, disk, mem, late, spent>>
    BY <1>2 DEF checkCertExpireDate
  <2>1. CASE secret # None /\ UNCHANGED failed
                /\ Goto(q, IF secret = Broken \/ MustRenew(secret.crt.left) THEN "checkCSR" ELSE "read")
    <3>1. /\ job'[q].at = (IF secret = Broken \/ MustRenew(secret.crt.left) THEN "checkCSR" ELSE "read")
          /\ job'[q].fresh = job[q].fresh
          /\ \A p \in Pod \ {q} : job'[p] = job[p]
      BY <2>1, Jobs
    <3>2. ~ job[q].fresh
      BY <2>0 DEF AloneInv, Undisturbed, At
    <3>3. Undisturbed(q)'
      BY <2>0, <3>1, <3>2 DEF AloneInv, Undisturbed, At, Renewing, Writing
    <3>4. job'[q].at = "read" => secret \in Pair /\ secret.crt.left >= certRenewalPeriod
      BY <2>1, <3>1, <1>s, <1>m DEF MustRenew
    <3>5. q \notin late' => InTime(q)'
      BY <2>0, <2>1, <1>r, <3>1, <3>4 DEF AloneInv, InTime, At, Checking, Renewing, Writing, Lasts
    <3> QED BY <2>0, <1>o, <3>1, <3>3, <3>5 DEF AloneInv
  <2>2. CASE Goto(q, "read") /\ (Fault(q) \/ (secret = None /\ UNCHANGED failed))
    <3>1. job'[q].at = "read" /\ \A p \in Pod \ {q} : job'[p] = job[p]
      BY <2>2, Jobs
    <3>2. q \notin late => Lasts(q, Reserve(q)' + 1) /\ Reserve(q)' <= Reserve(q)
      BY <2>0, <2>2, <1>m, <1>r, FaultCosts DEF AloneInv, InTime, At, Checking
    <3>3. Undisturbed(q)'
      BY <2>0, <3>1 DEF AloneInv, Undisturbed, At, Renewing, Writing
    <3>4. Reserve(q)' \in Int
      BY Minutes, <2>0, <2>2, <1>r, <1>m, FaultCosts
    <3>5. q \notin late' => InTime(q)'
      BY <2>0, <3>1, <3>2, <3>4, <1>m DEF InTime, At, Checking, Renewing, Writing, Lasts
    <3> QED BY <2>0, <1>o, <3>1, <3>3, <3>5 DEF AloneInv
  <2> QED BY <1>2, <2>1, <2>2 DEF checkCertExpireDate
<1>3. CASE checkCSR(q)
  <2>1. /\ job'[q].at = (IF csr = None THEN "generate" ELSE "deleteCSR") /\ job'[q].fresh = job[q].fresh
        /\ \A p \in Pod \ {q} : job'[p] = job[p]
    BY <1>3, Jobs DEF checkCSR
  <2>2. Undisturbed(q)'
    BY <1>3, <2>1 DEF checkCSR, AloneInv, Undisturbed, At, Renewing, Writing
  <2>3. q \notin late' => InTime(q)'
    BY <1>3, <1>r, <2>1 DEF checkCSR, AloneInv, InTime, At, Checking, Renewing, Writing, Lasts
  <2> QED BY <1>3, <1>o, <2>1, <2>2, <2>3 DEF checkCSR, AloneInv
<1>4. CASE deleteCSR(q)
  <2>1. csr # None /\ csr' = None /\ Goto(q, "generate")
    BY <1>4 DEF deleteCSR, AloneInv, Undisturbed
  <2>2. job'[q].at = "generate" /\ job'[q].fresh = job[q].fresh /\ \A p \in Pod \ {q} : job'[p] = job[p]
    BY <2>1, Jobs
  <2>3. Undisturbed(q)'
    BY <1>4, <2>1, <2>2 DEF deleteCSR, AloneInv, Undisturbed, At, Renewing, Writing
  <2>4. q \notin late' => InTime(q)'
    BY <1>4, <1>r, <2>2 DEF deleteCSR, AloneInv, InTime, At, Checking, Renewing, Writing, Lasts
  <2> QED BY <1>4, <1>o, <2>2, <2>3, <2>4 DEF deleteCSR, AloneInv
<1>5. CASE createCSR(q)
  <2>1. csr = None
    BY <1>5 DEF createCSR, AloneInv, Undisturbed
  <2>2. PICK k : csr' = [key |-> k, st |-> "new", crt |-> None] /\ Hold(q, "approve", [key |-> k, crt |-> None])
    BY <1>5, <2>1 DEF createCSR
  <2> DEFINE pair == [key |-> k, crt |-> None]
  <2>p. pair.key = k /\ Hold(q, "approve", pair)
    BY <2>2
  <2> HIDE DEF pair
  <2>j. /\ job'[q].at = "approve" /\ job'[q].held = pair
        /\ job'[q].fresh = job[q].fresh
        /\ \A p \in Pod \ {q} : job'[p] = job[p]
    BY <2>p, Jobs, ZenonT(30)
  <2>3. /\ job'[q].at = "approve" /\ job'[q].held.key = k /\ job'[q].fresh = job[q].fresh
        /\ \A p \in Pod \ {q} : job'[p] = job[p]
    BY <2>j, <2>p
  <2>k. k \in Key
    BY <2>3 DEF TypeInv, Holds
  <2>4. csr' \in CSR /\ csr' # None
    BY <2>2, <2>k, MaterialAssumption DEF CSR
  <2>5. Undisturbed(q)'
    BY <1>5, <2>2, <2>3, <2>4 DEF createCSR, AloneInv, Undisturbed, At, Renewing, Writing
  <2>6. q \notin late' => InTime(q)'
    BY <1>5, <1>r, <2>3 DEF createCSR, AloneInv, InTime, At, Checking, Renewing, Writing, Lasts
  <2> QED BY <1>5, <1>o, <2>3, <2>5, <2>6 DEF createCSR, AloneInv
<1>6. CASE approveCSR(q)
  <2>1. OwnCSR(q)
    BY <1>6 DEF approveCSR, AloneInv, Undisturbed, OwnCSR
  <2>2. csr' = [csr EXCEPT !.st = "approved"] /\ Goto(q, "poll") /\ csr \in CSR
    BY <1>6, <2>1 DEF approveCSR, OwnCSR, TypeInv, TypeOK
  <2>3. csr'.st = "approved" /\ csr' # None
    BY <2>2, MaterialAssumption DEF CSR
  <2>4. job'[q].at = "poll" /\ job'[q].fresh = job[q].fresh /\ \A p \in Pod \ {q} : job'[p] = job[p]
    BY <2>2, Jobs
  <2>5. Undisturbed(q)'
    BY <1>6, <2>3, <2>4 DEF approveCSR, AloneInv, Undisturbed, At, Renewing, Writing
  <2>6. q \notin late' => InTime(q)'
    BY <1>6, <1>r, <2>4 DEF approveCSR, AloneInv, InTime, At, Checking, Renewing, Writing, Lasts
  <2> QED BY <1>6, <1>o, <2>4, <2>5, <2>6 DEF approveCSR, AloneInv
<1>7. CASE pollCSR(q)
  <2> DEFINE pair == [job[q].held EXCEPT !.crt = csr.crt]
  <2>1. csr # None /\ csr.st = "signed" /\ csr.crt.left = Life /\ Hold(q, "store", pair)
    BY <1>7 DEF pollCSR, AloneInv, Undisturbed, Unapproved
  <2>2. pair.crt = csr.crt
    BY DEF TypeInv, TypeOK, Job
  <2> HIDE DEF pair
  <2>3. /\ job'[q].at = "store" /\ job'[q].held = pair /\ job'[q].fresh = job[q].fresh
        /\ \A p \in Pod \ {q} : job'[p] = job[p]
    BY <2>1, Jobs, ZenonT(30)
  <2>4. Undisturbed(q)'
    BY <1>7, <2>1, <2>2, <2>3 DEF pollCSR, AloneInv, Undisturbed, At, Renewing, Writing
  <2>5. q \notin late' => InTime(q)'
    BY <1>7, <1>r, <2>3 DEF pollCSR, AloneInv, InTime, At, Checking, Renewing, Writing, Lasts
  <2> QED BY <1>7, <1>o, <2>3, <2>4, <2>5 DEF pollCSR, AloneInv
<1>8. CASE storeSecret(q)
  <2>1. secret' = job[q].held /\ Hold(q, "read", NoFiles)
    BY <1>8 DEF storeSecret, AloneInv, Undisturbed, At, Renewing
  <2>2. secret' \in Pair /\ secret'.crt.left = Life
    BY <1>8, <2>1 DEF storeSecret, TypeInv, Holds, AloneInv, Undisturbed, At
  <2>3. job'[q].at = "read" /\ \A p \in Pod \ {q} : job'[p] = job[p]
    BY <2>1, Jobs
  <2>4. Undisturbed(q)'
    BY <1>8, <1>m, <2>2, <2>3 DEF storeSecret, AloneInv, Undisturbed, At, Renewing, Writing
  <2>5. q \notin late' => InTime(q)'
    BY <1>8, <1>m, <1>r, <2>2, <2>3 DEF storeSecret, AloneInv, InTime, At, Checking, Renewing, Writing, Lasts
  <2> QED BY <1>8, <1>o, <2>3, <2>4, <2>5 DEF storeSecret, AloneInv
<1>9. CASE readSecret(q)
  <2>1. CASE secret # None /\ secret # Broken /\ Hold(q, "writeKey", secret)
    <3>1. /\ job'[q].at = "writeKey" /\ job'[q].held = secret
          /\ \A p \in Pod \ {q} : job'[p] = job[p]
      BY <2>1, Jobs, ZenonT(30)
    <3>2. secret \in Pair
      BY <1>s, <2>1
    <3>3. Undisturbed(q)'
      BY <1>9, <3>1 DEF readSecret, AloneInv, Undisturbed, At, Renewing, Writing
    <3>4. q \notin late' => InTime(q)'
      BY <1>9, <1>m, <1>r, <3>1, <3>2
      DEF readSecret, AloneInv, InTime, At, Checking, Renewing, Writing, Lasts
    <3> QED BY <1>9, <1>o, <3>1, <3>3, <3>4 DEF readSecret, AloneInv
  <2>2. CASE (secret = None \/ secret = Broken) /\ FailRun(q)
    <3>1. q \notin late => Lasts(q, Reserve(q)' + 1)
      BY <1>9, <1>b, <1>r, <2>2 DEF readSecret, AloneInv, InTime, At
    <3> QED BY <1>9, <2>2, <3>1, FailedInTime DEF readSecret
  <2> QED BY <1>9, <2>1, <2>2 DEF readSecret
<1>10. CASE writeKey(q)
  <2>1. /\ job'[q].at = "writeCert" /\ job'[q].held = job[q].held
        /\ \A p \in Pod \ {q} : job'[p] = job[p]
    BY <1>10, Jobs DEF writeKey
  <2>2. disk'[q].crt = disk[q].crt /\ \A p \in Pod \ {q} : disk'[p] = disk[p]
    BY <1>10 DEF writeKey, TypeInv, TypeOK
  <2>3. Undisturbed(q)'
    BY <1>10, <2>1, <2>2 DEF writeKey, AloneInv, Undisturbed, At, Renewing, Writing
  <2>4. q \notin late' => InTime(q)'
    BY <1>10, <1>r, <2>1, <2>2 DEF writeKey, AloneInv, InTime, At, Checking, Renewing, Writing, Lasts
  <2>5. OthersOff(q)'
    BY <1>10, <2>1, <2>2 DEF writeKey, AloneInv, OthersOff, At
  <2> QED BY <1>10, <1>o, <2>3, <2>4, <2>5 DEF writeKey, AloneInv
<1>11. CASE writeCert(q)
  <2>1. job'[q].at = "push" /\ \A p \in Pod \ {q} : job'[p] = job[p]
    BY <1>11, Jobs DEF writeCert
  <2>2. disk'[q].crt = job[q].held.crt /\ \A p \in Pod \ {q} : disk'[p] = disk[p]
    BY <1>11 DEF writeCert, TypeInv, TypeOK
  <2>3. job[q].held \in Pair /\ job[q].held.crt \in Cert
    BY <1>11 DEF writeCert, TypeInv, Holds, At, Pair
  <2>4. secret \in {None, job[q].held} /\ UNCHANGED secret
    BY <1>11 DEF writeCert, AloneInv, Undisturbed, At, Writing
  <2>5. Undisturbed(q)'
    BY <1>m, <1>b, <2>1, <2>2, <2>3, <2>4 DEF Undisturbed, At, Renewing, Writing
  <2>6. CASE job[q].held.crt.left >= certRenewalPeriod
    <3>1. Renewed(q)'
      BY <1>b, <2>2, <2>3, <2>6 DEF Renewed
    <3> QED BY <1>11, <1>o, <2>1, <2>2, <2>5, <3>1
            DEF writeCert, AloneInv, InTime, OthersOff, At, Checking, Renewing, Writing
  <2>7. CASE ~ (job[q].held.crt.left >= certRenewalPeriod)
    <3>1. late' = late
      BY <1>11, <1>m, <2>3, <2>7 DEF writeCert, MustRenew
    <3>2. q \notin late => Lasts(q, Reserve(q) + 1) /\ job[q].held.crt.left >= Reserve(q) + 1
      BY <1>11, <2>7 DEF writeCert, AloneInv, InTime, At, Writing
    <3>3. q \notin late => Lasts(q, Reserve(q) + 1)'
      BY <1>11, <1>b, <1>r, <2>2, <2>3, <2>4, <3>2 DEF writeCert, Lasts
    <3> QED BY <1>11, <1>o, <2>1, <2>2, <2>5, <3>1, <3>3
            DEF writeCert, AloneInv, InTime, OthersOff, At, Checking, Renewing, Writing
  <2> QED BY <2>6, <2>7
<1> QED BY <1>1, <1>2, <1>3, <1>4, <1>5, <1>6, <1>7, <1>8, <1>9, <1>10, <1>11 DEF Run

\* A certificate that is due is looked at again every minute.
LEMMA RetryEveryMinute ==
  ASSUME NEW left \in Int, MustRenew(left)
  PROVE  renewalCheckIntervalMinutes(left) = 1
<1> DEFINE third   == IF left < 0 THEN 0 ELSE left \div 3
           maxWait == AtLeast(AtMost(third, certRenewalPeriod), 1)
           raw     == left - certRenewalPeriod + 1
<1>1. certRenewalPeriod \in Int /\ left < certRenewalPeriod
  BY PeriodAssumption DEF MustRenew
<1>2. raw \in Int /\ raw <= 0
  BY <1>1
<1>3. third \in Int
  BY Third
<1>4. maxWait \in Int /\ maxWait >= 1
  BY <1>1, <1>3 DEF AtLeast, AtMost
<1> HIDE DEF raw, maxWait
<1>5. AtLeast(AtMost(raw, maxWait), 1) = 1
  BY <1>2, <1>4 DEF AtLeast, AtMost
<1> QED
  BY <1>5 DEF renewalCheckIntervalMinutes, raw, maxWait

\* The scheduler's steps, a start and a failing call keep the invariant.
LEMMA AloneSchedules ==
  ASSUME TypeInv, TypeInv', NEW q \in Pod, AloneInv(q), CallFails(q) \/ Scheduler(q) \/ StartPod(q),
         UNCHANGED case
  PROVE  AloneInv(q)'
<1>m. /\ certRenewalPeriod \in Nat /\ Life \in Nat /\ certRenewalPeriod < Life
      /\ failed[q] \in Nat /\ spent["loss"] \in Nat
      /\ Reserve(q) \in Int /\ Reserve(q) < certRenewalPeriod
      /\ disk[q].crt # None => disk[q].crt \in Cert /\ disk[q].crt.left \in Int /\ disk[q].crt.left <= Life
      /\ mem[q] # None => mem[q] \in Pair /\ mem[q].crt.left \in Int
      /\ secret \in Pair => secret.crt \in Cert /\ secret.crt.left \in Int
  BY Minutes
<1>s. secret \in Pair \cup {None, Broken}
  BY DEF TypeInv, TypeOK
<1>b. Broken \notin Pair /\ None \notin Pair /\ None \notin Cert
  BY MaterialAssumption DEF Broken, Pair
<1>o. /\ UNCHANGED <<disk, mem>> /\ (\A p \in Pod \ {q} : job'[p] = job[p]) => OthersOff(q)'
      /\ UNCHANGED spent => spent'["loss"] <= case'.bound["loss"]
  BY DEF AloneInv, OthersOff, At
<1>r. UNCHANGED <<failed, spent>> => Reserve(q)' = Reserve(q)
  BY DEF Reserve
<1>1. CASE CallFails(q)
  <2>1. q \notin late => Lasts(q, Reserve(q))
    BY <1>1 DEF CallFails, AloneInv, InTime, Checking, Renewing, Writing
  <2>2. Reserve(q)' + 1 = Reserve(q)
    BY <1>1, <1>m, FaultCosts DEF CallFails
  <2> QED BY <1>1, <2>1, <2>2, FailedInTime DEF CallFails
<1>2. CASE push(q)
  <2>1. job'[q].at \in {"serve", "arm"} /\ \A p \in Pod \ {q} : job'[p] = job[p]
    BY <1>2, Jobs DEF push
  <2>2. Servable => secret \in Pair
    BY <1>s DEF Servable, Matches, Broken
  <2>3. /\ (mem' = [mem EXCEPT ![q] = secret] /\ Servable) \/ UNCHANGED mem
        /\ \A p \in Pod \ {q} : mem'[p] = mem[p]
    BY <1>2 DEF push, TypeInv, TypeOK
  <2>4. mem'[q] = mem[q] \/ (mem'[q] = secret /\ secret \in Pair)
    BY <2>2, <2>3 DEF TypeInv, TypeOK
  <2>5. UNCHANGED <<secret, disk, late, spent>> /\ At(q, "push")
    BY <1>2 DEF push
  <2>6. Undisturbed(q)'
    BY <2>1, <2>5 DEF AloneInv, Undisturbed, At, Renewing, Writing
  <2>7. Reserve(q)' <= Reserve(q) \/ Renewed(q)
    <3>1. CASE UNCHANGED failed
      BY <2>5, <3>1, <1>r, <1>m
    <3>2. CASE Fault(q)
      BY <2>5, <3>2, <1>m, FaultCosts
    <3>3. CASE ~ UNCHANGED failed /\ ~ Fault(q)
      <4>1. job[q].ok /\ ~ MustRenew(secret.crt.left) /\ Servable
        BY <1>2, <3>3 DEF push
      <4>2. disk[q].crt # None /\ secret.crt = disk[q].crt
        BY <2>5, <4>1 DEF AloneInv, Undisturbed, Servable
      <4> QED BY <1>m, <4>1, <4>2 DEF Renewed, MustRenew
    <3> QED BY <3>1, <3>2, <3>3
  <2>8. Reserve(q)' \in Int
    <3>1. failed'[q] \in {failed[q], failed[q] + 1, 0}
      BY <1>2 DEF push, Fault, TypeInv, TypeOK
    <3> QED BY <1>m, <2>5, <3>1 DEF Reserve
  <2>9. q \notin late => Lasts(q, Reserve(q) + 1) \/ Renewed(q)
    BY <2>5 DEF AloneInv, InTime, At
  <2>10. q \notin late => Lasts(q, Reserve(q) + 1)' \/ Renewed(q)'
    <3>1. Renewed(q) => Renewed(q)'
      BY <2>5 DEF Renewed
    <3>2. Lasts(q, Reserve(q) + 1) /\ Reserve(q)' <= Reserve(q) => Lasts(q, Reserve(q) + 1)'
      BY <1>m, <2>4, <2>5, <2>8 DEF Lasts
    <3> QED BY <2>7, <2>9, <3>1, <3>2
  <2>11. OthersOff(q)'
    BY <2>1, <2>3, <2>5 DEF AloneInv, OthersOff, At
  <2>12. q \notin late' => InTime(q)'
    BY <2>1, <2>5, <2>10 DEF InTime, At, Checking, Renewing, Writing
  <2> QED BY <1>o, <2>5, <2>6, <2>11, <2>12 DEF AloneInv
<1>3. CASE restartService(q)
  <2>1. job'[q].at = "arm" /\ \A p \in Pod \ {q} : job'[p] = job[p]
    BY <1>3, Jobs DEF restartService
  <2>2. Undisturbed(q)'
    BY <1>3, <2>1 DEF restartService, AloneInv, Undisturbed, At, Renewing, Writing
  <2>3. q \notin late' => InTime(q)'
    BY <1>3, <1>r, <2>1 DEF restartService, AloneInv, InTime, At, Checking, Renewing, Writing, Lasts, Renewed
  <2> QED BY <1>3, <1>o, <2>1, <2>2, <2>3 DEF restartService, AloneInv
<1>4. CASE StartCertRenewalScheduler(q)
  <2>1. job'[q].at = "idle" /\ \A p \in Pod \ {q} : job'[p] = job[p]
    BY <1>4 DEF StartCertRenewalScheduler, TypeInv, TypeOK, Job
  <2>2. Undisturbed(q)'
    BY <1>4, <2>1 DEF StartCertRenewalScheduler, AloneInv, Undisturbed, At, Renewing, Writing
  <2> DEFINE wait == IF disk[q].crt = None THEN 1 ELSE renewalCheckIntervalMinutes(disk[q].crt.left)
  <2>3. timer'[q] = wait
    BY <1>4 DEF StartCertRenewalScheduler, TypeInv, TypeOK
  <2>4. wait \in Nat
    BY <1>m, IntervalIsBounded
  <2>5. Renewed(q) => disk[q].crt.left - wait >= certRenewalPeriod - 1
    BY <1>m, NextCheckInTime DEF Renewed, MustRenew
  <2>6. ~ Renewed(q) => wait = 1
    BY <1>m, RetryEveryMinute DEF Renewed, MustRenew
  <2> HIDE DEF wait
  <2>7. secret \in Pair /\ disk[q].crt # None => secret.crt.left >= disk[q].crt.left
    BY DEF AloneInv, Undisturbed
  <2>8. q \notin late => Lasts(q, Reserve(q) + wait)
    <3>1. CASE Renewed(q)
      BY <1>m, <2>4, <2>5, <2>7, <3>1 DEF Renewed, Lasts
    <3>2. CASE ~ Renewed(q)
      BY <1>4, <2>6, <3>2 DEF StartCertRenewalScheduler, AloneInv, InTime, At
    <3> QED BY <3>1, <3>2
  <2>9. q \notin late' => InTime(q)'
    BY <1>4, <1>r, <2>1, <2>3, <2>8
    DEF StartCertRenewalScheduler, InTime, At, Checking, Renewing, Writing, Lasts
  <2> QED BY <1>4, <1>o, <2>1, <2>2, <2>9 DEF StartCertRenewalScheduler, AloneInv
<1>5. CASE renewCertificate(q)
  <2>1. job'[q].at = "checkSecret" /\ \A p \in Pod \ {q} : job'[p] = job[p]
    BY <1>5, Jobs DEF renewCertificate
  <2>2. Undisturbed(q)'
    BY <1>5, <2>1 DEF renewCertificate, AloneInv, Undisturbed, At, Renewing, Writing
  <2>3. q \notin late => Lasts(q, Reserve(q))
    BY <1>5, <1>m DEF renewCertificate, AloneInv, InTime, At
  <2>4. q \notin late' => InTime(q)'
    BY <1>5, <1>r, <2>1, <2>3 DEF renewCertificate, InTime, At, Checking, Renewing, Writing, Lasts
  <2> QED BY <1>5, <1>o, <2>1, <2>2, <2>4 DEF renewCertificate, AloneInv
<1>6. CASE StartPod(q)
  <2>1. job'[q].at = "checkSecret" /\ \A p \in Pod \ {q} : job'[p] = job[p]
    BY <1>6 DEF StartPod, TypeInv, TypeOK, Off
  <2>2. Undisturbed(q)'
    BY <1>6, <2>1 DEF StartPod, AloneInv, Undisturbed, At, Renewing, Writing
  <2>3. q \notin late' /\ secret \in Pair => secret.crt.left >= Reserve(q)
    BY <1>6, <1>m, <1>b DEF StartPod
  <2>4. disk[q].crt = None /\ mem[q] = None
    BY <1>6 DEF StartPod, AloneInv, Undisturbed, At
  <2>5. q \notin late' => InTime(q)'
    BY <1>6, <1>r, <2>1, <2>3, <2>4 DEF StartPod, InTime, At, Checking, Renewing, Writing, Lasts
  <2> QED BY <1>6, <1>o, <2>1, <2>2, <2>5 DEF StartPod, AloneInv
<1> QED BY <1>1, <1>2, <1>3, <1>4, <1>5, <1>6 DEF Scheduler

\* The signer, time, a lost Secret, a crash and a dead server keep it.
LEMMA AloneOthers ==
  ASSUME TypeInv, TypeInv', NEW q \in Pod, AloneInv(q), UNCHANGED case,
         Sign \/ Minute \/ LoseSecret \/ Crash(q) \/ ServerDies(q)
  PROVE  AloneInv(q)'
<1>m. /\ certRenewalPeriod \in Nat /\ Life \in Nat /\ certRenewalPeriod < Life
      /\ failed[q] \in Nat /\ spent["loss"] \in Nat /\ timer[q] \in Nat
      /\ Reserve(q) \in Int /\ Reserve(q) < certRenewalPeriod
      /\ disk[q].crt # None => disk[q].crt \in Cert /\ disk[q].crt.left \in Int /\ disk[q].crt.left <= Life
      /\ mem[q] # None => mem[q] \in Pair /\ mem[q].crt.left \in Int
      /\ secret \in Pair => secret.crt \in Cert /\ secret.crt.left \in Int
      /\ job[q].held \in Pair => job[q].held.crt.left \in Int
  BY Minutes
<1>b. Broken \notin Pair /\ None \notin Pair /\ None \notin Cert
  BY MaterialAssumption DEF Broken, Pair
<1>o. /\ UNCHANGED <<disk, mem>> /\ (\A p \in Pod \ {q} : job'[p] = job[p]) => OthersOff(q)'
      /\ UNCHANGED spent => spent'["loss"] <= case'.bound["loss"]
  BY DEF AloneInv, OthersOff, At
<1>r. UNCHANGED <<failed, spent>> => Reserve(q)' = Reserve(q)
  BY DEF Reserve
<1>1. CASE Sign
  <2>c. csr # None /\ csr.st = "approved" /\ csr \in CSR
    BY <1>1 DEF Sign, TypeInv, TypeOK
  <2> DEFINE crt == [key |-> csr.key, left |-> Life]
  <2>d. csr' = [csr EXCEPT !.st = "signed", !.crt = crt] /\ crt.left = Life
    BY <1>1 DEF Sign
  <2> HIDE DEF crt
  <2>e. csr'.st = "signed" /\ csr'.crt = crt /\ csr'.key = csr.key
    BY <2>c, <2>d DEF CSR
  <2>f. csr' # None
    <3>1. csr' \in CSR \cup {None} /\ crt \in Cert
      BY <2>c, CertAssumption DEF TypeInv, TypeOK, CSR, Cert, Left, crt
    <3>2. csr' \in CSR
      BY <2>c, <2>d, <3>1 DEF CSR
    <3> QED BY <3>2, MaterialAssumption
  <2>1. /\ csr # None /\ csr.st = "approved" /\ csr' # None /\ csr'.st = "signed" /\ csr'.crt.left = Life
    BY <2>c, <2>d, <2>e, <2>f
  <2>2. Undisturbed(q)'
    BY <1>1, <2>1 DEF Sign, AloneInv, Undisturbed, At, Renewing, Writing
  <2>3. q \notin late' => InTime(q)'
    BY <1>1, <1>r DEF Sign, AloneInv, InTime, At, Checking, Renewing, Writing, Lasts, Renewed
  <2> QED BY <1>1, <1>o, <2>2, <2>3 DEF Sign, AloneInv
<1>2. CASE LoseSecret
  <2>1. spent'["loss"] = spent["loss"] + 1 /\ spent'["loss"] <= case'.bound["loss"]
    <3>1. spent["loss"] < case.bound["loss"] /\ spent' = [spent EXCEPT !["loss"] = @ + 1]
      BY <1>2 DEF LoseSecret, Spend
    <3>2. case.bound["loss"] \in Nat /\ spent \in [Bounded -> Nat] /\ "loss" \in Bounded
      BY CertAssumption DEF TypeInv, Bounded
    <3> QED BY <3>1, <3>2
  <2>2. Reserve(q)' = Reserve(q) - 1
    BY <1>2, <1>m, <2>1 DEF LoseSecret, Reserve
  <2>3. secret' = None
    BY <1>2 DEF LoseSecret
  <2>4. Undisturbed(q)'
    BY <1>2, <1>b, <2>3 DEF LoseSecret, AloneInv, Undisturbed, At, Renewing, Writing
  <2>u. UNCHANGED <<disk, mem, job, timer, late>>
    BY <1>2 DEF LoseSecret
  <2>l. /\ Lasts(q, Reserve(q)) => Lasts(q, Reserve(q) + 1)' /\ Lasts(q, Reserve(q))'
        /\ Lasts(q, Reserve(q) + 1) => Lasts(q, Reserve(q) + 1)'
        /\ Lasts(q, Reserve(q) + timer[q]) => Lasts(q, Reserve(q) + timer[q])'
    BY <1>m, <1>b, <2>2, <2>3, <2>u DEF Lasts
  <2>h. job[q].at \in Writing => job[q].held \in Pair
    BY DEF TypeInv, Holds, Writing
  <2>w. job[q].at \in Writing /\ job[q].held.crt.left >= Reserve(q) + 1 => (job[q].held.crt.left >= Reserve(q) + 1)'
    BY <1>m, <2>2, <2>u, <2>h
  <2>5. q \notin late' => InTime(q)'
    BY <2>u, <2>l, <2>w DEF AloneInv, InTime, At, Checking, Renewing, Writing, Renewed
  <2> QED BY <1>2, <1>o, <2>1, <2>4, <2>5 DEF LoseSecret, AloneInv
<1>3. CASE Crash(q)
  <2>1. /\ job'[q].at = "off" /\ disk'[q].crt = None /\ mem'[q] = None
        /\ \A p \in Pod \ {q} : job'[p] = job[p] /\ disk'[p] = disk[p] /\ mem'[p] = mem[p]
    BY <1>3 DEF Crash, TypeInv, TypeOK, Off, NoFiles
  <2>2. spent'["loss"] = spent["loss"]
    BY <1>3 DEF Crash, Spend, TypeInv, Bounded
  <2>3. Undisturbed(q)'
    BY <1>3, <2>1 DEF Crash, AloneInv, Undisturbed, At, Renewing, Writing
  <2>4. InTime(q)'
    BY <2>1 DEF InTime, At, Checking, Renewing, Writing
  <2>5. OthersOff(q)'
    BY <2>1 DEF AloneInv, OthersOff, At
  <2> QED BY <1>3, <2>2, <2>3, <2>4, <2>5 DEF AloneInv
<1>4. CASE ServerDies(q)
  <2>1. spent'["loss"] = spent["loss"]
    BY <1>4 DEF ServerDies, Spend, TypeInv, Bounded
  <2>2. Reserve(q)' = Reserve(q)
    BY <1>4, <2>1 DEF ServerDies, Reserve
  <2>3. Undisturbed(q)'
    BY <1>4 DEF ServerDies, AloneInv, Undisturbed, At, Renewing, Writing
  <2>4. q \notin late' => InTime(q)'
    BY <1>4, <2>2 DEF ServerDies, AloneInv, InTime, At, Checking, Renewing, Writing, Lasts, Renewed
  <2> QED BY <1>4, <1>o, <2>1, <2>3, <2>4 DEF ServerDies, AloneInv
<1>5. CASE Minute
  <2>1. At(q, "off") \/ (At(q, "idle") /\ timer[q] > 0)
    BY <1>5 DEF Minute
  <2>2. UNCHANGED <<job, failed, late, spent>>
    BY <1>5 DEF Minute
  <2>3. timer[q] > 0 => timer'[q] = timer[q] - 1
    BY <1>5, <1>m DEF Minute
  <2>4. /\ disk'[q].crt = Sooner(disk[q].crt)
        /\ \A p \in Pod : disk[p] = NoFiles => disk'[p] = NoFiles
    <3>1. \A p \in Pod : disk'[p] = Aged(disk[p])
      BY <1>5 DEF Minute
    <3>2. disk[q] \in [key : Key \cup {None}, crt : Cert \cup {None}]
      BY DEF TypeInv, TypeOK
    <3>3. Aged(NoFiles) = NoFiles
      BY DEF Aged, NoFiles, Sooner
    <3> QED BY <3>1, <3>2, <3>3, AgedTypes
  <2>5. /\ \A p \in Pod : mem[p] = None => mem'[p] = None
        /\ mem[q] # None => mem'[q].crt = Sooner(mem[q].crt)
    <3>1. mem[q] # None => mem[q] \in [key : Key \cup {None}, crt : Cert \cup {None}]
      BY <1>m DEF Pair
    <3> QED BY <1>5, <3>1, AgedTypes DEF Minute
  <2>6. secret' \in Pair => secret \in Pair /\ secret'.crt = Sooner(secret.crt)
    <3>1. Aged(Broken) = Broken
      BY DEF Aged, Broken, Sooner
    <3>2. secret \in Pair => secret \in [key : Key \cup {None}, crt : Cert \cup {None}]
      BY DEF Pair
    <3>3. secret \in Pair \cup {None, Broken}
      BY DEF TypeInv, TypeOK
    <3>4. secret' = (IF secret = None THEN None ELSE Aged(secret))
      BY <1>5 DEF Minute
    <3> QED BY <1>b, <3>1, <3>2, <3>3, <3>4, AgedTypes
  <2>7. \A c \in Cert : /\ Sooner(c) # None
                        /\ Sooner(c).left = (IF c.left = -1 THEN -1 ELSE c.left - 1)
                        /\ c.left \in Int /\ c.left >= -1
    BY <1>m, <1>b, SoonerTypes DEF Cert, Left
  <2>8. /\ disk'[q].crt # None => disk[q].crt \in Cert
        /\ disk[q].crt # None => disk'[q].crt # None
        /\ mem'[q] # None => mem[q] \in Pair /\ mem[q].crt \in Cert
    BY <1>m, <2>4, <2>5, <2>7 DEF Sooner, Pair
  <2>d. disk'[q].crt # None => /\ disk[q].crt # None /\ disk[q].crt.left \in Int /\ disk[q].crt.left >= -1
                              /\ disk'[q].crt.left = (IF disk[q].crt.left = -1 THEN -1 ELSE disk[q].crt.left - 1)
    BY <1>b, <2>4, <2>7, <2>8
  <2>e. mem'[q] # None => /\ mem[q] # None /\ mem[q].crt.left \in Int /\ mem[q].crt.left >= -1
                          /\ mem'[q].crt.left = (IF mem[q].crt.left = -1 THEN -1 ELSE mem[q].crt.left - 1)
    BY <1>b, <2>5, <2>7, <2>8
  <2>f. secret' \in Pair => /\ secret \in Pair /\ secret.crt.left \in Int /\ secret.crt.left >= -1
                            /\ secret'.crt.left = (IF secret.crt.left = -1 THEN -1 ELSE secret.crt.left - 1)
    BY <1>m, <2>6, <2>7
  <2>g. secret' \in Pair /\ disk'[q].crt # None => secret'.crt.left >= disk'[q].crt.left
    <3>1. secret \in Pair /\ disk[q].crt # None => secret.crt.left >= disk[q].crt.left
      BY DEF AloneInv, Undisturbed
    <3> QED BY <2>d, <2>f, <3>1
  <2>h. At(q, "off") => disk'[q].crt = None /\ mem'[q] = None
    BY <2>d, <2>e DEF AloneInv, Undisturbed
  <2>9. Undisturbed(q)'
    BY <2>1, <2>2, <2>g, <2>h DEF Undisturbed, At, Renewing, Writing
  <2>10. At(q, "idle") /\ Lasts(q, Reserve(q) + timer[q]) => Lasts(q, Reserve(q) + timer[q])'
    <3> SUFFICES ASSUME At(q, "idle"), Lasts(q, Reserve(q) + timer[q])
                 PROVE  Lasts(q, Reserve(q) + timer[q])'
      OBVIOUS
    <3>1. Reserve(q)' = Reserve(q) /\ timer'[q] = timer[q] - 1
      BY <1>r, <2>1, <2>2, <2>3 DEF At
    <3>2. disk[q].crt = None <=> disk'[q].crt = None
      BY <2>8, <2>d
    <3> QED BY <1>m, <2>d, <2>e, <2>f, <3>1, <3>2 DEF Lasts
  <2>11. q \notin late' => InTime(q)'
    BY <2>1, <2>2, <2>10 DEF AloneInv, InTime, At, Checking, Renewing, Writing
  <2>12. OthersOff(q)'
    BY <2>2, <2>4, <2>5 DEF AloneInv, OthersOff, At
  <2> QED BY <1>o, <2>2, <2>9, <2>11, <2>12 DEF AloneInv
<1> QED BY <1>1, <1>2, <1>3, <1>4, <1>5

\* The initial states.
LEMMA AloneStarts ==
  ASSUME Init, NEW q \in Pod
  PROVE  AloneInv(q)
<1>1. TypeInv
  BY InitTypes
<1>2. case.bound["loss"] \in Nat /\ spent["loss"] = 0
  BY <1>1, CertAssumption DEF Init, TypeInv, Bounded
<1>3. \A p \in Pod : job[p].at = "off" /\ disk[p] = NoFiles /\ mem[p] = None /\ disk[p].crt = None
  BY DEF Init, Off, NoFiles
<1> QED BY <1>2, <1>3 DEF AloneInv, OthersOff, Undisturbed, InTime, At, Checking, Renewing, Writing

\* Every step keeps the invariant of a pod on its own.
LEMMA AloneSteps ==
  ASSUME NEW q \in Pod, Alone(q), TypeInv, AloneInv(q), [Next]_vars
  PROVE  AloneInv(q)'
<1>1. TypeInv'
  BY NextTypes
<1>2. CASE UNCHANGED vars
  BY <1>2 DEF vars, AloneInv, OthersOff, Undisturbed, InTime, Lasts, Reserve, Renewed, At
<1>3. ASSUME NEW p \in Pod, PodStep(p) PROVE AloneInv(q)'
  <2>1. p = q
    BY <1>3, OnlyOne
  <2> QED BY <1>1, <1>3, <2>1, AloneRuns, AloneSchedules DEF PodStep
<1>4. ASSUME NEW p \in Pod, Crash(p) \/ ServerDies(p), UNCHANGED case PROVE AloneInv(q)'
  <2>1. p = q
    BY <1>4, OnlyOne
  <2> QED BY <1>1, <1>4, <2>1, AloneOthers
<1>5. CASE Signer \/ Time \/ (LoseSecret /\ UNCHANGED case)
  BY <1>1, <1>5, AloneOthers DEF Signer, Time
<1> QED BY <1>2, <1>3, <1>4, <1>5 DEF Next, Trouble

\* A pod on its own never answers with an expired certificate: the check that
\* finds the certificate due comes with a whole renewal period to go, less a
\* minute, a failed Run is repeated every minute, and every failure is paid for
\* by one of the minutes.
THEOREM AnswersInTime ==
  ASSUME NEW q \in Pod, Alone(q)
  PROVE  Spec => []NeverAnswersExpired
<1>1. TypeInv /\ AloneInv(q) => NeverAnswersExpired
  <2> SUFFICES ASSUME TypeInv, AloneInv(q), NEW p \in Pod \ late, At(p, "idle"), GetCertificate(p).crt # None
               PROVE  \/ GetCertificate(p).crt.left >= 0
                      \/ disk[p].crt # None /\ disk[p].crt.left > GetCertificate(p).crt.left
    BY DEF NeverAnswersExpired
  <2>1. p = q
    BY DEF AloneInv, OthersOff, At
  <2>2. Lasts(q, Reserve(q) + timer[q])
    BY <2>1 DEF AloneInv, InTime, At
  <2>3. Reserve(q) + timer[q] >= 0 /\ Reserve(q) \in Int /\ timer[q] \in Nat
    <3>1. failed[q] <= case.bound["fault"] /\ spent["loss"] <= case.bound["loss"]
      BY CertAssumption DEF TypeInv, TypeOK, AloneInv, Bounded
    <3>2. case.bound["fault"] + case.bound["loss"] < certRenewalPeriod
      BY DEF TypeInv, Alone
    <3>3. case.bound["fault"] \in Nat /\ case.bound["loss"] \in Nat
      BY CertAssumption DEF TypeInv, Bounded
    <3>4. failed[q] \in Nat /\ spent["loss"] \in Nat /\ timer[q] \in Nat /\ certRenewalPeriod \in Nat
      BY Minutes
    <3> QED BY <3>1, <3>2, <3>3, <3>4 DEF Reserve
  <2>4. /\ disk[q].crt # None => disk[q].crt.left \in Int
        /\ mem[q] # None => mem[q].crt.left \in Int
    BY Minutes
  <2>5. CASE disk[q].crt # None
    BY <2>1, <2>2, <2>3, <2>4, <2>5 DEF Lasts, GetCertificate
  <2>6. CASE disk[q].crt = None
    BY <2>1, <2>2, <2>3, <2>4, <2>6 DEF Lasts, GetCertificate
  <2> QED BY <2>5, <2>6
<1>2. Init => AloneInv(q)
  BY AloneStarts
<1>3. TypeInv /\ AloneInv(q) /\ [Next]_vars => AloneInv(q)'
  BY AloneSteps
<1> QED BY <1>1, <1>2, <1>3, Typing, PTL DEF Spec
=============================================================================
