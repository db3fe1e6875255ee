---------------------------- MODULE Certificates ----------------------------
(***************************************************************************)
(* The serving certificate of the admission webhook: the Secret that holds *)
(* it, the CertificateSigningRequest that renews it, and in every pod the  *)
(* files, the copy in memory, the HTTPS server and the renewal scheduler.  *)
(* A rolling update runs two pods at a time, which share the Secret and    *)
(* the name of the signing request.                                        *)
(*                                                                         *)
(* A certificate carries the minutes it has left, so time never runs out;  *)
(* keys are reused once nothing holds them.  What the pods do between two  *)
(* timers takes no time.                                                   *)
(***************************************************************************)
EXTENDS CertSchedule, FiniteSets

CONSTANTS Pod, Key, None,
          Life,        \* minutes the signer gives a certificate
          Cases        \* pods that run, and the bounds, that are tried

\* What is bounded: calls of a pod that fail in a row, pods that stop, listeners
\* that die, deletions of the Secret by an operator.
Bounded == {"fault", "crash", "death", "loss"}

ASSUME CertAssumption ==
    /\ None \notin Pod \cup Key /\ Key # {}
    /\ Life \in Nat /\ certRenewalPeriod < Life
    /\ Cases \subseteq [pods : SUBSET Pod, bound : [Bounded -> Nat]]
    /\ \A c \in Cases : c.bound["fault"] < certRenewalPeriod

VARIABLES secret,   \* the TLS Secret
          csr,      \* the CertificateSigningRequest
          disk,     \* tls.key and tls.crt of a pod
          mem,      \* servingCert of a pod
          serving,  \* pods whose HTTPS server runs
          job,      \* where a pod is in renewCertificate, and what it holds
          timer,    \* minutes until a pod's next check
          failed,   \* calls of a pod that failed in a row
          mixed,    \* history: a pod has stored the answer to another's request
          late,     \* history: pods that found a certificate too old at their start
          case,     \* the case that is tried
          spent     \* what is used of the bounds

vars == <<secret, csr, disk, mem, serving, job, timer, failed, mixed, late, case, spent>>

-----------------------------------------------------------------------------

Left == -1 .. Life
Cert == [key : Key, left : Left]
Pair == [key : Key, crt : Cert]
CSR  == [key : Key, st : {"new", "approved", "signed"}, crt : Cert \cup {None}]

\* Absence is no certificate, no pair and no request.
ASSUME MaterialAssumption == None \notin Cert \cup Pair /\ None \notin CSR

\* Material that is there and cannot be parsed.
Broken  == [key |-> None, crt |-> None]
NoFiles == [key |-> None, crt |-> None]

Matches(pair) == pair.crt # None /\ pair.key = pair.crt.key

Steps == {"off", "checkSecret", "checkExpire", "checkCSR", "deleteCSR", "generate",
          "approve", "poll", "store", "read", "writeKey", "writeCert", "push", "serve",
          "arm", "idle"}
\* boot: the Run that main makes; ok: Run returned no error; fresh: the Secret
\* was absent; held: the pair at hand.
Job  == [at : Steps, boot : BOOLEAN, ok : BOOLEAN, fresh : BOOLEAN,
         held : [key : Key \cup {None}, crt : Cert \cup {None}]]
Off  == [at |-> "off", boot |-> TRUE, ok |-> TRUE, fresh |-> FALSE, held |-> NoFiles]

KeysInUse ==
    LET of(pair) == {pair.key} \cup (IF pair.crt = None THEN {} ELSE {pair.crt.key})
    IN  UNION ({of(disk[p]) : p \in Pod} \cup {of(job[p].held) : p \in Pod}
               \cup {IF mem[p] = None THEN {} ELSE of(mem[p]) : p \in Pod}
               \cup {IF secret = None THEN {} ELSE of(secret), IF csr = None THEN {} ELSE {csr.key}})

Spend(what) == spent[what] < case.bound[what] /\ spent' = [spent EXCEPT ![what] = @ + 1]

At(p, step)   == job[p].at = step
Goto(p, step) == job' = [job EXCEPT ![p].at = step]
Hold(p, step, pair) == job' = [job EXCEPT ![p].at = step, ![p].held = pair]

\* Run returns an error.  renewCertificate goes on; main does not push.
AfterFailure(p) == IF job[p].boot THEN "arm" ELSE "push"
FailRun(p) ==
    job' = [job EXCEPT ![p].at = AfterFailure(p), ![p].ok = FALSE, ![p].held = NoFiles]

\* A call to the API or to the disk fails.
Fault(p) == failed[p] < case.bound["fault"] /\ failed' = [failed EXCEPT ![p] = @ + 1]

CallFails(p) ==
    /\ job[p].at \in {"checkSecret", "checkCSR", "deleteCSR", "generate", "approve",
                      "poll", "store", "read", "writeKey", "writeCert"}
    /\ Fault(p) /\ FailRun(p)
    /\ UNCHANGED <<secret, csr, disk, mem, serving, timer, mixed, late, spent>>

-----------------------------------------------------------------------------
(* config.Handler.Run                                                      *)

checkSecret(p) ==
    /\ At(p, "checkSecret")
    /\ job' = [job EXCEPT ![p].at = IF secret = None THEN "checkCSR" ELSE "checkExpire",
                          ![p].ok = TRUE, ![p].fresh = (secret = None)]
    /\ UNCHANGED <<secret, csr, disk, mem, serving, timer, failed, mixed, late, spent>>

\* A read that fails counts as "not now", material that cannot be parsed as
\* must-renew.
checkCertExpireDate(p) ==
    /\ At(p, "checkExpire")
    /\ \/ /\ secret # None
          /\ Goto(p, IF secret = Broken \/ MustRenew(secret.crt.left) THEN "checkCSR" ELSE "read")
          /\ UNCHANGED failed
       \/ /\ (secret = None /\ UNCHANGED failed) \/ Fault(p)
          /\ Goto(p, "read")
    /\ UNCHANGED <<secret, csr, disk, mem, serving, timer, mixed, late, spent>>

checkCSR(p) ==
    /\ At(p, "checkCSR")
    /\ Goto(p, IF csr = None THEN "generate" ELSE "deleteCSR")
    /\ UNCHANGED <<secret, csr, disk, mem, serving, timer, failed, mixed, late, spent>>

\* Not found is an error here.
deleteCSR(p) ==
    /\ At(p, "deleteCSR")
    /\ \/ csr # None /\ csr' = None /\ Goto(p, "generate")
       \/ csr = None /\ FailRun(p) /\ UNCHANGED csr
    /\ UNCHANGED <<secret, disk, mem, serving, timer, failed, mixed, late, spent>>

\* generateTLSKeyAndCert: a new key and the request for it, which fails when
\* there is one of that name.  Key is large enough for there to be a new one.
createCSR(p) ==
    /\ At(p, "generate")
    /\ \/ /\ csr = None /\ ~ (Key \subseteq KeysInUse)
          /\ LET k == CHOOSE k \in Key : k \notin KeysInUse
             IN  /\ csr' = [key |-> k, st |-> "new", crt |-> None]
                 /\ Hold(p, "approve", [key |-> k, crt |-> None])
       \/ csr # None /\ FailRun(p) /\ UNCHANGED csr
    /\ UNCHANGED <<secret, disk, mem, serving, timer, failed, mixed, late, spent>>

OwnCSR(p) == csr # None /\ csr.key = job[p].held.key

\* The approval carries the version of the request that was created.
approveCSR(p) ==
    /\ At(p, "approve")
    /\ \/ /\ OwnCSR(p)
          /\ csr' = [csr EXCEPT !.st = "approved"]
          /\ Goto(p, "poll")
       \/ /\ ~ OwnCSR(p)
          /\ FailRun(p) /\ UNCHANGED csr
    /\ UNCHANGED <<secret, disk, mem, serving, timer, failed, mixed, late, spent>>

\* Nothing will sign what the poll reads: it times out.
Unapproved == IF csr = None THEN TRUE ELSE csr.st = "new"

pollCSROnce(p) ==
    /\ At(p, "poll")
    /\ \/ /\ csr # None
          /\ Hold(p, "store", IF csr.st = "signed" THEN [job[p].held EXCEPT !.crt = csr.crt] ELSE Broken)
       \/ Unapproved /\ FailRun(p)
    /\ UNCHANGED <<secret, csr, disk, mem, serving, timer, failed, mixed, late, spent>>

\* The poll reads the request by its name.
pollCSR(p) ==
    /\ At(p, "poll")
    /\ \/ /\ csr # None /\ csr.st = "signed"
          /\ Hold(p, "store", [job[p].held EXCEPT !.crt = csr.crt])
       \/ Unapproved /\ FailRun(p)
    /\ UNCHANGED <<secret, csr, disk, mem, serving, timer, failed, mixed, late, spent>>

\* createSecret, which finds that another pod has been faster, or updateSecret.
storeSecret(p) ==
    /\ At(p, "store")
    /\ \/ /\ job[p].fresh /\ secret # None
          /\ FailRun(p)
          /\ UNCHANGED <<secret, mixed>>
       \/ /\ ~ (job[p].fresh /\ secret # None)
          /\ secret' = job[p].held
          /\ mixed' = (mixed \/ (job[p].held.crt # None /\ ~ Matches(job[p].held)))
          /\ Hold(p, "read", NoFiles)
    /\ UNCHANGED <<csr, disk, mem, serving, timer, failed, late, spent>>

\* writeTLSDataFromSecret: read the Secret, replace one file, then the other.
readSecret(p) ==
    /\ At(p, "read")
    /\ \/ secret # None /\ secret # Broken /\ Hold(p, "writeKey", secret)
       \/ (secret = None \/ secret = Broken) /\ FailRun(p)
    /\ UNCHANGED <<secret, csr, disk, mem, serving, timer, failed, mixed, late, spent>>

writeKey(p) ==
    /\ At(p, "writeKey")
    /\ disk' = [disk EXCEPT ![p].key = job[p].held.key]
    /\ Goto(p, "writeCert")
    /\ UNCHANGED <<secret, csr, mem, serving, timer, failed, mixed, late, spent>>

writeCert(p) ==
    /\ At(p, "writeCert")
    /\ disk' = [disk EXCEPT ![p].crt = job[p].held.crt]
    /\ Hold(p, "push", NoFiles)
    /\ late' = IF MustRenew(job[p].held.crt.left) THEN late ELSE late \ {p}
    /\ UNCHANGED <<secret, csr, mem, serving, timer, failed, mixed, spent>>

-----------------------------------------------------------------------------
(* Scheduler and HTTPS server                                              *)

\* ServingCertificate parses key and certificate as one pair.
Servable == secret # None /\ Matches(secret)

\* The push into the running server.
push(p) ==
    /\ At(p, "push")
    /\ Goto(p, IF job[p].boot THEN "arm" ELSE "serve")
    /\ \/ /\ Servable
          /\ mem' = [mem EXCEPT ![p] = secret]
          /\ failed' = IF job[p].ok /\ ~ MustRenew(secret.crt.left) THEN [failed EXCEPT ![p] = 0] ELSE failed
       \/ ~ Servable /\ UNCHANGED <<mem, failed>>
       \/ Fault(p) /\ UNCHANGED mem
    /\ UNCHANGED <<secret, csr, disk, serving, timer, mixed, late, spent>>

restartServiceSkipped(p) ==
    /\ At(p, "serve")
    /\ Goto(p, "arm")
    /\ UNCHANGED <<secret, csr, disk, mem, serving, timer, failed, mixed, late, spent>>

\* restartService, when no server runs.
restartService(p) ==
    /\ At(p, "serve")
    /\ serving' = serving \cup {p}
    /\ Goto(p, "arm")
    /\ UNCHANGED <<secret, csr, disk, mem, timer, failed, mixed, late, spent>>

\* StartCertRenewalScheduler goes by the certificate on disk; without one it
\* retries after renewalRetryInterval, half a minute.  main then starts the
\* server.
StartCertRenewalScheduler(p) ==
    /\ At(p, "arm")
    /\ timer' = [timer EXCEPT ![p] = IF disk[p].crt = None THEN 1
                                     ELSE renewalCheckIntervalMinutes(disk[p].crt.left)]
    /\ serving' = IF job[p].boot THEN serving \cup {p} ELSE serving
    /\ job' = [job EXCEPT ![p].at = "idle", ![p].boot = FALSE]
    /\ UNCHANGED <<secret, csr, disk, mem, failed, mixed, late, spent>>

renewCertificate(p) ==
    /\ At(p, "idle") /\ timer[p] = 0
    /\ Goto(p, "checkSecret")
    /\ UNCHANGED <<secret, csr, disk, mem, serving, timer, failed, mixed, late, spent>>

ServerDies(p) ==
    /\ At(p, "idle") /\ p \in serving
    /\ Spend("death")
    /\ serving' = serving \ {p}
    /\ UNCHANGED <<secret, csr, disk, mem, job, timer, failed, mixed, late>>

-----------------------------------------------------------------------------
(* Pods, the signer and time                                               *)

StartPod(p) ==
    /\ p \in case.pods /\ At(p, "off")
    /\ job' = [job EXCEPT ![p] = [Off EXCEPT !.at = "checkSecret"]]
    /\ late' = IF secret \in {None, Broken} \/ secret.crt.left >= certRenewalPeriod - 1
               THEN late ELSE late \cup {p}
    /\ UNCHANGED <<secret, csr, disk, mem, serving, timer, failed, mixed, spent>>

\* A pod loses its files with its memory.
Crash(p) ==
    /\ ~ At(p, "off")
    /\ Spend("crash")
    /\ job' = [job EXCEPT ![p] = Off]
    /\ disk' = [disk EXCEPT ![p] = NoFiles]
    /\ mem' = [mem EXCEPT ![p] = None]
    /\ serving' = serving \ {p}
    /\ timer' = [timer EXCEPT ![p] = 0]
    /\ UNCHANGED <<secret, csr, failed, mixed, late>>

LoseSecret ==
    /\ secret # None
    /\ Spend("loss")
    /\ secret' = None
    /\ UNCHANGED <<csr, disk, mem, serving, job, timer, failed, mixed, late>>

Sign ==
    /\ csr # None /\ csr.st = "approved"
    /\ csr' = [csr EXCEPT !.st = "signed", !.crt = [key |-> csr.key, left |-> Life]]
    /\ UNCHANGED <<secret, disk, mem, serving, job, timer, failed, mixed, late, spent>>

Sooner(crt)  == IF crt = None \/ crt.left = -1 THEN crt ELSE [crt EXCEPT !.left = @ - 1]
Aged(pair)   == [pair EXCEPT !.crt = Sooner(@)]

\* A bound: a mixed pair is followed to the end of its minute.
Minute ==
    /\ ~ mixed
    /\ \A p \in Pod : At(p, "off") \/ (At(p, "idle") /\ timer[p] > 0)
    /\ timer' = [p \in Pod |-> IF timer[p] = 0 THEN 0 ELSE timer[p] - 1]
    /\ secret' = IF secret = None THEN None ELSE Aged(secret)
    /\ csr' = IF csr = None THEN None ELSE Aged(csr)
    /\ disk' = [p \in Pod |-> Aged(disk[p])]
    /\ mem' = [p \in Pod |-> IF mem[p] = None THEN None ELSE Aged(mem[p])]
    /\ UNCHANGED <<serving, job, failed, mixed, late, spent>>

-----------------------------------------------------------------------------

Init ==
    /\ LET k == CHOOSE k \in Key : TRUE
       IN  secret \in {None, Broken} \cup {[key |-> k, crt |-> [key |-> k, left |-> n]] : n \in {-1, 1, Life}}
    /\ csr = None
    /\ disk = [p \in Pod |-> NoFiles]
    /\ mem = [p \in Pod |-> None]
    /\ serving = {}
    /\ job = [p \in Pod |-> Off]
    /\ timer = [p \in Pod |-> 0]
    /\ failed = [p \in Pod |-> 0]
    /\ mixed = FALSE
    /\ late = {}
    /\ case \in Cases
    /\ spent = [b \in Bounded |-> 0]

Run(p) ==
    \/ checkSecret(p) \/ checkCertExpireDate(p) \/ checkCSR(p) \/ deleteCSR(p) \/ createCSR(p)
    \/ approveCSR(p) \/ pollCSR(p) \/ storeSecret(p) \/ readSecret(p) \/ writeKey(p) \/ writeCert(p)
Scheduler(p) == push(p) \/ restartService(p) \/ StartCertRenewalScheduler(p) \/ renewCertificate(p)

PodStep(p) == (Run(p) \/ CallFails(p) \/ Scheduler(p) \/ StartPod(p)) /\ UNCHANGED case
Signer     == Sign /\ UNCHANGED case
Time       == Minute /\ UNCHANGED case
Trouble    == (LoseSecret \/ \E p \in Pod : Crash(p) \/ ServerDies(p)) /\ UNCHANGED case

Next == (\E p \in Pod : PodStep(p)) \/ Signer \/ Time \/ Trouble

Spec == Init /\ [][Next]_vars

\* A pod that is at work goes on, a pod that stopped is started again, the
\* signer answers and time passes.
Fairness ==
    /\ \A p \in Pod : WF_vars(PodStep(p))
    /\ WF_vars(Signer)
    /\ WF_vars(Time)

FairSpec == Spec /\ Fairness

-----------------------------------------------------------------------------

\* The material stays well-formed, and a timer never exceeds the renewal period
\* and never goes below zero: a ticker of a negative interval would panic.
TypeOK ==
    /\ secret \in Pair \cup {None, Broken}
    /\ csr \in CSR \cup {None}
    /\ disk \in [Pod -> [key : Key \cup {None}, crt : Cert \cup {None}]]
    /\ mem \in [Pod -> Pair \cup {None}]
    /\ serving \subseteq Pod
    /\ job \in [Pod -> Job]
    /\ timer \in [Pod -> 0 .. certRenewalPeriod]
    /\ failed \in [Pod -> 0 .. case.bound["fault"]]
    /\ mixed \in BOOLEAN /\ late \subseteq Pod

\* GetCertificate: what a handshake is answered with.
GetCertificate(p) == IF mem[p] # None THEN mem[p] ELSE disk[p]

\* A handshake with the pod succeeds.
Ready(p) == p \in serving /\ Matches(GetCertificate(p)) /\ GetCertificate(p).crt.left >= 0

\* What a pod answers with never expires while it is up: although calls fail,
\* up to a bound, the check comes back early enough to renew.  Except where the
\* files are newer than the memory: the scheduler goes by the files.
NeverAnswersExpired ==
    \A p \in Pod \ late :
        LET crt == GetCertificate(p).crt IN
        At(p, "idle") /\ ~ mixed /\ crt # None =>
            crt.left >= 0 \/ (disk[p].crt # None /\ disk[p].crt.left > crt.left)

\* A pair that could be served is never traded for one that could not, except
\* where two pods renew at the same time or an operator deletes the Secret.
SecretStaysServable == [][Servable => Servable' \/ mixed' \/ secret' = None]_vars

\* A pod always comes back to answering handshakes: from an absent, broken or
\* expired Secret, a dead listener, a crash or a failing API.
AlwaysReadyAgain == \A p \in Pod : []<>(p \in case.pods => Ready(p) \/ mixed)

\* What errCertUnusable promises: material that cannot be served is renewed, so
\* once every pod has finished the Secret can be served.
UnusableIsRenewed ==
    (\A p \in Pod : At(p, "idle") /\ job[p].ok) => Servable
=============================================================================
