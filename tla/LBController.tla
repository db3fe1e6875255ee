---------------------------- MODULE LBController ----------------------------
(***************************************************************************)
(* lbcontroller: the controller of a downstream cluster that gives every   *)
(* LoadBalancer Service a floating IP, builds the MetalLB pool and its     *)
(* advertisement, and takes all of it back when the Service goes.          *)
(*                                                                         *)
(* The record of an allocation is spread over four places: the claim in    *)
(* the IPAM, the pool and the advertisement, the annotations of the        *)
(* Service, and for a Service that is gone the controller's tombstone.     *)
(* A worker is a process that takes one step per API or IPAM call; the     *)
(* reads of one in-use check are a single step.                            *)
(*                                                                         *)
(* One project with a valid Secret and a MetalLB back end, and one pool in *)
(* the manager, whose list thus has every claim of the Services.  The pool *)
(* of an address is named after it, so pools are indexed by address.       *)
(* Every Service is in a namespace of its own.                             *)
(***************************************************************************)
EXTENDS Naturals, FiniteSets

CONSTANTS Service, Addr, Group, Worker,
          NoIP, None,
          Cases         \* names in use, addresses the pool has, grouping and bounds that are tried

\* What is bounded: Service names used again, Services converted
\* from LoadBalancer, finalizers and annotations removed by hand, deletions the
\* informer only learns from a relist, resyncs of a Service while it is
\* reconciled or the cache lags, removals of the project's Secret, calls that
\* fail, with or without their effect, restarts of the controller.
Bounded == {"reuse", "convert", "force", "edit", "outage", "lag", "retire", "fault", "crash"}

\* A pool selects by the label of a Service or by that of a group; the two
\* have keys of their own.
ASSUME LBAssumption ==
    /\ NoIP \notin Addr /\ None \notin Group \cup Service \cup Worker
    /\ Group \cap Service = {}
    /\ Cases \subseteq [names : SUBSET Service,
                        range : SUBSET Addr,
                        group : [Service -> Group \cup {None}],
                        limit : [Bounded -> Nat]]

VARIABLES svc,     \* Services in the API
          cache,   \* Services in the informer's cache
          tomb,    \* tombstones: last known state of Services that are gone
          queue,   \* keys in the work queue
          w,       \* workers
          lock,    \* addressLocks: the worker that holds the lock of an address
          claim,   \* IPAM: the Services that claim an address
          pool,    \* IPAddressPools by address
          adv,     \* L2Advertisements by address
          secret,  \* the project's Secret is there
          case,    \* the case that is tried
          born,    \* how often a Service was created
          early,   \* history: Services that went without the controller's cleanup
          torn,    \* history: what was written of an allocation but reported failed
          spent    \* what is used of the bounds

vars == <<svc, cache, tomb, queue, w, lock, claim, pool, adv, secret, case, born, early, torn, spent>>

-----------------------------------------------------------------------------
(* Objects                                                                 *)

IPOrNone == Addr \cup {NoIP}

ServiceObj == [live : BOOLEAN,
               uid  : Nat,
               lb   : BOOLEAN,                          \* type LoadBalancer
               del  : BOOLEAN,                          \* DeletionTimestamp
               fin  : BOOLEAN,                          \* the controller's finalizer
               ip   : IPOrNone,                         \* floatingip annotation
               req  : BOOLEAN,                          \* pending marker
               prog : {"none", "deleted", "released"},  \* cleanup progress
               lab  : BOOLEAN]                          \* labels the pools select

Absent == [live |-> FALSE, uid |-> 0, lb |-> FALSE, del |-> FALSE, fin |-> FALSE,
           ip |-> NoIP, req |-> FALSE, prog |-> "none", lab |-> FALSE]

Pool   == [has : BOOLEAN, sel : Service \cup Group \cup {None}, ns : SUBSET Service]
NoPool == [has |-> FALSE, sel |-> None, ns |-> {}]

\* An object whose deletion was asked for goes with its finalizer.
Settle(obj) == IF obj.del /\ ~ obj.fin THEN Absent ELSE obj

hasAnnotationOnly(obj) == obj.ip # NoIP
hasFloatingIPRecord(obj) == obj.fin \/ obj.ip # NoIP \/ obj.req \/ obj.prog # "none"

cleanupStageReached(prog, stage) == prog = "released" \/ prog = stage

-----------------------------------------------------------------------------
(* Workers                                                                 *)

PC == {"idle",
       "secret", "lookup", "lock", "shared", "withdraw", "unpool", "mark1", "release", "mark2",
       "strip", "unfinalize", "abandon",
       "recover", "mark", "request", "pool", "advertise", "annotate",
       "advfail", "annotfail", "undoadv", "undopool", "undorelease",
       "vlock", "vshared", "vwithdraw", "vunpool", "vrelease"}

WorkerState == [pc      : PC,
                key     : Service \cup {None},
                obj     : ServiceObj,   \* the copy it reconciles
                gone    : BOOLEAN,      \* the copy is a tombstone
                ip      : IPOrNone,
                shared  : BOOLEAN,
                adopt   : BOOLEAN,      \* adoptingExisting
                created : BOOLEAN]      \* createdPool

Idle == [pc |-> "idle", key |-> None, obj |-> Absent, gone |-> FALSE, ip |-> NoIP,
         shared |-> FALSE, adopt |-> FALSE, created |-> FALSE]

At(p, pc) == w[p].pc = pc
Goto(p, pc) == w' = [w EXCEPT ![p].pc = pc]

Spend(what) == spent[what] < case.limit[what] /\ spent' = [spent EXCEPT ![what] = @ + 1]

UnlockForgotten(p) == lock
Unlocked(p) == [a \in Addr |-> IF lock[a] = p THEN None ELSE lock[a]]

api  == <<svc, secret, born, early>>
ipam == <<claim>>
lb   == <<pool, adv>>
seen == <<cache, queue, tomb, lock>>

\* reconcile returns nil; the tombstone it worked from has served.
Return(p) ==
    /\ w' = [w EXCEPT ![p] = Idle]
    /\ lock' = Unlocked(p)
    /\ tomb' = IF w[p].gone THEN [tomb EXCEPT ![w[p].key] = Absent] ELSE tomb
    /\ UNCHANGED <<cache, queue>>

\* ... or nil, after it asked to look again later.
Defer(p) ==
    /\ w' = [w EXCEPT ![p] = Idle]
    /\ lock' = Unlocked(p)
    /\ tomb' = IF w[p].gone THEN [tomb EXCEPT ![w[p].key] = Absent] ELSE tomb
    /\ queue' = queue \cup {w[p].key}
    /\ UNCHANGED cache

rememberTombstone(s, obj) ==
    tomb' = IF obj.fin \/ obj.ip # NoIP \/ obj.req THEN [tomb EXCEPT ![s] = obj] ELSE tomb

\* reconcile returns an error: the key comes back, and the copy is kept for
\* the case that the object is gone by then.
ErrorWith(p, obj) ==
    /\ w' = [w EXCEPT ![p] = Idle]
    /\ lock' = Unlocked(p)
    /\ IF w[p].gone THEN UNCHANGED tomb ELSE rememberTombstone(w[p].key, obj)
    /\ queue' = queue \cup {w[p].key}
    /\ UNCHANGED cache
Error(p) == ErrorWith(p, w[p].obj)

\* updateService: Get, mutate, Update, again on every conflict.
Write(s, new) == svc' = [svc EXCEPT ![s] = Settle(new)] /\ UNCHANGED <<secret, born, early>>

-----------------------------------------------------------------------------
(* Controller.reconcile                                                    *)

\* The branch of reconciler.reconcile that a copy takes.
Branch(obj) ==
    IF obj.del \/ ~ obj.lb
    THEN IF hasFloatingIPRecord(obj) THEN "secret" ELSE "idle"
    ELSE "recover"

\* Adopting what the annotation records starts from its address.
Begin(p, s, obj, gone) ==
    IF Branch(obj) = "idle" THEN Idle
    ELSE [Idle EXCEPT !.pc = Branch(obj), !.key = s, !.obj = obj, !.gone = gone, !.ip = obj.ip,
                      !.adopt = ~ obj.del /\ obj.lb /\ obj.ip # NoIP]

\* The work queue never hands one key to two workers.
reconcile(p, s) ==
    /\ At(p, "idle") /\ s \in queue
    /\ \A q \in Worker : w[q].key # s
    /\ queue' = queue \ {s}
    /\ \/ /\ cache[s].live
          /\ tomb' = [tomb EXCEPT ![s] = Absent]
          /\ w' = [w EXCEPT ![p] = Begin(p, s, cache[s], FALSE)]
       \/ /\ ~ cache[s].live
          /\ w' = [w EXCEPT ![p] = IF tomb[s] = Absent THEN Idle
                                   ELSE Begin(p, s, [tomb[s] EXCEPT !.del = TRUE], TRUE)]
          /\ UNCHANGED tomb
    /\ UNCHANGED <<api, ipam, lb, cache, lock, spent>>

-----------------------------------------------------------------------------
(* Is the address in use by another Service?                               *)

\* addressInUse: index of the cache, each hit read again from the API.  A
\* terminating peer counts as long as it carries the annotation.
addressInUse(s, a) ==
    \E o \in Service \ {s} : cache[o].ip = a /\ svc[o].live /\ svc[o].ip = a /\ svc[o].lb

Current(o) == svc[o].live /\ svc[o].lb /\ ~ svc[o].del

metalLBAddressInUse(s, a) ==
    \E o \in pool[a].ns \ {s} : Current(o) /\ svc[o].lab /\ pool[a].sel \in {o, case.group[o]}

ipamAddressInUse(s, a) == \E o \in claim[a] \ {s} : Current(o)

sharedPoolInUse(s, a) == metalLBAddressInUse(s, a) \/ ipamAddressInUse(s, a)

InUse(s, a) == addressInUse(s, a) \/ sharedPoolInUse(s, a)

-----------------------------------------------------------------------------
(* Deletion, and conversion away from LoadBalancer                         *)

\* The project's Secret: without it the address cannot be released.
ReadSecret(p) ==
    /\ At(p, "secret")
    /\ Goto(p, IF ~ secret THEN "abandon"
               ELSE IF w[p].ip = NoIP /\ w[p].obj.req THEN "lookup" ELSE "lock")
    /\ UNCHANGED <<api, ipam, lb, seen, spent>>

abandonDeletion(p) ==
    LET s == w[p].key
    IN  /\ At(p, "abandon")
        /\ Write(s, [svc[s] EXCEPT !.fin = FALSE])
        /\ Return(p)
        /\ UNCHANGED <<ipam, lb, spent>>

\* lookupServiceFloatingIP on the IPAM's list.
Listed(s) == {a \in Addr : s \in claim[a]}

LookupPending(p) ==
    /\ At(p, "lookup")
    /\ \/ \E a \in Listed(w[p].key) : w' = [w EXCEPT ![p].pc = "lock", ![p].ip = a]
       \/ Listed(w[p].key) = {} /\ Goto(p, "lock")
    /\ UNCHANGED <<api, ipam, lb, seen, spent>>

lockAddressUnserialized(p) ==
    /\ At(p, "lock")
    /\ Goto(p, IF w[p].ip = NoIP THEN "strip" ELSE "shared")
    /\ UNCHANGED <<api, ipam, lb, seen, spent>>
\* lockAddress: nothing to lock, and nothing to take back, without an address.
lockAddress(p) ==
    LET a == w[p].ip
    IN  /\ At(p, "lock")
        /\ \/ a = NoIP /\ Goto(p, "strip") /\ UNCHANGED lock
           \/ /\ a # NoIP /\ lock[a] = None
              /\ lock' = [lock EXCEPT ![a] = p]
              /\ Goto(p, "shared")
        /\ UNCHANGED <<api, ipam, lb, cache, queue, tomb, spent>>

DecideShared(p) ==
    LET shared  == InUse(w[p].key, w[p].ip)
        prog    == w[p].obj.prog
    IN  /\ At(p, "shared")
        /\ w' = [w EXCEPT ![p].shared = shared,
                          ![p].pc = IF cleanupStageReached(prog, "released") THEN "strip"
                                    ELSE IF shared \/ cleanupStageReached(prog, "deleted") THEN "release"
                                    ELSE "withdraw"]
        /\ UNCHANGED <<api, ipam, lb, seen, spent>>

\* Withdraw the advertisement, then delete the pool; what is gone is gone.
DeleteL2Advertisement(p) ==
    /\ At(p, "withdraw")
    /\ adv' = [adv EXCEPT ![w[p].ip] = FALSE]
    /\ Goto(p, "unpool")
    /\ UNCHANGED <<api, ipam, pool, seen, spent>>

DeleteIPAddressPool(p) ==
    /\ At(p, "unpool")
    /\ pool' = [pool EXCEPT ![w[p].ip] = NoPool]
    /\ Goto(p, "mark1")
    /\ UNCHANGED <<api, ipam, adv, seen, spent>>

recordCleanupProgress(p, stage, next) ==
    LET s == w[p].key
    IN  /\ IF svc[s].live THEN Write(s, [svc[s] EXCEPT !.prog = stage]) ELSE UNCHANGED api
        /\ Goto(p, next)
        /\ UNCHANGED <<ipam, lb, seen, spent>>

RecordDeleted(p)  == At(p, "mark1") /\ recordCleanupProgress(p, "deleted", "release")
RecordReleased(p) == At(p, "mark2") /\ recordCleanupProgress(p, "released", "strip")

\* ReleaseFIP: the claim of this Service only; a claim that is not there is
\* as good as released.
ReleaseFIP(s, a) == claim' = [claim EXCEPT ![a] = @ \ {s}]

Release(p) ==
    /\ At(p, "release")
    /\ ReleaseFIP(w[p].key, w[p].ip)
    /\ Goto(p, "mark2")
    /\ UNCHANGED <<api, lb, seen, spent>>

StripAnnotations(p) ==
    LET s == w[p].key
    IN  /\ At(p, "strip")
        /\ IF svc[s].live THEN Write(s, [svc[s] EXCEPT !.ip = NoIP, !.req = FALSE, !.prog = "none"])
                          ELSE UNCHANGED api
        /\ Goto(p, "unfinalize")
        /\ UNCHANGED <<ipam, lb, seen, spent>>

removeFinalizer(p) ==
    LET s == w[p].key
    IN  /\ At(p, "unfinalize")
        /\ Write(s, [svc[s] EXCEPT !.fin = FALSE])
        /\ Return(p)
        /\ UNCHANGED <<ipam, lb, spent>>

-----------------------------------------------------------------------------
(* Allocation                                                              *)

\* MetalLB has given the Service an address from a pool that admits it.
MayHaveIngress(s) == \E a \in Addr : pool[a].has /\ svc[s].lab /\ pool[a].sel \in {s, case.group[s]}

AdoptListed(p, a) == w' = [w EXCEPT ![p].pc = "pool", ![p].ip = a, ![p].adopt = TRUE]

\* The Secret, then: adopt the address that the annotation records; with a
\* marker, or an address nobody recorded, ask the IPAM before requesting.
Recover(p) ==
    LET s == w[p].key
    IN  /\ At(p, "recover")
        /\ \/ ~ secret /\ Defer(p)
           \/ secret /\ w[p].adopt /\ Goto(p, "pool") /\ UNCHANGED seen
           \/ secret /\ ~ w[p].adopt /\ ~ w[p].obj.req /\ Goto(p, "mark") /\ UNCHANGED seen
           \/ /\ secret /\ ~ w[p].adopt /\ (w[p].obj.req \/ MayHaveIngress(s))
              /\ \E a \in Listed(s) : AdoptListed(p, a)
              /\ UNCHANGED seen
           \/ /\ secret /\ ~ w[p].adopt /\ w[p].obj.req /\ Listed(s) = {}
              /\ Goto(p, "mark") /\ UNCHANGED seen
           \/ /\ secret /\ ~ w[p].adopt /\ MayHaveIngress(s) /\ Listed(s) = {}
              /\ Return(p)
        /\ UNCHANGED <<api, ipam, lb, spent>>

\* Persist the intent before the request; without the Service, no request.
markAllocationPending(p) ==
    LET s == w[p].key
    IN  /\ At(p, "mark")
        /\ \/ svc[s].live /\ Write(s, [svc[s] EXCEPT !.req = TRUE]) /\ Goto(p, "request") /\ UNCHANGED seen
           \/ ~ svc[s].live /\ Return(p) /\ UNCHANGED api
        /\ UNCHANGED <<ipam, lb, spent>>

\* What the manager answers: the address the Service holds, the one of its
\* group, or a free one.
SameGroup(s, a) == case.group[s] # None /\ \E o \in claim[a] : case.group[o] = case.group[s]
Answers(s) ==
    IF Listed(s) # {} THEN Listed(s)
    ELSE IF \E a \in Addr : SameGroup(s, a) THEN {a \in Addr : SameGroup(s, a)}
    ELSE {a \in case.range : claim[a] = {}}

RequestFIP(p) ==
    LET s == w[p].key
    IN  /\ At(p, "request")
        /\ \E a \in Answers(s) :
              /\ claim' = [claim EXCEPT ![a] = @ \cup {s}]
              /\ \/ w' = [w EXCEPT ![p].pc = "pool", ![p].ip = a] /\ UNCHANGED <<seen, spent>>
                 \/ Spend("fault") /\ Error(p)      \* the response is lost
        /\ UNCHANGED <<api, lb>>

\* Quota, denial or no address: clear the marker and look again later.
RequestRefused(p) ==
    LET s == w[p].key
    IN  /\ At(p, "request")
        /\ Answers(s) = {}
        /\ \/ /\ IF svc[s].live THEN Write(s, [svc[s] EXCEPT !.req = FALSE]) ELSE UNCHANGED api
              /\ UNCHANGED spent
           \/ Spend("fault") /\ UNCHANGED api        \* only logged
        /\ Defer(p)
        /\ UNCHANGED <<ipam, lb>>

\* A group member joins a pool that is there; otherwise it is created, and one
\* that is there already is taken as it is.
Joins(s, a) == case.group[s] # None /\ pool[a].has
NewPool(s)  == [has |-> TRUE, sel |-> IF case.group[s] # None THEN case.group[s] ELSE s, ns |-> {s}]

CreateIPAddressPool(p) ==
    LET s == w[p].key
        a == w[p].ip
    IN  /\ At(p, "pool")
        /\ \/ /\ Joins(s, a)
              /\ pool' = [pool EXCEPT ![a].ns = @ \cup {s}]
              /\ Goto(p, "annotate")
           \/ /\ case.group[s] = None /\ pool[a].has
              /\ Goto(p, "advertise") /\ UNCHANGED pool
           \/ /\ ~ pool[a].has
              /\ pool' = [pool EXCEPT ![a] = NewPool(s)]
              /\ w' = [w EXCEPT ![p].pc = "advertise", ![p].created = TRUE]
        /\ UNCHANGED <<api, ipam, adv, seen, spent>>

\* A call that reports an error may have been carried out all the same.  When
\* it is the creation, an address this reconcile requested goes back.  A group
\* member that fails to read the pool creates it, and finds it there.
CreatePoolFails(p) ==
    LET s == w[p].key
        a == w[p].ip
    IN  /\ At(p, "pool") /\ Spend("fault")
        /\ \/ /\ Joins(s, a)
              /\ pool' \in {pool, [pool EXCEPT ![a].ns = @ \cup {s}]}
              /\ Error(p)
           \/ /\ Joins(s, a)
              /\ Goto(p, "advertise") /\ UNCHANGED <<pool, seen>>
           \/ /\ ~ Joins(s, a)
              /\ pool' \in {pool, [pool EXCEPT ![a] = IF @.has THEN @ ELSE NewPool(s)]}
              /\ IF w[p].adopt THEN Error(p) ELSE Goto(p, "undorelease") /\ UNCHANGED seen
        /\ UNCHANGED <<api, ipam, adv>>

CreateL2Advertisement(p) ==
    LET there == [adv EXCEPT ![w[p].ip] = TRUE]
    IN  /\ At(p, "advertise")
        /\ \/ adv' = there /\ Goto(p, "annotate") /\ UNCHANGED spent
           \/ adv' \in {adv, there} /\ Spend("fault") /\ Goto(p, "advfail")
        /\ UNCHANGED <<api, ipam, pool, seen>>

\* The annotation, the labels and the finalizer, on whatever object now has
\* the name.
Annotate(p) ==
    LET s   == w[p].key
        new == [svc[s] EXCEPT !.ip = w[p].ip, !.req = FALSE, !.fin = TRUE, !.lab = TRUE]
    IN  /\ At(p, "annotate")
        /\ \/ svc[s].live /\ Write(s, new) /\ Return(p) /\ UNCHANGED spent
           \/ ~ svc[s].live /\ Goto(p, "vlock") /\ UNCHANGED <<api, seen, spent>>
           \/ /\ UNCHANGED api \/ (svc[s].live /\ Write(s, new))
              /\ Spend("fault") /\ Goto(p, "annotfail") /\ UNCHANGED seen
        /\ UNCHANGED <<ipam, lb>>

-----------------------------------------------------------------------------
(* Taking back a failed allocation                                         *)

\* Never while another Service's annotation names the address.
UndoCheck(p) ==
    /\ \/ At(p, "advfail") \/ At(p, "annotfail")
    /\ \/ addressInUse(w[p].key, w[p].ip) /\ Error(p)
       \/ /\ ~ addressInUse(w[p].key, w[p].ip)
          /\ \/ At(p, "advfail") /\ Goto(p, "undopool") /\ UNCHANGED seen
             \/ At(p, "annotfail") /\ w[p].created /\ Goto(p, "undoadv") /\ UNCHANGED seen
             \/ At(p, "annotfail") /\ ~ w[p].created /\ ~ w[p].adopt /\ Goto(p, "undorelease") /\ UNCHANGED seen
             \/ At(p, "annotfail") /\ ~ w[p].created /\ w[p].adopt /\ Error(p)
    /\ UNCHANGED <<api, ipam, lb, spent>>

UndoAdvertisement(p) ==
    /\ At(p, "undoadv")
    /\ IF adv[w[p].ip] THEN Goto(p, "undopool") /\ UNCHANGED seen ELSE Error(p)
    /\ adv' = [adv EXCEPT ![w[p].ip] = FALSE]
    /\ UNCHANGED <<api, ipam, pool, spent>>

UndoPool(p) ==
    /\ At(p, "undopool")
    /\ IF pool[w[p].ip].has /\ ~ w[p].adopt THEN Goto(p, "undorelease") /\ UNCHANGED seen ELSE Error(p)
    /\ pool' = [pool EXCEPT ![w[p].ip] = NoPool]
    /\ UNCHANGED <<api, ipam, adv, spent>>

UndoRelease(p) ==
    /\ At(p, "undorelease")
    /\ ReleaseFIP(w[p].key, w[p].ip)
    /\ Error(p)
    /\ UNCHANGED <<api, lb, spent>>

\* releaseVanishedAllocation: the Service is gone before anything of the
\* allocation was recorded on it.
VanishedLock(p) ==
    /\ At(p, "vlock")
    /\ lock[w[p].ip] = None
    /\ lock' = [lock EXCEPT ![w[p].ip] = p]
    /\ Goto(p, "vshared")
    /\ UNCHANGED <<api, ipam, lb, cache, queue, tomb, spent>>

VanishedPoolKept(p) == At(p, "vshared") /\ Goto(p, "vrelease") /\ UNCHANGED <<api, ipam, lb, seen, spent>>
VanishedShared(p) ==
    /\ At(p, "vshared")
    /\ Goto(p, IF InUse(w[p].key, w[p].ip) THEN "vrelease" ELSE "vwithdraw")
    /\ UNCHANGED <<api, ipam, lb, seen, spent>>

VanishedWithdraw(p) ==
    /\ At(p, "vwithdraw")
    /\ adv' = [adv EXCEPT ![w[p].ip] = FALSE]
    /\ Goto(p, "vunpool")
    /\ UNCHANGED <<api, ipam, pool, seen, spent>>

VanishedUnpool(p) ==
    /\ At(p, "vunpool")
    /\ pool' = [pool EXCEPT ![w[p].ip] = NoPool]
    /\ Goto(p, "vrelease")
    /\ UNCHANGED <<api, ipam, adv, seen, spent>>

VanishedRelease(p) ==
    /\ At(p, "vrelease")
    /\ ReleaseFIP(w[p].key, w[p].ip)
    /\ Return(p)
    /\ UNCHANGED <<api, lb, spent>>

\* What a call writes that returns its error.
Effect(p) ==
    LET s   == w[p].key
        obj == svc[s]
    IN  \/ /\ w[p].pc \in {"withdraw", "undoadv", "vwithdraw"}
           /\ adv' = [adv EXCEPT ![w[p].ip] = FALSE]
           /\ UNCHANGED <<api, ipam, pool>>
        \/ /\ w[p].pc \in {"unpool", "undopool", "vunpool"}
           /\ pool' = [pool EXCEPT ![w[p].ip] = NoPool]
           /\ UNCHANGED <<api, ipam, adv>>
        \/ /\ w[p].pc \in {"release", "undorelease", "vrelease"}
           /\ ReleaseFIP(s, w[p].ip)
           /\ UNCHANGED <<api, lb>>
        \/ /\ obj.live
           /\ \/ w[p].pc = "mark" /\ Write(s, [obj EXCEPT !.req = TRUE])
              \/ w[p].pc = "mark1" /\ Write(s, [obj EXCEPT !.prog = "deleted"])
              \/ w[p].pc = "mark2" /\ Write(s, [obj EXCEPT !.prog = "released"])
              \/ w[p].pc = "strip" /\ Write(s, [obj EXCEPT !.ip = NoIP, !.req = FALSE, !.prog = "none"])
              \/ w[p].pc \in {"unfinalize", "abandon"} /\ Write(s, [obj EXCEPT !.fin = FALSE])
           /\ UNCHANGED <<ipam, lb>>

\* The call fails, or its response is lost.
MayTakeEffect(p) == UNCHANGED <<api, ipam, lb>> \/ Effect(p)

\* A failure leaves the address on the copy that becomes the tombstone.
Vanished == {"vshared", "vwithdraw", "vunpool", "vrelease"}
VanishedFails(p) ==
    /\ w[p].pc \in Vanished
    /\ Spend("fault")
    /\ ErrorWith(p, [w[p].obj EXCEPT !.ip = w[p].ip])
    /\ MayTakeEffect(p)

\* Every other call returns its error.
Plain == {"secret", "lookup", "shared", "withdraw", "unpool", "mark1", "release", "mark2", "strip",
          "unfinalize", "abandon", "recover", "mark", "request", "advfail", "annotfail",
          "undoadv", "undopool", "undorelease"}
CallFails(p) == w[p].pc \in Plain /\ Spend("fault") /\ Error(p) /\ MayTakeEffect(p)

-----------------------------------------------------------------------------
(* Informer                                                                *)

serviceNeedsReconcile(old, new) ==
    \/ new.del
    \/ ~ new.lb /\ (old.lb \/ hasFloatingIPRecord(new))
    \/ new.lb /\ (~ old.lb \/ old = new \/ old.fin # new.fin \/ old.ip # new.ip)

Watched(s) == cache[s] # svc[s]

\* What the next event brings: the deletion of an object comes before the
\* addition of another with its name.
Delivered(s) == IF cache[s].live /\ cache[s].uid # svc[s].uid THEN Absent ELSE svc[s]

\* Add, update and delete events.
Event(s) ==
    LET new == Delivered(s)
    IN
    /\ Watched(s)
    /\ cache' = [cache EXCEPT ![s] = new]
    /\ queue' = IF \/ cache[s].live /\ new.live /\ serviceNeedsReconcile(cache[s], new)
                   \/ ~ cache[s].live /\ (new.lb \/ hasFloatingIPRecord(new))
                   \/ ~ new.live
                THEN queue \cup {s} ELSE queue
    /\ UNCHANGED <<api, ipam, lb, tomb, w, lock, spent>>

\* A deletion that happened while the watch was down comes with the last
\* state the cache had.
DeletedFinalStateUnknown(s) ==
    /\ cache[s].live /\ ~ svc[s].live
    /\ Spend("outage")
    /\ cache' = [cache EXCEPT ![s] = Absent]
    /\ rememberTombstone(s, cache[s])
    /\ queue' = queue \cup {s}
    /\ UNCHANGED <<api, ipam, lb, w, lock>>

\* The periodic resync: every 15 minutes, so mostly of a Service that nothing
\* happens to.
Resync(s) ==
    /\ cache[s].live /\ serviceNeedsReconcile(cache[s], cache[s])
    /\ IF Watched(s) \/ \E p \in Worker : w[p].key = s THEN Spend("lag") ELSE UNCHANGED spent
    /\ queue' = queue \cup {s}
    /\ UNCHANGED <<api, ipam, lb, cache, tomb, w, lock>>

-----------------------------------------------------------------------------
(* Users and crashes                                                       *)

Quiet == UNCHANGED <<ipam, lb, cache, tomb, queue, w, lock>>

CreateService(s) ==
    /\ s \in case.names /\ ~ svc[s].live
    /\ IF born[s] = 0 THEN UNCHANGED spent ELSE Spend("reuse")
    /\ born' = [born EXCEPT ![s] = @ + 1]
    /\ svc' = [svc EXCEPT ![s] = [Absent EXCEPT !.live = TRUE, !.uid = born'[s], !.lb = TRUE]]
    /\ UNCHANGED <<secret, early>> /\ Quiet

DeleteService(s) ==
    /\ svc[s].live /\ ~ svc[s].del
    /\ svc' = [svc EXCEPT ![s] = Settle([@ EXCEPT !.del = TRUE])]
    /\ early' = IF svc[s].fin THEN early ELSE early \cup {s}
    /\ UNCHANGED <<secret, born, spent>> /\ Quiet

ConvertService(s) ==
    /\ svc[s].live /\ svc[s].lb /\ Spend("convert")
    /\ Write(s, [svc[s] EXCEPT !.lb = FALSE]) /\ Quiet

ForceFinalizer(s) ==
    /\ svc[s].live /\ svc[s].del /\ Spend("force")
    /\ svc' = [svc EXCEPT ![s] = Settle([@ EXCEPT !.fin = FALSE])]
    /\ early' = early \cup {s}
    /\ UNCHANGED <<secret, born>> /\ Quiet

EditAnnotation(s) ==
    /\ svc[s].live /\ svc[s].ip # NoIP /\ Spend("edit")
    /\ svc' = [svc EXCEPT ![s].ip = NoIP]
    /\ early' = early \cup {s}
    /\ UNCHANGED <<secret, born>> /\ Quiet

RetireProject ==
    /\ secret /\ Spend("retire")
    /\ secret' = FALSE
    /\ UNCHANGED <<svc, born, early>> /\ Quiet

\* The controller restarts: workers, locks and tombstones are lost, and the
\* informer lists what is there.
Restart ==
    /\ Spend("crash")
    /\ w' = [p \in Worker |-> Idle]
    /\ lock' = [a \in Addr |-> None]
    /\ tomb' = [s \in Service |-> Absent]
    /\ cache' = svc
    /\ queue' = {s \in Service : svc[s].live /\ (svc[s].lb \/ hasFloatingIPRecord(svc[s]))}
    /\ UNCHANGED <<api, ipam, lb>>

-----------------------------------------------------------------------------

Init ==
    /\ svc = [s \in Service |-> Absent]
    /\ cache = svc
    /\ tomb = svc
    /\ queue = {}
    /\ w = [p \in Worker |-> Idle]
    /\ lock = [a \in Addr |-> None]
    /\ claim = [a \in Addr |-> {}]
    /\ pool = [a \in Addr |-> NoPool]
    /\ adv = [a \in Addr |-> FALSE]
    /\ secret = TRUE
    /\ case \in Cases
    /\ born = [s \in Service |-> 0]
    /\ early = {}
    /\ torn = {}
    /\ spent = [b \in Bounded |-> 0]

Step(p) ==
    \/ \E s \in Service : reconcile(p, s)
    \/ ReadSecret(p) \/ abandonDeletion(p) \/ LookupPending(p) \/ lockAddress(p) \/ DecideShared(p)
    \/ DeleteL2Advertisement(p) \/ DeleteIPAddressPool(p) \/ RecordDeleted(p) \/ Release(p)
    \/ RecordReleased(p) \/ StripAnnotations(p) \/ removeFinalizer(p)
    \/ Recover(p) \/ markAllocationPending(p) \/ RequestFIP(p) \/ RequestRefused(p)
    \/ CreateIPAddressPool(p) \/ CreateL2Advertisement(p) \/ Annotate(p)
    \/ UndoCheck(p) \/ UndoAdvertisement(p) \/ UndoPool(p) \/ UndoRelease(p)
    \/ VanishedLock(p) \/ VanishedShared(p) \/ VanishedWithdraw(p) \/ VanishedUnpool(p)
    \/ VanishedRelease(p)

\* An allocation is taken back, and what was written last of it stays: the
\* write was carried out but reported failed.
Tears(p) == /\ w[p].pc \in {"pool", "advertise", "annotate"} /\ ~ w[p].adopt
            /\ w'[p].pc \in {"undorelease", "advfail", "annotfail"}
            /\ ~ UNCHANGED <<svc, pool, adv>>

Next ==
    /\ \/ \E p \in Worker : Step(p) \/ CreatePoolFails(p) \/ VanishedFails(p) \/ CallFails(p)
       \/ \E s \in Service :
             \/ Event(s) \/ DeletedFinalStateUnknown(s) \/ Resync(s)
             \/ CreateService(s) \/ DeleteService(s) \/ ConvertService(s)
             \/ ForceFinalizer(s) \/ EditAnnotation(s)
       \/ RetireProject \/ Restart
    /\ torn' = torn \cup {<<w[p].pc, w[p].key, w[p].ip>> : p \in {q \in Worker : Tears(q)}}
    /\ UNCHANGED case

Spec == Init /\ [][Next]_vars

-----------------------------------------------------------------------------

\* A lock on an address is held by the worker that works on the address, so a
\* worker that returned, deferred or failed has given its lock back.
TypeOK ==
    /\ svc \in [Service -> ServiceObj]
    /\ cache \in [Service -> ServiceObj]
    /\ tomb \in [Service -> ServiceObj]
    /\ queue \subseteq Service
    /\ w \in [Worker -> WorkerState]
    /\ lock \in [Addr -> Worker \cup {None}]
    /\ \A a \in Addr : lock[a] # None => w[lock[a]].ip = a
    /\ claim \in [Addr -> SUBSET Service]
    /\ pool \in [Addr -> Pool]
    /\ adv \in [Addr -> BOOLEAN]
    /\ torn \subseteq {"pool", "advertise", "annotate"} \X Service \X Addr

\* Nothing is left to do: no key is queued, no worker is busy and the cache
\* is up to date.
AtRest ==
    /\ queue = {} /\ cache = svc
    /\ \A p \in Worker : At(p, "idle")

\* A Service went without the finalizer, and something else went wrong too.
LostTrack(s) == /\ s \in early /\ ~ svc[s].live
                /\ spent.fault + spent.crash + spent.force + spent.edit > 0

\* A failure or a restart interrupted a cleanup that another Service's cleanup
\* may have deferred to.
Interrupted == Cardinality(case.names) > 1 /\ spent.fault + spent.crash > 0

\* The annotation of s with an address, or the pool or the advertisement of a,
\* was written and reported failed, so that the claim was given back.
Torn(what, a) == \E s \in Service : <<what, s, a>> \in torn
TornService(s) == \E a \in Addr : <<"annotate", s, a>> \in torn

\* What the annotations say of s is not what it claims.
Misled(s) == LostTrack(s) \/ TornService(s)

\* The addresses that are advertised though no Service of the cluster claims
\* them: the next claimant may be in another cluster on the same segment.
Unclaimed == {a \in Addr : pool[a].has /\ adv[a] /\ claim[a] = {}}

\* An address is advertised only while some Service of the cluster claims it:
\* it is withdrawn before it is released.
AlwaysWithdrawn == Unclaimed = {} \/ \E s \in Service : LostTrack(s)

\* The same, but for a Service with such an annotation: it goes on to build up
\* and advertise the address that it still records.
AdvertisedIsClaimed ==
    \/ Interrupted
    \/ Unclaimed = {}
    \/ \E s \in Service : Misled(s)

\* At rest claims and annotations agree: no failure, crash or deletion in
\* between leaks an address, or leaves a Service with two or with one that it
\* does not claim.
SettledClaims ==
    AtRest /\ secret =>
        \A s \in Service :
            \/ \A a \in Addr : s \in claim[a] <=> svc[s].live /\ svc[s].ip = a
            \/ Misled(s)

\* An address is in use by a Service that records it.
Needed(a) == \E s \in Service : Misled(s) \/ (svc[s].live /\ svc[s].ip = a)

\* At rest no pool and no advertisement is left behind: the last Service that
\* uses an address takes them down, whoever deletes, converts or restarts when.
\* Only one whose creation was reported failed stays, when the next request is
\* given another address.
SettledPools ==
    \/ Interrupted
    \/ AtRest /\ secret =>
          \A a \in Addr : /\ pool[a].has => Needed(a) \/ Torn("pool", a)
                         /\ adv[a] => Needed(a) \/ Torn("advertise", a)
=============================================================================
