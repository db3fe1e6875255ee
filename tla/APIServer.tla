------------------------------ MODULE APIServer ------------------------------
(***************************************************************************)
(* apiserver: the HTTP handlers that claim, release and delete FloatingIPs *)
(* on behalf of the Services of downstream clusters.  The server keeps no  *)
(* state of its own; a claim is a set of labels on a FloatingIP (the       *)
(* cluster, the group and one pair of labels per Service).  A handler is a *)
(* process: one step per API call, with the local work that follows it.    *)
(* Several handlers run at once, in several replicas.                      *)
(*                                                                         *)
(* One project, with any number of pools.  Only the search for a Service's *)
(* own FloatingIP and the list test the pool; the other loops take what    *)
(* they find in the project.  The numbers in service-<id>-name only keep   *)
(* the pairs apart, so the pairs are a set.                                *)
(***************************************************************************)
EXTENDS Naturals, FiniteSets

CONSTANTS Addr,        \* addresses
          Pool,        \* names of the pools
          Subnet,      \* the addresses of each pool
          Gen,         \* names the API server generates (GenerateName)
          Client,      \* records [cluster, svc]: who asks
          Group,       \* names of FloatingIP groups
          Ask,         \* records [who, pool, ip, group]: what the Services ask for
          ReleaseAs,   \* records [ip, group]: what the releases name
          Drop,        \* addresses whose FloatingIPs users delete
          Handler,     \* requests that may be served at the same time
          NoIP, None,  \* no address; no cluster, group, pool, name or request
          Preset,      \* FloatingIPs created by an administrator at the start
          Bounds       \* what the runs allow of each of these:

\* requests, releases, deletions; creations the webhook admits on an old view;
\* API calls that fail, or lose their response.
Bound == [request : Nat, release : Nat, delete : Nat, race : Nat, fault : Nat]

ASSUME APIAssumption ==
    /\ NoIP \notin Addr /\ None \notin Group \cup Pool
    /\ Subnet \in [Pool -> SUBSET Addr]
    /\ \A c \in Client : {c.cluster, c.svc} \cap {None} = {}
    /\ \A c, d \in Client : c.cluster = d.cluster /\ c.svc = d.svc => c = d
    /\ (Pool \X Addr) \cap Gen = {} /\ None \notin (Pool \X Addr) \cup Gen
    /\ Preset \subseteq Gen
    /\ Ask \subseteq [who : Client, pool : Pool, ip : Addr \cup {NoIP}, group : Group \cup {None}]
    /\ ReleaseAs \subseteq [ip : Addr \cup {NoIP}, group : Group \cup {None}]
    /\ Drop \subseteq Addr
    /\ Bounds \subseteq Bound

VARIABLES fip,    \* FloatingIP objects by name
          h,      \* the handlers
          held,   \* history: the FloatingIP each client was last approved
          lapsed, \* history: the FloatingIPs on which a claim may have been overtaken
          budget  \* what is left of the bounds

vars == <<fip, h, held, lapsed, budget>>

-----------------------------------------------------------------------------
(* Objects                                                                 *)

\* The name of a pinned FloatingIP is a hash of its pool and its address.
specificFIPName(pool, a) == <<pool, a>>
Name == (Pool \X Addr) \cup Gen

IPOrNone    == Addr \cup {NoIP}
ClusterOrNo == {c.cluster : c \in Client} \cup {None}
GroupOrNo   == Group \cup {None}

Assigned == [cluster : ClusterOrNo, group : GroupOrNo]

FloatingIP == [live    : BOOLEAN,
               del     : BOOLEAN,                         \* terminating
               cluster : ClusterOrNo,                     \* cluster-name label
               svcs    : SUBSET {c.svc : c \in Client},   \* service-<id> labels
               group   : GroupOrNo,                       \* floatingip-group label
               pool    : Pool \cup {None},
               spec    : IPOrNone,
               status  : IPOrNone,
               asg     : Assigned \cup {None}]            \* status.assigned

Gone == [live |-> FALSE, del |-> FALSE, cluster |-> None, svcs |-> {}, group |-> None,
         pool |-> None, spec |-> NoIP, status |-> NoIP, asg |-> None]

Live == {n \in Name : fip[n].live}

\* A new object with the labels of its first Service.
NewFip(r, a) == [Gone EXCEPT !.live = TRUE, !.cluster = r.who.cluster, !.svcs = {r.who.svc},
                             !.group = r.group, !.pool = r.pool, !.spec = a]

applyFIPRequestLabels(obj, r) ==
    [obj EXCEPT !.cluster = r.who.cluster, !.svcs = @ \cup {r.who.svc},
                !.group = IF r.group # None THEN r.group ELSE @]

\* releaseMutate: the pair of the Service goes; the group and the cluster go
\* with the last pair.
releaseMutate(obj, r) ==
    LET left == obj.svcs \ {r.who.svc}
    IN  [obj EXCEPT !.svcs = left,
                    !.group = IF left = {} THEN None ELSE @,
                    !.cluster = IF left = {} THEN None ELSE @]

\* The object goes.  A generated name never comes back, the name of a pinned
\* address does.
Remove(n) == /\ fip' = [fip EXCEPT ![n] = [Gone EXCEPT !.del = n \in Gen]]
             /\ held' = [c \in Client |-> IF held[c] = n THEN None ELSE held[c]]

\* A Delete call on n: the manager's finalizer, which it puts there before it
\* grants an address, keeps the object terminating.
DeleteCall(n) ==
    \/ fip[n].live /\ fip' = [fip EXCEPT ![n].del = TRUE] /\ UNCHANGED held
    \/ fip[n].live /\ fip[n].status = NoIP /\ Remove(n)
    \/ ~ fip[n].live /\ UNCHANGED <<fip, held>>

-----------------------------------------------------------------------------
(* Handlers                                                                *)

Request == [op : {"request", "release", "delete"}, who : Client, pool : Pool \cup {None},
            ip : IPOrNone, group : GroupOrNo]

HandlerState == [pc      : {"idle", "find", "pinned", "create", "adopt", "relist", "claim", "list",
                            "group", "cands", "new", "watch", "cleanup", "rlist", "rupdate", "dlist", "ddelete"},
                 req     : Request \cup {None},
                 obj     : Name \cup {None},   \* the FloatingIP it works on
                 cands   : SUBSET Name,        \* candidates of its List not tried yet
                 created : BOOLEAN,            \* createdNew
                 grouped : BOOLEAN]            \* waitForFloatingIPGroup

\* Where a handler works on an object it has found or made.
OnObject == {"adopt", "claim", "group", "watch", "cleanup", "rupdate", "ddelete"}

Idle == [pc |-> "idle", req |-> None, obj |-> None, cands |-> {}, created |-> FALSE, grouped |-> FALSE]

Spend(what) == budget[what] > 0 /\ budget' = [budget EXCEPT ![what] = @ - 1]

At(p, pc) == h[p].pc = pc

\* The handler goes on to pc, working on n.
Go(p, pc, n) == h' = [h EXCEPT ![p] = [@ EXCEPT !.pc = pc, !.obj = n]]

\* The handler waits for the address of n, an object with these labels.
Await(p, n, obj, new) ==
    h' = [h EXCEPT ![p] = [@ EXCEPT !.pc = "watch", !.obj = n, !.created = new, !.grouped = obj.group # None]]

\* The handler answers.
Done(p) == h' = [h EXCEPT ![p] = Idle]
Fail(p) == Done(p) /\ UNCHANGED held
Stay    == UNCHANGED <<fip, held, budget>>

\* An API call fails or is cut off by the end of the request.
CallFails(p) == Spend("fault") /\ Fail(p) /\ UNCHANGED fip

\* Handlers whose client still waits for the answer.  A client that is gone
\* ends its handler's context, but the cleanup that follows has one of its own.
Serving(c) == {p \in Handler : h[p].pc \notin {"idle", "cleanup"} /\ h[p].req.who = c}

First(op) == CASE op = "request" -> "find" [] op = "release" -> "rlist" [] op = "delete" -> "dlist"

\* A client asks, one question at a time; one that wants its address to be
\* released no longer counts on it.
Begin(p, r) ==
    /\ At(p, "idle")
    /\ Serving(r.who) = {}
    /\ Spend(r.op)
    /\ h' = [h EXCEPT ![p] = [Idle EXCEPT !.pc = First(r.op), !.req = r]]
    /\ held' = IF r.op = "release" THEN [held EXCEPT ![r.who] = None] ELSE held
    /\ UNCHANGED fip

Questions ==
    {[op |-> "request", who |-> a.who, pool |-> a.pool, ip |-> a.ip, group |-> a.group] : a \in Ask}
        \cup {[op |-> "release", who |-> c, pool |-> None, ip |-> x.ip, group |-> x.group] :
                 c \in Client, x \in ReleaseAs}
        \cup [op : {"delete"}, who : Client, pool : {None}, ip : Drop, group : {None}]

-----------------------------------------------------------------------------
(* POST /fip/request                                                       *)

serviceAlreadyExists(obj, r) == r.who.svc \in obj.svcs

ServiceFIPsWithAddress(r) ==
    {n \in Live : /\ ~ fip[n].del /\ fip[n].status # NoIP
                  /\ fip[n].cluster = r.who.cluster
                  /\ fip[n].pool = r.pool
                  /\ serviceAlreadyExists(fip[n], r)
                  /\ fip[n].group = r.group
                  /\ r.ip # NoIP => fip[n].spec = r.ip}
\* findServiceFIP: FloatingIPs of the pool that already claim the Service.
ServiceFIPs(r) ==
    {n \in Live : /\ ~ fip[n].del
                  /\ fip[n].cluster = r.who.cluster
                  /\ fip[n].pool = r.pool
                  /\ serviceAlreadyExists(fip[n], r)
                  /\ fip[n].group = r.group
                  /\ r.ip # NoIP => fip[n].spec = r.ip}

findServiceFIP(p) ==
    LET r == h[p].req
    IN  /\ At(p, "find")
        /\ \/ \E n \in ServiceFIPs(r) : Await(p, n, fip[n], FALSE)
           \/ ServiceFIPs(r) = {} /\ Go(p, IF r.ip # NoIP THEN "pinned" ELSE "list", None)
        /\ Stay

\* Whatever the pool.
PinnedFIPs(a) == {n \in Live : fip[n].spec = a}

checkSpecificIPClaimable(obj, r) ==
    /\ ~ obj.del
    /\ \/ obj.asg = None
       \/ /\ obj.asg.group = None
          /\ r.group = None
          /\ obj.cluster = r.who.cluster
          /\ serviceAlreadyExists(obj, r)
       \/ /\ obj.asg.group # None
          /\ r.group \in {None, obj.asg.group}
          /\ obj.asg.cluster = r.who.cluster

\* The claim checks on an existing object, as it was read just now.
CheckThenClaim(p, n) ==
    IF checkSpecificIPClaimable(fip[n], h[p].req) THEN Go(p, "claim", n) /\ UNCHANGED held ELSE Fail(p)

requestSpecificIP(p) ==
    LET found == PinnedFIPs(h[p].req.ip)
    IN  /\ At(p, "pinned")
        /\ \/ \E n \in found : CheckThenClaim(p, n)
           \/ found = {} /\ Go(p, "create", None) /\ UNCHANGED held
        /\ UNCHANGED <<fip, budget>>

\* No FloatingIP of the pool has the address, or waits for it.
Free(pool, a) == \A n \in Live : fip[n].pool = pool => a \notin {fip[n].spec, fip[n].status}

\* The webhook wants an address of the pool that nobody in the pool has; its
\* view of the others can be late.
WebhookAdmits(r) == r.ip \in Subnet[r.pool] /\ Free(r.pool, r.ip)

\* The create succeeds, finds the name taken, or fails: refused by the webhook,
\* or with an error, after which the object may be there all the same.
createUnderName(p, n) ==
    LET r == h[p].req
    IN  /\ At(p, "create")
        /\ \/ /\ ~ fip[n].live
              /\ r.ip \in Subnet[r.pool]
              /\ \/ Free(r.pool, r.ip) /\ UNCHANGED budget
                 \/ ~ Free(r.pool, r.ip) /\ Spend("race")
              /\ fip' = [fip EXCEPT ![n] = NewFip(r, r.ip)]
              /\ Await(p, n, NewFip(r, r.ip), TRUE)
           \/ /\ fip[n].live
              /\ Go(p, "adopt", n)
              /\ UNCHANGED <<fip, budget>>
           \/ /\ ~ fip[n].live
              /\ \/ ~ WebhookAdmits(r) /\ UNCHANGED <<fip, budget>>
                 \/ Spend("fault") /\ UNCHANGED fip
                 \/ WebhookAdmits(r) /\ Spend("fault") /\ fip' = [fip EXCEPT ![n] = NewFip(r, r.ip)]
              /\ Go(p, "relist", None)
        /\ UNCHANGED held

createSpecificAnyName(p) == \E n \in Gen : createUnderName(p, n)
createSpecificIP(p) == createUnderName(p, specificFIPName(h[p].req.pool, h[p].req.ip))

\* AlreadyExists: read the winner's object, unless it is gone again.
AdoptExisting(p) ==
    LET n == h[p].obj
    IN  /\ At(p, "adopt")
        /\ IF ~ fip[n].live THEN Go(p, "relist", None) /\ UNCHANGED held
           ELSE IF fip[n].spec # h[p].req.ip \/ fip[n].pool # h[p].req.pool THEN Fail(p)
           ELSE CheckThenClaim(p, n)
        /\ UNCHANGED <<fip, budget>>

RelistForgets(p) ==
    LET found == PinnedFIPs(h[p].req.ip)
    IN  /\ At(p, "relist")
        /\ \/ found # {} /\ Go(p, "claim", None) /\ UNCHANGED held
           \/ found = {} /\ Fail(p)
        /\ UNCHANGED <<fip, budget>>
\* Denied, or gone between create and get: adopt what a List finds.
RelistAfterCreate(p) ==
    LET found == PinnedFIPs(h[p].req.ip)
    IN  /\ At(p, "relist")
        /\ \/ \E n \in found : CheckThenClaim(p, n)
           \/ found = {} /\ Fail(p)
        /\ UNCHANGED <<fip, budget>>

fipClaimableByCluster(obj, r) == obj.cluster \in {None, r.who.cluster}

fipClaimableByRequest(obj, r) ==
    \/ obj.cluster = None
    \/ r.group # None /\ obj.cluster = r.who.cluster /\ obj.group = r.group

\* updateFloatingIPIf: Get, test, Update, again on every conflict, so the
\* test is true of the object that is written.  One whose answer is lost is an
\* Await that is cut off at once.
updateFloatingIPIf(p, n, claimable) ==
    /\ fip[n].live /\ claimable
    /\ fip' = [fip EXCEPT ![n] = applyFIPRequestLabels(@, h[p].req)]
    /\ Await(p, n, fip'[n], FALSE)
    /\ UNCHANGED <<held, budget>>

ClaimPinnedUnchecked(p) ==
    LET n == h[p].obj
    IN  /\ At(p, "claim")
        /\ \/ updateFloatingIPIf(p, n, TRUE)
           \/ ~ fip[n].live /\ Fail(p) /\ UNCHANGED <<fip, budget>>
ClaimPinned(p) ==
    LET n  == h[p].obj
        ok == fipClaimableByCluster(fip[n], h[p].req)
    IN  /\ At(p, "claim")
        /\ \/ updateFloatingIPIf(p, n, ok)
           \/ ~ (fip[n].live /\ ok) /\ Fail(p) /\ UNCHANGED <<fip, budget>>

\* No address asked for: a FloatingIP of the group in this cluster, or the
\* unassigned ones, of whatever pool, as the List shows them.
GroupFIPs(r) == {n \in Live : /\ r.group # None
                              /\ fip[n].cluster = r.who.cluster
                              /\ fip[n].asg # None
                              /\ fip[n].asg.group = r.group}

Unassigned == {n \in Live : fip[n].status # NoIP /\ fip[n].asg = None}

ListUnassigned(p) ==
    LET r == h[p].req
    IN  /\ At(p, "list")
        /\ \/ \E n \in GroupFIPs(r) : Go(p, "group", n)
           \/ /\ GroupFIPs(r) = {}
              /\ h' = [h EXCEPT ![p] = [@ EXCEPT !.pc = "cands", !.cands = Unassigned]]
        /\ Stay

\* updateFloatingIP: no test on the object that is written.
ClaimGroup(p) ==
    LET n == h[p].obj
    IN  /\ At(p, "group")
        /\ \/ updateFloatingIPIf(p, n, TRUE)
           \/ ~ fip[n].live /\ Fail(p) /\ UNCHANGED <<fip, budget>>

ClaimCandidate(p) ==
    LET r == h[p].req
    IN  /\ At(p, "cands")
        /\ \/ \E n \in h[p].cands :
                 \/ updateFloatingIPIf(p, n, fipClaimableByRequest(fip[n], r))
                 \/ /\ ~ (fip[n].live /\ fipClaimableByRequest(fip[n], r))
                    /\ h' = [h EXCEPT ![p].cands = @ \ {n}]
                    /\ Stay
           \/ h[p].cands = {} /\ Go(p, "new", None) /\ Stay

\* GenerateName: a name nobody has.  The webhook refuses when the pool has
\* no address left.
HasRoom(pool) == \E a \in Subnet[pool] : Free(pool, a)

\* An error leaves the object behind when only the response is lost.
CreateNew(p) ==
    /\ At(p, "new")
    /\ \/ /\ HasRoom(h[p].req.pool)
          /\ \E n \in {m \in Gen : fip[m] = Gone} :
                /\ fip' = [fip EXCEPT ![n] = NewFip(h[p].req, NoIP)]
                /\ \/ Await(p, n, fip'[n], TRUE) /\ UNCHANGED <<held, budget>>
                   \/ Spend("fault") /\ Fail(p)
       \/ ~ HasRoom(h[p].req.pool) /\ Fail(p) /\ UNCHANGED <<fip, budget>>

\* WatchFloatingIP: the address is there and, if the labels named a group
\* when the wait began, the group's assignment too.
allocated(p, obj) == /\ obj.status # NoIP
                     /\ h[p].grouped => obj.asg # None /\ obj.asg.group # None

WatchFloatingIP(p) ==
    LET n == h[p].obj
    IN  /\ At(p, "watch")
        /\ \/ /\ fip[n].live /\ allocated(p, fip[n])
              /\ Done(p)
              /\ held' = [held EXCEPT ![h[p].req.who] = n]
           \/ ~ fip[n].live /\ Fail(p)
        /\ UNCHANGED <<fip, budget>>

\* Deadline or disconnect.  Only an object this request created is cleaned up.
GiveUp(p) ==
    /\ At(p, "watch")
    /\ IF h[p].created THEN Go(p, "cleanup", h[p].obj) ELSE Done(p)
    /\ Stay

\* Delete by name; an error is only logged.
Cleanup(p) ==
    /\ At(p, "cleanup")
    /\ DeleteCall(h[p].obj)
    /\ Done(p)
    /\ UNCHANGED budget

-----------------------------------------------------------------------------
(* POST /fip/release and DELETE /fip/delete                                *)

ReleaseMatches(r) ==
    {n \in Live : /\ fip[n].cluster = r.who.cluster
                  /\ r.ip # NoIP => fip[n].status = r.ip
                  /\ r.group # None => fip[n].group = r.group
                  /\ serviceAlreadyExists(fip[n], r)}

ReleaseList(p) ==
    /\ At(p, "rlist")
    /\ \/ \E n \in ReleaseMatches(h[p].req) : Go(p, "rupdate", n) /\ UNCHANGED held
       \/ ReleaseMatches(h[p].req) = {} /\ Fail(p)
    /\ UNCHANGED <<fip, budget>>

ReleaseUpdate(p) ==
    LET n == h[p].obj
    IN  /\ At(p, "rupdate")
        /\ fip' = IF fip[n].live THEN [fip EXCEPT ![n] = releaseMutate(@, h[p].req)] ELSE fip
        /\ Fail(p)
        /\ UNCHANGED budget

DeleteList(p) ==
    /\ At(p, "dlist")
    /\ \/ \E n \in PinnedFIPs(h[p].req.ip) : Go(p, "ddelete", n) /\ UNCHANGED held
       \/ PinnedFIPs(h[p].req.ip) = {} /\ Fail(p)
    /\ UNCHANGED <<fip, budget>>

DeleteObject(p) ==
    /\ At(p, "ddelete")
    /\ DeleteCall(h[p].obj)
    /\ Done(p)
    /\ UNCHANGED budget

Entries(n) == {[svc |-> s, ip |-> fip[n].spec] : s \in fip[n].svcs}

FIPListAssigned(cluster, pool) ==
    UNION {Entries(n) : n \in {m \in Live : /\ fip[m].pool = pool /\ fip[m].spec # NoIP
                                            /\ fip[m].cluster = cluster /\ fip[m].asg # None}}
\* POST /fip/list: one entry for each Service of a FloatingIP of the pool that
\* has an address in its spec, for this cluster or unassigned.
FIPList(cluster, pool) ==
    UNION {Entries(n) : n \in {m \in Live : /\ fip[m].pool = pool /\ fip[m].spec # NoIP
                                            /\ fip[m].cluster = cluster \/ fip[m].asg = None}}

-----------------------------------------------------------------------------
(* The manager, by what its FloatingIP controller does to an object; that  *)
(* it never grants an address that is taken is Manager's NoSharedAddress.  *)

AssignedFrom(obj) == IF obj.cluster = None THEN None ELSE [cluster |-> obj.cluster, group |-> obj.group]

Grant(n) ==
    /\ fip[n].live /\ ~ fip[n].del /\ fip[n].status = NoIP
    /\ \E a \in Subnet[fip[n].pool] :
          /\ fip[n].spec \in {NoIP, a}
          /\ \A m \in Live \ {n} : fip[m].pool = fip[n].pool => a \notin {fip[m].spec, fip[m].status}
          /\ fip' = [fip EXCEPT ![n] = [@ EXCEPT !.status = a, !.spec = a,
                                                 !.asg = [cluster |-> fip[n].cluster, group |-> fip[n].group]]]
    /\ UNCHANGED <<h, held, budget>>

\* An assignment that is there keeps its cluster and its group.
Assign(n) ==
    LET new == IF fip[n].cluster # None /\ fip[n].asg # None THEN fip[n].asg ELSE AssignedFrom(fip[n])
    IN  /\ fip[n].live /\ ~ fip[n].del /\ fip[n].status # NoIP
        /\ fip[n].asg # new
        /\ fip' = [fip EXCEPT ![n].asg = new]
        /\ UNCHANGED <<h, held, budget>>

Finalize(n) ==
    /\ fip[n].live /\ fip[n].del
    /\ Remove(n)
    /\ UNCHANGED <<h, budget>>

-----------------------------------------------------------------------------

\* What an administrator made: a FloatingIP with an address, for nobody.
PresetFip(x) == [Gone EXCEPT !.live = TRUE, !.pool = x[1], !.spec = x[2], !.status = x[2]]

Init ==
    /\ \E place \in [Preset -> {x \in Pool \X Addr : x[2] \in Subnet[x[1]]}] :
          /\ \A m, n \in Preset : m # n => place[m] # place[n]
          /\ fip = [n \in Name |-> IF n \in Preset THEN PresetFip(place[n]) ELSE Gone]
    /\ h = [p \in Handler |-> Idle]
    /\ held = [c \in Client |-> None]
    /\ lapsed = {}
    /\ budget \in Bounds

Step(p) ==
    \/ findServiceFIP(p)    \/ requestSpecificIP(p) \/ createSpecificIP(p) \/ AdoptExisting(p)
    \/ RelistAfterCreate(p) \/ ClaimPinned(p)       \/ ListUnassigned(p)   \/ ClaimGroup(p)
    \/ ClaimCandidate(p)    \/ CreateNew(p)         \/ WatchFloatingIP(p)  \/ Cleanup(p)
    \/ ReleaseList(p)       \/ ReleaseUpdate(p)     \/ DeleteList(p)       \/ DeleteObject(p)

Abort(p) == ~ At(p, "idle") /\ ~ At(p, "cleanup") /\ CallFails(p)

Manage(n) == Grant(n) \/ Assign(n) \/ Finalize(n)

\* The label of a group match that another cluster has claimed since the List
\* is overwritten.
GroupTakeover(n) ==
    \E p \in Handler : /\ ClaimGroup(p) /\ h[p].obj = n
                       /\ fip[n].live /\ fip[n].cluster \notin {None, h[p].req.who.cluster}

\* An object comes to be under a name that a handler, which reads and writes by
\* name, still takes for the object that was deleted.
NameReused(n) ==
    /\ ~ fip[n].live /\ fip'[n].live
    /\ \E p \in Handler : h[p].pc \in {"watch", "rupdate"} /\ h[p].obj = n

Next ==
    /\ \/ \E p \in Handler :
             \/ \E r \in Questions : Begin(p, r)
             \/ Step(p) \/ GiveUp(p) \/ Abort(p)
       \/ \E n \in Name : Manage(n)
    /\ lapsed' = lapsed \cup {n \in Name : GroupTakeover(n) \/ NameReused(n)}

Spec == Init /\ [][Next]_vars

-----------------------------------------------------------------------------

\* A handler that works on a FloatingIP knows which one.
TypeOK ==
    /\ fip \in [Name -> FloatingIP]
    /\ h \in [Handler -> HandlerState]
    /\ \A p \in Handler : h[p].pc \in OnObject => h[p].obj \in Name
    /\ held \in [Client -> Name \cup {None}]
    /\ lapsed \subseteq Name

\* Two requests that pin one address of a pool never persist two FloatingIPs
\* that wait for it, although admission can be late and both can list before
\* either creates: the deterministic name makes the second adopt the first's.
OnePendingPerAddress ==
    \A m, n \in Live :
        m # n /\ fip[m].spec # NoIP /\ fip[m].spec = fip[n].spec /\ fip[m].pool = fip[n].pool
            => fip[m].status # NoIP \/ fip[n].status # NoIP

\* An approved claim lasts: as long as the FloatingIP exists, it carries the
\* labels of the cluster and the Service until they ask for its release,
\* whatever other requests claim, release or give up meanwhile.  Only a group
\* match that is written untested, or a handler that takes a new object of an
\* old name for the one it waits for, can come in between.
ApprovedKeepsClaim ==
    \A c \in Client :
        held[c] \notin lapsed \cup {None} =>
            fip[held[c]].live /\ fip[held[c]].cluster = c.cluster /\ c.svc \in fip[held[c]].svcs

\* The same without the exceptions.
ApprovedAlwaysKeepsClaim ==
    \A c \in Client :
        held[c] # None => fip[held[c]].cluster = c.cluster /\ c.svc \in fip[held[c]].svcs

\* The list of a FloatingIP's own pool, from which a load-balancer controller
\* that lost its record recovers, shows every approved claim on it that lasts,
\* with its address.  The pool may be another one than the Service asked for:
\* see RepeatReturnsAllocation.
ApprovedIsListed ==
    \A c \in Client :
        held[c] \notin lapsed \cup {None} =>
            [svc |-> c.svc, ip |-> fip[held[c]].status] \in FIPList(c.cluster, fip[held[c]].pool)

\* The FloatingIPs that carry the claim of a Service, of whatever group.
Claimed(c) == {n \in Live : ~ fip[n].del /\ fip[n].cluster = c.cluster /\ c.svc \in fip[n].svcs}

\* Those of the pool it asks for.
ServiceHolds(a) == {n \in Claimed(a.who) : fip[n].pool = a.pool}

\* The Service always asks the same, and nobody in its cluster asks for a group
\* that it does not ask for, with which a claim would relabel the FloatingIP
\* they share.
Steady(a) ==
    /\ \A b \in Ask : b.who = a.who => b = a
    /\ \A b \in Ask : b.who.cluster = a.who.cluster => b.group \in {a.group, None}

\* A Service that always asks the same, after whatever happened to its last
\* request, does not end up with two FloatingIPs of the pool it asks for,
\* unless one of them was overtaken.
OneFIPPerService ==
    \A a \in Ask : Steady(a) => Cardinality(ServiceHolds(a) \ lapsed) <= 1

\* A repeated request of a Service that already holds a FloatingIP returns that
\* one, so that it never has two: the same without regard to the pool.
RepeatReturnsAllocation ==
    \A a \in Ask : Steady(a) => Cardinality(Claimed(a.who) \ lapsed) <= 1

\* A cleanup never hits a FloatingIP that some client was approved.
CleanupSparesApproved ==
    \A p \in Handler : At(p, "cleanup") => \A c \in Client : held[c] # h[p].obj
=============================================================================
