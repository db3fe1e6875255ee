-------------------------- MODULE APIServerProofs ---------------------------
(***************************************************************************)
(* Proofs about the API server's handlers, for any sets of addresses,      *)
(* pools, names, clients and groups, any number of handlers, any bounds.   *)
(***************************************************************************)
EXTENDS APIServer, FiniteSetTheorems, TLAPS

-----------------------------------------------------------------------------
(* Types                                                                   *)

\* The steps of a request that names an address.
PinnedStep == {"pinned", "create", "adopt", "relist", "claim"}

\* The steps of a request between the search for the Service's own FloatingIP
\* and the claim of one.
Searching == PinnedStep \cup {"list", "group", "cands", "new"}

\* The steps of a release.
ReleaseStep == {"rlist", "rupdate"}

\* A handler that is at work has a request, of the kind that its step serves.
Requests ==
    \A p \in Handler :
       /\ h[p].pc # "idle" => h[p].req \in Request
       /\ h[p].pc \in PinnedStep \cup {"dlist"} => h[p].req.ip \in Addr
       /\ h[p].pc \in Searching \cup {"find"} => h[p].req.pool \in Pool
       /\ h[p].pc \in ReleaseStep => h[p].req.op = "release"
       /\ h[p].pc \notin ReleaseStep \cup {"idle"} => h[p].req.op # "release"

HandlerTypes ==
    /\ h \in [Handler -> HandlerState]
    /\ \A p \in Handler : h[p].pc \in OnObject => h[p].obj \in Name
    /\ Requests

\* A FloatingIP belongs to a pool.
Pooled == \A n \in Live : fip[n].pool \in Pool

TypeInv == TypeOK /\ Requests /\ Pooled

\* A handler that goes on, with or without an object.
LEMMA GoTypes ==
  ASSUME TypeInv, NEW p \in Handler, NEW pc, NEW n, Go(p, pc, n),
         pc \in {"pinned", "list", "claim", "create", "adopt", "relist", "group", "new", "cleanup",
                 "rupdate", "ddelete"},
         n \in Name \cup {None}, pc \in OnObject => n \in Name,
         h[p].pc # "idle",
         pc \in PinnedStep => h[p].req.ip \in Addr,
         pc \in Searching => h[p].req.pool \in Pool,
         pc \in ReleaseStep <=> h[p].req.op = "release"
  PROVE  HandlerTypes'
<1> DEFINE j == [h[p] EXCEPT !.pc = pc, !.obj = n]
<1>1. h' = [h EXCEPT ![p] = j]
  BY DEF Go
<1>2. /\ j \in HandlerState
      /\ j.pc = pc /\ j.obj = n /\ j.req = h[p].req
  BY DEF TypeInv, TypeOK, HandlerState
<1> HIDE DEF j
<1>3. \A q \in Handler : h'[q] = IF q = p THEN j ELSE h[q]
  BY <1>1 DEF TypeInv, TypeOK
<1>4. h' \in [Handler -> HandlerState]
  BY <1>1, <1>2 DEF TypeInv, TypeOK
<1>5. \A q \in Handler : h'[q].pc \in OnObject => h'[q].obj \in Name
  BY <1>2, <1>3 DEF TypeInv, TypeOK
<1>6. Requests'
  BY <1>2, <1>3 DEF TypeInv, Requests, Searching, PinnedStep, ReleaseStep
<1> QED BY <1>4, <1>5, <1>6 DEF HandlerTypes

\* A handler that waits for the address of n.
LEMMA AwaitTypes ==
  ASSUME TypeInv, NEW p \in Handler, NEW n \in Name, NEW obj, NEW new \in BOOLEAN,
         Await(p, n, obj, new), h[p].pc \notin ReleaseStep \cup {"idle"}
  PROVE  HandlerTypes'
<1> DEFINE g == obj.group # None
           j == [h[p] EXCEPT !.pc = "watch", !.obj = n, !.created = new, !.grouped = g]
<1>1. h' = [h EXCEPT ![p] = j]
  BY DEF Await
<1>g. g \in BOOLEAN
  OBVIOUS
<1> HIDE DEF g
<1>2. /\ j \in HandlerState
      /\ j.pc = "watch" /\ j.obj = n /\ j.req = h[p].req
  BY <1>g, ZenonT(30) DEF TypeInv, TypeOK, HandlerState
<1> HIDE DEF j
<1>3. \A q \in Handler : h'[q] = IF q = p THEN j ELSE h[q]
  BY <1>1 DEF TypeInv, TypeOK
<1>4. h' \in [Handler -> HandlerState]
  BY <1>1, <1>2 DEF TypeInv, TypeOK
<1>5. \A q \in Handler : h'[q].pc \in OnObject => h'[q].obj \in Name
  BY <1>2, <1>3 DEF TypeInv, TypeOK
<1>6. Requests'
  BY <1>2, <1>3 DEF TypeInv, Requests, Searching, PinnedStep, ReleaseStep
<1> QED BY <1>4, <1>5, <1>6 DEF HandlerTypes

\* A handler that answers.
LEMMA DoneTypes ==
  ASSUME TypeInv, NEW p \in Handler, Done(p)
  PROVE  HandlerTypes'
<1>1. Idle \in HandlerState /\ Idle.pc = "idle" /\ "idle" \notin OnObject
  BY DEF Idle, HandlerState, OnObject
<1>2. \A q \in Handler : h'[q] = IF q = p THEN Idle ELSE h[q]
  BY DEF Done, TypeInv, TypeOK
<1>3. h' \in [Handler -> HandlerState]
  BY <1>1 DEF Done, TypeInv, TypeOK
<1>4. \A q \in Handler : h'[q].pc \in OnObject => h'[q].obj \in Name
  BY <1>1, <1>2 DEF TypeInv, TypeOK
<1>5. Requests'
  BY <1>1, <1>2 DEF TypeInv, Requests, Searching, PinnedStep, ReleaseStep
<1> QED BY <1>3, <1>4, <1>5 DEF HandlerTypes

\* What the handlers and the manager write is a FloatingIP.
LEMMA ObjectTypes ==
  /\ Gone \in FloatingIP /\ ~ Gone.live
  /\ \A r \in Request, a \in IPOrNone : NewFip(r, a) \in FloatingIP
  /\ \A obj \in FloatingIP, r \in Request :
        applyFIPRequestLabels(obj, r) \in FloatingIP /\ releaseMutate(obj, r) \in FloatingIP
<1>1. Gone \in FloatingIP /\ ~ Gone.live
  BY DEF Gone, FloatingIP, ClusterOrNo, GroupOrNo, IPOrNone
<1>2. ASSUME NEW r \in Request
      PROVE  /\ r.who \in Client /\ r.who.cluster \in ClusterOrNo /\ r.who.svc \in {c.svc : c \in Client}
             /\ r.group \in GroupOrNo /\ r.pool \in Pool \cup {None}
  BY DEF Request, ClusterOrNo
<1>3. ASSUME NEW r \in Request, NEW a \in IPOrNone
      PROVE  NewFip(r, a) \in FloatingIP
  BY <1>1, <1>2 DEF NewFip, FloatingIP
<1>4. ASSUME NEW r \in Request, NEW obj \in FloatingIP
      PROVE  applyFIPRequestLabels(obj, r) \in FloatingIP
  BY <1>2 DEF applyFIPRequestLabels, FloatingIP
<1>5. ASSUME NEW r \in Request, NEW obj \in FloatingIP
      PROVE  releaseMutate(obj, r) \in FloatingIP
  <2> DEFINE left == obj.svcs \ {r.who.svc}
             g == IF left = {} THEN None ELSE obj.group
             k == IF left = {} THEN None ELSE obj.cluster
  <2>1. left \in SUBSET {c.svc : c \in Client} /\ g \in GroupOrNo /\ k \in ClusterOrNo
    BY DEF FloatingIP, GroupOrNo, ClusterOrNo
  <2>2. releaseMutate(obj, r) = [obj EXCEPT !.svcs = left, !.group = g, !.cluster = k]
    BY DEF releaseMutate
  <2> HIDE DEF left, g, k
  <2> QED BY <2>1, <2>2 DEF FloatingIP
<1> QED BY <1>1, <1>3, <1>4, <1>5

\* The name of a pinned FloatingIP says which pool and which address it is for,
\* and no generated name is one.
LEMMA PinnedNames ==
  ASSUME NEW q \in Pool, NEW a \in Addr
  PROVE  /\ specificFIPName(q, a) \in Name \ Gen
         /\ \A r \in Pool, b \in Addr : specificFIPName(q, a) = specificFIPName(r, b) => q = r /\ a = b
  BY APIAssumption DEF specificFIPName, Name

\* A name that is not generated is one of those.
LEMMA OtherNames ==
  ASSUME NEW n \in Name \ Gen
  PROVE  \E q \in Pool, a \in Addr : n = specificFIPName(q, a)
  BY DEF specificFIPName, Name

\* The ways in which a step changes an object.
Creates(n) ==
    /\ ~ fip[n].live
    /\ \E r \in Request :
          /\ r.pool \in Pool
          /\ \/ /\ r.ip \in Addr /\ n = specificFIPName(r.pool, r.ip)
                /\ fip' = [fip EXCEPT ![n] = NewFip(r, r.ip)]
             \/ fip[n] = Gone /\ fip' = [fip EXCEPT ![n] = NewFip(r, NoIP)]
Relabels(n) ==
    /\ fip[n].live
    /\ \E r \in Request : \/ fip' = [fip EXCEPT ![n] = applyFIPRequestLabels(@, r)]
                          \/ fip' = [fip EXCEPT ![n] = releaseMutate(@, r)]
Deletes(n) ==
    /\ fip[n].live
    /\ fip' = [fip EXCEPT ![n].del = TRUE] \/ Remove(n)

\* Every step creates, relabels, deletes or manages one object, or leaves the
\* objects alone.
LEMMA ObjectSteps ==
  ASSUME TypeInv, Next
  PROVE  UNCHANGED fip \/ \E n \in Name : Creates(n) \/ Relabels(n) \/ Deletes(n) \/ Grant(n) \/ Assign(n)
<1>1. ASSUME NEW p \in Handler, Step(p)
      PROVE  UNCHANGED fip \/ \E n \in Name : Creates(n) \/ Relabels(n) \/ Deletes(n)
  <2>r. h[p].pc # "idle" => h[p].req \in Request
    BY DEF TypeInv, Requests
  <2>o. h[p].pc \in OnObject => h[p].obj \in Name
    BY DEF TypeInv, TypeOK
  <2>u. ASSUME NEW n \in Name, NEW ok, h[p].pc # "idle", updateFloatingIPIf(p, n, ok)
        PROVE  Relabels(n)
    BY <2>u, <2>r DEF updateFloatingIPIf, Relabels
  <2>d. ASSUME h[p].pc \in OnObject, DeleteCall(h[p].obj)
        PROVE  UNCHANGED fip \/ Deletes(h[p].obj)
    BY <2>d DEF DeleteCall, Deletes
  <2>1. CASE createSpecificIP(p)
    <3> DEFINE n == specificFIPName(h[p].req.pool, h[p].req.ip)
    <3>1. h[p].pc # "idle" /\ h[p].req.ip \in Addr /\ h[p].req.pool \in Pool
      BY <2>1 DEF createSpecificIP, createUnderName, At, TypeInv, Requests, Searching, PinnedStep
    <3>2. n \in Name
      BY <3>1 DEF specificFIPName, Name
    <3>3. createUnderName(p, n)
      BY <2>1 DEF createSpecificIP
    <3>4. UNCHANGED fip \/ (~ fip[n].live /\ fip' = [fip EXCEPT ![n] = NewFip(h[p].req, h[p].req.ip)])
      BY <3>3 DEF createUnderName
    <3>5. UNCHANGED fip \/ Creates(n)
      BY <2>r, <3>1, <3>4 DEF Creates
    <3> QED BY <3>2, <3>5
  <2>2. CASE ClaimPinned(p) \/ ClaimGroup(p)
    <3>1. h[p].pc # "idle" /\ h[p].obj \in Name
      BY <2>2, <2>o DEF ClaimPinned, ClaimGroup, At, OnObject
    <3> QED BY <2>2, <2>u, <3>1 DEF ClaimPinned, ClaimGroup
  <2>3. CASE ClaimCandidate(p)
    <3>1. h[p].pc # "idle" /\ h[p].cands \subseteq Name
      BY <2>3 DEF ClaimCandidate, At, TypeInv, TypeOK, HandlerState
    <3> QED BY <2>3, <2>u, <3>1 DEF ClaimCandidate, Stay
  <2>4. CASE CreateNew(p)
    <3>1. h[p].req \in Request /\ h[p].req.pool \in Pool
      BY <2>4, <2>r DEF CreateNew, At, TypeInv, Requests, Searching
    <3>2. CASE UNCHANGED fip
      BY <3>2
    <3>3. ASSUME NEW n \in Gen, fip[n] = Gone, fip' = [fip EXCEPT ![n] = NewFip(h[p].req, NoIP)]
          PROVE  Creates(n) /\ n \in Name
      BY <3>1, <3>3, ObjectTypes DEF Creates, Name
    <3> QED BY <2>4, <3>2, <3>3 DEF CreateNew
  <2>5. CASE Cleanup(p) \/ DeleteObject(p)
    BY <2>5, <2>o, <2>d DEF Cleanup, DeleteObject, At, OnObject
  <2>6. CASE ReleaseUpdate(p)
    <3>1. h[p].req \in Request /\ h[p].obj \in Name
      BY <2>6, <2>r, <2>o DEF ReleaseUpdate, At, OnObject
    <3> QED BY <2>6, <3>1 DEF ReleaseUpdate, Relabels
  <2>7. CASE UNCHANGED fip
    BY <2>7
  <2> QED BY <1>1, <2>1, <2>2, <2>3, <2>4, <2>5, <2>6, <2>7
      DEF Step, findServiceFIP, requestSpecificIP, AdoptExisting, RelistAfterCreate, ListUnassigned,
          WatchFloatingIP, ReleaseList, DeleteList, Stay
<1>2. ASSUME NEW p \in Handler, GiveUp(p) \/ Abort(p) \/ \E r \in Questions : Begin(p, r)
      PROVE  UNCHANGED fip
  BY <1>2 DEF GiveUp, Stay, Abort, CallFails, Begin
<1>3. ASSUME NEW n \in Name, Manage(n)
      PROVE  Deletes(n) \/ Grant(n) \/ Assign(n)
  BY <1>3 DEF Manage, Finalize, Deletes
<1> QED BY <1>1, <1>2, <1>3 DEF Next

\* Whatever writes a FloatingIP, handler, user or manager, writes one.
LEMMA FipTypes ==
  ASSUME TypeInv, Next
  PROVE  fip' \in [Name -> FloatingIP] /\ Pooled'
<1> DEFINE Typed == fip' \in [Name -> FloatingIP] /\ Pooled'
<1>s. ASSUME NEW n \in Name, NEW obj \in FloatingIP, obj.live => obj.pool \in Pool,
             fip' = [fip EXCEPT ![n] = obj]
      PROVE  Typed
  BY <1>s DEF TypeInv, TypeOK, Pooled, Live
<1>t. ASSUME NEW n \in Name
      PROVE  fip[n] \in FloatingIP /\ (fip[n].live => fip[n].pool \in Pool)
  BY DEF TypeInv, TypeOK, Pooled, Live
<1>i. NoIP \in IPOrNone /\ Addr \subseteq IPOrNone
  BY DEF IPOrNone
<1>1. ASSUME NEW n \in Name, Creates(n)
      PROVE  Typed
  <2>1. \A r, a : NewFip(r, a).pool = r.pool
    BY DEF NewFip, Gone
  <2> QED BY <1>1, <1>s, <1>i, <2>1, ObjectTypes DEF Creates
<1>2. ASSUME NEW n \in Name, Relabels(n)
      PROVE  Typed
  <2>1. \A r : /\ applyFIPRequestLabels(fip[n], r).pool = fip[n].pool
               /\ releaseMutate(fip[n], r).pool = fip[n].pool
    BY <1>t DEF applyFIPRequestLabels, releaseMutate, FloatingIP
  <2>2. fip[n].pool \in Pool
    BY <1>2, <1>t DEF Relabels
  <2> QED BY <1>2, <1>s, <1>t, <2>1, <2>2, ObjectTypes DEF Relabels
<1>3. ASSUME NEW n \in Name, Deletes(n)
      PROVE  Typed
  <2> DEFINE d == n \in Gen
  <2>1. d \in BOOLEAN
    OBVIOUS
  <2> HIDE DEF d
  <2>2. [Gone EXCEPT !.del = d] \in FloatingIP /\ [fip[n] EXCEPT !.del = TRUE] \in FloatingIP
    BY <1>t, <2>1, ObjectTypes DEF FloatingIP
  <2>3. ~ [Gone EXCEPT !.del = d].live
    BY DEF Gone
  <2>4. [fip[n] EXCEPT !.del = TRUE].pool = fip[n].pool /\ fip[n].pool \in Pool
    BY <1>3, <1>t DEF Deletes, FloatingIP
  <2> QED BY <1>3, <1>s, <2>2, <2>3, <2>4 DEF Deletes, Remove, d
<1>4. ASSUME NEW n \in Name, Grant(n)
      PROVE  Typed
  <2>0. fip[n].live /\ fip[n].pool \in Pool /\ Subnet[fip[n].pool] \subseteq Addr
    BY <1>4, <1>t, APIAssumption DEF Grant
  <2>1. PICK a \in Addr :
           fip' = [fip EXCEPT ![n] = [@ EXCEPT !.status = a, !.spec = a,
                                             !.asg = [cluster |-> fip[n].cluster, group |-> fip[n].group]]]
    BY <1>4, <2>0 DEF Grant
  <2>2. [cluster |-> fip[n].cluster, group |-> fip[n].group] \in Assigned
    BY <1>t DEF FloatingIP, Assigned
  <2>3. [fip[n] EXCEPT !.status = a, !.spec = a,
                       !.asg = [cluster |-> fip[n].cluster, group |-> fip[n].group]] \in FloatingIP
    BY <1>t, <1>i, <2>2 DEF FloatingIP
  <2>4. \A x : [fip[n] EXCEPT !.status = a, !.spec = a, !.asg = x].pool = fip[n].pool
    BY <1>t DEF FloatingIP
  <2> QED BY <1>s, <2>0, <2>1, <2>3, <2>4
<1>5. ASSUME NEW n \in Name, Assign(n)
      PROVE  Typed
  <2> DEFINE new == IF fip[n].cluster # None /\ fip[n].asg # None THEN fip[n].asg ELSE AssignedFrom(fip[n])
  <2>1. new \in Assigned \cup {None}
    BY <1>t DEF AssignedFrom, FloatingIP, Assigned
  <2>2. fip' = [fip EXCEPT ![n].asg = new]
    BY <1>5 DEF Assign
  <2> HIDE DEF new
  <2>3. [fip[n] EXCEPT !.asg = new] \in FloatingIP /\ [fip[n] EXCEPT !.asg = new].pool = fip[n].pool
    BY <1>t, <2>1 DEF FloatingIP
  <2>4. fip[n].pool \in Pool
    BY <1>5, <1>t DEF Assign
  <2> QED BY <1>s, <2>2, <2>3, <2>4
<1>6. CASE UNCHANGED fip
  BY <1>6 DEF TypeInv, TypeOK, Pooled, Live
<1> QED BY <1>1, <1>2, <1>3, <1>4, <1>5, <1>6, ObjectSteps

\* The steps of a request, a release and a deletion lead from one to another.
LEMMA StepTypes ==
  ASSUME TypeInv, NEW p \in Handler, Step(p) \/ GiveUp(p) \/ Abort(p)
  PROVE  HandlerTypes'
<1>o. h[p].pc \in OnObject => h[p].obj \in Name
  BY DEF TypeInv, TypeOK
<1>l. Live \subseteq Name
  BY DEF Live
<1>d. Done(p) => HandlerTypes'
  BY DoneTypes
<1>f. Fail(p) => HandlerTypes'
  BY DoneTypes DEF Fail
<1>a. ASSUME NEW n \in Name, NEW obj, NEW new \in BOOLEAN, Await(p, n, obj, new),
             h[p].pc \notin {"idle", "rlist", "rupdate"}
      PROVE  HandlerTypes'
  BY <1>a, AwaitTypes DEF ReleaseStep
<1>u. ASSUME NEW n \in Name, NEW ok, updateFloatingIPIf(p, n, ok), h[p].pc \notin {"idle", "rlist", "rupdate"}
      PROVE  HandlerTypes'
  BY <1>a, <1>u DEF updateFloatingIPIf
<1>q. h[p].pc \notin {"idle", "rlist", "rupdate"} => h[p].req.op # "release"
  BY DEF TypeInv, Requests, ReleaseStep
<1>i. h[p].pc \in PinnedStep \cup {"dlist"} => h[p].req.ip \in Addr
  BY DEF TypeInv, Requests
<1>p. h[p].pc \in Searching \cup {"find"} => h[p].req.pool \in Pool
  BY DEF TypeInv, Requests
<1>g. ASSUME NEW pc \in {"claim", "create", "adopt", "relist"}, NEW n \in Name \cup {None},
             pc \in {"claim", "adopt"} => n \in Name, h[p].pc \in PinnedStep, Go(p, pc, n)
      PROVE  HandlerTypes'
  <2>1. h[p].pc \notin {"idle", "rlist", "rupdate"}
    BY <1>g DEF PinnedStep
  <2>2. pc \notin ReleaseStep /\ (pc \in OnObject => n \in Name)
    BY <1>g DEF ReleaseStep, OnObject
  <2>3. h[p].req.pool \in Pool
    BY <1>g, <1>p DEF Searching
  <2> QED BY <1>g, <1>q, <1>i, <2>1, <2>2, <2>3, GoTypes
<1>c. ASSUME NEW n \in Live, CheckThenClaim(p, n), h[p].pc \in PinnedStep
      PROVE  HandlerTypes'
  BY <1>c, <1>f, <1>g, <1>l DEF CheckThenClaim
<1>1. CASE findServiceFIP(p)
  <2>1. h[p].pc = "find" /\ h[p].req \in Request
    BY <1>1 DEF findServiceFIP, At, TypeInv, Requests
  <2>2. ASSUME NEW n \in ServiceFIPs(h[p].req), Await(p, n, fip[n], FALSE)
        PROVE  HandlerTypes'
    BY <1>a, <1>l, <2>1, <2>2 DEF ServiceFIPs
  <2>3. CASE Go(p, "pinned", None) /\ h[p].req.ip # NoIP
    <3>1. h[p].req.ip \in Addr
      BY <2>1, <2>3 DEF Request, IPOrNone
    <3> QED BY <1>q, <1>p, <2>1, <2>3, <3>1, GoTypes DEF ReleaseStep, OnObject
  <2>4. CASE Go(p, "list", None)
    BY <1>q, <1>p, <2>1, <2>4, GoTypes DEF ReleaseStep, PinnedStep, OnObject
  <2> QED BY <1>1, <2>2, <2>3, <2>4 DEF findServiceFIP
<1>2. CASE requestSpecificIP(p)
  BY <1>2, <1>c, <1>g DEF requestSpecificIP, At, PinnedStep, PinnedFIPs
<1>3. CASE createSpecificIP(p)
  <2> DEFINE n == specificFIPName(h[p].req.pool, h[p].req.ip)
  <2>1. h[p].pc = "create" /\ n \in Name
    BY <1>3, <1>i, <1>p DEF createSpecificIP, createUnderName, At, Searching, PinnedStep, specificFIPName, Name
  <2>2. createUnderName(p, n)
    BY <1>3 DEF createSpecificIP
  <2> HIDE DEF n
  <2> QED BY <1>a, <1>g, <2>1, <2>2 DEF createUnderName, PinnedStep
<1>4. CASE AdoptExisting(p)
  <2>1. h[p].pc = "adopt" /\ h[p].obj \in Name
    BY <1>4, <1>o DEF AdoptExisting, At, OnObject
  <2>2. CASE fip[h[p].obj].live /\ CheckThenClaim(p, h[p].obj)
    BY <1>c, <2>1, <2>2 DEF Live, PinnedStep
  <2>3. CASE Go(p, "relist", None)
    BY <1>g, <2>1, <2>3 DEF PinnedStep
  <2> QED BY <1>4, <1>f, <2>2, <2>3 DEF AdoptExisting
<1>5. CASE RelistAfterCreate(p)
  BY <1>5, <1>c, <1>f DEF RelistAfterCreate, At, PinnedStep, PinnedFIPs
<1>6. CASE ClaimPinned(p) \/ ClaimGroup(p)
  <2>1. h[p].pc \in {"claim", "group"} /\ h[p].obj \in Name
    BY <1>6, <1>o DEF ClaimPinned, ClaimGroup, At, OnObject
  <2> QED BY <1>6, <1>u, <1>f, <2>1 DEF ClaimPinned, ClaimGroup
<1>7. CASE ListUnassigned(p)
  <2>1. h[p].pc = "list"
    BY <1>7 DEF ListUnassigned, At
  <2>2. ASSUME NEW n \in GroupFIPs(h[p].req), Go(p, "group", n)
        PROVE  HandlerTypes'
    BY <1>q, <1>p, <1>l, <2>1, <2>2, GoTypes DEF GroupFIPs, Searching, PinnedStep, ReleaseStep
  <2>3. CASE h' = [h EXCEPT ![p] = [@ EXCEPT !.pc = "cands", !.cands = Unassigned]]
    <3> DEFINE j == [h[p] EXCEPT !.pc = "cands", !.cands = Unassigned]
    <3>1. Unassigned \in SUBSET Name
      BY <1>l DEF Unassigned
    <3>2. j \in HandlerState /\ j.pc = "cands" /\ j.req = h[p].req
      BY <3>1 DEF TypeInv, TypeOK, HandlerState
    <3>3. h' = [h EXCEPT ![p] = j]
      BY <2>3
    <3> HIDE DEF j
    <3>4. \A q \in Handler : h'[q] = IF q = p THEN j ELSE h[q]
      BY <3>3 DEF TypeInv, TypeOK
    <3>5. Requests'
      BY <1>p, <2>1, <3>2, <3>4 DEF TypeInv, Requests, Searching, PinnedStep, ReleaseStep
    <3> QED BY <3>2, <3>3, <3>4, <3>5 DEF TypeInv, TypeOK, HandlerTypes, OnObject
  <2> QED BY <1>7, <2>2, <2>3 DEF ListUnassigned
<1>8. CASE ClaimCandidate(p)
  <2>1. h[p].pc = "cands" /\ h[p].cands \subseteq Name
    BY <1>8 DEF ClaimCandidate, At, TypeInv, TypeOK, HandlerState
  <2>2. CASE Go(p, "new", None)
    BY <1>q, <1>p, <2>1, <2>2, GoTypes DEF Searching, PinnedStep, ReleaseStep, OnObject
  <2>3. ASSUME NEW n, h' = [h EXCEPT ![p].cands = @ \ {n}]
        PROVE  HandlerTypes'
    <3> DEFINE j == [h[p] EXCEPT !.cands = h[p].cands \ {n}]
    <3>1. j \in HandlerState /\ j.pc = h[p].pc /\ j.req = h[p].req /\ j.obj = h[p].obj
      BY DEF TypeInv, TypeOK, HandlerState
    <3>2. h' = [h EXCEPT ![p] = j]
      BY <2>3
    <3> HIDE DEF j
    <3>3. \A q \in Handler : h'[q] = IF q = p THEN j ELSE h[q]
      BY <3>2 DEF TypeInv, TypeOK
    <3>4. Requests'
      BY <3>1, <3>3 DEF TypeInv, Requests
    <3> QED BY <3>1, <3>2, <3>3, <3>4 DEF TypeInv, TypeOK, HandlerTypes
  <2> QED BY <1>8, <1>u, <2>1, <2>2, <2>3 DEF ClaimCandidate
<1>9. CASE CreateNew(p)
  BY <1>9, <1>a, <1>f DEF CreateNew, At, Name
<1>10. CASE WatchFloatingIP(p) \/ Cleanup(p) \/ ReleaseUpdate(p) \/ DeleteObject(p) \/ Abort(p)
  BY <1>10, <1>d, <1>f
     DEF WatchFloatingIP, Cleanup, ReleaseUpdate, DeleteObject, Abort, CallFails
<1>11. CASE GiveUp(p)
  <2>1. h[p].pc = "watch" /\ h[p].obj \in Name
    BY <1>11, <1>o DEF GiveUp, At, OnObject
  <2> QED BY <1>11, <1>d, <1>q, <2>1, GoTypes DEF GiveUp, Searching, PinnedStep, ReleaseStep
<1>12. CASE ReleaseList(p)
  <2>1. h[p].pc = "rlist" /\ h[p].req.op = "release"
    BY <1>12 DEF ReleaseList, At, TypeInv, Requests, ReleaseStep
  <2>2. ASSUME NEW n \in ReleaseMatches(h[p].req), Go(p, "rupdate", n)
        PROVE  HandlerTypes'
    BY <1>l, <2>1, <2>2, GoTypes DEF ReleaseMatches, Searching, PinnedStep, ReleaseStep
  <2> QED BY <1>12, <1>f, <2>2 DEF ReleaseList
<1>13. CASE DeleteList(p)
  <2>1. h[p].pc = "dlist"
    BY <1>13 DEF DeleteList, At
  <2>2. ASSUME NEW n \in PinnedFIPs(h[p].req.ip), Go(p, "ddelete", n)
        PROVE  HandlerTypes'
    BY <1>l, <1>q, <2>1, <2>2, GoTypes DEF PinnedFIPs, Searching, PinnedStep, ReleaseStep
  <2> QED BY <1>13, <1>f, <2>2 DEF DeleteList
<1> QED BY <1>1, <1>2, <1>3, <1>4, <1>5, <1>6, <1>7, <1>8, <1>9, <1>10, <1>11, <1>12, <1>13 DEF Step

\* A request that arrives at an idle handler is one of the questions.
LEMMA BeginTypes ==
  ASSUME TypeInv, NEW p \in Handler, NEW r \in Questions, Begin(p, r)
  PROVE  HandlerTypes' /\ r \in Request
<1> DEFINE j == [Idle EXCEPT !.pc = First(r.op), !.req = r]
<1>1. /\ r \in Request
      /\ r.op = "delete" => r.ip \in Addr
      /\ r.op = "request" => r.pool \in Pool
  BY APIAssumption DEF Questions, Request, IPOrNone, GroupOrNo
<1>2. /\ First(r.op) \in {"find", "rlist", "dlist"}
      /\ First(r.op) = "rlist" <=> r.op = "release"
      /\ First(r.op) = "dlist" => r.op = "delete"
      /\ First(r.op) = "find" => r.op = "request"
  BY <1>1 DEF First, Request
<1>3. h' = [h EXCEPT ![p] = j]
  BY DEF Begin
<1>4. j \in HandlerState /\ j.pc = First(r.op) /\ j.req = r
  BY <1>1, <1>2 DEF Idle, HandlerState
<1> HIDE DEF j
<1>5. \A q \in Handler : h'[q] = IF q = p THEN j ELSE h[q]
  BY <1>3 DEF TypeInv, TypeOK
<1>6. Requests'
  BY <1>1, <1>2, <1>4, <1>5 DEF TypeInv, Requests, Searching, PinnedStep, ReleaseStep
<1>7. \A q \in Handler : h'[q].pc \in OnObject => h'[q].obj \in Name
  BY <1>2, <1>4, <1>5 DEF TypeInv, TypeOK, OnObject
<1> QED BY <1>1, <1>3, <1>4, <1>6, <1>7 DEF TypeInv, TypeOK, HandlerTypes

\* What a client holds is the name of a FloatingIP, or none.
LEMMA HeldTypes ==
  ASSUME TypeInv, Next
  PROVE  held' \in [Client -> Name \cup {None}]
<1>1. ASSUME NEW n \in Name, Remove(n) \/ DeleteCall(n)
      PROVE  held' \in [Client -> Name \cup {None}]
  BY <1>1 DEF Remove, DeleteCall, TypeInv, TypeOK
<1>2. CASE UNCHANGED held
  BY <1>2 DEF TypeInv, TypeOK
<1>3. ASSUME NEW p \in Handler, WatchFloatingIP(p)
      PROVE  held' \in [Client -> Name \cup {None}]
  <2>1. h[p].obj \in Name /\ h[p].req \in Request
    BY <1>3 DEF WatchFloatingIP, At, OnObject, TypeInv, TypeOK, Requests
  <2> QED BY <1>3, <2>1 DEF WatchFloatingIP, Fail, Request, TypeInv, TypeOK
<1>4. ASSUME NEW p \in Handler, Cleanup(p) \/ DeleteObject(p)
      PROVE  held' \in [Client -> Name \cup {None}]
  <2>1. h[p].obj \in Name
    BY <1>4 DEF Cleanup, DeleteObject, At, OnObject, TypeInv, TypeOK
  <2> QED BY <1>1, <1>4, <2>1 DEF Cleanup, DeleteObject
<1>5. ASSUME NEW p \in Handler, NEW r \in Questions, Begin(p, r)
      PROVE  held' \in [Client -> Name \cup {None}]
  BY <1>5, BeginTypes DEF Begin, TypeInv, TypeOK
<1>6. ASSUME NEW p \in Handler, GiveUp(p) \/ Abort(p)
      PROVE  UNCHANGED held
  BY <1>6 DEF GiveUp, Stay, Abort, CallFails, Fail
<1>7. ASSUME NEW n \in Name, Manage(n)
      PROVE  UNCHANGED held \/ Remove(n)
  BY <1>7 DEF Manage, Grant, Assign, Finalize
<1>8. ASSUME NEW p \in Handler, Step(p)
      PROVE  UNCHANGED held \/ WatchFloatingIP(p) \/ Cleanup(p) \/ DeleteObject(p)
  BY <1>8 DEF Step, findServiceFIP, requestSpecificIP, createSpecificIP, createUnderName, AdoptExisting,
     RelistAfterCreate, ClaimPinned, ListUnassigned, ClaimGroup, ClaimCandidate, CreateNew, ReleaseList,
     ReleaseUpdate, DeleteList, CheckThenClaim, updateFloatingIPIf, Stay, Fail
<1> QED BY <1>1, <1>2, <1>3, <1>4, <1>5, <1>6, <1>7, <1>8 DEF Next

\* The preset FloatingIPs and the idle handlers have their types.
LEMMA InitTypes == Init => TypeInv
<1> SUFFICES ASSUME Init
             PROVE  TypeInv
  OBVIOUS
<1>1. fip \in [Name -> FloatingIP] /\ Pooled
  <2>1. PICK place \in [Preset -> Pool \X Addr] :
           fip = [n \in Name |-> IF n \in Preset THEN PresetFip(place[n]) ELSE Gone]
    BY DEF Init
  <2>2. ASSUME NEW x \in Pool \X Addr
        PROVE  PresetFip(x) \in FloatingIP /\ PresetFip(x).pool \in Pool
    BY ObjectTypes DEF PresetFip, Gone, FloatingIP, IPOrNone
  <2> QED BY <2>1, <2>2, ObjectTypes DEF Pooled, Live
<1>2. Idle \in HandlerState /\ Idle.pc = "idle"
  BY DEF Idle, HandlerState
<1> QED BY <1>1, <1>2 DEF Init, TypeInv, TypeOK, Requests, OnObject, Searching, PinnedStep, ReleaseStep

\* No step leaves the types.
LEMMA NextTypes == TypeInv /\ [Next]_vars => TypeInv'
<1>1. CASE UNCHANGED vars
  BY <1>1 DEF vars, TypeInv, TypeOK, Requests, Pooled, Live
<1>2. ASSUME TypeInv, Next
      PROVE  TypeInv'
  <2>1. HandlerTypes'
    <3>1. ASSUME NEW n \in Name, Manage(n)
          PROVE  HandlerTypes'
      <4>1. UNCHANGED h
        BY <3>1 DEF Manage, Grant, Assign, Finalize
      <4> QED BY <1>2, <4>1 DEF TypeInv, TypeOK, Requests, HandlerTypes
    <3> QED BY <1>2, <3>1, StepTypes, BeginTypes DEF Next
  <2>2. lapsed' \subseteq Name
    BY <1>2 DEF Next, TypeInv, TypeOK
  <2> QED BY <1>2, <2>1, <2>2, FipTypes, HeldTypes DEF TypeInv, TypeOK, HandlerTypes
<1> QED BY <1>1, <1>2

\* The state keeps its shape: TypeOK, and that a handler which works on an
\* object has one.
THEOREM Typing == Spec => []TypeInv
  BY InitTypes, NextTypes, PTL DEF Spec

\* Every handler that works on a FloatingIP knows which one, and the objects
\* and approvals are well-formed.
THEOREM TypeCorrect == Spec => []TypeOK
<1>1. TypeInv => TypeOK
  BY DEF TypeInv
<1> QED BY <1>1, Typing, PTL

-----------------------------------------------------------------------------
(* Addresses                                                               *)

\* A FloatingIP that waits for the address it names has the name of that
\* address in its pool; one that has an address has the same one in its spec.
Placed ==
    \A n \in Name :
        fip[n].live => IF fip[n].status = NoIP
                       THEN fip[n].spec # NoIP => n = specificFIPName(fip[n].pool, fip[n].spec)
                       ELSE fip[n].spec = fip[n].status

PlacedObject(n, obj) ==
    obj.live => IF obj.status = NoIP
                THEN obj.spec # NoIP => n = specificFIPName(obj.pool, obj.spec)
                ELSE obj.spec = obj.status

\* Init and every step keep the objects placed.
LEMMA InitPlaced == Init => Placed
<1> SUFFICES ASSUME Init
             PROVE  Placed
  OBVIOUS
<1>1. PICK place \in [Preset -> Pool \X Addr] :
         fip = [n \in Name |-> IF n \in Preset THEN PresetFip(place[n]) ELSE Gone]
  BY DEF Init
<1>2. \A n \in Preset : fip[n].spec = place[n][2] /\ fip[n].status = place[n][2] /\ place[n][2] \in Addr
  BY <1>1, APIAssumption DEF PresetFip, Gone, Name
<1>3. \A n \in Name \ Preset : ~ fip[n].live
  BY <1>1 DEF Gone
<1> QED BY <1>2, <1>3, APIAssumption DEF Placed

\* A name is given to one address, and no write gives it another.
LEMMA NextPlaced ==
  ASSUME TypeInv, Placed, [Next]_vars
  PROVE  Placed'
<1>s. ASSUME NEW n \in Name, NEW obj, fip' = [fip EXCEPT ![n] = obj], PlacedObject(n, obj)
      PROVE  Placed'
  BY <1>s DEF TypeInv, TypeOK, Placed, PlacedObject
<1>t. ASSUME NEW n \in Name
      PROVE  fip[n] \in FloatingIP /\ PlacedObject(n, fip[n])
  BY DEF TypeInv, TypeOK, Placed, PlacedObject
<1>1. ASSUME NEW n \in Name, Creates(n)
      PROVE  Placed'
  <2>1. \A r : n = specificFIPName(r.pool, r.ip) => PlacedObject(n, NewFip(r, r.ip))
    BY DEF PlacedObject, NewFip, Gone
  <2>2. \A r : PlacedObject(n, NewFip(r, NoIP))
    BY DEF PlacedObject, NewFip, Gone
  <2> QED BY <1>1, <1>s, <2>1, <2>2 DEF Creates
<1>2. ASSUME NEW n \in Name, Relabels(n)
      PROVE  Placed'
  <2>1. \A r : PlacedObject(n, applyFIPRequestLabels(fip[n], r)) /\ PlacedObject(n, releaseMutate(fip[n], r))
    BY <1>t DEF PlacedObject, applyFIPRequestLabels, releaseMutate, FloatingIP
  <2> QED BY <1>2, <1>s, <2>1 DEF Relabels
<1>3. ASSUME NEW n \in Name, Deletes(n)
      PROVE  Placed'
  <2>1. PlacedObject(n, [fip[n] EXCEPT !.del = TRUE])
    BY <1>t DEF PlacedObject, FloatingIP
  <2>2. PlacedObject(n, [Gone EXCEPT !.del = n \in Gen])
    BY DEF PlacedObject, Gone
  <2> QED BY <1>3, <1>s, <2>1, <2>2 DEF Deletes, Remove
<1>4. ASSUME NEW n \in Name, Grant(n)
      PROVE  Placed'
  <2>0. Subnet[fip[n].pool] \subseteq Addr
    BY <1>4, APIAssumption DEF Grant, TypeInv, Pooled, Live
  <2>1. PICK a \in Addr :
           fip' = [fip EXCEPT ![n] = [@ EXCEPT !.status = a, !.spec = a,
                                             !.asg = [cluster |-> fip[n].cluster, group |-> fip[n].group]]]
    BY <1>4, <2>0 DEF Grant
  <2>2. \A x : PlacedObject(n, [fip[n] EXCEPT !.status = a, !.spec = a, !.asg = x])
    BY <1>t, APIAssumption DEF PlacedObject, FloatingIP
  <2> QED BY <1>s, <2>1, <2>2
<1>5. ASSUME NEW n \in Name, Assign(n)
      PROVE  Placed'
  <2>1. \A x : PlacedObject(n, [fip[n] EXCEPT !.asg = x])
    BY <1>t DEF PlacedObject, FloatingIP
  <2>2. PICK x : fip' = [fip EXCEPT ![n].asg = x]
    BY <1>5 DEF Assign
  <2> QED BY <1>s, <2>1, <2>2
<1>6. CASE UNCHANGED fip
  BY <1>6 DEF Placed
<1> QED BY <1>1, <1>2, <1>3, <1>4, <1>5, <1>6, ObjectSteps DEF vars

\* However requests interleave, and however late admission is, an address
\* that two requests pin in a pool is waited for by one FloatingIP: the name that
\* specificFIPName computes is the lock.
THEOREM OnePendingAlways == Spec => []OnePendingPerAddress
<1>1. Placed => OnePendingPerAddress
  BY DEF Placed, OnePendingPerAddress, Live
<1>2. TypeInv /\ Placed /\ [Next]_vars => Placed'
  BY NextPlaced
<1> QED BY <1>1, <1>2, InitPlaced, Typing, PTL DEF Spec

-----------------------------------------------------------------------------
(* Claims                                                                  *)

Waits(p) == h[p].pc \notin {"idle", "cleanup"}

Has(c, obj) == obj.cluster = c.cluster /\ c.svc \in obj.svcs

\* A client has one question under way.
Serial == \A p, q \in Handler : p # q /\ Waits(p) /\ Waits(q) => h[p].req.who # h[q].req.who

\* A client that asks for a release counts on nothing.
Released == \A p \in Handler : h[p].pc \in ReleaseStep => held[h[p].req.who] = None

\* The claim that a handler waits for, or is about to take off, is there.
WorkClaims ==
    \A p \in Handler :
        h[p].pc \in {"watch", "rupdate"} /\ h[p].obj \notin lapsed /\ fip[h[p].obj].live
            => Has(h[p].req.who, fip[h[p].obj])

HeldClaims ==
    \A c \in Client :
        held[c] \notin lapsed \cup {None} =>
            fip[held[c]].live /\ fip[held[c]].status # NoIP /\ Has(c, fip[held[c]])

ClaimInv == TypeInv /\ Serial /\ Released /\ WorkClaims /\ HeldClaims

\* A step of one handler leaves the others alone, and it keeps its request
\* until it answers.
LEMMA OneHandler ==
  ASSUME TypeInv, NEW p \in Handler, Step(p) \/ GiveUp(p) \/ Abort(p)
  PROVE  /\ \A q \in Handler \ {p} : h'[q] = h[q]
         /\ h'[p] = Idle \/ (Waits(p) /\ h'[p].req = h[p].req)
<1> DEFINE Fine == /\ \A q \in Handler \ {p} : h'[q] = h[q]
                   /\ h'[p] = Idle \/ (Waits(p) /\ h'[p].req = h[p].req)
<1>t. h \in [Handler -> HandlerState]
  BY DEF TypeInv, TypeOK
<1>d. Done(p) => Fine
  BY <1>t DEF Done
<1>f. Fail(p) => Fine
  BY <1>d DEF Fail
<1>g. ASSUME NEW pc, NEW n, Go(p, pc, n), Waits(p)
      PROVE  Fine
  BY <1>g, <1>t DEF Go, HandlerState
<1>a. ASSUME NEW n, NEW obj, NEW new, Await(p, n, obj, new), Waits(p)
      PROVE  Fine
  <2> DEFINE g == obj.group # None
             j == [h[p] EXCEPT !.pc = "watch", !.obj = n, !.created = new, !.grouped = g]
  <2>1. h' = [h EXCEPT ![p] = j]
    BY <1>a DEF Await
  <2> HIDE DEF g
  <2>2. j.req = h[p].req
    BY <1>t DEF HandlerState
  <2> QED BY <1>a, <1>t, <2>1, <2>2
<1>u. ASSUME NEW n, NEW ok, updateFloatingIPIf(p, n, ok), Waits(p)
      PROVE  Fine
  BY <1>u, <1>a DEF updateFloatingIPIf
<1>c. ASSUME NEW n, CheckThenClaim(p, n), Waits(p)
      PROVE  Fine
  BY <1>c, <1>g, <1>f DEF CheckThenClaim
<1>1. CASE findServiceFIP(p)
  BY <1>1, <1>a, <1>g DEF findServiceFIP, At, Waits
<1>2. CASE requestSpecificIP(p) \/ RelistAfterCreate(p) \/ AdoptExisting(p)
  <2>1. Waits(p)
    BY <1>2 DEF requestSpecificIP, RelistAfterCreate, AdoptExisting, At, Waits
  <2> QED BY <1>2, <1>c, <1>g, <1>f, <2>1 DEF requestSpecificIP, RelistAfterCreate, AdoptExisting
<1>3. CASE createSpecificIP(p)
  BY <1>3, <1>a, <1>g DEF createSpecificIP, createUnderName, At, Waits
<1>4. CASE ClaimPinned(p) \/ ClaimGroup(p)
  BY <1>4, <1>u, <1>f DEF ClaimPinned, ClaimGroup, At, Waits
<1>5. CASE ListUnassigned(p)
  <2>1. Waits(p)
    BY <1>5 DEF ListUnassigned, At, Waits
  <2>2. CASE h' = [h EXCEPT ![p] = [@ EXCEPT !.pc = "cands", !.cands = Unassigned]]
    <3>1. \A x : [h[p] EXCEPT !.pc = "cands", !.cands = x].req = h[p].req
      BY <1>t DEF HandlerState
    <3> QED BY <1>t, <2>1, <2>2, <3>1
  <2> QED BY <1>5, <1>g, <2>1, <2>2 DEF ListUnassigned
<1>6. CASE ClaimCandidate(p)
  <2>1. Waits(p)
    BY <1>6 DEF ClaimCandidate, At, Waits
  <2>2. ASSUME NEW n, h' = [h EXCEPT ![p].cands = @ \ {n}]
        PROVE  Fine
    <3>1. \A x : [h[p] EXCEPT !.cands = x].req = h[p].req
      BY <1>t DEF HandlerState
    <3> QED BY <1>t, <2>1, <2>2, <3>1
  <2> QED BY <1>6, <1>u, <1>g, <2>1, <2>2 DEF ClaimCandidate
<1>7. CASE CreateNew(p)
  BY <1>7, <1>a, <1>f DEF CreateNew, At, Waits
<1>8. CASE WatchFloatingIP(p) \/ Cleanup(p) \/ ReleaseUpdate(p) \/ DeleteObject(p) \/ Abort(p)
  BY <1>8, <1>d, <1>f DEF WatchFloatingIP, Cleanup, ReleaseUpdate, DeleteObject, Abort, CallFails
<1>9. CASE ReleaseList(p) \/ DeleteList(p) \/ GiveUp(p)
  BY <1>9, <1>g, <1>f, <1>d DEF ReleaseList, DeleteList, GiveUp, At, Waits
<1> QED BY <1>1, <1>2, <1>3, <1>4, <1>5, <1>6, <1>7, <1>8, <1>9 DEF Step

\* A handler that starts to wait, or is about to release, has found or written
\* the claim of its client.
LEMMA Arrives ==
  ASSUME TypeInv, NEW p \in Handler, Step(p) \/ GiveUp(p) \/ Abort(p),
         h'[p].pc \in {"watch", "rupdate"}
  PROVE  Has(h[p].req.who, fip'[h'[p].obj])
<1>t. h \in [Handler -> HandlerState] /\ fip \in [Name -> FloatingIP]
  BY DEF TypeInv, TypeOK
<1>r. h[p].pc # "idle" => h[p].req \in Request
  BY DEF TypeInv, Requests
<1>o. h[p].pc \in OnObject => h[p].obj \in Name
  BY DEF TypeInv, TypeOK
<1>i. ~ Done(p) /\ ~ Fail(p)
  BY <1>t DEF Done, Fail, Idle
<1>g. ASSUME NEW pc, NEW n, Go(p, pc, n)
      PROVE  pc = "rupdate" \/ pc = "watch"
  BY <1>g, <1>t DEF Go, HandlerState
<1>a. ASSUME NEW n, NEW obj, NEW new, Await(p, n, obj, new)
      PROVE  h'[p].obj = n
  <2> DEFINE g == obj.group # None
             j == [h[p] EXCEPT !.pc = "watch", !.obj = n, !.created = new, !.grouped = g]
  <2>1. h' = [h EXCEPT ![p] = j]
    BY <1>a DEF Await
  <2> HIDE DEF g
  <2>2. j.obj = n
    BY <1>t DEF HandlerState
  <2> QED BY <1>t, <2>1, <2>2
<1>n. \A a : \A r \in Request : Has(r.who, NewFip(r, a))
  BY DEF Has, NewFip, Gone
<1>l. \A r \in Request, obj \in FloatingIP : Has(r.who, applyFIPRequestLabels(obj, r))
  BY DEF Has, applyFIPRequestLabels, FloatingIP
<1>u. ASSUME NEW n \in Name, NEW ok, updateFloatingIPIf(p, n, ok), h[p].pc # "idle"
      PROVE  Has(h[p].req.who, fip'[h'[p].obj])
  BY <1>u, <1>a, <1>t, <1>r, <1>l DEF updateFloatingIPIf
<1>c. ASSUME NEW n
      PROVE  ~ CheckThenClaim(p, n)
  BY <1>g, <1>i DEF CheckThenClaim
<1>1. CASE findServiceFIP(p)
  BY <1>1, <1>a, <1>g DEF findServiceFIP, ServiceFIPs, serviceAlreadyExists, Has, Stay
<1>2. CASE requestSpecificIP(p) \/ RelistAfterCreate(p) \/ AdoptExisting(p)
  BY <1>2, <1>c, <1>g, <1>i DEF requestSpecificIP, RelistAfterCreate, AdoptExisting
<1>3. CASE createSpecificIP(p)
  <2> DEFINE n == specificFIPName(h[p].req.pool, h[p].req.ip)
             obj == NewFip(h[p].req, h[p].req.ip)
  <2>1. h[p].pc # "idle" /\ n \in Name
    BY <1>3, PinnedNames DEF createSpecificIP, createUnderName, At, TypeInv, Requests, Searching, PinnedStep
  <2>0. createUnderName(p, n)
    BY <1>3 DEF createSpecificIP
  <2>2. Await(p, n, obj, TRUE) /\ fip' = [fip EXCEPT ![n] = obj]
    BY <1>g, <2>0 DEF createUnderName
  <2>3. h'[p].obj = n /\ fip'[n] = obj
    BY <1>a, <1>t, <2>1, <2>2
  <2> QED BY <1>r, <1>n, <2>1, <2>3
<1>4. CASE ClaimPinned(p) \/ ClaimGroup(p)
  <2>1. h[p].pc # "idle" /\ h[p].obj \in Name
    BY <1>4, <1>o DEF ClaimPinned, ClaimGroup, At, OnObject
  <2> QED BY <1>4, <1>u, <1>i, <2>1 DEF ClaimPinned, ClaimGroup
<1>5. CASE ListUnassigned(p)
  <2>1. ~ \E x : h' = [h EXCEPT ![p] = [@ EXCEPT !.pc = "cands", !.cands = x]]
    BY <1>t DEF HandlerState
  <2> QED BY <1>5, <1>g, <2>1 DEF ListUnassigned
<1>6. CASE ClaimCandidate(p)
  <2>1. h[p].pc = "cands" /\ h[p].cands \subseteq Name
    BY <1>6, <1>t DEF ClaimCandidate, At, HandlerState
  <2>2. ~ \E n : h' = [h EXCEPT ![p].cands = @ \ {n}]
    BY <1>t, <2>1 DEF HandlerState
  <2> QED BY <1>6, <1>u, <1>g, <2>1, <2>2 DEF ClaimCandidate
<1>7. CASE CreateNew(p)
  <2>1. PICK n \in Gen : fip' = [fip EXCEPT ![n] = NewFip(h[p].req, NoIP)] /\ Await(p, n, fip'[n], TRUE)
    BY <1>7, <1>i DEF CreateNew
  <2>2. h[p].req \in Request
    BY <1>7, <1>r DEF CreateNew, At
  <2> QED BY <1>a, <1>t, <1>n, <2>1, <2>2 DEF Name
<1>8. CASE WatchFloatingIP(p) \/ Cleanup(p) \/ ReleaseUpdate(p) \/ DeleteObject(p) \/ Abort(p)
  BY <1>8, <1>i DEF WatchFloatingIP, Cleanup, ReleaseUpdate, DeleteObject, Abort, CallFails
<1>9. CASE DeleteList(p) \/ GiveUp(p)
  BY <1>9, <1>g, <1>i DEF DeleteList, GiveUp
<1>10. CASE ReleaseList(p)
  <2>1. PICK n \in ReleaseMatches(h[p].req) : Go(p, "rupdate", n) /\ UNCHANGED fip
    BY <1>10, <1>i DEF ReleaseList
  <2>2. h'[p].obj = n
    BY <1>t, <2>1 DEF Go, HandlerState
  <2> QED BY <2>1, <2>2 DEF ReleaseMatches, serviceAlreadyExists, Has
<1> QED BY <1>1, <1>2, <1>3, <1>4, <1>5, <1>6, <1>7, <1>8, <1>9, <1>10 DEF Step

\* The handler of c answers that it has the address of an object.
Approves(p, c) ==
    /\ WatchFloatingIP(p)
    /\ fip[h[p].obj].live /\ fip[h[p].obj].status # NoIP
    /\ h[p].req.who = c
    /\ held'[c] = h[p].obj

\* A client comes to count on an object by an approval alone, and counts no
\* longer on one that is gone.
LEMMA HeldSteps ==
  ASSUME TypeInv, Next, NEW c \in Client
  PROVE  /\ held'[c] \in {held[c], None} \/ \E p \in Handler : Approves(p, c)
         /\ \A n \in Name : fip[n].live /\ held[c] = n /\ held'[c] = n /\ n # None => fip'[n].live
<1> DEFINE Kept == \A n \in Name : fip[n].live /\ held[c] = n /\ held'[c] = n /\ n # None => fip'[n].live
           Fine == (held'[c] \in {held[c], None} \/ \E p \in Handler : Approves(p, c)) /\ Kept
<1>t. fip \in [Name -> FloatingIP] /\ held \in [Client -> Name \cup {None}]
  BY DEF TypeInv, TypeOK
<1>r. ASSUME NEW n \in Name, Remove(n)
      PROVE  Fine
  <2>1. held'[c] = IF held[c] = n THEN None ELSE held[c]
    BY <1>r DEF Remove
  <2>2. \A m \in Name \ {n} : fip'[m] = fip[m]
    BY <1>r, <1>t DEF Remove
  <2> QED BY <2>1, <2>2
<1>m. ASSUME NEW n \in Name, fip' = [fip EXCEPT ![n].del = TRUE]
      PROVE  \A m \in Name : fip[m].live => fip'[m].live
  BY <1>m, <1>t DEF FloatingIP
<1>d. ASSUME NEW n \in Name, DeleteCall(n)
      PROVE  Fine
  BY <1>d, <1>r, <1>m DEF DeleteCall
<1>k. ASSUME NEW n \in Name, NEW obj, fip' = [fip EXCEPT ![n] = obj], obj.live, UNCHANGED held
      PROVE  Fine
  BY <1>k, <1>t
<1>u. CASE UNCHANGED <<fip, held>>
  BY <1>u
<1>1. ASSUME NEW n \in Name, Manage(n)
      PROVE  Fine
  <2>1. CASE Grant(n)
    <3>1. PICK a : fip' = [fip EXCEPT ![n] = [@ EXCEPT !.status = a, !.spec = a,
                                               !.asg = [cluster |-> fip[n].cluster, group |-> fip[n].group]]]
      BY <2>1 DEF Grant
    <3>2. \A x : [fip[n] EXCEPT !.status = a, !.spec = a, !.asg = x].live
      BY <1>t, <2>1 DEF Grant, FloatingIP
    <3> QED BY <1>k, <2>1, <3>1, <3>2 DEF Grant
  <2>2. CASE Assign(n)
    <3>1. PICK x : fip' = [fip EXCEPT ![n] = [@ EXCEPT !.asg = x]]
      BY <2>2 DEF Assign
    <3>2. [fip[n] EXCEPT !.asg = x].live
      BY <1>t, <2>2 DEF Assign, FloatingIP
    <3> QED BY <1>k, <2>2, <3>1, <3>2 DEF Assign
  <2> QED BY <1>1, <1>r, <2>1, <2>2 DEF Manage, Finalize
<1>2. ASSUME NEW p \in Handler, NEW r \in Questions, Begin(p, r)
      PROVE  Fine
  <2>1. held'[c] \in {held[c], None}
    BY <1>2, <1>t DEF Begin
  <2> QED BY <1>2, <2>1 DEF Begin
<1>3. ASSUME NEW p \in Handler, GiveUp(p) \/ Abort(p)
      PROVE  Fine
  BY <1>3, <1>u DEF GiveUp, Stay, Abort, CallFails, Fail
<1>4. ASSUME NEW p \in Handler, Step(p)
      PROVE  Fine
  <2>r. h[p].pc # "idle" => h[p].req \in Request
    BY DEF TypeInv, Requests
  <2>o. h[p].pc \in OnObject => h[p].obj \in Name
    BY DEF TypeInv, TypeOK
  <2>n. \A r, a : NewFip(r, a).live
    BY DEF NewFip, Gone
  <2>u. ASSUME NEW n \in Name, NEW ok, updateFloatingIPIf(p, n, ok)
        PROVE  Fine
    <3>1. applyFIPRequestLabels(fip[n], h[p].req).live
      BY <1>t, <2>u DEF updateFloatingIPIf, applyFIPRequestLabels, FloatingIP
    <3> QED BY <1>k, <2>u, <3>1 DEF updateFloatingIPIf
  <2>1. CASE createSpecificIP(p)
    <3>1. specificFIPName(h[p].req.pool, h[p].req.ip) \in Name
      BY <2>1, PinnedNames DEF createSpecificIP, createUnderName, At, TypeInv, Requests, Searching, PinnedStep
    <3> QED BY <1>k, <1>u, <2>1, <2>n, <3>1 DEF createSpecificIP, createUnderName
  <2>2. CASE ClaimPinned(p) \/ ClaimGroup(p)
    <3>1. h[p].obj \in Name
      BY <2>2, <2>o DEF ClaimPinned, ClaimGroup, At, OnObject
    <3> QED BY <1>u, <2>2, <2>u, <3>1 DEF ClaimPinned, ClaimGroup, Fail
  <2>3. CASE ClaimCandidate(p)
    <3>1. h[p].cands \subseteq Name
      BY <2>3 DEF ClaimCandidate, TypeInv, TypeOK, HandlerState
    <3> QED BY <1>u, <2>3, <2>u, <3>1 DEF ClaimCandidate, Stay
  <2>4. CASE CreateNew(p)
    BY <1>k, <1>u, <2>4, <2>n DEF CreateNew, Fail, Name
  <2>5. CASE Cleanup(p) \/ DeleteObject(p)
    BY <1>d, <2>5, <2>o DEF Cleanup, DeleteObject, At, OnObject
  <2>6. CASE ReleaseUpdate(p)
    <3>1. h[p].obj \in Name
      BY <2>6, <2>o DEF ReleaseUpdate, At, OnObject
    <3>2. fip[h[p].obj].live => releaseMutate(fip[h[p].obj], h[p].req).live
      BY <1>t, <3>1 DEF releaseMutate, FloatingIP
    <3> QED BY <1>k, <1>u, <2>6, <3>1, <3>2 DEF ReleaseUpdate, Fail
  <2>7. CASE WatchFloatingIP(p)
    <3>1. h[p].obj \in Name /\ h[p].req \in Request /\ UNCHANGED fip
      BY <2>7, <2>o, <2>r DEF WatchFloatingIP, At, OnObject
    <3>2. CASE Fail(p)
      BY <1>u, <3>1, <3>2 DEF Fail
    <3>3. CASE /\ fip[h[p].obj].live /\ allocated(p, fip[h[p].obj])
               /\ held' = [held EXCEPT ![h[p].req.who] = h[p].obj]
      <4>1. CASE h[p].req.who = c
        <5>1. held'[c] = h[p].obj /\ fip[h[p].obj].status # NoIP
          BY <1>t, <3>3, <4>1 DEF allocated
        <5> QED BY <2>7, <3>1, <3>3, <4>1, <5>1 DEF Approves
      <4>2. CASE h[p].req.who # c
        BY <1>t, <3>1, <3>3, <4>2
      <4> QED BY <4>1, <4>2
    <3> QED BY <2>7, <3>2, <3>3 DEF WatchFloatingIP
  <2>8. CASE UNCHANGED <<fip, held>>
    BY <1>u, <2>8
  <2> QED BY <1>4, <2>1, <2>2, <2>3, <2>4, <2>5, <2>6, <2>7, <2>8
      DEF Step, findServiceFIP, requestSpecificIP, AdoptExisting, RelistAfterCreate, ListUnassigned,
          ReleaseList, DeleteList, CheckThenClaim, Fail, Stay
<1> QED BY <1>1, <1>2, <1>3, <1>4 DEF Next

\* Labels of an object that stays change by a claim, which a group match alone
\* makes over the claim of another cluster, and by a release; the pool and the
\* address stay, and so does a deletion.
SameLabels(n) ==
    /\ fip'[n].cluster = fip[n].cluster /\ fip'[n].svcs = fip[n].svcs /\ fip'[n].group = fip[n].group
    /\ fip'[n].pool = fip[n].pool
    /\ fip[n].spec # NoIP => fip'[n].spec = fip[n].spec
    /\ fip[n].del => fip'[n].del
Claims(p, n) ==
    /\ h[p].req \in Request
    /\ h[p].pc \in {"group", "cands"} \/ (h[p].pc = "claim" /\ h[p].obj = n)
    /\ h'[p].pc = "watch"
    /\ fip'[n] = applyFIPRequestLabels(fip[n], h[p].req)
    /\ fip[n].cluster \in {None, h[p].req.who.cluster} \/ GroupTakeover(n)
Releases(p, n) == ReleaseUpdate(p) /\ h[p].obj = n

\* A handler that is to wait for the address of n waits for it.
LEMMA AwaitGoes ==
  ASSUME TypeInv, NEW p \in Handler, NEW n, NEW obj, NEW new, Await(p, n, obj, new)
  PROVE  h'[p].pc = "watch" /\ h'[p].req = h[p].req
<1> DEFINE g == obj.group # None
           j == [h[p] EXCEPT !.pc = "watch", !.obj = n, !.created = new, !.grouped = g]
<1>1. h' = [h EXCEPT ![p] = j]
  BY DEF Await
<1> HIDE DEF g
<1>2. j.pc = "watch" /\ j.req = h[p].req
  BY DEF TypeInv, TypeOK, HandlerState
<1> QED BY <1>1, <1>2 DEF TypeInv, TypeOK

\* The labels that make a claim are written by a handler that claims, or by one
\* that releases, and by nobody else while the FloatingIP lives.
LEMMA LabelSteps ==
  ASSUME TypeInv, Next, NEW n \in Name, fip[n].live, fip'[n].live
  PROVE  /\ SameLabels(n) \/ \E p \in Handler : Claims(p, n) \/ Releases(p, n)
         /\ fip[n].status # NoIP => fip'[n].status # NoIP
<1> DEFINE Fine == /\ SameLabels(n) \/ \E p \in Handler : Claims(p, n) \/ Releases(p, n)
                   /\ fip[n].status # NoIP => fip'[n].status # NoIP
<1>t. fip \in [Name -> FloatingIP] /\ fip[n] \in FloatingIP
  BY DEF TypeInv, TypeOK
<1>e. fip'[n] = fip[n] => Fine
  BY DEF SameLabels
<1>o. ASSUME NEW m \in Name \ {n}, NEW obj, fip' = [fip EXCEPT ![m] = obj]
      PROVE  Fine
  BY <1>e, <1>o, <1>t
<1>r. ASSUME NEW m \in Name, Remove(m)
      PROVE  Fine
  <2>1. CASE m = n
    <3>1. ~ [Gone EXCEPT !.del = n \in Gen].live
      BY DEF Gone
    <3>2. fip'[n] = [Gone EXCEPT !.del = n \in Gen]
      BY <1>r, <1>t, <2>1 DEF Remove
    <3> QED BY <3>1, <3>2
  <2>2. CASE m # n
    BY <1>o, <1>r, <2>2 DEF Remove
  <2> QED BY <2>1, <2>2
<1>k. ASSUME NEW m \in Name, NEW obj, fip' = [fip EXCEPT ![m] = obj],
             m = n => /\ obj.cluster = fip[n].cluster /\ obj.svcs = fip[n].svcs /\ obj.group = fip[n].group
                      /\ obj.pool = fip[n].pool
                      /\ fip[n].spec # NoIP => obj.spec = fip[n].spec
                      /\ fip[n].del => obj.del
                      /\ fip[n].status # NoIP => obj.status # NoIP
      PROVE  Fine
  <2>1. CASE m = n
    BY <1>k, <1>t, <2>1 DEF SameLabels
  <2> QED BY <1>k, <1>o, <2>1
<1>1. ASSUME NEW m \in Name, Grant(m)
      PROVE  Fine
  <2>0. Subnet[fip[m].pool] \subseteq Addr
    BY <1>1, APIAssumption DEF Grant, TypeInv, Pooled, Live
  <2>1. PICK a \in Addr :
           /\ fip' = [fip EXCEPT ![m] = [@ EXCEPT !.status = a, !.spec = a,
                                                !.asg = [cluster |-> fip[m].cluster, group |-> fip[m].group]]]
           /\ fip[m].spec # NoIP => a = fip[m].spec
    BY <1>1, <2>0 DEF Grant
  <2>2. fip[m] \in FloatingIP
    BY <1>t
  <2>3. \A x : LET obj == [fip[m] EXCEPT !.status = a, !.spec = a, !.asg = x]
               IN  /\ obj.cluster = fip[m].cluster /\ obj.svcs = fip[m].svcs /\ obj.group = fip[m].group
                   /\ obj.pool = fip[m].pool
                   /\ obj.spec = a /\ (fip[m].del => obj.del) /\ obj.status # NoIP
    BY <2>2, APIAssumption DEF FloatingIP
  <2> DEFINE obj == [fip[m] EXCEPT !.status = a, !.spec = a,
                                   !.asg = [cluster |-> fip[m].cluster, group |-> fip[m].group]]
  <2>4. /\ obj.cluster = fip[m].cluster /\ obj.svcs = fip[m].svcs /\ obj.group = fip[m].group
        /\ obj.pool = fip[m].pool
        /\ obj.spec = a /\ (fip[m].del => obj.del) /\ obj.status # NoIP
    BY <2>3
  <2>5. fip' = [fip EXCEPT ![m] = obj]
    BY <2>1
  <2> HIDE DEF obj
  <2>6. fip[m].spec # NoIP => obj.spec = fip[m].spec
    BY <2>1, <2>4
  <2> QED BY <1>k, <2>4, <2>5, <2>6
<1>2. ASSUME NEW m \in Name, Assign(m)
      PROVE  Fine
  <2>1. PICK x : fip' = [fip EXCEPT ![m] = [@ EXCEPT !.asg = x]]
    BY <1>2 DEF Assign
  <2>2. LET obj == [fip[m] EXCEPT !.asg = x]
        IN  /\ obj.cluster = fip[m].cluster /\ obj.svcs = fip[m].svcs /\ obj.group = fip[m].group
            /\ obj.pool = fip[m].pool
            /\ obj.spec = fip[m].spec /\ obj.del = fip[m].del /\ obj.status = fip[m].status
    BY <1>t DEF FloatingIP
  <2> QED BY <1>k, <2>1, <2>2
<1>3. ASSUME NEW m \in Name, DeleteCall(m)
      PROVE  Fine
  <2>1. CASE fip' = [fip EXCEPT ![m].del = TRUE]
    <3>1. LET obj == [fip[m] EXCEPT !.del = TRUE]
          IN  /\ obj.cluster = fip[m].cluster /\ obj.svcs = fip[m].svcs /\ obj.group = fip[m].group
              /\ obj.pool = fip[m].pool
              /\ obj.spec = fip[m].spec /\ obj.del /\ obj.status = fip[m].status
      BY <1>t DEF FloatingIP
    <3>2. fip' = [fip EXCEPT ![m] = [fip[m] EXCEPT !.del = TRUE]]
      BY <2>1
    <3> QED BY <1>k, <3>1, <3>2
  <2> QED BY <1>3, <1>r, <1>e, <2>1 DEF DeleteCall
<1>4. ASSUME NEW p \in Handler, Step(p)
      PROVE  Fine
  <2>r. h[p].pc # "idle" => h[p].req \in Request
    BY DEF TypeInv, Requests
  <2>o. h[p].pc \in OnObject => h[p].obj \in Name
    BY DEF TypeInv, TypeOK
  <2>u. ASSUME NEW m \in Name, NEW ok, updateFloatingIPIf(p, m, ok),
               h[p].pc \in {"group", "cands"} \/ (h[p].pc = "claim" /\ h[p].obj = m),
               m = n => fip[n].cluster \in {None, h[p].req.who.cluster} \/ GroupTakeover(n)
        PROVE  Fine
    <3>1. CASE m = n
      <4>1. fip'[n] = applyFIPRequestLabels(fip[n], h[p].req)
        BY <1>t, <2>u, <3>1 DEF updateFloatingIPIf
      <4>2. applyFIPRequestLabels(fip[n], h[p].req).status = fip[n].status
        BY <1>t DEF applyFIPRequestLabels, FloatingIP
      <4>3. h'[p].pc = "watch"
        BY <2>u, AwaitGoes DEF updateFloatingIPIf
      <4>4. Claims(p, n)
        BY <2>r, <2>u, <3>1, <4>1, <4>3 DEF Claims
      <4> QED BY <4>1, <4>2, <4>4
    <3>2. CASE m # n
      BY <1>o, <2>u, <3>2 DEF updateFloatingIPIf
    <3> QED BY <3>1, <3>2
  <2>1. CASE createSpecificIP(p)
    <3> DEFINE m == specificFIPName(h[p].req.pool, h[p].req.ip)
    <3>1. m \in Name
      BY <2>1, PinnedNames DEF createSpecificIP, createUnderName, At, TypeInv, Requests, Searching, PinnedStep
    <3>2. createUnderName(p, m)
      BY <2>1 DEF createSpecificIP
    <3>3. UNCHANGED fip \/ (~ fip[m].live /\ fip' = [fip EXCEPT ![m] = NewFip(h[p].req, h[p].req.ip)])
      BY <3>2 DEF createUnderName
    <3> QED BY <1>o, <1>e, <3>1, <3>3
  <2>2. CASE ClaimPinned(p)
    <3>1. h[p].pc = "claim" /\ h[p].obj \in Name
      BY <2>2, <2>o DEF ClaimPinned, At, OnObject
    <3> QED BY <1>e, <2>2, <2>u, <3>1 DEF ClaimPinned, fipClaimableByCluster, updateFloatingIPIf
  <2>3. CASE ClaimGroup(p)
    <3>1. h[p].pc = "group" /\ h[p].obj \in Name
      BY <2>3, <2>o DEF ClaimGroup, At, OnObject
    <3>2. h[p].obj = n => fip[n].cluster \in {None, h[p].req.who.cluster} \/ GroupTakeover(n)
      BY <2>3 DEF GroupTakeover
    <3> QED BY <1>e, <2>3, <2>u, <3>1, <3>2 DEF ClaimGroup
  <2>4. CASE ClaimCandidate(p)
    <3>1. h[p].pc = "cands" /\ h[p].cands \subseteq Name
      BY <2>4 DEF ClaimCandidate, At, TypeInv, TypeOK, HandlerState
    <3>2. ASSUME NEW m \in h[p].cands, updateFloatingIPIf(p, m, fipClaimableByRequest(fip[m], h[p].req))
          PROVE  Fine
      <4>1. fip[m].cluster \in {None, h[p].req.who.cluster}
        BY <3>2 DEF updateFloatingIPIf, fipClaimableByRequest
      <4> QED BY <2>u, <3>1, <3>2, <4>1
    <3> QED BY <1>e, <2>4, <3>2 DEF ClaimCandidate, Stay
  <2>5. CASE CreateNew(p)
    <3>1. \A m \in Gen : fip[m] = Gone => m # n
      BY ObjectTypes
    <3> QED BY <1>e, <1>o, <2>5, <3>1 DEF CreateNew, Name
  <2>6. CASE Cleanup(p) \/ DeleteObject(p)
    BY <1>3, <2>6, <2>o DEF Cleanup, DeleteObject, At, OnObject
  <2>7. CASE ReleaseUpdate(p)
    <3>1. h[p].obj \in Name
      BY <2>7, <2>o DEF ReleaseUpdate, At, OnObject
    <3>2. CASE h[p].obj = n
      <4>1. fip'[n] = releaseMutate(fip[n], h[p].req)
        BY <1>t, <2>7, <3>2 DEF ReleaseUpdate
      <4>2. releaseMutate(fip[n], h[p].req).status = fip[n].status
        BY <1>t DEF releaseMutate, FloatingIP
      <4> QED BY <2>7, <3>2, <4>1, <4>2 DEF Releases
    <3>3. CASE h[p].obj # n
      BY <1>e, <1>o, <2>7, <3>1, <3>3 DEF ReleaseUpdate
    <3> QED BY <3>2, <3>3
  <2>8. CASE UNCHANGED fip
    BY <1>e, <2>8
  <2> QED BY <1>4, <2>1, <2>2, <2>3, <2>4, <2>5, <2>6, <2>7, <2>8
      DEF Step, findServiceFIP, requestSpecificIP, AdoptExisting, RelistAfterCreate, ListUnassigned,
          WatchFloatingIP, ReleaseList, DeleteList, Stay
<1>5. ASSUME NEW p \in Handler, GiveUp(p) \/ Abort(p) \/ \E r \in Questions : Begin(p, r)
      PROVE  Fine
  BY <1>e, <1>5 DEF GiveUp, Stay, Abort, CallFails, Begin
<1> QED BY <1>1, <1>2, <1>4, <1>5, <1>r DEF Next, Manage, Finalize

\* A claim on an object that has not lapsed stays through every step other
\* than the release of its own client.
LEMMA KeepsLabels ==
  ASSUME ClaimInv, Next, NEW n \in Name, n \notin lapsed', fip[n].live, fip'[n].live,
         NEW c \in Client, Has(c, fip[n]),
         \A p \in Handler : Releases(p, n) => h[p].req.who # c
  PROVE  Has(c, fip'[n])
<1>t. fip[n] \in FloatingIP /\ TypeInv
  BY DEF ClaimInv, TypeInv, TypeOK
<1>1. CASE SameLabels(n)
  BY <1>1 DEF SameLabels, Has
<1>2. ASSUME NEW p \in Handler, Claims(p, n)
      PROVE  Has(c, fip'[n])
  <2>1. ~ GroupTakeover(n) /\ c.cluster # None
    BY APIAssumption DEF Next
  <2>2. fip[n].cluster = h[p].req.who.cluster
    BY <1>2, <2>1 DEF Claims, Has
  <2> QED BY <1>2, <1>t, <2>2 DEF Claims, Has, applyFIPRequestLabels, FloatingIP
<1>3. ASSUME NEW p \in Handler, Releases(p, n)
      PROVE  Has(c, fip'[n])
  <2>1. h[p].pc = "rupdate" /\ h[p].obj = n /\ h[p].req \in Request
    BY <1>3, <1>t DEF Releases, ReleaseUpdate, At, TypeInv, Requests
  <2>2. n \notin lapsed
    BY DEF Next
  <2>3. Has(h[p].req.who, fip[n])
    BY <2>1, <2>2 DEF ClaimInv, WorkClaims
  <2>4. h[p].req.who \in Client /\ h[p].req.who # c
    BY <1>3, <2>1 DEF Request
  <2>5. h[p].req.who.svc # c.svc
    BY <2>3, <2>4, APIAssumption DEF Has
  <2>6. fip'[n] = releaseMutate(fip[n], h[p].req)
    BY <1>3, <1>t DEF Releases, ReleaseUpdate, TypeInv, TypeOK
  <2> DEFINE left == fip[n].svcs \ {h[p].req.who.svc}
  <2>7. c.svc \in left /\ left # {}
    BY <2>5 DEF Has
  <2>8. releaseMutate(fip[n], h[p].req) = [fip[n] EXCEPT !.svcs = left, !.group = @, !.cluster = @]
    BY <2>7 DEF releaseMutate
  <2> HIDE DEF left
  <2> QED BY <1>t, <2>6, <2>7, <2>8 DEF Has, FloatingIP
<1> QED BY <1>1, <1>2, <1>3, <1>t, LabelSteps

\* What a step does to the handlers: one of them moves, one begins, or the
\* manager works.
LEMMA HandlerSteps ==
  ASSUME TypeInv, Next
  PROVE  \/ UNCHANGED h
         \/ \E p \in Handler : Step(p) \/ GiveUp(p) \/ Abort(p)
         \/ \E p \in Handler, r \in Questions : Begin(p, r)
  BY DEF Next, Manage, Grant, Assign, Finalize

\* Where the handlers stand after a question was asked.
LEMMA BeginSteps ==
  ASSUME TypeInv, NEW p \in Handler, NEW r \in Questions, Begin(p, r)
  PROVE  /\ \A q \in Handler \ {p} : h'[q] = h[q]
         /\ h'[p].pc \in {"find", "rlist", "dlist"} /\ h'[p].req = r
         /\ h'[p].pc = "rlist" => held'[r.who] = None
<1> DEFINE j == [Idle EXCEPT !.pc = First(r.op), !.req = r]
<1>1. h' = [h EXCEPT ![p] = j] /\ j.pc = First(r.op) /\ j.req = r
  BY DEF Begin, Idle
<1>2. r \in Request
  BY BeginTypes
<1>3. /\ First(r.op) \in {"find", "rlist", "dlist"}
      /\ First(r.op) = "rlist" <=> r.op = "release"
  BY <1>2 DEF First, Request
<1>4. r.who \in Client
  BY <1>2 DEF Request
<1> HIDE DEF j
<1>5. \A q \in Handler : h'[q] = IF q = p THEN j ELSE h[q]
  BY <1>1 DEF TypeInv, TypeOK
<1>6. r.op = "release" => held'[r.who] = None
  BY <1>4 DEF Begin, TypeInv, TypeOK
<1> QED BY <1>1, <1>3, <1>5, <1>6

\* Clients stay serial.
LEMMA NextSerial ==
  ASSUME ClaimInv, Next
  PROVE  Serial'
<1>t. TypeInv /\ Serial
  BY DEF ClaimInv
<1>1. CASE UNCHANGED h
  BY <1>1, <1>t DEF Serial, Waits
<1>2. ASSUME NEW p \in Handler, Step(p) \/ GiveUp(p) \/ Abort(p)
      PROVE  Serial'
  <2>1. /\ \A q \in Handler \ {p} : h'[q] = h[q]
        /\ h'[p] = Idle \/ (Waits(p) /\ h'[p].req = h[p].req)
    BY <1>2, <1>t, OneHandler
  <2>2. Idle.pc = "idle"
    BY DEF Idle
  <2>3. ASSUME NEW q \in Handler, Waits(q)'
        PROVE  Waits(q) /\ h'[q].req = h[q].req
    BY <2>1, <2>2, <2>3 DEF Waits
  <2> QED BY <1>t, <2>3 DEF Serial
<1>3. ASSUME NEW p \in Handler, NEW r \in Questions, Begin(p, r)
      PROVE  Serial'
  <2>1. /\ \A q \in Handler \ {p} : h'[q] = h[q]
        /\ h'[p].req = r
    BY <1>3, <1>t, BeginSteps
  <2>2. \A q \in Handler : Waits(q) => h[q].req.who # r.who
    BY <1>3 DEF Begin, Serving, Waits
  <2> QED BY <1>t, <2>1, <2>2 DEF Serial, Waits
<1> QED BY <1>1, <1>2, <1>3, <1>t, HandlerSteps

\* A client that has asked for a release is approved nothing.
LEMMA NextReleased ==
  ASSUME ClaimInv, Next
  PROVE  Released'
<1>t. TypeInv /\ Serial /\ Released
  BY DEF ClaimInv
<1>k. ASSUME NEW q \in Handler, h[q].pc \in ReleaseStep, h'[q].req = h[q].req
      PROVE  held'[h'[q].req.who] = None
  <2>1. h[q].req \in Request
    BY <1>k, <1>t DEF TypeInv, Requests, ReleaseStep
  <2>2. h[q].req.who \in Client /\ held[h[q].req.who] = None
    BY <1>k, <1>t, <2>1 DEF Released, Request
  <2>3. ~ \E p \in Handler : Approves(p, h[q].req.who)
    BY <1>k, <1>t DEF Approves, WatchFloatingIP, At, Serial, Waits, ReleaseStep
  <2> QED BY <1>k, <1>t, <2>2, <2>3, HeldSteps
<1>1. CASE UNCHANGED h
  BY <1>1, <1>k DEF Released
<1>2. ASSUME NEW p \in Handler, Step(p) \/ GiveUp(p) \/ Abort(p)
      PROVE  Released'
  <2>1. /\ \A q \in Handler \ {p} : h'[q] = h[q]
        /\ h'[p] = Idle \/ (Waits(p) /\ h'[p].req = h[p].req)
    BY <1>2, <1>t, OneHandler
  <2>2. Idle.pc \notin ReleaseStep
    BY DEF Idle, ReleaseStep
  <2>3. Requests /\ Requests'
    BY <1>2, <1>t, StepTypes DEF TypeInv, HandlerTypes
  <2>4. h'[p].pc \in ReleaseStep => h[p].pc \in ReleaseStep /\ h'[p].req = h[p].req
    BY <2>1, <2>2, <2>3 DEF Requests, Waits
  <2> QED BY <1>k, <2>1, <2>4 DEF Released
<1>3. ASSUME NEW p \in Handler, NEW r \in Questions, Begin(p, r)
      PROVE  Released'
  <2>1. /\ \A q \in Handler \ {p} : h'[q] = h[q]
        /\ h'[p].pc \in {"find", "rlist", "dlist"} /\ h'[p].req = r
        /\ h'[p].pc = "rlist" => held'[r.who] = None
    BY <1>3, <1>t, BeginSteps
  <2> QED BY <1>k, <2>1 DEF Released, ReleaseStep
<1> QED BY <1>1, <1>2, <1>3, <1>t, HandlerSteps

\* The claims that handlers work on stay.
LEMMA NextWorkClaims ==
  ASSUME ClaimInv, Next
  PROVE  WorkClaims'
<1>t. TypeInv /\ Serial /\ WorkClaims
  BY DEF ClaimInv
<1> SUFFICES ASSUME NEW q \in Handler, h'[q].pc \in {"watch", "rupdate"},
                    h'[q].obj \notin lapsed', fip'[h'[q].obj].live
             PROVE  Has(h'[q].req.who, fip'[h'[q].obj])
  BY DEF WorkClaims
<1>k. ASSUME h'[q] = h[q]
      PROVE  Has(h'[q].req.who, fip'[h'[q].obj])
  <2> DEFINE n == h[q].obj
  <2>1. n \in Name /\ h[q].req \in Request /\ n \notin lapsed
    BY <1>k, <1>t DEF TypeInv, TypeOK, OnObject, Requests, Next
  <2>2. fip[n].live
    BY <1>k, <2>1 DEF Next, NameReused
  <2>3. Has(h[q].req.who, fip[n])
    BY <1>k, <1>t, <2>1, <2>2 DEF WorkClaims
  <2>4. ASSUME NEW p \in Handler, Releases(p, n)
        PROVE  h[p].req.who # h[q].req.who
    <3>1. p # q
      <4>1. h'[p].pc = "idle"
        BY <1>t, <2>4 DEF Releases, ReleaseUpdate, Fail, Done, Idle, TypeInv, TypeOK
      <4> QED BY <4>1
    <3> QED BY <1>k, <1>t, <2>4, <3>1 DEF Releases, ReleaseUpdate, At, Serial, Waits
  <2>5. h[q].req.who \in Client
    BY <2>1 DEF Request
  <2>6. Has(h[q].req.who, fip'[n])
    BY <1>k, <2>1, <2>2, <2>3, <2>4, <2>5, KeepsLabels
  <2> QED BY <1>k, <2>6
<1>1. CASE UNCHANGED h
  BY <1>1, <1>k
<1>2. ASSUME NEW p \in Handler, Step(p) \/ GiveUp(p) \/ Abort(p)
      PROVE  Has(h'[q].req.who, fip'[h'[q].obj])
  <2>1. /\ \A o \in Handler \ {p} : h'[o] = h[o]
        /\ h'[p] = Idle \/ (Waits(p) /\ h'[p].req = h[p].req)
    BY <1>2, <1>t, OneHandler
  <2>2. CASE q = p
    <3>1. h'[p].req = h[p].req
      BY <2>1, <2>2 DEF Idle
    <3> QED BY <1>2, <1>t, <2>2, <3>1, Arrives
  <2> QED BY <1>k, <2>1, <2>2
<1>3. ASSUME NEW p \in Handler, NEW r \in Questions, Begin(p, r)
      PROVE  Has(h'[q].req.who, fip'[h'[q].obj])
  <2>1. /\ \A o \in Handler \ {p} : h'[o] = h[o]
        /\ h'[p].pc \in {"find", "rlist", "dlist"}
    BY <1>3, <1>t, BeginSteps
  <2> QED BY <1>k, <2>1
<1> QED BY <1>1, <1>2, <1>3, <1>t, HandlerSteps

\* The approved claims stay.
LEMMA NextHeldClaims ==
  ASSUME ClaimInv, Next
  PROVE  HeldClaims'
<1>t. TypeInv /\ Released /\ WorkClaims /\ HeldClaims
  BY DEF ClaimInv
<1> SUFFICES ASSUME NEW c \in Client, held'[c] \notin lapsed' \cup {None}
             PROVE  fip'[held'[c]].live /\ fip'[held'[c]].status # NoIP /\ Has(c, fip'[held'[c]])
  BY DEF HeldClaims
<1> DEFINE n == held'[c]
<1>l. n \notin lapsed
  BY DEF Next
<1>1. CASE held'[c] = held[c]
  <2>1. n \in Name /\ fip[n].live /\ fip[n].status # NoIP /\ Has(c, fip[n])
    BY <1>1, <1>t, <1>l DEF HeldClaims, TypeInv, TypeOK
  <2>2. fip'[n].live
    BY <1>1, <1>t, <2>1, HeldSteps
  <2>3. \A p \in Handler : Releases(p, n) => h[p].req.who # c
    BY <1>1, <1>t DEF Releases, ReleaseUpdate, At, Released, ReleaseStep
  <2>4. Has(c, fip'[n])
    BY <2>1, <2>2, <2>3, KeepsLabels
  <2>5. fip'[n].status # NoIP
    BY <1>t, <2>1, <2>2, LabelSteps
  <2> QED BY <2>2, <2>4, <2>5
<1>2. ASSUME NEW p \in Handler, Approves(p, c)
      PROVE  fip'[held'[c]].live /\ fip'[held'[c]].status # NoIP /\ Has(c, fip'[held'[c]])
  <2>1. UNCHANGED fip /\ h[p].pc = "watch" /\ h[p].obj = n
    BY <1>2 DEF Approves, WatchFloatingIP, At
  <2>2. fip[n].live /\ fip[n].status # NoIP /\ h[p].req.who = c
    BY <1>2, <2>1 DEF Approves
  <2> QED BY <1>t, <1>l, <2>1, <2>2 DEF WorkClaims
<1> QED BY <1>1, <1>2, <1>t, HeldSteps

\* Nothing is held and nobody is at work in the beginning.
LEMMA InitClaims == Init => ClaimInv
<1> SUFFICES ASSUME Init
             PROVE  ClaimInv
  OBVIOUS
<1>1. \A p \in Handler : h[p].pc = "idle"
  BY DEF Init, Idle
<1>2. \A c \in Client : held[c] = None
  BY DEF Init
<1> QED BY <1>1, <1>2, InitTypes DEF ClaimInv, Serial, Waits, Released, ReleaseStep, WorkClaims, HeldClaims

\* The inductive invariant of the claims.
THEOREM ClaimsHold == Spec => []ClaimInv
<1>1. ClaimInv /\ UNCHANGED vars => ClaimInv'
  BY NextTypes DEF ClaimInv, Serial, Waits, Released, WorkClaims, HeldClaims, vars
<1>2. ClaimInv /\ Next => ClaimInv'
  BY NextTypes, NextSerial, NextReleased, NextWorkClaims, NextHeldClaims DEF ClaimInv
<1> QED BY <1>1, <1>2, InitClaims, PTL DEF Spec

\* A client that was approved a FloatingIP keeps it, labels and all, until it
\* asks for its release or the object goes: however many requests claim,
\* release, give up and delete, in whatever order, none of them takes the
\* claim, except by the two overtakings that lapsed records.
THEOREM ApprovedAlwaysKeeps == Spec => []ApprovedKeepsClaim
<1>1. ClaimInv => ApprovedKeepsClaim
  BY DEF ClaimInv, HeldClaims, Has, ApprovedKeepsClaim
<1> QED BY <1>1, ClaimsHold, PTL

\* Every approved claim that has not lapsed is in the list of its cluster for
\* the pool of its FloatingIP, with the address that was granted.
THEOREM ApprovedAlwaysListed == Spec => []ApprovedIsListed
<1>1. ASSUME ClaimInv, Placed
      PROVE  ApprovedIsListed
  <2> SUFFICES ASSUME NEW c \in Client, held[c] \notin lapsed \cup {None}
               PROVE  [svc |-> c.svc, ip |-> fip[held[c]].status] \in FIPList(c.cluster, fip[held[c]].pool)
    BY DEF ApprovedIsListed
  <2> DEFINE n == held[c]
  <2>1. n \in Name /\ fip[n].live /\ fip[n].status # NoIP /\ Has(c, fip[n])
    BY <1>1 DEF ClaimInv, HeldClaims, TypeInv, TypeOK
  <2>2. fip[n].spec = fip[n].status
    BY <1>1, <2>1 DEF Placed
  <2>3. n \in {m \in Live : /\ fip[m].pool = fip[n].pool /\ fip[m].spec # NoIP
                            /\ fip[m].cluster = c.cluster \/ fip[m].asg = None}
    BY <2>1, <2>2 DEF Live, Has
  <2>4. [svc |-> c.svc, ip |-> fip[n].status] \in Entries(n)
    BY <2>1, <2>2 DEF Entries, Has
  <2> QED BY <2>3, <2>4 DEF FIPList
<1>2. TypeInv /\ Placed /\ [Next]_vars => Placed'
  BY NextPlaced
<1> QED BY <1>1, <1>2, InitPlaced, Typing, ClaimsHold, PTL DEF Spec

-----------------------------------------------------------------------------
(* One FloatingIP per Service                                              *)

\* What the two writes of labels leave in an object.
LEMMA ClaimWrites ==
  ASSUME NEW obj \in FloatingIP, NEW r \in Request, NEW new, new = applyFIPRequestLabels(obj, r)
  PROVE  /\ new.cluster = r.who.cluster /\ new.svcs = obj.svcs \cup {r.who.svc}
         /\ new.group = IF r.group # None THEN r.group ELSE obj.group
         /\ new.pool = obj.pool /\ new.spec = obj.spec /\ (obj.del => new.del)
  BY DEF applyFIPRequestLabels, FloatingIP

\* A release takes the Service off, and the cluster and the group with the last
\* Service.
LEMMA ReleaseWrites ==
  ASSUME NEW obj \in FloatingIP, NEW r \in Request, NEW new, new = releaseMutate(obj, r)
  PROVE  /\ new.svcs = obj.svcs \ {r.who.svc}
         /\ new.svcs = {} => new.cluster = None /\ new.group = None
         /\ new.svcs # {} => new.cluster = obj.cluster /\ new.group = obj.group
         /\ new.pool = obj.pool /\ new.spec = obj.spec /\ (obj.del => new.del)
<1> DEFINE left == obj.svcs \ {r.who.svc}
           g == IF left = {} THEN None ELSE obj.group
           k == IF left = {} THEN None ELSE obj.cluster
<1>1. new = [obj EXCEPT !.svcs = left, !.group = g, !.cluster = k]
  BY DEF releaseMutate
<1>2. (left = {} => k = None /\ g = None) /\ (left # {} => k = obj.cluster /\ g = obj.group)
  OBVIOUS
<1> HIDE DEF g, k
<1>3. /\ new.svcs = left /\ new.group = g /\ new.cluster = k
      /\ new.pool = obj.pool /\ new.spec = obj.spec /\ (obj.del => new.del)
  BY <1>1 DEF FloatingIP
<1> QED BY <1>2, <1>3

\* A release that is written is one of a request.
LEMMA ReleasesWrite ==
  ASSUME TypeInv, NEW n \in Name, fip[n].live, NEW p \in Handler, Releases(p, n)
  PROVE  h[p].req \in Request /\ fip'[n] = releaseMutate(fip[n], h[p].req)
<1>1. h[p].pc = "rupdate" /\ h[p].obj = n /\ h[p].req \in Request
  BY DEF Releases, ReleaseUpdate, At, TypeInv, Requests
<1> QED BY <1>1 DEF Releases, ReleaseUpdate, TypeInv, TypeOK

\* An object comes to be by the create of a request that names its address, or
\* by that of one that names none.
Born(p, n) ==
    /\ h[p].req \in Request
    /\ \/ /\ h[p].pc = "create" /\ h[p].req.ip \in Addr /\ h[p].req.pool \in Pool
          /\ n = specificFIPName(h[p].req.pool, h[p].req.ip)
          /\ fip'[n] = NewFip(h[p].req, h[p].req.ip)
          /\ h'[p].pc = "watch" \/ (h'[p].pc = "relist" /\ Free(h[p].req.pool, h[p].req.ip))
       \/ /\ h[p].pc = "new" /\ n \in Gen /\ fip[n] = Gone
          /\ fip'[n] = NewFip(h[p].req, NoIP)
          /\ h'[p].pc \in {"watch", "idle"}

\* There is no other way for an object to come to be.
LEMMA Births ==
  ASSUME TypeInv, Next, NEW n \in Name, ~ fip[n].live, fip'[n].live
  PROVE  \E p \in Handler : Born(p, n)
<1> DEFINE Fine == \E p \in Handler : Born(p, n)
<1>t. fip \in [Name -> FloatingIP] /\ fip[n] \in FloatingIP /\ h \in [Handler -> HandlerState]
  BY DEF TypeInv, TypeOK
<1>e. fip'[n] # fip[n]
  OBVIOUS
<1>g. ~ [Gone EXCEPT !.del = n \in Gen].live
  BY DEF Gone
<1>l. ASSUME NEW m \in Name, NEW obj, fip' = [fip EXCEPT ![m] = obj]
      PROVE  m = n /\ fip'[n] = obj
  BY <1>l, <1>t, <1>e
<1>r. ASSUME NEW m \in Name, Remove(m)
      PROVE  FALSE
  BY <1>r, <1>l, <1>g DEF Remove
<1>m. ASSUME NEW m \in Name, fip[m].live, NEW obj, fip' = [fip EXCEPT ![m] = obj]
      PROVE  FALSE
  BY <1>m, <1>l
<1>1. ASSUME NEW m \in Name, Manage(m)
      PROVE  FALSE
  BY <1>1, <1>r, <1>m DEF Manage, Grant, Assign, Finalize
<1>2. ASSUME NEW p \in Handler, GiveUp(p) \/ Abort(p) \/ \E r \in Questions : Begin(p, r)
      PROVE  FALSE
  BY <1>e, <1>2 DEF GiveUp, Stay, Abort, CallFails, Begin
<1>3. ASSUME NEW p \in Handler, Step(p)
      PROVE  Fine
  <2>r. h[p].pc # "idle" => h[p].req \in Request
    BY DEF TypeInv, Requests
  <2>o. h[p].pc \in OnObject => h[p].obj \in Name
    BY DEF TypeInv, TypeOK
  <2>u. ASSUME NEW m \in Name, NEW ok, updateFloatingIPIf(p, m, ok)
        PROVE  FALSE
    BY <1>m, <2>u DEF updateFloatingIPIf
  <2>1. CASE createSpecificIP(p)
    <3> DEFINE m == specificFIPName(h[p].req.pool, h[p].req.ip)
               obj == NewFip(h[p].req, h[p].req.ip)
               admitted == Free(h[p].req.pool, h[p].req.ip)
    <3>1. h[p].pc = "create" /\ h[p].req \in Request /\ h[p].req.ip \in Addr /\ h[p].req.pool \in Pool
      BY <2>1, <2>r DEF createSpecificIP, createUnderName, At, TypeInv, Requests, Searching, PinnedStep
    <3>c. createUnderName(p, m)
      BY <2>1 DEF createSpecificIP
    <3>2. /\ fip' = [fip EXCEPT ![m] = obj]
          /\ Await(p, m, obj, TRUE) \/ (admitted /\ Go(p, "relist", None))
      BY <1>e, <3>c DEF createUnderName, WebhookAdmits
    <3>3. m = n /\ fip'[n] = obj
      BY <1>l, <3>1, <3>2, PinnedNames
    <3>4. Go(p, "relist", None) => h'[p].pc = "relist"
      BY <1>t DEF Go, HandlerState
    <3>5. h'[p].pc = "watch" \/ (h'[p].pc = "relist" /\ admitted)
      BY <3>2, <3>4, AwaitGoes
    <3> QED BY <3>1, <3>3, <3>5 DEF Born
  <2>2. CASE ClaimPinned(p) \/ ClaimGroup(p)
    <3>1. h[p].obj \in Name
      BY <2>2, <2>o DEF ClaimPinned, ClaimGroup, At, OnObject
    <3> QED BY <1>e, <2>2, <2>u, <3>1 DEF ClaimPinned, ClaimGroup
  <2>3. CASE ClaimCandidate(p)
    <3>1. h[p].cands \subseteq Name
      BY <2>3, <1>t DEF ClaimCandidate, HandlerState
    <3> QED BY <1>e, <2>3, <2>u, <3>1 DEF ClaimCandidate, Stay
  <2>4. CASE CreateNew(p)
    <3>1. h[p].pc = "new" /\ h[p].req \in Request
      BY <2>4, <2>r DEF CreateNew, At
    <3>2. PICK m \in Gen : /\ fip[m] = Gone
                           /\ fip' = [fip EXCEPT ![m] = NewFip(h[p].req, NoIP)]
                           /\ Await(p, m, fip'[m], TRUE) \/ Fail(p)
      BY <1>e, <2>4 DEF CreateNew
    <3>3. m = n /\ fip'[n] = NewFip(h[p].req, NoIP)
      BY <1>l, <3>2 DEF Name
    <3>4. Fail(p) => h'[p].pc = "idle"
      BY <1>t DEF Fail, Done, Idle
    <3>5. h'[p].pc \in {"watch", "idle"}
      BY <3>2, <3>4, AwaitGoes
    <3> QED BY <3>1, <3>2, <3>3, <3>5 DEF Born
  <2>5. CASE Cleanup(p) \/ DeleteObject(p)
    <3>1. h[p].obj \in Name /\ DeleteCall(h[p].obj)
      BY <2>5, <2>o DEF Cleanup, DeleteObject, At, OnObject
    <3> QED BY <1>e, <1>m, <1>r, <3>1 DEF DeleteCall
  <2>6. CASE ReleaseUpdate(p)
    <3>1. h[p].obj \in Name
      BY <2>6, <2>o DEF ReleaseUpdate, At, OnObject
    <3> QED BY <1>e, <1>m, <2>6, <3>1 DEF ReleaseUpdate
  <2>7. CASE UNCHANGED fip
    BY <1>e, <2>7
  <2> QED BY <1>3, <2>1, <2>2, <2>3, <2>4, <2>5, <2>6, <2>7
      DEF Step, findServiceFIP, requestSpecificIP, AdoptExisting, RelistAfterCreate, ListUnassigned,
          WatchFloatingIP, ReleaseList, DeleteList, Stay
<1> QED BY <1>1, <1>2, <1>3 DEF Next

\* At most one object changes.
LEMMA OneObject ==
  ASSUME TypeInv, Next, NEW m \in Name, NEW n \in Name, fip'[m] # fip[m], fip'[n] # fip[n]
  PROVE  m = n
<1>1. ASSUME NEW x \in Name, NEW obj, fip' = [fip EXCEPT ![x] = obj]
      PROVE  m = x /\ n = x
  BY <1>1 DEF TypeInv, TypeOK
<1>2. ASSUME NEW x \in Name, Creates(x) \/ Relabels(x) \/ Deletes(x) \/ Grant(x) \/ Assign(x)
      PROVE  m = n
  BY <1>1, <1>2 DEF Creates, Relabels, Deletes, Remove, Grant, Assign
<1> QED BY <1>2, ObjectSteps

\* The pool of an object and the address that its spec names are for life, and
\* the spec comes to name one that no other spec of the pool names.
LEMMA SpecSteps ==
  ASSUME TypeInv, Next, NEW n \in Name, fip[n].live, fip'[n].live
  PROVE  /\ fip'[n].pool = fip[n].pool
         /\ fip[n].spec # NoIP => fip'[n].spec = fip[n].spec
         /\ fip'[n].spec # fip[n].spec =>
               \A m \in Live \ {n} : fip[m].pool = fip[n].pool => fip[m].spec # fip'[n].spec
<1>t. fip \in [Name -> FloatingIP] /\ fip[n] \in FloatingIP
  BY DEF TypeInv, TypeOK
<1>1. fip'[n].pool = fip[n].pool /\ (fip[n].spec # NoIP => fip'[n].spec = fip[n].spec)
  <2>1. ASSUME NEW p \in Handler, Claims(p, n)
        PROVE  fip'[n].pool = fip[n].pool /\ fip'[n].spec = fip[n].spec
    BY <1>t, <2>1, ClaimWrites DEF Claims
  <2>2. ASSUME NEW p \in Handler, Releases(p, n)
        PROVE  fip'[n].pool = fip[n].pool /\ fip'[n].spec = fip[n].spec
    BY <1>t, <2>2, ReleasesWrite, ReleaseWrites
  <2> QED BY <2>1, <2>2, LabelSteps DEF SameLabels
<1>2. ASSUME fip'[n].spec # fip[n].spec
      PROVE  \A m \in Live \ {n} : fip[m].pool = fip[n].pool => fip[m].spec # fip'[n].spec
  <2>1. ASSUME NEW x \in Name, NEW obj, fip' = [fip EXCEPT ![x] = obj]
        PROVE  x = n /\ fip'[n] = obj
    BY <1>t, <1>2, <2>1
  <2>2. ASSUME NEW x \in Name
        PROVE  ~ Creates(x)
    BY <2>1 DEF Creates
  <2>3. ASSUME NEW x \in Name, Relabels(x)
        PROVE  FALSE
    BY <1>t, <1>2, <2>1, <2>3, ClaimWrites, ReleaseWrites DEF Relabels
  <2>4. ASSUME NEW x \in Name, Deletes(x)
        PROVE  FALSE
    <3>1. [fip[n] EXCEPT !.del = TRUE].spec = fip[n].spec
      BY <1>t DEF FloatingIP
    <3>2. ~ [Gone EXCEPT !.del = n \in Gen].live
      BY DEF Gone
    <3>3. CASE Remove(x)
      BY <2>1, <3>2, <3>3 DEF Remove
    <3>4. CASE fip' = [fip EXCEPT ![x] = [fip[x] EXCEPT !.del = TRUE]]
      BY <1>2, <2>1, <3>1, <3>4
    <3> QED BY <2>4, <3>3, <3>4 DEF Deletes
  <2>5. ASSUME NEW x \in Name, Assign(x)
        PROVE  FALSE
    <3>1. PICK y : fip' = [fip EXCEPT ![x] = [fip[x] EXCEPT !.asg = y]]
      BY <2>5 DEF Assign
    <3>2. [fip[n] EXCEPT !.asg = y].spec = fip[n].spec
      BY <1>t DEF FloatingIP
    <3> QED BY <1>2, <2>1, <3>1, <3>2
  <2>6. ASSUME NEW x \in Name, Grant(x)
        PROVE  \A m \in Live \ {n} : fip[m].pool = fip[n].pool => fip[m].spec # fip'[n].spec
    <3>1. PICK a :
             /\ \A m \in Live \ {x} : fip[m].pool = fip[x].pool => a \notin {fip[m].spec, fip[m].status}
             /\ fip' = [fip EXCEPT ![x] = [@ EXCEPT !.status = a, !.spec = a,
                                                  !.asg = [cluster |-> fip[x].cluster, group |-> fip[x].group]]]
      BY <2>6 DEF Grant
    <3>2. \A y : [fip[x] EXCEPT !.status = a, !.spec = a, !.asg = y].spec = a
      BY <1>t DEF FloatingIP
    <3>3. x = n /\ fip'[n].spec = a
      BY <2>1, <3>1, <3>2, ZenonT(30)
    <3> QED BY <3>1, <3>3
  <2> QED BY <1>2, <2>2, <2>3, <2>4, <2>5, <2>6, ObjectSteps
<1> QED BY <1>1, <1>2

\* A generated name that is used once is not free again.
LEMMA UsedStays ==
  ASSUME TypeInv, Next, NEW n \in Gen, fip[n] # Gone
  PROVE  fip'[n] # Gone
<1>t. fip \in [Name -> FloatingIP] /\ n \in Name
  BY DEF TypeInv, TypeOK, Name
<1>1. CASE fip'[n] = fip[n] \/ fip'[n].live
  BY <1>1, ObjectTypes
<1>2. ASSUME fip'[n] # fip[n], ~ fip'[n].live
      PROVE  fip'[n] # Gone
  <2>1. ASSUME NEW x \in Name, NEW obj, fip' = [fip EXCEPT ![x] = obj]
        PROVE  x = n /\ fip'[n] = obj
    BY <1>t, <1>2, <2>1
  <2>2. ASSUME NEW x \in Name, Creates(x)
        PROVE  FALSE
    <3>1. \A r, a : NewFip(r, a).live
      BY DEF NewFip, Gone
    <3> QED BY <1>2, <2>1, <2>2, <3>1 DEF Creates
  <2>3. ASSUME NEW x \in Name, fip[x].live
        PROVE  ~ Relabels(x) /\ ~ Grant(x) /\ ~ Assign(x) /\ fip' # [fip EXCEPT ![x].del = TRUE]
    <3>1. fip[x] \in FloatingIP
      BY <1>t
    <3>2. \A r : applyFIPRequestLabels(fip[x], r).live /\ releaseMutate(fip[x], r).live
      BY <2>3, <3>1 DEF applyFIPRequestLabels, releaseMutate, FloatingIP
    <3>3. \A a, y : [fip[x] EXCEPT !.status = a, !.spec = a, !.asg = y].live /\ [fip[x] EXCEPT !.asg = y].live
      BY <2>3, <3>1 DEF FloatingIP
    <3>4. [fip[x] EXCEPT !.del = TRUE].live
      BY <2>3, <3>1 DEF FloatingIP
    <3>5. ~ Relabels(x)
      BY <1>2, <2>1, <3>2 DEF Relabels
    <3>6. ~ Grant(x) /\ ~ Assign(x)
      <4>1. ASSUME NEW a, NEW y
            PROVE  /\ fip' # [fip EXCEPT ![x] = [@ EXCEPT !.status = a, !.spec = a, !.asg = y]]
                   /\ fip' # [fip EXCEPT ![x] = [@ EXCEPT !.asg = y]]
        <5>1. ASSUME NEW obj, obj.live
              PROVE  fip' # [fip EXCEPT ![x] = obj]
          BY <1>2, <2>1, <5>1
        <5>2. /\ fip' # [fip EXCEPT ![x] = [fip[x] EXCEPT !.status = a, !.spec = a, !.asg = y]]
              /\ fip' # [fip EXCEPT ![x] = [fip[x] EXCEPT !.asg = y]]
          BY <3>3, <5>1
        <5> QED BY <5>2
      <4>2. ~ Grant(x)
        BY <4>1 DEF Grant
      <4>3. ~ Assign(x)
        BY <4>1 DEF Assign
      <4> QED BY <4>2, <4>3
    <3>7. fip' # [fip EXCEPT ![x] = [fip[x] EXCEPT !.del = TRUE]]
      BY <1>2, <2>1, <3>4
    <3> QED BY <3>5, <3>6, <3>7
  <2>4. ASSUME NEW x \in Name, Remove(x)
        PROVE  fip'[n] # Gone
    <3>1. fip'[n] = [Gone EXCEPT !.del = n \in Gen]
      BY <2>1, <2>4 DEF Remove
    <3>2. [Gone EXCEPT !.del = n \in Gen] # Gone
      BY DEF Gone
    <3> QED BY <3>1, <3>2
  <2> QED BY <1>2, <2>2, <2>3, <2>4, ObjectSteps DEF Relabels, Deletes, Grant, Assign
<1> QED BY <1>1, <1>2

\* How a handler goes on with its search.
Advances(q) ==
    /\ h'[q].req = h[q].req
    /\ \/ /\ h[q].pc = "find" /\ ServiceFIPs(h[q].req) = {} /\ UNCHANGED fip
          /\ h'[q].pc = IF h[q].req.ip # NoIP THEN "pinned" ELSE "list"
       \/ /\ h[q].pc \in {"pinned", "adopt", "relist"} /\ h'[q].pc = "claim" /\ UNCHANGED fip
          /\ h'[q].obj \in Live /\ fip[h'[q].obj].spec = h[q].req.ip
       \/ /\ h[q].pc \in {"pinned", "create", "adopt"} /\ h'[q].pc \in {"create", "adopt", "relist"}
          /\ UNCHANGED fip \/ \E n \in Name : Born(q, n)
       \/ h[q].pc \in {"list", "cands"} /\ h'[q].pc \in {"group", "cands", "new"} /\ UNCHANGED fip

\* A handler comes to a step of the search from the step before it.
LEMMA SearchSteps ==
  ASSUME TypeInv, Next, NEW q \in Handler, Step(q) \/ GiveUp(q) \/ Abort(q),
         h'[q].pc \in Searching \cup {"find"}
  PROVE  Advances(q)
<1>t. h \in [Handler -> HandlerState] /\ fip \in [Name -> FloatingIP]
  BY DEF TypeInv, TypeOK
<1>s. \A pc : pc \in Searching <=> pc \in {"pinned", "create", "adopt", "relist", "claim", "list", "group", "cands", "new"}
  BY DEF Searching, PinnedStep
<1>i. ~ Done(q) /\ ~ Fail(q)
  BY <1>t, <1>s DEF Done, Fail, Idle
<1>g. ASSUME NEW pc, NEW n, Go(q, pc, n)
      PROVE  h'[q].pc = pc /\ h'[q].obj = n /\ h'[q].req = h[q].req
  BY <1>g, <1>t DEF Go, HandlerState
<1>a. ASSUME NEW n, NEW obj, NEW new
      PROVE  ~ Await(q, n, obj, new)
  BY <1>s, AwaitGoes
<1>u. ASSUME NEW n, NEW ok
      PROVE  ~ updateFloatingIPIf(q, n, ok)
  BY <1>a DEF updateFloatingIPIf
<1>c. ASSUME NEW n, CheckThenClaim(q, n)
      PROVE  Go(q, "claim", n)
  BY <1>c, <1>i DEF CheckThenClaim
<1>1. CASE findServiceFIP(q)
  BY <1>1, <1>a, <1>g DEF findServiceFIP, At, Stay, Advances
<1>2. CASE requestSpecificIP(q) \/ RelistAfterCreate(q)
  BY <1>2, <1>c, <1>g, <1>i DEF requestSpecificIP, RelistAfterCreate, PinnedFIPs, At, Advances
<1>3. CASE AdoptExisting(q)
  <2>1. h[q].obj \in Name
    BY <1>3 DEF AdoptExisting, At, TypeInv, TypeOK, OnObject
  <2> QED BY <1>3, <1>c, <1>g, <1>i, <2>1 DEF AdoptExisting, Live, At, Advances
<1>4. CASE createSpecificIP(q)
  <2> DEFINE m == specificFIPName(h[q].req.pool, h[q].req.ip)
             obj == NewFip(h[q].req, h[q].req.ip)
  <2>1. /\ h[q].pc = "create" /\ h[q].req \in Request
        /\ h[q].req.ip \in Addr /\ h[q].req.pool \in Pool /\ m \in Name
    BY <1>4, PinnedNames DEF createSpecificIP, createUnderName, At, TypeInv, Requests, Searching, PinnedStep
  <2>c. createUnderName(q, m)
    BY <1>4 DEF createSpecificIP
  <2>2. CASE UNCHANGED fip
    BY <1>a, <1>g, <2>c, <2>1, <2>2 DEF createUnderName, Advances
  <2>3. CASE ~ UNCHANGED fip
    <3>1. /\ fip' = [fip EXCEPT ![m] = obj]
          /\ Free(h[q].req.pool, h[q].req.ip) /\ Go(q, "relist", None)
      BY <1>a, <2>3, <2>c DEF createUnderName, WebhookAdmits
    <3>2. fip'[m] = obj
      BY <1>t, <2>1, <3>1
    <3>3. h'[q].pc = "relist" /\ h'[q].req = h[q].req
      BY <1>g, <3>1
    <3>4. Born(q, m)
      BY <2>1, <3>1, <3>2, <3>3 DEF Born
    <3> QED BY <2>1, <3>3, <3>4 DEF Advances
  <2> QED BY <2>2, <2>3
<1>5. CASE ClaimPinned(q) \/ ClaimGroup(q)
  BY <1>5, <1>u, <1>i DEF ClaimPinned, ClaimGroup
<1>6. CASE ListUnassigned(q)
  <2>1. ASSUME NEW x, h' = [h EXCEPT ![q] = [@ EXCEPT !.pc = "cands", !.cands = x]]
        PROVE  h'[q].pc = "cands" /\ h'[q].req = h[q].req
    BY <1>t, <2>1 DEF HandlerState
  <2> QED BY <1>6, <1>g, <2>1 DEF ListUnassigned, At, Stay, Advances
<1>7. CASE ClaimCandidate(q)
  <2>1. ASSUME NEW n, h' = [h EXCEPT ![q].cands = @ \ {n}]
        PROVE  h'[q].pc = h[q].pc /\ h'[q].req = h[q].req
    <3>1. \A x : [h[q] EXCEPT !.cands = x].pc = h[q].pc /\ [h[q] EXCEPT !.cands = x].req = h[q].req
      BY <1>t DEF HandlerState
    <3> QED BY <1>t, <2>1, <3>1
  <2> QED BY <1>7, <1>g, <1>u, <2>1 DEF ClaimCandidate, At, Stay, Advances
<1>8. CASE CreateNew(q) \/ WatchFloatingIP(q) \/ Cleanup(q) \/ ReleaseUpdate(q) \/ DeleteObject(q) \/ Abort(q)
  BY <1>8, <1>i, <1>a DEF CreateNew, WatchFloatingIP, Cleanup, ReleaseUpdate, DeleteObject, Abort, CallFails
<1>9. CASE ReleaseList(q) \/ DeleteList(q) \/ GiveUp(q)
  BY <1>9, <1>g, <1>i, <1>s DEF ReleaseList, DeleteList, GiveUp
<1> QED BY <1>1, <1>2, <1>3, <1>4, <1>5, <1>6, <1>7, <1>8, <1>9 DEF Step

\* A handler that searches after a step stood still or went on with its search.
LEMMA SearchersMove ==
  ASSUME TypeInv, Next, NEW q \in Handler, h'[q].pc \in Searching
  PROVE  h'[q] = h[q] \/ Advances(q)
<1>1. CASE UNCHANGED h
  BY <1>1
<1>2. ASSUME NEW p \in Handler, Step(p) \/ GiveUp(p) \/ Abort(p)
      PROVE  h'[q] = h[q] \/ Advances(q)
  <2>1. CASE p = q
    BY <1>2, <2>1, SearchSteps
  <2> QED BY <1>2, <2>1, OneHandler
<1>3. ASSUME NEW p \in Handler, NEW r \in Questions, Begin(p, r)
      PROVE  h'[q] = h[q]
  <2>1. q # p
    BY <1>3, BeginSteps DEF Searching, PinnedStep
  <2> QED BY <1>3, <2>1, BeginSteps
<1> QED BY <1>1, <1>2, <1>3, HandlerSteps

\* What a request that searches asks for is what its client asks for; one that
\* names no address searches among the others' FloatingIPs.
Asked ==
    \A p \in Handler :
        /\ h[p].pc \in Searching \cup {"find"} =>
              \E a \in Ask : /\ h[p].req.who = a.who /\ h[p].req.pool = a.pool
                             /\ h[p].req.ip = a.ip /\ h[p].req.group = a.group
        /\ h[p].pc \in {"list", "group", "cands", "new"} => h[p].req.ip = NoIP

\* The cluster and the group go with the last Service; a name that is one of
\* a pinned address is the name of that address.
Labelled == \A n \in Live : fip[n].cluster = None => fip[n].svcs = {} /\ fip[n].group = None
Named == \A q \in Pool, a \in Addr :
            LET n == specificFIPName(q, a) IN fip[n].live => fip[n].pool = q /\ fip[n].spec = a

\* The group of a FloatingIP is one that somebody in its cluster asks for.
Grouped == \A n \in Live \ lapsed :
              fip[n].group # None => \E b \in Ask : b.who.cluster = fip[n].cluster /\ b.group = fip[n].group

\* The object that a request is about to claim has the address it asks for, and
\* so has whatever may take its name.
PinnedObject ==
    \A p \in Handler :
        h[p].pc = "claim" =>
            /\ fip[h[p].obj].live => fip[h[p].obj].spec = h[p].req.ip
            /\ \/ \E q \in Pool : h[p].obj = specificFIPName(q, h[p].req.ip)
               \/ h[p].obj \in Gen /\ fip[h[p].obj] # Gone

\* A FloatingIP that a Service claims is one that it asks for, in any pool if it
\* names no address.
SteadyLabels ==
    \A a \in Ask :
        Steady(a) => \A n \in Live \ lapsed :
                        Has(a.who, fip[n]) => /\ a.ip # NoIP => fip[n].spec = a.ip
                                              /\ fip[n].group = a.group

\* The request r has no other object to claim than k: k has the name that its
\* pool and its address make, and no other FloatingIP of the pool the address.
OnlyFor(r, k) == /\ k = specificFIPName(r.pool, r.ip)
                 /\ \A m \in Live : fip[m].pool = r.pool /\ fip[m].spec = r.ip => m = k

\* While it searches, the Service has no FloatingIP of the pool; or it has the
\* one whose create was answered with an error, and then no other of the pool
\* has the address.
Unserved ==
    \A a \in Ask, p \in Handler :
        Steady(a) /\ h[p].pc \in Searching /\ h[p].req.who = a.who =>
            \A k \in ServiceHolds(a) \ lapsed : h[p].pc \in {"relist", "claim"} /\ OnlyFor(h[p].req, k)

AtMostOne == \A a \in Ask : Steady(a) => \A m, n \in ServiceHolds(a) \ lapsed : m = n

ServiceInv ==
    /\ ClaimInv /\ Asked /\ Labelled /\ Named /\ Grouped
    /\ PinnedObject /\ SteadyLabels /\ Unserved /\ AtMostOne

\* What a client asks for has these types.
LEMMA AskTypes ==
  ASSUME NEW a \in Ask
  PROVE  /\ a.who \in Client /\ a.pool \in Pool /\ a.ip \in Addr \cup {NoIP}
         /\ a.group \in Group \cup {None} /\ a.who.cluster # None
  BY APIAssumption

\* Requests stay what their clients ask for.
LEMMA NextAsked ==
  ASSUME TypeInv, Asked, Next
  PROVE  Asked'
<1> DEFINE Well(p) ==
        /\ h[p].pc \in Searching \cup {"find"} =>
              \E a \in Ask : /\ h[p].req.who = a.who /\ h[p].req.pool = a.pool
                             /\ h[p].req.ip = a.ip /\ h[p].req.group = a.group
        /\ h[p].pc \in {"list", "group", "cands", "new"} => h[p].req.ip = NoIP
<1> SUFFICES ASSUME NEW q \in Handler
             PROVE  Well(q)'
  BY DEF Asked
<1>k. h'[q] = h[q] => Well(q)'
  BY DEF Asked
<1>1. ASSUME Step(q) \/ GiveUp(q) \/ Abort(q)
      PROVE  Well(q)'
  <2>1. h'[q].pc \in Searching \cup {"find"} => Advances(q)
    BY <1>1, SearchSteps
  <2>2. Well(q)
    BY DEF Asked
  <2>3. ASSUME Advances(q)
        PROVE  Well(q)'
    <3>1. h[q].pc \in Searching \cup {"find"} /\ h'[q].req = h[q].req
      BY <2>3 DEF Advances, Searching, PinnedStep
    <3>2. h'[q].pc \in {"list", "group", "cands", "new"} => h[q].req.ip = NoIP
      BY <2>2, <2>3 DEF Advances
    <3> QED BY <2>2, <3>1, <3>2
  <2> QED BY <2>1, <2>3 DEF Searching
<1>2. ASSUME NEW r \in Questions, Begin(q, r)
      PROVE  Well(q)'
  <2>1. h'[q].pc \in {"find", "rlist", "dlist"} /\ h'[q].req = r
    BY <1>2, BeginSteps
  <2>2. h'[q].pc = First(r.op)
    BY <1>2 DEF Begin, Idle, TypeInv, TypeOK
  <2>3. r \in Request
    BY <1>2, BeginTypes
  <2>4. h'[q].pc = "find" => r.op = "request"
    BY <2>2, <2>3 DEF First, Request
  <2>5. r.op = "request" => \E a \in Ask : /\ r.who = a.who /\ r.pool = a.pool
                                           /\ r.ip = a.ip /\ r.group = a.group
    BY DEF Questions
  <2> QED BY <2>1, <2>4, <2>5 DEF Searching, PinnedStep
<1>3. ASSUME NEW p \in Handler \ {q}, Step(p) \/ GiveUp(p) \/ Abort(p)
      PROVE  Well(q)'
  BY <1>3, <1>k, OneHandler
<1>4. ASSUME NEW p \in Handler \ {q}, NEW r \in Questions, Begin(p, r)
      PROVE  Well(q)'
  BY <1>4, <1>k, BeginSteps
<1> QED BY <1>1, <1>2, <1>3, <1>4, <1>k, HandlerSteps

\* What an object is born with.
LEMMA NewObject ==
  ASSUME NEW r, NEW a, NEW new, new = NewFip(r, a)
  PROVE  /\ new.live /\ ~ new.del /\ new.cluster = r.who.cluster /\ new.svcs = {r.who.svc}
         /\ new.group = r.group /\ new.pool = r.pool /\ new.spec = a
  BY DEF NewFip, Gone

\* A birth is that of an object of the request, with the address in its spec
\* that its name is made of or with none.
LEMMA BornObject ==
  ASSUME NEW p \in Handler, NEW n \in Name, Born(p, n)
  PROVE  /\ h[p].req \in Request /\ h[p].pc \in {"create", "new"}
         /\ ~ fip'[n].del /\ fip'[n].cluster = h[p].req.who.cluster /\ fip'[n].svcs = {h[p].req.who.svc}
         /\ fip'[n].group = h[p].req.group /\ fip'[n].pool = h[p].req.pool
         /\ h[p].pc = "create" => fip'[n].spec = h[p].req.ip
         /\ fip'[n].spec \in Addr => n = specificFIPName(fip'[n].pool, fip'[n].spec)
         /\ \A q \in Pool, a \in Addr : n = specificFIPName(q, a) => fip'[n].pool = q /\ fip'[n].spec = a
<1>1. CASE h[p].pc = "create"
  <2>1. /\ h[p].req \in Request /\ h[p].req.ip \in Addr /\ h[p].req.pool \in Pool
        /\ n = specificFIPName(h[p].req.pool, h[p].req.ip) /\ fip'[n] = NewFip(h[p].req, h[p].req.ip)
    BY <1>1 DEF Born
  <2> QED BY <1>1, <2>1, NewObject, PinnedNames
<1>2. CASE h[p].pc # "create"
  <2>1. h[p].req \in Request /\ h[p].pc = "new" /\ n \in Gen /\ fip'[n] = NewFip(h[p].req, NoIP)
    BY <1>2 DEF Born
  <2> QED BY <2>1, NewObject, PinnedNames, APIAssumption
<1> QED BY <1>1, <1>2

\* Labels and names stay as they are to be.
LEMMA NextLabelled ==
  ASSUME TypeInv, Labelled, Named, Next
  PROVE  Labelled' /\ Named'
<1>1. ASSUME NEW n \in Name, fip'[n].live, fip'[n].cluster = None
      PROVE  fip'[n].svcs = {} /\ fip'[n].group = None
  <2>1. fip[n].live
    <3>1. SUFFICES ASSUME ~ fip[n].live
                   PROVE  FALSE
      OBVIOUS
    <3>2. PICK p \in Handler : Born(p, n)
      BY <1>1, <3>1, Births
    <3>3. h[p].req \in Request /\ fip'[n].cluster = h[p].req.who.cluster
      BY <3>2, BornObject
    <3> QED BY <1>1, <3>3, APIAssumption DEF Request
  <2>2. fip[n] \in FloatingIP /\ (fip[n].cluster = None => fip[n].svcs = {} /\ fip[n].group = None)
    BY <2>1 DEF Labelled, Live, TypeInv, TypeOK
  <2>3. ASSUME NEW p \in Handler, Claims(p, n)
        PROVE  FALSE
    <3>1. h[p].req \in Request /\ fip'[n].cluster = h[p].req.who.cluster
      BY <2>2, <2>3, ClaimWrites DEF Claims
    <3> QED BY <1>1, <3>1, APIAssumption DEF Request
  <2>4. ASSUME NEW p \in Handler, Releases(p, n)
        PROVE  fip'[n].svcs = {} /\ fip'[n].group = None
    <3>1. /\ fip'[n].svcs \subseteq fip[n].svcs
          /\ fip'[n].svcs = {} => fip'[n].group = None
          /\ fip'[n].svcs # {} => fip'[n].cluster = fip[n].cluster
      BY <2>1, <2>2, <2>4, ReleasesWrite, ReleaseWrites
    <3> QED BY <1>1, <2>2, <3>1
  <2> QED BY <1>1, <2>1, <2>2, <2>3, <2>4, LabelSteps DEF SameLabels
<1>2. ASSUME NEW q \in Pool, NEW a \in Addr, fip'[specificFIPName(q, a)].live
      PROVE  fip'[specificFIPName(q, a)].pool = q /\ fip'[specificFIPName(q, a)].spec = a
  <2> DEFINE n == specificFIPName(q, a)
  <2>1. n \in Name /\ a # NoIP
    BY PinnedNames, APIAssumption
  <2>2. CASE fip[n].live
    <3>1. fip[n].pool = q /\ fip[n].spec = a
      BY <2>2 DEF Named
    <3> QED BY <1>2, <2>1, <2>2, <3>1, SpecSteps
  <2>3. CASE ~ fip[n].live
    <3>1. PICK p \in Handler : Born(p, n)
      BY <1>2, <2>1, <2>3, Births
    <3> QED BY <2>1, <3>1, BornObject
  <2> QED BY <2>2, <2>3
<1> QED BY <1>1, <1>2 DEF Labelled, Named, Live

\* The request of a handler that claims or creates is one of the asks.
LEMMA WriterAsks ==
  ASSUME Asked, NEW p \in Handler, NEW n \in Name, Claims(p, n) \/ Born(p, n)
  PROVE  \E b \in Ask : b.who = h[p].req.who /\ b.group = h[p].req.group
<1>1. h[p].pc \in Searching
  BY DEF Claims, Born, Searching, PinnedStep
<1> QED BY <1>1 DEF Asked

\* Groups come from what the Services of the cluster ask for.
LEMMA NextGrouped ==
  ASSUME TypeInv, Asked, Labelled, Grouped, Next
  PROVE  Grouped'
<1> SUFFICES ASSUME NEW n \in Name, fip'[n].live, n \notin lapsed', fip'[n].group # None
             PROVE  \E b \in Ask : b.who.cluster = fip'[n].cluster /\ b.group = fip'[n].group
  BY DEF Grouped, Live
<1>a. n \notin lapsed /\ ~ GroupTakeover(n) /\ fip[n] \in FloatingIP
  BY DEF Next, TypeInv, TypeOK
<1>1. CASE ~ fip[n].live
  <2>1. PICK p \in Handler : Born(p, n)
    BY <1>1, Births
  <2> QED BY <2>1, BornObject, WriterAsks
<1>2. CASE fip[n].live
  <2>1. fip[n].group # None => \E b \in Ask : b.who.cluster = fip[n].cluster /\ b.group = fip[n].group
    BY <1>2, <1>a DEF Grouped, Live
  <2>2. fip[n].cluster = None => fip[n].group = None
    BY <1>2 DEF Labelled, Live
  <2>3. ASSUME NEW p \in Handler, Claims(p, n)
        PROVE  \E b \in Ask : b.who.cluster = fip'[n].cluster /\ b.group = fip'[n].group
    <3>1. /\ fip'[n].cluster = h[p].req.who.cluster
          /\ fip'[n].group = IF h[p].req.group # None THEN h[p].req.group ELSE fip[n].group
      BY <1>a, <2>3, ClaimWrites DEF Claims
    <3>2. fip[n].cluster \in {None, h[p].req.who.cluster}
      BY <1>a, <2>3 DEF Claims
    <3>3. CASE h[p].req.group # None
      BY <2>3, <3>1, <3>3, WriterAsks
    <3>4. CASE h[p].req.group = None
      BY <2>1, <2>2, <3>1, <3>2, <3>4
    <3> QED BY <3>3, <3>4
  <2>4. ASSUME NEW p \in Handler, Releases(p, n)
        PROVE  fip'[n].cluster = fip[n].cluster /\ fip'[n].group = fip[n].group
    BY <1>2, <1>a, <2>4, ReleasesWrite, ReleaseWrites
  <2> QED BY <1>2, <2>1, <2>3, <2>4, LabelSteps DEF SameLabels
<1> QED BY <1>1, <1>2

\* The address of the object that is about to be claimed stays.
LEMMA NextPinnedObject ==
  ASSUME TypeInv, Named, PinnedObject, Next
  PROVE  PinnedObject'
<1> SUFFICES ASSUME NEW q \in Handler, h'[q].pc = "claim"
             PROVE  /\ fip'[h'[q].obj].live => fip'[h'[q].obj].spec = h'[q].req.ip
                    /\ \/ \E x \in Pool : h'[q].obj = specificFIPName(x, h'[q].req.ip)
                       \/ h'[q].obj \in Gen /\ fip'[h'[q].obj] # Gone
  BY DEF PinnedObject
<1> DEFINE n == h'[q].obj
<1>1. CASE h'[q] = h[q]
  <2>1. n \in Name /\ h[q].req.ip \in Addr /\ h[q].req.ip # NoIP
    BY <1>1, APIAssumption DEF TypeInv, TypeOK, OnObject, Requests, PinnedStep
  <2>2. /\ fip[n].live => fip[n].spec = h[q].req.ip
        /\ (\E x \in Pool : n = specificFIPName(x, h[q].req.ip)) \/ (n \in Gen /\ fip[n] # Gone)
    BY <1>1 DEF PinnedObject
  <2>3. (\E x \in Pool : n = specificFIPName(x, h[q].req.ip)) \/ (n \in Gen /\ fip'[n] # Gone)
    BY <2>2, UsedStays
  <2>4. ASSUME fip'[n].live
        PROVE  fip'[n].spec = h[q].req.ip
    <3>1. CASE fip[n].live
      BY <2>1, <2>2, <2>4, <3>1, SpecSteps
    <3>2. CASE ~ fip[n].live
      <4>1. PICK p \in Handler : Born(p, n)
        BY <2>1, <2>4, <3>2, Births
      <4>2. n \in Gen => fip[n] = Gone
        BY <4>1, PinnedNames DEF Born
      <4> QED BY <2>1, <2>2, <4>1, <4>2, BornObject
    <3> QED BY <3>1, <3>2
  <2> QED BY <1>1, <2>3, <2>4
<1>2. CASE Advances(q)
  <2>1. n \in Live /\ fip[n].spec = h[q].req.ip /\ UNCHANGED fip /\ h'[q].req = h[q].req
    BY <1>2 DEF Advances
  <2>2. n \notin Gen => \E x \in Pool : n = specificFIPName(x, h[q].req.ip)
    BY <2>1, OtherNames DEF Named, Live
  <2>3. n \in Gen => fip[n] # Gone
    BY <2>1, ObjectTypes DEF Live
  <2> QED BY <2>1, <2>2, <2>3 DEF Live
<1> QED BY <1>1, <1>2, SearchersMove DEF Searching, PinnedStep

\* An object that has the claim of c, and has not lapsed, had it before the step,
\* unless a handler of c claims it.
LEMMA HadClaim ==
  ASSUME TypeInv, Labelled, Next, NEW c \in Client, NEW n \in Name, n \notin lapsed',
         fip[n].live, fip'[n].live, Has(c, fip'[n]),
         \A p \in Handler : Claims(p, n) => h[p].req.who # c
  PROVE  Has(c, fip[n])
<1>t. fip[n] \in FloatingIP /\ c.cluster # None
  BY APIAssumption DEF TypeInv, TypeOK
<1>1. ASSUME NEW p \in Handler, Claims(p, n)
      PROVE  Has(c, fip[n])
  <2>1. h[p].req \in Request /\ h[p].req.who \in Client /\ h[p].req.who # c
    BY <1>1 DEF Claims, Request
  <2>2. fip'[n].cluster = h[p].req.who.cluster /\ fip'[n].svcs = fip[n].svcs \cup {h[p].req.who.svc}
    BY <1>1, <1>t, ClaimWrites DEF Claims
  <2>3. h[p].req.who.svc # c.svc
    BY <2>1, <2>2, APIAssumption DEF Has
  <2>4. c.svc \in fip[n].svcs
    BY <2>2, <2>3 DEF Has
  <2>5. fip[n].cluster # None
    BY <2>4 DEF Labelled, Live
  <2>6. ~ GroupTakeover(n)
    BY DEF Next
  <2> QED BY <1>1, <2>2, <2>4, <2>5, <2>6 DEF Claims, Has
<1>2. ASSUME NEW p \in Handler, Releases(p, n)
      PROVE  Has(c, fip[n])
  <2>1. /\ fip'[n].svcs \subseteq fip[n].svcs
        /\ fip'[n].svcs # {} => fip'[n].cluster = fip[n].cluster
    BY <1>2, <1>t, ReleasesWrite, ReleaseWrites
  <2> QED BY <2>1 DEF Has
<1> QED BY <1>1, <1>2, LabelSteps DEF SameLabels, Has

\* A request of a Service that always asks the same asks for that.
LEMMA SteadyAsks ==
  ASSUME Asked, NEW a \in Ask, Steady(a), NEW p \in Handler,
         h[p].pc \in Searching \cup {"find"}, h[p].req.who = a.who
  PROVE  h[p].req.pool = a.pool /\ h[p].req.ip = a.ip /\ h[p].req.group = a.group
<1>1. PICK b \in Ask : /\ h[p].req.who = b.who /\ h[p].req.pool = b.pool
                       /\ h[p].req.ip = b.ip /\ h[p].req.group = b.group
  BY DEF Asked
<1>2. b = a
  BY <1>1 DEF Steady
<1> QED BY <1>1, <1>2

\* An object is born with the claim of the client that asked for it.
LEMMA BornFor ==
  ASSUME NEW p \in Handler, NEW n \in Name, Born(p, n), NEW c \in Client, Has(c, fip'[n])
  PROVE  h[p].req.who = c
<1>1. h[p].req.who \in Client /\ h[p].req.who.cluster = c.cluster /\ h[p].req.who.svc = c.svc
  BY BornObject DEF Request, Has
<1> QED BY <1>1, APIAssumption

\* What a Service claims stays what it asks for.
LEMMA NextSteadyLabels ==
  ASSUME ServiceInv, Next
  PROVE  SteadyLabels'
<1>t. TypeInv /\ Asked /\ Labelled /\ Grouped /\ PinnedObject /\ SteadyLabels
  BY DEF ServiceInv, ClaimInv
<1> SUFFICES ASSUME NEW a \in Ask, Steady(a), NEW n \in Name, fip'[n].live, n \notin lapsed', Has(a.who, fip'[n])
             PROVE  /\ a.ip # NoIP => fip'[n].spec = a.ip
                    /\ fip'[n].group = a.group
  BY DEF SteadyLabels, Live, Steady
<1>a. a.who \in Client /\ n \notin lapsed /\ ~ GroupTakeover(n) /\ fip[n] \in FloatingIP
  BY <1>t, AskTypes DEF Next, TypeInv, TypeOK
<1> DEFINE Goal == /\ a.ip # NoIP => fip'[n].spec = a.ip
                   /\ fip'[n].group = a.group
<1>1. CASE ~ fip[n].live
  <2>1. PICK p \in Handler : Born(p, n)
    BY <1>1, <1>t, Births
  <2>2. h[p].pc \in Searching /\ h[p].req.who = a.who
    BY <1>a, <2>1, BornFor DEF Born, Searching, PinnedStep
  <2>3. h[p].req.ip = a.ip /\ h[p].req.group = a.group
    BY <1>t, <2>2, SteadyAsks
  <2>4. /\ h[p].pc \in {"create", "new"} /\ fip'[n].group = h[p].req.group
        /\ h[p].pc = "create" => fip'[n].spec = h[p].req.ip
    BY <2>1, BornObject
  <2>5. h[p].pc = "new" => h[p].req.ip = NoIP
    BY <1>t DEF Asked
  <2> QED BY <2>3, <2>4, <2>5
<1>2. ASSUME fip[n].live, Has(a.who, fip[n])
      PROVE  Goal
  <2>1. /\ a.ip # NoIP => fip[n].spec = a.ip
        /\ fip[n].group = a.group
    BY <1>2, <1>a, <1>t DEF SteadyLabels, Live
  <2>2. a.ip # NoIP => fip'[n].spec = a.ip
    BY <1>2, <1>t, <2>1, SpecSteps
  <2>3. ASSUME NEW p \in Handler, Claims(p, n)
        PROVE  fip'[n].group = a.group
    <3>1. /\ fip'[n].cluster = h[p].req.who.cluster
          /\ fip'[n].group = IF h[p].req.group # None THEN h[p].req.group ELSE fip[n].group
      BY <1>a, <2>3, ClaimWrites DEF Claims
    <3>2. PICK b \in Ask : h[p].req.who = b.who /\ h[p].req.group = b.group
      BY <1>t, <2>3, WriterAsks
    <3>3. b.group \in {a.group, None}
      BY <3>1, <3>2 DEF Steady, Has
    <3> QED BY <2>1, <3>1, <3>2, <3>3
  <2>4. ASSUME NEW p \in Handler, Releases(p, n)
        PROVE  fip'[n].group = fip[n].group
    <3>1. fip'[n].svcs # {} => fip'[n].group = fip[n].group
      BY <1>2, <1>a, <1>t, <2>4, ReleasesWrite, ReleaseWrites
    <3> QED BY <3>1 DEF Has
  <2>5. fip'[n].group = a.group
    BY <1>2, <1>t, <2>1, <2>3, <2>4, LabelSteps DEF SameLabels
  <2> QED BY <2>2, <2>5
<1>3. ASSUME fip[n].live, NEW p \in Handler, Claims(p, n), h[p].req.who = a.who
      PROVE  Goal
  <2>1. h[p].pc \in Searching /\ h[p].req \in Request
    BY <1>3 DEF Claims, Searching, PinnedStep
  <2>2. h[p].req.ip = a.ip /\ h[p].req.group = a.group
    BY <1>3, <1>t, <2>1, SteadyAsks
  <2>3. /\ fip'[n].spec = fip[n].spec
        /\ fip'[n].group = IF a.group # None THEN a.group ELSE fip[n].group
    BY <1>3, <1>a, <2>1, <2>2, ClaimWrites DEF Claims
  <2>4. a.ip # NoIP => h[p].pc = "claim" /\ h[p].obj = n
    BY <1>3, <1>t, <2>2 DEF Claims, Asked
  <2>5. h[p].pc = "claim" /\ h[p].obj = n => fip[n].spec = a.ip
    BY <1>3, <1>t, <2>2 DEF PinnedObject
  <2>6. ASSUME fip[n].group # None
        PROVE  fip[n].group \in {a.group, None}
    <3>1. PICK b \in Ask : b.who.cluster = fip[n].cluster /\ b.group = fip[n].group
      BY <1>3, <1>a, <1>t, <2>6 DEF Grouped, Live
    <3>2. fip[n].cluster = a.who.cluster
      BY <1>3, <1>a, <1>t, <2>6 DEF Claims, Labelled, Live
    <3> QED BY <3>1, <3>2 DEF Steady
  <2> QED BY <2>3, <2>4, <2>5, <2>6
<1> QED BY <1>1, <1>2, <1>3, <1>a, <1>t, HadClaim

\* A Service comes to have a FloatingIP when one of its requests claims or
\* creates it, and not otherwise.
LEMMA Joins ==
  ASSUME ServiceInv, Next, NEW a \in Ask, NEW n \in Name,
         n \in ServiceHolds(a)' \ lapsed', n \notin ServiceHolds(a)
  PROVE  /\ fip'[n] # fip[n]
         /\ \E p \in Handler : h[p].req.who = a.who /\ (Claims(p, n) \/ Born(p, n))
<1>t. TypeInv /\ Labelled
  BY DEF ServiceInv, ClaimInv
<1>n. /\ fip'[n].live /\ ~ fip'[n].del /\ fip'[n].pool = a.pool /\ Has(a.who, fip'[n])
      /\ n \notin lapsed' /\ a.who \in Client /\ fip[n] \in FloatingIP
  BY <1>t, AskTypes DEF ServiceHolds, Claimed, Live, Has, TypeInv, TypeOK
<1>d. fip'[n] # fip[n]
  BY <1>n DEF ServiceHolds, Claimed, Live, Has
<1>1. CASE ~ fip[n].live
  <2>1. PICK p \in Handler : Born(p, n)
    BY <1>1, <1>n, <1>t, Births
  <2> QED BY <1>n, <1>d, <2>1, BornFor
<1>2. ASSUME fip[n].live, \A p \in Handler : Claims(p, n) => h[p].req.who # a.who
      PROVE  FALSE
  <2>1. Has(a.who, fip[n])
    BY <1>2, <1>n, <1>t, HadClaim
  <2>2. fip[n].pool = a.pool
    BY <1>2, <1>n, <1>t, SpecSteps
  <2>3. fip[n].del
    BY <1>2, <2>1, <2>2 DEF ServiceHolds, Claimed, Live, Has
  <2>4. ASSUME NEW p \in Handler, Claims(p, n)
        PROVE  fip'[n].del
    BY <1>n, <2>3, <2>4, ClaimWrites DEF Claims
  <2>5. ASSUME NEW p \in Handler, Releases(p, n)
        PROVE  fip'[n].del
    BY <1>2, <1>n, <1>t, <2>3, <2>5, ReleasesWrite, ReleaseWrites
  <2> QED BY <1>2, <1>n, <1>t, <2>3, <2>4, <2>5, LabelSteps DEF SameLabels
<1> QED BY <1>1, <1>2, <1>d

\* The request by which a Service comes to have a FloatingIP was searching.
LEMMA JoinerSearches ==
  ASSUME NEW p \in Handler, NEW n \in Name, Claims(p, n) \/ Born(p, n)
  PROVE  /\ h[p].pc \in Searching /\ Waits(p) /\ h[p].pc # "relist"
         /\ h[p].pc = "claim" => h[p].obj = n /\ Claims(p, n)
  BY DEF Claims, Born, Searching, PinnedStep, Waits

\* A Service that has a FloatingIP of the pool claims no other of it.
LEMMA NextAtMostOne ==
  ASSUME ServiceInv, Next
  PROVE  AtMostOne'
<1>t. TypeInv /\ Asked /\ PinnedObject /\ Unserved /\ AtMostOne
  BY DEF ServiceInv, ClaimInv
<1> SUFFICES ASSUME NEW a \in Ask, Steady(a),
                    NEW m \in ServiceHolds(a)' \ lapsed', NEW n \in ServiceHolds(a)' \ lapsed'
             PROVE  m = n
  BY DEF AtMostOne, Steady
<1>n. m \in Name /\ n \in Name /\ m \notin lapsed /\ n \notin lapsed
  BY DEF ServiceHolds, Claimed, Live, Next
<1>1. ASSUME NEW x \in Name, NEW y \in Name, x \in ServiceHolds(a) \ lapsed,
             y \in ServiceHolds(a)' \ lapsed', y \notin ServiceHolds(a)
      PROVE  x = y
  <2>1. PICK p \in Handler : h[p].req.who = a.who /\ (Claims(p, y) \/ Born(p, y))
    BY <1>1, Joins
  <2>2. /\ h[p].pc \in Searching /\ h[p].pc # "relist"
        /\ h[p].pc = "claim" => h[p].obj = y /\ Claims(p, y)
    BY <1>1, <2>1, JoinerSearches
  <2>3. h[p].pc = "claim" /\ OnlyFor(h[p].req, x)
    BY <1>1, <1>t, <2>1, <2>2 DEF Unserved
  <2>4. h[p].req.pool = a.pool
    BY <1>t, <2>1, <2>2, SteadyAsks
  <2>5. fip[y].live
    <3>1. fip'[y].live /\ fip'[y] = applyFIPRequestLabels(fip[y], h[p].req) /\ fip[y] \in FloatingIP
      BY <1>1, <1>t, <2>2, <2>3 DEF Claims, ServiceHolds, Claimed, Live, TypeInv, TypeOK
    <3> QED BY <3>1 DEF applyFIPRequestLabels, FloatingIP
  <2>6. fip[y].pool = a.pool
    BY <1>1, <1>t, <2>5, SpecSteps DEF ServiceHolds, Claimed, Live
  <2>7. fip[y].spec = h[p].req.ip
    BY <1>t, <2>2, <2>3, <2>5 DEF PinnedObject
  <2> QED BY <2>3, <2>4, <2>5, <2>6, <2>7 DEF OnlyFor, Live
<1>2. CASE m \in ServiceHolds(a) /\ n \in ServiceHolds(a)
  BY <1>2, <1>n, <1>t DEF AtMostOne
<1>3. CASE m \notin ServiceHolds(a) /\ n \notin ServiceHolds(a)
  BY <1>3, <1>n, <1>t, Joins, OneObject
<1> QED BY <1>1, <1>2, <1>3, <1>n

\* While a Service searches it has nothing, or what its lost create has left.
LEMMA NextUnserved ==
  ASSUME ServiceInv, Next
  PROVE  Unserved'
<1>t. TypeInv /\ Serial /\ Asked /\ Named /\ SteadyLabels /\ Unserved
  BY DEF ServiceInv, ClaimInv
<1> SUFFICES ASSUME NEW a \in Ask, Steady(a), NEW q \in Handler, h'[q].pc \in Searching,
                    h'[q].req.who = a.who, NEW k \in ServiceHolds(a)' \ lapsed'
             PROVE  /\ h'[q].pc \in {"relist", "claim"}
                    /\ k = specificFIPName(h'[q].req.pool, h'[q].req.ip)
                    /\ \A m \in Name : fip'[m].live /\ fip'[m].pool = h'[q].req.pool /\ fip'[m].spec = h'[q].req.ip
                                          => m = k
  BY DEF Unserved, OnlyFor, Live, Steady
<1> DEFINE Goal == /\ h'[q].pc \in {"relist", "claim"}
                   /\ k = specificFIPName(h'[q].req.pool, h'[q].req.ip)
                   /\ \A m \in Name : fip'[m].live /\ fip'[m].pool = h'[q].req.pool /\ fip'[m].spec = h'[q].req.ip
                                         => m = k
<1>n. k \in Name /\ k \notin lapsed
  BY DEF ServiceHolds, Claimed, Live, Next
<1>q. h'[q] = h[q] \/ Advances(q)
  BY <1>t, SearchersMove
<1>w. /\ Waits(q) /\ h'[q].req = h[q].req /\ h[q].req.who = a.who
      /\ h[q].pc \in Searching \cup {"find"}
  BY <1>q DEF Advances, Searching, PinnedStep, Waits
<1>p. h[q].req.pool = a.pool /\ h[q].req.ip = a.ip /\ h[q].req.group = a.group
  BY <1>t, <1>w, SteadyAsks
<1>1. CASE k \in ServiceHolds(a)
  <2>1. fip[k].live /\ ~ fip[k].del /\ fip[k].pool = a.pool /\ Has(a.who, fip[k])
    BY <1>1 DEF ServiceHolds, Claimed, Live, Has
  <2>u. ASSUME h[q].pc \in Searching
        PROVE  h[q].pc \in {"relist", "claim"} /\ OnlyFor(h[q].req, k)
    BY <1>1, <1>n, <1>t, <1>w, <2>u DEF Unserved
  <2>2. CASE h'[q] = h[q]
    <3>0. h[q].pc \in {"relist", "claim"} /\ OnlyFor(h[q].req, k)
      BY <2>2, <2>u
    <3>1. /\ h[q].req.ip \in Addr /\ h[q].req.pool \in Pool
          /\ k = specificFIPName(h[q].req.pool, h[q].req.ip) /\ fip[k].spec = h[q].req.ip
      BY <1>t, <2>1, <3>0 DEF TypeInv, Requests, Searching, PinnedStep, Named, OnlyFor
    <3>2. ASSUME NEW m \in Name, fip'[m].live, fip'[m].pool = h[q].req.pool, fip'[m].spec = h[q].req.ip
          PROVE  m = k
      <4>1. CASE ~ fip[m].live
        <5>1. PICK p \in Handler : Born(p, m)
          BY <1>t, <3>2, <4>1, Births
        <5> QED BY <3>1, <3>2, <5>1, BornObject
      <4>2. CASE fip[m].live
        <5>1. /\ fip'[m].pool = fip[m].pool
              /\ fip'[m].spec # fip[m].spec =>
                    \A x \in Live \ {m} : fip[x].pool = fip[m].pool => fip[x].spec # fip'[m].spec
          BY <1>t, <3>2, <4>2, SpecSteps
        <5>2. fip[m].spec = h[q].req.ip => m = k
          BY <3>0, <3>2, <4>2, <5>1 DEF OnlyFor, Live
        <5>3. k \in Live /\ fip[k].pool = fip[m].pool /\ fip[k].spec = fip'[m].spec
          BY <1>n, <1>p, <2>1, <3>1, <3>2, <5>1 DEF Live
        <5> QED BY <3>2, <5>1, <5>2, <5>3
      <4> QED BY <4>1, <4>2
    <3> QED BY <1>w, <2>2, <3>0, <3>1, <3>2
  <2>3. CASE Advances(q)
    <3>1. h[q].pc # "find"
      <4>1. SUFFICES ASSUME h[q].pc = "find"
                     PROVE  FALSE
        OBVIOUS
      <4>2. (a.ip # NoIP => fip[k].spec = a.ip) /\ fip[k].group = a.group
        BY <1>n, <1>t, <2>1 DEF SteadyLabels, Live
      <4>3. k \in ServiceFIPs(h[q].req)
        BY <1>n, <1>w, <1>p, <2>1, <4>2 DEF ServiceFIPs, serviceAlreadyExists, Has, Live
      <4> QED BY <2>3, <4>1, <4>3 DEF Advances
    <3>2. h[q].pc \in {"relist", "claim"} /\ OnlyFor(h[q].req, k)
      BY <1>w, <2>u, <3>1
    <3>3. h'[q].pc = "claim" /\ UNCHANGED fip
      BY <2>3, <3>2 DEF Advances
    <3> QED BY <1>w, <3>2, <3>3 DEF OnlyFor, Live
  <2> QED BY <1>q, <2>2, <2>3
<1>2. CASE k \notin ServiceHolds(a)
  <2>1. PICK p \in Handler : h[p].req.who = a.who /\ (Claims(p, k) \/ Born(p, k))
    BY <1>2, <1>n, Joins
  <2>2. fip'[k] # fip[k]
    BY <1>2, <1>n, Joins
  <2>3. p = q
    BY <1>n, <1>t, <1>w, <2>1, JoinerSearches DEF Serial
  <2>4. /\ h'[q].pc = "relist" /\ k = specificFIPName(h[q].req.pool, h[q].req.ip)
        /\ Free(h[q].req.pool, h[q].req.ip)
    BY <2>1, <2>3 DEF Claims, Born, Searching, PinnedStep
  <2>6. ASSUME NEW m \in Name, fip'[m].live, fip'[m].pool = h[q].req.pool, fip'[m].spec = h[q].req.ip, m # k
        PROVE  FALSE
    <3>1. fip'[m] = fip[m]
      BY <1>n, <1>t, <2>2, <2>6, OneObject
    <3> QED BY <2>4, <2>6, <3>1 DEF Free, Live
  <2> QED BY <1>w, <2>4, <2>6
<1> QED BY <1>1, <1>2

\* Nobody has asked yet, and no FloatingIP has a claim.
LEMMA InitService == Init => ServiceInv
<1> SUFFICES ASSUME Init
             PROVE  ServiceInv
  OBVIOUS
<1>1. \A p \in Handler : h[p].pc = "idle"
  BY DEF Init, Idle
<1>2. PICK place \in [Preset -> Pool \X Addr] :
         fip = [n \in Name |-> IF n \in Preset THEN PresetFip(place[n]) ELSE Gone]
  BY DEF Init
<1>3. \A n \in Name : fip[n].svcs = {} /\ fip[n].group = None
  BY <1>2 DEF PresetFip, Gone
<1>4. \A n \in Name \ Gen : ~ fip[n].live
  BY <1>2, APIAssumption DEF Gone
<1>5. Asked /\ PinnedObject /\ Unserved
  BY <1>1 DEF Asked, PinnedObject, Unserved, Searching, PinnedStep
<1>6. Labelled /\ Grouped /\ SteadyLabels /\ AtMostOne
  BY <1>3 DEF Labelled, Grouped, SteadyLabels, AtMostOne, ServiceHolds, Claimed, Live, Has
<1>7. Named
  BY <1>4, PinnedNames DEF Named
<1> QED BY <1>5, <1>6, <1>7, InitClaims DEF ServiceInv

\* The inductive invariant of the Services' FloatingIPs.
THEOREM ServicesHold == Spec => []ServiceInv
<1>1. ServiceInv /\ UNCHANGED vars => ServiceInv'
  <2> SUFFICES ASSUME ServiceInv, UNCHANGED vars
               PROVE  ServiceInv'
    OBVIOUS
  <2>1. ClaimInv'
    BY NextTypes DEF ServiceInv, ClaimInv, Serial, Waits, Released, WorkClaims, HeldClaims, vars
  <2>2. Asked' /\ Labelled' /\ Named' /\ Grouped' /\ PinnedObject' /\ SteadyLabels' /\ Unserved' /\ AtMostOne'
    BY DEF ServiceInv, Asked, Labelled, Named, Grouped, PinnedObject, SteadyLabels, Unserved, OnlyFor,
           AtMostOne, ServiceHolds, Claimed, Steady, Live, vars
  <2> QED BY <2>1, <2>2 DEF ServiceInv
<1>2. ServiceInv /\ Next => ServiceInv'
  <2> SUFFICES ASSUME ServiceInv, Next
               PROVE  ServiceInv'
    OBVIOUS
  <2>1. ClaimInv'
    BY NextTypes, NextSerial, NextReleased, NextWorkClaims, NextHeldClaims DEF ServiceInv, ClaimInv
  <2>2. TypeInv /\ Asked /\ Labelled /\ Named /\ Grouped /\ PinnedObject
    BY DEF ServiceInv, ClaimInv
  <2> QED BY <2>1, <2>2, NextAsked, NextLabelled, NextGrouped, NextPinnedObject, NextSteadyLabels, NextUnserved,
             NextAtMostOne DEF ServiceInv
<1> QED BY <1>1, <1>2, InitService, PTL DEF Spec

\* A Service that always asks the same, in a cluster where nobody asks for a
\* group that it does not ask for, never has two FloatingIPs of the pool it asks
\* for, whatever groups they have come to: however often a create loses its
\* answer, a client gives up and asks again, and others claim and release
\* meanwhile, except by the two overtakings that lapsed records.
THEOREM OneFIPAlways == Spec => []OneFIPPerService
<1>1. ASSUME AtMostOne
      PROVE  OneFIPPerService
  <2> SUFFICES ASSUME NEW a \in Ask, Steady(a)
               PROVE  Cardinality(ServiceHolds(a) \ lapsed) <= 1
    BY DEF OneFIPPerService
  <2>1. \A m, n \in ServiceHolds(a) \ lapsed : m = n
    BY <1>1 DEF AtMostOne
  <2>2. CASE ServiceHolds(a) \ lapsed = {}
    BY <2>2, FS_EmptySet
  <2>3. ASSUME NEW n \in ServiceHolds(a) \ lapsed
        PROVE  Cardinality(ServiceHolds(a) \ lapsed) <= 1
    <3>1. ServiceHolds(a) \ lapsed = {n}
      BY <2>1
    <3>2. Cardinality({n}) = 1
      BY FS_Singleton
    <3> QED BY <3>1, <3>2
  <2> QED BY <2>2, <2>3
<1>2. ServiceInv => OneFIPPerService
  BY <1>1 DEF ServiceInv
<1> QED BY <1>2, ServicesHold, PTL

=============================================================================
