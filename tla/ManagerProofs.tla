---------------------------- MODULE ManagerProofs ----------------------------
(***************************************************************************)
(* Proofs about the manager, for any sets of FloatingIPs, addresses,       *)
(* workers and pool configurations, and for any number of edits, deletions,*)
(* pool operations, faults and restarts.                                   *)
(***************************************************************************)
EXTENDS Manager, FiniteSetTheorems, TLAPS

-----------------------------------------------------------------------------
(* The inductive invariant                                                 *)

\* A key is in the hands of one worker.
Keys ==
    /\ \A w \in Worker : workers[w].pc = "idle" <=> workers[w].key = NoOwner
    /\ \A v, w \in Worker : v # w /\ workers[v].key = workers[w].key => workers[v].key = NoOwner
    /\ \A w \in Worker : workers[w].pc \in {"spec", "status", "pool"} => workers[w].ip \in Addr

\* What a copy says is what the object says, as long as its version is the
\* current one.
Copies ==
    /\ \A f \in Owner : cfresh[f] => cache[f] = fip[f]
    /\ \A w \in Worker :
          workers[w].fresh =>
              /\ workers[w].key \in Owner
              /\ cfresh[workers[w].key]
              /\ fip[workers[w].key].live
              /\ workers[w].pc \in {"release", "delpool", "rmfin"} => fip[workers[w].key].del
              /\ workers[w].pc = "spec" => fip[workers[w].key].status = NoIP

\* A FloatingIP that the cache shows with our finalizer, and not terminating,
\* cannot have gone meanwhile.
Objects ==
    \A f \in Owner :
        /\ ~ fip[f].live => fip[f] = Gone
        /\ cache[f].live /\ ~ cache[f].del /\ cache[f].fin => fip[f].live /\ fip[f].fin

\* Claims are of FloatingIPs that have the finalizer; none is left when it is
\* about to be removed.
Claims ==
    /\ \A f \in Owner : OwnedBy(ipam, f) # {} => fip[f].live /\ fip[f].fin
    /\ \A w \in Worker : workers[w].pc = "rmfin" => OwnedBy(ipam, workers[w].key) = {}

\* An address is about to be told to a FloatingIP that has none.
Untold == \A w \in Worker : workers[w].pc = "status" => fip[workers[w].key].status = NoIP

MInv == TypeOK /\ IsFiniteSet(ipam.ips) /\ Keys /\ Copies /\ Objects /\ Claims /\ Untold
-----------------------------------------------------------------------------
(* The allocator's methods                                                 *)

Fit(s) == s \in Subnet /\ s.used \subseteq s.ips /\ IsFiniteSet(s.ips)

\* Address a is f's claim.
ClaimOf(f, a) == a \in ipam.used /\ ipam.owners[a] = f

\* t has no claims that s does not have.
NoNewClaims(s, t) == \A f \in Owner : OwnedBy(t, f) \subseteq OwnedBy(s, f)

\* A subnet that is not there has no claims.
LEMMA AbsentFits == Fit(Absent) /\ \A f \in Owner : OwnedBy(Absent, f) = {}
<1>1. IsFiniteSet({})
  BY FS_EmptySet
<1> QED BY <1>1, OwnerAssumption DEF Fit, Absent, Subnet, OwnedBy

\* What GetIPOwned grants is an address of the subnet, and the claim is the
\* owner's.
LEMMA ClaimFits ==
  ASSUME NEW s, Fit(s), NEW f \in Owner, NEW given \in IPOrNone, NEW a \in GetIPOwned(s, given, f)
  PROVE  /\ a \in Addr
         /\ Fit(Claim(s, a, f)) /\ a \in Claim(s, a, f).used /\ Claim(s, a, f).owners[a] = f
         /\ \A g \in Owner \ {f} : OwnedBy(Claim(s, a, f), g) \subseteq OwnedBy(s, g)
<1>1. a \in s.ips /\ a \in Addr
  BY DEF GetIPOwned, getIP, Free, Fit, Subnet
<1> DEFINE o == [s.owners EXCEPT ![a] = f]
           t == [s EXCEPT !.used = s.used \cup {a}, !.owners = o]
<1>2. o \in [Addr -> Owner \cup {NoOwner}] /\ \A b \in Addr : o[b] = IF b = a THEN f ELSE s.owners[b]
  BY <1>1 DEF Fit, Subnet
<1>3. Claim(s, a, f) = t
  BY DEF Claim
<1> HIDE DEF o
<1>4. t \in Subnet /\ t.ips = s.ips /\ t.used = s.used \cup {a} /\ t.owners = o
  BY <1>1, <1>2 DEF Fit, Subnet
<1> HIDE DEF t
<1> QED BY <1>1, <1>2, <1>3, <1>4 DEF Fit, OwnedBy

\* A release makes no claims.
LEMMA ReleaseFits ==
  ASSUME NEW s, Fit(s), NEW a
  PROVE  Fit(releaseIP(s, a)) /\ NoNewClaims(s, releaseIP(s, a))
<1> DEFINE o == [s.owners EXCEPT ![a] = NoOwner]
           t == [s EXCEPT !.used = s.used \ {a}, !.owners = o]
<1>2. o \in [Addr -> Owner \cup {NoOwner}] /\ \A b \in Addr : o[b] = IF b = a THEN NoOwner ELSE s.owners[b]
  BY DEF Fit, Subnet
<1>3. releaseIP(s, a) = t
  BY DEF releaseIP
<1> HIDE DEF o
<1>4. t \in Subnet /\ t.ips = s.ips /\ t.used = s.used \ {a} /\ t.owners = o
  BY <1>2 DEF Fit, Subnet
<1> HIDE DEF t
<1> QED BY <1>2, <1>3, <1>4, OwnerAssumption DEF Fit, OwnedBy, NoNewClaims

\* The sweep leaves no claim of the owner.
LEMMA SweepFits ==
  ASSUME NEW s, Fit(s), NEW f \in Owner
  PROVE  /\ Fit(ReleaseAllByOwner(s, f)) /\ NoNewClaims(s, ReleaseAllByOwner(s, f))
         /\ OwnedBy(ReleaseAllByOwner(s, f), f) = {}
<1> DEFINE o == [a \in Addr |-> IF s.owners[a] = f THEN NoOwner ELSE s.owners[a]]
           u == s.used \ (OwnedBy(s, f) \cap s.ips)
           t == [s EXCEPT !.used = u, !.owners = o]
<1>2. o \in [Addr -> Owner \cup {NoOwner}] /\ \A b \in Addr : o[b] = IF s.owners[b] = f THEN NoOwner ELSE s.owners[b]
  BY DEF Fit, Subnet
<1>3. ReleaseAllByOwner(s, f) = t
  BY DEF ReleaseAllByOwner
<1>u. u \subseteq s.used
  OBVIOUS
<1> HIDE DEF o, u
<1>4. t \in Subnet /\ t.ips = s.ips /\ t.used = u /\ t.owners = o
  BY <1>2, <1>u DEF Fit, Subnet
<1> HIDE DEF t
<1> QED BY <1>2, <1>3, <1>4, <1>u, OwnerAssumption DEF Fit, OwnedBy, NoNewClaims

\* A refresh carries claims over and makes none.
LEMMA RefreshFits ==
  ASSUME NEW s, Fit(s), NEW c \in Config, NEW ex, NEW al
  PROVE  Fit(Refreshed(s, c, ex, al)) /\ NoNewClaims(s, Refreshed(s, c, ex, al))
<1> DEFINE r    == {a \in Addr : c.start <= a /\ a <= c.end}
           b    == [Absent EXCEPT !.ips = r]
           kept == Carried(s, b)
           u    == (ex \cup al \cup kept) \cap r
           o    == [a \in Addr |-> IF a \in kept THEN s.owners[a] ELSE NoOwner]
<1>1. r \subseteq Addr /\ IsFiniteSet(r)
  <2>a. \A a \in Addr : a \in Nat
    BY AddrAssumption
  <2>b. c.start \in Addr /\ c.end \in Addr
    BY DEF Config
  <2>1. c.start \in Nat /\ c.end \in Nat
    BY <2>a, <2>b
  <2>2. \A a \in r : a \in c.start .. c.end
    BY <2>1, <2>a
  <2>3. IsFiniteSet(c.start .. c.end)
    BY <2>1, FS_Interval, SMTT(20)
  <2> QED BY <2>2, <2>3, FS_Subset
<1>2. b.ips = r /\ b.used = {}
  BY DEF Absent
<1>3. o \in [Addr -> Owner \cup {NoOwner}] /\ \A a \in Addr : o[a] \in {s.owners[a], NoOwner}
  BY DEF Fit, Subnet
<1> DEFINE t == [[b EXCEPT !.used = u] EXCEPT !.owners = o]
<1>4. Refreshed(s, c, ex, al) = t
  <2>1. buildSubnet(c) = b
    BY DEF buildSubnet
  <2>2. MarkUsed(b, ex \cup al \cup kept) = [b EXCEPT !.used = u]
    BY <1>2 DEF MarkUsed
  <2> QED BY <2>1, <2>2 DEF Refreshed
<1>5. u \subseteq r
  OBVIOUS
<1>6. b \in Subnet
  BY <1>1 DEF Subnet, Absent
<1> HIDE DEF r, u, o, b
<1>7. t \in Subnet /\ t.ips = r /\ t.used = u /\ t.owners = o
  BY <1>1, <1>2, <1>3, <1>5, <1>6 DEF Subnet
<1> HIDE DEF t
<1> QED BY <1>1, <1>3, <1>4, <1>5, <1>7, OwnerAssumption DEF Fit, OwnedBy, NoNewClaims

-----------------------------------------------------------------------------
(* The workers                                                             *)

\* Types of the values the workers pass through.
LEMMA WorkerValues ==
  ASSUME workers \in [Worker -> WorkerState], NEW w \in Worker
  PROVE  /\ Idle \in WorkerState /\ Idle.pc = "idle" /\ Idle.key = NoOwner /\ ~ Idle.fresh
         /\ Finished(w) \in [Worker -> WorkerState]
         /\ \A v \in Worker : Finished(w)[v] = IF v = w THEN Idle ELSE workers[v]
<1>1. Idle \in WorkerState /\ Idle.pc = "idle" /\ Idle.key = NoOwner /\ ~ Idle.fresh
  BY DEF Idle, WorkerState, IPOrNone
<1> HIDE DEF Idle
<1> QED BY <1>1 DEF Finished

\* The worker that goes on keeps its key and its address, and its copy where
\* the copy is written back.
LEMMA MovedWorkers ==
  ASSUME workers \in [Worker -> WorkerState], NEW w \in Worker,
         NEW pc \in {"specerr", "status", "pool", "delpool", "rmfin"}
  PROVE  /\ Moved(w, pc) \in [Worker -> WorkerState]
         /\ \A v \in Worker \ {w} : Moved(w, pc)[v] = workers[v]
         /\ Moved(w, pc)[w].pc = pc
         /\ Moved(w, pc)[w].key = workers[w].key /\ Moved(w, pc)[w].ip = workers[w].ip
         /\ Moved(w, pc)[w].fresh => workers[w].fresh /\ pc \in {"delpool", "rmfin"}
<1> DEFINE g == workers[w].fresh /\ pc \in WritesCopy
           j == [workers[w] EXCEPT !.pc = pc, !.fresh = g]
<1>1. Moved(w, pc) = [workers EXCEPT ![w] = j]
  BY DEF Moved
<1>2. g \in BOOLEAN /\ (g => workers[w].fresh /\ pc \in {"delpool", "rmfin"})
  BY DEF WritesCopy
<1> HIDE DEF g
<1>3. /\ j \in WorkerState /\ j.pc = pc /\ j.key = workers[w].key /\ j.ip = workers[w].ip
      /\ j.fresh = g
  BY <1>2 DEF WorkerState
<1> HIDE DEF j
<1> QED BY <1>1, <1>2, <1>3

\* The worker that takes up a key.
LEMMA EnterWorkers ==
  ASSUME workers \in [Worker -> WorkerState], NEW w \in Worker, NEW f \in Owner, NEW a \in IPOrNone,
         NEW pc \in {"addfin", "error", "spec", "assign", "unassign", "release", "rmfin"},
         Enter(w, f, pc, a)
  PROVE  /\ workers' \in [Worker -> WorkerState]
         /\ \A v \in Worker \ {w} : workers'[v] = workers[v]
         /\ workers'[w].pc = pc /\ workers'[w].key = f /\ workers'[w].ip = a
         /\ workers'[w].fresh => cfresh[f]
<1> DEFINE g == cfresh[f] /\ pc \in WritesCopy
           j == [pc |-> pc, key |-> f, ip |-> a, fresh |-> g]
<1>1. workers' = [workers EXCEPT ![w] = j]
  BY DEF Enter
<1>2. g \in BOOLEAN /\ (g => cfresh[f])
  OBVIOUS
<1> HIDE DEF g
<1>3. j \in WorkerState /\ j.pc = pc /\ j.key = f /\ j.ip = a /\ j.fresh = g
  BY <1>2 DEF WorkerState
<1> HIDE DEF j
<1> QED BY <1>1, <1>2, <1>3

\* A write of f leaves no fresh copy of f, and nothing else with the workers
\* changes.
LEMMA PutWorkers ==
  ASSUME NEW f \in Owner, NEW obj, NEW ws \in [Worker -> WorkerState], PutFip(f, obj, ws)
  PROVE  /\ workers' \in [Worker -> WorkerState]
         /\ \A v \in Worker :
               /\ workers'[v].pc = ws[v].pc /\ workers'[v].key = ws[v].key /\ workers'[v].ip = ws[v].ip
               /\ workers'[v].fresh => ws[v].fresh /\ (obj = fip[f] \/ ws[v].key # f)
<1>1. CASE obj = fip[f]
  BY <1>1 DEF PutFip
<1>2. CASE obj # fip[f]
  <2>1. workers' = [v \in Worker |-> IF ws[v].key = f THEN [ws[v] EXCEPT !.fresh = FALSE] ELSE ws[v]]
    BY <1>2 DEF PutFip, Stale
  <2>2. ASSUME NEW v \in Worker
        PROVE  LET j == [ws[v] EXCEPT !.fresh = FALSE]
               IN  /\ j \in WorkerState /\ j.pc = ws[v].pc /\ j.key = ws[v].key /\ j.ip = ws[v].ip
                   /\ ~ j.fresh
    <3>1. ws[v] \in WorkerState
      OBVIOUS
    <3> QED BY <3>1 DEF WorkerState
  <2> QED BY <2>1, <2>2
<1> QED BY <1>1, <1>2

\* What a step can do to a worker.
Stays(v) == workers'[v].pc = workers[v].pc /\ workers'[v].key = workers[v].key /\ workers'[v].ip = workers[v].ip
Ends(w)  == workers'[w].pc = "idle" /\ workers'[w].key = NoOwner
GoesOn(w) ==
    /\ workers[w].pc # "idle"
    /\ workers'[w].key = workers[w].key /\ workers'[w].ip = workers[w].ip
    /\ workers'[w].pc \in {"specerr", "status", "pool", "delpool", "rmfin"}
    /\ workers'[w].pc = "status" =>
          /\ workers[w].pc = "spec"
          /\ fip'[workers[w].key].status = NoIP /\ fip'[workers[w].key].spec = workers[w].ip
    /\ workers'[w].pc = "specerr" => workers[w].pc = "spec"
    /\ workers'[w].pc = "pool" => workers[w].pc = "status"
    /\ workers'[w].pc \in {"delpool", "rmfin"} => workers[w].pc \in {"release", "delpool"}
    /\ workers'[w].pc = "rmfin" => OwnedBy(ipam', workers[w].key) = {}
Enters(w, f) ==
    /\ \A v \in Worker : workers[v].key # f
    /\ workers'[w].key = f
    /\ workers'[w].pc \in {"addfin", "error", "spec", "assign", "unassign", "release", "rmfin"}
    /\ UNCHANGED <<fip, cache>>
    /\ workers'[w].pc = "addfin" => ~ cache[f].del
    /\ workers'[w].pc = "spec" => workers'[w].ip \in Addr /\ ClaimOf(f, workers[w].ip)'
    /\ workers'[w].pc \in {"release", "rmfin"} => cache[f].del
    /\ workers'[w].pc = "rmfin" => OwnedBy(ipam', f) = {}
OnlyOne(w) ==
    /\ \A v \in Worker \ {w} : Stays(v)
    /\ Ends(w) \/ GoesOn(w) \/ \E f \in Owner : Enters(w, f)
WorkerStep ==
    /\ workers' \in [Worker -> WorkerState]
    /\ (\A v \in Worker : Stays(v)) \/ (\A v \in Worker : Ends(v)) \/ \E w \in Worker : OnlyOne(w)

\* A worker that finishes, by a write of f or without one.
LEMMA FinishedSteps ==
  ASSUME workers \in [Worker -> WorkerState], NEW w \in Worker,
         \/ workers' = Finished(w)
         \/ \E f \in Owner : \E obj : PutFip(f, obj, Finished(w))
  PROVE  WorkerStep
<1>1. CASE workers' = Finished(w)
  BY <1>1, WorkerValues DEF WorkerStep, OnlyOne, Ends, Stays
<1>2. ASSUME NEW f \in Owner, NEW obj, PutFip(f, obj, Finished(w))
      PROVE  WorkerStep
  <2>1. Finished(w) \in [Worker -> WorkerState]
    BY WorkerValues
  <2>2. /\ workers' \in [Worker -> WorkerState]
        /\ \A v \in Worker : /\ workers'[v].pc = Finished(w)[v].pc /\ workers'[v].key = Finished(w)[v].key
                             /\ workers'[v].ip = Finished(w)[v].ip
    BY <1>2, <2>1, PutWorkers
  <2> QED BY <2>2, WorkerValues DEF WorkerStep, OnlyOne, Ends, Stays
<1> QED BY <1>1, <1>2

\* A worker that goes on, by a write of f or without one.
LEMMA MovedSteps ==
  ASSUME workers \in [Worker -> WorkerState], NEW w \in Worker, workers[w].pc # "idle",
         NEW pc \in {"specerr", "status", "pool", "delpool", "rmfin"},
         \/ workers' = Moved(w, pc)
         \/ \E f \in Owner : \E obj : PutFip(f, obj, Moved(w, pc)),
         pc = "status" =>
             /\ workers[w].pc = "spec"
             /\ fip'[workers[w].key].status = NoIP /\ fip'[workers[w].key].spec = workers[w].ip,
         pc = "specerr" => workers[w].pc = "spec",
         pc = "pool" => workers[w].pc = "status",
         pc \in {"delpool", "rmfin"} => workers[w].pc \in {"release", "delpool"},
         pc = "rmfin" => OwnedBy(ipam', workers[w].key) = {}
  PROVE  WorkerStep
<1>m. /\ Moved(w, pc) \in [Worker -> WorkerState]
      /\ \A v \in Worker \ {w} : Moved(w, pc)[v] = workers[v]
      /\ Moved(w, pc)[w].pc = pc
      /\ Moved(w, pc)[w].key = workers[w].key /\ Moved(w, pc)[w].ip = workers[w].ip
  BY MovedWorkers
<1> DEFINE Alike == /\ workers' \in [Worker -> WorkerState]
                    /\ \A v \in Worker : /\ workers'[v].pc = Moved(w, pc)[v].pc
                                         /\ workers'[v].key = Moved(w, pc)[v].key
                                         /\ workers'[v].ip = Moved(w, pc)[v].ip
<1>1. Alike
  <2>1. CASE workers' = Moved(w, pc)
    BY <1>m, <2>1
  <2>2. ASSUME NEW f \in Owner, NEW obj, PutFip(f, obj, Moved(w, pc))
        PROVE  Alike
    BY <1>m, <2>2, PutWorkers
  <2> QED BY <2>1, <2>2
<1> QED BY <1>1, <1>m DEF WorkerStep, OnlyOne, GoesOn, Stays

\* Only a worker that begins an allocation makes a claim.
Allocates(f) == UNCHANGED fip /\ Reconcilable(f) /\ \A v \in Worker : workers[v].key # f

IpamStep ==
    /\ Fit(ipam')
    /\ \A f \in Owner : OwnedBy(ipam', f) \subseteq OwnedBy(ipam, f) \/ Allocates(f)

\* syncHandler up to its first API call: a worker takes up the key, and at most
\* one claim is made.
LEMMA SyncSteps ==
  ASSUME MInv, NEW w \in Worker, NEW f \in Owner, Sync(w, f)
  PROVE  WorkerStep /\ IpamStep
<1>t. workers \in [Worker -> WorkerState] /\ Fit(ipam) /\ cache[f] \in FloatingIP
  BY DEF MInv, TypeOK, Fit
<1>k. TakeKey(w, f)
  BY DEF Sync, SyncNothing, SyncAddFinalizer, SyncAssigned, SyncNoPool, SyncAllocate, SyncDelete,
         SyncDeleteUnallocated
<1>f. \A v \in Worker : workers[v].key # f
  BY <1>k DEF TakeKey
<1>u. UNCHANGED ipam => IpamStep
  BY <1>t DEF IpamStep
<1>n. NoIP \in IPOrNone /\ cache[f].spec \in IPOrNone /\ cache[f].status \in IPOrNone
  BY <1>t DEF IPOrNone, FloatingIP
<1>q. UNCHANGED <<fip, cache>>
  BY DEF Sync, SyncNothing, SyncAddFinalizer, SyncAssigned, SyncNoPool, SyncAllocate, SyncDelete,
     SyncDeleteUnallocated, Unaffected, apiVars, informerVars
<1>e. ASSUME NEW pc \in {"addfin", "error", "spec", "assign", "unassign", "release", "rmfin"},
             NEW a \in IPOrNone, Enter(w, f, pc, a),
             pc = "addfin" => ~ cache[f].del,
             pc = "spec" => a \in Addr /\ ClaimOf(f, a)',
             pc \in {"release", "rmfin"} => cache[f].del,
             pc = "rmfin" => OwnedBy(ipam', f) = {}
      PROVE  WorkerStep
  <2>1. /\ workers' \in [Worker -> WorkerState]
        /\ \A v \in Worker \ {w} : workers'[v] = workers[v]
        /\ workers'[w].pc = pc /\ workers'[w].key = f /\ workers'[w].ip = a
    BY <1>e, <1>t, EnterWorkers
  <2>2. workers'[w].pc = "spec" => ClaimOf(f, workers[w].ip)'
    BY <1>e, <2>1 DEF ClaimOf
  <2>3. Enters(w, f)
    BY <1>e, <1>f, <1>q, <2>1, <2>2 DEF Enters
  <2> QED BY <2>1, <2>3 DEF WorkerStep, OnlyOne, Stays
<1>1. CASE SyncNothing(w, f) \/ SyncNoPool(w, f)
  BY <1>1, <1>t, <1>u DEF SyncNothing, SyncNoPool, WorkerStep, Stays
<1>2. CASE SyncAddFinalizer(w, f) \/ SyncAssigned(w, f) \/ SyncDelete(w, f)
  <2>1. UNCHANGED ipam
    BY <1>2 DEF SyncAddFinalizer, SyncAssigned, SyncDelete
  <2>2. \/ Enter(w, f, "addfin", NoIP) /\ ~ cache[f].del
        \/ Enter(w, f, "assign", NoIP) \/ Enter(w, f, "unassign", NoIP)
        \/ Enter(w, f, "release", cache[f].status) /\ cache[f].del
    BY <1>2 DEF SyncAddFinalizer, SyncAssigned, SyncDelete
  <2> QED BY <1>e, <1>n, <1>u, <2>1, <2>2
<1>3. CASE SyncAllocate(w, f)
  <2>1. CASE Enter(w, f, "error", NoIP) /\ UNCHANGED ipam
    BY <1>e, <1>n, <1>u, <2>1
  <2>2. ASSUME NEW a \in GetIPOwned(ipam, cache[f].spec, f), Enter(w, f, "spec", a), ipam' = Claim(ipam, a, f)
        PROVE  WorkerStep /\ IpamStep
    <3>1. /\ a \in Addr /\ Fit(ipam') /\ ClaimOf(f, a)'
          /\ \A g \in Owner \ {f} : OwnedBy(ipam', g) \subseteq OwnedBy(ipam, g)
      BY <1>t, <1>n, <2>2, ClaimFits DEF ClaimOf
    <3>2. Allocates(f)
      BY <1>3, <1>f DEF SyncAllocate, Unaffected, apiVars, Allocates
    <3>3. a \in IPOrNone
      BY <3>1 DEF IPOrNone
    <3> QED BY <1>e, <2>2, <3>1, <3>2, <3>3 DEF IpamStep
  <2> QED BY <1>3, <2>1, <2>2 DEF SyncAllocate
<1>4. CASE SyncDeleteUnallocated(w, f)
  <2> DEFINE s == OwnedRelease(cache[f].spec, f)
  <2>1. Fit(s) /\ NoNewClaims(ipam, s)
    BY <1>t, ReleaseFits DEF OwnedRelease, NoNewClaims
  <2>2. ipam' = ReleaseAllByOwner(s, f) /\ Enter(w, f, "rmfin", NoIP) /\ cache[f].del
    BY <1>4 DEF SyncDeleteUnallocated
  <2> HIDE DEF s
  <2>3. Fit(ipam') /\ NoNewClaims(s, ipam') /\ OwnedBy(ipam', f) = {}
    BY <2>1, <2>2, SweepFits
  <2>4. WorkerStep
    BY <1>e, <1>n, <2>2, <2>3
  <2> QED BY <2>1, <2>3, <2>4 DEF IpamStep, NoNewClaims
<1> QED BY <1>1, <1>2, <1>3, <1>4 DEF Sync

\* The API calls: a worker goes on or ends, and no claim is made.
LEMMA StepSteps ==
  ASSUME MInv, NEW w \in Worker, Step(w)
  PROVE  WorkerStep /\ IpamStep
<1> DEFINE f == workers[w].key
<1>t. workers \in [Worker -> WorkerState] /\ Fit(ipam) /\ fip \in [Owner -> FloatingIP]
  BY DEF MInv, TypeOK, Fit
<1>k. ASSUME workers[w].pc # "idle"
      PROVE  f \in Owner
  BY <1>k, <1>t DEF MInv, Keys, WorkerState
<1>u. UNCHANGED ipam => IpamStep
  BY <1>t DEF IpamStep
<1>f. workers' = Finished(w) => WorkerStep
  BY <1>t, FinishedSteps
<1>c. ASSUME NEW obj, NEW can, workers[w].pc # "idle", Call(w, f, obj, can, Finished(w), Finished(w))
      PROVE  WorkerStep
  BY <1>c, <1>t, <1>k, FinishedSteps DEF Call, Commit, CommitThenError, FailCall
<1>1. CASE AddFinalizer(w) \/ UpdateAssigned(w) \/ RemoveFinalizer(w)
  BY <1>1, <1>c, <1>u DEF AddFinalizer, UpdateAssigned, RemoveFinalizer, At
<1>2. CASE RecordError(w)
  <2>1. workers[w].pc # "idle" /\ UNCHANGED ipam
    BY <1>2 DEF RecordError, At
  <2>2. workers' = Finished(w) \/ \E obj : PutFip(f, obj, Finished(w))
    BY <1>2 DEF RecordError
  <2> QED BY <1>t, <1>u, <1>k, <2>1, <2>2, FinishedSteps
<1>3. CASE UpdateSpec(w)
  <2>1. workers[w].pc = "spec" /\ UNCHANGED ipam /\ f \in Owner
    BY <1>3, <1>k DEF UpdateSpec, At
  <2> DEFINE new == [fip[f] EXCEPT !.spec = workers[w].ip]
  <2>2. CASE workers[w].fresh /\ PutFip(f, new, Moved(w, "status"))
    <3>1. fip[f].status = NoIP
      BY <2>1, <2>2 DEF MInv, Copies
    <3>2. new.status = fip[f].status /\ new.spec = workers[w].ip
      BY <1>t, <2>1 DEF FloatingIP
    <3> HIDE DEF new
    <3>3. fip'[f].status = NoIP /\ fip'[f].spec = workers[w].ip
      BY <1>t, <2>1, <2>2, <3>1, <3>2 DEF PutFip
    <3> QED BY <1>t, <1>u, <2>1, <2>2, <3>3, MovedSteps
  <2>3. CASE PutFip(f, new, Moved(w, "specerr")) \/ workers' = Moved(w, "specerr")
    <3> HIDE DEF new
    <3> QED BY <1>t, <1>u, <2>1, <2>3, MovedSteps
  <2> QED BY <1>3, <2>2, <2>3 DEF UpdateSpec, Commit
<1>4. CASE SpecFailed(w)
  <2>1. workers' = Finished(w)
    BY <1>4 DEF SpecFailed
  <2>2. ipam' = ipam \/ ipam' = releaseIP(ipam, workers[w].ip)
    BY <1>4 DEF SpecFailed, OwnedRelease
  <2> QED BY <1>t, <1>f, <1>u, <2>1, <2>2, ReleaseFits DEF IpamStep, NoNewClaims
<1>5. CASE UpdateStatus(w)
  <2>1. workers[w].pc = "status" /\ UNCHANGED ipam /\ f \in Owner
    BY <1>5, <1>k DEF UpdateStatus, At
  <2>2. CASE workers' = Finished(w) \/ \E obj : PutFip(f, obj, Finished(w))
    BY <1>t, <1>u, <2>1, <2>2, FinishedSteps
  <2>3. CASE \E obj : PutFip(f, obj, Moved(w, "pool"))
    BY <1>t, <1>u, <2>1, <2>3, MovedSteps
  <2> QED BY <1>5, <2>2, <2>3 DEF UpdateStatus, Call, Commit, CommitThenError, FailCall
<1>6. CASE UpdatePoolStatus(w)
  BY <1>6, <1>f, <1>u DEF UpdatePoolStatus, PoolFault
<1>7. CASE DeleteRelease(w)
  <2>1. CASE PoolFault(w)
    BY <1>f, <1>u, <2>1 DEF PoolFault
  <2>2. CASE ipam' \in {ipam, releaseIP(ipam, workers[w].ip)} /\ workers' = Moved(w, "delpool")
    <3>1. workers[w].pc = "release"
      BY <1>7 DEF DeleteRelease, At
    <3>2. WorkerStep
      BY <1>t, <2>2, <3>1, MovedSteps
    <3> QED BY <1>t, <1>u, <2>2, <3>2, ReleaseFits DEF IpamStep, NoNewClaims
  <2> QED BY <1>7, <2>1, <2>2 DEF DeleteRelease
<1>8. CASE DeletePoolStatus(w)
  <2>1. workers[w].pc = "delpool" /\ f \in Owner
    BY <1>8, <1>k DEF DeletePoolStatus, At
  <2>2. CASE workers' = Finished(w) /\ UNCHANGED ipam
    BY <1>f, <1>u, <2>2
  <2>3. CASE ipam' = ReleaseAllByOwner(ipam, f) /\ workers' = Moved(w, "rmfin")
    <3>1. Fit(ipam') /\ NoNewClaims(ipam, ipam') /\ OwnedBy(ipam', f) = {}
      BY <1>t, <2>1, <2>3, SweepFits
    <3>2. WorkerStep
      BY <1>t, <2>1, <2>3, <3>1, MovedSteps
    <3> QED BY <3>1, <3>2 DEF IpamStep, NoNewClaims
  <2> QED BY <1>8, <2>2, <2>3 DEF DeletePoolStatus, PoolFault
<1> QED BY <1>1, <1>2, <1>3, <1>4, <1>5, <1>6, <1>7, <1>8 DEF Step

\* Users' writes leave the workers where they are.
UserWrite(f, obj) ==
    /\ PutFip(f, obj, workers)
    /\ UNCHANGED <<pool, cache, pcache, pfresh, pgone, delEvt, upEvt, queueVars, pworker, ipam, started>>

NewObject(f, a) == ~ fip[f].live /\ UserWrite(f, NewFip(a))
EditObject(f, new) ==
    /\ fip[f].live
    /\ \/ new = [fip[f] EXCEPT !.label = ~ @]
       \/ \E a \in Addr : new = [fip[f] EXCEPT !.spec = a]
    /\ UserWrite(f, new)
DeleteObject(f) ==
    /\ fip[f].live
    /\ UserWrite(f, IF fip[f].fin THEN [fip[f] EXCEPT !.del = TRUE] ELSE Gone)
AdminWrite == UNCHANGED <<fip, cache, cfresh, workers, ipam>>

\* What users and administrators can do, by kind of write.
LEMMA UserKinds ==
  ASSUME User
  PROVE  \/ \E f \in Owner : \/ \E a \in IPOrNone : NewObject(f, a)
                            \/ \E new : EditObject(f, new)
                            \/ DeleteObject(f)
         \/ AdminWrite
<1>1. ASSUME NEW f \in Owner, NEW a \in IPOrNone, UserCreate(f, a) \/ UserCreateRaced(f, a)
      PROVE  NewObject(f, a)
  BY <1>1 DEF UserCreate, UserCreateRaced, NewObject, UserWrite
<1>2. ASSUME NEW f \in Owner, UserLabel(f)
      PROVE  \E new : EditObject(f, new)
  BY <1>2 DEF UserLabel, UserEdit, EditObject, UserWrite
<1>3. ASSUME NEW f \in Owner, NEW a \in Addr, UserRepin(f, a)
      PROVE  \E new : EditObject(f, new)
  BY <1>3 DEF UserRepin, UserEdit, EditObject, UserWrite
<1>4. ASSUME NEW f \in Owner, UserDelete(f)
      PROVE  DeleteObject(f)
  BY <1>4 DEF UserDelete, DeleteObject, UserWrite
<1>5. ASSUME (\E c \in Configs : AdminCreatePool(c) \/ AdminEditPool(c)) \/ AdminDeletePool
      PROVE  AdminWrite
  BY <1>5 DEF AdminCreatePool, AdminEditPool, AdminDeletePool, AdminWrite, managerVars
<1> QED BY <1>1, <1>2, <1>3, <1>4, <1>5 DEF User

\* Every step does to the workers and to the allocator what the kinds say.
LEMMA NextSteps ==
  ASSUME MInv, Next
  PROVE  WorkerStep /\ IpamStep
<1>t. workers \in [Worker -> WorkerState] /\ Fit(ipam)
  BY DEF MInv, TypeOK, Fit
<1>u. UNCHANGED ipam => IpamStep
  BY <1>t DEF IpamStep
<1>w. UNCHANGED workers => WorkerStep
  BY <1>t DEF WorkerStep, Stays
<1>1. ASSUME NEW f \in Owner, NEW obj, UserWrite(f, obj)
      PROVE  WorkerStep /\ IpamStep
  <2>1. PutFip(f, obj, workers) /\ UNCHANGED ipam
    BY <1>1 DEF UserWrite
  <2>2. workers \in [Worker -> WorkerState]
    BY <1>t
  <2>3. /\ workers' \in [Worker -> WorkerState]
        /\ \A v \in Worker : /\ workers'[v].pc = workers[v].pc /\ workers'[v].key = workers[v].key
                             /\ workers'[v].ip = workers[v].ip
    BY <2>1, <2>2, PutWorkers
  <2>4. WorkerStep
    BY <2>3 DEF WorkerStep, Stays
  <2> QED BY <1>u, <2>1, <2>4
<1>2. CASE User
  <2>1. ASSUME NEW f \in Owner, NEW a \in IPOrNone, NewObject(f, a)
        PROVE  WorkerStep /\ IpamStep
    BY <1>1, <2>1 DEF NewObject
  <2>2. ASSUME NEW f \in Owner, NEW new, EditObject(f, new)
        PROVE  WorkerStep /\ IpamStep
    BY <1>1, <2>2 DEF EditObject
  <2>3. ASSUME NEW f \in Owner, DeleteObject(f)
        PROVE  WorkerStep /\ IpamStep
    BY <1>1, <2>3 DEF DeleteObject
  <2>4. CASE AdminWrite
    BY <1>u, <1>w, <2>4 DEF AdminWrite
  <2> QED BY <1>2, <2>1, <2>2, <2>3, <2>4, UserKinds
<1>3. CASE Informers
  BY <1>3, <1>u, <1>w DEF Informers, InformFip, InformPool, InformPoolGone, managerVars
<1>4. CASE PoolWorker \/ handleFipPoolDelete
  <2>1. UNCHANGED workers
    BY <1>4 DEF PoolWorker, PoolList, PoolRefresh, PoolStatus, handleFipPoolDelete
  <2>5. IpamStep
    <3>2. CASE handleFipPoolDelete
      BY <3>2, AbsentFits DEF handleFipPoolDelete, IpamStep
    <3>3. CASE PoolList \/ PoolStatus
      BY <1>u, <3>3 DEF PoolList, PoolStatus
    <3>4. CASE PoolRefresh
      <4>1. pworker.cfg \in Config
        BY ClusterAssumption DEF MInv, TypeOK, PoolWorkerState
      <4>2. UNCHANGED ipam \/ ipam' = Refreshed(ipam, pworker.cfg, Excludes, pworker.list)
        BY <3>4 DEF PoolRefresh
      <4> QED BY <1>t, <1>u, <4>1, <4>2, RefreshFits DEF IpamStep, NoNewClaims
    <3> QED BY <1>4, <3>2, <3>3, <3>4 DEF PoolWorker
  <2> QED BY <1>w, <2>1, <2>5
<1>5. CASE Restart
  <2>1. ipam' = Absent /\ workers' = [w \in Worker |-> Idle]
    BY <1>5 DEF Restart
  <2>2. Idle \in WorkerState /\ Idle.pc = "idle" /\ Idle.key = NoOwner
    BY DEF Idle, WorkerState, IPOrNone
  <2> HIDE DEF Idle
  <2> QED BY <2>1, <2>2, AbsentFits DEF IpamStep, WorkerStep, Ends
<1>6. ASSUME NEW w \in Worker, FipWorker(w)
      PROVE  WorkerStep /\ IpamStep
  BY <1>6, SyncSteps, StepSteps DEF FipWorker
<1> QED BY <1>2, <1>3, <1>4, <1>5, <1>6 DEF Next, Controllers

-----------------------------------------------------------------------------
(* The objects                                                             *)

Born(f) ==
    /\ ~ fip[f].live /\ fip'[f].live
    /\ ~ fip'[f].fin /\ ~ fip'[f].del /\ fip'[f].status = NoIP
Tells(w, f) ==
    /\ workers[w].pc = "status" /\ workers[w].key = f /\ workers'[w].pc # "status"
    /\ fip'[f].status = workers[w].ip /\ fip'[f].spec = fip[f].spec
Finalizes(w, f) == workers[w].pc = "addfin" /\ workers[w].key = f
Changed(f) ==
    /\ fip[f].live /\ fip'[f].live
    /\ fip[f].fin => fip'[f].fin
    /\ fip'[f].fin => fip[f].fin \/ \E w \in Worker : Finalizes(w, f)
    /\ fip'[f].del => fip'[f].fin
    /\ fip[f].del => fip'[f].del
    /\ \/ fip'[f].status = fip[f].status
       \/ \E w \in Worker : Tells(w, f)
Dies(f) ==
    /\ fip'[f] = Gone
    /\ \/ ~ fip[f].fin
       \/ \E w \in Worker : workers[w].pc = "rmfin" /\ workers[w].key = f /\ workers[w].fresh
FipStep ==
    /\ fip' \in [Owner -> FloatingIP]
    /\ \A f \in Owner : fip'[f] = fip[f] \/ Born(f) \/ Changed(f) \/ Dies(f)

\* One object is written; the others stay.
LEMMA PutSteps ==
  ASSUME fip \in [Owner -> FloatingIP], NEW f \in Owner, NEW obj \in FloatingIP, NEW ws, PutFip(f, obj, ws),
         Born(f) \/ Changed(f) \/ Dies(f)
  PROVE  FipStep
  BY DEF PutFip, FipStep

\* Users, the webhook and the workers write objects in these ways alone.
LEMMA NextFip ==
  ASSUME MInv, Next
  PROVE  FipStep
<1>t. fip \in [Owner -> FloatingIP] /\ \A f \in Owner : fip[f].del => fip[f].fin
  BY DEF MInv, TypeOK
<1>w. workers \in [Worker -> WorkerState]
  BY DEF MInv, TypeOK
<1>u. UNCHANGED fip => FipStep
  BY <1>t DEF FipStep
<1>g. Gone \in FloatingIP
  BY DEF Gone, FloatingIP, IPOrNone
<1>p. ASSUME NEW f \in Owner, NEW obj, NEW ws, PutFip(f, obj, ws)
      PROVE  fip'[f] = obj
  BY <1>p, <1>t DEF PutFip
<1>e. ASSUME NEW f \in Owner, NEW obj \in FloatingIP, NEW ws, PutFip(f, obj, ws), fip[f].live, obj.live,
             fip[f].fin => obj.fin, obj.fin => fip[f].fin \/ \E w \in Worker : Finalizes(w, f),
             obj.del => obj.fin, fip[f].del => obj.del,
             \/ obj.status = fip[f].status
             \/ \E w \in Worker : Tells(w, f)
      PROVE  FipStep
  <2>1. Changed(f)
    BY <1>e, <1>p DEF Changed
  <2> QED BY <1>e, <1>t, <2>1, PutSteps
<1>1. ASSUME NEW f \in Owner, NEW a \in IPOrNone, NewObject(f, a)
      PROVE  FipStep
  <2> DEFINE obj == NewFip(a)
  <2>1. obj \in FloatingIP /\ obj.live /\ ~ obj.fin /\ ~ obj.del /\ obj.status = NoIP
    BY <1>1, <1>g DEF NewFip, FloatingIP, Gone
  <2>2. PutFip(f, obj, workers) /\ ~ fip[f].live
    BY <1>1 DEF NewObject, UserWrite
  <2> HIDE DEF obj
  <2>3. Born(f)
    BY <1>p, <2>1, <2>2 DEF Born
  <2> QED BY <1>t, <2>1, <2>2, <2>3, PutSteps
<1>2. ASSUME NEW f \in Owner, NEW new, EditObject(f, new)
      PROVE  FipStep
  <2>1. /\ new \in FloatingIP /\ new.live /\ new.fin = fip[f].fin /\ new.del = fip[f].del
        /\ new.status = fip[f].status
    <3>1. CASE \E a \in Addr : new = [fip[f] EXCEPT !.spec = a]
      BY <1>2, <1>t, <3>1 DEF EditObject, FloatingIP, IPOrNone
    <3>2. CASE new = [fip[f] EXCEPT !.label = ~ fip[f].label]
      <4> DEFINE b == ~ fip[f].label
      <4>1. b \in BOOLEAN
        OBVIOUS
      <4> HIDE DEF b
      <4>2. new = [fip[f] EXCEPT !.label = b]
        BY <3>2 DEF b
      <4> QED BY <1>2, <1>t, <4>1, <4>2 DEF EditObject, FloatingIP
    <3> QED BY <1>2, <3>1, <3>2 DEF EditObject
  <2>2. PutFip(f, new, workers) /\ fip[f].live
    BY <1>2 DEF EditObject, UserWrite
  <2> QED BY <1>e, <1>t, <2>1, <2>2
<1>3. ASSUME NEW f \in Owner, DeleteObject(f)
      PROVE  FipStep
  <2>1. CASE fip[f].fin
    <3> DEFINE obj == [fip[f] EXCEPT !.del = TRUE]
    <3>1. /\ obj \in FloatingIP /\ obj.live = fip[f].live /\ obj.fin = fip[f].fin /\ obj.status = fip[f].status
          /\ obj.del
      BY <1>t DEF FloatingIP
    <3>2. PutFip(f, obj, workers) /\ fip[f].live
      BY <1>3, <2>1 DEF DeleteObject, UserWrite
    <3> HIDE DEF obj
    <3> QED BY <1>e, <2>1, <3>1, <3>2
  <2>2. CASE ~ fip[f].fin
    <3>1. PutFip(f, Gone, workers)
      BY <1>3, <2>2 DEF DeleteObject, UserWrite
    <3>2. Dies(f)
      BY <1>p, <2>2, <3>1 DEF Dies
    <3> QED BY <1>t, <1>g, <3>1, <3>2, PutSteps
  <2> QED BY <2>1, <2>2
<1>4. CASE User
  BY <1>1, <1>2, <1>3, <1>4, <1>u, UserKinds DEF AdminWrite
<1>5. CASE Informers \/ PoolWorker \/ handleFipPoolDelete \/ Restart
  BY <1>5, <1>u DEF Informers, InformFip, InformPool, InformPoolGone, apiVars, PoolWorker, PoolList, PoolRefresh,
     PoolStatus, handleFipPoolDelete, Restart
<1>6. ASSUME NEW w \in Worker, NEW f \in Owner, Sync(w, f)
      PROVE  FipStep
  BY <1>6, <1>u DEF Sync, SyncNothing, SyncAddFinalizer, SyncAssigned, SyncNoPool, SyncAllocate, SyncDelete,
     SyncDeleteUnallocated, Unaffected, apiVars
<1>7. ASSUME NEW w \in Worker, Step(w)
      PROVE  FipStep
  <2> DEFINE f == workers[w].key
  <2>k. ASSUME workers[w].pc # "idle"
        PROVE  f \in Owner
    BY <1>w, <2>k DEF MInv, Keys, WorkerState
  <2>c. ASSUME NEW obj, NEW can, NEW ok, NEW err, Call(w, f, obj, can, ok, err)
        PROVE  UNCHANGED fip \/ (can /\ \E ws : PutFip(f, obj, ws))
    BY <2>c DEF Call, Commit, CommitThenError, FailCall
  <2>1. CASE AddFinalizer(w)
    <3> DEFINE obj == [fip[f] EXCEPT !.fin = TRUE]
    <3>1. f \in Owner /\ Finalizes(w, f)
      BY <2>1, <2>k DEF AddFinalizer, At, Finalizes
    <3>2. UNCHANGED fip \/ (fip[f].live /\ \E ws : PutFip(f, obj, ws))
      BY <2>1, <2>c DEF AddFinalizer
    <3>3. /\ obj \in FloatingIP /\ obj.live = fip[f].live /\ obj.fin /\ obj.del = fip[f].del
          /\ obj.status = fip[f].status
      BY <1>t, <3>1 DEF FloatingIP
    <3> HIDE DEF obj
    <3> QED BY <1>e, <1>u, <3>1, <3>2, <3>3
  <2>2. CASE RecordError(w)
    <3> DEFINE obj == [fip[f] EXCEPT !.state = "Error"]
    <3>1. f \in Owner
      BY <2>2, <2>k DEF RecordError, At
    <3>2. UNCHANGED fip \/ (fip[f].live /\ PutFip(f, obj, Finished(w)))
      BY <2>2 DEF RecordError, MInv, Copies
    <3>3. /\ obj \in FloatingIP /\ obj.live = fip[f].live /\ obj.fin = fip[f].fin /\ obj.del = fip[f].del
          /\ obj.status = fip[f].status
      BY <1>t, <3>1 DEF FloatingIP
    <3> HIDE DEF obj
    <3> QED BY <1>e, <1>t, <1>u, <3>1, <3>2, <3>3
  <2>3. CASE UpdateSpec(w)
    <3> DEFINE obj == [fip[f] EXCEPT !.spec = workers[w].ip]
    <3>1. f \in Owner
      BY <2>3, <2>k DEF UpdateSpec, At
    <3>2. UNCHANGED fip \/ (fip[f].live /\ \E ws : PutFip(f, obj, ws))
      BY <2>3 DEF UpdateSpec, Commit
    <3>i. workers[w].ip \in IPOrNone /\ fip[f] \in FloatingIP
      BY <1>t, <1>w, <3>1 DEF WorkerState
    <3>3. /\ obj \in FloatingIP /\ obj.live = fip[f].live /\ obj.fin = fip[f].fin /\ obj.del = fip[f].del
          /\ obj.status = fip[f].status
      <4> DEFINE i == workers[w].ip
                 o == fip[f]
      <4>1. i \in IPOrNone /\ o \in FloatingIP /\ obj = [o EXCEPT !.spec = i]
        BY <3>i
      <4> HIDE DEF i, o, obj
      <4>2. /\ obj \in FloatingIP /\ obj.live = o.live /\ obj.fin = o.fin /\ obj.del = o.del
            /\ obj.status = o.status
        BY <4>1 DEF FloatingIP
      <4> QED BY <4>2 DEF o
    <3> HIDE DEF obj
    <3> QED BY <1>e, <1>t, <1>u, <3>1, <3>2, <3>3
  <2>4. CASE UpdateStatus(w)
    <3> DEFINE obj == [fip[f] EXCEPT !.status = workers[w].ip, !.state = "Allocated", !.assigned = TRUE]
    <3>1. f \in Owner /\ workers[w].pc = "status"
      BY <2>4, <2>k DEF UpdateStatus, At
    <3>2. UNCHANGED fip \/ (fip[f].live /\ \E ws : PutFip(f, obj, ws))
      BY <2>4, <2>c DEF UpdateStatus
    <3>i. workers[w].ip \in IPOrNone /\ fip[f] \in FloatingIP
      BY <1>t, <1>w, <3>1 DEF WorkerState
    <3>3. /\ obj \in FloatingIP /\ obj.live = fip[f].live /\ obj.fin = fip[f].fin /\ obj.del = fip[f].del
          /\ obj.status = workers[w].ip /\ obj.spec = fip[f].spec
      <4> DEFINE i == workers[w].ip
                 o == fip[f]
      <4>1. i \in IPOrNone /\ o \in FloatingIP /\ obj = [o EXCEPT !.status = i, !.state = "Allocated", !.assigned = TRUE]
        BY <3>i
      <4> HIDE DEF i, o, obj
      <4>2. /\ obj \in FloatingIP /\ obj.live = o.live /\ obj.fin = o.fin /\ obj.del = o.del
            /\ obj.status = i /\ obj.spec = o.spec
        BY <4>1 DEF FloatingIP
      <4> QED BY <4>2 DEF o, i
    <3> HIDE DEF obj
    <3>4. workers'[w].pc # "status"
      <4>1. /\ Finished(w) \in [Worker -> WorkerState] /\ Finished(w)[w].pc = "idle"
            /\ Moved(w, "pool") \in [Worker -> WorkerState] /\ Moved(w, "pool")[w].pc = "pool"
        BY <1>w, WorkerValues, MovedWorkers
      <4>2. PICK ws \in {Finished(w), Moved(w, "pool")} : workers' = ws \/ PutFip(f, obj, ws)
        BY <2>4 DEF UpdateStatus, Call, Commit, CommitThenError, FailCall, obj
      <4> QED BY <3>1, <4>1, <4>2, PutWorkers
    <3>5. ASSUME NEW ws, PutFip(f, obj, ws)
          PROVE  Tells(w, f)
      BY <1>p, <3>1, <3>3, <3>4, <3>5 DEF Tells
    <3> QED BY <1>e, <1>t, <1>u, <3>1, <3>2, <3>3, <3>5
  <2>5. CASE UpdateAssigned(w)
    <3> DEFINE b   == At(w, "assign")
               obj == [fip[f] EXCEPT !.assigned = b]
    <3>1. f \in Owner /\ b \in BOOLEAN
      BY <2>5, <2>k DEF UpdateAssigned, At
    <3>2. UNCHANGED fip \/ (fip[f].live /\ \E ws : PutFip(f, obj, ws))
      BY <2>5, <2>c DEF UpdateAssigned
    <3> HIDE DEF b
    <3>3. /\ obj \in FloatingIP /\ obj.live = fip[f].live /\ obj.fin = fip[f].fin /\ obj.del = fip[f].del
          /\ obj.status = fip[f].status
      BY <1>t, <3>1 DEF FloatingIP
    <3> HIDE DEF obj
    <3> QED BY <1>e, <1>t, <1>u, <3>1, <3>2, <3>3
  <2>6. CASE RemoveFinalizer(w)
    <3>1. f \in Owner /\ workers[w].pc = "rmfin"
      BY <2>6, <2>k DEF RemoveFinalizer, At
    <3>2. UNCHANGED fip \/ (workers[w].fresh /\ \E ws : PutFip(f, Gone, ws))
      BY <2>6, <2>c DEF RemoveFinalizer
    <3>3. ASSUME NEW ws, workers[w].fresh, PutFip(f, Gone, ws)
          PROVE  FipStep
      <4>1. Dies(f)
        BY <1>p, <3>1, <3>3 DEF Dies
      <4> QED BY <1>t, <1>g, <3>1, <3>3, <4>1, PutSteps
    <3> QED BY <1>u, <3>2, <3>3
  <2>7. CASE UNCHANGED fip
    BY <1>u, <2>7
  <2> QED BY <1>7, <2>1, <2>2, <2>3, <2>4, <2>5, <2>6, <2>7
      DEF Step, SpecFailed, UpdatePoolStatus, DeleteRelease, DeletePoolStatus, Untouched2
<1> QED BY <1>4, <1>5, <1>6, <1>7 DEF Next, Controllers, FipWorker

-----------------------------------------------------------------------------
(* The caches                                                              *)

CacheStep ==
    /\ cache' \in [Owner -> FloatingIP]
    /\ \A f \in Owner : cache'[f] = cache[f] \/ (cache'[f] = fip[f] /\ fip'[f] = fip[f])

\* A cached object is what it was, or what the object is now.
LEMMA NextCache ==
  ASSUME MInv, Next
  PROVE  CacheStep
<1>t. fip \in [Owner -> FloatingIP] /\ cache \in [Owner -> FloatingIP]
  BY DEF MInv, TypeOK
<1>u. UNCHANGED cache => CacheStep
  BY <1>t DEF CacheStep
<1>1. CASE User
  BY <1>1, <1>u, UserKinds DEF NewObject, EditObject, DeleteObject, UserWrite, AdminWrite
<1>2. CASE InformPool \/ InformPoolGone \/ PoolWorker \/ handleFipPoolDelete
  BY <1>2, <1>u DEF InformPool, InformPoolGone, PoolWorker, PoolList, PoolRefresh, PoolStatus, handleFipPoolDelete,
     informerVars
<1>3. ASSUME NEW f \in Owner, InformFip(f)
      PROVE  CacheStep
  BY <1>3, <1>t DEF InformFip, CacheStep, apiVars
<1>4. CASE Restart
  BY <1>4, <1>t DEF Restart, CacheStep, apiVars
<1>5. ASSUME NEW w \in Worker, NEW f \in Owner, Sync(w, f)
      PROVE  CacheStep
  BY <1>5, <1>u DEF Sync, SyncNothing, SyncAddFinalizer, SyncAssigned, SyncNoPool, SyncAllocate, SyncDelete,
     SyncDeleteUnallocated, Unaffected, informerVars
<1>6. ASSUME NEW w \in Worker, Step(w)
      PROVE  CacheStep
  <2>1. Untouched \/ Untouched2
    BY <1>6 DEF Step, AddFinalizer, RecordError, UpdateSpec, SpecFailed, UpdateStatus, UpdatePoolStatus,
       UpdateAssigned, DeleteRelease, DeletePoolStatus, RemoveFinalizer
  <2> QED BY <1>u, <2>1 DEF Untouched, Untouched2
<1> QED BY <1>1, <1>2, <1>3, <1>4, <1>5, <1>6 DEF Next, Informers, Controllers, FipWorker

-----------------------------------------------------------------------------
(* Preservation of the invariant's parts                                   *)

\* A worker takes up only a key that nobody has, and keeps it until it ends.
LEMMA KeysKept ==
  ASSUME MInv, WorkerStep
  PROVE  Keys'
<1>t. workers \in [Worker -> WorkerState] /\ Keys
  BY DEF MInv, TypeOK
<1>1. CASE \A v \in Worker : Stays(v)
  BY <1>1, <1>t DEF Keys, Stays
<1>2. CASE \A v \in Worker : Ends(v)
  BY <1>2 DEF Keys, Ends
<1>3. ASSUME NEW w \in Worker, OnlyOne(w)
      PROVE  Keys'
  <2>1. \A v \in Worker \ {w} : Stays(v)
    BY <1>3 DEF OnlyOne
  <2>2. CASE Ends(w)
    BY <1>t, <2>1, <2>2 DEF Keys, Ends, Stays
  <2>3. CASE GoesOn(w)
    BY <1>t, <2>1, <2>3 DEF Keys, GoesOn, Stays
  <2>4. ASSUME NEW f \in Owner, Enters(w, f)
        PROVE  Keys'
    <3>1. /\ workers'[w].pc # "idle" /\ workers'[w].key = f /\ f # NoOwner
          /\ workers'[w].pc \in {"spec", "status", "pool"} => workers'[w].ip \in Addr
          /\ \A v \in Worker : workers[v].key # f
      BY <2>4, OwnerAssumption DEF Enters
    <3> QED BY <1>t, <2>1, <3>1 DEF Keys, Stays
  <2> QED BY <1>3, <2>2, <2>3, <2>4 DEF OnlyOne
<1> QED BY <1>1, <1>2, <1>3 DEF WorkerStep

\* The only writer that takes a finalizer away has swept the claims before,
\* and nobody else works on its key meanwhile.
LEMMA ClaimsKept ==
  ASSUME MInv, WorkerStep, IpamStep, FipStep
  PROVE  Claims'
<1>t. workers \in [Worker -> WorkerState] /\ Keys /\ Claims /\ Objects
  BY DEF MInv, TypeOK
<1>k. \A v \in Worker : workers[v].pc # "idle" => workers[v].key \in Owner
  BY <1>t DEF Keys, WorkerState
<1>1. ASSUME NEW f \in Owner, OwnedBy(ipam', f) # {}
      PROVE  fip'[f].live /\ fip'[f].fin
  <2>1. CASE Allocates(f)
    BY <1>t, <2>1 DEF Allocates, Reconcilable, Objects
  <2>2. CASE OwnedBy(ipam', f) \subseteq OwnedBy(ipam, f)
    <3>1. OwnedBy(ipam, f) # {} /\ fip[f].live /\ fip[f].fin
      BY <1>1, <1>t, <2>2 DEF Claims
    <3>2. ~ Dies(f)
      BY <1>t, <3>1 DEF Dies, Claims
    <3> QED BY <3>1, <3>2 DEF FipStep, Born, Changed
  <2> QED BY <2>1, <2>2 DEF IpamStep
<1>s. ASSUME NEW v \in Worker, Stays(v), workers'[v].pc = "rmfin"
      PROVE  OwnedBy(ipam', workers'[v].key) = {}
  <2>1. workers[v].key \in Owner /\ OwnedBy(ipam, workers[v].key) = {} /\ workers'[v].key = workers[v].key
    BY <1>k, <1>s, <1>t DEF Claims, Stays
  <2>2. ~ Allocates(workers[v].key)
    BY DEF Allocates
  <2>3. OwnedBy(ipam', workers[v].key) \subseteq OwnedBy(ipam, workers[v].key)
    BY <2>1, <2>2 DEF IpamStep
  <2> QED BY <2>1, <2>3
<1>2. ASSUME NEW v \in Worker, workers'[v].pc = "rmfin"
      PROVE  OwnedBy(ipam', workers'[v].key) = {}
  <2>1. Stays(v) \/ GoesOn(v) \/ \E f \in Owner : Enters(v, f)
    BY <1>2 DEF WorkerStep, OnlyOne, Ends
  <2>2. CASE GoesOn(v)
    BY <1>2, <2>2 DEF GoesOn
  <2>3. CASE \E f \in Owner : Enters(v, f)
    BY <1>2, <2>3 DEF Enters
  <2> QED BY <1>s, <1>2, <2>1, <2>2, <2>3
<1> QED BY <1>1, <1>2 DEF Claims

\* The status of a FloatingIP for which an allocation is under way is written
\* by that allocation alone.
LEMMA UntoldKept ==
  ASSUME MInv, WorkerStep, FipStep
  PROVE  Untold'
<1>t. workers \in [Worker -> WorkerState] /\ Keys /\ Untold
  BY DEF MInv, TypeOK
<1>1. ASSUME NEW v \in Worker, workers'[v].pc = "status"
      PROVE  fip'[workers'[v].key].status = NoIP
  <2>1. Stays(v) \/ GoesOn(v)
    BY <1>1 DEF WorkerStep, OnlyOne, Ends, Enters
  <2>2. CASE GoesOn(v)
    BY <1>1, <2>2 DEF GoesOn
  <2>3. CASE Stays(v)
    <3> DEFINE f == workers[v].key
    <3>1. workers[v].pc = "status" /\ f \in Owner /\ fip[f].status = NoIP /\ workers'[v].key = f
      BY <1>1, <1>t, <2>3 DEF Keys, WorkerState, Stays, Untold
    <3>2. \A w \in Worker : ~ Tells(w, f)
      <4>1. SUFFICES ASSUME NEW w \in Worker, Tells(w, f) PROVE FALSE
        OBVIOUS
      <4>2. w # v
        BY <1>1, <4>1 DEF Tells
      <4> QED BY <1>t, <3>1, <4>1, <4>2, OwnerAssumption DEF Keys, Tells
    <3>3. fip'[f].status = NoIP
      BY <3>1, <3>2 DEF FipStep, Born, Changed, Dies, Gone
    <3> QED BY <3>1, <3>3
  <2> QED BY <2>1, <2>2, <2>3
<1> QED BY <1>1 DEF Untold

\* An object that the cache shows with the finalizer is removed only by the
\* controller, with a copy at the cached version; and that shows a deletion.
LEMMA ObjectsKept ==
  ASSUME MInv, FipStep, CacheStep
  PROVE  Objects'
<1>t. Objects /\ Copies
  BY DEF MInv
<1>1. ASSUME NEW f \in Owner, ~ fip'[f].live
      PROVE  fip'[f] = Gone
  BY <1>1, <1>t DEF FipStep, Born, Changed, Dies, Objects
<1>2. ASSUME NEW f \in Owner, cache'[f].live, ~ cache'[f].del, cache'[f].fin
      PROVE  fip'[f].live /\ fip'[f].fin
  <2>1. CASE cache'[f] = fip[f] /\ fip'[f] = fip[f]
    BY <1>2, <2>1
  <2>2. CASE cache'[f] = cache[f]
    <3>1. fip[f].live /\ fip[f].fin
      BY <1>2, <1>t, <2>2 DEF Objects
    <3>2. ~ Dies(f)
      <4>1. SUFFICES ASSUME NEW w \in Worker, workers[w].pc = "rmfin", workers[w].key = f, workers[w].fresh
                     PROVE  FALSE
        BY <3>1 DEF Dies
      <4>2. cache[f] = fip[f] /\ fip[f].del
        BY <1>t, <4>1 DEF Copies
      <4> QED BY <1>2, <2>2, <4>2
    <3> QED BY <3>1, <3>2 DEF FipStep, Born, Changed
  <2> QED BY <2>1, <2>2 DEF CacheStep
<1> QED BY <1>1, <1>2 DEF Objects

-----------------------------------------------------------------------------
(* Copies and their versions                                               *)

Going == {"release", "delpool", "rmfin"}

\* What Copies says of worker v's copy, if it is of the current version.
GoodCopy(v) ==
    /\ workers[v].key \in Owner
    /\ cfresh[workers[v].key]
    /\ fip[workers[v].key].live
    /\ workers[v].pc \in Going => fip[workers[v].key].del
    /\ workers[v].pc = "spec" => fip[workers[v].key].status = NoIP

\* A write makes every copy of the object an old one, unless it changes
\* nothing.
LEMMA PutCopies ==
  ASSUME MInv, NEW f \in Owner, NEW obj, NEW ws \in [Worker -> WorkerState], PutFip(f, obj, ws), UNCHANGED cache,
         \A v \in Worker : ws[v].fresh => ws[v] = workers[v]
  PROVE  Copies'
<1>t. fip \in [Owner -> FloatingIP] /\ cfresh \in [Owner -> BOOLEAN] /\ Copies
  BY DEF MInv, TypeOK
<1>1. CASE obj = fip[f]
  <2>1. fip' = fip /\ cfresh' = cfresh /\ workers' = ws
    BY <1>1, <1>t DEF PutFip
  <2> QED BY <1>t, <2>1 DEF Copies
<1>2. CASE obj # fip[f]
  <2>1. \A g \in Owner : cfresh'[g] => g # f /\ cfresh[g] /\ fip'[g] = fip[g] /\ cache'[g] = cache[g]
    BY <1>2, <1>t DEF PutFip
  <2>2. \A g \in Owner \ {f} : cfresh'[g] = cfresh[g] /\ fip'[g] = fip[g]
    BY <1>2, <1>t DEF PutFip
  <2>3. ASSUME NEW v \in Worker, workers'[v].fresh
        PROVE  GoodCopy(v)'
    <3>1. /\ workers'[v].pc = ws[v].pc /\ workers'[v].key = ws[v].key
          /\ ws[v].fresh /\ ws[v].key # f
      BY <1>2, <2>3, PutWorkers
    <3>2. ws[v] = workers[v] /\ GoodCopy(v)
      BY <1>t, <3>1 DEF Copies, GoodCopy, Going
    <3> QED BY <2>2, <3>1, <3>2 DEF GoodCopy
  <2> QED BY <1>t, <2>1, <2>3 DEF Copies, GoodCopy, Going
<1> QED BY <1>1, <1>2

\* A step that writes no object and no cache: a worker has the copy it had,
\* or one that it has just taken from the cache.
SameCopy(v) ==
    /\ workers[v].fresh /\ workers'[v].key = workers[v].key
    /\ workers'[v].pc \in Going => workers[v].pc \in Going
    /\ workers'[v].pc = "spec" => workers[v].pc = "spec"
NewCopy(v) ==
    /\ workers'[v].key \in Owner
    /\ cfresh[workers'[v].key]
    /\ cache[workers'[v].key].live
    /\ workers'[v].pc \in Going => cache[workers'[v].key].del
    /\ workers'[v].pc = "spec" => cache[workers'[v].key].status = NoIP

\* Then what holds of the copies goes on to hold.
LEMMA QuietCopies ==
  ASSUME MInv, UNCHANGED <<fip, cache, cfresh>>,
         \A v \in Worker : workers'[v].fresh => SameCopy(v) \/ NewCopy(v)
  PROVE  Copies'
<1>t. Copies
  BY DEF MInv
<1>1. ASSUME NEW v \in Worker, workers'[v].fresh
      PROVE  GoodCopy(v)'
  <2>1. CASE SameCopy(v)
    BY <1>t, <2>1 DEF SameCopy, Copies, GoodCopy, Going
  <2>2. CASE NewCopy(v)
    BY <1>t, <2>2 DEF NewCopy, Copies, GoodCopy
  <2> QED BY <1>1, <2>1, <2>2
<1> QED BY <1>1, <1>t DEF Copies, GoodCopy, Going

\* A worker that takes up a key has read what it goes by from the cache.
LEMMA SyncCopies ==
  ASSUME MInv, NEW w \in Worker, NEW f \in Owner, Sync(w, f)
  PROVE  Copies'
<1>t. workers \in [Worker -> WorkerState] /\ Fit(ipam) /\ cache[f] \in FloatingIP
  BY DEF MInv, TypeOK, Fit
<1>q. UNCHANGED <<fip, cache, cfresh>>
  BY DEF Sync, SyncNothing, SyncAddFinalizer, SyncAssigned, SyncNoPool, SyncAllocate, SyncDelete,
     SyncDeleteUnallocated, Unaffected, apiVars, informerVars
<1>n. NoIP \in IPOrNone /\ cache[f].spec \in IPOrNone /\ cache[f].status \in IPOrNone
  BY <1>t DEF IPOrNone, FloatingIP
<1>s. ASSUME NEW v \in Worker, workers'[v] = workers[v], workers'[v].fresh
      PROVE  SameCopy(v)
  BY <1>s DEF SameCopy
<1>e. ASSUME NEW pc \in {"addfin", "error", "spec", "assign", "unassign", "release", "rmfin"},
             NEW a \in IPOrNone, Enter(w, f, pc, a), cache[f].live,
             pc \in {"release", "rmfin"} => cache[f].del,
             pc = "spec" => cache[f].status = NoIP
      PROVE  Copies'
  <2>1. /\ \A v \in Worker \ {w} : workers'[v] = workers[v]
        /\ workers'[w].pc = pc /\ workers'[w].key = f
        /\ workers'[w].fresh => cfresh[f]
    BY <1>e, <1>t, EnterWorkers
  <2>2. workers'[w].fresh => NewCopy(w)
    BY <1>e, <2>1 DEF NewCopy, Going
  <2> QED BY <1>q, <1>s, <2>1, <2>2, QuietCopies
<1>1. CASE SyncNothing(w, f) \/ SyncNoPool(w, f)
  <2>1. UNCHANGED workers
    BY <1>1 DEF SyncNothing, SyncNoPool
  <2> QED BY <1>q, <1>s, <2>1, QuietCopies
<1>2. CASE SyncAddFinalizer(w, f)
  BY <1>2, <1>e, <1>n DEF SyncAddFinalizer
<1>3. CASE SyncAssigned(w, f)
  BY <1>3, <1>e, <1>n DEF SyncAssigned, Reconcilable
<1>4. CASE SyncDelete(w, f)
  BY <1>4, <1>e, <1>n DEF SyncDelete
<1>5. CASE SyncDeleteUnallocated(w, f)
  BY <1>5, <1>e, <1>n DEF SyncDeleteUnallocated
<1>6. CASE SyncAllocate(w, f)
  <2>1. cache[f].live /\ cache[f].status = NoIP
    BY <1>6 DEF SyncAllocate, Reconcilable
  <2>2. CASE Enter(w, f, "error", NoIP)
    BY <1>e, <1>n, <2>1, <2>2
  <2>3. ASSUME NEW a \in GetIPOwned(ipam, cache[f].spec, f), Enter(w, f, "spec", a)
        PROVE  Copies'
    <3>1. a \in IPOrNone
      BY <1>t, <1>n, ClaimFits DEF IPOrNone
    <3> QED BY <1>e, <2>1, <2>3, <3>1
  <2> QED BY <1>6, <2>2, <2>3 DEF SyncAllocate
<1> QED BY <1>1, <1>2, <1>3, <1>4, <1>5, <1>6 DEF Sync

\* A worker goes on with its copy only while it releases.
LEMMA StepCopies ==
  ASSUME MInv, NEW w \in Worker, Step(w)
  PROVE  Copies'
<1> DEFINE f == workers[w].key
<1>t. workers \in [Worker -> WorkerState]
  BY DEF MInv, TypeOK
<1>k. workers[w].pc # "idle" => f \in Owner
  BY <1>t DEF MInv, Keys, WorkerState
<1>n. workers[w].pc # "idle"
  BY DEF Step, AddFinalizer, RecordError, UpdateSpec, SpecFailed, UpdateStatus, UpdatePoolStatus,
     UpdateAssigned, DeleteRelease, DeletePoolStatus, RemoveFinalizer, At
<1>o. f \in Owner
  BY <1>k, <1>n
<1>c. UNCHANGED cache
  <2>1. Untouched \/ Untouched2
    BY DEF Step, AddFinalizer, RecordError, UpdateSpec, SpecFailed, UpdateStatus, UpdatePoolStatus,
       UpdateAssigned, DeleteRelease, DeletePoolStatus, RemoveFinalizer
  <2> QED BY <2>1 DEF Untouched, Untouched2
<1>s. ASSUME NEW v \in Worker, workers'[v] = workers[v], workers'[v].fresh
      PROVE  SameCopy(v)
  BY <1>s DEF SameCopy
<1>f. /\ Finished(w) \in [Worker -> WorkerState] /\ ~ Finished(w)[w].fresh
      /\ \A v \in Worker \ {w} : Finished(w)[v] = workers[v]
  BY <1>t, WorkerValues
<1>m. ASSUME NEW pc \in {"specerr", "status", "pool", "delpool", "rmfin"}
      PROVE  /\ Moved(w, pc) \in [Worker -> WorkerState]
             /\ \A v \in Worker \ {w} : Moved(w, pc)[v] = workers[v]
             /\ Moved(w, pc)[w].pc = pc /\ Moved(w, pc)[w].key = f
             /\ Moved(w, pc)[w].fresh => workers[w].fresh /\ pc \in {"delpool", "rmfin"}
  BY <1>t, MovedWorkers
<1>d. ASSUME NEW ws \in {Finished(w), Moved(w, "specerr"), Moved(w, "status"), Moved(w, "pool")}
      PROVE  /\ ws \in [Worker -> WorkerState]
             /\ \A v \in Worker : ws[v].fresh => ws[v] = workers[v]
  BY <1>f, <1>m
<1>p. ASSUME NEW ws \in {Finished(w), Moved(w, "specerr"), Moved(w, "status"), Moved(w, "pool")},
             NEW obj, PutFip(f, obj, ws)
      PROVE  Copies'
  BY <1>c, <1>d, <1>o, <1>p, PutCopies
<1>q. ASSUME NEW ws \in {Finished(w), Moved(w, "specerr"), Moved(w, "status"), Moved(w, "pool")},
             workers' = ws, UNCHANGED <<fip, cfresh>>
      PROVE  Copies'
  BY <1>c, <1>d, <1>q, <1>s, QuietCopies
<1>1. CASE AddFinalizer(w)
  BY <1>1, <1>p, <1>q DEF AddFinalizer, Call, Commit, CommitThenError, FailCall
<1>2. CASE UpdateAssigned(w) \/ RemoveFinalizer(w)
  BY <1>2, <1>p, <1>q DEF UpdateAssigned, RemoveFinalizer, Call, Commit, CommitThenError, FailCall
<1>3. CASE RecordError(w)
  BY <1>3, <1>p, <1>q DEF RecordError
<1>4. CASE UpdateSpec(w)
  BY <1>4, <1>p, <1>q DEF UpdateSpec, Commit
<1>5. CASE SpecFailed(w)
  BY <1>5, <1>q DEF SpecFailed
<1>6. CASE UpdateStatus(w)
  BY <1>6, <1>p, <1>q DEF UpdateStatus, Call, Commit, CommitThenError, FailCall
<1>7. CASE UpdatePoolStatus(w)
  BY <1>7, <1>q DEF UpdatePoolStatus, PoolFault, Untouched2
<1>8. CASE DeleteRelease(w) \/ DeletePoolStatus(w)
  <2>1. UNCHANGED <<fip, cache, cfresh>> /\ workers[w].pc \in Going
    BY <1>8 DEF DeleteRelease, DeletePoolStatus, Untouched2, At, Going
  <2>2. PICK ws \in {Finished(w), Moved(w, "delpool"), Moved(w, "rmfin")} : workers' = ws
    BY <1>8 DEF DeleteRelease, DeletePoolStatus, PoolFault
  <2>3. workers'[w].fresh => SameCopy(w)
    BY <1>f, <1>m, <2>1, <2>2 DEF SameCopy, Going
  <2>4. \A v \in Worker \ {w} : workers'[v] = workers[v]
    BY <1>f, <1>m, <2>2
  <2> QED BY <1>s, <2>1, <2>3, <2>4, QuietCopies
<1> QED BY <1>1, <1>2, <1>3, <1>4, <1>5, <1>6, <1>7, <1>8 DEF Step

\* Every step keeps the versions straight.
LEMMA CopiesKept ==
  ASSUME MInv, Next
  PROVE  Copies'
<1>t. /\ workers \in [Worker -> WorkerState] /\ Copies
      /\ cache \in [Owner -> FloatingIP] /\ cfresh \in [Owner -> BOOLEAN]
  BY DEF MInv, TypeOK
<1>q. ASSUME UNCHANGED <<fip, cache, cfresh, workers>>
      PROVE  Copies'
  BY <1>q, <1>t DEF Copies
<1>1. CASE User
  <2>1. ASSUME NEW f \in Owner, NEW obj, UserWrite(f, obj)
        PROVE  Copies'
    <3>1. PutFip(f, obj, workers) /\ UNCHANGED cache
      BY <2>1 DEF UserWrite
    <3>2. \A v \in Worker : workers[v].fresh => workers[v] = workers[v]
      OBVIOUS
    <3>3. workers \in [Worker -> WorkerState]
      BY <1>t
    <3> QED BY <3>1, <3>2, <3>3, PutCopies
  <2>2. ASSUME NEW f \in Owner, NEW a \in IPOrNone, NewObject(f, a)
        PROVE  Copies'
    BY <2>1, <2>2 DEF NewObject
  <2>3. ASSUME NEW f \in Owner, NEW new, EditObject(f, new)
        PROVE  Copies'
    BY <2>1, <2>3 DEF EditObject
  <2>4. ASSUME NEW f \in Owner, DeleteObject(f)
        PROVE  Copies'
    BY <2>1, <2>4 DEF DeleteObject
  <2>5. CASE AdminWrite
    BY <1>q, <2>5 DEF AdminWrite
  <2> QED BY <1>1, <2>2, <2>3, <2>4, <2>5, UserKinds
<1>2. CASE InformPool \/ InformPoolGone \/ PoolWorker \/ handleFipPoolDelete
  BY <1>2, <1>q DEF InformPool, InformPoolGone, PoolWorker, PoolList, PoolRefresh, PoolStatus, handleFipPoolDelete,
     apiVars, informerVars, managerVars
<1>3. ASSUME NEW f \in Owner, InformFip(f)
      PROVE  Copies'
  <2>1. UNCHANGED <<fip, workers>> /\ ~ cfresh[f]
    BY <1>3 DEF InformFip, apiVars, managerVars
  <2>2. \A g \in Owner : /\ cfresh'[g] = IF g = f THEN TRUE ELSE cfresh[g]
                         /\ cache'[g] = IF g = f THEN fip[f] ELSE cache[g]
    BY <1>3, <1>t DEF InformFip
  <2> QED BY <1>t, <2>1, <2>2 DEF Copies
<1>4. CASE Restart
  <2>1. UNCHANGED fip /\ cache' = fip /\ \A w \in Worker : ~ workers'[w].fresh
    BY <1>4 DEF Restart, apiVars, Idle
  <2> QED BY <2>1 DEF Copies
<1>5. ASSUME NEW w \in Worker, FipWorker(w)
      PROVE  Copies'
  BY <1>5, SyncCopies, StepCopies DEF FipWorker
<1> QED BY <1>1, <1>2, <1>3, <1>4, <1>5 DEF Next, Informers, Controllers

-----------------------------------------------------------------------------
(* The pool, the queues and the pool worker                                *)

\* The exclude list names addresses, and there is a configuration to start
\* with.
LEMMA ConfigFacts == Excludes \subseteq Addr /\ StartConfig \in Configs /\ StartConfig \in Config
<1>1. PICK c \in Configs : RefreshOK(c, Excludes)
  BY ClusterAssumption
<1>2. buildSubnet(c).ips \subseteq Addr
  BY DEF buildSubnet, Absent
<1>3. Excludes \subseteq Addr
  BY <1>1, <1>2 DEF RefreshOK
<1>4. StartConfig \in Configs
  BY <1>1 DEF StartConfig
<1> QED BY <1>3, <1>4, ClusterAssumption

\* status.available is a count.
LEMMA AvailableNat ==
  ASSUME NEW s, Fit(s)
  PROVE  Available(s) \in Nat
<1>1. IsFiniteSet(Free(s))
  BY FS_Subset DEF Fit, Free
<1> QED BY <1>1, FS_CardinalityType DEF Available

PoolOK == pool \in FloatingIPPool /\ pool.avail \in Nat

\* A pool as it is created, or as the manager finds it.
LEMMA FreshPool ==
  ASSUME NEW b \in BOOLEAN, NEW c \in Configs, NEW al \in SUBSET Addr, NEW n \in Nat
  PROVE  LET obj == [live |-> b, cfg |-> c, alloc |-> al, avail |-> n]
         IN  obj \in FloatingIPPool /\ obj.avail \in Nat
<1>1. n \in Int
  OBVIOUS
<1> QED BY <1>1 DEF FloatingIPPool

\* A status write: other addresses, another count.
LEMMA PoolWrite ==
  ASSUME PoolOK, NEW al \in SUBSET Addr, NEW n \in Nat, PutPool([pool EXCEPT !.alloc = al, !.avail = n])
  PROVE  PoolOK'
<1> DEFINE obj == [pool EXCEPT !.alloc = al, !.avail = n]
<1>1. n \in Int
  OBVIOUS
<1>2. obj \in FloatingIPPool /\ obj.avail = n
  BY <1>1 DEF PoolOK, FloatingIPPool
<1>3. pool' = obj
  BY DEF PutPool
<1> HIDE DEF obj
<1> QED BY <1>2, <1>3 DEF PoolOK

\* What is written into the pool's status are addresses and a count.
LEMMA NextPool ==
  ASSUME MInv, Next
  PROVE  PoolOK'
<1>t. PoolOK /\ Fit(ipam) /\ workers \in [Worker -> WorkerState]
  BY DEF MInv, TypeOK, Fit, PoolOK
<1>a. Available(ipam) \in Nat /\ pool.alloc \subseteq Addr
  BY <1>t, AvailableNat DEF PoolOK, FloatingIPPool
<1>u. UNCHANGED pool => PoolOK'
  BY <1>t DEF PoolOK
<1> DEFINE n == Available(ipam)
<1>n. n \in Nat
  BY <1>a
<1>1. CASE User
  <2>1. ASSUME NEW c \in Configs, AdminCreatePool(c)
        PROVE  PoolOK'
    <3>1. pool' = [live |-> TRUE, cfg |-> c, alloc |-> {}, avail |-> 0]
      BY <2>1 DEF AdminCreatePool, PutPool
    <3> QED BY <3>1, FreshPool DEF PoolOK
  <2>2. ASSUME NEW c \in Configs, AdminEditPool(c)
        PROVE  PoolOK'
    <3>1. pool' = [pool EXCEPT !.cfg = c]
      BY <2>2 DEF AdminEditPool, PutPool
    <3> QED BY <1>t, <3>1 DEF PoolOK, FloatingIPPool
  <2>3. CASE AdminDeletePool
    <3> DEFINE b  == FALSE
               al == {}
               i  == 0
               o  == [pool EXCEPT !.live = b, !.alloc = al, !.avail = i]
    <3>1. pool' = o
      BY <2>3 DEF AdminDeletePool, PutPool
    <3>2. b \in BOOLEAN /\ al \in SUBSET Addr /\ i \in Int /\ i \in Nat
      OBVIOUS
    <3> HIDE DEF b, al, i
    <3>3. o \in FloatingIPPool /\ o.avail = i
      BY <1>t, <3>2 DEF PoolOK, FloatingIPPool
    <3> HIDE DEF o
    <3>4. pool' \in FloatingIPPool /\ pool'.avail \in Nat
      BY <3>1, <3>2, <3>3
    <3> QED BY <3>4 DEF PoolOK
  <2>4. CASE UNCHANGED pool
    BY <1>u, <2>4
  <2> QED BY <1>1, <2>1, <2>2, <2>3, <2>4 DEF User, UserCreate, UserCreateRaced, UserLabel, UserRepin, UserEdit,
             UserDelete
<1>2. CASE Informers \/ handleFipPoolDelete \/ Restart \/ PoolList \/ PoolRefresh
  BY <1>2, <1>u DEF Informers, InformFip, InformPool, InformPoolGone, handleFipPoolDelete, Restart, PoolList,
     PoolRefresh, apiVars
<1>3. CASE PoolStatus
  <2> DEFINE al == Excludes \cup pworker.list
  <2>1. al \in SUBSET Addr
    BY ConfigFacts DEF MInv, TypeOK, PoolWorkerState
  <2>2. UNCHANGED pool \/ PutPool([pool EXCEPT !.alloc = al, !.avail = n])
    BY <1>3 DEF PoolStatus
  <2> HIDE DEF al, n
  <2> QED BY <1>n, <1>t, <1>u, <2>1, <2>2, PoolWrite
<1>4. ASSUME NEW w \in Worker, NEW f \in Owner, Sync(w, f)
      PROVE  PoolOK'
  BY <1>4, <1>u DEF Sync, SyncNothing, SyncAddFinalizer, SyncAssigned, SyncNoPool, SyncAllocate, SyncDelete,
     SyncDeleteUnallocated, Unaffected, apiVars
<1>5. ASSUME NEW w \in Worker, Step(w)
      PROVE  PoolOK'
  <2>1. CASE UpdatePoolStatus(w)
    <3> DEFINE al == pool.alloc \cup {workers[w].ip}
    <3>1. al \in SUBSET Addr
      BY <1>a, <2>1 DEF UpdatePoolStatus, At, MInv, Keys
    <3>2. UNCHANGED pool \/ PutPool([pool EXCEPT !.alloc = al, !.avail = n])
      BY <2>1 DEF UpdatePoolStatus, PoolFault
    <3> HIDE DEF al, n
    <3> QED BY <1>n, <1>t, <1>u, <3>1, <3>2, PoolWrite
  <2>2. CASE DeletePoolStatus(w)
    <3> DEFINE al == pool.alloc \ {workers[w].ip}
    <3>1. al \in SUBSET Addr
      BY <1>a
    <3>2. UNCHANGED pool \/ PutPool([pool EXCEPT !.alloc = al, !.avail = n])
      BY <2>2 DEF DeletePoolStatus, PoolFault
    <3> HIDE DEF al, n
    <3> QED BY <1>n, <1>t, <1>u, <3>1, <3>2, PoolWrite
  <2>3. CASE UNCHANGED pool
    BY <1>u, <2>3
  <2> QED BY <1>5, <2>1, <2>2, <2>3 DEF Step, AddFinalizer, RecordError, UpdateSpec, SpecFailed, UpdateStatus,
             UpdateAssigned, DeleteRelease, RemoveFinalizer, PoolFault, Untouched
<1> QED BY <1>1, <1>2, <1>3, <1>4, <1>5 DEF Next, Controllers, FipWorker, PoolWorker

\* The watch's side: caches of the pool, and the flags of its events.
LEMMA NextEvents ==
  ASSUME MInv, Next
  PROVE  /\ pcache' \in [live : BOOLEAN, cfg : Configs]
         /\ cfresh' \in [Owner -> BOOLEAN]
         /\ {pfresh', pgone', delEvt', upEvt', poolQ', started'} \subseteq BOOLEAN
<1>t. /\ pool.live \in BOOLEAN /\ pool.cfg \in Configs
      /\ pcache \in [live : BOOLEAN, cfg : Configs]
      /\ cfresh \in [Owner -> BOOLEAN]
      /\ {pfresh, pgone, delEvt, upEvt, poolQ, started} \subseteq BOOLEAN
  BY DEF MInv, TypeOK, FloatingIPPool
<1>1. pcache' \in [live : BOOLEAN, cfg : Configs]
  <2>1. \/ pcache' = pcache
        \/ pcache' = [live |-> TRUE, cfg |-> pool.cfg]
        \/ pcache' = [live |-> pool.live, cfg |-> pool.cfg]
        \/ pcache' = [pcache EXCEPT !.live = FALSE]
    <3>1. CASE User
      BY <3>1 DEF User, UserCreate, UserCreateRaced, UserLabel, UserRepin, UserEdit, UserDelete, AdminCreatePool,
         AdminEditPool, AdminDeletePool
    <3>2. CASE Informers \/ PoolWorker \/ handleFipPoolDelete \/ Restart
      BY <3>2 DEF Informers, InformFip, InformPool, InformPoolGone, PoolWorker, PoolList, PoolRefresh, PoolStatus,
         handleFipPoolDelete, Restart, informerVars
    <3>3. ASSUME NEW w \in Worker, NEW f \in Owner, Sync(w, f)
          PROVE  pcache' = pcache
      BY <3>3 DEF Sync, SyncNothing, SyncAddFinalizer, SyncAssigned, SyncNoPool, SyncAllocate, SyncDelete,
         SyncDeleteUnallocated, Unaffected, informerVars
    <3>4. ASSUME NEW w \in Worker, Step(w)
          PROVE  pcache' = pcache
      BY <3>4 DEF Step, AddFinalizer, RecordError, UpdateSpec, SpecFailed, UpdateStatus, UpdatePoolStatus,
         UpdateAssigned, DeleteRelease, DeletePoolStatus, RemoveFinalizer, Untouched, Untouched2
    <3> QED BY <3>1, <3>2, <3>3, <3>4 DEF Next, Controllers, FipWorker
  <2>2. ASSUME NEW b \in BOOLEAN, NEW c \in Configs
        PROVE  [live |-> b, cfg |-> c] \in [live : BOOLEAN, cfg : Configs]
    OBVIOUS
  <2>3. [pcache EXCEPT !.live = FALSE] \in [live : BOOLEAN, cfg : Configs]
    BY <1>t
  <2> QED BY <1>t, <2>1, <2>2, <2>3
<1>2. cfresh' \in [Owner -> BOOLEAN]
  <2>p. ASSUME NEW f \in Owner, NEW obj, NEW ws, PutFip(f, obj, ws)
        PROVE  cfresh' \in [Owner -> BOOLEAN]
    BY <1>t, <2>p DEF PutFip
  <2>u. UNCHANGED cfresh => cfresh' \in [Owner -> BOOLEAN]
    BY <1>t
  <2>1. CASE User
    BY <2>1, <2>p, <2>u DEF User, UserCreate, UserCreateRaced, UserLabel, UserRepin, UserEdit, UserDelete,
       AdminCreatePool, AdminEditPool, AdminDeletePool
  <2>2. CASE Informers \/ PoolWorker \/ handleFipPoolDelete \/ Restart
    BY <1>t, <2>2, <2>u DEF Informers, InformFip, InformPool, InformPoolGone, PoolWorker, PoolList, PoolRefresh,
       PoolStatus, handleFipPoolDelete, Restart, informerVars
  <2>3. ASSUME NEW w \in Worker, NEW f \in Owner, Sync(w, f)
        PROVE  cfresh' = cfresh
    BY <2>3 DEF Sync, SyncNothing, SyncAddFinalizer, SyncAssigned, SyncNoPool, SyncAllocate, SyncDelete,
       SyncDeleteUnallocated, Unaffected, informerVars
  <2>4. ASSUME NEW w \in Worker, Step(w)
        PROVE  UNCHANGED cfresh \/ \E f \in Owner : \E obj, ws : PutFip(f, obj, ws)
    <3> DEFINE f == workers[w].key
    <3>k. workers[w].pc # "idle" => f \in Owner
      BY DEF MInv, TypeOK, Keys, WorkerState
    <3>n. workers[w].pc # "idle"
      BY <2>4 DEF Step, AddFinalizer, RecordError, UpdateSpec, SpecFailed, UpdateStatus, UpdatePoolStatus,
         UpdateAssigned, DeleteRelease, DeletePoolStatus, RemoveFinalizer, At
    <3>c. ASSUME NEW obj, NEW can, NEW ok, NEW err, Call(w, f, obj, can, ok, err)
          PROVE  UNCHANGED cfresh \/ \E ws : PutFip(f, obj, ws)
      BY <3>c DEF Call, Commit, CommitThenError, FailCall
    <3>1. UNCHANGED cfresh \/ \E obj, ws : PutFip(f, obj, ws)
      BY <2>4, <3>c DEF Step, AddFinalizer, RecordError, UpdateSpec, SpecFailed, UpdateStatus, UpdatePoolStatus,
         UpdateAssigned, DeleteRelease, DeletePoolStatus, RemoveFinalizer, Untouched2, Commit
    <3> QED BY <3>k, <3>n, <3>1
  <2> QED BY <2>p, <2>u, <2>1, <2>2, <2>3, <2>4 DEF Next, Controllers, FipWorker
<1>3. {pfresh', pgone', delEvt', upEvt', poolQ', started'} \subseteq BOOLEAN
  <2>p. ASSUME NEW obj, PutPool(obj)
        PROVE  pfresh' \in BOOLEAN
    BY <2>p DEF PutPool
  <2>1. CASE User
    BY <1>t, <2>1, <2>p DEF User, UserCreate, UserCreateRaced, UserLabel, UserRepin, UserEdit, UserDelete,
       AdminCreatePool, AdminEditPool, AdminDeletePool, queueVars, managerVars
  <2>2. CASE Informers \/ PoolWorker \/ handleFipPoolDelete \/ Restart
    BY <1>t, <2>2, <2>p DEF Informers, InformFip, InformPool, InformPoolGone, PoolWorker, PoolList, PoolRefresh,
       PoolStatus, PoolDone, handleFipPoolDelete, Restart, informerVars, queueVars, managerVars
  <2>3. ASSUME NEW w \in Worker, NEW f \in Owner, Sync(w, f)
        PROVE  UNCHANGED <<pfresh, pgone, delEvt, upEvt, poolQ, started>>
    BY <2>3 DEF Sync, SyncNothing, SyncAddFinalizer, SyncAssigned, SyncNoPool, SyncAllocate, SyncDelete,
       SyncDeleteUnallocated, Unaffected, informerVars
  <2>4. ASSUME NEW w \in Worker, Step(w)
        PROVE  UNCHANGED <<pgone, delEvt, upEvt, poolQ, started>> /\ (UNCHANGED pfresh \/ \E obj : PutPool(obj))
    BY <2>4 DEF Step, AddFinalizer, RecordError, UpdateSpec, SpecFailed, UpdateStatus, UpdatePoolStatus,
       UpdateAssigned, DeleteRelease, DeletePoolStatus, RemoveFinalizer, PoolFault, Untouched, Untouched2
  <2>5. CASE UNCHANGED <<pgone, delEvt, upEvt, poolQ, started>> /\ (UNCHANGED pfresh \/ \E obj : PutPool(obj))
    BY <1>t, <2>p, <2>5
  <2> QED BY <2>1, <2>2, <2>3, <2>4, <2>5 DEF Next, Controllers, FipWorker
<1> QED BY <1>1, <1>2, <1>3

\* The keys in the queue are names of FloatingIPs.
LEMMA NextQueue ==
  ASSUME MInv, Next
  PROVE  queue' \subseteq Owner
<1>t. queue \subseteq Owner
  BY DEF MInv, TypeOK
<1>1. CASE User
  BY <1>t, <1>1 DEF User, UserCreate, UserCreateRaced, UserLabel, UserRepin, UserEdit, UserDelete,
     AdminCreatePool, AdminEditPool, AdminDeletePool, queueVars
<1>2. CASE Informers \/ PoolWorker \/ handleFipPoolDelete \/ Restart
  BY <1>t, <1>2 DEF Informers, InformFip, InformPool, InformPoolGone, PoolWorker, PoolList, PoolRefresh,
     PoolStatus, handleFipPoolDelete, Restart, queueVars
<1>3. ASSUME NEW w \in Worker, NEW f \in Owner, Sync(w, f)
      PROVE  queue' \subseteq Owner
  BY <1>t, <1>3 DEF Sync, SyncNothing, SyncAddFinalizer, SyncAssigned, SyncNoPool, SyncAllocate, SyncDelete,
     SyncDeleteUnallocated, TakeKey
<1>4. ASSUME NEW w \in Worker, Step(w)
      PROVE  queue' \subseteq Owner
  <2>k. workers[w].pc # "idle" => workers[w].key \in Owner
    BY DEF MInv, TypeOK, Keys, WorkerState
  <2>n. workers[w].pc # "idle"
    BY <1>4 DEF Step, AddFinalizer, RecordError, UpdateSpec, SpecFailed, UpdateStatus, UpdatePoolStatus,
       UpdateAssigned, DeleteRelease, DeletePoolStatus, RemoveFinalizer, At
  <2>c. ASSUME NEW f, NEW obj, NEW can, NEW ok, NEW err, Call(w, f, obj, can, ok, err)
        PROVE  UNCHANGED queue \/ Requeue(w)
    BY <2>c DEF Call, Commit, CommitThenError, FailCall
  <2>1. UNCHANGED queue \/ Requeue(w)
    BY <1>4, <2>c DEF Step, AddFinalizer, RecordError, UpdateSpec, SpecFailed, UpdateStatus, UpdatePoolStatus,
       UpdateAssigned, DeleteRelease, DeletePoolStatus, RemoveFinalizer, PoolFault, Commit
  <2> QED BY <1>t, <2>k, <2>n, <2>1 DEF Requeue
<1> QED BY <1>1, <1>2, <1>3, <1>4 DEF Next, Controllers, FipWorker

\* The pool worker's list holds addresses, and its configuration is the
\* pool's.
LEMMA NextPoolWorker ==
  ASSUME MInv, Next
  PROVE  pworker' \in PoolWorkerState
<1>t. /\ pworker \in PoolWorkerState /\ pcache.cfg \in Configs /\ cache \in [Owner -> FloatingIP]
  BY DEF MInv, TypeOK
<1>i. PoolIdle \in PoolWorkerState
  BY ConfigFacts DEF PoolIdle, PoolWorkerState
<1>l. ListAllocations \subseteq Addr
  BY <1>t DEF ListAllocations, FloatingIP, IPOrNone
<1>1. \/ pworker' = pworker
      \/ pworker' = PoolIdle
      \/ pworker' = [pc |-> "refresh", cfg |-> pcache.cfg, list |-> ListAllocations]
      \/ pworker' = [pworker EXCEPT !.pc = "status"]
  <2>1. CASE User \/ Informers
    BY <2>1 DEF User, UserCreate, UserCreateRaced, UserLabel, UserRepin, UserEdit, UserDelete,
       AdminCreatePool, AdminEditPool, AdminDeletePool, Informers, InformFip, InformPool, InformPoolGone, managerVars
  <2>2. CASE PoolWorker \/ handleFipPoolDelete \/ Restart
    BY <2>2 DEF PoolWorker, PoolList, PoolRefresh, PoolStatus, PoolDone, handleFipPoolDelete, Restart
  <2>3. ASSUME NEW w \in Worker, NEW f \in Owner, Sync(w, f)
        PROVE  pworker' = pworker
    BY <2>3 DEF Sync, SyncNothing, SyncAddFinalizer, SyncAssigned, SyncNoPool, SyncAllocate, SyncDelete,
       SyncDeleteUnallocated, Unaffected
  <2>4. ASSUME NEW w \in Worker, Step(w)
        PROVE  pworker' = pworker
    BY <2>4 DEF Step, AddFinalizer, RecordError, UpdateSpec, SpecFailed, UpdateStatus, UpdatePoolStatus,
       UpdateAssigned, DeleteRelease, DeletePoolStatus, RemoveFinalizer, Untouched, Untouched2
  <2> QED BY <2>1, <2>2, <2>3, <2>4 DEF Next, Controllers, FipWorker
<1> HIDE DEF PoolIdle, ListAllocations
<1> QED BY <1>t, <1>i, <1>l, <1>1 DEF PoolWorkerState

-----------------------------------------------------------------------------
(* The invariant and what follows from it                                  *)

\* Nothing exists and nobody works, in the beginning.
LEMMA InitM == Init => MInv
<1> SUFFICES ASSUME Init
             PROVE  MInv
  OBVIOUS
<1>g. Gone \in FloatingIP /\ ~ Gone.live /\ ~ Gone.del /\ ~ Gone.fin
  BY DEF Gone, FloatingIP, IPOrNone
<1>i. Idle \in WorkerState /\ Idle.pc = "idle" /\ Idle.key = NoOwner /\ ~ Idle.fresh
  BY DEF Idle, WorkerState, IPOrNone
<1>f. \A f \in Owner : fip[f] = Gone /\ cache[f] = Gone /\ cfresh[f] = TRUE
  BY DEF Init
<1>w. \A w \in Worker : workers[w] = Idle
  BY DEF Init
<1> DEFINE empty == Refreshed(Absent, StartConfig, Excludes, {})
<1>e. Fit(Absent) /\ Fit(empty) /\ \A f \in Owner : OwnedBy(Absent, f) = {} /\ OwnedBy(empty, f) = {}
  BY AbsentFits, RefreshFits, ConfigFacts DEF NoNewClaims
<1>a. Available(empty) \in Nat
  BY <1>e, AvailableNat
<1> HIDE DEF empty, Gone, Idle
<1>1. Fit(ipam) /\ \A f \in Owner : OwnedBy(ipam, f) = {}
  BY <1>e DEF Init, empty
<1>2. PoolOK
  <2> DEFINE n == Available(empty)
  <2>1. n \in Nat /\ n \in Int
    BY <1>a
  <2>2. \/ pool = [live |-> TRUE, cfg |-> StartConfig, alloc |-> Excludes, avail |-> n]
        \/ pool = [live |-> FALSE, cfg |-> StartConfig, alloc |-> {}, avail |-> 0]
    BY DEF Init, empty
  <2> HIDE DEF n
  <2> QED BY <2>1, <2>2, ConfigFacts, FreshPool DEF PoolOK
<1>3. /\ pcache \in [live : BOOLEAN, cfg : Configs]
      /\ cfresh \in [Owner -> BOOLEAN]
      /\ {pfresh, pgone, delEvt, upEvt, poolQ, started} \subseteq BOOLEAN
      /\ queue \subseteq Owner
  BY ConfigFacts, ClusterAssumption DEF Init
<1>4. pworker \in PoolWorkerState
  BY ConfigFacts DEF Init, PoolIdle, PoolWorkerState
<1>5. /\ fip \in [Owner -> FloatingIP] /\ cache \in [Owner -> FloatingIP]
      /\ workers \in [Worker -> WorkerState]
  BY <1>g, <1>i DEF Init
<1>6. TypeOK
  BY <1>1, <1>2, <1>3, <1>4, <1>5, <1>f, <1>g DEF TypeOK, PoolOK, Fit
<1>7. Keys /\ Copies /\ Objects
  BY <1>f, <1>g, <1>i, <1>w, OwnerAssumption DEF Keys, Copies, Objects
<1>8. Claims /\ Untold
  BY <1>1, <1>i, <1>w DEF Claims, Untold
<1> QED BY <1>1, <1>6, <1>7, <1>8 DEF MInv, Fit

\* No step breaks the invariant.
LEMMA NextM == MInv /\ [Next]_vars => MInv'
<1>1. ASSUME MInv, Next
      PROVE  MInv'
  <2>1. WorkerStep /\ IpamStep /\ FipStep /\ CacheStep
    BY <1>1, NextSteps, NextFip, NextCache
  <2>2. Keys' /\ Claims' /\ Untold' /\ Objects' /\ Copies'
    BY <1>1, <2>1, KeysKept, ClaimsKept, UntoldKept, ObjectsKept, CopiesKept
  <2>3. \A f \in Owner : fip'[f].del => fip'[f].fin
    <3>1. \A f \in Owner : fip[f].del => fip[f].fin
      BY <1>1 DEF MInv, TypeOK
    <3> QED BY <2>1, <3>1 DEF FipStep, Born, Changed, Dies, Gone
  <2>4. TypeOK'
    BY <1>1, <2>1, <2>3, NextPool, NextEvents, NextQueue, NextPoolWorker
    DEF TypeOK, PoolOK, WorkerStep, IpamStep, FipStep, CacheStep, Fit
  <2> QED BY <2>1, <2>2, <2>4 DEF MInv, IpamStep, Fit
<1>2. ASSUME MInv, UNCHANGED vars
      PROVE  MInv'
  <2>1. UNCHANGED <<fip, pool, cache, cfresh, pcache, pfresh, pgone, delEvt, upEvt, queue, poolQ, workers, pworker,
                    ipam, started>>
    BY <1>2 DEF vars, apiVars, informerVars, queueVars, managerVars
  <2>2. TypeOK'
    BY <1>2, <2>1 DEF MInv, TypeOK
  <2>3. Keys' /\ Copies' /\ Objects'
    BY <1>2, <2>1 DEF MInv, Keys, Copies, Objects
  <2>4. Claims' /\ Untold'
    BY <1>2, <2>1 DEF MInv, Claims, Untold
  <2> QED BY <1>2, <2>1, <2>2, <2>3, <2>4 DEF MInv
<1> QED BY <1>1, <1>2

\* The inductive invariant holds throughout, restarts included.
THEOREM Invariance == Spec => []MInv
  BY InitM, NextM, PTL DEF Spec

\* The manager's state keeps its shape; in particular status.available is never
\* negative, and a terminating FloatingIP has the controller's finalizer.
THEOREM TypeCorrect == Spec => []TypeOK
<1>1. MInv => TypeOK
  BY DEF MInv
<1> QED BY <1>1, Invariance, PTL

\* No claim in the allocator outlives its FloatingIP: reconcileDelete sweeps
\* before it removes the finalizer, nobody else works on the key meanwhile, and
\* a worker with an old copy cannot claim for an object that is gone.
THEOREM NoOrphanAlways == Spec => []NoOrphanedClaim
<1>1. MInv => NoOrphanedClaim
  BY DEF MInv, Claims, NoOrphanedClaim
<1> QED BY <1>1, Invariance, PTL

\* status.ipAddr, once written, is never replaced or cleared while the object
\* lives: the retried write of the status is reached only from a spec update with
\* a current copy that had no address, and by one worker per FloatingIP.
THEOREM AddressStays == Spec => AddressNeverMoves
<1> DEFINE Keeps == \A f \in Owner : fip[f].status # NoIP => fip'[f].status = fip[f].status \/ ~ fip'[f].live
<1>1. ASSUME MInv, Next
      PROVE  Keeps
  <2>1. FipStep /\ Objects /\ Untold
    BY <1>1, NextFip DEF MInv
  <2>2. ASSUME NEW f \in Owner, fip[f].status # NoIP
        PROVE  fip'[f].status = fip[f].status \/ ~ fip'[f].live
    <3>1. fip[f].live
      BY <2>1, <2>2 DEF Objects, Gone
    <3>2. \A w \in Worker : ~ Tells(w, f)
      BY <2>1, <2>2 DEF Untold, Tells
    <3> QED BY <2>1, <3>1, <3>2 DEF FipStep, Born, Changed, Dies, Gone
  <2> QED BY <2>2
<1>2. MInv /\ [Next]_vars => [Keeps]_vars
  BY <1>1
<1> QED BY <1>2, Invariance, PTL DEF Spec, AddressNeverMoves

-----------------------------------------------------------------------------
(* At rest: the allocator's range                                          *)

\* The range of a refreshed subnet is that of the configuration.
LEMMA RefreshRange ==
  ASSUME NEW s, NEW c, NEW ex, NEW al
  PROVE  Refreshed(s, c, ex, al).ips = buildSubnet(c).ips
<1> DEFINE b == buildSubnet(c)
           u == b.used \cup ((ex \cup al \cup Carried(s, b)) \cap b.ips)
           o == [a \in Addr |-> IF a \in Carried(s, b) THEN s.owners[a] ELSE NoOwner]
<1>1. Refreshed(s, c, ex, al) = [[b EXCEPT !.used = u] EXCEPT !.owners = o]
  BY DEF Refreshed, MarkUsed
<1>2. b \in Subnet
  BY DEF buildSubnet, Absent, Subnet
<1> HIDE DEF b, u, o
<1> QED BY <1>1, <1>2 DEF Subnet, b

\* Claims and releases leave the range alone.
LEMMA SameRange ==
  ASSUME NEW s \in Subnet, NEW a, NEW f
  PROVE  Claim(s, a, f).ips = s.ips /\ releaseIP(s, a).ips = s.ips /\ ReleaseAllByOwner(s, f).ips = s.ips
<1>1. ASSUME NEW u, NEW o
      PROVE  [s EXCEPT !.used = u, !.owners = o].ips = s.ips
  BY DEF Subnet
<1> QED BY <1>1 DEF Claim, releaseIP, ReleaseAllByOwner

\* What a step does to the pool worker.
LEMMA PoolWorkerKinds ==
  ASSUME MInv, Next
  PROVE  \/ pworker' = pworker
         \/ pworker'.pc = "idle"
         \/ /\ pcache.live /\ pworker'.pc = "refresh" /\ pworker'.cfg = pcache.cfg /\ pworker'.list = ListAllocations
            /\ UNCHANGED <<fip, pool, cache, ipam>>
         \/ pworker.pc = "refresh" /\ pworker'.pc = "status" /\ pworker'.cfg = pworker.cfg /\ UNCHANGED pool
<1>1. CASE User \/ Informers
  BY <1>1 DEF User, UserCreate, UserCreateRaced, UserLabel, UserRepin, UserEdit, UserDelete,
     AdminCreatePool, AdminEditPool, AdminDeletePool, Informers, InformFip, InformPool, InformPoolGone, managerVars
<1>2. CASE PoolList
  BY <1>2 DEF PoolList, apiVars, informerVars
<1>3. CASE PoolRefresh
  <2>1. pworker \in PoolWorkerState
    BY DEF MInv, TypeOK
  <2>2. CASE pworker' = [pworker EXCEPT !.pc = "status"]
    BY <1>3, <2>1, <2>2 DEF PoolRefresh, PoolWorkerState, apiVars
  <2>3. CASE pworker' = PoolIdle
    BY <2>3 DEF PoolIdle
  <2> QED BY <1>3, <2>2, <2>3 DEF PoolRefresh, PoolDone
<1>4. CASE PoolStatus \/ Restart \/ handleFipPoolDelete
  <2>1. pworker' = pworker \/ pworker' = PoolIdle
    BY <1>4 DEF PoolStatus, PoolDone, Restart, handleFipPoolDelete
  <2> QED BY <2>1 DEF PoolIdle
<1>5. ASSUME NEW w \in Worker, NEW f \in Owner, Sync(w, f)
      PROVE  pworker' = pworker
  BY <1>5 DEF Sync, SyncNothing, SyncAddFinalizer, SyncAssigned, SyncNoPool, SyncAllocate, SyncDelete,
     SyncDeleteUnallocated, Unaffected
<1>6. ASSUME NEW w \in Worker, Step(w)
      PROVE  pworker' = pworker
  BY <1>6 DEF Step, AddFinalizer, RecordError, UpdateSpec, SpecFailed, UpdateStatus, UpdatePoolStatus,
     UpdateAssigned, DeleteRelease, DeletePoolStatus, RemoveFinalizer, Untouched, Untouched2
<1> QED BY <1>1, <1>2, <1>3, <1>4, <1>5, <1>6 DEF Next, Controllers, FipWorker, PoolWorker

\* The manager has the pool as it is, or will hear of it; and has its range in
\* the allocator, or a refresh is due or under way that will put it there.
PoolFollowed ==
    /\ pfresh => pool.live /\ pcache.live /\ pcache.cfg = pool.cfg
    /\ pgone => ~ pfresh
    /\ delEvt /\ pfresh => upEvt
    /\ pfresh /\ ~ delEvt /\ ~ poolQ =>
          IF pworker.pc = "refresh" THEN pworker.cfg = pool.cfg ELSE ipam.ips = buildSubnet(pool.cfg).ips

\* A status write keeps the pool and its range, and shows the watch an object
\* that it has not seen.
LEMMA StatusWrite ==
  ASSUME pool \in FloatingIPPool, NEW al, NEW n, PutPool([pool EXCEPT !.alloc = al, !.avail = n])
  PROVE  pool'.live = pool.live /\ pool'.cfg = pool.cfg /\ (pfresh' => pfresh)
  BY DEF PutPool, FloatingIPPool

\* What the workers do to the pool, its events and the range: status writes.
LEMMA WorkerKeepsRange ==
  ASSUME MInv, NEW w \in Worker, FipWorker(w)
  PROVE  /\ pool'.live = pool.live /\ pool'.cfg = pool.cfg /\ (pfresh' => pfresh)
         /\ UNCHANGED <<pcache, pgone, delEvt, upEvt, poolQ, pworker>>
         /\ ipam'.ips = ipam.ips
<1>t. ipam \in Subnet /\ pool \in FloatingIPPool
  BY DEF MInv, TypeOK
<1>r. ASSUME NEW a, NEW f
      PROVE  OwnedRelease(a, f) \in Subnet /\ OwnedRelease(a, f).ips = ipam.ips
  <2>1. Fit(ipam)
    BY DEF MInv, TypeOK, Fit
  <2>2. Fit(releaseIP(ipam, a)) /\ releaseIP(ipam, a).ips = ipam.ips
    BY <1>t, <2>1, ReleaseFits, SameRange
  <2> QED BY <1>t, <2>2 DEF OwnedRelease, Fit
<1>s. ASSUME NEW a, NEW f
      PROVE  ReleaseAllByOwner(OwnedRelease(a, f), f).ips = ipam.ips
  BY <1>r, SameRange
<1>1. ASSUME NEW f \in Owner, Sync(w, f)
      PROVE  UNCHANGED <<pool, pfresh, pcache, pgone, delEvt, upEvt, poolQ, pworker>> /\ ipam'.ips = ipam.ips
  <2>1. UNCHANGED <<pool, pfresh, pcache, pgone, delEvt, upEvt, poolQ, pworker>>
    BY <1>1 DEF Sync, SyncNothing, SyncAddFinalizer, SyncAssigned, SyncNoPool, SyncAllocate, SyncDelete,
       SyncDeleteUnallocated, Unaffected, apiVars, informerVars
  <2>2. \/ UNCHANGED ipam
        \/ \E a : ipam' = Claim(ipam, a, f)
        \/ \E a : ipam' = ReleaseAllByOwner(OwnedRelease(a, f), f)
    BY <1>1 DEF Sync, SyncNothing, SyncAddFinalizer, SyncAssigned, SyncNoPool, SyncAllocate, SyncDelete,
       SyncDeleteUnallocated
  <2> QED BY <1>s, <1>t, <2>1, <2>2, SameRange
<1>2. CASE Step(w)
  <2>1. UNCHANGED <<pcache, pgone, delEvt, upEvt, poolQ, pworker>>
    BY <1>2 DEF Step, AddFinalizer, RecordError, UpdateSpec, SpecFailed, UpdateStatus, UpdatePoolStatus,
       UpdateAssigned, DeleteRelease, DeletePoolStatus, RemoveFinalizer, Untouched, Untouched2
  <2>2. UNCHANGED <<pool, pfresh>> \/ \E al, n : PutPool([pool EXCEPT !.alloc = al, !.avail = n])
    <3>1. CASE UpdatePoolStatus(w)
      BY <3>1 DEF UpdatePoolStatus, PoolFault
    <3>2. CASE DeletePoolStatus(w)
      BY <3>2 DEF DeletePoolStatus, PoolFault
    <3> QED BY <1>2, <3>1, <3>2 DEF Step, AddFinalizer, RecordError, UpdateSpec, SpecFailed, UpdateStatus,
               UpdateAssigned, DeleteRelease, RemoveFinalizer, PoolFault, Untouched
  <2>3. \/ UNCHANGED ipam
        \/ \E a, f : ipam' = OwnedRelease(a, f)
        \/ \E a : ipam' = releaseIP(ipam, a)
        \/ \E f : ipam' = ReleaseAllByOwner(ipam, f)
    BY <1>2 DEF Step, AddFinalizer, RecordError, UpdateSpec, SpecFailed, UpdateStatus, UpdatePoolStatus,
       UpdateAssigned, DeleteRelease, DeletePoolStatus, RemoveFinalizer, PoolFault
  <2>4. ipam'.ips = ipam.ips
    BY <1>r, <1>t, <2>3, SameRange
  <2>5. pool'.live = pool.live /\ pool'.cfg = pool.cfg /\ (pfresh' => pfresh)
    <3>1. CASE UNCHANGED <<pool, pfresh>>
      BY <3>1
    <3>2. ASSUME NEW al, NEW n, PutPool([pool EXCEPT !.alloc = al, !.avail = n])
          PROVE  pool'.live = pool.live /\ pool'.cfg = pool.cfg /\ (pfresh' => pfresh)
      BY <1>t, <3>2, StatusWrite
    <3> QED BY <2>2, <3>1, <3>2
  <2> QED BY <2>1, <2>4, <2>5
<1> QED BY <1>1, <1>2 DEF FipWorker

\* No step, of whatever actor, breaks this.
LEMMA NextFollowed == MInv /\ PoolFollowed /\ [Next]_vars => PoolFollowed'
<1>b. ASSUME MInv
      PROVE  /\ pool \in FloatingIPPool /\ pcache \in [live : BOOLEAN, cfg : Configs]
             /\ pworker \in PoolWorkerState
             /\ {pfresh, pgone, delEvt, upEvt, poolQ, started} \subseteq BOOLEAN
  BY <1>b DEF MInv, TypeOK
<1>s. ASSUME PoolFollowed, pool'.live = pool.live, pool'.cfg = pool.cfg, pfresh' => pfresh,
             UNCHANGED <<pcache, pgone, delEvt, upEvt, poolQ, pworker>>, ipam'.ips = ipam.ips
      PROVE  PoolFollowed'
  BY <1>s DEF PoolFollowed
<1>1. ASSUME MInv, PoolFollowed, User
      PROVE  PoolFollowed'
  <2>1. ASSUME NEW c \in Configs, AdminCreatePool(c)
        PROVE  ~ pfresh'
    BY <1>1, <2>1 DEF AdminCreatePool, PutPool, PoolFollowed
  <2>2. ASSUME NEW c \in Configs, AdminEditPool(c)
        PROVE  ~ pfresh'
    BY <1>1, <1>b, <2>2 DEF AdminEditPool, PutPool, FloatingIPPool
  <2>3. ASSUME AdminDeletePool
        PROVE  ~ pfresh'
    <3> DEFINE b  == FALSE
               al == {}
               i  == 0
               o  == [pool EXCEPT !.live = b, !.alloc = al, !.avail = i]
    <3>1. pfresh' = (pfresh /\ o = pool) /\ pool.live
      BY <2>3 DEF AdminDeletePool, PutPool
    <3>2. ~ b
      OBVIOUS
    <3> HIDE DEF b, al, i
    <3>3. o.live = b
      BY <1>1, <1>b DEF FloatingIPPool
    <3> HIDE DEF o
    <3> QED BY <3>1, <3>2, <3>3
  <2>4. CASE UNCHANGED <<pool, pfresh, pcache, pgone, delEvt, upEvt, poolQ, pworker, ipam>>
    BY <1>1, <1>s, <2>4
  <2>5. CASE ~ pfresh'
    BY <2>5 DEF PoolFollowed
  <2> QED BY <1>1, <2>1, <2>2, <2>3, <2>4, <2>5 DEF User, UserCreate, UserCreateRaced, UserLabel, UserRepin, UserEdit,
             UserDelete, queueVars
<1>2. ASSUME MInv, PoolFollowed, Informers
      PROVE  PoolFollowed'
  <2>1. CASE InformPool
    <3>1. /\ pfresh' /\ pool.live /\ ~ pgone /\ UNCHANGED <<pool, pgone, delEvt>>
          /\ pcache' = [live |-> TRUE, cfg |-> pool.cfg]
          /\ IF delEvt THEN upEvt' ELSE poolQ'
      BY <2>1 DEF InformPool, apiVars
    <3>2. pcache'.live /\ pcache'.cfg = pool.cfg
      BY <3>1
    <3> QED BY <3>1, <3>2 DEF PoolFollowed
  <2>2. CASE InformPoolGone
    <3>1. pgone /\ UNCHANGED pfresh
      BY <2>2 DEF InformPoolGone
    <3> QED BY <1>2, <3>1 DEF PoolFollowed
  <2>3. ASSUME NEW f \in Owner, InformFip(f)
        PROVE  PoolFollowed'
    BY <1>2, <1>s, <2>3 DEF InformFip, apiVars, managerVars
  <2> QED BY <1>2, <2>1, <2>2, <2>3 DEF Informers
<1>3. ASSUME MInv, PoolFollowed, PoolList
      PROVE  PoolFollowed'
  <2>1. UNCHANGED <<pool, pfresh, pcache, pgone, delEvt, upEvt, ipam>>
    BY <1>3 DEF PoolList, apiVars, informerVars
  <2>2. pcache.live => pworker'.pc = "refresh" /\ pworker'.cfg = pcache.cfg
    BY <1>3 DEF PoolList
  <2> QED BY <1>3, <2>1, <2>2 DEF PoolFollowed
<1>4. ASSUME MInv, PoolFollowed, PoolRefresh
      PROVE  PoolFollowed'
  <2>1. UNCHANGED <<pool, pfresh, pcache, pgone, delEvt, upEvt>> /\ pworker.pc = "refresh"
    BY <1>4 DEF PoolRefresh, apiVars, informerVars
  <2>2. \/ poolQ'
        \/ /\ ipam' = Refreshed(ipam, pworker.cfg, Excludes, pworker.list)
           /\ pworker' = [pworker EXCEPT !.pc = "status"] /\ UNCHANGED poolQ
    BY <1>4 DEF PoolRefresh, PoolDone
  <2>3. CASE poolQ'
    BY <1>4, <2>1, <2>3 DEF PoolFollowed
  <2>4. CASE /\ ipam' = Refreshed(ipam, pworker.cfg, Excludes, pworker.list)
             /\ pworker' = [pworker EXCEPT !.pc = "status"] /\ UNCHANGED poolQ
    <3>1. pworker'.pc = "status"
      BY <1>4, <1>b, <2>4 DEF PoolWorkerState
    <3>2. ipam'.ips = buildSubnet(pworker.cfg).ips
      BY <2>4, RefreshRange
    <3> QED BY <1>4, <2>1, <2>4, <3>1, <3>2 DEF PoolFollowed
  <2> QED BY <2>2, <2>3, <2>4
<1>5. ASSUME MInv, PoolFollowed, PoolStatus
      PROVE  PoolFollowed'
  <2>1. UNCHANGED <<pcache, pgone, delEvt, upEvt, ipam>> /\ pworker.pc = "status" /\ pworker' = PoolIdle
    BY <1>5 DEF PoolStatus, PoolDone
  <2>2. poolQ => poolQ'
    BY <1>5 DEF PoolStatus, PoolDone
  <2>3. UNCHANGED <<pool, pfresh>> \/ \E al, n : PutPool([pool EXCEPT !.alloc = al, !.avail = n])
    BY <1>5 DEF PoolStatus
  <2>4. pool'.live = pool.live /\ pool'.cfg = pool.cfg /\ (pfresh' => pfresh)
    <3>1. CASE UNCHANGED <<pool, pfresh>>
      BY <3>1
    <3>2. ASSUME NEW al, NEW n, PutPool([pool EXCEPT !.alloc = al, !.avail = n])
          PROVE  pool'.live = pool.live /\ pool'.cfg = pool.cfg /\ (pfresh' => pfresh)
      BY <1>5, <1>b, <3>2, StatusWrite
    <3> QED BY <2>3, <3>1, <3>2
  <2>5. pworker'.pc = "idle"
    BY <2>1 DEF PoolIdle
  <2> QED BY <1>5, <2>1, <2>2, <2>4, <2>5 DEF PoolFollowed
<1>6. ASSUME MInv, PoolFollowed, handleFipPoolDelete
      PROVE  PoolFollowed'
  <2>1. /\ delEvt /\ ~ delEvt' /\ (upEvt => poolQ')
        /\ UNCHANGED <<pool, pfresh, pcache, pgone>>
    BY <1>6 DEF handleFipPoolDelete, apiVars
  <2> QED BY <1>6, <2>1 DEF PoolFollowed
<1>7. ASSUME MInv, PoolFollowed, Restart
      PROVE  PoolFollowed'
  <2>1. /\ pfresh' = pool.live /\ poolQ' = pool.live /\ ~ pgone' /\ ~ delEvt' /\ UNCHANGED pool
        /\ pcache' = [live |-> pool.live, cfg |-> pool.cfg]
    BY <1>7 DEF Restart, apiVars
  <2>2. pcache'.live = pool.live /\ pcache'.cfg = pool.cfg
    BY <2>1
  <2> QED BY <2>1, <2>2 DEF PoolFollowed
<1>8. ASSUME MInv, PoolFollowed, NEW w \in Worker, FipWorker(w)
      PROVE  PoolFollowed'
  BY <1>8, <1>s, WorkerKeepsRange
<1>9. ASSUME PoolFollowed, UNCHANGED vars
      PROVE  PoolFollowed'
  BY <1>9, <1>s DEF vars, apiVars, informerVars, queueVars, managerVars
<1> QED BY <1>1, <1>2, <1>3, <1>4, <1>5, <1>6, <1>7, <1>8, <1>9 DEF Next, Controllers, PoolWorker

\* The pool is there and in the allocator, or neither, in the beginning.
LEMMA InitFollowed == Init => PoolFollowed
<1> SUFFICES ASSUME Init
             PROVE  PoolFollowed
  OBVIOUS
<1>1. pworker.pc = "idle" /\ ~ pgone /\ ~ delEvt /\ pfresh = PoolAtStart
  BY DEF Init, PoolIdle
<1>2. ASSUME PoolAtStart
      PROVE  /\ pool.live /\ pool.cfg = StartConfig /\ pcache.live /\ pcache.cfg = StartConfig
             /\ ipam = Refreshed(Absent, StartConfig, Excludes, {})
  BY <1>2 DEF Init
<1>3. ASSUME PoolAtStart
      PROVE  ipam.ips = buildSubnet(StartConfig).ips
  BY <1>2, <1>3, RefreshRange
<1> QED BY <1>1, <1>2, <1>3 DEF PoolFollowed

\* At rest the allocator serves the pool's range: deletions, creations and edits
\* of the pool in any number and order, at any step of a refresh, with failed
\* calls and restarts in between.
THEOREM AllocatorAlwaysFollows == Spec => []AllocatorFollowsPool
<1>1. PoolFollowed => AllocatorFollowsPool
  BY DEF PoolFollowed, AllocatorFollowsPool, Settled
<1> QED BY <1>1, InitFollowed, NextFollowed, Invariance, PTL DEF Spec

-----------------------------------------------------------------------------
(* At rest: nothing to do for a FloatingIP is lost                         *)

\* The workers will look at f as it is now: the watch has yet to show it, or its
\* key is in the queue.
Due(f) == ~ cfresh[f] \/ f \in queue

\* The steps of a worker that neither change its FloatingIP nor put the key back.
Onward(w) ==
    LET f == workers[w].key
    IN  \/ workers[w].pc = "addfin" /\ fip[f].fin
        \/ workers[w].pc = "assign" /\ fip[f].assigned
        \/ workers[w].pc = "unassign" /\ ~ fip[f].assigned
        \/ workers[w].pc = "pool"
        \/ /\ workers'[w].key = f
           /\ workers[w].pc \in {"spec", "release", "delpool"}
           /\ workers'[w].pc \in {"specerr", "status", "delpool", "rmfin"}

\* f is as it was, and its worker, if there is one, has neither failed nor
\* finished with something to do.
Unmoved(f) ==
    /\ fip'[f] = fip[f] /\ cfresh[f] /\ f \notin queue
    /\ \A w \in Worker : workers[w].key = f => Stays(w) \/ Onward(w)

\* A write of an object that the watch does not have to report is none.
LEMMA NoWrite ==
  ASSUME MInv, NEW f \in Owner, NEW g \in Owner, NEW obj, NEW ws, PutFip(g, obj, ws), cfresh'[f]
  PROVE  fip'[f] = fip[f] /\ cfresh[f] /\ (g = f => obj = fip[f])
<1>1. fip \in [Owner -> FloatingIP] /\ cfresh \in [Owner -> BOOLEAN]
  BY DEF MInv, TypeOK
<1> QED BY <1>1 DEF PutFip

\* An API call leaves the other workers where they are.
LEMMA OthersStay ==
  ASSUME MInv, NEW w \in Worker, Step(w), NEW v \in Worker \ {w}
  PROVE  Stays(v)
<1> DEFINE f == workers[w].key
<1>t. workers \in [Worker -> WorkerState]
  BY DEF MInv, TypeOK
<1>k. workers[w].pc # "idle" => f \in Owner
  BY <1>t DEF MInv, Keys, WorkerState
<1>n. workers[w].pc # "idle"
  BY DEF Step, AddFinalizer, RecordError, UpdateSpec, SpecFailed, UpdateStatus, UpdatePoolStatus,
     UpdateAssigned, DeleteRelease, DeletePoolStatus, RemoveFinalizer, At
<1> DEFINE Others(ws) == ws \in [Worker -> WorkerState] /\ ws[v] = workers[v]
<1>f. Others(Finished(w))
  BY <1>t, WorkerValues
<1>m. ASSUME NEW pc \in {"specerr", "status", "pool", "delpool", "rmfin"}
      PROVE  Others(Moved(w, pc))
  BY <1>t, MovedWorkers
<1> HIDE DEF f
<1>s. ASSUME NEW ws, Others(ws), workers' = ws \/ \E obj : PutFip(f, obj, ws)
      PROVE  Stays(v)
  BY <1>k, <1>n, <1>s, PutWorkers DEF Stays
<1> HIDE DEF Others
<1>c. ASSUME NEW obj, NEW can, NEW ok, NEW err, Others(ok), Others(err), Call(w, f, obj, can, ok, err)
      PROVE  Stays(v)
  BY <1>c, <1>s DEF Call, Commit, CommitThenError, FailCall
<1>1. CASE AddFinalizer(w) \/ UpdateAssigned(w) \/ RemoveFinalizer(w)
  BY <1>1, <1>c, <1>f DEF AddFinalizer, UpdateAssigned, RemoveFinalizer, f
<1>2. CASE UpdateStatus(w)
  BY <1>2, <1>c, <1>f, <1>m DEF UpdateStatus, f
<1>3. CASE RecordError(w) \/ SpecFailed(w) \/ UpdatePoolStatus(w)
  BY <1>3, <1>f, <1>s DEF RecordError, SpecFailed, UpdatePoolStatus, PoolFault, f
<1>4. CASE UpdateSpec(w)
  BY <1>4, <1>m, <1>s DEF UpdateSpec, Commit, f
<1>5. CASE DeleteRelease(w) \/ DeletePoolStatus(w)
  BY <1>5, <1>f, <1>m, <1>s DEF DeleteRelease, DeletePoolStatus, PoolFault
<1> QED BY <1>1, <1>2, <1>3, <1>4, <1>5 DEF Step

\* A worker that leaves its FloatingIP neither changed nor due goes onward.
LEMMA StepOnward ==
  ASSUME MInv, NEW w \in Worker, Step(w), NEW f \in Owner, workers[w].key = f, fip'[f].live, ~ Due(f)'
  PROVE  Onward(w)
<1>t. /\ workers \in [Worker -> WorkerState] /\ fip[f] \in FloatingIP /\ fip \in [Owner -> FloatingIP]
      /\ f \in Owner /\ cfresh'[f] /\ f \notin queue' /\ fip'[f].live
  BY DEF MInv, TypeOK, Due
<1>q. ~ Requeue(w)
  BY <1>t DEF Requeue
<1>m. ASSUME NEW pc \in {"specerr", "status", "pool", "delpool", "rmfin"},
             workers' = Moved(w, pc) \/ \E obj : PutFip(f, obj, Moved(w, pc))
      PROVE  workers'[w].pc = pc /\ workers'[w].key = f
  <2>1. /\ Moved(w, pc) \in [Worker -> WorkerState]
        /\ Moved(w, pc)[w].pc = pc /\ Moved(w, pc)[w].key = f
    BY <1>t, MovedWorkers
  <2>2. CASE workers' = Moved(w, pc)
    BY <2>1, <2>2
  <2>3. ASSUME NEW obj, PutFip(f, obj, Moved(w, pc))
        PROVE  workers'[w].pc = pc /\ workers'[w].key = f
    BY <2>1, <2>3, PutWorkers
  <2> QED BY <1>m, <2>2, <2>3
<1>c. ASSUME NEW obj, NEW can, NEW ok, NEW err, Call(w, f, obj, can, ok, err)
      PROVE  obj = fip[f] /\ fip'[f] = fip[f]
  <2>1. PutFip(f, obj, ok)
    BY <1>c, <1>q DEF Call, Commit, CommitThenError, FailCall
  <2> QED BY <1>t, <2>1, NoWrite
<1>1. CASE AddFinalizer(w)
  <2>1. [fip[f] EXCEPT !.fin = TRUE] = fip[f] /\ workers[w].pc = "addfin"
    BY <1>1, <1>c DEF AddFinalizer, At
  <2>2. [fip[f] EXCEPT !.fin = TRUE].fin
    BY <1>t DEF FloatingIP
  <2> QED BY <2>1, <2>2 DEF Onward
<1>2. CASE RecordError(w) \/ SpecFailed(w)
  BY <1>2, <1>q DEF RecordError, SpecFailed
<1>3. CASE UpdateSpec(w)
  <2>1. workers[w].pc = "spec"
    BY <1>3 DEF UpdateSpec, At
  <2>2. \E pc \in {"status", "specerr"} : workers' = Moved(w, pc) \/ \E obj : PutFip(f, obj, Moved(w, pc))
    BY <1>3 DEF UpdateSpec, Commit
  <2>3. workers'[w].pc \in {"status", "specerr"} /\ workers'[w].key = f
    BY <1>m, <2>2
  <2> QED BY <2>1, <2>3 DEF Onward
<1>4. CASE UpdateStatus(w)
  <2> DEFINE i   == workers[w].ip
             obj == [fip[f] EXCEPT !.status = i, !.state = "Allocated", !.assigned = TRUE]
  <2>1. obj = fip[f] /\ workers[w].pc = "status"
    BY <1>4, <1>c DEF UpdateStatus, At
  <2>2. i \in Addr /\ fip[f].status = NoIP
    BY <2>1 DEF MInv, Keys, Untold
  <2> HIDE DEF i
  <2>3. obj.status = i
    BY <1>t DEF FloatingIP
  <2> HIDE DEF obj
  <2> QED BY <2>1, <2>2, <2>3, NoIPAssumption
<1>5. CASE UpdatePoolStatus(w)
  BY <1>5 DEF UpdatePoolStatus, At, Onward
<1>6. CASE UpdateAssigned(w)
  <2> DEFINE b == workers[w].pc = "assign"
  <2>1. [fip[f] EXCEPT !.assigned = b] = fip[f] /\ workers[w].pc \in {"assign", "unassign"}
    BY <1>6, <1>c DEF UpdateAssigned, At
  <2> HIDE DEF b
  <2>2. [fip[f] EXCEPT !.assigned = b].assigned = b
    BY <1>t DEF FloatingIP
  <2>3. fip[f].assigned = b
    BY <2>1, <2>2
  <2> QED BY <2>1, <2>3 DEF Onward, b
<1>7. CASE DeleteRelease(w)
  <2>1. workers[w].pc = "release" /\ workers' = Moved(w, "delpool")
    BY <1>7, <1>q DEF DeleteRelease, PoolFault, At
  <2> QED BY <1>m, <2>1 DEF Onward
<1>8. CASE DeletePoolStatus(w)
  <2>1. workers[w].pc = "delpool" /\ workers' = Moved(w, "rmfin")
    BY <1>8, <1>q DEF DeletePoolStatus, PoolFault, At
  <2> QED BY <1>m, <2>1 DEF Onward
<1>9. CASE RemoveFinalizer(w)
  <2>1. fip[f] = Gone /\ fip'[f] = fip[f]
    BY <1>9, <1>c DEF RemoveFinalizer
  <2> QED BY <1>t, <2>1 DEF Gone
<1> QED BY <1>1, <1>2, <1>3, <1>4, <1>5, <1>6, <1>7, <1>8, <1>9 DEF Step

\* A FloatingIP that is not due after a step was not due before it and has not
\* moved, or a worker has just taken it up.
LEMMA NextDue ==
  ASSUME MInv, Next, NEW f \in Owner, fip'[f].live, ~ Due(f)'
  PROVE  Unmoved(f) \/ \E w \in Worker : Sync(w, f)
<1>t. /\ workers \in [Worker -> WorkerState] /\ fip \in [Owner -> FloatingIP] /\ cfresh \in [Owner -> BOOLEAN]
      /\ cfresh'[f] /\ f \notin queue'
  BY DEF MInv, TypeOK, Due
<1>u. ASSUME UNCHANGED <<fip, cfresh, workers>>, f \in queue => f \in queue'
      PROVE  Unmoved(f)
  BY <1>t, <1>u DEF Unmoved, Stays
<1>w. ASSUME NEW g \in Owner, NEW obj, UserWrite(g, obj)
      PROVE  Unmoved(f)
  <2>1. PutFip(g, obj, workers) /\ UNCHANGED queue
    BY <1>w DEF UserWrite, queueVars
  <2>2. fip'[f] = fip[f] /\ cfresh[f]
    BY <1>t, <2>1, NoWrite
  <2>3. \A v \in Worker : Stays(v)
    BY <1>t, <2>1, PutWorkers DEF Stays
  <2> QED BY <1>t, <2>1, <2>2, <2>3 DEF Unmoved
<1>1. CASE User
  <2>1. ASSUME AdminWrite
        PROVE  UNCHANGED <<fip, cfresh, workers>>
    BY <2>1 DEF AdminWrite
  <2>2. UNCHANGED queue
    BY <1>1 DEF User, UserCreate, UserCreateRaced, UserLabel, UserRepin, UserEdit, UserDelete,
       AdminCreatePool, AdminEditPool, AdminDeletePool, queueVars
  <2>3. \/ AdminWrite
        \/ \E g \in Owner : \E obj : UserWrite(g, obj)
    BY <1>1, UserKinds DEF NewObject, EditObject, DeleteObject
  <2> QED BY <1>u, <1>w, <2>1, <2>2, <2>3
<1>2. CASE Informers
  <2>1. CASE InformPool \/ InformPoolGone
    BY <1>u, <2>1 DEF InformPool, InformPoolGone, apiVars, managerVars, queueVars
  <2>2. ASSUME NEW g \in Owner, InformFip(g)
        PROVE  Unmoved(f)
    <3>1. UNCHANGED <<fip, workers>> /\ cfresh' = [cfresh EXCEPT ![g] = TRUE]
      BY <2>2 DEF InformFip, apiVars, managerVars
    <3>2. g # f /\ (f \in queue => f \in queue')
      BY <1>t, <2>2, <3>1 DEF InformFip
    <3>3. cfresh[f]
      BY <1>t, <3>1, <3>2
    <3> QED BY <1>t, <3>1, <3>2, <3>3 DEF Unmoved, Stays
  <2> QED BY <1>2, <2>1, <2>2 DEF Informers
<1>3. CASE PoolWorker \/ handleFipPoolDelete
  BY <1>3, <1>u DEF PoolWorker, PoolList, PoolRefresh, PoolStatus, handleFipPoolDelete, apiVars, informerVars
<1>4. CASE Restart
  BY <1>4, <1>t DEF Restart, apiVars
<1>5. ASSUME NEW w \in Worker, NEW g \in Owner, Sync(w, g), g # f
      PROVE  Unmoved(f)
  <2>1. /\ UNCHANGED <<fip, cfresh>> /\ queue' = queue \ {g} /\ workers[w].pc = "idle"
    BY <1>5 DEF Sync, SyncNothing, SyncAddFinalizer, SyncAssigned, SyncNoPool, SyncAllocate, SyncDelete,
       SyncDeleteUnallocated, Unaffected, apiVars, informerVars, TakeKey
  <2>2. workers' = workers \/ \E j : workers' = [workers EXCEPT ![w] = j]
    BY <1>5 DEF Sync, SyncNothing, SyncAddFinalizer, SyncAssigned, SyncNoPool, SyncAllocate, SyncDelete,
       SyncDeleteUnallocated, Enter
  <2>3. ASSUME NEW v \in Worker, workers[v].key = f
        PROVE  Stays(v)
    <3>1. v # w
      BY <2>1, <2>3, OwnerAssumption DEF MInv, Keys
    <3> QED BY <1>t, <2>2, <3>1 DEF Stays
  <2> QED BY <1>5, <1>t, <2>1, <2>3 DEF Unmoved
<1>6. ASSUME NEW w \in Worker, Step(w)
      PROVE  Unmoved(f)
  <2> DEFINE g == workers[w].key
  <2>k. g \in Owner
    <3>1. workers[w].pc # "idle"
      BY <1>6 DEF Step, AddFinalizer, RecordError, UpdateSpec, SpecFailed, UpdateStatus, UpdatePoolStatus,
         UpdateAssigned, DeleteRelease, DeletePoolStatus, RemoveFinalizer, At
    <3> QED BY <1>t, <3>1 DEF MInv, Keys, WorkerState
  <2>c. ASSUME NEW obj, NEW can, NEW ok, NEW err, Call(w, g, obj, can, ok, err)
        PROVE  (UNCHANGED <<fip, cfresh>> \/ \E ws : PutFip(g, obj, ws)) /\ (UNCHANGED queue \/ Requeue(w))
    BY <2>c DEF Call, Commit, CommitThenError, FailCall
  <2>1. UNCHANGED <<fip, cfresh>> \/ \E obj, ws : PutFip(g, obj, ws)
    BY <1>6, <2>c DEF Step, AddFinalizer, RecordError, UpdateSpec, SpecFailed, UpdateStatus, UpdatePoolStatus,
       UpdateAssigned, DeleteRelease, DeletePoolStatus, RemoveFinalizer, Untouched2, Commit
  <2>2. UNCHANGED queue \/ Requeue(w)
    BY <1>6, <2>c DEF Step, AddFinalizer, RecordError, UpdateSpec, SpecFailed, UpdateStatus, UpdatePoolStatus,
       UpdateAssigned, DeleteRelease, DeletePoolStatus, RemoveFinalizer, PoolFault, Commit
  <2>3. f \notin queue
    BY <1>t, <2>2 DEF Requeue
  <2>4. fip'[f] = fip[f] /\ cfresh[f]
    BY <1>t, <2>1, <2>k, NoWrite
  <2>5. ASSUME NEW v \in Worker, workers[v].key = f
        PROVE  Stays(v) \/ Onward(v)
    <3>1. CASE v # w
      BY <1>6, <3>1, OthersStay
    <3>2. CASE v = w
      BY <1>6, <2>5, <3>2, StepOnward
    <3> QED BY <3>1, <3>2
  <2> QED BY <2>3, <2>4, <2>5 DEF Unmoved
<1> QED BY <1>1, <1>2, <1>3, <1>4, <1>5, <1>6 DEF Next, Controllers, FipWorker

\* A worker that takes up f with the object as it is.
LEMMA Entered ==
  ASSUME MInv, NEW w \in Worker, NEW f \in Owner, NEW pc, NEW a, Enter(w, f, pc, a)
  PROVE  workers'[w].pc = pc /\ workers'[w].key = f
<1>1. workers \in [Worker -> WorkerState]
  BY DEF MInv, TypeOK
<1> QED BY <1>1 DEF Enter

\* A FloatingIP whose status.assigned is behind its label is due, or with a
\* worker that saw the label, or that is about to add the finalizer.
LabelSeen ==
    \A f \in Owner :
        Granted(f) /\ fip[f].assigned # fip[f].label =>
            \/ Due(f)
            \/ \E w \in Worker :
                  /\ workers[w].key = f
                  /\ \/ workers[w].pc = "assign" /\ fip[f].label
                     \/ workers[w].pc = "unassign" /\ ~ fip[f].label
                     \/ workers[w].pc = "addfin" /\ ~ fip[f].fin

\* Every write of the object makes it due again, and what a worker does for a
\* stale copy is one: it ends with another write, with an error, or with the
\* status that the label asks for.
LEMMA NextLabelSeen == MInv /\ LabelSeen /\ [Next]_vars => LabelSeen'
<1>1. ASSUME MInv, LabelSeen, Next, NEW f \in Owner, Granted(f)', fip'[f].assigned # fip'[f].label, ~ Due(f)'
      PROVE  \E w \in Worker :
                  /\ workers'[w].key = f
                  /\ \/ workers'[w].pc = "assign" /\ fip'[f].label
                     \/ workers'[w].pc = "unassign" /\ ~ fip'[f].label
                     \/ workers'[w].pc = "addfin" /\ ~ fip'[f].fin
  <2>t. fip[f] \in FloatingIP /\ fip[f].assigned \in BOOLEAN /\ fip[f].label \in BOOLEAN
    BY <1>1 DEF MInv, TypeOK, FloatingIP
  <2>g. fip'[f].live /\ ~ fip'[f].del /\ fip'[f].status # NoIP
    BY <1>1 DEF Granted
  <2>1. Unmoved(f) \/ \E w \in Worker : Sync(w, f)
    BY <1>1, <2>g, NextDue
  <2>2. CASE Unmoved(f)
    <3>1. fip'[f] = fip[f] /\ ~ Due(f) /\ Granted(f)
      BY <2>2, <2>g DEF Unmoved, Due, Granted
    <3>2. PICK w \in Worker :
              /\ workers[w].key = f
              /\ \/ workers[w].pc = "assign" /\ fip[f].label
                 \/ workers[w].pc = "unassign" /\ ~ fip[f].label
                 \/ workers[w].pc = "addfin" /\ ~ fip[f].fin
      BY <1>1, <3>1 DEF LabelSeen
    <3>3. ~ Onward(w)
      BY <1>1, <2>t, <3>1, <3>2 DEF Onward
    <3> QED BY <2>2, <3>1, <3>2, <3>3 DEF Unmoved, Stays
  <2>3. ASSUME NEW w \in Worker, Sync(w, f)
        PROVE  \E v \in Worker :
                  /\ workers'[v].key = f
                  /\ \/ workers'[v].pc = "assign" /\ fip'[f].label
                     \/ workers'[v].pc = "unassign" /\ ~ fip'[f].label
                     \/ workers'[v].pc = "addfin" /\ ~ fip'[f].fin
    <3>1. UNCHANGED <<fip, cfresh>>
      BY <2>3 DEF Sync, SyncNothing, SyncAddFinalizer, SyncAssigned, SyncNoPool, SyncAllocate, SyncDelete,
         SyncDeleteUnallocated, Unaffected, apiVars, informerVars
    <3>2. cache[f] = fip[f]
      BY <1>1, <3>1 DEF MInv, Copies, Due
    <3>3. \/ ~ fip[f].fin /\ Enter(w, f, "addfin", NoIP)
          \/ fip[f].label /\ Enter(w, f, "assign", NoIP)
          \/ ~ fip[f].label /\ Enter(w, f, "unassign", NoIP)
      BY <2>3, <2>g, <3>1, <3>2 DEF Sync, SyncNothing, SyncAddFinalizer, SyncAssigned, SyncNoPool, SyncAllocate,
         SyncDelete, SyncDeleteUnallocated, Reconcilable
    <3> QED BY <1>1, <3>1, <3>3, Entered
  <2> QED BY <2>1, <2>2, <2>3
<1>2. MInv /\ LabelSeen /\ Next => LabelSeen'
  BY <1>1 DEF LabelSeen
<1>3. ASSUME LabelSeen, UNCHANGED vars
      PROVE  LabelSeen'
  BY <1>3 DEF LabelSeen, Due, Granted, vars, apiVars, informerVars, queueVars, managerVars
<1> QED BY <1>2, <1>3

\* At rest status.assigned is what the label says, for any number of edits,
\* failed calls and restarts: a choice made by an old copy is always made again.
THEOREM AssignedSettles == Spec => []SettledAssigned
<1>1. Init => LabelSeen
  BY DEF Init, LabelSeen, Granted, Gone
<1>2. MInv /\ LabelSeen => SettledAssigned
  BY OwnerAssumption DEF MInv, LabelSeen, SettledAssigned, Settled, Due
<1> QED BY <1>1, <1>2, NextLabelSeen, Invariance, PTL DEF Spec

-----------------------------------------------------------------------------
(* At rest: nobody forgotten                                               *)

\* A key is dropped, without an error, because the pool is not in the lister.
DropsKey == \E w \in Worker : \E f \in Owner : SyncNoPool(w, f)

\* A FloatingIP that has no address yet, or has to go, is due, or with a worker
\* that is at one of the steps towards that.
NeedSeen ==
    \A f \in Owner :
        fip[f].live /\ (fip[f].status = NoIP \/ fip[f].del) =>
            \/ Due(f)
            \/ \E w \in Worker :
                  /\ workers[w].key = f
                  /\ \/ workers[w].pc \in {"error", "spec", "specerr", "status", "release", "delpool", "rmfin"}
                     \/ workers[w].pc = "addfin" /\ ~ fip[f].fin

\* Every way out of these steps writes the object or puts the key back.
LEMMA NextNeedSeen == MInv /\ NeedSeen /\ [Next]_vars /\ [~ DropsKey]_vars => NeedSeen'
<1> DEFINE At1(w, f) == /\ workers[w].key = f
                        /\ \/ workers[w].pc \in {"error", "spec", "specerr", "status", "release", "delpool", "rmfin"}
                           \/ workers[w].pc = "addfin" /\ ~ fip[f].fin
           At2(w, f) == /\ workers'[w].key = f
                        /\ \/ workers'[w].pc \in {"error", "spec", "specerr", "status", "release", "delpool", "rmfin"}
                           \/ workers'[w].pc = "addfin" /\ ~ fip'[f].fin
<1>1. ASSUME MInv, NeedSeen, Next, ~ DropsKey, NEW f \in Owner, fip'[f].live, fip'[f].status = NoIP \/ fip'[f].del,
             ~ Due(f)'
      PROVE  \E w \in Worker : At2(w, f)
  <2>t. fip[f] \in FloatingIP /\ (fip[f].del => fip[f].fin)
    BY <1>1 DEF MInv, TypeOK
  <2>1. Unmoved(f) \/ \E w \in Worker : Sync(w, f)
    BY <1>1, NextDue
  <2>2. CASE Unmoved(f)
    <3>1. fip'[f] = fip[f] /\ ~ Due(f)
      BY <2>2 DEF Unmoved, Due
    <3>2. PICK w \in Worker : At1(w, f)
      BY <1>1, <3>1 DEF NeedSeen
    <3>3. CASE Stays(w)
      BY <3>1, <3>2, <3>3 DEF Stays
    <3>4. CASE Onward(w)
      BY <3>1, <3>2, <3>4 DEF Onward
    <3> QED BY <2>2, <3>2, <3>3, <3>4 DEF Unmoved
  <2>3. ASSUME NEW w \in Worker, Sync(w, f)
        PROVE  At2(w, f)
    <3>1. UNCHANGED <<fip, cfresh>>
      BY <2>3 DEF Sync, SyncNothing, SyncAddFinalizer, SyncAssigned, SyncNoPool, SyncAllocate, SyncDelete,
         SyncDeleteUnallocated, Unaffected, apiVars, informerVars
    <3>2. cache[f] = fip[f]
      BY <1>1, <3>1 DEF MInv, Copies, Due
    <3>3. \/ ~ fip[f].fin /\ Enter(w, f, "addfin", NoIP)
          \/ Enter(w, f, "error", NoIP) \/ \E a : Enter(w, f, "spec", a)
          \/ \E a : Enter(w, f, "release", a)
          \/ Enter(w, f, "rmfin", NoIP)
      <4>1. ~ SyncNoPool(w, f)
        BY <1>1 DEF DropsKey
      <4> QED BY <1>1, <2>3, <2>t, <3>1, <3>2, <4>1 DEF Sync, SyncNothing, SyncAddFinalizer, SyncAssigned, SyncAllocate,
                 SyncDelete, SyncDeleteUnallocated, Reconcilable
    <3> QED BY <1>1, <3>1, <3>3, Entered
  <2> QED BY <2>1, <2>2, <2>3
<1>2. MInv /\ NeedSeen /\ Next /\ ~ DropsKey => NeedSeen'
  BY <1>1 DEF NeedSeen
<1>3. ASSUME NeedSeen, UNCHANGED vars
      PROVE  NeedSeen'
  BY <1>3 DEF NeedSeen, Due, vars, apiVars, informerVars, queueVars, managerVars
<1> QED BY <1>2, <1>3

\* The one way to forget a FloatingIP is a sync that finds no pool in the lister:
\* until that happens every FloatingIP has its address at rest and no deletion is
\* half done, whatever calls fail or lose their response and however often the
\* manager restarts.
THEOREM ForgottenOnlyByDrop == Spec /\ [][~ DropsKey]_vars => []NothingForgotten
<1>1. Init => NeedSeen
  BY DEF Init, NeedSeen, Gone
<1>2. MInv /\ NeedSeen => NothingForgotten
  BY OwnerAssumption DEF MInv, NeedSeen, NothingForgotten, Settled, Due
<1> QED BY <1>1, <1>2, NextNeedSeen, Invariance, PTL DEF Spec

\* The pool is there and the lister has it.
PoolListed == pool.live /\ pcache.live /\ ~ pgone

\* Only its deletion takes it away.
LEMMA NextPoolListed == MInv /\ PoolListed /\ [Next]_vars /\ [~ AdminDeletePool]_vars => PoolListed'
<1>b. MInv => pool \in FloatingIPPool
  BY DEF MInv, TypeOK
<1>1. ASSUME MInv, PoolListed, User, ~ AdminDeletePool
      PROVE  PoolListed'
  <2>1. ASSUME NEW c \in Configs, AdminEditPool(c)
        PROVE  PoolListed'
    BY <1>1, <1>b, <2>1 DEF AdminEditPool, PutPool, PoolListed, FloatingIPPool
  <2>2. CASE UNCHANGED <<pool, pcache, pgone>>
    BY <1>1, <2>2 DEF PoolListed
  <2> QED BY <1>1, <2>1, <2>2 DEF User, UserCreate, UserCreateRaced, UserLabel, UserRepin, UserEdit, UserDelete,
             AdminCreatePool, PoolListed
<1>2. ASSUME PoolListed, Informers \/ PoolList \/ PoolRefresh \/ handleFipPoolDelete \/ Restart
      PROVE  PoolListed'
  <2>1. /\ UNCHANGED pool /\ pgone' \in {pgone, FALSE}
        /\ \/ UNCHANGED pcache
           \/ pcache' = [live |-> TRUE, cfg |-> pool.cfg]
           \/ pcache' = [live |-> pool.live, cfg |-> pool.cfg]
    <3>1. CASE Informers
      <4>1. ~ InformPoolGone
        BY <1>2 DEF InformPoolGone, PoolListed
      <4> QED BY <3>1, <4>1 DEF Informers, InformFip, InformPool, apiVars
    <3>2. CASE PoolList \/ PoolRefresh \/ handleFipPoolDelete
      BY <3>2 DEF PoolList, PoolRefresh, handleFipPoolDelete, apiVars, informerVars
    <3>3. CASE Restart
      BY <3>3 DEF Restart, apiVars
    <3> QED BY <1>2, <3>1, <3>2, <3>3
  <2>2. ~ pgone'
    BY <1>2, <2>1 DEF PoolListed
  <2>3. pcache'.live
    BY <1>2, <2>1 DEF PoolListed
  <2> QED BY <1>2, <2>1, <2>2, <2>3 DEF PoolListed
<1>3. ASSUME MInv, PoolListed, PoolStatus
      PROVE  PoolListed'
  <2>1. UNCHANGED <<pcache, pgone>> /\ (UNCHANGED pool \/ \E al, n : PutPool([pool EXCEPT !.alloc = al, !.avail = n]))
    BY <1>3 DEF PoolStatus
  <2>2. ASSUME NEW al, NEW n, PutPool([pool EXCEPT !.alloc = al, !.avail = n])
        PROVE  pool'.live = pool.live
    BY <1>3, <1>b, <2>2, StatusWrite
  <2> QED BY <1>3, <2>1, <2>2 DEF PoolListed
<1>4. ASSUME MInv, PoolListed, NEW w \in Worker, FipWorker(w)
      PROVE  PoolListed'
  BY <1>4, WorkerKeepsRange DEF PoolListed
<1>5. ASSUME PoolListed, UNCHANGED vars
      PROVE  PoolListed'
  BY <1>5 DEF PoolListed, vars, apiVars, informerVars
<1> QED BY <1>1, <1>2, <1>3, <1>4, <1>5 DEF Next, Controllers, PoolWorker

\* A pool that is there when the manager starts and is not deleted, however its
\* range is edited: no key is dropped, and nobody is forgotten.
THEOREM NobodyForgottenWithPool ==
  ASSUME PoolAtStart
  PROVE  Spec /\ [][~ AdminDeletePool]_vars => []NothingForgotten
<1>1. Init => PoolListed
  BY DEF Init, PoolListed
<1>2. PoolListed => ~ DropsKey
  BY DEF PoolListed, DropsKey, SyncNoPool
<1>3. MInv /\ NeedSeen /\ PoolListed /\ [Next]_vars => NeedSeen'
  BY <1>2, NextNeedSeen
<1>4. Init => NeedSeen
  BY DEF Init, NeedSeen, Gone
<1>5. MInv /\ NeedSeen => NothingForgotten
  BY OwnerAssumption DEF MInv, NeedSeen, NothingForgotten, Settled, Due
<1> QED BY <1>1, <1>3, <1>4, <1>5, NextPoolListed, Invariance, PTL DEF Spec

=============================================================================
