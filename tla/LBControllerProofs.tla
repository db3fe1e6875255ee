------------------------- MODULE LBControllerProofs -------------------------
(***************************************************************************)
(* Proofs about the load-balancer controller, for any Services, addresses, *)
(* groups and workers and any bounds.                                      *)
(***************************************************************************)
EXTENDS LBController, TLAPS

-----------------------------------------------------------------------------
(* Invariants of every behaviour: types, keys and locks                    *)

\* The steps that work on an address.
OnAddress ==
    {"shared", "withdraw", "unpool", "mark1", "release", "mark2",
     "pool", "advertise", "annotate", "advfail", "annotfail", "undoadv", "undopool", "undorelease",
     "vlock", "vshared", "vwithdraw", "vunpool", "vrelease"}

\* The steps of a worker that holds the lock of its address, if it has one.
Locked ==
    {"shared", "withdraw", "unpool", "mark1", "release", "mark2", "strip", "unfinalize",
     "vshared", "vwithdraw", "vunpool", "vrelease"}

\* A worker at work has a key, and an address where it needs one; one that is
\* not has nothing.
Busy ==
    \A p \in Worker :
       /\ w[p].pc = "idle" => w[p] = Idle
       /\ w[p].pc # "idle" => w[p].key \in Service
       /\ w[p].pc \in OnAddress => w[p].ip \in Addr
       /\ w[p].pc = "recover" /\ w[p].adopt => w[p].ip \in Addr

\* A key is with one worker.
Keys == \A p, q \in Worker : w[p].key = w[q].key /\ w[p].key # None => p = q

\* The lock of an address is held by the worker whose step is under it.
Locks ==
    /\ \A a \in Addr : lock[a] # None => w[lock[a]].ip = a /\ w[lock[a]].pc \in Locked
    /\ \A p \in Worker : w[p].pc \in Locked /\ w[p].ip # NoIP => lock[w[p].ip] = p

Workers ==
    /\ w \in [Worker -> WorkerState]
    /\ lock \in [Addr -> Worker \cup {None}]
    /\ Busy
    /\ Keys
    /\ Locks

Objects ==
    /\ svc \in [Service -> ServiceObj]
    /\ cache \in [Service -> ServiceObj]
    /\ tomb \in [Service -> ServiceObj]
    /\ queue \subseteq Service
    /\ claim \in [Addr -> SUBSET Service]
    /\ pool \in [Addr -> Pool]
    /\ adv \in [Addr -> BOOLEAN]
    /\ secret \in BOOLEAN
    /\ case \in Cases
    /\ born \in [Service -> Nat]
    /\ spent \in [Bounded -> Nat]

LInv == Workers /\ Objects

-----------------------------------------------------------------------------
(* Types, keys and locks                                                   *)

\* The constants are what the steps take them for.
LEMMA CaseTypes ==
  ASSUME Objects
  PROVE  /\ case.group \in [Service -> Group \cup {None}]
         /\ case.limit \in [Bounded -> Nat]
         /\ case.names \subseteq Service
         /\ case.range \subseteq Addr
         /\ NoIP \notin Addr /\ None \notin Service /\ None \notin Worker /\ None \notin Group
BY LBAssumption DEF Objects

\* The values that the steps write are Services.
LEMMA ObjectTypes ==
  /\ Absent \in ServiceObj
  /\ \A obj \in ServiceObj :
        /\ Settle(obj) \in ServiceObj
        /\ [obj EXCEPT !.fin = FALSE] \in ServiceObj
        /\ [obj EXCEPT !.del = TRUE] \in ServiceObj
        /\ [obj EXCEPT !.lb = FALSE] \in ServiceObj
        /\ [obj EXCEPT !.ip = NoIP] \in ServiceObj
        /\ \A b \in BOOLEAN : [obj EXCEPT !.req = b] \in ServiceObj
        /\ \A x \in {"deleted", "released"} : [obj EXCEPT !.prog = x] \in ServiceObj
        /\ [obj EXCEPT !.ip = NoIP, !.req = FALSE, !.prog = "none"] \in ServiceObj
        /\ \A a \in Addr : [obj EXCEPT !.ip = a] \in ServiceObj
        /\ \A a \in Addr : [obj EXCEPT !.ip = a, !.req = FALSE, !.fin = TRUE, !.lab = TRUE] \in ServiceObj
  /\ \A n \in Nat : [Absent EXCEPT !.live = TRUE, !.uid = n, !.lb = TRUE] \in ServiceObj
<1>1. Absent \in ServiceObj
  BY DEF Absent, ServiceObj, IPOrNone
<1>2. ASSUME NEW obj \in ServiceObj
      PROVE  Settle(obj) \in ServiceObj
  BY <1>1 DEF Settle
<1>3. ASSUME NEW obj \in ServiceObj
      PROVE  /\ [obj EXCEPT !.fin = FALSE] \in ServiceObj
             /\ [obj EXCEPT !.del = TRUE] \in ServiceObj
             /\ [obj EXCEPT !.lb = FALSE] \in ServiceObj
             /\ [obj EXCEPT !.ip = NoIP] \in ServiceObj
             /\ \A b \in BOOLEAN : [obj EXCEPT !.req = b] \in ServiceObj
             /\ \A x \in {"deleted", "released"} : [obj EXCEPT !.prog = x] \in ServiceObj
             /\ [obj EXCEPT !.ip = NoIP, !.req = FALSE, !.prog = "none"] \in ServiceObj
             /\ \A a \in Addr : [obj EXCEPT !.ip = a] \in ServiceObj
             /\ \A a \in Addr : [obj EXCEPT !.ip = a, !.req = FALSE, !.fin = TRUE, !.lab = TRUE] \in ServiceObj
  BY DEF ServiceObj, IPOrNone
<1>4. ASSUME NEW n \in Nat
      PROVE  [Absent EXCEPT !.live = TRUE, !.uid = n, !.lb = TRUE] \in ServiceObj
  BY <1>1 DEF ServiceObj
<1> QED BY <1>1, <1>2, <1>3, <1>4

\* A worker that has nothing is at no step under a lock.
LEMMA IdleType == Idle \in WorkerState /\ Idle.pc = "idle" /\ Idle.key = None /\ Idle.ip = NoIP
BY ObjectTypes DEF Idle, WorkerState, PC, IPOrNone

\* A worker that goes on keeps its key; it keeps its address while it holds
\* the lock.
LEMMA WorkerMoves ==
  ASSUME LInv, NEW p \in Worker, w[p].pc # "idle",
         NEW v \in WorkerState, w' = [w EXCEPT ![p] = v],
         v.pc # "idle", v.key = w[p].key, v.pc \in OnAddress => v.ip \in Addr, v.pc # "recover",
         \/ /\ lock' = lock
            /\ w[p].pc \in Locked => v.pc \in Locked /\ v.ip = w[p].ip
            /\ v.pc \in Locked /\ v.ip # NoIP => w[p].pc \in Locked
         \/ /\ w[p].pc \notin Locked /\ v.pc \in Locked /\ v.ip \in Addr
            /\ lock[v.ip] = None /\ lock' = [lock EXCEPT ![v.ip] = p]
  PROVE  Workers'
<1>1. \A q \in Worker : w'[q] = IF q = p THEN v ELSE w[q]
  BY DEF LInv, Workers
<1>2. w' \in [Worker -> WorkerState]
  BY DEF LInv, Workers
<1>3. Busy'
  BY <1>1 DEF LInv, Workers, Busy
<1>4. Keys'
  BY <1>1 DEF LInv, Workers, Keys
<1>5. lock' \in [Addr -> Worker \cup {None}]
  BY DEF LInv, Workers
<1>6. Locks'
  <2>1. \A q \in Worker : w[q].ip \in Addr \cup {NoIP}
    BY DEF LInv, Workers, WorkerState, IPOrNone
  <2>2. v.ip \in Addr \cup {NoIP}
    BY DEF WorkerState, IPOrNone
  <2>3. NoIP \notin Addr /\ None \notin Worker
    BY LBAssumption
  <2>4. CASE /\ lock' = lock
             /\ w[p].pc \in Locked => v.pc \in Locked /\ v.ip = w[p].ip
             /\ v.pc \in Locked /\ v.ip # NoIP => w[p].pc \in Locked
    BY <1>1, <2>1, <2>2, <2>3, <2>4 DEF LInv, Workers, Locks
  <2>5. CASE /\ w[p].pc \notin Locked /\ v.pc \in Locked /\ v.ip \in Addr
             /\ lock[v.ip] = None /\ lock' = [lock EXCEPT ![v.ip] = p]
    <3>1. \A a \in Addr : lock'[a] = IF a = v.ip THEN p ELSE lock[a]
      BY <2>5 DEF LInv, Workers
    <3>2. ASSUME NEW a \in Addr, lock'[a] # None
          PROVE  w'[lock'[a]].ip = a /\ w'[lock'[a]].pc \in Locked
      BY <1>1, <2>3, <2>5, <3>1, <3>2 DEF LInv, Workers, Locks
    <3>3. ASSUME NEW q \in Worker, w'[q].pc \in Locked, w'[q].ip # NoIP
          PROVE  lock'[w'[q].ip] = q
      BY <1>1, <2>1, <2>2, <2>3, <2>5, <3>1, <3>3 DEF LInv, Workers, Locks
    <3> QED BY <3>2, <3>3 DEF Locks
  <2> QED BY <2>4, <2>5
<1> QED BY <1>2, <1>3, <1>4, <1>5, <1>6 DEF Workers

\* A worker that returns gives its lock back.
LEMMA WorkerEnds ==
  ASSUME LInv, NEW p \in Worker, w' = [w EXCEPT ![p] = Idle], lock' = Unlocked(p)
  PROVE  Workers'
<1>1. \A q \in Worker : w'[q] = IF q = p THEN Idle ELSE w[q]
  BY DEF LInv, Workers
<1>2. w' \in [Worker -> WorkerState]
  BY IdleType DEF LInv, Workers
<1>3. Busy'
  <2>1. "idle" \notin OnAddress
    BY DEF OnAddress
  <2> QED BY <1>1, <2>1, IdleType DEF LInv, Workers, Busy
<1>4. Keys'
  BY <1>1, IdleType DEF LInv, Workers, Keys
<1>5. /\ lock' \in [Addr -> Worker \cup {None}]
      /\ \A a \in Addr : lock'[a] = IF lock[a] = p THEN None ELSE lock[a]
  BY DEF LInv, Workers, Unlocked
<1>6. Locks'
  <2>1. \A q \in Worker : w[q].ip \in Addr \cup {NoIP}
    BY DEF LInv, Workers, WorkerState, IPOrNone
  <2>2. NoIP \notin Addr /\ None \notin Worker
    BY LBAssumption
  <2>3. "idle" \notin Locked
    BY DEF Locked
  <2> QED BY <1>1, <1>5, <2>1, <2>2, <2>3, IdleType DEF LInv, Workers, Locks
<1> QED BY <1>2, <1>3, <1>4, <1>5, <1>6 DEF Workers

\* The common move: only the step changes.
LEMMA GotoMoves ==
  ASSUME LInv, NEW p \in Worker, w[p].pc # "idle", NEW pc \in PC, Goto(p, pc), pc \notin {"idle", "recover"},
         pc \in OnAddress => w[p].ip \in Addr, lock' = lock,
         w[p].pc \in Locked => pc \in Locked,
         pc \in Locked => w[p].pc \in Locked \/ w[p].ip = NoIP
  PROVE  Workers'
<1> DEFINE v == [w[p] EXCEPT !.pc = pc]
<1>1. w' = [w EXCEPT ![p] = v]
  BY DEF Goto
<1>2. v \in WorkerState /\ v.pc = pc /\ v.key = w[p].key /\ v.ip = w[p].ip
  BY DEF LInv, Workers, WorkerState
<1> HIDE DEF v
<1> QED BY <1>1, <1>2, WorkerMoves

\* A bound is a number that grows by one.
LEMMA SpendTypes ==
  ASSUME Objects, NEW b \in Bounded, Spend(b)
  PROVE  spent' \in [Bounded -> Nat]
<1>1. spent[b] + 1 \in Nat
  BY DEF Objects
<1> QED BY <1>1 DEF Objects, Spend

\* A write leaves an object of the type, or none.
LEMMA WriteTypes ==
  ASSUME Objects, NEW s \in Service, NEW new \in ServiceObj, Write(s, new)
  PROVE  /\ svc' \in [Service -> ServiceObj]
         /\ secret' \in BOOLEAN /\ born' \in [Service -> Nat]
<1>1. Settle(new) \in ServiceObj
  BY ObjectTypes
<1> QED BY <1>1 DEF Objects, Write

\* A worker that returns, defers or fails.
LEMMA EndTypes ==
  ASSUME LInv, NEW p \in Worker, w[p].pc # "idle", NEW obj \in ServiceObj,
         Return(p) \/ Defer(p) \/ ErrorWith(p, obj)
  PROVE  /\ Workers'
         /\ tomb' \in [Service -> ServiceObj] /\ queue' \subseteq Service
         /\ cache' \in [Service -> ServiceObj]
<1>1. w[p].key \in Service /\ Absent \in ServiceObj
  BY ObjectTypes DEF LInv, Workers, Busy
<1>2. w' = [w EXCEPT ![p] = Idle] /\ lock' = Unlocked(p) /\ cache' = cache
  BY DEF Return, Defer, ErrorWith
<1>3. Workers'
  BY <1>2, WorkerEnds
<1>4. queue' = queue \/ queue' = queue \cup {w[p].key}
  BY DEF Return, Defer, ErrorWith
<1>5. \/ tomb' = tomb \/ tomb' = [tomb EXCEPT ![w[p].key] = Absent]
      \/ tomb' = [tomb EXCEPT ![w[p].key] = obj]
  BY DEF Return, Defer, ErrorWith, rememberTombstone
<1> QED BY <1>1, <1>2, <1>3, <1>4, <1>5 DEF LInv, Objects

\* A call that fails, or whose response is lost.
LEMMA ErrorTypes ==
  ASSUME LInv, NEW p \in Worker, w[p].pc # "idle", Error(p)
  PROVE  /\ Workers'
         /\ tomb' \in [Service -> ServiceObj] /\ queue' \subseteq Service
         /\ cache' \in [Service -> ServiceObj]
<1>1. w[p].obj \in ServiceObj
  BY DEF LInv, Workers, WorkerState
<1> QED BY <1>1, EndTypes DEF Error

\* The names of the bounds.
LEMMA BoundedNames ==
  {"reuse", "convert", "force", "edit", "outage", "lag", "retire", "fault", "crash"} = Bounded
BY DEF Bounded

\* What a worker starts with.
LEMMA BeginTypes ==
  ASSUME LInv, NEW p \in Worker, NEW s \in Service, NEW obj \in ServiceObj, NEW gone \in BOOLEAN
  PROVE  LET v == Begin(p, s, obj, gone)
         IN  /\ v \in WorkerState
             /\ \/ v = Idle /\ Branch(obj) = "idle"
                \/ /\ v.pc = Branch(obj) /\ Branch(obj) \in {"secret", "recover"}
                   /\ v.key = s /\ v.obj = obj /\ v.gone = gone /\ v.ip = obj.ip
                   /\ v.adopt <=> (~ obj.del /\ obj.lb /\ obj.ip # NoIP)
<1> DEFINE ad == ~ obj.del /\ obj.lb /\ obj.ip # NoIP
           b == Branch(obj)
           v == [Idle EXCEPT !.pc = b, !.key = s, !.obj = obj, !.gone = gone, !.ip = obj.ip, !.adopt = ad]
<1>1. ad \in BOOLEAN /\ obj.ip \in IPOrNone
  BY DEF ServiceObj
<1>2. b \in {"secret", "idle", "recover"}
  BY DEF Branch
<1>3. b \in PC
  BY <1>2 DEF PC
<1>4. Begin(p, s, obj, gone) = IF b = "idle" THEN Idle ELSE v
  BY DEF Begin
<1> HIDE DEF ad, b
<1>5. v \in WorkerState
  BY <1>1, <1>3, IdleType DEF WorkerState
<1>6. v.pc = b /\ v.key = s /\ v.obj = obj /\ v.gone = gone /\ v.ip = obj.ip /\ v.adopt = ad
  BY IdleType DEF WorkerState
<1> HIDE DEF v
<1>7. Begin(p, s, obj, gone) \in WorkerState
  BY <1>4, <1>5, IdleType
<1>8. CASE b = "idle"
  BY <1>4, <1>7, <1>8 DEF b
<1>9. CASE b # "idle"
  BY <1>1, <1>2, <1>4, <1>5, <1>6, <1>9 DEF b, ad
<1> QED BY <1>8, <1>9

\* The start of a reconcile.
LEMMA ReconcileTypes ==
  ASSUME LInv, NEW p \in Worker, NEW s \in Service, reconcile(p, s), UNCHANGED case
  PROVE  LInv'
<1>1. w[p].pc = "idle" /\ w[p] = Idle
  BY DEF reconcile, At, LInv, Workers, Busy
<1> DEFINE t == [tomb[s] EXCEPT !.del = TRUE]
<1>2. t \in ServiceObj /\ cache[s] \in ServiceObj
  BY ObjectTypes DEF LInv, Objects
<1> HIDE DEF t
<1>3. PICK v \in WorkerState :
         /\ w' = [w EXCEPT ![p] = v]
         /\ v = Idle \/ (v.pc \in {"secret", "recover"} /\ v.key = s /\ (v.adopt => v.ip \in Addr))
  <2>1. \/ w' = [w EXCEPT ![p] = Begin(p, s, cache[s], FALSE)]
        \/ w' = [w EXCEPT ![p] = Begin(p, s, t, TRUE)]
        \/ w' = [w EXCEPT ![p] = Idle]
    BY DEF reconcile, t
  <2>2. Begin(p, s, cache[s], FALSE) \in WorkerState /\ Begin(p, s, t, TRUE) \in WorkerState
    BY <1>2, BeginTypes
  <2>3. ASSUME NEW obj \in ServiceObj, NEW gone \in BOOLEAN, NEW v, v = Begin(p, s, obj, gone)
        PROVE  v = Idle \/ (v.pc \in {"secret", "recover"} /\ v.key = s /\ (v.adopt => v.ip \in Addr))
    <3>1. obj.ip \in Addr \cup {NoIP}
      BY DEF ServiceObj, IPOrNone
    <3>2. CASE v = Idle
      BY <3>2
    <3>3. CASE v # Idle
      BY <2>3, <3>1, <3>3, BeginTypes
    <3> QED BY <3>2, <3>3
  <2>4. CASE w' = [w EXCEPT ![p] = Begin(p, s, cache[s], FALSE)]
    BY <1>2, <2>2, <2>3, <2>4
  <2>5. CASE w' = [w EXCEPT ![p] = Begin(p, s, t, TRUE)]
    BY <1>2, <2>2, <2>3, <2>5
  <2>6. CASE w' = [w EXCEPT ![p] = Idle]
    BY <2>6, IdleType
  <2> QED BY <2>1, <2>4, <2>5, <2>6
<1>4. \A q \in Worker : w'[q] = IF q = p THEN v ELSE w[q]
  BY <1>3 DEF LInv, Workers
<1>5. w' \in [Worker -> WorkerState] /\ lock' \in [Addr -> Worker \cup {None}] /\ lock' = lock
  BY <1>3 DEF LInv, Workers, reconcile
<1>6. Busy'
  BY <1>3, <1>4, IdleType DEF LInv, Workers, Busy, OnAddress
<1>7. Keys'
  BY <1>3, <1>4, IdleType DEF LInv, Workers, Keys, reconcile
<1>8. Locks'
  BY <1>1, <1>3, <1>4, <1>5, IdleType, LBAssumption DEF LInv, Workers, Locks, Locked
<1>9. Objects'
  <2>1. tomb' \in [Service -> ServiceObj] /\ queue' \subseteq Service
    BY ObjectTypes, ZenonT(30) DEF LInv, Objects, reconcile
  <2> QED BY <2>1 DEF LInv, Objects, reconcile, api, ipam, lb
<1> QED BY <1>5, <1>6, <1>7, <1>8, <1>9 DEF LInv, Workers

\* The cleanup of a deleted or converted Service.
LEMMA CleanupTypes ==
  ASSUME LInv, NEW p \in Worker, UNCHANGED case,
         \/ ReadSecret(p) \/ abandonDeletion(p) \/ LookupPending(p) \/ lockAddress(p) \/ DecideShared(p)
         \/ DeleteL2Advertisement(p) \/ DeleteIPAddressPool(p) \/ RecordDeleted(p) \/ Release(p)
         \/ RecordReleased(p) \/ StripAnnotations(p) \/ removeFinalizer(p)
  PROVE  LInv'
<1> DEFINE s == w[p].key
<1> USE DEF At
<1>0. /\ w[p].pc # "idle" => s \in Service
      /\ w[p].pc \in OnAddress => w[p].ip \in Addr
      /\ w[p].ip \in Addr \cup {NoIP} /\ NoIP \notin Addr
      /\ w[p].obj \in ServiceObj
  BY LBAssumption DEF LInv, Workers, Busy, WorkerState, IPOrNone
<1>1. CASE ReadSecret(p)
  <2> DEFINE pc == IF ~ secret THEN "abandon"
                   ELSE IF w[p].ip = NoIP /\ w[p].obj.req THEN "lookup" ELSE "lock"
  <2>1. Goto(p, pc) /\ pc \in PC /\ pc \notin {"idle", "recover"} /\ pc \notin OnAddress /\ pc \notin Locked /\ w[p].pc = "secret"
    BY <1>1 DEF ReadSecret, PC, OnAddress, Locked
  <2> HIDE DEF pc
  <2>2. Workers'
    BY <1>1, <2>1, GotoMoves DEF ReadSecret, seen, Locked
  <2> QED BY <1>1, <2>2 DEF ReadSecret, LInv, Objects, api, ipam, lb, seen
<1>2. CASE abandonDeletion(p)
  <2>1. w[p].pc = "abandon" /\ s \in Service /\ Return(p) /\ Write(s, [svc[s] EXCEPT !.fin = FALSE])
    BY <1>0, <1>2 DEF abandonDeletion
  <2>2. [svc[s] EXCEPT !.fin = FALSE] \in ServiceObj
    BY <2>1, ObjectTypes DEF LInv, Objects
  <2>3. svc' \in [Service -> ServiceObj] /\ secret' \in BOOLEAN /\ born' \in [Service -> Nat]
    BY <2>1, <2>2, WriteTypes DEF LInv
  <2> QED BY <1>0, <1>2, <2>1, <2>3, EndTypes DEF abandonDeletion, LInv, Objects, ipam, lb
<1>3. CASE LookupPending(p)
  <2>1. ASSUME NEW a \in Addr, w' = [w EXCEPT ![p].pc = "lock", ![p].ip = a]
        PROVE  Workers'
    <3> DEFINE v == [w[p] EXCEPT !.pc = "lock", !.ip = a]
    <3>1. w' = [w EXCEPT ![p] = v]
      BY <2>1
    <3>2. v \in WorkerState /\ v.pc = "lock" /\ v.key = w[p].key /\ v.ip = a
      BY ZenonT(30) DEF LInv, Workers, WorkerState, PC, IPOrNone
    <3> HIDE DEF v
    <3> QED BY <1>3, <3>1, <3>2, WorkerMoves DEF LookupPending, seen, Locked, OnAddress
  <2>2. ASSUME Goto(p, "lock") PROVE Workers'
    BY <1>3, <2>2, GotoMoves DEF LookupPending, seen, Locked, OnAddress, PC
  <2>3. Workers'
    BY <1>3, <2>1, <2>2 DEF LookupPending, Listed
  <2> QED BY <1>3, <2>3 DEF LookupPending, LInv, Objects, api, ipam, lb, seen
<1>4. CASE lockAddress(p)
  <2>1. ASSUME w[p].ip = NoIP, Goto(p, "strip"), lock' = lock
        PROVE  Workers'
    BY <1>4, <2>1, GotoMoves DEF lockAddress, Locked, OnAddress, PC
  <2>2. ASSUME w[p].ip # NoIP, lock[w[p].ip] = None,
               lock' = [lock EXCEPT ![w[p].ip] = p],
               Goto(p, "shared")
        PROVE  Workers'
    <3> DEFINE v == [w[p] EXCEPT !.pc = "shared"]
    <3>1. w' = [w EXCEPT ![p] = v]
      BY <2>2 DEF Goto
    <3>2. v \in WorkerState /\ v.pc = "shared" /\ v.key = w[p].key /\ v.ip = w[p].ip
      BY DEF LInv, Workers, WorkerState, PC
    <3> HIDE DEF v
    <3> QED BY <1>0, <1>4, <2>2, <3>1, <3>2, WorkerMoves DEF lockAddress, Locked, OnAddress
  <2>3. Workers'
    BY <1>4, <2>1, <2>2 DEF lockAddress
  <2> QED BY <1>4, <2>3 DEF lockAddress, LInv, Objects, api, ipam, lb
<1>5. CASE DecideShared(p)
  <2> DEFINE sh == InUse(w[p].key, w[p].ip)
             pc == IF cleanupStageReached(w[p].obj.prog, "released") THEN "strip"
                   ELSE IF sh \/ cleanupStageReached(w[p].obj.prog, "deleted") THEN "release"
                   ELSE "withdraw"
             v == [w[p] EXCEPT !.shared = sh, !.pc = pc]
  <2>1. w' = [w EXCEPT ![p] = v] /\ lock' = lock /\ w[p].pc = "shared"
    BY <1>5 DEF DecideShared, seen
  <2>2. pc \in PC /\ pc \notin {"idle", "recover"} /\ pc \in Locked
    BY DEF PC, Locked
  <2>3. sh \in BOOLEAN
    BY DEF InUse, addressInUse, sharedPoolInUse, metalLBAddressInUse, ipamAddressInUse
  <2> HIDE DEF sh, pc
  <2>4. v \in WorkerState /\ v.pc = pc /\ v.key = w[p].key /\ v.ip = w[p].ip
    BY <2>2, <2>3 DEF LInv, Workers, WorkerState
  <2> HIDE DEF v
  <2>5. Workers'
    BY <1>0, <2>1, <2>2, <2>4, WorkerMoves DEF Locked, OnAddress
  <2> QED BY <1>5, <2>5 DEF DecideShared, LInv, Objects, api, ipam, lb, seen
<1>6. CASE DeleteL2Advertisement(p)
  <2>1. Workers'
    BY <1>0, <1>6, GotoMoves DEF DeleteL2Advertisement, seen, Locked, OnAddress, PC
  <2> QED BY <1>6, <2>1 DEF DeleteL2Advertisement, LInv, Objects, api, ipam, seen
<1>7. CASE DeleteIPAddressPool(p)
  <2>1. Workers'
    BY <1>0, <1>7, GotoMoves DEF DeleteIPAddressPool, seen, Locked, OnAddress, PC
  <2>2. NoPool \in Pool
    BY DEF NoPool, Pool
  <2> QED BY <1>7, <2>1, <2>2 DEF DeleteIPAddressPool, LInv, Objects, api, ipam, seen
<1>8. CASE RecordDeleted(p) \/ RecordReleased(p)
  <2>1. PICK stage \in {"deleted", "released"}, next \in {"release", "strip"} :
           /\ recordCleanupProgress(p, stage, next)
           /\ w[p].pc \in {"mark1", "mark2"}
    BY <1>8 DEF RecordDeleted, RecordReleased
  <2>2. Workers'
    BY <1>0, <2>1, GotoMoves DEF recordCleanupProgress, seen, Locked, OnAddress, PC
  <2>3. s \in Service /\ [svc[s] EXCEPT !.prog = stage] \in ServiceObj
    BY <1>0, <2>1, ObjectTypes DEF LInv, Objects
  <2>4. svc' \in [Service -> ServiceObj] /\ secret' \in BOOLEAN /\ born' \in [Service -> Nat]
    BY <2>1, <2>3, WriteTypes DEF recordCleanupProgress, LInv, Objects, api
  <2> QED BY <2>1, <2>2, <2>4 DEF recordCleanupProgress, LInv, Objects, ipam, lb, seen
<1>9. CASE Release(p)
  <2>1. w[p].pc = "release" /\ claim' \in [Addr -> SUBSET Service]
    BY <1>0, <1>9 DEF Release, ReleaseFIP, LInv, Objects
  <2>2. Workers'
    BY <1>0, <1>9, <2>1, GotoMoves DEF Release, seen, Locked, OnAddress, PC
  <2> QED BY <1>9, <2>1, <2>2 DEF Release, LInv, Objects, api, lb, seen
<1>10. CASE StripAnnotations(p)
  <2>1. w[p].pc = "strip"
    BY <1>10 DEF StripAnnotations
  <2>2. Workers'
    BY <1>0, <1>10, GotoMoves DEF StripAnnotations, seen, Locked, OnAddress, PC
  <2>3. s \in Service /\ [svc[s] EXCEPT !.ip = NoIP, !.req = FALSE, !.prog = "none"] \in ServiceObj
    BY <1>0, <2>1, ObjectTypes DEF LInv, Objects
  <2>4. svc' \in [Service -> ServiceObj] /\ secret' \in BOOLEAN /\ born' \in [Service -> Nat]
    BY <1>10, <2>3, WriteTypes DEF StripAnnotations, LInv, Objects, api
  <2> QED BY <1>10, <2>2, <2>4 DEF StripAnnotations, LInv, Objects, ipam, lb, seen
<1>11. CASE removeFinalizer(p)
  <2>1. w[p].pc = "unfinalize" /\ s \in Service /\ Return(p) /\ Write(s, [svc[s] EXCEPT !.fin = FALSE])
    BY <1>0, <1>11 DEF removeFinalizer
  <2>2. [svc[s] EXCEPT !.fin = FALSE] \in ServiceObj
    BY <2>1, ObjectTypes DEF LInv, Objects
  <2>3. svc' \in [Service -> ServiceObj] /\ secret' \in BOOLEAN /\ born' \in [Service -> Nat]
    BY <2>1, <2>2, WriteTypes DEF LInv
  <2> QED BY <1>0, <1>11, <2>1, <2>3, EndTypes DEF removeFinalizer, LInv, Objects, ipam, lb
<1> QED BY <1>1, <1>2, <1>3, <1>4, <1>5, <1>6, <1>7, <1>8, <1>9, <1>10, <1>11

\* The pool that a Service creates, or that it joins.
LEMMA PoolTypes ==
  ASSUME LInv, NEW s \in Service, NEW a \in Addr
  PROVE  /\ [pool EXCEPT ![a] = NewPool(s)] \in [Addr -> Pool]
         /\ [pool EXCEPT ![a].ns = @ \cup {s}] \in [Addr -> Pool]
<1> DEFINE joined == [pool[a] EXCEPT !.ns = @ \cup {s}]
<1>1. NewPool(s) \in Pool
  <2> DEFINE sel == IF case.group[s] # None THEN case.group[s] ELSE s
  <2>1. sel \in Service \cup Group \cup {None}
    BY CaseTypes DEF LInv
  <2>2. NewPool(s) = [has |-> TRUE, sel |-> sel, ns |-> {s}]
    BY DEF NewPool
  <2> HIDE DEF sel
  <2> QED BY <2>1, <2>2 DEF Pool
<1>2. joined \in Pool
  <2>1. pool[a] \in Pool /\ pool[a].ns \cup {s} \in SUBSET Service
    BY DEF LInv, Objects, Pool
  <2> QED BY <2>1 DEF Pool
<1>3. [pool EXCEPT ![a].ns = @ \cup {s}] = [pool EXCEPT ![a] = joined]
  OBVIOUS
<1> HIDE DEF joined
<1> QED BY <1>1, <1>2, <1>3 DEF LInv, Objects

\* The allocation of an address.
LEMMA AllocationTypes ==
  ASSUME LInv, NEW p \in Worker, UNCHANGED case,
         \/ Recover(p) \/ markAllocationPending(p) \/ RequestFIP(p) \/ RequestRefused(p)
         \/ CreateIPAddressPool(p) \/ CreatePoolFails(p) \/ CreateL2Advertisement(p) \/ Annotate(p)
  PROVE  LInv'
<1> DEFINE s == w[p].key
<1> USE DEF At
<1>0. /\ w[p].pc # "idle" => s \in Service
      /\ w[p].pc \in OnAddress => w[p].ip \in Addr
      /\ w[p].obj \in ServiceObj
  BY DEF LInv, Workers, Busy, WorkerState
\* An address that the IPAM lists.
<1>a. ASSUME NEW a \in Addr, w[p].pc = "recover", lock' = lock, AdoptListed(p, a)
      PROVE  Workers'
  <2> DEFINE v == [w[p] EXCEPT !.pc = "pool", !.ip = a, !.adopt = TRUE]
  <2>1. w' = [w EXCEPT ![p] = v]
    BY <1>a DEF AdoptListed
  <2>2. v \in WorkerState /\ v.pc = "pool" /\ v.key = w[p].key /\ v.ip = a
    BY ZenonT(30) DEF LInv, Workers, WorkerState, PC, IPOrNone
  <2> HIDE DEF v
  <2> QED BY <1>a, <2>1, <2>2, WorkerMoves DEF Locked, OnAddress
<1>1. CASE Recover(p)
  <2>1. w[p].pc = "recover" /\ UNCHANGED <<api, ipam, lb, spent>>
    BY <1>1 DEF Recover
  <2>2. CASE Return(p) \/ Defer(p)
    BY <1>0, <2>1, <2>2, EndTypes DEF LInv, Objects, api, ipam, lb
  <2>3. CASE Goto(p, "pool") /\ w[p].adopt /\ UNCHANGED seen
    \* An address that is adopted from the annotation.
    <3> DEFINE v == [w[p] EXCEPT !.pc = "pool"]
    <3>1. w' = [w EXCEPT ![p] = v]
      BY <2>3 DEF Goto
    <3>2. v \in WorkerState /\ v.pc = "pool" /\ v.key = w[p].key /\ v.ip = w[p].ip
      BY DEF LInv, Workers, WorkerState, PC
    <3> HIDE DEF v
    <3>3. w[p].ip \in Addr
      BY <2>1, <2>3 DEF LInv, Workers, Busy
    <3>4. Workers'
      BY <2>1, <2>3, <3>1, <3>2, <3>3, WorkerMoves DEF Locked, OnAddress, seen
    <3> QED BY <2>1, <2>3, <3>4 DEF LInv, Objects, api, ipam, lb, seen
  <2>4. CASE Goto(p, "mark") /\ UNCHANGED seen
    <3>1. Workers'
      BY <2>1, <2>4, GotoMoves DEF Locked, OnAddress, PC, seen
    <3> QED BY <2>1, <2>4, <3>1 DEF LInv, Objects, api, ipam, lb, seen
  <2>5. CASE (\E a \in Listed(s) : AdoptListed(p, a)) /\ UNCHANGED seen
    <3>1. PICK a \in Addr : AdoptListed(p, a)
      BY <2>5 DEF Listed
    <3>2. Workers'
      BY <1>a, <2>1, <2>5, <3>1 DEF seen
    <3> QED BY <2>1, <2>5, <3>2 DEF LInv, Objects, api, ipam, lb, seen
  <2> QED BY <1>1, <2>2, <2>3, <2>4, <2>5 DEF Recover
<1>2. CASE markAllocationPending(p)
  <2>1. w[p].pc = "mark" /\ s \in Service
    BY <1>0, <1>2 DEF markAllocationPending
  <2>2. CASE Write(s, [svc[s] EXCEPT !.req = TRUE]) /\ Goto(p, "request") /\ UNCHANGED seen
    <3>1. Workers'
      BY <2>1, <2>2, GotoMoves DEF Locked, OnAddress, PC, seen
    <3>2. [svc[s] EXCEPT !.req = TRUE] \in ServiceObj
      BY <2>1, ObjectTypes DEF LInv, Objects
    <3>3. svc' \in [Service -> ServiceObj] /\ secret' \in BOOLEAN /\ born' \in [Service -> Nat]
      BY <2>1, <2>2, <3>2, WriteTypes DEF LInv
    <3> QED BY <1>2, <2>2, <3>1, <3>3 DEF markAllocationPending, LInv, Objects, ipam, lb, seen
  <2>3. CASE Return(p) /\ UNCHANGED api
    BY <1>0, <1>2, <2>1, <2>3, EndTypes DEF markAllocationPending, LInv, Objects, api, ipam, lb
  <2> QED BY <1>2, <2>2, <2>3 DEF markAllocationPending
<1>3. CASE RequestFIP(p)
  <2>1. w[p].pc = "request" /\ s \in Service /\ UNCHANGED <<api, lb>>
    BY <1>0, <1>3 DEF RequestFIP
  <2>2. PICK a \in Addr :
           /\ claim' = [claim EXCEPT ![a] = @ \cup {s}]
           /\ \/ w' = [w EXCEPT ![p].pc = "pool", ![p].ip = a] /\ UNCHANGED <<seen, spent>>
              \/ Spend("fault") /\ Error(p)
    BY <1>3, CaseTypes DEF RequestFIP, Answers, Listed, LInv
  <2>3. claim' \in [Addr -> SUBSET Service]
    BY <2>1, <2>2 DEF LInv, Objects
  <2>4. CASE w' = [w EXCEPT ![p].pc = "pool", ![p].ip = a] /\ UNCHANGED <<seen, spent>>
    <3> DEFINE v == [w[p] EXCEPT !.pc = "pool", !.ip = a]
    <3>1. w' = [w EXCEPT ![p] = v]
      BY <2>4
    <3>2. v \in WorkerState /\ v.pc = "pool" /\ v.key = w[p].key /\ v.ip = a
      BY ZenonT(30) DEF LInv, Workers, WorkerState, PC, IPOrNone
    <3> HIDE DEF v
    <3>3. Workers'
      BY <2>1, <2>4, <3>1, <3>2, WorkerMoves DEF Locked, OnAddress, seen
    <3> QED BY <2>1, <2>3, <2>4, <3>3 DEF LInv, Objects, api, lb, seen
  <2>5. CASE Spend("fault") /\ Error(p)
    <3>1. spent' \in [Bounded -> Nat]
      BY <2>5, SpendTypes, BoundedNames DEF LInv
    <3> QED BY <2>1, <2>3, <2>5, <3>1, ErrorTypes DEF LInv, Objects, api, lb
  <2> QED BY <2>2, <2>4, <2>5
<1>4. CASE RequestRefused(p)
  <2>1. w[p].pc = "request" /\ s \in Service /\ Defer(p) /\ UNCHANGED <<ipam, lb>>
    BY <1>0, <1>4 DEF RequestRefused
  <2>2. [svc[s] EXCEPT !.req = FALSE] \in ServiceObj
    BY <2>1, ObjectTypes DEF LInv, Objects
  <2>3. svc' \in [Service -> ServiceObj] /\ secret' \in BOOLEAN /\ born' \in [Service -> Nat]
    BY <1>4, <2>1, <2>2, WriteTypes DEF RequestRefused, LInv, Objects, api
  <2>4. spent' \in [Bounded -> Nat]
    BY <1>4, SpendTypes, BoundedNames DEF RequestRefused, LInv, Objects
  <2> QED BY <1>0, <2>1, <2>3, <2>4, EndTypes DEF LInv, Objects, ipam, lb
<1>5. CASE CreateIPAddressPool(p)
  <2> DEFINE a == w[p].ip
  <2>1. w[p].pc = "pool" /\ s \in Service /\ a \in Addr /\ UNCHANGED <<api, ipam, adv, seen, spent>>
    BY <1>0, <1>5 DEF CreateIPAddressPool, OnAddress
  <2>2. \/ pool' = pool \/ pool' = [pool EXCEPT ![a].ns = @ \cup {s}]
        \/ pool' = [pool EXCEPT ![a] = NewPool(s)]
    BY <1>5 DEF CreateIPAddressPool
  <2>4. pool' \in [Addr -> Pool]
    <3>1. /\ [pool EXCEPT ![a] = NewPool(s)] \in [Addr -> Pool]
          /\ [pool EXCEPT ![a].ns = @ \cup {s}] \in [Addr -> Pool]
      BY <2>1, PoolTypes
    <3>2. pool \in [Addr -> Pool]
      BY DEF LInv, Objects
    <3> QED BY <2>2, <3>1, <3>2
  <2>5. Workers'
    <3>1. ASSUME NEW pc \in {"annotate", "advertise"}, Goto(p, pc)
          PROVE  Workers'
      BY <2>1, <3>1, GotoMoves DEF Locked, OnAddress, PC, seen
    <3>2. ASSUME w' = [w EXCEPT ![p].pc = "advertise", ![p].created = TRUE]
          PROVE  Workers'
      <4> DEFINE v == [w[p] EXCEPT !.pc = "advertise", !.created = TRUE]
      <4>1. w' = [w EXCEPT ![p] = v]
        BY <3>2
      <4>2. v \in WorkerState /\ v.pc = "advertise" /\ v.key = w[p].key /\ v.ip = w[p].ip
        BY ZenonT(30) DEF LInv, Workers, WorkerState, PC
      <4> HIDE DEF v
      <4> QED BY <2>1, <4>1, <4>2, WorkerMoves DEF Locked, OnAddress, seen
    <3> QED BY <1>5, <3>1, <3>2 DEF CreateIPAddressPool
  <2> QED BY <2>1, <2>4, <2>5 DEF LInv, Objects, api, ipam, seen
<1>6. CASE CreatePoolFails(p)
  <2> DEFINE a == w[p].ip
  <2>1. w[p].pc = "pool" /\ s \in Service /\ a \in Addr /\ UNCHANGED <<api, ipam, adv>>
    BY <1>0, <1>6 DEF CreatePoolFails, OnAddress
  <2>2. spent' \in [Bounded -> Nat]
    BY <1>6, SpendTypes, BoundedNames DEF CreatePoolFails, LInv
  <2>3. \/ pool' = pool \/ pool' = [pool EXCEPT ![a].ns = @ \cup {s}]
        \/ pool' = [pool EXCEPT ![a] = IF @.has THEN @ ELSE NewPool(s)]
    BY <1>6 DEF CreatePoolFails
  <2>4. pool' \in [Addr -> Pool]
    <3>1. [pool EXCEPT ![a] = IF @.has THEN @ ELSE NewPool(s)] \in {pool, [pool EXCEPT ![a] = NewPool(s)]}
      BY <2>1 DEF LInv, Objects
    <3>2. /\ [pool EXCEPT ![a] = NewPool(s)] \in [Addr -> Pool]
          /\ [pool EXCEPT ![a].ns = @ \cup {s}] \in [Addr -> Pool]
      BY <2>1, PoolTypes
    <3>3. pool \in [Addr -> Pool]
      BY DEF LInv, Objects
    <3> QED BY <2>3, <3>1, <3>2, <3>3
  <2>5. Error(p) \/ \E pc \in {"undorelease", "advertise"} : Goto(p, pc) /\ UNCHANGED seen
    BY <1>6 DEF CreatePoolFails
  <2>6. CASE Error(p)
    BY <2>1, <2>2, <2>4, <2>6, ErrorTypes DEF LInv, Objects, api, ipam
  <2>7. ASSUME NEW pc \in {"undorelease", "advertise"}, Goto(p, pc), UNCHANGED seen
        PROVE  LInv'
    <3>1. Workers'
      BY <1>0, <2>1, <2>7, GotoMoves DEF Locked, OnAddress, PC, seen
    <3> QED BY <2>1, <2>2, <2>4, <2>7, <3>1 DEF LInv, Objects, api, ipam, seen
  <2> QED BY <2>5, <2>6, <2>7
<1>7. CASE CreateL2Advertisement(p)
  <2>1. w[p].pc = "advertise" /\ UNCHANGED <<api, ipam, pool, seen>>
    BY <1>7 DEF CreateL2Advertisement
  <2>2. spent' \in [Bounded -> Nat]
    BY <1>7, SpendTypes, BoundedNames DEF CreateL2Advertisement, LInv, Objects
  <2>3. adv' \in [Addr -> BOOLEAN]
    <3>1. adv' = adv \/ adv' = [adv EXCEPT ![w[p].ip] = TRUE]
      BY <1>7 DEF CreateL2Advertisement
    <3> QED BY <3>1 DEF LInv, Objects
  <2>4. PICK pc \in {"annotate", "advfail"} : Goto(p, pc)
    BY <1>7 DEF CreateL2Advertisement
  <2>5. Workers'
    BY <1>0, <2>1, <2>4, GotoMoves DEF Locked, OnAddress, PC, seen
  <2> QED BY <2>1, <2>2, <2>3, <2>5 DEF LInv, Objects, api, ipam, seen
<1>8. CASE Annotate(p)
  <2>1. w[p].pc = "annotate" /\ s \in Service /\ w[p].ip \in Addr /\ UNCHANGED <<ipam, lb>>
    BY <1>0, <1>8 DEF Annotate, OnAddress
  <2> DEFINE new == [svc[s] EXCEPT !.ip = w[p].ip, !.req = FALSE, !.fin = TRUE, !.lab = TRUE]
  <2>2. new \in ServiceObj
    BY <2>1, ObjectTypes DEF LInv, Objects
  <2>3. UNCHANGED api \/ Write(s, new)
    BY <1>8 DEF Annotate
  <2>4. svc' \in [Service -> ServiceObj] /\ secret' \in BOOLEAN /\ born' \in [Service -> Nat]
    <3> HIDE DEF new
    <3> QED BY <2>1, <2>2, <2>3, WriteTypes DEF LInv, Objects, api
  <2>5. spent' \in [Bounded -> Nat]
    BY <1>8, SpendTypes, BoundedNames DEF Annotate, LInv, Objects
  <2>6. CASE Return(p)
    BY <1>0, <2>1, <2>4, <2>5, <2>6, EndTypes DEF LInv, Objects, ipam, lb
  <2>7. ASSUME NEW pc \in {"vlock", "annotfail"}, Goto(p, pc), UNCHANGED seen
        PROVE  LInv'
    <3>1. Workers'
      BY <2>1, <2>7, GotoMoves DEF Locked, OnAddress, PC, seen
    <3> QED BY <2>1, <2>4, <2>5, <2>7, <3>1 DEF LInv, Objects, ipam, lb, seen
  <2> QED BY <1>8, <2>6, <2>7 DEF Annotate
<1> QED BY <1>1, <1>2, <1>3, <1>4, <1>5, <1>6, <1>7, <1>8

\* What a call may have written that returns its error.
LEMMA EffectTypes ==
  ASSUME LInv, NEW p \in Worker, w[p].pc # "idle", MayTakeEffect(p)
  PROVE  /\ svc' \in [Service -> ServiceObj]
         /\ secret' \in BOOLEAN /\ born' \in [Service -> Nat]
         /\ claim' \in [Addr -> SUBSET Service]
         /\ pool' \in [Addr -> Pool]
         /\ adv' \in [Addr -> BOOLEAN]
<1> DEFINE s == w[p].key
           a == w[p].ip
<1>1. s \in Service /\ NoPool \in Pool
  BY DEF LInv, Workers, Busy, NoPool, Pool
<1>2. \/ UNCHANGED <<api, ipam, lb>>
      \/ adv' = [adv EXCEPT ![a] = FALSE] /\ UNCHANGED <<api, ipam, pool>>
      \/ pool' = [pool EXCEPT ![a] = NoPool] /\ UNCHANGED <<api, ipam, adv>>
      \/ claim' = [claim EXCEPT ![a] = @ \ {s}] /\ UNCHANGED <<api, lb>>
      \/ /\ \E new \in ServiceObj : Write(s, new)
         /\ UNCHANGED <<ipam, lb>>
  <2>1. /\ [svc[s] EXCEPT !.fin = FALSE] \in ServiceObj
        /\ [svc[s] EXCEPT !.req = TRUE] \in ServiceObj
        /\ [svc[s] EXCEPT !.prog = "deleted"] \in ServiceObj
        /\ [svc[s] EXCEPT !.prog = "released"] \in ServiceObj
        /\ [svc[s] EXCEPT !.ip = NoIP, !.req = FALSE, !.prog = "none"] \in ServiceObj
    BY <1>1, ObjectTypes DEF LInv, Objects
  <2> QED BY <2>1 DEF MayTakeEffect, Effect, ReleaseFIP
<1>3. CASE \E new \in ServiceObj : Write(s, new)
  <2>1. svc' \in [Service -> ServiceObj] /\ secret' \in BOOLEAN /\ born' \in [Service -> Nat]
    BY <1>1, <1>3, WriteTypes DEF LInv
  <2> QED BY <1>1, <1>2, <2>1 DEF LInv, Objects, api, ipam, lb
<1>4. CASE ~ \E new \in ServiceObj : Write(s, new)
  BY <1>1, <1>2, <1>4 DEF LInv, Objects, api, ipam, lb
<1> QED BY <1>3, <1>4

\* Taking a failed or overtaken allocation back.
LEMMA UndoTypes ==
  ASSUME LInv, NEW p \in Worker, UNCHANGED case,
         \/ UndoCheck(p) \/ UndoAdvertisement(p) \/ UndoPool(p) \/ UndoRelease(p)
         \/ VanishedLock(p) \/ VanishedShared(p) \/ VanishedWithdraw(p) \/ VanishedUnpool(p)
         \/ VanishedRelease(p) \/ VanishedFails(p) \/ CallFails(p)
  PROVE  LInv'
<1> USE DEF At
<1>0. /\ w[p].pc # "idle" => w[p].key \in Service
      /\ w[p].pc \in OnAddress => w[p].ip \in Addr
      /\ w[p].obj \in ServiceObj
      /\ NoPool \in Pool
  BY DEF LInv, Workers, Busy, WorkerState, NoPool, Pool
\* A step that goes on with the undo, or returns the error.
<1>u. ASSUME w[p].pc \in {"advfail", "annotfail", "undoadv", "undopool"},
             NEW pc \in {"undoadv", "undopool", "undorelease"}, (Goto(p, pc) /\ UNCHANGED seen) \/ Error(p)
      PROVE  /\ Workers'
             /\ tomb' \in [Service -> ServiceObj] /\ queue' \subseteq Service
             /\ cache' \in [Service -> ServiceObj]
  <2>1. CASE Goto(p, pc) /\ UNCHANGED seen
    <3>1. Workers'
      BY <1>0, <1>u, <2>1, GotoMoves DEF Locked, OnAddress, PC, seen
    <3> QED BY <2>1, <3>1 DEF seen, LInv, Objects
  <2>2. CASE Error(p)
    BY <1>u, <2>2, ErrorTypes
  <2> QED BY <1>u, <2>1, <2>2
<1>1. CASE UndoCheck(p)
  <2>1. /\ w[p].pc \in {"advfail", "annotfail"} /\ UNCHANGED <<api, ipam, lb, spent>>
        /\ \E pc \in {"undoadv", "undopool", "undorelease"} : (Goto(p, pc) /\ UNCHANGED seen) \/ Error(p)
    BY <1>1 DEF UndoCheck
  <2> QED BY <1>u, <2>1 DEF LInv, Objects, api, ipam, lb
<1>2. CASE UndoAdvertisement(p)
  <2>1. /\ w[p].pc = "undoadv" /\ UNCHANGED <<api, ipam, pool, spent>>
        /\ (Goto(p, "undopool") /\ UNCHANGED seen) \/ Error(p)
    BY <1>2 DEF UndoAdvertisement
  <2>2. adv' \in [Addr -> BOOLEAN]
    BY <1>2 DEF UndoAdvertisement, LInv, Objects
  <2> QED BY <1>u, <2>1, <2>2 DEF LInv, Objects, api, ipam
<1>3. CASE UndoPool(p)
  <2>1. /\ w[p].pc = "undopool" /\ UNCHANGED <<api, ipam, adv, spent>>
        /\ (Goto(p, "undorelease") /\ UNCHANGED seen) \/ Error(p)
    BY <1>3 DEF UndoPool
  <2>2. pool' \in [Addr -> Pool]
    BY <1>0, <1>3 DEF UndoPool, LInv, Objects
  <2> QED BY <1>u, <2>1, <2>2 DEF LInv, Objects, api, ipam
<1>4. CASE UndoRelease(p)
  <2>1. w[p].pc # "idle" /\ Error(p) /\ UNCHANGED <<api, lb, spent>>
    BY <1>4 DEF UndoRelease
  <2>2. claim' \in [Addr -> SUBSET Service]
    BY <1>4 DEF UndoRelease, ReleaseFIP, LInv, Objects
  <2> QED BY <2>1, <2>2, ErrorTypes DEF LInv, Objects, api, lb
<1>5. CASE VanishedLock(p)
  <2> DEFINE v == [w[p] EXCEPT !.pc = "vshared"]
  <2>1. w' = [w EXCEPT ![p] = v]
    BY <1>5 DEF VanishedLock, Goto
  <2>2. v \in WorkerState /\ v.pc = "vshared" /\ v.key = w[p].key /\ v.ip = w[p].ip
    BY DEF LInv, Workers, WorkerState, PC
  <2> HIDE DEF v
  <2>3. Workers'
    BY <1>0, <1>5, <2>1, <2>2, WorkerMoves DEF VanishedLock, Locked, OnAddress
  <2> QED BY <1>5, <2>3 DEF VanishedLock, LInv, Objects, api, ipam, lb
<1>6. CASE VanishedShared(p)
  <2>1. PICK pc \in {"vrelease", "vwithdraw"} : Goto(p, pc)
    BY <1>6 DEF VanishedShared
  <2>2. Workers'
    BY <1>0, <1>6, <2>1, GotoMoves DEF VanishedShared, Locked, OnAddress, PC, seen
  <2> QED BY <1>6, <2>2 DEF VanishedShared, LInv, Objects, api, ipam, lb, seen
<1>7. CASE VanishedWithdraw(p)
  <2>1. Workers'
    BY <1>0, <1>7, GotoMoves DEF VanishedWithdraw, Locked, OnAddress, PC, seen
  <2> QED BY <1>7, <2>1 DEF VanishedWithdraw, LInv, Objects, api, ipam, seen
<1>8. CASE VanishedUnpool(p)
  <2>1. Workers'
    BY <1>0, <1>8, GotoMoves DEF VanishedUnpool, Locked, OnAddress, PC, seen
  <2> QED BY <1>0, <1>8, <2>1 DEF VanishedUnpool, LInv, Objects, api, ipam, seen
<1>9. CASE VanishedRelease(p)
  <2>1. w[p].pc # "idle" /\ Return(p) /\ UNCHANGED <<api, lb, spent>>
    BY <1>9 DEF VanishedRelease
  <2>2. claim' \in [Addr -> SUBSET Service]
    BY <1>9 DEF VanishedRelease, ReleaseFIP, LInv, Objects
  <2> QED BY <1>0, <2>1, <2>2, EndTypes DEF LInv, Objects, api, lb
<1>10. CASE VanishedFails(p)
  <2>1. /\ w[p].pc # "idle" /\ w[p].ip \in Addr /\ MayTakeEffect(p)
        /\ ErrorWith(p, [w[p].obj EXCEPT !.ip = w[p].ip])
    BY <1>0, <1>10 DEF VanishedFails, Vanished, OnAddress
  <2>2. [w[p].obj EXCEPT !.ip = w[p].ip] \in ServiceObj
    BY <1>0, <2>1, ObjectTypes
  <2>3. spent' \in [Bounded -> Nat]
    BY <1>10, SpendTypes, BoundedNames DEF VanishedFails, LInv
  <2>4. Workers' /\ tomb' \in [Service -> ServiceObj] /\ queue' \subseteq Service /\ cache' \in [Service -> ServiceObj]
    BY <2>1, <2>2, EndTypes
  <2> QED BY <2>1, <2>3, <2>4, EffectTypes DEF LInv, Objects
<1>11. CASE CallFails(p)
  <2>1. w[p].pc # "idle" /\ Error(p) /\ MayTakeEffect(p)
    BY <1>11 DEF CallFails, Plain
  <2>2. spent' \in [Bounded -> Nat]
    BY <1>11, SpendTypes, BoundedNames DEF CallFails, LInv
  <2>3. Workers' /\ tomb' \in [Service -> ServiceObj] /\ queue' \subseteq Service /\ cache' \in [Service -> ServiceObj]
    BY <2>1, ErrorTypes
  <2> QED BY <2>1, <2>2, <2>3, EffectTypes DEF LInv, Objects
<1> QED BY <1>1, <1>2, <1>3, <1>4, <1>5, <1>6, <1>7, <1>8, <1>9, <1>10, <1>11

\* The informer.
LEMMA InformerTypes ==
  ASSUME LInv, NEW s \in Service, UNCHANGED case,
         Event(s) \/ DeletedFinalStateUnknown(s) \/ Resync(s)
  PROVE  LInv'
<1>1. /\ UNCHANGED <<api, ipam, lb, w, lock>> /\ queue' \subseteq Service
      /\ spent' \in [Bounded -> Nat]
  BY SpendTypes, BoundedNames DEF Event, DeletedFinalStateUnknown, Resync, LInv, Objects
<1>2. Delivered(s) \in ServiceObj
  BY ObjectTypes DEF Delivered, LInv, Objects
<1>3. cache' \in [Service -> ServiceObj]
  BY <1>2, ObjectTypes DEF Event, DeletedFinalStateUnknown, Resync, LInv, Objects
<1>4. tomb' \in [Service -> ServiceObj]
  BY DEF Event, DeletedFinalStateUnknown, rememberTombstone, Resync, LInv, Objects
<1>5. Workers'
  BY <1>1 DEF LInv, Workers, Busy, Keys, Locks
<1> QED BY <1>1, <1>3, <1>4, <1>5 DEF LInv, Objects, api, ipam, lb

\* Users.
LEMMA UserTypes ==
  ASSUME LInv, UNCHANGED case,
         \/ \E s \in Service : \/ CreateService(s) \/ DeleteService(s) \/ ConvertService(s)
                               \/ ForceFinalizer(s) \/ EditAnnotation(s)
         \/ RetireProject
  PROVE  LInv'
<1>1. Quiet
  BY DEF CreateService, DeleteService, ConvertService, ForceFinalizer, EditAnnotation, RetireProject
<1>2. Workers'
  BY <1>1 DEF Quiet, LInv, Workers, Busy, Keys, Locks
<1>3. spent' \in [Bounded -> Nat]
  BY SpendTypes, BoundedNames DEF CreateService, DeleteService, ConvertService, ForceFinalizer,
     EditAnnotation, RetireProject, LInv, Objects
<1>4. secret' \in BOOLEAN
  BY DEF CreateService, DeleteService, ConvertService, ForceFinalizer, EditAnnotation, RetireProject,
     Write, LInv, Objects
<1>5. svc' \in [Service -> ServiceObj] /\ born' \in [Service -> Nat]
  <2>1. CASE RetireProject
    BY <2>1 DEF RetireProject, LInv, Objects
  <2>2. ASSUME NEW s \in Service, CreateService(s)
        PROVE  svc' \in [Service -> ServiceObj] /\ born' \in [Service -> Nat]
    <3>1. born[s] + 1 \in Nat
      BY DEF LInv, Objects
    <3>2. born' \in [Service -> Nat] /\ born'[s] \in Nat
      BY <2>2, <3>1 DEF CreateService, LInv, Objects
    <3>3. [Absent EXCEPT !.live = TRUE, !.uid = born'[s], !.lb = TRUE] \in ServiceObj
      BY <3>2, ObjectTypes
    <3> QED BY <2>2, <3>2, <3>3 DEF CreateService, LInv, Objects
  <2>3. ASSUME NEW s \in Service,
               \/ DeleteService(s) \/ ConvertService(s) \/ ForceFinalizer(s) \/ EditAnnotation(s)
        PROVE  svc' \in [Service -> ServiceObj] /\ born' \in [Service -> Nat]
    <3>1. /\ [svc[s] EXCEPT !.del = TRUE] \in ServiceObj /\ [svc[s] EXCEPT !.lb = FALSE] \in ServiceObj
          /\ [svc[s] EXCEPT !.fin = FALSE] \in ServiceObj /\ [svc[s] EXCEPT !.ip = NoIP] \in ServiceObj
      BY ObjectTypes DEF LInv, Objects
    <3>2. /\ Settle([svc[s] EXCEPT !.del = TRUE]) \in ServiceObj
          /\ Settle([svc[s] EXCEPT !.lb = FALSE]) \in ServiceObj
          /\ Settle([svc[s] EXCEPT !.fin = FALSE]) \in ServiceObj
      BY <3>1, ObjectTypes
    <3>3. /\ \/ svc' = [svc EXCEPT ![s] = Settle([svc[s] EXCEPT !.del = TRUE])]
             \/ svc' = [svc EXCEPT ![s] = Settle([svc[s] EXCEPT !.lb = FALSE])]
             \/ svc' = [svc EXCEPT ![s] = Settle([svc[s] EXCEPT !.fin = FALSE])]
             \/ svc' = [svc EXCEPT ![s] = [svc[s] EXCEPT !.ip = NoIP]]
          /\ born' = born
      BY <2>3 DEF DeleteService, ConvertService, ForceFinalizer, EditAnnotation, Write
    <3> QED BY <3>1, <3>2, <3>3 DEF LInv, Objects
  <2> QED BY <2>1, <2>2, <2>3
<1> QED BY <1>1, <1>2, <1>3, <1>4, <1>5 DEF Quiet, LInv, Objects, ipam, lb

\* A restart forgets every key and every lock.
LEMMA RestartTypes ==
  ASSUME LInv, Restart, UNCHANGED case
  PROVE  LInv'
<1>1. Workers'
  BY IdleType DEF Restart, Workers, Busy, Keys, Locks, OnAddress, Locked
<1>2. spent' \in [Bounded -> Nat]
  BY SpendTypes, BoundedNames DEF Restart, LInv
<1>3. tomb' \in [Service -> ServiceObj] /\ cache' \in [Service -> ServiceObj] /\ queue' \subseteq Service
  BY ObjectTypes DEF Restart, LInv, Objects
<1> QED BY <1>1, <1>2, <1>3 DEF Restart, LInv, Objects, api, ipam, lb

\* The first state.
LEMMA InitTypes ==
  ASSUME Init
  PROVE  LInv
<1>1. Workers
  BY IdleType DEF Init, Workers, Busy, Keys, Locks, OnAddress, Locked
<1>2. NoPool \in Pool
  BY DEF NoPool, Pool
<1>3. Objects
  BY <1>2, ObjectTypes DEF Init, Objects
<1> QED BY <1>1, <1>3 DEF LInv

\* Every step.
LEMMA NextTypes ==
  ASSUME LInv, [Next]_vars
  PROVE  LInv'
<1>1. CASE Next
  <2>1. UNCHANGED case
    BY <1>1 DEF Next
  <2>2. ASSUME NEW p \in Worker, Step(p) \/ CreatePoolFails(p) \/ VanishedFails(p) \/ CallFails(p)
        PROVE  LInv'
    BY <2>1, <2>2, ReconcileTypes, CleanupTypes, AllocationTypes, UndoTypes DEF Step
  <2>3. ASSUME NEW s \in Service, Event(s) \/ DeletedFinalStateUnknown(s) \/ Resync(s)
        PROVE  LInv'
    BY <2>1, <2>3, InformerTypes
  <2>4. CASE \/ \E s \in Service : \/ CreateService(s) \/ DeleteService(s) \/ ConvertService(s)
                                   \/ ForceFinalizer(s) \/ EditAnnotation(s)
             \/ RetireProject
    BY <2>1, <2>4, UserTypes
  <2>5. CASE Restart
    BY <2>1, <2>5, RestartTypes
  <2> QED BY <1>1, <2>2, <2>3, <2>4, <2>5 DEF Next
<1>2. CASE UNCHANGED vars
  BY <1>2 DEF vars, LInv, Workers, Busy, Keys, Locks, Objects
<1> QED BY <1>1, <1>2

\* What was written and reported failed was written of an address.
Written == torn \subseteq {"pool", "advertise", "annotate"} \X Service \X Addr

\* Every step keeps it: only calls on an address tear.
LEMMA NextWritten ==
  ASSUME LInv, Written, [Next]_vars
  PROVE  Written'
<1>1. CASE Next
  <2>1. torn' = torn \cup {<<w[p].pc, w[p].key, w[p].ip>> : p \in {q \in Worker : Tears(q)}}
    BY <1>1 DEF Next
  <2>2. ASSUME NEW p \in Worker, Tears(p)
        PROVE  /\ w[p].pc \in {"pool", "advertise", "annotate"}
               /\ w[p].key \in Service /\ w[p].ip \in Addr
    <3>1. w[p].pc \in {"pool", "advertise", "annotate"}
      BY <2>2 DEF Tears
    <3> QED BY <3>1 DEF LInv, Workers, Busy, OnAddress
  <2>3. {<<w[p].pc, w[p].key, w[p].ip>> : p \in {q \in Worker : Tears(q)}}
           \subseteq {"pool", "advertise", "annotate"} \X Service \X Addr
    BY <2>2
  <2> QED BY <2>1, <2>3 DEF Written
<1>2. CASE UNCHANGED vars
  BY <1>2 DEF vars, Written
<1> QED BY <1>1, <1>2

\* In every behaviour, with any failures and restarts: what every variable
\* holds, one worker per key, and the locks of the addresses.
THEOREM Invariance == Spec => [](LInv /\ Written)
<1>1. Init => LInv /\ Written
  BY InitTypes DEF Init, Written
<1>2. LInv /\ Written /\ [Next]_vars => (LInv /\ Written)'
  BY NextTypes, NextWritten
<1> QED BY <1>1, <1>2, PTL DEF Spec

\* Every variable keeps its type, and a lock on an address is held by the
\* worker that works on it: a worker that returns, defers or fails gives its
\* lock back.
THEOREM TypeCorrect == Spec => []TypeOK
<1>1. LInv /\ Written => TypeOK
  BY DEF LInv, Workers, Locks, Objects, TypeOK, Written
<1> QED BY <1>1, Invariance, PTL

\* Between the in-use check and the end of its cleanup a worker is alone with
\* the address: no two workers check, withdraw, unpool or release one address
\* at the same time.
CleanupExclusive ==
    \A p, q \in Worker :
       w[p].pc \in Locked /\ w[q].pc \in Locked /\ w[p].ip = w[q].ip /\ w[p].ip # NoIP => p = q

\* lockAddress keeps two cleanups of one address apart, whatever fails.
THEOREM CleanupAlwaysExclusive == Spec => []CleanupExclusive
<1>1. LInv => CleanupExclusive
  BY DEF LInv, Workers, Locks, CleanupExclusive
<1> QED BY <1>1, Invariance, PTL


-----------------------------------------------------------------------------
(* Calm behaviours                                                         *)

\* A worker writes the annotation of its allocation on an object that was
\* created, under the same name, after the one it reconciles.
AnnotatesAnother ==
    \E p \in Worker : /\ Annotate(p)
                      /\ svc[w[p].key].live /\ svc[w[p].key].uid # w[p].obj.uid
                      /\ svc' # svc

\* What a calm step is not: a failed call or a lost response, a restart, a
\* finalizer or an annotation removed by hand, an annotation on another object.
Calm ==
    /\ \A b \in {"fault", "crash", "force", "edit"} : spent'[b] = spent[b]
    /\ ~ AnnotatesAnother

CleanupPC == {"secret", "lookup", "lock", "shared", "withdraw", "unpool", "mark1", "release", "mark2",
              "strip", "unfinalize", "abandon"}
VanishPC  == {"vlock", "vshared", "vwithdraw", "vunpool", "vrelease"}
HolderPC  == {"pool", "advertise", "annotate", "vlock", "vshared", "vwithdraw", "vunpool", "vrelease"}
AllocPC   == {"recover", "mark", "request", "pool", "advertise", "annotate",
              "vlock", "vshared", "vwithdraw", "vunpool", "vrelease"}

\* A worker is at one of these steps for Service s (and address a).
Runs(s, steps) == \E p \in Worker : w[p].key = s /\ w[p].pc \in steps
RunsOn(s, steps, a) == \E p \in Worker : w[p].key = s /\ w[p].pc \in steps /\ w[p].ip = a

\* The allocation of such an object is to be taken back.
Over(obj) == obj.del \/ ~ obj.lb

\* The cleanup of the object in the cache cannot have begun.
Serving(s) == ~ Over(cache[s]) \/ Runs(s, AllocPC)

\* A cleanup has left its mark on the object.
Marked(obj) == obj.prog # "none" \/ (obj.fin /\ obj.ip = NoIP)

\* No address is claimed for s, or only the one that its worker releases next.
Cleared(s) == (\A a \in Addr : s \notin claim[a]) \/ Runs(s, {"release"})

\* What a pool for Service s selects.
Selector(s) == IF case.group[s] # None THEN case.group[s] ELSE s

\* Objects of one name have growing uids; a copy is not newer than the object,
\* and what was to be taken back still is.
AgesOf(s) ==
    /\ svc[s].live => svc[s].uid = born[s] /\ svc[s].uid # 0
    /\ ~ svc[s].live => svc[s] = Absent
    /\ cache[s].live => cache[s].uid <= born[s] /\ cache[s].uid # 0
    /\ ~ cache[s].live => cache[s] = Absent
    /\ cache[s].live /\ cache[s].uid = svc[s].uid /\ Over(cache[s]) => Over(svc[s])
    /\ ~ tomb[s].live => tomb[s] = Absent
    /\ tomb[s].live => tomb[s].uid <= born[s] /\ tomb[s].uid # 0
    /\ tomb[s].live => tomb[s].uid # svc[s].uid
    /\ tomb[s].live /\ cache[s].live => tomb[s].uid < cache[s].uid

\* The copy of a worker, and what it says of the objects with its name.  Only
\* a worker that has a copy of an object annotates it.
CopyOf(p) ==
    /\ w[p].pc \in CleanupPC \cup AllocPC
    /\ w[p].pc \in CleanupPC => Over(w[p].obj)
    /\ w[p].pc \in AllocPC => ~ Over(w[p].obj) /\ ~ w[p].gone
    /\ w[p].obj.live /\ w[p].obj.uid # 0 /\ w[p].obj.uid <= born[w[p].key]
    /\ cache[w[p].key].live => w[p].obj.uid <= cache[w[p].key].uid
    /\ cache[w[p].key].live /\ w[p].obj.uid = cache[w[p].key].uid =>
          ~ w[p].gone /\ (Over(w[p].obj) => Over(cache[w[p].key]))
    /\ w[p].obj.uid = svc[w[p].key].uid =>
          ~ w[p].gone /\ cache[w[p].key].live /\ cache[w[p].key].uid = svc[w[p].key].uid
    /\ svc[w[p].key].ip # NoIP => w[p].obj.uid = svc[w[p].key].uid
    /\ cache[w[p].key].ip # NoIP => w[p].obj.uid = cache[w[p].key].uid
    /\ w[p].pc \in VanishPC => w[p].obj.uid # svc[w[p].key].uid

\* What an annotation says of the claims.
AnnotationsOf(s) ==
    /\ svc[s].ip # NoIP =>
          /\ cache[s].live /\ cache[s].uid = svc[s].uid
          /\ \A a \in Addr : s \in claim[a] => a = svc[s].ip
          /\ Serving(s) => s \in claim[svc[s].ip] /\ svc[s].fin
          /\ s \in claim[svc[s].ip] \/ RunsOn(s, {"mark2", "strip"}, svc[s].ip)
          /\ secret => svc[s].fin
    /\ svc[s].live /\ svc[s].lab /\ ~ Over(svc[s]) => svc[s].ip # NoIP
    /\ cache[s].ip # NoIP =>
          /\ \A a \in Addr : s \in claim[a] => a = cache[s].ip
          /\ Serving(s) => s \in claim[cache[s].ip] /\ svc[s].uid = cache[s].uid /\ svc[s].fin
    /\ tomb[s].ip # NoIP =>
          /\ \A a \in Addr : s \in claim[a] => a = tomb[s].ip
          /\ ~ Runs(s, AllocPC)

\* What the marks of an allocation and of a cleanup say.
MarksOf(s) ==
    /\ svc[s].req => Runs(s, {"request", "pool", "advertise", "annotate"})
    /\ svc[s].prog # "none" =>
          /\ Runs(s, {"release", "mark2", "strip"})
          /\ svc[s].ip # NoIP => Over(svc[s])
    /\ svc[s].fin /\ svc[s].ip = NoIP => Runs(s, {"unfinalize"}) /\ Over(svc[s])
    /\ cache[s].prog # "none" => ~ cache[s].req
    /\ Marked(cache[s]) /\ (cache[s].fin \/ cache[s].ip # NoIP) => Over(cache[s])
    /\ Marked(cache[s]) /\ Over(cache[s]) => ~ Runs(s, AllocPC) /\ Cleared(s)
    /\ Marked(tomb[s]) => ~ Runs(s, AllocPC) /\ Cleared(s)

\* What a worker knows of the claims of its Service.
WorkOf(p) ==
    /\ w[p].pc = "secret" => w[p].ip = w[p].obj.ip
    /\ w[p].pc = "recover" /\ w[p].adopt => w[p].key \in claim[w[p].ip]
    /\ w[p].pc \in HolderPC => w[p].key \in claim[w[p].ip]
    /\ w[p].pc \in CleanupPC =>
          /\ w[p].ip # NoIP => \A a \in Addr : w[p].key \in claim[a] => a = w[p].ip
          /\ Marked(w[p].obj) => \A a \in Addr : w[p].key \notin claim[a]
    /\ w[p].pc = "abandon" => ~ secret
    /\ w[p].pc = "secret" => hasFloatingIPRecord(w[p].obj)
    /\ w[p].pc = "lock" /\ w[p].ip = NoIP => \A a \in Addr : w[p].key \notin claim[a]
    /\ w[p].pc \in {"mark2", "strip", "unfinalize"} => \A a \in Addr : w[p].key \notin claim[a]
    /\ w[p].pc = "unfinalize" => svc[w[p].key].ip = NoIP /\ svc[w[p].key].prog = "none"

\* A claim is on record, or a worker has it in hand.
HeldOf(s) ==
    secret => \A a \in Addr : s \in claim[a] => svc[s].ip = a \/ RunsOn(s, HolderPC, a)

\* The IPAM: one address per Service and per group, one group per address.
Grouped ==
    /\ \A a, b \in Addr, x, y \in Service :
          (/\ x \in claim[a] /\ y \in claim[b]
           /\ x = y \/ (case.group[x] = case.group[y] /\ case.group[x] # None))
          => a = b
    /\ \A a \in Addr, x, y \in Service :
          x \in claim[a] /\ y \in claim[a] /\ x # y
          => case.group[x] = case.group[y] /\ case.group[x] # None

\* Nothing is left on an address without a claim ...
Backed ==
    \A a \in Addr :
       /\ adv[a] => claim[a] # {}
       /\ pool[a].has => claim[a] # {} /\ \A x \in claim[a] : Selector(x) = pool[a].sel
       /\ ~ pool[a].has => pool[a].ns = {}

\* ... nor will be by the release that a worker is about to make.
DeferredOf(p) ==
    /\ w[p].pc \in {"unpool", "mark1", "release", "vunpool", "vrelease"} =>
          (adv[w[p].ip] => \E x \in claim[w[p].ip] : x # w[p].key)
    /\ w[p].pc \in {"mark1", "release", "vrelease"} =>
          (pool[w[p].ip].has => \E x \in claim[w[p].ip] : x # w[p].key)

CInv ==
    /\ \A s \in Service : AgesOf(s) /\ AnnotationsOf(s) /\ MarksOf(s) /\ HeldOf(s)
    /\ \A p \in Worker : w[p].pc # "idle" => CopyOf(p) /\ WorkOf(p) /\ DeferredOf(p)
    /\ Grouped /\ Backed

-----------------------------------------------------------------------------
(* A step is about one Service                                             *)

\* Nothing of a Service other than s changes.
Frame(s) ==
    /\ \A t \in Service : t # s => /\ svc'[t] = svc[t] /\ cache'[t] = cache[t]
                                   /\ tomb'[t] = tomb[t] /\ born'[t] = born[t]
    /\ \A t \in Service, a \in Addr : t # s => (t \in claim'[a] <=> t \in claim[a])
    /\ \A q \in Worker : w'[q] = w[q] \/ (w[q].key \in {s, None} /\ w'[q].key \in {s, None})
    /\ case' = case
    /\ secret' = secret

\* What runs for another Service does not change.
LEMMA FrameRuns ==
  ASSUME NEW s \in Service, Frame(s), NEW t \in Service, t # s, None \notin Service
  PROVE  /\ \A steps : Runs(t, steps)' <=> Runs(t, steps)
         /\ \A steps, a : RunsOn(t, steps, a)' <=> RunsOn(t, steps, a)
<1>1. \A q \in Worker : (w'[q].key = t \/ w[q].key = t) => w'[q] = w[q]
  BY DEF Frame
<1> QED BY <1>1 DEF Runs, RunsOn

\* What is known of the other Services stays so ...
LEMMA OthersKeep ==
  ASSUME LInv, CInv, NEW s \in Service, Frame(s), NEW t \in Service, t # s
  PROVE  AgesOf(t)' /\ AnnotationsOf(t)' /\ MarksOf(t)' /\ HeldOf(t)'
<1>0. None \notin Service /\ NoIP \notin Addr
  BY LBAssumption
<1>1. /\ svc'[t] = svc[t] /\ cache'[t] = cache[t] /\ tomb'[t] = tomb[t] /\ born'[t] = born[t]
      /\ secret' = secret
      /\ \A a \in Addr : t \in claim'[a] <=> t \in claim[a]
      /\ svc[t].ip \in Addr \cup {NoIP} /\ cache[t].ip \in Addr \cup {NoIP}
  BY DEF Frame, LInv, Objects, ServiceObj, IPOrNone
<1>2. /\ \A steps : Runs(t, steps)' <=> Runs(t, steps)
      /\ \A steps, a : RunsOn(t, steps, a)' <=> RunsOn(t, steps, a)
  BY <1>0, FrameRuns
<1>3. AgesOf(t) /\ AnnotationsOf(t) /\ MarksOf(t) /\ HeldOf(t)
  BY DEF CInv
<1>4. AgesOf(t)'
  BY <1>1, <1>3 DEF AgesOf
<1>5. AnnotationsOf(t)'
  BY <1>0, <1>1, <1>2, <1>3 DEF AnnotationsOf, Serving
<1>6. MarksOf(t)'
  BY <1>1, <1>2, <1>3 DEF MarksOf, Cleared
<1>7. HeldOf(t)'
  BY <1>1, <1>2, <1>3 DEF HeldOf
<1> QED BY <1>4, <1>5, <1>6, <1>7

\* ... and of the workers of the other Services.
LEMMA OtherWorkersKeep ==
  ASSUME LInv, LInv', CInv, NEW s \in Service, Frame(s), NEW q \in Worker, w'[q].pc # "idle", w'[q].key # s
  PROVE  w'[q] = w[q] /\ CopyOf(q)' /\ WorkOf(q)'
<1>0. None \notin Service /\ NoIP \notin Addr
  BY LBAssumption
<1>1. w'[q].key \in Service
  BY DEF LInv, Workers, Busy
<1>2. w'[q] = w[q]
  BY <1>0, <1>1 DEF Frame
<1> DEFINE t == w[q].key
<1>3. /\ t \in Service /\ t # s
      /\ svc'[t] = svc[t] /\ cache'[t] = cache[t] /\ born'[t] = born[t] /\ secret' = secret
      /\ \A a \in Addr : t \in claim'[a] <=> t \in claim[a]
      /\ w[q].ip \in Addr \cup {NoIP}
      /\ w[q].pc \in HolderPC => w[q].ip \in Addr
      /\ w[q].pc = "recover" /\ w[q].adopt => w[q].ip \in Addr
  BY <1>1, <1>2 DEF Frame, LInv, Workers, WorkerState, IPOrNone, Busy, OnAddress, HolderPC
<1>4. CopyOf(q) /\ WorkOf(q)
  BY <1>2 DEF CInv
<1>5. CopyOf(q)'
  BY <1>2, <1>3, <1>4 DEF CopyOf
<1>6. WorkOf(q)'
  BY <1>2, <1>3, <1>4 DEF WorkOf
<1> QED BY <1>2, <1>5, <1>6

\* A worker that goes on, with the key and the copy it has.
Moved(p, pc, ip) ==
    /\ \A q \in Worker : q # p => w'[q] = w[q]
    /\ w'[p].pc = pc /\ w'[p].ip = ip
    /\ w'[p].key = w[p].key /\ w'[p].obj = w[p].obj /\ w'[p].gone = w[p].gone

\* A worker that returns.
Ended(p) ==
    /\ \A q \in Worker : q # p => w'[q] = w[q]
    /\ w'[p] = Idle

\* What runs for the Service of a worker is that worker.
LEMMA RunsFor ==
  ASSUME LInv, NEW p \in Worker, NEW s \in Service, w[p].key = s
  PROVE  /\ \A steps : Runs(s, steps) <=> w[p].pc \in steps
         /\ \A q \in Worker : w[q].key = s => q = p
BY LBAssumption DEF LInv, Workers, Keys, Runs

\* ... also after it went on ...
LEMMA RunsMoved ==
  ASSUME LInv, NEW p \in Worker, NEW s \in Service, w[p].key = s, NEW pc, NEW ip, Moved(p, pc, ip)
  PROVE  /\ \A steps : Runs(s, steps)' <=> pc \in steps
         /\ \A q \in Worker : w'[q].key = s => q = p
BY LBAssumption DEF LInv, Workers, Keys, Runs, Moved

\* ... and nothing runs for the Service after it returned.
LEMMA RunsEnded ==
  ASSUME LInv, NEW p \in Worker, NEW s \in Service, w[p].key = s, Ended(p)
  PROVE  /\ \A steps : ~ Runs(s, steps)'
         /\ \A q \in Worker : w'[q].key # s
<1>1. \A q \in Worker : w'[q].key # s
  BY IdleType, LBAssumption DEF LInv, Workers, Keys, Ended
<1> QED BY <1>1 DEF Runs

\* A step of a worker: what is left to show is about its Service, itself and
\* the load balancer.
LEMMA WorkerStepKeeps ==
  ASSUME LInv, LInv', CInv, NEW p \in Worker, NEW s \in Service, w[p].key = s, Frame(s),
         \A q \in Worker : q # p => w'[q] = w[q],
         AgesOf(s)', AnnotationsOf(s)', MarksOf(s)', HeldOf(s)',
         w'[p].pc # "idle" => CopyOf(p)' /\ WorkOf(p)',
         \A q \in Worker : w'[q].pc # "idle" => DeferredOf(q)',
         Grouped', Backed'
  PROVE  CInv'
<1>1. ASSUME NEW t \in Service
      PROVE  AgesOf(t)' /\ AnnotationsOf(t)' /\ MarksOf(t)' /\ HeldOf(t)'
  BY OthersKeep
<1>2. ASSUME NEW q \in Worker, w'[q].pc # "idle"
      PROVE  CopyOf(q)' /\ WorkOf(q)' /\ DeferredOf(q)'
  <2>1. CASE q = p
    BY <1>2, <2>1
  <2>2. CASE q # p
    <3>1. w'[q].key # s
      BY <2>2, LBAssumption DEF LInv, Workers, Keys
    <3> QED BY <1>2, <3>1, OtherWorkersKeep
  <2> QED BY <2>1, <2>2
<1> QED BY <1>1, <1>2 DEF CInv

\* The values that are compared.
LEMMA ValueTypes ==
  ASSUME LInv, NEW s \in Service
  PROVE  /\ svc[s] \in ServiceObj /\ cache[s] \in ServiceObj /\ tomb[s] \in ServiceObj
         /\ svc[s].ip \in Addr \cup {NoIP} /\ cache[s].ip \in Addr \cup {NoIP} /\ tomb[s].ip \in Addr \cup {NoIP}
         /\ svc[s].uid \in Nat /\ cache[s].uid \in Nat /\ tomb[s].uid \in Nat /\ born[s] \in Nat
         /\ NoIP \notin Addr
         /\ Absent.live = FALSE /\ Absent.uid = 0 /\ Absent.ip = NoIP /\ Absent.req = FALSE
         /\ Absent.prog = "none" /\ Absent.fin = FALSE /\ Absent.lab = FALSE /\ Absent.lb = FALSE
         /\ Absent.del = FALSE
BY LBAssumption DEF LInv, Objects, ServiceObj, IPOrNone, Absent

\* The values of a worker that are compared.
LEMMA WorkerValues ==
  ASSUME LInv, NEW p \in Worker
  PROVE  /\ w[p].ip \in Addr \cup {NoIP} /\ w[p].obj \in ServiceObj /\ w[p].obj.uid \in Nat
         /\ w[p].pc # "idle" => w[p].key \in Service
         /\ w[p].pc \in OnAddress => w[p].ip \in Addr
         /\ NoIP \notin Addr
BY LBAssumption DEF LInv, Workers, Busy, WorkerState, ServiceObj, IPOrNone

\* A worker goes on, within the cleanup or within the allocation, and nothing
\* else changes but the load balancer, the locks and the queue.
LEMMA MoveKeeps ==
  ASSUME LInv, LInv', CInv, NEW p \in Worker, NEW s \in Service, w[p].key = s, w[p].pc # "idle",
         NEW pc, NEW ip, Moved(p, pc, ip),
         UNCHANGED <<svc, cache, tomb, born, claim, secret, case>>,
         w[p].pc \notin {"mark2", "strip", "release", "unfinalize"},
         (w[p].pc \in CleanupPC /\ pc \in CleanupPC) \/ (w[p].pc \in AllocPC /\ pc \in AllocPC),
         w[p].pc \in HolderPC => pc \in HolderPC /\ ip = w[p].ip,
         \/ w[p].pc \notin {"request", "pool", "advertise", "annotate"}
         \/ pc \in {"request", "pool", "advertise", "annotate"}
         \/ svc[s].req = FALSE,
         pc \in VanishPC => w[p].pc \in VanishPC \/ w[p].obj.uid # svc[s].uid
  PROVE  Frame(s) /\ AgesOf(s)' /\ AnnotationsOf(s)' /\ MarksOf(s)' /\ HeldOf(s)' /\ CopyOf(p)' /\ Grouped'
<1>1. Frame(s)
  BY DEF Frame, Moved
<1>2. /\ \A steps : Runs(s, steps) <=> w[p].pc \in steps
      /\ \A q \in Worker : w[q].key = s => q = p
  BY RunsFor
<1>3. /\ \A steps : Runs(s, steps)' <=> pc \in steps
      /\ \A q \in Worker : w'[q].key = s => q = p
  BY RunsMoved
<1>4. AgesOf(s) /\ AnnotationsOf(s) /\ MarksOf(s) /\ HeldOf(s) /\ CopyOf(p) /\ Grouped
  BY DEF CInv
<1>5. w[p].pc \in AllocPC <=> pc \in AllocPC
  BY DEF CleanupPC, AllocPC
<1>6. AgesOf(s)' /\ Grouped'
  BY <1>4 DEF AgesOf, Grouped
<1>7. AnnotationsOf(s)'
  <2>1. Serving(s)' <=> Serving(s)
    BY <1>2, <1>3, <1>5 DEF Serving
  <2>2. Runs(s, AllocPC)' <=> Runs(s, AllocPC)
    BY <1>2, <1>3, <1>5
  <2>3. svc[s].ip # NoIP => s \in claim[svc[s].ip]
    BY <1>2, <1>4 DEF AnnotationsOf, RunsOn
  <2> QED BY <1>4, <2>1, <2>2, <2>3 DEF AnnotationsOf
<1>8. MarksOf(s)'
  <2>1. Runs(s, AllocPC)' <=> Runs(s, AllocPC)
    BY <1>2, <1>3, <1>5
  <2>2. ~ Runs(s, {"release"}) /\ ~ Runs(s, {"unfinalize"}) /\ ~ Runs(s, {"release", "mark2", "strip"})
    BY <1>2
  <2>3. Cleared(s) => Cleared(s)'
    BY <2>2 DEF Cleared
  <2>4. svc[s].req => Runs(s, {"request", "pool", "advertise", "annotate"})'
    BY <1>2, <1>3, <1>4 DEF MarksOf
  <2> QED BY <1>4, <2>1, <2>2, <2>3, <2>4 DEF MarksOf
<1>9. HeldOf(s)'
  BY <1>2, <1>3, <1>4 DEF HeldOf, RunsOn, Moved
<1>10. CopyOf(p)'
  BY <1>4, <1>5 DEF CopyOf, Moved, CleanupPC, AllocPC
<1> QED BY <1>1, <1>6, <1>7, <1>8, <1>9, <1>10

\* A worker that returns from the allocation before it asked for an address.
LEMMA GiveUpKeeps ==
  ASSUME LInv, LInv', CInv, NEW p \in Worker, NEW s \in Service, w[p].key = s, Ended(p),
         UNCHANGED <<svc, cache, tomb, born, claim, secret, case, adv, pool>>,
         w[p].pc \in {"recover", "mark"}
  PROVE  CInv'
<1>1. Frame(s)
  BY IdleType DEF Frame, Ended
<1>2. /\ \A steps : Runs(s, steps) <=> w[p].pc \in steps
      /\ \A q \in Worker : w[q].key = s => q = p
  BY RunsFor
<1>3. /\ \A steps : ~ Runs(s, steps)'
      /\ \A q \in Worker : w'[q].key # s
  BY RunsEnded
<1>4. /\ AgesOf(s) /\ AnnotationsOf(s) /\ MarksOf(s) /\ HeldOf(s) /\ CopyOf(p) /\ Grouped /\ Backed
      /\ \A q \in Worker : w[q].pc # "idle" => DeferredOf(q)
  BY IdleType DEF CInv
<1>5. AgesOf(s)' /\ Grouped' /\ Backed'
  BY <1>4 DEF AgesOf, Grouped, Backed, Selector
<1>6. AnnotationsOf(s)'
  <2>1. Serving(s)' => Serving(s)
    BY <1>3 DEF Serving
  <2>2. svc[s].ip # NoIP => s \in claim[svc[s].ip]
    BY <1>2, <1>4 DEF AnnotationsOf, RunsOn
  <2> QED BY <1>3, <1>4, <2>1, <2>2 DEF AnnotationsOf
<1>7. MarksOf(s)'
  <2>1. ~ Runs(s, {"release"}) /\ ~ Runs(s, {"unfinalize"}) /\ ~ Runs(s, {"release", "mark2", "strip"})
        /\ ~ Runs(s, {"request", "pool", "advertise", "annotate"})
    BY <1>2
  <2>2. Cleared(s) => Cleared(s)'
    BY <2>1 DEF Cleared
  <2> QED BY <1>3, <1>4, <2>1, <2>2 DEF MarksOf
<1>8. HeldOf(s)'
  BY <1>2, <1>4 DEF HeldOf, RunsOn, HolderPC
<1>9. ASSUME NEW q \in Worker, w'[q].pc # "idle"
      PROVE  DeferredOf(q)'
  <2>1. w'[q] = w[q]
    BY <1>9, IdleType DEF Ended
  <2> QED BY <1>4, <1>9, <2>1 DEF DeferredOf
<1> QED BY <1>1, <1>5, <1>6, <1>7, <1>8, <1>9, IdleType, WorkerStepKeeps DEF Ended

\* The common move keeps the address.
LEMMA GotoMoved ==
  ASSUME LInv, NEW p \in Worker, NEW pc, Goto(p, pc)
  PROVE  Moved(p, pc, w[p].ip)
BY DEF LInv, Workers, WorkerState, Goto, Moved

\* ... and the load balancer does not change either.
LEMMA LocalMoveKeeps ==
  ASSUME LInv, LInv', CInv, NEW p \in Worker, NEW s \in Service, w[p].key = s, w[p].pc # "idle",
         NEW pc, NEW ip, Moved(p, pc, ip),
         UNCHANGED <<svc, cache, tomb, born, claim, secret, case, adv, pool>>,
         Frame(s) /\ AgesOf(s)' /\ AnnotationsOf(s)' /\ MarksOf(s)' /\ HeldOf(s)' /\ CopyOf(p)' /\ Grouped',
         WorkOf(p)', DeferredOf(p)'
  PROVE  CInv'
<1>1. Backed'
  BY DEF CInv, Backed, Selector
<1>2. ASSUME NEW q \in Worker, w'[q].pc # "idle"
      PROVE  DeferredOf(q)'
  BY <1>2 DEF CInv, DeferredOf, Moved
<1> QED BY <1>1, <1>2, WorkerStepKeeps DEF Moved

\* The address of a worker in the cleanup, and what is claimed for its Service.
LEMMA ReadSecretKeeps ==
  ASSUME LInv, LInv', CInv, NEW p \in Worker, UNCHANGED case, ReadSecret(p) \/ LookupPending(p)
  PROVE  CInv'
<1> USE DEF At
<1>1. PICK s \in Service : w[p].key = s
  BY WorkerValues DEF ReadSecret, LookupPending
<1>2. /\ w[p].pc \in {"secret", "lookup"} /\ w[p].pc \in CleanupPC
      /\ UNCHANGED <<svc, cache, tomb, born, claim, secret, case, adv, pool>>
      /\ CopyOf(p) /\ WorkOf(p) /\ Grouped
  BY DEF ReadSecret, LookupPending, CleanupPC, api, ipam, lb, seen, CInv
<1>3. PICK pc \in {"abandon", "lookup", "lock"}, ip \in Addr \cup {NoIP} : 
         /\ Moved(p, pc, ip)
         /\ pc = "abandon" => ~ secret /\ ip = w[p].ip
         /\ pc = "lookup" => ip = w[p].ip
         /\ pc = "lock" => \/ ip = w[p].ip /\ w[p].pc = "secret" /\ (ip # NoIP \/ ~ w[p].obj.req)
                           \/ ip \in Addr /\ s \in claim[ip]
                           \/ ip = w[p].ip /\ w[p].pc = "lookup" /\ \A a \in Addr : s \notin claim[a]
  <2>1. CASE ReadSecret(p)
    <3> DEFINE pc == IF ~ secret THEN "abandon"
                     ELSE IF w[p].ip = NoIP /\ w[p].obj.req THEN "lookup" ELSE "lock"
    <3>1. Goto(p, pc) /\ w[p].pc = "secret" /\ w[p].ip \in Addr \cup {NoIP}
      BY <2>1, WorkerValues DEF ReadSecret
    <3>2. Moved(p, pc, w[p].ip)
      BY <3>1, GotoMoved
    <3> QED BY <3>1, <3>2
  <2>2. CASE LookupPending(p)
    <3>1. w[p].pc = "lookup" /\ w[p].ip \in Addr \cup {NoIP}
      BY <2>2, WorkerValues DEF LookupPending
    <3>2. CASE \E a \in Listed(w[p].key) : w' = [w EXCEPT ![p].pc = "lock", ![p].ip = a]
      <4>1. PICK a \in Addr : s \in claim[a] /\ w' = [w EXCEPT ![p].pc = "lock", ![p].ip = a]
        BY <1>1, <3>2 DEF Listed
      <4>2. Moved(p, "lock", a)
        BY <4>1 DEF LInv, Workers, WorkerState, Moved
      <4> QED BY <4>1, <4>2
    <3>3. CASE Listed(w[p].key) = {} /\ Goto(p, "lock")
      <4>1. Moved(p, "lock", w[p].ip)
        BY <3>3, GotoMoved
      <4> QED BY <1>1, <3>1, <3>3, <4>1 DEF Listed
    <3> QED BY <2>2, <3>2, <3>3 DEF LookupPending
  <2> QED BY <2>1, <2>2
<1>4. pc \in CleanupPC /\ pc \notin VanishPC /\ w[p].pc \notin HolderPC
  BY <1>2 DEF CleanupPC, VanishPC, HolderPC
<1>5. Frame(s) /\ AgesOf(s)' /\ AnnotationsOf(s)' /\ MarksOf(s)' /\ HeldOf(s)' /\ CopyOf(p)' /\ Grouped'
  BY <1>1, <1>2, <1>3, <1>4, MoveKeeps
<1>6. WorkOf(p)'
  <2>1. /\ w'[p].pc = pc /\ w'[p].ip = ip /\ w'[p].key = s /\ w'[p].obj = w[p].obj
        /\ claim' = claim /\ secret' = secret
    BY <1>1, <1>2, <1>3 DEF Moved
  <2>2. ip # NoIP => \A a \in Addr : s \in claim[a] => a = ip
    <3>1. CASE ip = w[p].ip
      BY <1>1, <1>2, <3>1 DEF WorkOf
    <3>2. CASE ip \in Addr /\ s \in claim[ip]
      BY <1>2, <3>2 DEF Grouped
    <3> QED BY <1>3, <3>1, <3>2
  <2>3. Marked(w[p].obj) => \A a \in Addr : s \notin claim[a]
    BY <1>1, <1>2 DEF WorkOf
  <2>4. pc = "lock" /\ ip = NoIP => \A a \in Addr : s \notin claim[a]
    <3>1. ASSUME w[p].pc = "secret", w[p].ip = NoIP, ~ w[p].obj.req
          PROVE  Marked(w[p].obj)
      BY <1>2, <3>1 DEF WorkOf, Marked, hasFloatingIPRecord
    <3> QED BY <1>3, <2>3, <3>1, LBAssumption
  <2> QED BY <1>3, <2>1, <2>2, <2>3, <2>4 DEF WorkOf, HolderPC
<1>7. DeferredOf(p)'
  BY <1>3 DEF Moved, DeferredOf
<1> QED BY <1>1, <1>2, <1>3, <1>5, <1>6, <1>7, LocalMoveKeeps

\* What the in-use check finds, under the lock of the address, is a claim:
\* the peer that it found cannot release it while the lock is held.
LEMMA InUseIsClaimed ==
  ASSUME LInv, CInv, NEW p \in Worker, w[p].pc \in Locked, NEW a \in Addr, w[p].ip = a,
         NEW s \in Service, w[p].key = s, InUse(s, a)
  PROVE  \E x \in claim[a] : x # s
<1>1. ASSUME NEW o \in Service, o # s, svc[o].ip = a
      PROVE  o \in claim[a]
  <2>1. AnnotationsOf(o)
    BY DEF CInv
  <2>2. ASSUME NEW q \in Worker, w[q].key = o, w[q].ip = a, w[q].pc \in {"mark2", "strip"}
        PROVE  FALSE
    <3>1. w[q].pc \in Locked /\ NoIP # a
      BY <2>2, LBAssumption DEF Locked
    <3>2. lock[a] = q /\ lock[a] = p
      BY <2>2, <3>1 DEF LInv, Workers, Locks
    <3> QED BY <1>1, <2>2, <3>2
  <2> QED BY <1>1, <2>1, <2>2, LBAssumption DEF AnnotationsOf, RunsOn
<1>2. CASE addressInUse(s, a)
  BY <1>1, <1>2 DEF addressInUse
<1>3. CASE ipamAddressInUse(s, a)
  BY <1>3 DEF ipamAddressInUse
<1>4. CASE metalLBAddressInUse(s, a)
  <2>1. PICK o \in pool[a].ns \ {s} : Current(o) /\ svc[o].lab /\ pool[a].sel \in {o, case.group[o]}
    BY <1>4 DEF metalLBAddressInUse
  <2>2. o \in Service /\ o # s
    BY <2>1 DEF LInv, Objects, Pool
  <2>3. AgesOf(o) /\ AnnotationsOf(o) /\ Backed /\ Grouped
    BY <2>2 DEF CInv
  <2>4. svc[o].ip # NoIP /\ svc[o].ip \in Addr
    BY <2>1, <2>2, <2>3, ValueTypes DEF AnnotationsOf, Current, Over
  <2>5. ~ Over(cache[o])
    BY <2>1, <2>3, <2>4 DEF AgesOf, AnnotationsOf, Current, Over
  <2>6. o \in claim[svc[o].ip]
    BY <2>3, <2>4, <2>5 DEF AnnotationsOf, Serving
  <2>7. PICK x \in claim[a] : Selector(x) = pool[a].sel
    BY <2>1, <2>3 DEF Backed
  <2>8. x \in Service
    BY <2>7 DEF LInv, Objects
  <2>9. x = o \/ (case.group[x] = case.group[o] /\ case.group[x] # None)
    <3>1. /\ case.group[x] \in Group \cup {None} /\ case.group[o] \in Group \cup {None}
          /\ None \notin Service /\ None \notin Group /\ Group \cap Service = {}
      BY <2>2, <2>8, CaseTypes, LBAssumption DEF LInv
    <3> QED BY <2>1, <2>2, <2>7, <2>8, <3>1 DEF Selector
  <2>10. o \in claim[a]
    BY <2>2, <2>3, <2>4, <2>6, <2>7, <2>8, <2>9 DEF Grouped
  <2> QED BY <2>2, <2>10
<1> QED BY <1>2, <1>3, <1>4 DEF InUse, sharedPoolInUse

\* The lock of the address, then the decision on what to take down.
LEMMA DecideKeeps ==
  ASSUME LInv, LInv', CInv, NEW p \in Worker, UNCHANGED case, lockAddress(p) \/ DecideShared(p)
  PROVE  CInv'
<1> USE DEF At
<1>1. PICK s \in Service : w[p].key = s
  BY WorkerValues DEF lockAddress, DecideShared
<1>2. /\ w[p].pc \in {"lock", "shared"} /\ w[p].pc \in CleanupPC
      /\ UNCHANGED <<svc, cache, tomb, born, claim, secret, case, adv, pool>>
      /\ CopyOf(p) /\ WorkOf(p) /\ Backed
  BY DEF lockAddress, DecideShared, CleanupPC, api, ipam, lb, seen, CInv
<1>3. PICK pc \in {"strip", "shared", "release", "withdraw"} :
         /\ Moved(p, pc, w[p].ip)
         /\ pc = "strip" => (w[p].pc = "lock" /\ w[p].ip = NoIP) \/ Marked(w[p].obj)
         /\ pc = "release" => /\ w[p].pc = "shared"
                              /\ InUse(w[p].key, w[p].ip) \/ Marked(w[p].obj)
  <2>1. CASE lockAddress(p)
    <3>1. w[p].pc = "lock"
      BY <2>1 DEF lockAddress
    <3>2. CASE w[p].ip = NoIP /\ Goto(p, "strip")
      BY <3>1, <3>2, GotoMoved
    <3>3. CASE Goto(p, "shared")
      BY <3>1, <3>3, GotoMoved
    <3> QED BY <2>1, <3>2, <3>3 DEF lockAddress
  <2>2. CASE DecideShared(p)
    <3> DEFINE sh == InUse(w[p].key, w[p].ip)
               pc == IF cleanupStageReached(w[p].obj.prog, "released") THEN "strip"
                     ELSE IF sh \/ cleanupStageReached(w[p].obj.prog, "deleted") THEN "release"
                     ELSE "withdraw"
    <3>1. w[p].pc = "shared" /\ w' = [w EXCEPT ![p].shared = sh, ![p].pc = pc]
      BY <2>2 DEF DecideShared
    <3>2. /\ pc \in {"strip", "release", "withdraw"}
          /\ pc = "strip" => Marked(w[p].obj)
          /\ pc = "release" => sh \/ Marked(w[p].obj)
      BY DEF cleanupStageReached, Marked
    <3> HIDE DEF pc, sh
    <3>3. Moved(p, pc, w[p].ip)
      BY <3>1 DEF LInv, Workers, WorkerState, Moved
    <3> QED BY <3>1, <3>2, <3>3 DEF sh
  <2> QED BY <2>1, <2>2
<1>4. pc \in CleanupPC /\ pc \notin VanishPC /\ w[p].pc \notin HolderPC
  BY <1>2 DEF CleanupPC, VanishPC, HolderPC
<1>5. Frame(s) /\ AgesOf(s)' /\ AnnotationsOf(s)' /\ MarksOf(s)' /\ HeldOf(s)' /\ CopyOf(p)' /\ Grouped'
  BY <1>1, <1>2, <1>3, <1>4, MoveKeeps
<1>6. /\ w'[p].pc = pc /\ w'[p].ip = w[p].ip /\ w'[p].key = s /\ w'[p].obj = w[p].obj
      /\ claim' = claim /\ secret' = secret /\ adv' = adv /\ pool' = pool
  BY <1>1, <1>2, <1>3 DEF Moved
<1>7. Marked(w[p].obj) => \A a \in Addr : s \notin claim[a]
  BY <1>1, <1>2 DEF WorkOf
<1>8. WorkOf(p)'
  <2>1. pc = "strip" => \A a \in Addr : s \notin claim[a]
    BY <1>1, <1>2, <1>3, <1>7 DEF WorkOf
  <2>2. w[p].ip # NoIP => \A a \in Addr : s \in claim[a] => a = w[p].ip
    BY <1>1, <1>2 DEF WorkOf
  <2> QED BY <1>3, <1>6, <1>7, <2>1, <2>2 DEF WorkOf, HolderPC
<1>9. DeferredOf(p)'
  <2>1. ASSUME pc = "release"
        PROVE  (adv[w[p].ip] \/ pool[w[p].ip].has) => \E x \in claim[w[p].ip] : x # s
    <3>1. w[p].pc = "shared" /\ w[p].ip \in Addr /\ w[p].pc \in Locked
      BY <1>3, <2>1, WorkerValues DEF OnAddress, Locked
    <3>2. CASE InUse(w[p].key, w[p].ip)
      BY <1>1, <3>1, <3>2, InUseIsClaimed
    <3>3. CASE Marked(w[p].obj)
      BY <1>2, <1>7, <3>1, <3>3 DEF Backed
    <3> QED BY <1>3, <2>1, <3>2, <3>3
  <2> QED BY <1>3, <1>6, <2>1 DEF DeferredOf
<1> QED BY <1>1, <1>2, <1>3, <1>5, <1>8, <1>9, LocalMoveKeeps

\* The steps that take an address down: they find nothing less than was there.
TakesDown(p) ==
    \/ DeleteL2Advertisement(p) \/ DeleteIPAddressPool(p)
    \/ VanishedLock(p) \/ VanishedShared(p) \/ VanishedWithdraw(p) \/ VanishedUnpool(p)

\* The advertisement goes before the pool, and both before the claim.
LEMMA TakeDownKeeps ==
  ASSUME LInv, LInv', CInv, NEW p \in Worker, UNCHANGED case, TakesDown(p)
  PROVE  CInv'
<1> USE DEF At
<1> DEFINE From == {"withdraw", "unpool", "vlock", "vshared", "vwithdraw", "vunpool"}
           To   == {"unpool", "mark1", "vshared", "vrelease", "vwithdraw", "vunpool"}
<1>1. w[p].pc \in From
  BY DEF TakesDown, DeleteL2Advertisement, DeleteIPAddressPool, VanishedLock, VanishedShared,
         VanishedWithdraw, VanishedUnpool
<1>2. /\ w[p].ip \in Addr /\ w[p].key \in Service
      /\ adv \in [Addr -> BOOLEAN] /\ pool \in [Addr -> Pool]
  BY <1>1, WorkerValues DEF OnAddress, LInv, Objects
<1>3. PICK s \in Service, a \in Addr : w[p].key = s /\ w[p].ip = a
  BY <1>2
<1>4. /\ UNCHANGED <<svc, cache, tomb, born, claim, secret, case>>
      /\ CopyOf(p) /\ WorkOf(p) /\ DeferredOf(p) /\ Backed
  BY <1>1 DEF TakesDown, DeleteL2Advertisement, DeleteIPAddressPool, VanishedLock, VanishedShared,
              VanishedWithdraw, VanishedUnpool, api, ipam, lb, seen, CInv
<1>5. NoPool.has = FALSE /\ NoPool.ns = {}
  BY DEF NoPool
<1>6. /\ adv' = adv \/ adv' = [adv EXCEPT ![a] = FALSE]
      /\ pool' = pool \/ pool' = [pool EXCEPT ![a] = NoPool]
  BY <1>3 DEF TakesDown, DeleteL2Advertisement, DeleteIPAddressPool, VanishedLock, VanishedShared,
              VanishedWithdraw, VanishedUnpool, lb
<1>7. /\ \A b \in Addr : adv'[b] => adv[b]
      /\ \A b \in Addr : pool'[b] = pool[b] \/ pool'[b] = NoPool
      /\ \A b \in Addr : pool'[b].has => pool'[b] = pool[b]
  BY <1>2, <1>5, <1>6
<1>8. PICK pc \in To :
         /\ Goto(p, pc)
         /\ w[p].pc \in VanishPC <=> pc \in VanishPC
         /\ pc \in {"unpool", "vunpool"} => adv'[a] = FALSE
         /\ pc = "mark1" => w[p].pc = "unpool" /\ pool'[a] = NoPool
         /\ pc = "vrelease" => \/ w[p].pc = "vunpool" /\ pool'[a] = NoPool
                               \/ w[p].pc = "vshared" /\ InUse(s, a)
  <2>1. CASE DeleteL2Advertisement(p)
    BY <1>2, <1>3, <2>1 DEF DeleteL2Advertisement, VanishPC
  <2>2. CASE DeleteIPAddressPool(p)
    BY <1>2, <1>3, <2>2 DEF DeleteIPAddressPool, VanishPC
  <2>3. CASE VanishedLock(p)
    BY <1>2, <1>3, <2>3 DEF VanishedLock, VanishPC
  <2>4. CASE VanishedShared(p)
    <3>1. CASE InUse(w[p].key, w[p].ip)
      BY <1>2, <1>3, <2>4, <3>1 DEF VanishedShared, VanishPC
    <3>2. CASE ~ InUse(w[p].key, w[p].ip)
      BY <1>2, <1>3, <2>4, <3>2 DEF VanishedShared, VanishPC
    <3> QED BY <3>1, <3>2
  <2>5. CASE VanishedWithdraw(p)
    BY <1>2, <1>3, <2>5 DEF VanishedWithdraw, VanishPC
  <2>6. CASE VanishedUnpool(p)
    BY <1>2, <1>3, <2>6 DEF VanishedUnpool, VanishPC
  <2> QED BY <2>1, <2>2, <2>3, <2>4, <2>5, <2>6 DEF TakesDown
<1>9. Moved(p, pc, a)
  BY <1>3, <1>8, GotoMoved
<1>10. /\ (w[p].pc \in CleanupPC /\ pc \in CleanupPC) \/ (w[p].pc \in AllocPC /\ pc \in AllocPC)
       /\ w[p].pc \in HolderPC => pc \in HolderPC
       /\ w[p].pc \in CleanupPC <=> pc \in CleanupPC
       /\ pc \in HolderPC => w[p].pc \in HolderPC
  BY <1>1, <1>8 DEF CleanupPC, AllocPC, HolderPC, VanishPC
<1>11. Frame(s) /\ AgesOf(s)' /\ AnnotationsOf(s)' /\ MarksOf(s)' /\ HeldOf(s)' /\ CopyOf(p)' /\ Grouped'
  BY <1>1, <1>3, <1>4, <1>8, <1>9, <1>10, MoveKeeps, ZenonT(30)
<1>12. /\ w'[p].pc = pc /\ w'[p].ip = a /\ w'[p].key = s /\ w'[p].obj = w[p].obj
       /\ claim' = claim
  BY <1>3, <1>4, <1>9 DEF Moved
<1>13. WorkOf(p)'
  BY <1>3, <1>4, <1>8, <1>10, <1>12 DEF WorkOf
<1>14. Backed'
  BY <1>4, <1>5, <1>7 DEF Backed, Selector
<1>15. ASSUME NEW q \in Worker, w'[q].pc # "idle"
       PROVE  DeferredOf(q)'
  <2>1. CASE q # p
    <3>1. w'[q] = w[q] /\ DeferredOf(q)
      BY <1>9, <1>15, <2>1 DEF Moved, CInv
    <3>2. w[q].pc \in {"unpool", "mark1", "release", "vunpool", "vrelease"} => w[q].ip \in Addr
      BY WorkerValues DEF OnAddress
    <3> QED BY <1>4, <1>7, <3>1, <3>2 DEF DeferredOf
  <2>2. CASE q = p
    <3>1. ASSUME w[p].pc = "vshared", InUse(s, a)
          PROVE  \E x \in claim[a] : x # s
      BY <1>3, <3>1, InUseIsClaimed DEF Locked
    <3>2. pc \in {"mark1", "release", "vrelease"} => (pool'[a].has => \E x \in claim[a] : x # s)
      BY <1>5, <1>8, <3>1
    <3>3. pc \in {"mark1", "release", "vrelease"} => (adv'[a] => \E x \in claim[a] : x # s)
      BY <1>3, <1>4, <1>7, <1>8, <3>1 DEF DeferredOf
    <3> QED BY <1>8, <1>12, <2>2, <3>2, <3>3 DEF DeferredOf
  <2> QED BY <2>1, <2>2
<1> QED BY <1>3, <1>9, <1>11, <1>13, <1>14, <1>15, WorkerStepKeeps DEF Moved

-----------------------------------------------------------------------------
(* Writes to a Service                                                     *)

\* The object after a write: gone, or the same object, which is not taken
\* back any less.
Later(old, new) ==
    \/ new = Absent
    \/ /\ old.live /\ new.live /\ new.uid = old.uid
       /\ Over(old) => Over(new)

\* A write keeps the order of the objects of one name ...
LEMMA WriteAges ==
  ASSUME LInv, CInv, NEW s \in Service, NEW new \in ServiceObj, svc' = [svc EXCEPT ![s] = new],
         Later(svc[s], new), cache' = cache, born' = born, tomb'[s] = tomb[s] \/ tomb'[s] = Absent
  PROVE  AgesOf(s)' /\ svc'[s] = new /\ (new.uid = svc[s].uid \/ new.uid = 0)
<1>1. AgesOf(s)
  BY DEF CInv
<1>2. svc'[s] = new
  BY DEF LInv, Objects
<1>3. new = Absent => new.live = FALSE /\ new.uid = 0
  BY ValueTypes
<1>4. new.live \in BOOLEAN /\ new.uid \in Nat
  BY DEF ServiceObj
<1> QED BY <1>1, <1>2, <1>3, <1>4, ValueTypes DEF AgesOf, Later

\* ... and what a worker knows of them, if it leaves the annotation alone.
LEMMA WriteCopy ==
  ASSUME LInv, CInv, NEW s \in Service, NEW new \in ServiceObj, svc' = [svc EXCEPT ![s] = new],
         Later(svc[s], new), new.ip = svc[s].ip \/ new.ip = NoIP,
         UNCHANGED <<cache, born>>,
         NEW p \in Worker, w[p].pc # "idle", w[p].key = s,
         w'[p].key = s, w'[p].obj = w[p].obj, w'[p].gone = w[p].gone,
         \/ w[p].pc \in CleanupPC /\ w'[p].pc \in CleanupPC
         \/ w[p].pc \in AllocPC /\ w'[p].pc \in AllocPC,
         w'[p].pc \in VanishPC => w[p].pc \in VanishPC \/ w[p].obj.uid # svc[s].uid
  PROVE  CopyOf(p)'
<1>1. CopyOf(p)
  BY DEF CInv
<1>2. svc'[s] = new /\ (new.uid = svc[s].uid \/ (new.uid = 0 /\ new.ip = NoIP))
  BY ValueTypes DEF LInv, Objects, Later
<1>3. w[p].pc \in AllocPC <=> w'[p].pc \in AllocPC
  BY DEF CleanupPC, AllocPC
<1>4. w[p].pc \in CleanupPC <=> w'[p].pc \in CleanupPC
  BY DEF CleanupPC, AllocPC
<1> QED BY <1>1, <1>2, <1>3, <1>4 DEF CopyOf

\* What holds while the allocation of a Service is taken back: the object that
\* has an annotation is the one that the worker has a copy of.
TakingBack(p, s) ==
    /\ ~ Runs(s, AllocPC)
    /\ svc[s].req = FALSE
    /\ svc[s].ip # NoIP => Over(svc[s]) /\ Over(cache[s])
    /\ cache[s].ip # NoIP => Over(cache[s])
    /\ secret => \A a \in Addr : s \in claim[a] => svc[s].ip = a
    /\ w[p].pc \notin {"mark2", "strip"} /\ svc[s].ip # NoIP => s \in claim[svc[s].ip]

\* A worker in the cleanup takes an allocation back.
LEMMA CleanerFacts ==
  ASSUME LInv, CInv, NEW p \in Worker, NEW s \in Service, w[p].key = s, w[p].pc \in CleanupPC
  PROVE  TakingBack(p, s)
<1>1. /\ \A steps : Runs(s, steps) <=> w[p].pc \in steps
      /\ \A q \in Worker : w[q].key = s => q = p
  BY RunsFor
<1>2. w[p].pc # "idle"
  BY DEF CleanupPC
<1>3. AgesOf(s) /\ AnnotationsOf(s) /\ MarksOf(s) /\ HeldOf(s) /\ CopyOf(p)
  BY <1>2 DEF CInv
<1>4. ~ Runs(s, AllocPC)
  BY <1>1 DEF CleanupPC, AllocPC
<1>5. ~ Runs(s, {"request", "pool", "advertise", "annotate"})
  BY <1>1 DEF CleanupPC
<1>6. svc[s].req = FALSE
  BY <1>3, <1>5 DEF MarksOf, LInv, Objects, ServiceObj
<1>7. cache[s].ip # NoIP => Over(cache[s])
  BY <1>3, ValueTypes DEF CopyOf, AgesOf
<1>8. svc[s].ip # NoIP => Over(svc[s]) /\ Over(cache[s])
  BY <1>3, ValueTypes DEF CopyOf, AgesOf, AnnotationsOf
<1>9. secret => \A a \in Addr : s \in claim[a] => svc[s].ip = a
  BY <1>1, <1>3 DEF HeldOf, RunsOn, HolderPC, CleanupPC
<1>10. w[p].pc \notin {"mark2", "strip"} /\ svc[s].ip # NoIP => s \in claim[svc[s].ip]
  BY <1>1, <1>3 DEF AnnotationsOf, RunsOn
<1> QED BY <1>4, <1>6, <1>7, <1>8, <1>9, <1>10 DEF TakingBack

\* What is left on the load balancer does not change, nor do the claims.
LEMMA LoadBalancerKept ==
  ASSUME LInv, CInv, NEW p \in Worker, \A q \in Worker : q # p => w'[q] = w[q],
         UNCHANGED <<claim, adv, pool, case>>,
         \/ w'[p] = Idle
         \/ w'[p].ip = w[p].ip /\ w'[p].key = w[p].key /\ w[p].pc = "mark1" /\ w'[p].pc = "release"
         \/ w'[p].pc \notin {"unpool", "mark1", "release", "vunpool", "vrelease"}
  PROVE  Backed' /\ Grouped' /\ \A q \in Worker : w'[q].pc # "idle" => DeferredOf(q)'
<1>1. Backed' /\ Grouped'
  BY DEF CInv, Backed, Selector, Grouped
<1>2. ASSUME NEW q \in Worker, w'[q].pc # "idle"
      PROVE  DeferredOf(q)'
  <2>1. CASE q # p
    BY <1>2, <2>1 DEF CInv, DeferredOf
  <2>2. CASE q = p
    BY <1>2, <2>2, IdleType DEF CInv, DeferredOf
  <2> QED BY <2>1, <2>2
<1> QED BY <1>1, <1>2

\* The progress of a cleanup, and the end of its annotations.
LEMMA RecordKeeps ==
  ASSUME LInv, LInv', CInv, NEW p \in Worker, UNCHANGED case,
         RecordDeleted(p) \/ RecordReleased(p) \/ StripAnnotations(p)
  PROVE  CInv'
<1> USE DEF At
<1>1. w[p].pc \in {"mark1", "mark2", "strip"} /\ w[p].pc \in CleanupPC /\ w[p].pc # "idle"
  BY DEF RecordDeleted, RecordReleased, StripAnnotations, CleanupPC
<1>2. PICK s \in Service : w[p].key = s
  BY <1>1, WorkerValues
<1>3. /\ UNCHANGED <<cache, tomb, born, claim, secret, case, adv, pool>>
      /\ AgesOf(s) /\ AnnotationsOf(s) /\ MarksOf(s) /\ HeldOf(s) /\ CopyOf(p) /\ WorkOf(p)
  BY <1>1 DEF RecordDeleted, RecordReleased, StripAnnotations, recordCleanupProgress, Write,
              api, ipam, lb, seen, CInv
<1>4. PICK pc \in {"release", "strip", "unfinalize"}, new \in ServiceObj :
         /\ Moved(p, pc, w[p].ip)
         /\ w[p].pc = "mark1" => pc = "release"
         /\ w[p].pc = "mark2" => pc = "strip"
         /\ w[p].pc = "strip" => pc = "unfinalize" /\ new.ip = NoIP /\ new.prog = "none"
         /\ svc' = [svc EXCEPT ![s] = new]
         /\ \/ new = Absent /\ (svc[s] = Absent \/ (svc[s].live /\ svc[s].del /\ ~ svc[s].fin))
            \/ /\ svc[s].live /\ new.live /\ new.uid = svc[s].uid /\ new.lb = svc[s].lb
               /\ new.del = svc[s].del /\ new.fin = svc[s].fin /\ new.lab = svc[s].lab
               /\ new.req = FALSE
               /\ new.ip = svc[s].ip \/ pc = "unfinalize"
  <2>0. /\ svc[s] \in ServiceObj /\ Absent \in ServiceObj /\ svc[s].req = FALSE
        /\ Absent.ip = NoIP /\ Absent.prog = "none"
        /\ ~ svc[s].live => svc[s] = Absent
        /\ svc \in [Service -> ServiceObj]
    BY <1>1, <1>2, <1>3, CleanerFacts, ObjectTypes, ValueTypes DEF AgesOf, LInv, Objects, TakingBack
  <2>1. ASSUME NEW new \in ServiceObj, new.uid = svc[s].uid, new.live = svc[s].live, new.lb = svc[s].lb,
               new.del = svc[s].del, new.fin = svc[s].fin, new.lab = svc[s].lab, new.req = FALSE,
               svc[s].live, svc' = [svc EXCEPT ![s] = Settle(new)]
        PROVE  \/ svc' = [svc EXCEPT ![s] = Absent] /\ svc[s].live /\ svc[s].del /\ ~ svc[s].fin
               \/ svc' = [svc EXCEPT ![s] = new]
    BY <2>1 DEF Settle
  <2>2. ASSUME NEW stage \in {"deleted", "released"}, NEW pc \in {"release", "strip"},
               pc = "release" <=> w[p].pc = "mark1", w[p].pc # "strip", recordCleanupProgress(p, stage, pc)
        PROVE  \E new \in ServiceObj :
                  /\ svc' = [svc EXCEPT ![s] = new]
                  /\ \/ new = Absent /\ (svc[s] = Absent \/ (svc[s].live /\ svc[s].del /\ ~ svc[s].fin))
                     \/ /\ svc[s].live /\ new.live /\ new.uid = svc[s].uid /\ new.lb = svc[s].lb
                        /\ new.del = svc[s].del /\ new.fin = svc[s].fin /\ new.lab = svc[s].lab
                        /\ new.req = FALSE /\ new.ip = svc[s].ip
    <3> DEFINE r == [svc[s] EXCEPT !.prog = stage]
    <3>1. /\ r \in ServiceObj /\ r.uid = svc[s].uid /\ r.live = svc[s].live /\ r.lb = svc[s].lb
          /\ r.del = svc[s].del /\ r.fin = svc[s].fin /\ r.lab = svc[s].lab /\ r.req = FALSE
          /\ r.ip = svc[s].ip
      BY <2>0 DEF ServiceObj
    <3>2. CASE svc[s].live
      <4>1. svc' = [svc EXCEPT ![s] = Settle(r)]
        BY <1>2, <2>2, <3>2 DEF recordCleanupProgress, Write
      <4> HIDE DEF r
      <4>2. \/ svc' = [svc EXCEPT ![s] = Absent] /\ svc[s].live /\ svc[s].del /\ ~ svc[s].fin
            \/ svc' = [svc EXCEPT ![s] = r]
        BY <2>1, <3>1, <3>2, <4>1
      <4> QED BY <2>0, <3>1, <3>2, <4>2
    <3>3. CASE ~ svc[s].live
      BY <1>2, <2>0, <2>2, <3>3 DEF recordCleanupProgress, api
    <3> QED BY <3>2, <3>3
  <2>3. CASE RecordDeleted(p)
    <3>1. /\ w[p].pc = "mark1" /\ recordCleanupProgress(p, "deleted", "release")
          /\ Moved(p, "release", w[p].ip)
      BY <2>3, GotoMoved DEF RecordDeleted, recordCleanupProgress
    <3> QED BY <2>2, <3>1
  <2>4. CASE RecordReleased(p)
    <3>1. /\ w[p].pc = "mark2" /\ recordCleanupProgress(p, "released", "strip")
          /\ Moved(p, "strip", w[p].ip)
      BY <2>4, GotoMoved DEF RecordReleased, recordCleanupProgress
    <3> QED BY <2>2, <3>1
  <2>5. CASE StripAnnotations(p)
    <3> DEFINE r == [svc[s] EXCEPT !.ip = NoIP, !.req = FALSE, !.prog = "none"]
    <3>1. /\ r \in ServiceObj /\ r.uid = svc[s].uid /\ r.live = svc[s].live /\ r.lb = svc[s].lb
          /\ r.del = svc[s].del /\ r.fin = svc[s].fin /\ r.lab = svc[s].lab /\ r.req = FALSE
          /\ r.ip = NoIP /\ r.prog = "none"
      BY <2>0 DEF ServiceObj, IPOrNone
    <3>2. w[p].pc = "strip" /\ Moved(p, "unfinalize", w[p].ip)
      BY <2>5, GotoMoved DEF StripAnnotations
    <3>3. CASE svc[s].live
      <4>1. svc' = [svc EXCEPT ![s] = Settle(r)]
        BY <1>2, <2>5, <3>3 DEF StripAnnotations, Write
      <4> HIDE DEF r
      <4>2. \/ svc' = [svc EXCEPT ![s] = Absent] /\ svc[s].live /\ svc[s].del /\ ~ svc[s].fin
            \/ svc' = [svc EXCEPT ![s] = r]
        BY <2>1, <3>1, <3>3, <4>1
      <4> QED BY <2>0, <3>1, <3>2, <3>3, <4>2
    <3>4. CASE ~ svc[s].live
      <4>1. svc' = [svc EXCEPT ![s] = Absent] /\ svc[s] = Absent
        BY <1>2, <2>0, <2>5, <3>4 DEF StripAnnotations, api
      <4> QED BY <2>0, <3>2, <4>1
    <3> QED BY <3>3, <3>4
  <2> QED BY <2>3, <2>4, <2>5
<1>5. pc \in CleanupPC /\ pc \notin VanishPC /\ w[p].pc \notin VanishPC /\ pc \notin AllocPC
  BY <1>1 DEF CleanupPC, VanishPC, AllocPC
<1>6. Later(svc[s], new)
  BY <1>4 DEF Later, Over
<1>7. /\ w'[p].pc = pc /\ w'[p].ip = w[p].ip /\ w'[p].key = s /\ w'[p].obj = w[p].obj /\ w'[p].gone = w[p].gone
      /\ \A q \in Worker : q # p => w'[q] = w[q]
  BY <1>2, <1>4 DEF Moved
<1>8. Frame(s)
  BY <1>2, <1>3, <1>4, <1>7 DEF Frame, LInv, Objects
<1>9. AgesOf(s)' /\ svc'[s] = new
  BY <1>3, <1>4, <1>6, WriteAges
<1>10. new.ip = svc[s].ip \/ new.ip = NoIP
  BY <1>1, <1>4, ValueTypes
<1>11. CopyOf(p)'
  BY <1>1, <1>2, <1>3, <1>4, <1>5, <1>6, <1>7, <1>10, WriteCopy
<1>12. /\ \A steps : Runs(s, steps) <=> w[p].pc \in steps
       /\ \A q \in Worker : w[q].key = s => q = p
       /\ svc[s].ip # NoIP => Over(svc[s]) /\ Over(cache[s])
       /\ cache[s].ip # NoIP => Over(cache[s])
       /\ secret => \A a \in Addr : s \in claim[a] => svc[s].ip = a
       /\ w[p].pc \notin {"mark2", "strip"} /\ svc[s].ip # NoIP => s \in claim[svc[s].ip]
  <2>1. TakingBack(p, s)
    BY <1>1, <1>2, CleanerFacts
  <2> QED BY <1>2, <2>1, RunsFor DEF TakingBack
<1>13. /\ \A steps : Runs(s, steps)' <=> pc \in steps
       /\ \A q \in Worker : w'[q].key = s => q = p
  BY <1>2, <1>4, RunsMoved
<1>14. ~ Runs(s, AllocPC)' /\ (Serving(s)' <=> ~ Over(cache[s]))
  BY <1>3, <1>5, <1>13 DEF Serving
<1>15. w[p].pc \in {"mark2", "strip"} => \A a \in Addr : s \notin claim[a]
  BY <1>2, <1>3 DEF WorkOf
<1>16. ~ (svc[s].fin /\ svc[s].ip = NoIP)
  BY <1>1, <1>3, <1>12 DEF MarksOf
<1>17. Absent.ip = NoIP /\ Absent.prog = "none" /\ Absent.req = FALSE /\ Absent.fin = FALSE /\ Absent.live = FALSE
       /\ NoIP \notin Addr /\ svc[s].ip \in Addr \cup {NoIP}
  BY ValueTypes
<1>18. AnnotationsOf(s)'
  <2>1. ASSUME new.ip # NoIP
        PROVE  s \in claim[new.ip] \/ RunsOn(s, {"mark2", "strip"}, new.ip)'
    <3>1. new.ip = svc[s].ip /\ pc # "unfinalize"
      BY <1>1, <1>4, <1>10, <2>1
    <3>2. CASE w[p].pc = "mark1"
      BY <1>12, <2>1, <3>1, <3>2
    <3>3. CASE w[p].pc = "mark2"
      <4>1. RunsOn(s, {"mark2", "strip"}, svc[s].ip)
        BY <1>3, <1>15, <1>17, <2>1, <3>1, <3>3 DEF AnnotationsOf
      <4>2. w[p].ip = svc[s].ip
        BY <1>12, <4>1 DEF RunsOn
      <4> QED BY <1>4, <1>7, <3>1, <3>3, <4>2 DEF RunsOn
    <3> QED BY <1>1, <1>4, <3>1, <3>2, <3>3
  <2>2. new.ip # NoIP => /\ new.ip = svc[s].ip /\ new.uid = svc[s].uid /\ new.fin = svc[s].fin
                         /\ Over(cache[s])
    BY <1>4, <1>10, <1>12, <1>17
  <2>3. new.live /\ new.lab /\ ~ Over(new) => new.ip # NoIP
    BY <1>3, <1>4, <1>12, <1>17 DEF AnnotationsOf, Over
  <2>4. /\ svc'[s] = new /\ claim' = claim /\ cache' = cache /\ tomb' = tomb /\ secret' = secret
    BY <1>3, <1>9
  <2> QED BY <1>3, <1>12, <1>14, <2>1, <2>2, <2>3, <2>4 DEF AnnotationsOf
<1>19. MarksOf(s)'
  <2>1. new.req = FALSE
    BY <1>4, <1>17
  <2>2. new.prog # "none" => Runs(s, {"release", "mark2", "strip"})' /\ (new.ip # NoIP => Over(new))
    BY <1>1, <1>4, <1>10, <1>12, <1>13, <1>17 DEF Over
  <2>3. new.fin /\ new.ip = NoIP => Runs(s, {"unfinalize"})' /\ Over(new)
    BY <1>4, <1>12, <1>13, <1>16, <1>17 DEF Over
  <2>4. Cleared(s)'
    <3>1. CASE pc = "release"
      BY <1>13, <3>1 DEF Cleared
    <3>2. CASE pc # "release"
      BY <1>1, <1>3, <1>4, <1>15, <3>2 DEF Cleared
    <3> QED BY <3>1, <3>2
  <2> QED BY <1>3, <1>9, <1>14, <2>1, <2>2, <2>3, <2>4 DEF MarksOf
<1>20. HeldOf(s)'
  <2>1. ASSUME secret, NEW a \in Addr, s \in claim[a]
        PROVE  new.ip = a
    BY <1>1, <1>3, <1>4, <1>12, <1>15, <1>17, <2>1 DEF AnnotationsOf
  <2> QED BY <1>3, <1>9, <2>1 DEF HeldOf
<1>21. WorkOf(p)'
  BY <1>1, <1>2, <1>3, <1>4, <1>5, <1>7, <1>9, <1>15 DEF WorkOf, HolderPC
<1>22. Backed' /\ Grouped' /\ \A q \in Worker : w'[q].pc # "idle" => DeferredOf(q)'
  BY <1>1, <1>2, <1>3, <1>4, <1>7, LoadBalancerKept
<1> QED BY <1>2, <1>7, <1>8, <1>9, <1>11, <1>18, <1>19, <1>20, <1>21, <1>22, WorkerStepKeeps

\* A worker that returns; a worker that has no tombstone leaves them alone.
LEMMA ReturnEnds ==
  ASSUME LInv, NEW p \in Worker, NEW s \in Service, w[p].key = s, Return(p) \/ Defer(p)
  PROVE  /\ Ended(p) /\ cache' = cache
         /\ tomb'[s] = tomb[s] \/ tomb'[s] = Absent
         /\ \A t \in Service : t # s => tomb'[t] = tomb[t]
         /\ ~ w[p].gone => tomb' = tomb
<1>1. w' = [w EXCEPT ![p] = Idle] /\ cache' = cache
  BY DEF Return, Defer
<1>2. tomb' = IF w[p].gone THEN [tomb EXCEPT ![s] = Absent] ELSE tomb
  BY DEF Return, Defer
<1>3. Ended(p)
  BY <1>1 DEF Ended, LInv, Workers
<1>4. tomb \in [Service -> ServiceObj]
  BY DEF LInv, Objects
<1> QED BY <1>1, <1>2, <1>3, <1>4

\* The finalizer goes last, or first when the project's Secret is gone.
LEMMA UnfinalizeKeeps ==
  ASSUME LInv, LInv', CInv, NEW p \in Worker, UNCHANGED case, removeFinalizer(p) \/ abandonDeletion(p)
  PROVE  CInv'
<1> USE DEF At
<1>1. /\ w[p].pc \in {"unfinalize", "abandon"} /\ w[p].pc \in CleanupPC /\ w[p].pc # "idle"
      /\ w[p].pc \notin {"release", "mark2", "strip"}
  BY DEF removeFinalizer, abandonDeletion, CleanupPC
<1>2. PICK s \in Service : w[p].key = s
  BY <1>1, WorkerValues
<1>3. /\ UNCHANGED <<born, claim, secret, case, adv, pool>>
      /\ Return(p) /\ Write(s, [svc[s] EXCEPT !.fin = FALSE])
      /\ AgesOf(s) /\ AnnotationsOf(s) /\ MarksOf(s) /\ HeldOf(s) /\ CopyOf(p) /\ WorkOf(p)
  BY <1>1, <1>2 DEF removeFinalizer, abandonDeletion, Write, ipam, lb, CInv
<1>4. /\ Ended(p) /\ cache' = cache
      /\ tomb'[s] = tomb[s] \/ tomb'[s] = Absent
      /\ \A t \in Service : t # s => tomb'[t] = tomb[t]
  BY <1>2, <1>3, ReturnEnds
<1>5. PICK new \in ServiceObj :
         /\ svc' = [svc EXCEPT ![s] = new]
         /\ \/ new = Absent
            \/ /\ svc[s].live /\ new.live /\ new.uid = svc[s].uid /\ new.lb = svc[s].lb
               /\ new.del = svc[s].del /\ new.lab = svc[s].lab /\ new.fin = FALSE
               /\ new.req = svc[s].req /\ new.ip = svc[s].ip /\ new.prog = svc[s].prog
  <2> DEFINE r == [svc[s] EXCEPT !.fin = FALSE]
  <2>1. svc[s] \in ServiceObj /\ Absent \in ServiceObj /\ svc' = [svc EXCEPT ![s] = Settle(r)]
    BY <1>3, ObjectTypes DEF LInv, Objects, Write
  <2>2. /\ r \in ServiceObj /\ r.live = svc[s].live /\ r.uid = svc[s].uid /\ r.lb = svc[s].lb
        /\ r.del = svc[s].del /\ r.lab = svc[s].lab /\ r.fin = FALSE
        /\ r.req = svc[s].req /\ r.ip = svc[s].ip /\ r.prog = svc[s].prog
    BY <2>1 DEF ServiceObj
  <2>3. svc[s] = Absent => r = Absent
    <3>1. ASSUME NEW x \in ServiceObj, x.fin = FALSE
          PROVE  [x EXCEPT !.fin = FALSE] = x
      BY <3>1 DEF ServiceObj
    <3> QED BY <2>1, <3>1, ValueTypes
  <2> HIDE DEF r
  <2>4. Settle(r) = r \/ Settle(r) = Absent
    BY DEF Settle
  <2>5. svc[s].live \/ svc[s] = Absent
    BY <1>3 DEF AgesOf
  <2> QED BY <2>1, <2>2, <2>3, <2>4, <2>5
<1>6. Later(svc[s], new)
  BY <1>5 DEF Later, Over
<1>7. AgesOf(s)' /\ svc'[s] = new
  BY <1>3, <1>4, <1>5, <1>6, WriteAges
<1>8. Frame(s)
  BY <1>2, <1>3, <1>4, <1>5, IdleType DEF Frame, Ended, LInv, Objects
<1>9. /\ \A steps : Runs(s, steps) <=> w[p].pc \in steps
      /\ TakingBack(p, s)
  BY <1>1, <1>2, RunsFor, CleanerFacts
<1>10. \A steps : ~ Runs(s, steps)'
  BY <1>2, <1>4, RunsEnded
<1>11. /\ Absent.ip = NoIP /\ Absent.prog = "none" /\ Absent.req = FALSE /\ Absent.fin = FALSE
       /\ Absent.live = FALSE
  BY ValueTypes
<1>12. /\ w[p].pc = "unfinalize" => svc[s].ip = NoIP /\ svc[s].prog = "none" /\ \A a \in Addr : s \notin claim[a]
       /\ w[p].pc = "abandon" => ~ secret
  BY <1>2, <1>3 DEF WorkOf
<1>13. svc[s].prog = "none" /\ (Cleared(s) => \A a \in Addr : s \notin claim[a])
  BY <1>1, <1>3, <1>9 DEF MarksOf, Cleared
<1>14. AnnotationsOf(s)'
  <2>1. Serving(s)' <=> ~ Over(cache[s])
    BY <1>4, <1>10 DEF Serving
  <2>2. new.ip # NoIP => /\ new.ip = svc[s].ip /\ new.uid = svc[s].uid /\ ~ secret
                         /\ s \in claim[new.ip] /\ Over(cache[s])
    BY <1>1, <1>5, <1>9, <1>11, <1>12 DEF TakingBack
  <2>3. new.live /\ new.lab /\ ~ Over(new) => new.ip # NoIP
    BY <1>3, <1>5, <1>11 DEF AnnotationsOf, Over
  <2>4. cache[s].ip # NoIP => Over(cache[s])
    BY <1>9 DEF TakingBack
  <2>5. /\ svc'[s] = new /\ claim' = claim /\ cache' = cache /\ secret' = secret
    BY <1>3, <1>4, <1>7
  <2>6. tomb'[s].ip # NoIP => tomb'[s] = tomb[s]
    BY <1>4, <1>11
  <2> QED BY <1>3, <1>10, <2>1, <2>2, <2>3, <2>4, <2>5, <2>6 DEF AnnotationsOf
<1>15. MarksOf(s)'
  <2>1. new.req = FALSE /\ new.prog = "none" /\ new.fin = FALSE
    BY <1>5, <1>9, <1>11, <1>13 DEF TakingBack
  <2>2. Cleared(s) => Cleared(s)'
    BY <1>3, <1>13 DEF Cleared
  <2>3. Marked(tomb'[s]) => Marked(tomb[s])
    BY <1>4, <1>11 DEF Marked
  <2> QED BY <1>3, <1>4, <1>7, <1>10, <2>1, <2>2, <2>3 DEF MarksOf
<1>16. HeldOf(s)'
  BY <1>1, <1>3, <1>12 DEF HeldOf
<1>17. Backed' /\ Grouped' /\ \A q \in Worker : w'[q].pc # "idle" => DeferredOf(q)'
  BY <1>3, <1>4, LoadBalancerKept DEF Ended
<1> QED BY <1>2, <1>4, <1>7, <1>8, <1>14, <1>15, <1>16, <1>17, IdleType, WorkerStepKeeps DEF Ended

\* A calm step spends nothing of what it is not.
LEMMA CalmSpends ==
  ASSUME LInv, Calm, NEW b \in {"fault", "crash", "force", "edit"}, Spend(b)
  PROVE  FALSE
<1>1. spent \in [Bounded -> Nat] /\ b \in Bounded
  BY DEF LInv, Objects, Bounded
<1>2. spent[b] \in Nat /\ spent'[b] = spent[b] + 1
  BY <1>1 DEF Spend
<1> QED BY <1>2 DEF Calm

\* The last claim on an address goes after its advertisement and its pool.
LEMMA LastClaim ==
  ASSUME LInv, CInv, NEW p \in Worker, NEW s \in Service, w[p].key = s, w[p].pc \in {"release", "vrelease"},
         NEW a \in Addr, w[p].ip = a, ReleaseFIP(s, a), \A q \in Worker : q # p => w'[q] = w[q],
         UNCHANGED <<adv, pool, case>>, w'[p].pc \in {"idle", "mark2"}
  PROVE  /\ Backed' /\ Grouped' /\ \A q \in Worker : w'[q].pc # "idle" => DeferredOf(q)'
         /\ \A t \in Service, b \in Addr : t \in claim'[b] <=> t \in claim[b] /\ ~ (t = s /\ b = a)
<1>1. \A b \in Addr : claim'[b] = IF b = a THEN claim[a] \ {s} ELSE claim[b]
  BY DEF ReleaseFIP, LInv, Objects
<1>2. Backed /\ Grouped /\ DeferredOf(p) /\ claim \in [Addr -> SUBSET Service]
  BY DEF CInv, LInv, Objects
<1>3. adv[a] \/ pool[a].has => \E x \in claim[a] : x # s
  BY <1>2 DEF DeferredOf
<1>4. Backed'
  BY <1>1, <1>2, <1>3 DEF Backed, Selector
<1>5. Grouped'
  BY <1>1, <1>2 DEF Grouped
<1>6. ASSUME NEW q \in Worker, w'[q].pc # "idle"
      PROVE  DeferredOf(q)'
  <2>1. CASE q = p
    BY <1>6, <2>1 DEF DeferredOf
  <2>2. CASE q # p /\ w[q].pc \in {"unpool", "mark1", "release", "vunpool", "vrelease"}
    <3>1. w'[q] = w[q] /\ DeferredOf(q) /\ w[q].ip \in Addr
      BY <1>6, <2>2, WorkerValues DEF CInv, OnAddress
    <3>2. w[q].ip # a
      BY <2>2, <3>1, LBAssumption DEF LInv, Workers, Locks, Locked
    <3> QED BY <1>1, <3>1, <3>2 DEF DeferredOf
  <2>3. CASE q # p /\ w[q].pc \notin {"unpool", "mark1", "release", "vunpool", "vrelease"}
    BY <2>3 DEF DeferredOf
  <2> QED BY <2>1, <2>2, <2>3
<1>7. \A t \in Service, b \in Addr : t \in claim'[b] <=> t \in claim[b] /\ ~ (t = s /\ b = a)
  BY <1>1
<1> QED BY <1>4, <1>5, <1>6, <1>7

\* The release of a cleanup.
LEMMA ReleaseKeeps ==
  ASSUME LInv, LInv', CInv, NEW p \in Worker, UNCHANGED case, Release(p)
  PROVE  CInv'
<1> USE DEF At
<1>1. w[p].pc = "release" /\ w[p].pc \in CleanupPC
  BY DEF Release, CleanupPC
<1>2. PICK s \in Service, a \in Addr : w[p].key = s /\ w[p].ip = a
  BY <1>1, WorkerValues DEF OnAddress
<1>3. Goto(p, "mark2") /\ UNCHANGED seen
  BY DEF Release
<1>4. /\ UNCHANGED <<svc, cache, tomb, born, secret, case, adv, pool>>
      /\ AgesOf(s) /\ AnnotationsOf(s) /\ MarksOf(s) /\ HeldOf(s) /\ CopyOf(p) /\ WorkOf(p)
      /\ ReleaseFIP(s, a)
  BY <1>1, <1>2, <1>3 DEF Release, api, lb, seen, CInv
<1>5. Moved(p, "mark2", a)
  BY <1>2, <1>3, GotoMoved
<1>6. /\ w'[p].pc = "mark2" /\ w'[p].ip = a /\ w'[p].key = s /\ w'[p].obj = w[p].obj /\ w'[p].gone = w[p].gone
      /\ \A q \in Worker : q # p => w'[q] = w[q]
  BY <1>2, <1>5 DEF Moved
<1>7. /\ Backed' /\ Grouped' /\ \A q \in Worker : w'[q].pc # "idle" => DeferredOf(q)'
      /\ \A t \in Service, b \in Addr : t \in claim'[b] <=> t \in claim[b] /\ ~ (t = s /\ b = a)
  BY <1>1, <1>2, <1>4, <1>6, LastClaim
<1>8. \A b \in Addr : (s \in claim[b] => b = a) /\ s \notin claim'[b]
  <2>1. \A b \in Addr : s \in claim[b] => b = a
    BY <1>1, <1>2, <1>4, LBAssumption DEF WorkOf
  <2> QED BY <1>7, <2>1
<1>9. Frame(s)
  BY <1>2, <1>4, <1>6, <1>7 DEF Frame
<1>10. TakingBack(p, s)
  BY <1>1, <1>2, CleanerFacts
<1>11. /\ \A steps : Runs(s, steps) <=> w[p].pc \in steps
       /\ \A q \in Worker : w[q].key = s => q = p
  BY <1>2, RunsFor
<1>12. /\ \A steps : Runs(s, steps)' <=> "mark2" \in steps
       /\ \A q \in Worker : w'[q].key = s => q = p
  BY <1>2, <1>5, RunsMoved
<1>13. AgesOf(s)'
  BY <1>4 DEF AgesOf
<1>14. ~ Runs(s, AllocPC)' /\ (Serving(s)' <=> ~ Over(cache[s]))
  BY <1>4, <1>12 DEF Serving, AllocPC
<1>15. AnnotationsOf(s)'
  <2>1. svc[s].ip # NoIP => RunsOn(s, {"mark2", "strip"}, svc[s].ip)'
    <3>1. svc[s].ip # NoIP => svc[s].ip = a
      BY <1>1, <1>8, <1>10, ValueTypes DEF TakingBack
    <3> QED BY <1>4, <1>6, <3>1 DEF RunsOn
  <2> QED BY <1>4, <1>8, <1>10, <1>14, <2>1 DEF AnnotationsOf, TakingBack
<1>16. MarksOf(s)'
  <2>1. Cleared(s)'
    BY <1>8 DEF Cleared
  <2>2. svc[s].req = FALSE
    BY <1>10 DEF TakingBack
  <2> QED BY <1>1, <1>4, <1>11, <1>12, <1>14, <2>1, <2>2 DEF MarksOf
<1>17. HeldOf(s)'
  BY <1>8 DEF HeldOf
<1>18. CopyOf(p)'
  BY <1>1, <1>2, <1>4, <1>6 DEF CopyOf, CleanupPC, AllocPC, VanishPC
<1>19. WorkOf(p)'
  BY <1>6, <1>8 DEF WorkOf, HolderPC
<1> QED BY <1>2, <1>6, <1>7, <1>9, <1>13, <1>15, <1>16, <1>17, <1>18, <1>19, WorkerStepKeeps

-----------------------------------------------------------------------------
(* The allocation                                                          *)

\* What holds while an address is allocated: what is annotated is claimed, and
\* no cleanup of the object has begun.
Allocating(p, s) ==
    /\ ~ w[p].gone
    /\ svc[s].ip # NoIP => s \in claim[svc[s].ip] /\ svc[s].fin /\ w[p].obj.uid = svc[s].uid
    /\ cache[s].ip # NoIP => /\ s \in claim[cache[s].ip] /\ svc[s].uid = cache[s].uid /\ svc[s].fin
                             /\ w[p].obj.uid = svc[s].uid
    /\ tomb[s].ip = NoIP /\ ~ Marked(tomb[s])
    /\ ~ (Marked(cache[s]) /\ Over(cache[s]))
    /\ svc[s].prog = "none"
    /\ ~ (svc[s].fin /\ svc[s].ip = NoIP)

\* A worker in the allocation allocates an address.
LEMMA AllocatorFacts ==
  ASSUME LInv, CInv, NEW p \in Worker, NEW s \in Service, w[p].key = s, w[p].pc \in AllocPC
  PROVE  Allocating(p, s)
<1>1. \A steps : Runs(s, steps) <=> w[p].pc \in steps
  BY RunsFor
<1>2. w[p].pc # "idle"
  BY DEF AllocPC
<1>3. AgesOf(s) /\ AnnotationsOf(s) /\ MarksOf(s) /\ CopyOf(p)
  BY <1>2 DEF CInv
<1>4. /\ Runs(s, AllocPC) /\ Serving(s)
      /\ ~ Runs(s, {"release", "mark2", "strip"}) /\ ~ Runs(s, {"unfinalize"})
  BY <1>1 DEF AllocPC, Serving
<1>5. ~ w[p].gone
  BY <1>3 DEF CopyOf
<1>6. svc[s].ip # NoIP => s \in claim[svc[s].ip] /\ svc[s].fin /\ w[p].obj.uid = svc[s].uid
  BY <1>3, <1>4 DEF AnnotationsOf, CopyOf
<1>7. cache[s].ip # NoIP => /\ s \in claim[cache[s].ip] /\ svc[s].uid = cache[s].uid /\ svc[s].fin
                            /\ w[p].obj.uid = svc[s].uid
  BY <1>3, <1>4 DEF AnnotationsOf, CopyOf
<1>8. tomb[s].ip = NoIP /\ ~ Marked(tomb[s])
  BY <1>3, <1>4 DEF AnnotationsOf, MarksOf
<1>9. ~ (Marked(cache[s]) /\ Over(cache[s]))
  BY <1>3, <1>4 DEF MarksOf
<1>10. svc[s].prog = "none" /\ ~ (svc[s].fin /\ svc[s].ip = NoIP)
  BY <1>3, <1>4 DEF MarksOf
<1> QED BY <1>5, <1>6, <1>7, <1>8, <1>9, <1>10 DEF Allocating

\* The release for a Service that vanished: nothing with its name is annotated.
LEMMA VanishedReleaseKeeps ==
  ASSUME LInv, LInv', CInv, NEW p \in Worker, UNCHANGED case, VanishedRelease(p)
  PROVE  CInv'
<1> USE DEF At
<1>1. w[p].pc = "vrelease" /\ w[p].pc \in AllocPC /\ w[p].pc \in HolderPC /\ w[p].pc \in VanishPC
  BY DEF VanishedRelease, AllocPC, HolderPC, VanishPC
<1>2. PICK s \in Service, a \in Addr : w[p].key = s /\ w[p].ip = a
  BY <1>1, WorkerValues DEF OnAddress
<1>3. /\ UNCHANGED <<svc, born, secret, case, adv, pool>>
      /\ AgesOf(s) /\ AnnotationsOf(s) /\ MarksOf(s) /\ CopyOf(p) /\ WorkOf(p) /\ Grouped
      /\ ReleaseFIP(s, a) /\ Return(p)
  BY <1>1, <1>2 DEF VanishedRelease, api, lb, CInv
<1>4. Allocating(p, s)
  BY <1>1, <1>2, AllocatorFacts
<1>5. Ended(p) /\ cache' = cache /\ tomb' = tomb
  BY <1>2, <1>3, <1>4, ReturnEnds DEF Allocating
<1>6. w'[p].pc = "idle" /\ \A q \in Worker : q # p => w'[q] = w[q]
  BY <1>5, IdleType DEF Ended
<1>7. /\ Backed' /\ Grouped' /\ \A q \in Worker : w'[q].pc # "idle" => DeferredOf(q)'
      /\ \A t \in Service, b \in Addr : t \in claim'[b] <=> t \in claim[b] /\ ~ (t = s /\ b = a)
  BY <1>1, <1>2, <1>3, <1>6, LastClaim
<1>8. \A b \in Addr : s \notin claim'[b]
  <2>1. s \in claim[a]
    BY <1>1, <1>2, <1>3 DEF WorkOf
  <2>2. \A b \in Addr : s \in claim[b] => b = a
    BY <1>3, <2>1 DEF Grouped
  <2> QED BY <1>7, <2>2
<1>9. Frame(s)
  BY <1>2, <1>3, <1>5, <1>7, IdleType DEF Frame, Ended
<1>10. svc[s].ip = NoIP /\ cache[s].ip = NoIP /\ tomb[s].ip = NoIP
  BY <1>1, <1>2, <1>3, <1>4 DEF Allocating, CopyOf
<1>11. /\ \A steps : Runs(s, steps) <=> w[p].pc \in steps
       /\ \A steps : ~ Runs(s, steps)'
  BY <1>2, <1>5, RunsFor, RunsEnded
<1>12. AgesOf(s)'
  BY <1>3, <1>5 DEF AgesOf
<1>13. AnnotationsOf(s)'
  BY <1>3, <1>5, <1>10 DEF AnnotationsOf
<1>14. MarksOf(s)'
  <2>1. Cleared(s)'
    BY <1>8 DEF Cleared
  <2>2. svc[s].prog = "none" /\ ~ (svc[s].fin /\ svc[s].ip = NoIP) /\ ~ svc[s].req
    BY <1>1, <1>3, <1>4, <1>11 DEF Allocating, MarksOf
  <2> QED BY <1>3, <1>5, <1>11, <2>1, <2>2 DEF MarksOf
<1>15. HeldOf(s)'
  BY <1>8 DEF HeldOf
<1> QED BY <1>2, <1>6, <1>7, <1>9, <1>12, <1>13, <1>14, <1>15, WorkerStepKeeps

\* Adopting an address, or going on to ask for one.
LEMMA RecoverKeeps ==
  ASSUME LInv, LInv', CInv, NEW p \in Worker, UNCHANGED case, Recover(p)
  PROVE  CInv'
<1> USE DEF At
<1>1. w[p].pc = "recover" /\ w[p].pc \in AllocPC /\ w[p].pc \notin HolderPC /\ w[p].pc # "idle"
  BY DEF Recover, AllocPC, HolderPC
<1>2. PICK s \in Service : w[p].key = s
  BY <1>1, WorkerValues
<1>3. /\ UNCHANGED <<svc, born, secret, case, adv, pool, claim>> /\ WorkOf(p)
  BY <1>1 DEF Recover, api, ipam, lb, CInv
<1>4. CASE Return(p) \/ Defer(p)
  <2>1. ~ w[p].gone
    BY <1>1, <1>2, AllocatorFacts DEF Allocating
  <2>2. Ended(p) /\ cache' = cache /\ tomb' = tomb
    BY <1>2, <1>4, <2>1, ReturnEnds
  <2> QED BY <1>1, <1>2, <1>3, <2>2, GiveUpKeeps
<1>5. ASSUME NEW pc \in {"pool", "mark"}, NEW ip, Moved(p, pc, ip), pc = "pool" => s \in claim[ip], UNCHANGED seen
      PROVE  CInv'
  <2>1. UNCHANGED <<svc, cache, tomb, born, claim, secret, case, adv, pool>>
    BY <1>3, <1>5 DEF seen
  <2>2. /\ pc \in AllocPC /\ pc \notin VanishPC /\ (pc \in HolderPC => pc = "pool")
        /\ pc \notin CleanupPC
    BY DEF AllocPC, VanishPC, HolderPC, CleanupPC
  <2>3. Frame(s) /\ AgesOf(s)' /\ AnnotationsOf(s)' /\ MarksOf(s)' /\ HeldOf(s)' /\ CopyOf(p)' /\ Grouped'
    BY <1>1, <1>2, <1>5, <2>1, <2>2, MoveKeeps
  <2>4. /\ w'[p].pc = pc /\ w'[p].ip = ip /\ w'[p].key = s /\ claim' = claim
    BY <1>2, <1>5, <2>1 DEF Moved
  <2>5. WorkOf(p)'
    BY <1>5, <2>2, <2>4 DEF WorkOf
  <2>6. DeferredOf(p)'
    BY <2>4 DEF DeferredOf
  <2> QED BY <1>1, <1>2, <1>5, <2>1, <2>3, <2>5, <2>6, LocalMoveKeeps
<1>6. CASE secret /\ w[p].adopt /\ Goto(p, "pool") /\ UNCHANGED seen
  <2>1. Moved(p, "pool", w[p].ip)
    BY <1>6, GotoMoved
  <2>2. s \in claim[w[p].ip]
    BY <1>1, <1>2, <1>3, <1>6 DEF WorkOf
  <2> QED BY <1>5, <1>6, <2>1, <2>2
<1>7. CASE Goto(p, "mark") /\ UNCHANGED seen
  BY <1>5, <1>7, GotoMoved
<1>8. CASE UNCHANGED seen /\ \E a \in Listed(s) : AdoptListed(p, a)
  <2>1. PICK a \in Addr : s \in claim[a] /\ AdoptListed(p, a)
    BY <1>8 DEF Listed
  <2>2. Moved(p, "pool", a)
    BY <2>1 DEF AdoptListed, LInv, Workers, WorkerState, Moved
  <2> QED BY <1>5, <1>8, <2>1, <2>2
<1> QED BY <1>2, <1>4, <1>6, <1>7, <1>8 DEF Recover

\* The pending marker is written before the request, and only then.
LEMMA MarkKeeps ==
  ASSUME LInv, LInv', CInv, NEW p \in Worker, UNCHANGED case, markAllocationPending(p)
  PROVE  CInv'
<1> USE DEF At
<1>1. /\ w[p].pc = "mark" /\ w[p].pc \in AllocPC /\ w[p].pc \notin HolderPC /\ w[p].pc # "idle"
      /\ w[p].pc \notin VanishPC
  BY DEF markAllocationPending, AllocPC, HolderPC, VanishPC
<1>2. PICK s \in Service : w[p].key = s
  BY <1>1, WorkerValues
<1>3. /\ UNCHANGED <<born, secret, case, adv, pool, claim>>
      /\ AgesOf(s) /\ AnnotationsOf(s) /\ MarksOf(s) /\ HeldOf(s) /\ CopyOf(p) /\ WorkOf(p)
  BY <1>1 DEF markAllocationPending, Write, api, ipam, lb, CInv
<1>4. Allocating(p, s)
  BY <1>1, <1>2, AllocatorFacts
<1>5. CASE Return(p) /\ UNCHANGED api
  <2>1. Ended(p) /\ cache' = cache /\ tomb' = tomb
    BY <1>2, <1>4, <1>5, ReturnEnds DEF Allocating
  <2>2. svc' = svc
    BY <1>5 DEF api
  <2> QED BY <1>1, <1>2, <1>3, <2>1, <2>2, GiveUpKeeps
<1>6. CASE svc[s].live /\ Write(s, [svc[s] EXCEPT !.req = TRUE]) /\ Goto(p, "request") /\ UNCHANGED seen
  <2>1. Moved(p, "request", w[p].ip) /\ cache' = cache /\ tomb' = tomb
    BY <1>6, GotoMoved DEF seen
  <2>2. PICK new \in ServiceObj :
           /\ svc' = [svc EXCEPT ![s] = new]
           /\ \/ new = Absent /\ ~ svc[s].fin
              \/ /\ svc[s].live /\ new.live /\ new.uid = svc[s].uid /\ new.lb = svc[s].lb
                 /\ new.del = svc[s].del /\ new.lab = svc[s].lab /\ new.fin = svc[s].fin
                 /\ new.ip = svc[s].ip /\ new.prog = svc[s].prog
    <3> DEFINE r == [svc[s] EXCEPT !.req = TRUE]
    <3>1. svc[s] \in ServiceObj /\ Absent \in ServiceObj /\ svc' = [svc EXCEPT ![s] = Settle(r)]
      BY <1>6, ObjectTypes DEF LInv, Objects, Write
    <3>2. /\ r \in ServiceObj /\ r.live = svc[s].live /\ r.uid = svc[s].uid /\ r.lb = svc[s].lb
          /\ r.del = svc[s].del /\ r.lab = svc[s].lab /\ r.fin = svc[s].fin
          /\ r.ip = svc[s].ip /\ r.prog = svc[s].prog
      BY <3>1 DEF ServiceObj
    <3> HIDE DEF r
    <3>3. Settle(r) = r \/ (Settle(r) = Absent /\ ~ r.fin)
      BY DEF Settle
    <3> QED BY <1>6, <3>1, <3>2, <3>3
  <2>3. Later(svc[s], new)
    BY <2>2 DEF Later, Over
  <2>4. /\ w'[p].pc = "request" /\ w'[p].ip = w[p].ip /\ w'[p].key = s /\ w'[p].obj = w[p].obj
        /\ w'[p].gone = w[p].gone /\ \A q \in Worker : q # p => w'[q] = w[q]
    BY <1>2, <2>1 DEF Moved
  <2>5. AgesOf(s)' /\ svc'[s] = new
    BY <1>3, <2>1, <2>2, <2>3, WriteAges
  <2>6. Absent.ip = NoIP /\ Absent.prog = "none" /\ Absent.fin = FALSE /\ Absent.live = FALSE /\ Absent.req = FALSE
    BY ValueTypes
  <2>7. new.ip = svc[s].ip \/ new.ip = NoIP
    BY <2>2, <2>6
  <2>8. w'[p].pc \in AllocPC /\ w'[p].pc \notin VanishPC /\ w'[p].pc \notin HolderPC
    BY <2>4 DEF AllocPC, VanishPC, HolderPC
  <2>9. CopyOf(p)'
    BY <1>1, <1>2, <1>3, <2>1, <2>2, <2>3, <2>4, <2>7, <2>8, WriteCopy
  <2>10. Frame(s)
    BY <1>2, <1>3, <2>1, <2>2, <2>4 DEF Frame, LInv, Objects
  <2>11. /\ \A steps : Runs(s, steps) <=> w[p].pc \in steps
         /\ \A q \in Worker : w[q].key = s => q = p
    BY <1>2, RunsFor
  <2>12. \A steps : Runs(s, steps)' <=> "request" \in steps
    BY <1>2, <2>1, RunsMoved
  <2>13. /\ Serving(s) /\ Serving(s)' /\ Runs(s, AllocPC) /\ Runs(s, AllocPC)'
         /\ svc[s].fin => /\ new.uid = svc[s].uid /\ new.fin = svc[s].fin /\ new.ip = svc[s].ip
    BY <1>1, <2>2, <2>11, <2>12 DEF Serving, AllocPC
  <2>14. AnnotationsOf(s)'
    <3>1. new.live /\ new.lab /\ ~ Over(new) => new.ip # NoIP
      BY <1>3, <2>2, <2>6 DEF AnnotationsOf, Over
    <3>2. new.ip # NoIP => new.ip = svc[s].ip /\ svc[s].fin /\ s \in claim[new.ip]
      BY <1>4, <2>2, <2>6 DEF Allocating
    <3> QED BY <1>3, <1>4, <2>1, <2>5, <2>13, <3>1, <3>2 DEF AnnotationsOf, Allocating
  <2>15. MarksOf(s)'
    <3>1. new.prog = "none" /\ ~ (new.fin /\ new.ip = NoIP)
      BY <1>4, <2>2, <2>6 DEF Allocating
    <3>2. Runs(s, {"request", "pool", "advertise", "annotate"})'
      BY <2>12
    <3> QED BY <1>3, <1>4, <2>1, <2>5, <3>1, <3>2 DEF MarksOf, Allocating
  <2>16. HeldOf(s)'
    <3>1. ASSUME secret, NEW a \in Addr, s \in claim[a]
          PROVE  svc[s].ip = a
      BY <1>1, <1>3, <2>11, <3>1 DEF HeldOf, RunsOn
    <3>2. svc[s].ip \in Addr => svc[s].fin
      BY <1>4, ValueTypes DEF Allocating
    <3> QED BY <1>3, <2>5, <2>13, <3>1, <3>2 DEF HeldOf
  <2>17. WorkOf(p)'
    BY <2>4, <2>8 DEF WorkOf, CleanupPC
  <2>18. Backed' /\ Grouped' /\ \A q \in Worker : w'[q].pc # "idle" => DeferredOf(q)'
    BY <1>3, <2>4, LoadBalancerKept
  <2> QED BY <1>2, <2>4, <2>5, <2>9, <2>10, <2>14, <2>15, <2>16, <2>17, <2>18, WorkerStepKeeps
<1> QED BY <1>2, <1>5, <1>6 DEF markAllocationPending

\* A refusal: the Service has no address, and the marker goes.
LEMMA RefusalKeeps ==
  ASSUME LInv, LInv', CInv, NEW p \in Worker, UNCHANGED case, RequestRefused(p), Calm
  PROVE  CInv'
<1> USE DEF At
<1>1. w[p].pc = "request" /\ w[p].pc \in AllocPC /\ w[p].pc # "idle"
  BY DEF RequestRefused, AllocPC
<1>2. PICK s \in Service : w[p].key = s
  BY <1>1, WorkerValues
<1>3. /\ UNCHANGED <<born, secret, case, adv, pool, claim>> /\ Defer(p)
      /\ AgesOf(s) /\ AnnotationsOf(s) /\ MarksOf(s) /\ HeldOf(s)
  BY <1>1 DEF RequestRefused, Write, api, ipam, lb, CInv
<1>4. Allocating(p, s)
  BY <1>1, <1>2, AllocatorFacts
<1>5. Ended(p) /\ cache' = cache /\ tomb' = tomb
  BY <1>2, <1>3, <1>4, ReturnEnds DEF Allocating
<1>6. \A a \in Addr : s \notin claim[a]
  <2>1. Listed(s) = {}
    BY <1>2 DEF RequestRefused, Answers
  <2> QED BY <2>1 DEF Listed
<1>7. svc[s].ip = NoIP /\ cache[s].ip = NoIP /\ tomb[s].ip = NoIP
  BY <1>4, <1>6, ValueTypes DEF Allocating
<1>8. PICK new \in ServiceObj :
         /\ svc' = [svc EXCEPT ![s] = new]
         /\ \/ new = Absent
            \/ /\ svc[s].live /\ new.live /\ new.uid = svc[s].uid /\ new.lb = svc[s].lb
               /\ new.del = svc[s].del /\ new.lab = svc[s].lab /\ new.fin = svc[s].fin
               /\ new.ip = svc[s].ip /\ new.prog = svc[s].prog /\ new.req = FALSE
  <2> DEFINE r == [svc[s] EXCEPT !.req = FALSE]
  <2>1. svc[s] \in ServiceObj /\ Absent \in ServiceObj
    BY ObjectTypes DEF LInv, Objects
  <2>2. /\ r \in ServiceObj /\ r.live = svc[s].live /\ r.uid = svc[s].uid /\ r.lb = svc[s].lb
        /\ r.del = svc[s].del /\ r.lab = svc[s].lab /\ r.fin = svc[s].fin
        /\ r.ip = svc[s].ip /\ r.prog = svc[s].prog /\ r.req = FALSE
    BY <2>1 DEF ServiceObj
  <2>3. CASE svc[s].live
    <3>1. svc' = [svc EXCEPT ![s] = Settle(r)]
      BY <1>2, <2>3, CalmSpends DEF RequestRefused, Write
    <3> HIDE DEF r
    <3>2. Settle(r) = r \/ Settle(r) = Absent
      BY DEF Settle
    <3> QED BY <2>1, <2>2, <2>3, <3>1, <3>2
  <2>4. CASE ~ svc[s].live
    <3>1. svc' = svc /\ svc[s] = Absent
      BY <1>2, <1>3, <2>4, CalmSpends DEF RequestRefused, api, AgesOf
    <3> QED BY <2>1, <3>1 DEF LInv, Objects
  <2> QED BY <2>3, <2>4
<1>9. Later(svc[s], new)
  BY <1>8 DEF Later, Over
<1>10. AgesOf(s)' /\ svc'[s] = new
  BY <1>3, <1>5, <1>8, <1>9, WriteAges
<1>11. Frame(s)
  BY <1>2, <1>3, <1>5, <1>8, IdleType DEF Frame, Ended, LInv, Objects
<1>12. \A steps : ~ Runs(s, steps)'
  BY <1>2, <1>5, RunsEnded
<1>13. Absent.ip = NoIP /\ Absent.prog = "none" /\ Absent.fin = FALSE /\ Absent.live = FALSE /\ Absent.req = FALSE
  BY ValueTypes
<1>14. AnnotationsOf(s)'
  <2>1. new.ip = NoIP
    BY <1>7, <1>8, <1>13
  <2>2. ~ (new.live /\ new.lab /\ ~ Over(new))
    BY <1>3, <1>7, <1>8, <1>13 DEF AnnotationsOf, Over
  <2> QED BY <1>5, <1>7, <1>10, <2>1, <2>2 DEF AnnotationsOf
<1>15. MarksOf(s)'
  <2>1. new.prog = "none" /\ new.fin = FALSE /\ new.req = FALSE
    BY <1>4, <1>7, <1>8, <1>13 DEF Allocating, ServiceObj
  <2> QED BY <1>3, <1>4, <1>5, <1>10, <2>1 DEF MarksOf, Allocating
<1>16. HeldOf(s)'
  BY <1>3, <1>6 DEF HeldOf
<1>17. Backed' /\ Grouped' /\ \A q \in Worker : w'[q].pc # "idle" => DeferredOf(q)'
  BY <1>3, <1>5, LoadBalancerKept DEF Ended
<1> QED BY <1>2, <1>5, <1>10, <1>11, <1>14, <1>15, <1>16, <1>17, IdleType, WorkerStepKeeps DEF Ended

\* What the IPAM answers keeps one address per Service and per group, and fits
\* the pool of the address.
LEMMA AnswerKeeps ==
  ASSUME LInv, CInv, NEW s \in Service, NEW a \in Addr, a \in Answers(s),
         claim' = [claim EXCEPT ![a] = @ \cup {s}], UNCHANGED <<case, adv, pool>>
  PROVE  /\ Grouped' /\ Backed'
         /\ \A t \in Service, b \in Addr : t \in claim'[b] <=> t \in claim[b] \/ (t = s /\ b = a)
         /\ \A b \in Addr : s \in claim[b] => b = a
<1>1. \A b \in Addr : claim'[b] = IF b = a THEN claim[a] \cup {s} ELSE claim[b]
  BY DEF LInv, Objects
<1>2. Backed /\ Grouped /\ claim \in [Addr -> SUBSET Service]
  BY DEF CInv, LInv, Objects
<1>3. \A t \in Service, b \in Addr : t \in claim'[b] <=> t \in claim[b] \/ (t = s /\ b = a)
  BY <1>1
<1>4. CASE s \in claim[a]
  <2>1. \A b \in Addr : claim'[b] = claim[b]
    BY <1>1, <1>4
  <2>2. Grouped'
    BY <1>2, <2>1 DEF Grouped
  <2>3. Backed'
    BY <1>2, <2>1 DEF Backed, Selector
  <2>4. \A b \in Addr : s \in claim[b] => b = a
    BY <1>2, <1>4 DEF Grouped
  <2> QED BY <1>3, <2>2, <2>3, <2>4
<1>5. CASE s \notin claim[a]
  <2>1. /\ \A b \in Addr : s \notin claim[b]
        /\ \/ case.group[s] # None /\ \E o \in claim[a] : case.group[o] = case.group[s]
           \/ /\ claim[a] = {}
              /\ case.group[s] # None =>
                    \A b \in Addr : \A o \in claim[b] : case.group[o] # case.group[s]
    BY <1>5 DEF Answers, Listed, SameGroup
  <2>2. CASE case.group[s] # None /\ \E o \in claim[a] : case.group[o] = case.group[s]
    <3>1. PICK o \in claim[a] : case.group[o] = case.group[s]
      BY <2>2
    <3>2. o \in Service
      BY <1>2, <3>1
    <3>3. \A x \in Service, b \in Addr : x \in claim[b] /\ case.group[x] = case.group[s] => b = a
      BY <1>2, <2>2, <3>1, <3>2 DEF Grouped
    <3>4. \A x \in claim[a] : x \in Service /\ case.group[x] = case.group[s]
      BY <1>2, <3>1, <3>2 DEF Grouped
    <3>5. Grouped'
      BY <1>2, <1>3, <2>1, <2>2, <3>3, <3>4 DEF Grouped
    <3>6. Backed'
      BY <1>1, <1>2, <2>2, <3>1, <3>2, <3>4 DEF Backed, Selector
    <3> QED BY <1>3, <2>1, <3>5, <3>6
  <2>3. CASE /\ claim[a] = {}
             /\ case.group[s] # None =>
                   \A b \in Addr : \A o \in claim[b] : case.group[o] # case.group[s]
    <3>1. Grouped'
      BY <1>2, <1>3, <2>1, <2>3 DEF Grouped
    <3>2. Backed'
      BY <1>1, <1>2, <2>3 DEF Backed, Selector
    <3> QED BY <1>3, <2>1, <3>1, <3>2
  <2> QED BY <2>1, <2>2, <2>3
<1> QED BY <1>4, <1>5

\* The request: from here a worker has the claim in hand.
LEMMA RequestKeeps ==
  ASSUME LInv, LInv', CInv, NEW p \in Worker, UNCHANGED case, RequestFIP(p), Calm
  PROVE  CInv'
<1> USE DEF At
<1>1. w[p].pc = "request" /\ w[p].pc \in AllocPC /\ w[p].pc # "idle"
  BY DEF RequestFIP, AllocPC
<1>2. PICK s \in Service : w[p].key = s
  BY <1>1, WorkerValues
<1>3. PICK a \in Answers(s) :
         /\ claim' = [claim EXCEPT ![a] = @ \cup {s}]
         /\ w' = [w EXCEPT ![p].pc = "pool", ![p].ip = a] /\ UNCHANGED seen
  BY <1>2, CalmSpends DEF RequestFIP
<1>4. a \in Addr
  BY CaseTypes DEF Answers, Listed, LInv
<1>5. /\ UNCHANGED <<svc, cache, tomb, born, secret, case, adv, pool>>
      /\ AgesOf(s) /\ AnnotationsOf(s) /\ MarksOf(s) /\ HeldOf(s) /\ CopyOf(p)
  BY <1>1, <1>3 DEF RequestFIP, api, lb, seen, CInv
<1>6. /\ Grouped' /\ Backed'
      /\ \A t \in Service, b \in Addr : t \in claim'[b] <=> t \in claim[b] \/ (t = s /\ b = a)
      /\ \A b \in Addr : s \in claim[b] => b = a
  BY <1>3, <1>4, <1>5, AnswerKeeps
<1>7. Moved(p, "pool", a)
  BY <1>3 DEF LInv, Workers, WorkerState, Moved
<1>8. /\ w'[p].pc = "pool" /\ w'[p].ip = a /\ w'[p].key = s /\ w'[p].obj = w[p].obj /\ w'[p].gone = w[p].gone
      /\ \A q \in Worker : q # p => w'[q] = w[q]
  BY <1>2, <1>7 DEF Moved
<1>9. Frame(s)
  BY <1>2, <1>5, <1>6, <1>8 DEF Frame
<1>10. Allocating(p, s)
  BY <1>1, <1>2, AllocatorFacts
<1>11. \A steps : Runs(s, steps) <=> w[p].pc \in steps
  BY <1>2, RunsFor
<1>12. \A steps : Runs(s, steps)' <=> "pool" \in steps
  BY <1>2, <1>7, RunsMoved
<1>13. AgesOf(s)'
  BY <1>5 DEF AgesOf
<1>14. AnnotationsOf(s)'
  <2>1. \A b \in Addr : s \in claim'[b] <=> b = a
    BY <1>4, <1>6
  <2>2. svc[s].ip # NoIP => svc[s].ip = a /\ s \in claim'[svc[s].ip]
    BY <1>6, <1>10, <2>1, ValueTypes DEF Allocating
  <2>3. cache[s].ip # NoIP => cache[s].ip = a /\ s \in claim'[cache[s].ip]
    BY <1>6, <1>10, <2>1, ValueTypes DEF Allocating
  <2> QED BY <1>5, <1>10, <2>1, <2>2, <2>3 DEF AnnotationsOf, Allocating
<1>15. MarksOf(s)'
  <2>1. Runs(s, {"request", "pool", "advertise", "annotate"})'
    BY <1>12
  <2> QED BY <1>5, <1>10, <2>1 DEF MarksOf, Allocating
<1>16. HeldOf(s)'
  <2>1. RunsOn(s, HolderPC, a)'
    BY <1>8 DEF RunsOn, HolderPC
  <2> QED BY <1>6, <2>1 DEF HeldOf
<1>17. CopyOf(p)'
  BY <1>1, <1>2, <1>5, <1>8 DEF CopyOf, AllocPC, CleanupPC, VanishPC
<1>18. WorkOf(p)'
  BY <1>4, <1>6, <1>8 DEF WorkOf, CleanupPC
<1>19. ASSUME NEW q \in Worker, w'[q].pc # "idle"
       PROVE  DeferredOf(q)'
  <2>1. CASE q = p
    BY <1>8, <2>1 DEF DeferredOf
  <2>2. CASE q # p
    <3>1. w'[q] = w[q] /\ DeferredOf(q)
      BY <1>8, <1>19, <2>2 DEF CInv
    <3>2. w[q].pc \in {"unpool", "mark1", "release", "vunpool", "vrelease"} => w[q].ip \in Addr
      BY WorkerValues DEF OnAddress
    <3>3. \A b \in Addr : claim[b] \subseteq claim'[b]
      BY <1>3, <1>4 DEF LInv, Objects
    <3> QED BY <1>5, <3>1, <3>2, <3>3 DEF DeferredOf
  <2> QED BY <2>1, <2>2
<1> QED BY <1>2, <1>6, <1>8, <1>9, <1>13, <1>14, <1>15, <1>16, <1>17, <1>18, <1>19, WorkerStepKeeps

\* The pool and the advertisement are built on a claim of the Service.
LEMMA BuildUpKeeps ==
  ASSUME LInv, LInv', CInv, NEW p \in Worker, UNCHANGED case, Calm,
         CreateIPAddressPool(p) \/ CreateL2Advertisement(p)
  PROVE  CInv'
<1> USE DEF At
<1>1. /\ w[p].pc \in {"pool", "advertise"} /\ w[p].pc \in AllocPC /\ w[p].pc \in HolderPC /\ w[p].pc # "idle"
      /\ w[p].pc \notin CleanupPC
  BY DEF CreateIPAddressPool, CreateL2Advertisement, AllocPC, HolderPC, CleanupPC
<1>2. PICK s \in Service, a \in Addr : w[p].key = s /\ w[p].ip = a
  BY <1>1, WorkerValues DEF OnAddress
<1>3. /\ UNCHANGED <<svc, cache, tomb, born, claim, secret, case>>
      /\ WorkOf(p) /\ Grouped /\ Backed
  BY <1>1 DEF CreateIPAddressPool, CreateL2Advertisement, api, ipam, seen, CInv
<1>4. s \in claim[a]
  BY <1>1, <1>2, <1>3 DEF WorkOf
<1>5. claim \in [Addr -> SUBSET Service] /\ pool \in [Addr -> Pool] /\ adv \in [Addr -> BOOLEAN]
  BY DEF LInv, Objects
<1>6. /\ \A b \in Addr : b # a => pool'[b] = pool[b] /\ adv'[b] = adv[b]
      /\ pool'[a].has => \/ pool'[a].sel = pool[a].sel /\ pool[a].has
                         \/ pool'[a].sel = Selector(s)
      /\ pool'[a].has \/ pool'[a] = pool[a]
  <2>1. CASE CreateIPAddressPool(p)
    <3> DEFINE new == NewPool(s)
    <3>1. adv' = adv
      BY <2>1 DEF CreateIPAddressPool
    <3>2. new.has /\ new.sel = Selector(s)
      BY DEF NewPool, Selector
    <3> HIDE DEF new
    <3>3. CASE pool[a].has /\ pool' = [pool EXCEPT ![a].ns = @ \cup {s}]
      BY <1>5, <3>1, <3>3 DEF Pool
    <3>4. CASE pool' = pool
      BY <3>1, <3>4
    <3>5. CASE pool' = [pool EXCEPT ![a] = new]
      BY <1>5, <3>1, <3>2, <3>5
    <3> QED BY <1>2, <2>1, <3>3, <3>4, <3>5 DEF CreateIPAddressPool, Joins, new
  <2>2. CASE CreateL2Advertisement(p)
    BY <1>2, <1>5, <2>2, CalmSpends DEF CreateL2Advertisement
  <2> QED BY <2>1, <2>2
<1>7. PICK pc \in {"advertise", "annotate"} : Moved(p, pc, a)
  <2>1. CASE CreateIPAddressPool(p)
    <3>1. CASE Goto(p, "annotate") \/ Goto(p, "advertise")
      BY <1>2, <3>1, GotoMoved
    <3>2. CASE w' = [w EXCEPT ![p].pc = "advertise", ![p].created = TRUE]
      BY <1>2, <3>2 DEF LInv, Workers, WorkerState, Moved
    <3> QED BY <2>1, <3>1, <3>2 DEF CreateIPAddressPool
  <2>2. CASE CreateL2Advertisement(p)
    BY <1>2, <2>2, GotoMoved, CalmSpends DEF CreateL2Advertisement
  <2> QED BY <2>1, <2>2
<1>8. pc \in AllocPC /\ pc \in HolderPC /\ pc \notin VanishPC /\ pc \notin CleanupPC
  BY DEF AllocPC, HolderPC, VanishPC, CleanupPC
<1>9. Frame(s) /\ AgesOf(s)' /\ AnnotationsOf(s)' /\ MarksOf(s)' /\ HeldOf(s)' /\ CopyOf(p)' /\ Grouped'
  BY <1>1, <1>2, <1>3, <1>7, <1>8, MoveKeeps
<1>10. /\ w'[p].pc = pc /\ w'[p].ip = a /\ w'[p].key = s
       /\ \A q \in Worker : q # p => w'[q] = w[q]
  BY <1>2, <1>7 DEF Moved
<1>11. WorkOf(p)'
  BY <1>3, <1>4, <1>7, <1>8, <1>10 DEF WorkOf
<1>12. Backed'
  <2>1. \A x \in claim[a] : Selector(x) = Selector(s)
    BY <1>2, <1>3, <1>4, <1>5 DEF Grouped, Selector
  <2>2. \A x : Selector(x)' = Selector(x)
    BY <1>3 DEF Selector
  <2>3. pool'[a].has => \A x \in claim[a] : Selector(x) = pool'[a].sel
    BY <1>3, <1>6, <2>1 DEF Backed
  <2> QED BY <1>3, <1>4, <1>6, <2>2, <2>3 DEF Backed
<1>13. ASSUME NEW q \in Worker, w'[q].pc # "idle"
       PROVE  DeferredOf(q)'
  <2>1. CASE q = p
    BY <1>7, <1>10, <2>1 DEF DeferredOf
  <2>2. CASE q # p
    <3>1. w'[q] = w[q] /\ DeferredOf(q) /\ w[q].key # s
      BY <1>2, <1>10, <1>13, <2>2, LBAssumption DEF CInv, LInv, Workers, Keys
    <3>2. w[q].pc \in {"unpool", "mark1", "release", "vunpool", "vrelease"} => w[q].ip \in Addr
      BY WorkerValues DEF OnAddress
    <3>3. CASE w[q].ip = a
      BY <1>3, <1>4, <3>1, <3>3 DEF DeferredOf
    <3>4. CASE w[q].ip # a
      BY <1>3, <1>6, <3>1, <3>2, <3>4 DEF DeferredOf
    <3> QED BY <3>3, <3>4
  <2> QED BY <2>1, <2>2
<1> QED BY <1>2, <1>9, <1>10, <1>11, <1>12, <1>13, WorkerStepKeeps

\* The annotation records the claim on the object that it was made for.
LEMMA AnnotateKeeps ==
  ASSUME LInv, LInv', CInv, NEW p \in Worker, UNCHANGED case, Annotate(p), Calm
  PROVE  CInv'
<1> USE DEF At
<1>1. /\ w[p].pc = "annotate" /\ w[p].pc \in AllocPC /\ w[p].pc \in HolderPC /\ w[p].pc # "idle"
      /\ w[p].pc \notin CleanupPC
  BY DEF Annotate, AllocPC, HolderPC, CleanupPC
<1>2. PICK s \in Service, a \in Addr : w[p].key = s /\ w[p].ip = a
  BY <1>1, WorkerValues DEF OnAddress
<1>3. /\ UNCHANGED <<born, secret, case, adv, pool, claim>>
      /\ AgesOf(s) /\ AnnotationsOf(s) /\ MarksOf(s) /\ HeldOf(s) /\ CopyOf(p) /\ WorkOf(p) /\ Grouped
  BY <1>1, CalmSpends DEF Annotate, Write, api, ipam, lb, CInv
<1>4. Allocating(p, s)
  BY <1>1, <1>2, AllocatorFacts
<1>5. s \in claim[a] /\ NoIP \notin Addr /\ \A b \in Addr : s \in claim[b] => b = a
  BY <1>1, <1>2, <1>3, LBAssumption DEF WorkOf, Grouped
<1>6. CASE ~ svc[s].live /\ Goto(p, "vlock") /\ UNCHANGED <<api, seen>>
  <2>1. Moved(p, "vlock", a)
    BY <1>2, <1>6, GotoMoved
  <2>2. UNCHANGED <<svc, cache, tomb, born, claim, secret, case, adv, pool>>
    BY <1>3, <1>6 DEF api, seen
  <2>3. svc[s].uid = 0 /\ svc[s].req = FALSE /\ w[p].obj.uid # svc[s].uid
    BY <1>3, <1>6, ValueTypes DEF AgesOf, CopyOf
  <2>4. "vlock" \in AllocPC /\ "vlock" \in HolderPC /\ "vlock" \notin CleanupPC
    BY DEF AllocPC, HolderPC, CleanupPC
  <2>5. Frame(s) /\ AgesOf(s)' /\ AnnotationsOf(s)' /\ MarksOf(s)' /\ HeldOf(s)' /\ CopyOf(p)' /\ Grouped'
    BY <1>1, <1>2, <2>1, <2>2, <2>3, <2>4, MoveKeeps
  <2>6. /\ w'[p].pc = "vlock" /\ w'[p].ip = a /\ w'[p].key = s
    BY <1>2, <2>1 DEF Moved
  <2>7. WorkOf(p)'
    BY <1>3, <1>5, <2>4, <2>6 DEF WorkOf
  <2>8. DeferredOf(p)'
    BY <2>6 DEF DeferredOf
  <2> QED BY <1>1, <1>2, <2>1, <2>2, <2>5, <2>7, <2>8, LocalMoveKeeps
<1>7. CASE /\ svc[s].live /\ Return(p)
           /\ Write(s, [svc[s] EXCEPT !.ip = w[p].ip, !.req = FALSE, !.fin = TRUE, !.lab = TRUE])
  <2>1. Ended(p) /\ cache' = cache /\ tomb' = tomb
    BY <1>2, <1>4, <1>7, ReturnEnds DEF Allocating
  <2>2. PICK new \in ServiceObj :
           /\ svc' = [svc EXCEPT ![s] = new]
           /\ svc[s].live /\ new.live /\ new.uid = svc[s].uid /\ new.lb = svc[s].lb
           /\ new.del = svc[s].del /\ new.prog = svc[s].prog
           /\ new.fin /\ new.ip = a /\ new.req = FALSE
    <3> DEFINE r == [svc[s] EXCEPT !.ip = a, !.req = FALSE, !.fin = TRUE, !.lab = TRUE]
    <3>1. svc[s] \in ServiceObj /\ svc' = [svc EXCEPT ![s] = Settle(r)]
      BY <1>2, <1>7 DEF LInv, Objects, Write
    <3>2. /\ r \in ServiceObj /\ r.live = svc[s].live /\ r.uid = svc[s].uid /\ r.lb = svc[s].lb
          /\ r.del = svc[s].del /\ r.prog = svc[s].prog /\ r.fin /\ r.ip = a /\ r.req = FALSE
      BY <3>1 DEF ServiceObj, IPOrNone
    <3> HIDE DEF r
    <3>3. Settle(r) = r
      BY <3>2 DEF Settle
    <3> QED BY <1>7, <3>1, <3>2, <3>3
  <2>3. Later(svc[s], new)
    BY <2>2 DEF Later, Over
  <2>4. AgesOf(s)' /\ svc'[s] = new
    BY <1>3, <2>1, <2>2, <2>3, WriteAges
  <2>5. svc[s].uid = w[p].obj.uid
    <3>1. CASE svc' # svc
      BY <1>2, <1>7, <3>1 DEF Calm, AnnotatesAnother
    <3>2. CASE svc' = svc
      BY <1>2, <1>3, <1>5, <2>2, <2>4, <3>2 DEF CopyOf
    <3> QED BY <3>1, <3>2
  <2>6. cache[s].live /\ cache[s].uid = svc[s].uid
    BY <1>2, <1>3, <2>5 DEF CopyOf
  <2>7. Frame(s)
    BY <1>2, <1>3, <2>1, <2>2, IdleType DEF Frame, Ended, LInv, Objects
  <2>8. \A steps : ~ Runs(s, steps)'
    BY <1>2, <2>1, RunsEnded
  <2>9. AnnotationsOf(s)'
    <3>1. \A b \in Addr : s \in claim'[b] => b = a
      BY <1>3, <1>5
    <3>2. new.ip = a /\ s \in claim'[a] /\ a # NoIP /\ new.fin /\ new.uid = cache[s].uid
      BY <1>3, <1>5, <2>2, <2>6
    <3>3. cache[s].ip # NoIP => cache[s].ip = a
      BY <1>4, <1>5, ValueTypes DEF Allocating
    <3> QED BY <1>4, <2>1, <2>4, <2>6, <3>1, <3>2, <3>3 DEF AnnotationsOf, Allocating
  <2>10. MarksOf(s)'
    <3>1. new.prog = "none" /\ new.req = FALSE /\ new.ip # NoIP
      BY <1>4, <1>5, <2>2 DEF Allocating
    <3> QED BY <1>3, <1>4, <2>1, <2>4, <3>1 DEF MarksOf, Allocating
  <2>11. HeldOf(s)'
    BY <1>3, <1>5, <2>2, <2>4 DEF HeldOf
  <2>12. Backed' /\ Grouped' /\ \A q \in Worker : w'[q].pc # "idle" => DeferredOf(q)'
    BY <1>3, <2>1, LoadBalancerKept DEF Ended
  <2> QED BY <1>2, <2>1, <2>4, <2>7, <2>9, <2>10, <2>11, <2>12, IdleType, WorkerStepKeeps DEF Ended
<1> QED BY <1>2, <1>6, <1>7, CalmSpends DEF Annotate

-----------------------------------------------------------------------------
(* The start of a reconcile                                                *)

\* A worker starts with what the cache has, or with the tombstone.
LEMMA BeginKeeps ==
  ASSUME LInv, LInv', CInv, NEW p \in Worker, NEW s \in Service, UNCHANGED case, reconcile(p, s)
  PROVE  CInv'
<1> USE DEF At
<1>1. /\ UNCHANGED <<svc, cache, born, secret, case, adv, pool, claim>>
      /\ AgesOf(s) /\ AnnotationsOf(s) /\ MarksOf(s) /\ HeldOf(s)
      /\ w[p].pc = "idle" /\ w[p] = Idle /\ w[p].key = None
      /\ \A q \in Worker : w[q].key # s
  BY IdleType DEF reconcile, api, ipam, lb, CInv, LInv, Workers, Busy
<1>2. \A steps : ~ Runs(s, steps)
  BY <1>1 DEF Runs
<1>3. \A steps, a : ~ RunsOn(s, steps, a)
  BY <1>1 DEF RunsOn
<1>4. /\ svc[s].req = FALSE /\ svc[s].prog = "none" /\ ~ (svc[s].fin /\ svc[s].ip = NoIP)
      /\ Cleared(s) => \A a \in Addr : s \notin claim[a]
      /\ secret => \A a \in Addr : s \in claim[a] => svc[s].ip = a
      /\ svc[s].ip # NoIP => s \in claim[svc[s].ip]
  BY <1>1, <1>2, <1>3 DEF MarksOf, Cleared, HeldOf, AnnotationsOf, LInv, Objects, ServiceObj
<1>5. PICK v : w' = [w EXCEPT ![p] = v]
  BY DEF reconcile
<1>6. w'[p] = v /\ \A q \in Worker : q # p => w'[q] = w[q]
  BY <1>5 DEF LInv, Workers
<1>7. /\ tomb'[s] = tomb[s] \/ tomb'[s] = Absent
      /\ \A t \in Service : t # s => tomb'[t] = tomb[t]
  BY DEF reconcile, LInv, Objects
<1>8. Backed' /\ Grouped'
  BY <1>1 DEF CInv, Backed, Selector, Grouped
<1>9. ASSUME \/ v = Idle
             \/ /\ v.pc \in {"secret", "recover"} /\ v.key = s
                /\ v.pc = "recover" => cache[s].live /\ ~ Over(cache[s]) /\ tomb'[s] = Absent
                /\ v.pc # "idle" => CopyOf(p)' /\ WorkOf(p)'
      PROVE  CInv'
  <2>1. v.key \in {s, None} /\ (v.pc # "idle" => CopyOf(p)' /\ WorkOf(p)')
    BY <1>9, IdleType
  <2>2. Frame(s)
    BY <1>1, <1>6, <1>7, <2>1 DEF Frame
  <2>3. /\ Runs(s, AllocPC)' => v.pc = "recover" /\ v.key = s
        /\ Runs(s, AllocPC)' => cache[s].live /\ ~ Over(cache[s]) /\ tomb'[s] = Absent
    <3>1. Runs(s, AllocPC)' => v.pc \in AllocPC /\ v.key = s
      BY <1>1, <1>6 DEF Runs
    <3> QED BY <1>9, <3>1, IdleType, LBAssumption DEF AllocPC
  <2>4. Serving(s)' => Serving(s)
    BY <1>1, <2>3 DEF Serving
  <2>5. Absent.ip = NoIP /\ Absent.prog = "none" /\ Absent.fin = FALSE /\ Absent.live = FALSE
    BY ValueTypes
  <2>6. AgesOf(s)'
    BY <1>1, <1>7, <2>5 DEF AgesOf
  <2>7. AnnotationsOf(s)'
    BY <1>1, <1>4, <1>7, <2>3, <2>4, <2>5 DEF AnnotationsOf
  <2>8. MarksOf(s)'
    <3>1. Cleared(s) => Cleared(s)'
      BY <1>1, <1>4 DEF Cleared
    <3>2. Marked(tomb'[s]) => tomb'[s] = tomb[s] /\ tomb'[s] # Absent
      BY <1>7, <2>5 DEF Marked
    <3> QED BY <1>1, <1>4, <2>3, <3>1, <3>2 DEF MarksOf
  <2>9. HeldOf(s)'
    BY <1>1, <1>4 DEF HeldOf
  <2>10. ASSUME NEW t \in Service
         PROVE  AgesOf(t)' /\ AnnotationsOf(t)' /\ MarksOf(t)' /\ HeldOf(t)'
    BY <2>2, <2>6, <2>7, <2>8, <2>9, OthersKeep
  <2>11. ASSUME NEW q \in Worker, w'[q].pc # "idle"
         PROVE  CopyOf(q)' /\ WorkOf(q)' /\ DeferredOf(q)'
    <3>1. CASE q = p
      <4>1. DeferredOf(p)'
        BY <1>6, <1>9, <2>11, <3>1, IdleType DEF DeferredOf
      <4> QED BY <1>6, <2>1, <2>11, <3>1, <4>1
    <3>2. CASE q # p
      <4>1. w'[q] = w[q] /\ w'[q].key # s
        BY <1>1, <1>6, <3>2
      <4>2. CopyOf(q)' /\ WorkOf(q)'
        BY <2>2, <2>11, <4>1, OtherWorkersKeep
      <4>3. DeferredOf(q)'
        BY <1>1, <2>11, <4>1 DEF CInv, DeferredOf
      <4> QED BY <4>2, <4>3
    <3> QED BY <3>1, <3>2
  <2> QED BY <1>8, <2>10, <2>11 DEF CInv
<1>10. ASSUME NEW obj \in ServiceObj, NEW gone \in BOOLEAN, v = Begin(p, s, obj, gone), v # Idle
       PROVE  /\ v.key = s /\ v.obj = obj /\ v.gone = gone /\ v.ip = obj.ip
              /\ v.adopt => ~ Over(obj) /\ obj.ip # NoIP
              /\ Over(obj) => v.pc = "secret" /\ hasFloatingIPRecord(obj)
              /\ ~ Over(obj) => v.pc = "recover"
  <2>1. Branch(obj) # "idle"
    BY <1>10 DEF Begin
  <2>2. v = [Idle EXCEPT !.pc = Branch(obj), !.key = s, !.obj = obj, !.gone = gone, !.ip = obj.ip,
                         !.adopt = ~ obj.del /\ obj.lb /\ obj.ip # NoIP]
    BY <1>10, <2>1 DEF Begin
  <2>3. /\ v.key = s /\ v.obj = obj /\ v.gone = gone /\ v.ip = obj.ip /\ v.pc = Branch(obj)
        /\ v.adopt = (~ obj.del /\ obj.lb /\ obj.ip # NoIP)
    BY <2>2 DEF Idle
  <2>4. /\ Over(obj) => Branch(obj) = "secret" /\ hasFloatingIPRecord(obj)
        /\ ~ Over(obj) => Branch(obj) = "recover"
    BY <2>1 DEF Branch, Over
  <2> QED BY <2>3, <2>4 DEF Over
<1>11. CASE cache[s].live /\ tomb' = [tomb EXCEPT ![s] = Absent] /\ w' = [w EXCEPT ![p] = Begin(p, s, cache[s], FALSE)]
  <2>1. v = Begin(p, s, cache[s], FALSE) /\ tomb'[s] = Absent /\ cache[s] \in ServiceObj
    BY <1>6, <1>11 DEF LInv, Workers, Objects
  <2>2. CASE v # Idle
    <3>1. /\ v.key = s /\ v.obj = cache[s] /\ ~ v.gone /\ v.ip = cache[s].ip
          /\ v.adopt => ~ Over(cache[s]) /\ cache[s].ip # NoIP
          /\ Over(cache[s]) => v.pc = "secret" /\ hasFloatingIPRecord(cache[s])
          /\ ~ Over(cache[s]) => v.pc = "recover"
      BY <1>10, <2>1, <2>2
    <3>2. CopyOf(p)'
      <4>1. v.pc \in CleanupPC \cup AllocPC /\ (v.pc \in CleanupPC => Over(cache[s])) /\ v.pc \notin VanishPC
            /\ (v.pc \in AllocPC => ~ Over(cache[s]))
        BY <3>1 DEF CleanupPC, AllocPC, VanishPC
      <4>2. /\ cache[s].live /\ cache[s].uid # 0 /\ cache[s].uid <= born[s] /\ cache[s].uid \in Nat
            /\ svc[s].ip # NoIP => cache[s].uid = svc[s].uid
        BY <1>1, <1>11, ValueTypes DEF AgesOf, AnnotationsOf
      <4>3. /\ w'[p].pc = v.pc /\ w'[p].key = s /\ w'[p].obj = cache[s] /\ ~ w'[p].gone
            /\ svc' = svc /\ cache' = cache /\ born' = born
        BY <1>1, <1>6, <3>1
      <4> QED BY <4>1, <4>2, <4>3 DEF CopyOf
    <3>3. WorkOf(p)'
      <4>1. v.pc \in {"secret", "recover"} /\ (v.pc \in CleanupPC => v.pc = "secret") /\ v.pc \notin HolderPC
        BY <3>1 DEF CleanupPC, HolderPC
      <4>2. v.pc = "recover" /\ v.adopt => s \in claim[v.ip]
        BY <1>1, <3>1 DEF AnnotationsOf, Serving
      <4>3. v.pc = "secret" =>
               /\ v.ip # NoIP => \A a \in Addr : s \in claim[a] => a = v.ip
               /\ Marked(v.obj) => \A a \in Addr : s \notin claim[a]
               /\ hasFloatingIPRecord(v.obj)
        BY <1>1, <1>4, <3>1 DEF AnnotationsOf, MarksOf
      <4> QED BY <1>1, <1>6, <3>1, <4>1, <4>2, <4>3 DEF WorkOf
    <3> QED BY <1>9, <1>11, <2>1, <3>1, <3>2, <3>3
  <2> QED BY <1>9, <2>2
<1>12. CASE /\ ~ cache[s].live /\ tomb' = tomb
            /\ w' = [w EXCEPT ![p] = IF tomb[s] = Absent THEN Idle
                                     ELSE Begin(p, s, [tomb[s] EXCEPT !.del = TRUE], TRUE)]
  <2> DEFINE obj == [tomb[s] EXCEPT !.del = TRUE]
  <2>1. v = IF tomb[s] = Absent THEN Idle ELSE Begin(p, s, obj, TRUE)
    BY <1>6, <1>12 DEF LInv, Workers
  <2>2. /\ obj \in ServiceObj /\ Over(obj) /\ obj.ip = tomb[s].ip /\ obj.uid = tomb[s].uid /\ obj.live = tomb[s].live
        /\ Marked(obj) <=> Marked(tomb[s])
    <3>1. /\ obj \in ServiceObj /\ obj.del = TRUE /\ obj.ip = tomb[s].ip /\ obj.uid = tomb[s].uid
          /\ obj.live = tomb[s].live /\ obj.prog = tomb[s].prog /\ obj.fin = tomb[s].fin
      <4>1. tomb[s] \in ServiceObj
        BY DEF LInv, Objects
      <4> QED BY <4>1 DEF ServiceObj
    <3> HIDE DEF obj
    <3> QED BY <3>1 DEF Over, Marked
  <2> HIDE DEF obj
  <2>3. CASE v # Idle
    <3>1. tomb[s] # Absent /\ tomb[s].live
      BY <1>1, <2>1, <2>3 DEF AgesOf
    <3>2. /\ v.key = s /\ v.obj = obj /\ v.gone = TRUE /\ v.ip = obj.ip
          /\ v.pc = "secret" /\ hasFloatingIPRecord(obj)
      BY <1>10, <2>1, <2>2, <2>3, <3>1
    <3>3. cache[s].ip = NoIP /\ svc[s].ip = NoIP
      BY <1>1, <1>12, ValueTypes DEF AgesOf, AnnotationsOf
    <3>4. CopyOf(p)'
      BY <1>1, <1>6, <1>12, <2>2, <3>1, <3>2, <3>3 DEF CopyOf, AgesOf, CleanupPC, AllocPC, VanishPC
    <3>5. WorkOf(p)'
      <4>1. obj.ip # NoIP => \A a \in Addr : s \in claim[a] => a = obj.ip
        BY <1>1, <2>2 DEF AnnotationsOf
      <4>2. Marked(obj) => \A a \in Addr : s \notin claim[a]
        BY <1>1, <1>4, <2>2 DEF MarksOf
      <4> QED BY <1>1, <1>6, <3>2, <4>1, <4>2 DEF WorkOf, HolderPC
    <3> QED BY <1>9, <3>2, <3>4, <3>5
  <2> QED BY <1>9, <2>3
<1> QED BY <1>11, <1>12 DEF reconcile

-----------------------------------------------------------------------------
(* The informer and the users                                              *)

\* A step that no worker takes: what is left to show is about the Service and
\* the worker that has it.
LEMMA OutsideKeeps ==
  ASSUME LInv, LInv', CInv, NEW s \in Service, Frame(s), UNCHANGED <<w, claim, adv, pool, case>>,
         AgesOf(s)', AnnotationsOf(s)', MarksOf(s)', HeldOf(s)',
         \A q \in Worker : w[q].key = s /\ w[q].pc # "idle" => CopyOf(q)' /\ WorkOf(q)'
  PROVE  CInv'
<1>1. Backed' /\ Grouped'
  BY DEF CInv, Backed, Selector, Grouped
<1>2. ASSUME NEW t \in Service
      PROVE  AgesOf(t)' /\ AnnotationsOf(t)' /\ MarksOf(t)' /\ HeldOf(t)'
  BY OthersKeep
<1>3. ASSUME NEW q \in Worker, w'[q].pc # "idle"
      PROVE  CopyOf(q)' /\ WorkOf(q)' /\ DeferredOf(q)'
  <2>1. DeferredOf(q)'
    BY <1>3 DEF CInv, DeferredOf
  <2>2. CASE w[q].key = s
    BY <1>3, <2>1, <2>2
  <2>3. CASE w[q].key # s
    <3>1. w'[q].key # s
      BY <2>3
    <3> QED BY <1>3, <2>1, <3>1, OtherWorkersKeep
  <2> QED BY <2>2, <2>3
<1> QED BY <1>1, <1>2, <1>3 DEF CInv

\* What runs for a Service is one worker.
LEMMA RunsOne ==
  ASSUME LInv, NEW s \in Service, NEW A, NEW B, Runs(s, A), Runs(s, B), A \cap B = {}
  PROVE  FALSE
BY LBAssumption DEF LInv, Workers, Keys, Runs

\* An event: the deletion of the object in the cache, or the object as it is.
LEMMA EventKeeps ==
  ASSUME LInv, LInv', CInv, NEW s \in Service, UNCHANGED case, Event(s)
  PROVE  CInv'
<1>1. /\ UNCHANGED <<svc, tomb, born, secret, case, adv, pool, claim, w>>
      /\ AgesOf(s) /\ AnnotationsOf(s) /\ MarksOf(s) /\ HeldOf(s)
  BY DEF Event, api, ipam, lb, CInv
<1>2. PICK new : cache' = [cache EXCEPT ![s] = new] /\ new = Delivered(s)
  BY DEF Event
<1>3. cache'[s] = new /\ \A t \in Service : t # s => cache'[t] = cache[t]
  BY <1>2 DEF LInv, Objects
<1>4. Frame(s)
  BY <1>1, <1>3 DEF Frame
<1>5. ASSUME NEW q \in Worker, w[q].key = s, w[q].pc # "idle"
      PROVE  CopyOf(q) /\ WorkOf(q) /\ WorkOf(q)' /\ w[q].obj.uid \in Nat
  <2>1. CopyOf(q) /\ WorkOf(q) /\ w[q].obj.uid \in Nat
    BY <1>5, WorkerValues DEF CInv
  <2> QED BY <1>1, <2>1 DEF WorkOf
<1>6. HeldOf(s)'
  BY <1>1 DEF HeldOf, RunsOn
<1>7. \A steps : Runs(s, steps)' <=> Runs(s, steps)
  BY <1>1 DEF Runs
<1>8. Cleared(s)' <=> Cleared(s)
  BY <1>1, <1>7 DEF Cleared
<1>9. /\ Absent.live = FALSE /\ Absent.ip = NoIP /\ Absent.prog = "none" /\ Absent.fin = FALSE
      /\ Absent.uid = 0 /\ Absent.req = FALSE /\ Over(Absent)
  BY ValueTypes DEF Over
<1>10. \A a : RunsOn(s, {"mark2", "strip"}, a)' <=> RunsOn(s, {"mark2", "strip"}, a)
  BY <1>1 DEF RunsOn
<1>11. CASE new = Absent
  <2>1. svc[s].live => cache[s].live /\ cache[s].uid # svc[s].uid
    BY <1>2, <1>9, <1>11 DEF Delivered
  <2>2. svc[s].ip = NoIP
    BY <1>1, <1>9, <2>1 DEF AgesOf, AnnotationsOf
  <2>3. Serving(s)' <=> Runs(s, AllocPC)
    BY <1>3, <1>7, <1>9, <1>11 DEF Serving
  <2>4. AgesOf(s)'
    BY <1>1, <1>3, <1>9, <1>11 DEF AgesOf
  <2>5. AnnotationsOf(s)'
    BY <1>1, <1>3, <1>7, <1>9, <1>11, <2>2 DEF AnnotationsOf
  <2>6. MarksOf(s)'
    BY <1>1, <1>3, <1>7, <1>8, <1>9, <1>11 DEF MarksOf, Marked
  <2>7. ASSUME NEW q \in Worker, w[q].key = s, w[q].pc # "idle"
        PROVE  CopyOf(q)' /\ WorkOf(q)'
    <3>1. CopyOf(q) /\ WorkOf(q)'
      BY <1>5, <2>7
    <3>2. w[q].obj.uid # svc[s].uid
      BY <1>1, <1>9, <2>1, <2>7, <3>1 DEF CopyOf, AgesOf
    <3> QED BY <1>1, <1>3, <1>9, <1>11, <2>2, <2>7, <3>1, <3>2 DEF CopyOf
  <2> QED BY <1>1, <1>4, <1>6, <2>4, <2>5, <2>6, <2>7, OutsideKeeps
<1>12. CASE new # Absent
  <2>1. /\ new = svc[s] /\ svc[s].live /\ svc[s].uid = born[s] /\ svc[s].uid # 0
        /\ cache[s].live => cache[s].uid = svc[s].uid
    BY <1>1, <1>2, <1>12 DEF Delivered, AgesOf
  <2>2. svc[s].uid \in Nat /\ tomb[s].uid \in Nat /\ born[s] \in Nat
    BY ValueTypes
  <2>3. AgesOf(s)'
    BY <1>1, <1>3, <2>1, <2>2 DEF AgesOf
  <2>4. svc[s].ip # NoIP /\ Serving(s)' => Serving(s)
    BY <1>1, <1>3, <1>7, <2>1 DEF Serving, AgesOf, AnnotationsOf
  <2>5. AnnotationsOf(s)'
    BY <1>1, <1>3, <1>7, <1>10, <2>1, <2>4 DEF AnnotationsOf
  <2>6. MarksOf(s)'
    <3>1. svc[s].prog # "none" => ~ svc[s].req
      BY <1>1, RunsOne DEF MarksOf
    <3>2. Marked(svc[s]) /\ (svc[s].fin \/ svc[s].ip # NoIP) => Over(svc[s])
      BY <1>1 DEF MarksOf, Marked
    <3>3. ASSUME Marked(svc[s])
          PROVE  ~ Runs(s, AllocPC) /\ Cleared(s)
      <4>1. PICK q \in Worker : w[q].key = s /\ w[q].pc \in {"release", "mark2", "strip", "unfinalize"}
        BY <1>1, <3>3 DEF MarksOf, Marked, Runs
      <4>2. ~ Runs(s, AllocPC)
        BY <4>1, RunsFor DEF AllocPC
      <4>3. WorkOf(q)
        BY <1>5, <4>1
      <4> QED BY <4>1, <4>2, <4>3 DEF WorkOf, Cleared, Runs
    <3> QED BY <1>1, <1>3, <1>7, <1>8, <2>1, <3>1, <3>2, <3>3 DEF MarksOf
  <2>7. ASSUME NEW q \in Worker, w[q].key = s, w[q].pc # "idle"
        PROVE  CopyOf(q)' /\ WorkOf(q)'
    <3>1. CopyOf(q) /\ WorkOf(q)'
      BY <1>5, <2>7
    <3>2. w[q].obj.uid = svc[s].uid => ~ w[q].gone /\ (Over(w[q].obj) => Over(svc[s]))
      BY <1>1, <2>7, <3>1 DEF CopyOf, AgesOf
    <3> QED BY <1>1, <1>3, <2>1, <2>7, <3>1, <3>2 DEF CopyOf
  <2> QED BY <1>1, <1>4, <1>6, <2>3, <2>5, <2>6, <2>7, OutsideKeeps
<1> QED BY <1>11, <1>12

\* A deletion that a relist brings: the tombstone is the object of the cache.
LEMMA RelistKeeps ==
  ASSUME LInv, LInv', CInv, NEW s \in Service, UNCHANGED case, DeletedFinalStateUnknown(s)
  PROVE  CInv'
<1>1. /\ UNCHANGED <<svc, born, secret, case, adv, pool, claim, w>>
      /\ cache[s].live /\ ~ svc[s].live
      /\ AgesOf(s) /\ AnnotationsOf(s) /\ MarksOf(s) /\ HeldOf(s)
  BY DEF DeletedFinalStateUnknown, api, ipam, lb, CInv
<1>2. cache'[s] = Absent /\ \A t \in Service : t # s => cache'[t] = cache[t]
  BY DEF DeletedFinalStateUnknown, LInv, Objects
<1>3. /\ \A t \in Service : t # s => tomb'[t] = tomb[t]
      /\ \/ tomb'[s] = tomb[s]
         \/ tomb'[s] = cache[s] /\ (cache[s].fin \/ cache[s].ip # NoIP \/ cache[s].req)
  BY DEF DeletedFinalStateUnknown, rememberTombstone, LInv, Objects
<1>4. Frame(s)
  BY <1>1, <1>2, <1>3 DEF Frame
<1>5. HeldOf(s)'
  BY <1>1 DEF HeldOf, RunsOn
<1>6. \A steps : Runs(s, steps)' <=> Runs(s, steps)
  BY <1>1 DEF Runs
<1>7. Cleared(s)' <=> Cleared(s)
  BY <1>1, <1>6 DEF Cleared
<1>8. /\ Absent.live = FALSE /\ Absent.ip = NoIP /\ Absent.prog = "none" /\ Absent.fin = FALSE
      /\ Absent.uid = 0 /\ Absent.req = FALSE
  BY ValueTypes
<1>9. svc[s] = Absent
  BY <1>1 DEF AgesOf
<1>10. AgesOf(s)'
  BY <1>1, <1>2, <1>3, <1>8, <1>9 DEF AgesOf
<1>11. AnnotationsOf(s)'
  <2>1. cache[s].ip # NoIP => ~ Runs(s, AllocPC)
    BY <1>1, <1>8, <1>9 DEF AgesOf, AnnotationsOf, Serving
  <2> QED BY <1>1, <1>2, <1>3, <1>6, <1>8, <1>9, <2>1 DEF AnnotationsOf
<1>12. MarksOf(s)'
  <2>1. ASSUME Marked(cache[s]), cache[s].fin \/ cache[s].ip # NoIP \/ cache[s].req
        PROVE  ~ Runs(s, AllocPC) /\ Cleared(s)
    BY <1>1, <2>1 DEF MarksOf, Marked
  <2>2. ~ Marked(Absent)
    BY <1>8 DEF Marked
  <2> QED BY <1>1, <1>2, <1>3, <1>6, <1>7, <1>8, <1>9, <2>1, <2>2 DEF MarksOf
<1>13. ASSUME NEW q \in Worker, w[q].key = s, w[q].pc # "idle"
       PROVE  CopyOf(q)' /\ WorkOf(q)'
  <2>1. CopyOf(q) /\ WorkOf(q)
    BY <1>13 DEF CInv
  <2>2. WorkOf(q)'
    BY <1>1, <2>1 DEF WorkOf
  <2>3. CopyOf(q)'
    BY <1>1, <1>2, <1>8, <1>9, <1>13, <2>1 DEF CopyOf
  <2> QED BY <2>2, <2>3
<1> QED BY <1>1, <1>4, <1>5, <1>10, <1>11, <1>12, <1>13, OutsideKeeps

\* A new object has a uid that no copy has.
LEMMA CreateKeeps ==
  ASSUME LInv, LInv', CInv, NEW s \in Service, UNCHANGED case, CreateService(s)
  PROVE  CInv'
<1> DEFINE new == [Absent EXCEPT !.live = TRUE, !.uid = born[s] + 1, !.lb = TRUE]
<1>1. /\ UNCHANGED <<cache, tomb, secret, case, adv, pool, claim, w>>
      /\ ~ svc[s].live
      /\ AgesOf(s) /\ AnnotationsOf(s) /\ MarksOf(s) /\ HeldOf(s)
  BY DEF CreateService, Quiet, ipam, lb, CInv
<1>2. born'[s] = born[s] + 1 /\ \A t \in Service : t # s => born'[t] = born[t]
  BY DEF CreateService, LInv, Objects
<1>3. svc'[s] = new /\ \A t \in Service : t # s => svc'[t] = svc[t]
  BY <1>2 DEF CreateService, LInv, Objects
<1>4. /\ new.live = TRUE /\ new.uid = born[s] + 1 /\ new.ip = NoIP /\ new.req = FALSE
      /\ new.prog = "none" /\ new.fin = FALSE /\ new.lab = FALSE
  BY DEF Absent
<1> HIDE DEF new
<1>5. Frame(s)
  BY <1>1, <1>2, <1>3 DEF Frame
<1>6. \A steps : Runs(s, steps)' <=> Runs(s, steps)
  BY <1>1 DEF Runs
<1>7. Cleared(s)' <=> Cleared(s)
  BY <1>1, <1>6 DEF Cleared
<1>8. Serving(s)' <=> Serving(s)
  BY <1>1, <1>6 DEF Serving
<1>9. svc[s].uid = 0 /\ svc[s].ip = NoIP /\ Absent.ip = NoIP
  BY <1>1, ValueTypes DEF AgesOf
<1>10. born[s] \in Nat /\ cache[s].uid \in Nat /\ tomb[s].uid \in Nat
  BY ValueTypes
<1>11. AgesOf(s)'
  BY <1>1, <1>2, <1>3, <1>4, <1>10 DEF AgesOf
<1>12. AnnotationsOf(s)'
  BY <1>1, <1>3, <1>4, <1>6, <1>8, <1>9 DEF AnnotationsOf, AgesOf
<1>13. MarksOf(s)'
  BY <1>1, <1>3, <1>4, <1>6, <1>7 DEF MarksOf
<1>14. HeldOf(s)'
  BY <1>1, <1>9, LBAssumption DEF HeldOf, RunsOn
<1>15. ASSUME NEW q \in Worker, w[q].key = s, w[q].pc # "idle"
       PROVE  CopyOf(q)' /\ WorkOf(q)'
  <2>1. CopyOf(q) /\ WorkOf(q) /\ w[q].obj.uid \in Nat
    BY <1>15, WorkerValues DEF CInv
  <2>2. WorkOf(q)'
    BY <1>1, <1>3, <1>4, <1>15, <2>1 DEF WorkOf
  <2>3. w[q].obj.uid # new.uid /\ w[q].obj.uid <= born'[s] /\ w[q].obj.uid # 0
    BY <1>2, <1>4, <1>10, <1>15, <2>1 DEF CopyOf
  <2>4. CopyOf(q)'
    BY <1>1, <1>3, <1>4, <1>15, <2>1, <2>3 DEF CopyOf
  <2> QED BY <2>2, <2>4
<1> QED BY <1>1, <1>5, <1>11, <1>12, <1>13, <1>14, <1>15, OutsideKeeps

\* A Service that is deleted or converted: what it had is to be taken back.
LEMMA EndOfServiceKeeps ==
  ASSUME LInv, LInv', CInv, NEW s \in Service, UNCHANGED case, DeleteService(s) \/ ConvertService(s)
  PROVE  CInv'
<1>1. /\ UNCHANGED <<cache, tomb, born, secret, case, adv, pool, claim, w>>
      /\ svc[s].live
      /\ AgesOf(s) /\ AnnotationsOf(s) /\ MarksOf(s) /\ HeldOf(s)
  BY DEF DeleteService, ConvertService, Write, Quiet, ipam, lb, CInv
<1>2. PICK new \in ServiceObj :
         /\ svc' = [svc EXCEPT ![s] = new]
         /\ \/ new = Absent /\ ~ svc[s].fin
            \/ /\ new.live /\ new.uid = svc[s].uid /\ new.fin = svc[s].fin
               /\ new.ip = svc[s].ip /\ new.req = svc[s].req /\ new.prog = svc[s].prog
               /\ Over(new)
  <2>1. svc[s] \in ServiceObj /\ Absent \in ServiceObj
    BY ObjectTypes DEF LInv, Objects
  <2>2. ASSUME NEW r \in ServiceObj, svc' = [svc EXCEPT ![s] = Settle(r)], r.live = svc[s].live, r.uid = svc[s].uid,
               r.fin = svc[s].fin, r.ip = svc[s].ip, r.req = svc[s].req, r.prog = svc[s].prog, Over(r)
        PROVE  \E new \in ServiceObj :
                  /\ svc' = [svc EXCEPT ![s] = new]
                  /\ \/ new = Absent /\ ~ svc[s].fin
                     \/ /\ new.live /\ new.uid = svc[s].uid /\ new.fin = svc[s].fin
                        /\ new.ip = svc[s].ip /\ new.req = svc[s].req /\ new.prog = svc[s].prog
                        /\ Over(new)
    <3>1. Settle(r) = r \/ (Settle(r) = Absent /\ ~ r.fin)
      BY DEF Settle
    <3> QED BY <1>1, <2>1, <2>2, <3>1
  <2>3. CASE DeleteService(s)
    <3> DEFINE r == [svc[s] EXCEPT !.del = TRUE]
    <3>1. svc' = [svc EXCEPT ![s] = Settle(r)]
      BY <2>3 DEF DeleteService
    <3>2. /\ r \in ServiceObj /\ r.live = svc[s].live /\ r.uid = svc[s].uid /\ r.fin = svc[s].fin
          /\ r.ip = svc[s].ip /\ r.req = svc[s].req /\ r.prog = svc[s].prog /\ r.del = TRUE
      BY <2>1 DEF ServiceObj
    <3> HIDE DEF r
    <3>3. Over(r)
      BY <3>2 DEF Over
    <3> QED BY <2>2, <3>1, <3>2, <3>3
  <2>4. CASE ConvertService(s)
    <3> DEFINE r == [svc[s] EXCEPT !.lb = FALSE]
    <3>1. svc' = [svc EXCEPT ![s] = Settle(r)]
      BY <2>4 DEF ConvertService, Write
    <3>2. /\ r \in ServiceObj /\ r.live = svc[s].live /\ r.uid = svc[s].uid /\ r.fin = svc[s].fin
          /\ r.ip = svc[s].ip /\ r.req = svc[s].req /\ r.prog = svc[s].prog /\ r.lb = FALSE
      BY <2>1 DEF ServiceObj
    <3> HIDE DEF r
    <3>3. Over(r)
      BY <3>2 DEF Over
    <3> QED BY <2>2, <3>1, <3>2, <3>3
  <2> QED BY <2>3, <2>4
<1>3. Later(svc[s], new)
  BY <1>1, <1>2 DEF Later
<1>4. AgesOf(s)' /\ svc'[s] = new
  BY <1>1, <1>2, <1>3, WriteAges
<1>5. Frame(s)
  BY <1>1, <1>2 DEF Frame, LInv, Objects
<1>6. \A steps : Runs(s, steps)' <=> Runs(s, steps)
  BY <1>1 DEF Runs
<1>7. Cleared(s)' <=> Cleared(s)
  BY <1>1, <1>6 DEF Cleared
<1>8. Serving(s)' <=> Serving(s)
  BY <1>1, <1>6 DEF Serving
<1>9. /\ Absent.live = FALSE /\ Absent.ip = NoIP /\ Absent.prog = "none" /\ Absent.fin = FALSE
      /\ Absent.uid = 0 /\ Absent.req = FALSE /\ NoIP \notin Addr
  BY ValueTypes
<1>10. \A a : RunsOn(s, {"mark2", "strip"}, a)' <=> RunsOn(s, {"mark2", "strip"}, a)
  BY <1>1 DEF RunsOn
<1>11. AnnotationsOf(s)'
  <2>1. new.ip # NoIP => new.ip = svc[s].ip /\ new.uid = svc[s].uid /\ new.fin = svc[s].fin
    BY <1>2, <1>9
  <2>2. ~ (new.live /\ ~ Over(new))
    BY <1>2, <1>9
  <2>3. svc[s].fin => new.uid = svc[s].uid /\ new.fin
    BY <1>2
  <2> QED BY <1>1, <1>4, <1>6, <1>8, <1>10, <2>1, <2>2, <2>3 DEF AnnotationsOf
<1>12. MarksOf(s)'
  <2>1. /\ new.req => svc[s].req
        /\ new.prog # "none" => svc[s].prog # "none" /\ Over(new)
        /\ new.fin /\ new.ip = NoIP => svc[s].fin /\ svc[s].ip = NoIP /\ Over(new)
    BY <1>2, <1>9
  <2> QED BY <1>1, <1>4, <1>6, <1>7, <2>1 DEF MarksOf
<1>13. HeldOf(s)'
  <2>1. ASSUME secret, NEW a \in Addr, svc[s].ip = a
        PROVE  new.ip = a
    BY <1>1, <1>2, <1>9, <2>1 DEF AnnotationsOf
  <2>2. \A a : RunsOn(s, HolderPC, a)' <=> RunsOn(s, HolderPC, a)
    BY <1>1 DEF RunsOn
  <2> QED BY <1>1, <1>4, <2>1, <2>2 DEF HeldOf
<1>14. ASSUME NEW q \in Worker, w[q].key = s, w[q].pc # "idle"
       PROVE  CopyOf(q)' /\ WorkOf(q)'
  <2>1. CopyOf(q) /\ WorkOf(q)
    BY <1>14 DEF CInv
  <2>2. new.ip = svc[s].ip \/ new.ip = NoIP
    BY <1>2, <1>9
  <2>3. CopyOf(q)'
    <3>1. w'[q] = w[q] /\ w[q].pc \in CleanupPC \cup AllocPC
      BY <1>1, <2>1 DEF CopyOf
    <3> QED BY <1>1, <1>2, <1>3, <1>14, <2>2, <3>1, WriteCopy
  <2>4. svc[s].prog = "none" => new.prog = "none"
    BY <1>2, <1>9
  <2>5. WorkOf(q)'
    BY <1>1, <1>4, <1>14, <2>1, <2>2, <2>4 DEF WorkOf
  <2> QED BY <2>3, <2>5
<1> QED BY <1>1, <1>4, <1>5, <1>11, <1>12, <1>13, <1>14, OutsideKeeps

\* The Secret goes, and with it what depends on it.
LEMMA RetireKeeps ==
  ASSUME LInv, CInv, UNCHANGED case, RetireProject
  PROVE  CInv'
<1>1. UNCHANGED <<svc, cache, tomb, born, case, adv, pool, claim, w>> /\ secret' = FALSE
  BY DEF RetireProject, Quiet, ipam, lb
<1>2. ASSUME NEW s \in Service
      PROVE  AgesOf(s)' /\ AnnotationsOf(s)' /\ MarksOf(s)' /\ HeldOf(s)'
  <2>1. AgesOf(s) /\ AnnotationsOf(s) /\ MarksOf(s) /\ HeldOf(s)
    BY DEF CInv
  <2>2. AgesOf(s)'
    BY <1>1, <2>1 DEF AgesOf
  <2>3. AnnotationsOf(s)'
    BY <1>1, <2>1 DEF AnnotationsOf, Serving, Runs, RunsOn
  <2>4. MarksOf(s)'
    BY <1>1, <2>1 DEF MarksOf, Cleared, Runs
  <2>5. HeldOf(s)'
    BY <1>1 DEF HeldOf
  <2> QED BY <2>2, <2>3, <2>4, <2>5
<1>3. ASSUME NEW q \in Worker, w'[q].pc # "idle"
      PROVE  CopyOf(q)' /\ WorkOf(q)' /\ DeferredOf(q)'
  <2>1. CopyOf(q) /\ WorkOf(q) /\ DeferredOf(q)
    BY <1>1, <1>3 DEF CInv
  <2>2. CopyOf(q)' /\ DeferredOf(q)'
    BY <1>1, <2>1 DEF CopyOf, DeferredOf
  <2>3. WorkOf(q)'
    BY <1>1, <2>1 DEF WorkOf
  <2> QED BY <2>2, <2>3
<1>4. Backed' /\ Grouped'
  BY <1>1 DEF CInv, Backed, Selector, Grouped
<1> QED BY <1>2, <1>3, <1>4 DEF CInv

-----------------------------------------------------------------------------
(* Calm behaviours: the theorems                                           *)

\* Nothing that the invariant speaks of changes.
LEMMA NothingKeeps ==
  ASSUME CInv, UNCHANGED <<svc, cache, tomb, born, secret, case, adv, pool, claim, w>>
  PROVE  CInv'
<1>1. ASSUME NEW s \in Service
      PROVE  AgesOf(s)' /\ AnnotationsOf(s)' /\ MarksOf(s)' /\ HeldOf(s)'
  <2>1. AgesOf(s) /\ AnnotationsOf(s) /\ MarksOf(s) /\ HeldOf(s)
    BY DEF CInv
  <2>2. AgesOf(s)'
    BY <2>1 DEF AgesOf
  <2>3. AnnotationsOf(s)'
    BY <2>1 DEF AnnotationsOf, Serving, Runs, RunsOn
  <2>4. MarksOf(s)'
    BY <2>1 DEF MarksOf, Cleared, Runs
  <2>5. HeldOf(s)'
    BY <2>1 DEF HeldOf, RunsOn
  <2> QED BY <2>2, <2>3, <2>4, <2>5
<1>2. ASSUME NEW q \in Worker, w'[q].pc # "idle"
      PROVE  CopyOf(q)' /\ WorkOf(q)' /\ DeferredOf(q)'
  BY <1>2 DEF CInv, CopyOf, WorkOf, DeferredOf
<1>3. Backed' /\ Grouped'
  BY DEF CInv, Backed, Selector, Grouped
<1> QED BY <1>1, <1>2, <1>3 DEF CInv

\* A worker that takes an allocation back after a failure is not calm.
LEMMA NoUndo ==
  ASSUME CInv, NEW p \in Worker
  PROVE  ~ (UndoCheck(p) \/ UndoAdvertisement(p) \/ UndoPool(p) \/ UndoRelease(p))
<1>1. w[p].pc # "idle" => w[p].pc \in CleanupPC \cup AllocPC
  BY DEF CInv, CopyOf
<1> QED BY <1>1 DEF At, UndoCheck, UndoAdvertisement, UndoPool, UndoRelease, CleanupPC, AllocPC

\* The calm steps of a worker.
LEMMA WorkerKeeps ==
  ASSUME LInv, LInv', CInv, NEW p \in Worker, UNCHANGED case, Calm,
         Step(p) \/ CreatePoolFails(p) \/ VanishedFails(p) \/ CallFails(p)
  PROVE  CInv'
<1>1. ~ (CreatePoolFails(p) \/ VanishedFails(p) \/ CallFails(p))
  BY CalmSpends DEF CreatePoolFails, VanishedFails, CallFails
<1>2. ~ (UndoCheck(p) \/ UndoAdvertisement(p) \/ UndoPool(p) \/ UndoRelease(p))
  BY NoUndo
<1>3. CASE \E s \in Service : reconcile(p, s)
  BY <1>3, BeginKeeps
<1>4. CASE ReadSecret(p) \/ LookupPending(p)
  BY <1>4, ReadSecretKeeps
<1>5. CASE lockAddress(p) \/ DecideShared(p)
  BY <1>5, DecideKeeps
<1>6. CASE TakesDown(p)
  BY <1>6, TakeDownKeeps
<1>7. CASE RecordDeleted(p) \/ RecordReleased(p) \/ StripAnnotations(p)
  BY <1>7, RecordKeeps
<1>8. CASE removeFinalizer(p) \/ abandonDeletion(p)
  BY <1>8, UnfinalizeKeeps
<1>9. CASE Release(p)
  BY <1>9, ReleaseKeeps
<1>10. CASE VanishedRelease(p)
  BY <1>10, VanishedReleaseKeeps
<1>11. CASE Recover(p)
  BY <1>11, RecoverKeeps
<1>12. CASE markAllocationPending(p)
  BY <1>12, MarkKeeps
<1>13. CASE RequestRefused(p)
  BY <1>13, RefusalKeeps
<1>14. CASE RequestFIP(p)
  BY <1>14, RequestKeeps
<1>15. CASE CreateIPAddressPool(p) \/ CreateL2Advertisement(p)
  BY <1>15, BuildUpKeeps
<1>16. CASE Annotate(p)
  BY <1>16, AnnotateKeeps
<1> QED BY <1>1, <1>2, <1>3, <1>4, <1>5, <1>6, <1>7, <1>8, <1>9, <1>10, <1>11, <1>12, <1>13, <1>14,
           <1>15, <1>16 DEF Step, TakesDown

\* Every calm step.
LEMMA CalmKeeps ==
  ASSUME LInv, LInv', CInv, [Next]_vars, [Calm]_vars
  PROVE  CInv'
<1>1. CASE UNCHANGED vars
  BY <1>1, NothingKeeps DEF vars
<1>2. CASE Next /\ Calm
  <2>1. UNCHANGED case
    BY <1>2 DEF Next
  <2>2. CASE \E p \in Worker : Step(p) \/ CreatePoolFails(p) \/ VanishedFails(p) \/ CallFails(p)
    BY <1>2, <2>1, <2>2, WorkerKeeps
  <2>3. ASSUME NEW s \in Service,
               \/ Event(s) \/ DeletedFinalStateUnknown(s) \/ Resync(s)
               \/ CreateService(s) \/ DeleteService(s) \/ ConvertService(s)
               \/ ForceFinalizer(s) \/ EditAnnotation(s)
        PROVE  CInv'
    <3>1. ~ (ForceFinalizer(s) \/ EditAnnotation(s))
      BY <1>2, CalmSpends DEF ForceFinalizer, EditAnnotation
    <3>2. CASE Event(s)
      BY <2>1, <3>2, EventKeeps
    <3>3. CASE DeletedFinalStateUnknown(s)
      BY <2>1, <3>3, RelistKeeps
    <3>4. CASE Resync(s)
      BY <2>1, <3>4, NothingKeeps DEF Resync, api, ipam, lb
    <3>5. CASE CreateService(s)
      BY <2>1, <3>5, CreateKeeps
    <3>6. CASE DeleteService(s) \/ ConvertService(s)
      BY <2>1, <3>6, EndOfServiceKeeps
    <3> QED BY <2>3, <3>1, <3>2, <3>3, <3>4, <3>5, <3>6
  <2>4. CASE RetireProject
    BY <2>1, <2>4, RetireKeeps
  <2>5. CASE Restart
    BY <1>2, <2>5, CalmSpends DEF Restart
  <2> QED BY <1>2, <2>2, <2>3, <2>4, <2>5 DEF Next
<1> QED BY <1>1, <1>2

\* Before the first Service there is nothing to keep.
LEMMA CalmInit ==
  ASSUME Init
  PROVE  CInv
<1>1. /\ Absent.live = FALSE /\ Absent.ip = NoIP /\ Absent.prog = "none" /\ Absent.fin = FALSE
      /\ Absent.uid = 0 /\ Absent.req = FALSE /\ Idle.pc = "idle" /\ NoPool.has = FALSE /\ NoPool.ns = {}
  BY IdleType DEF Absent, NoPool
<1>2. /\ \A s \in Service : svc[s] = Absent /\ cache[s] = Absent /\ tomb[s] = Absent
      /\ \A p \in Worker : w[p] = Idle
      /\ \A a \in Addr : claim[a] = {} /\ pool[a] = NoPool /\ adv[a] = FALSE
  BY DEF Init
<1>3. ASSUME NEW s \in Service
      PROVE  AgesOf(s) /\ AnnotationsOf(s) /\ MarksOf(s) /\ HeldOf(s)
  <2>1. svc[s] = Absent /\ cache[s] = Absent /\ tomb[s] = Absent
    BY <1>2
  <2>2. ~ Marked(Absent)
    BY <1>1 DEF Marked
  <2> QED BY <1>1, <1>2, <2>1, <2>2 DEF AgesOf, AnnotationsOf, MarksOf, HeldOf
<1>4. \A p \in Worker : w[p].pc = "idle"
  BY <1>1, <1>2
<1>5. Backed /\ Grouped
  BY <1>1, <1>2 DEF Backed, Grouped
<1> QED BY <1>3, <1>4, <1>5 DEF CInv

\* The invariant of calm behaviours, over every interleaving of the workers
\* with the informer and the users: names used again, Services converted and
\* deleted at any step, deletions learnt from a relist, resyncs with a stale
\* cache, the Secret removed.
THEOREM CalmInvariance == Spec /\ [][Calm]_vars => [](LInv /\ CInv)
<1>1. Init => LInv /\ CInv
  BY InitTypes, CalmInit
<1>2. LInv /\ CInv /\ [Next]_vars /\ [Calm]_vars => (LInv /\ CInv)'
  BY NextTypes, CalmKeeps
<1> QED BY <1>1, <1>2, PTL DEF Spec

\* Nothing on the load balancer outlives the last claim on its address.
NoOrphan == \A a \in Addr : adv[a] \/ pool[a].has => claim[a] # {}

\* A cleanup withdraws and deletes before it releases, and no allocation builds
\* on an address that it lost: in a calm behaviour an address that is
\* advertised, or that has a pool, is claimed.
THEOREM AdvertisedWhileCalm == Spec /\ [][Calm]_vars => [](NoOrphan /\ AdvertisedIsClaimed)
<1>1. CInv => NoOrphan
  BY DEF CInv, Backed, NoOrphan
<1>2. NoOrphan => AdvertisedIsClaimed
  BY DEF NoOrphan, Unclaimed, AdvertisedIsClaimed
<1> QED BY <1>1, <1>2, CalmInvariance, PTL

\* At rest, with the Secret there, the annotations record the claims, without
\* exception.
ClaimsRecorded ==
    AtRest /\ secret => \A a \in Addr, s \in Service : s \in claim[a] <=> svc[s].live /\ svc[s].ip = a

\* With no worker at work there is no exception to what annotations and claims say.
LEMMA RestRecords ==
  ASSUME LInv, CInv
  PROVE  ClaimsRecorded
<1>1. SUFFICES ASSUME AtRest, secret, NEW a \in Addr, NEW s \in Service
               PROVE  s \in claim[a] <=> svc[s].live /\ svc[s].ip = a
  BY DEF ClaimsRecorded
<1>2. AgesOf(s) /\ AnnotationsOf(s) /\ HeldOf(s)
  BY DEF CInv
<1>3. \A q \in Worker : w[q].pc = "idle" /\ w[q].key # s
  BY <1>1, IdleType, LBAssumption DEF AtRest, At, LInv, Workers, Busy
<1>4. \A steps, b : ~ RunsOn(s, steps, b)
  BY <1>3 DEF RunsOn
<1>5. s \in claim[a] => svc[s].ip = a
  BY <1>1, <1>2, <1>4 DEF HeldOf
<1>6. svc[s].ip = a => svc[s].live /\ s \in claim[a]
  BY <1>2, <1>4, ValueTypes DEF AnnotationsOf, AgesOf
<1> QED BY <1>5, <1>6

\* No allocation or cleanup that raced a deletion, a conversion or a name used
\* again leaks a claim, or leaves an annotation without one.
THEOREM ClaimsSettleWhileCalm == Spec /\ [][Calm]_vars => [](ClaimsRecorded /\ SettledClaims)
<1>1. LInv /\ CInv => ClaimsRecorded
  BY RestRecords
<1>2. ClaimsRecorded => SettledClaims
  BY DEF ClaimsRecorded, SettledClaims
<1> QED BY <1>1, <1>2, CalmInvariance, PTL

\* At rest, with the Secret there, a pool or an advertisement is there for a
\* Service that records its address, without exception.
PoolsRecorded ==
    AtRest /\ secret =>
        \A a \in Addr : pool[a].has \/ adv[a] => \E s \in Service : svc[s].live /\ svc[s].ip = a

\* The last Service that uses an address takes its pool and its advertisement
\* down: at rest what is left is a live Service's.
THEOREM PoolsSettleWhileCalm == Spec /\ [][Calm]_vars => [](PoolsRecorded /\ SettledPools)
<1>1. LInv /\ CInv => PoolsRecorded
  <2> SUFFICES ASSUME LInv, CInv
               PROVE  PoolsRecorded
    OBVIOUS
  <2>1. ClaimsRecorded /\ Backed /\ claim \in [Addr -> SUBSET Service]
    BY RestRecords DEF CInv, LInv, Objects
  <2> QED BY <2>1 DEF ClaimsRecorded, Backed, PoolsRecorded
<1>2. PoolsRecorded => SettledPools
  BY DEF PoolsRecorded, SettledPools, Needed
<1> QED BY <1>1, <1>2, CalmInvariance, PTL

=============================================================================
