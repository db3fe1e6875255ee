----------------------------- MODULE ClusterAPI ------------------------------
(***************************************************************************)
(* The Kubernetes side of the manager: the FloatingIP and FloatingIPPool   *)
(* objects in the API server, the admission webhook in front of them, the  *)
(* informer caches that follow them, and the users who write them.  One    *)
(* pool; the FloatingIPs are named by Owner, which is also the name under  *)
(* which the allocator records their claims.                               *)
(*                                                                         *)
(* A resource version is compared only for equality with the version a     *)
(* copy was read at, so it is a flag: fresh while the object has not been  *)
(* written since the copy was taken.  Every write clears the flags of all  *)
(* copies of the object; a write of identical content is no write, as in   *)
(* the API server.                                                         *)
(***************************************************************************)
EXTENDS IPAMOps

CONSTANTS Worker,       \* the FloatingIP controller's worker goroutines
          Configs,      \* the ipConfigs the pool may be given
          Excludes,     \* the pool's exclude list
          PoolAtStart,  \* does the pool exist, synced, in the initial state?
          MaxCreate,    \* bound: FloatingIPs created
          MaxRace,      \* bound: creations admitted on an outdated view
          MaxLabel,     \* bound: user edits of a FloatingIP's labels
          MaxRepin,     \* bound: user edits of a FloatingIP's spec.ipAddr
          MaxDelete,    \* bound: FloatingIPs deleted
          MaxFault,     \* bound: API calls that fail or lose their response
          MaxRestart,   \* bound: manager restarts
          MaxPoolOp     \* bound: creations, edits and deletions of the pool

ASSUME ClusterAssumption ==
    /\ Configs \subseteq Config
    /\ \E c \in Configs : RefreshOK(c, Excludes)
    /\ PoolAtStart \in BOOLEAN
    /\ {MaxCreate, MaxRace, MaxLabel, MaxRepin, MaxDelete, MaxFault, MaxRestart, MaxPoolOp} \subseteq Nat

VARIABLES fip,       \* FloatingIP objects in the API server
          pool,      \* the FloatingIPPool object
          cache,     \* the FloatingIP informer's cache
          cfresh,    \* is the cached copy of f the current version?
          pcache,    \* the pool informer's cache (spec only: nobody reads more)
          pfresh,    \* has the informer seen the pool's current version?
          pgone,     \* a deletion of the pool the informer has not seen yet
          delEvt,    \* a pool deletion the event handler has not handled yet
          upEvt,     \* a pool upsert waiting behind that deletion
          queue,     \* the FloatingIP work queue: its dirty keys
          poolQ,     \* is the pool's key in the pool work queue?
          workers,   \* the FloatingIP controller's workers
          pworker,   \* the pool controller's only worker
          ipam,      \* the pool's subnet in the in-memory allocator
          started,   \* pool initial sync done: FloatingIP workers run
          budget     \* what is left of the bounds

apiVars      == <<fip, pool>>
informerVars == <<cache, cfresh, pcache, pfresh, pgone, delEvt, upEvt>>
queueVars    == <<queue, poolQ>>
managerVars  == <<workers, pworker, ipam, started>>
vars         == <<apiVars, informerVars, queueVars, managerVars, budget>>

-----------------------------------------------------------------------------
(* Objects                                                                 *)

IPOrNone == Addr \cup {NoIP}

FloatingIP == [live     : BOOLEAN,   \* does the object exist?
               spec     : IPOrNone,  \* spec.ipAddr
               status   : IPOrNone,  \* status.ipAddr
               state    : {"Pending", "Allocated", "Error"},
               label    : BOOLEAN,   \* has the cluster-name label
               assigned : BOOLEAN,   \* status.assigned is set
               fin      : BOOLEAN,   \* has our finalizer
               del      : BOOLEAN]   \* has a deletion timestamp

Gone == [live |-> FALSE, spec |-> NoIP, status |-> NoIP, state |-> "Pending",
         label |-> FALSE, assigned |-> FALSE, fin |-> FALSE, del |-> FALSE]

FloatingIPPool == [live  : BOOLEAN,
                   cfg   : Configs,
                   alloc : SUBSET Addr,   \* keys of status.allocated
                   avail : Int]           \* status.available

\* The workers that hold a copy of f's object.
Stale(ws, f) == [w \in Worker |-> IF ws[w].key = f THEN [ws[w] EXCEPT !.fresh = FALSE] ELSE ws[w]]

\* A write of f's object by an actor that leaves the workers as ws.
PutFip(f, obj, ws) ==
    /\ fip' = [fip EXCEPT ![f] = obj]
    /\ IF obj = fip[f]
       THEN workers' = ws /\ UNCHANGED cfresh
       ELSE workers' = Stale(ws, f) /\ cfresh' = [cfresh EXCEPT ![f] = FALSE]

PutPool(obj) == pool' = obj /\ pfresh' = (pfresh /\ obj = pool)

Spend(what) == budget[what] > 0 /\ budget' = [budget EXCEPT ![what] = @ - 1]

-----------------------------------------------------------------------------
(* The admission webhook (CREATE and UPDATE of the main resource; status   *)
(* writes and deletions do not pass it).  Decision and write are one step, *)
(* as long as the per-pool lock and the reservation on the address keep a  *)
(* second claim out until the first is persisted; UserCreateRaced is the   *)
(* creation for which they do not (the reservation expired, or another     *)
(* replica of the webhook answered).  What the reservation refuses in      *)
(* addition is a failed call (MaxFault).                                   *)

\* In the subnet and between start and end.
InPoolRange(a) == /\ a \in pool.cfg.lo .. pool.cfg.hi
                  /\ a \in pool.cfg.start .. pool.cfg.end

\* Does g's object hold address a against others?  Terminating objects do;
\* an errored one without a status address does not.
HoldsIP(g, a) == /\ fip[g].live
                 /\ fip[g].spec = a
                 /\ fip[g].del \/ ~ (fip[g].state = "Error" /\ fip[g].status = NoIP)

checkIPNotInUse(f, a) ==
    /\ a \notin pool.alloc
    /\ \/ fip[f].live /\ fip[f].spec = a
       \/ \A g \in Owner \ {f} : ~ HoldsIP(g, a)

\* May f's object be written with this spec?
validateFloatingIP(f, new) ==
    \/ new.del
    \/ /\ pool.live
       /\ IF new.spec # NoIP
          THEN /\ InPoolRange(new.spec)
               /\ new.spec \notin Excludes
               /\ fip[f].status = new.spec \/ checkIPNotInUse(f, new.spec)
          ELSE pool.avail > 0

\* May the pool be given this ipConfig?  The broadcast address as the end of
\* an IPv4 range, which buildSubnet refuses, is not looked at.
validateFloatingIPPool(c) ==
    /\ c.start \in c.lo .. c.hi
    /\ c.end \in c.lo .. c.hi
    /\ c.start <= c.end
    /\ ValidateRangeSize(c)
    /\ \A a \in Excludes : c.start <= a /\ a <= c.end

-----------------------------------------------------------------------------
(* Users: they create, edit and delete FloatingIPs, and manage the pool.   *)

NewFip(a) == [Gone EXCEPT !.live = TRUE, !.spec = a]

UserCreate(f, a) ==
    /\ ~ fip[f].live
    /\ validateFloatingIP(f, NewFip(a))
    /\ Spend("create")
    /\ PutFip(f, NewFip(a), workers)
    /\ UNCHANGED <<pool, cache, pcache, pfresh, pgone, delEvt, upEvt, queueVars, pworker, ipam, started>>

\* Admitted although the address, or the last one, is taken by now.
UserCreateRaced(f, a) ==
    /\ ~ fip[f].live
    /\ ~ validateFloatingIP(f, NewFip(a))
    /\ pool.live
    /\ a # NoIP => InPoolRange(a) /\ a \notin Excludes
    /\ budget.create > 0 /\ budget.race > 0
    /\ budget' = [budget EXCEPT !.create = @ - 1, !.race = @ - 1]
    /\ PutFip(f, NewFip(a), workers)
    /\ UNCHANGED <<pool, cache, pcache, pfresh, pgone, delEvt, upEvt, queueVars, pworker, ipam, started>>

\* A label change, or another address in the spec.
UserEdit(f, new) ==
    /\ fip[f].live
    /\ new # fip[f]
    /\ validateFloatingIP(f, new)
    /\ PutFip(f, new, workers)
    /\ UNCHANGED <<pool, cache, pcache, pfresh, pgone, delEvt, upEvt, queueVars, pworker, ipam, started>>

UserLabel(f) == Spend("label") /\ UserEdit(f, [fip[f] EXCEPT !.label = ~ @])

UserRepin(f, a) == Spend("repin") /\ UserEdit(f, [fip[f] EXCEPT !.spec = a])

\* An object without our finalizer disappears at once.
UserDelete(f) ==
    /\ fip[f].live /\ ~ fip[f].del
    /\ Spend("delete")
    /\ PutFip(f, IF fip[f].fin THEN [fip[f] EXCEPT !.del = TRUE] ELSE Gone, workers)
    /\ UNCHANGED <<pool, cache, pcache, pfresh, pgone, delEvt, upEvt, queueVars, pworker, ipam, started>>

AdminCreatePool(c) ==
    /\ ~ pool.live
    /\ validateFloatingIPPool(c)
    /\ Spend("poolop")
    /\ PutPool([live |-> TRUE, cfg |-> c, alloc |-> {}, avail |-> 0])
    /\ UNCHANGED <<fip, cache, cfresh, pcache, pgone, delEvt, upEvt, queueVars, managerVars>>

AdminEditPool(c) ==
    /\ pool.live /\ c # pool.cfg
    /\ validateFloatingIPPool(c)
    /\ Spend("poolop")
    /\ PutPool([pool EXCEPT !.cfg = c])
    /\ UNCHANGED <<fip, cache, cfresh, pcache, pgone, delEvt, upEvt, queueVars, managerVars>>

\* The pool has no finalizer.  One unseen deletion at a time.
AdminDeletePool ==
    /\ pool.live /\ ~ pgone
    /\ Spend("poolop")
    /\ PutPool([pool EXCEPT !.live = FALSE, !.alloc = {}, !.avail = 0])
    /\ pgone' = TRUE
    /\ UNCHANGED <<fip, cache, cfresh, pcache, delEvt, upEvt, queueVars, managerVars>>

User ==
    \/ \E f \in Owner :
          \/ \E a \in IPOrNone : UserCreate(f, a) \/ UserCreateRaced(f, a)
          \/ UserLabel(f)
          \/ \E a \in Addr : UserRepin(f, a)
          \/ UserDelete(f)
    \/ \E c \in Configs : AdminCreatePool(c) \/ AdminEditPool(c)
    \/ AdminDeletePool

-----------------------------------------------------------------------------
(* Informers: the watch brings the cache up to date, in its own time, and  *)
(* the event handlers enqueue the key.                                     *)

\* Add and Update enqueue; the controller registers no Delete handler.
InformFip(f) ==
    /\ ~ cfresh[f]
    /\ cache' = [cache EXCEPT ![f] = fip[f]]
    /\ cfresh' = [cfresh EXCEPT ![f] = TRUE]
    /\ queue' = IF fip[f].live THEN queue \cup {f} ELSE queue
    /\ UNCHANGED <<apiVars, pcache, pfresh, pgone, delEvt, upEvt, poolQ, managerVars, budget>>

InformPool ==
    /\ ~ pfresh /\ pool.live /\ ~ pgone
    /\ pfresh' = TRUE
    /\ pcache' = [live |-> TRUE, cfg |-> pool.cfg]
    /\ IF delEvt
       THEN upEvt' = TRUE /\ UNCHANGED poolQ
       ELSE poolQ' = TRUE /\ UNCHANGED upEvt
    /\ UNCHANGED <<apiVars, cache, cfresh, pgone, delEvt, queue, managerVars, budget>>

InformPoolGone ==
    /\ pgone /\ ~ delEvt
    /\ pgone' = FALSE
    /\ pcache' = [pcache EXCEPT !.live = FALSE]
    /\ delEvt' = TRUE
    /\ UNCHANGED <<apiVars, cache, cfresh, pfresh, upEvt, queueVars, managerVars, budget>>

Informers == InformPool \/ InformPoolGone \/ \E f \in Owner : InformFip(f)
=============================================================================
