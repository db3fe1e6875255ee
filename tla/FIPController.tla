---------------------------- MODULE FIPController ----------------------------
(***************************************************************************)
(* pkg/controller/floatingip: the workers that grant and release           *)
(* addresses.  A worker takes a key from the queue, reads the object from  *)
(* the informer cache and runs syncHandler.  Everything up to the first    *)
(* API call is local and is one step (the copy it works on is as stale as  *)
(* the cache is); after that every API call is a step of its own, together *)
(* with the local work that follows it, so that other workers, users, the  *)
(* pool controller and crashes come in between.                            *)
(*                                                                         *)
(* Left out: the wording of conditions, the display names, the service     *)
(* list, and the quota object's status, whose two writes appear here as    *)
(* calls that may fail.                                                    *)
(***************************************************************************)
EXTENDS ClusterAPI

Idle == [pc |-> "idle", key |-> NoOwner, ip |-> NoIP, fresh |-> FALSE]

WorkerState == [pc    : {"idle", "addfin", "error", "spec", "specerr", "status", "pool",
                         "assign", "unassign", "release", "delpool", "rmfin"},
                key   : Owner \cup {NoOwner},
                ip    : IPOrNone,    \* allocatedIP, or ipToRelease
                fresh : BOOLEAN]     \* is the copy the current version?

\* Where the copy itself is written back, so its version matters.
WritesCopy == {"error", "spec", "release", "delpool", "rmfin"}

-----------------------------------------------------------------------------
(* The work queue.  A key is never processed by two workers at once; a key *)
(* that becomes dirty while it is processed is run again.                  *)

TakeKey(w, f) ==
    /\ started
    /\ workers[w].pc = "idle"
    /\ f \in queue
    /\ \A v \in Worker : workers[v].key # f
    /\ queue' = queue \ {f}

At(w, pc) == workers[w].pc = pc

\* The worker goes on to pc with the copy it has just read.
Enter(w, f, pc, a) ==
    workers' = [workers EXCEPT ![w] =
                   [pc |-> pc, key |-> f, ip |-> a, fresh |-> cfresh[f] /\ pc \in WritesCopy]]

\* The workers after w went on to pc, and after w finished.
Moved(w, pc) == [workers EXCEPT ![w] = [@ EXCEPT !.pc = pc, !.fresh = workers[w].fresh /\ pc \in WritesCopy]]
Finished(w)  == [workers EXCEPT ![w] = Idle]

\* An error puts the key back (AddRateLimited); success forgets it.
RequeueForgotten(w) == UNCHANGED queue
Requeue(w) == queue' = queue \cup {workers[w].key}

-----------------------------------------------------------------------------
(* syncHandler up to the first API call, by what the cached object says.   *)

Unaffected == UNCHANGED <<apiVars, informerVars, poolQ, pworker, started, budget>>

\* Gone from the cache, or terminating without our finalizer.
SyncNothing(w, f) ==
    /\ TakeKey(w, f)
    /\ ~ cache[f].live \/ (cache[f].del /\ ~ cache[f].fin)
    /\ Unaffected /\ UNCHANGED <<workers, ipam>>

SyncAddFinalizer(w, f) ==
    /\ TakeKey(w, f)
    /\ cache[f].live /\ ~ cache[f].del /\ ~ cache[f].fin
    /\ Enter(w, f, "addfin", NoIP)
    /\ Unaffected /\ UNCHANGED ipam

Reconcilable(f) == cache[f].live /\ ~ cache[f].del /\ cache[f].fin

\* status.ipAddr is set: only the assignment is brought up to date.
SyncAssignedOnly(w, f) ==
    /\ TakeKey(w, f)
    /\ Reconcilable(f) /\ cache[f].status # NoIP
    /\ Enter(w, f, "assign", NoIP)
    /\ Unaffected /\ UNCHANGED ipam
SyncAssigned(w, f) ==
    /\ TakeKey(w, f)
    /\ Reconcilable(f) /\ cache[f].status # NoIP
    /\ Enter(w, f, IF cache[f].label THEN "assign" ELSE "unassign", NoIP)
    /\ Unaffected /\ UNCHANGED ipam

\* The pool is not in the lister: the key is dropped without an error.
SyncNoPool(w, f) ==
    /\ TakeKey(w, f)
    /\ Reconcilable(f) /\ cache[f].status = NoIP /\ ~ pcache.live
    /\ Unaffected /\ UNCHANGED <<workers, ipam>>

SyncAllocate(w, f) ==
    /\ TakeKey(w, f)
    /\ Reconcilable(f) /\ cache[f].status = NoIP /\ pcache.live
    /\ LET grant == GetIPOwned(ipam, cache[f].spec, f)
       IN  \/ grant = {} /\ Enter(w, f, "error", NoIP) /\ UNCHANGED ipam
           \/ \E a \in grant : Enter(w, f, "spec", a) /\ ipam' = Claim(ipam, a, f)
    /\ Unaffected

\* ReleaseIPOwned with its errors ignored, as both callers do.
OwnedRelease(a, f) ==
    IF Releasable(ipam, a) /\ ~ ForeignClaim(ipam, a, f) THEN releaseIP(ipam, a) ELSE ipam

\* reconcileDelete of an object that never got its status address.
SyncDeleteNoRelease(w, f) ==
    /\ TakeKey(w, f)
    /\ cache[f].live /\ cache[f].del /\ cache[f].fin /\ cache[f].status = NoIP
    /\ Enter(w, f, "rmfin", NoIP)
    /\ Unaffected /\ UNCHANGED ipam
SyncDeleteUnallocated(w, f) ==
    /\ TakeKey(w, f)
    /\ cache[f].live /\ cache[f].del /\ cache[f].fin /\ cache[f].status = NoIP
    /\ ipam' = ReleaseAllByOwner(OwnedRelease(cache[f].spec, f), f)
    /\ Enter(w, f, "rmfin", NoIP)
    /\ Unaffected

SyncDelete(w, f) ==
    /\ TakeKey(w, f)
    /\ cache[f].live /\ cache[f].del /\ cache[f].fin /\ cache[f].status # NoIP
    /\ Enter(w, f, "release", cache[f].status)
    /\ Unaffected /\ UNCHANGED ipam

-----------------------------------------------------------------------------
(* API calls on the FloatingIP.  A call has one of three outcomes: it      *)
(* succeeds; it fails (refused, conflict, not found, or a fault); or it is *)
(* committed and the response is lost.                                     *)

Untouched == UNCHANGED <<pool, cache, pcache, pfresh, pgone, delEvt, upEvt, poolQ, pworker, started>>

\* Worker w writes obj where `can` says the API server accepts it: onOK and
\* onErr are the workers afterwards.
Commit(f, obj, can, onOK) ==
    can /\ PutFip(f, obj, onOK) /\ UNCHANGED <<queue, budget>>

CommitThenError(w, f, obj, can, onErr) ==
    can /\ Spend("fault") /\ PutFip(f, obj, onErr) /\ Requeue(w)

FailCall(w, can, onErr) ==
    /\ IF can THEN Spend("fault") ELSE UNCHANGED budget
    /\ workers' = onErr
    /\ Requeue(w)
    /\ UNCHANGED <<fip, cfresh>>

Call(w, f, obj, can, onOK, onErr) ==
    \/ Commit(f, obj, can, onOK)
    \/ CommitThenError(w, f, obj, can, onErr)
    \/ FailCall(w, can, onErr)

\* Server-side apply: no resource version, but the webhook is asked.
AddFinalizer(w) ==
    LET f   == workers[w].key
        can == fip[f].live /\ validateFloatingIP(f, fip[f])
    IN  /\ At(w, "addfin")
        /\ Call(w, f, [fip[f] EXCEPT !.fin = TRUE], can, Finished(w), Finished(w))
        /\ Untouched /\ UNCHANGED ipam

\* updateFipStatusWithError writes the copy it has, unless the failure is
\* recorded already; the sync fails either way.
RecordError(w) ==
    LET f   == workers[w].key
        can == workers[w].fresh /\ fip[f].state # "Error"
    IN  /\ At(w, "error")
        /\ \/ can /\ PutFip(f, [fip[f] EXCEPT !.state = "Error"], Finished(w)) /\ UNCHANGED budget
           \/ /\ IF can THEN Spend("fault") ELSE UNCHANGED budget
              /\ workers' = Finished(w)
              /\ UNCHANGED <<fip, cfresh>>
        /\ Requeue(w)
        /\ Untouched /\ UNCHANGED ipam

\* The spec update: the cached copy with the granted address.
UpdateSpecForced(w) ==
    LET f   == workers[w].key
        new == [fip[f] EXCEPT !.spec = workers[w].ip]
        can == fip[f].live /\ validateFloatingIP(f, new)
    IN  /\ At(w, "spec")
        /\ \/ Commit(f, new, can, Moved(w, "status"))
           \/ /\ ~ can
              /\ workers' = Moved(w, "specerr")
              /\ UNCHANGED <<fip, cfresh, queue, budget>>
        /\ Untouched /\ UNCHANGED ipam
UpdateSpec(w) ==
    LET f   == workers[w].key
        new == [fip[f] EXCEPT !.spec = workers[w].ip]
        can == workers[w].fresh /\ fip[f].live /\ validateFloatingIP(f, new)
    IN  /\ At(w, "spec")
        /\ \/ Commit(f, new, can, Moved(w, "status"))
           \/ can /\ Spend("fault") /\ PutFip(f, new, Moved(w, "specerr")) /\ UNCHANGED queue
           \/ /\ IF can THEN Spend("fault") ELSE UNCHANGED budget
              /\ workers' = Moved(w, "specerr")
              /\ UNCHANGED <<fip, cfresh, queue>>
        /\ Untouched /\ UNCHANGED ipam

\* The claim is kept exactly when a read finds the address in the spec.
SpecFailedKeeps(w) ==
    /\ At(w, "specerr")
    /\ workers' = Finished(w)
    /\ Requeue(w)
    /\ Untouched /\ UNCHANGED <<fip, cfresh, ipam, budget>>
SpecFailed(w) ==
    LET f      == workers[w].key
        landed == fip[f].live /\ fip[f].spec = workers[w].ip
    IN  /\ At(w, "specerr")
        /\ \/ landed /\ UNCHANGED <<ipam, budget>>
           \/ /\ IF landed THEN Spend("fault") ELSE UNCHANGED budget
              /\ ipam' = OwnedRelease(workers[w].ip, f)
        /\ workers' = Finished(w)
        /\ Requeue(w)
        /\ Untouched /\ UNCHANGED <<fip, cfresh>>

\* Get and UpdateStatus, retried on conflict: whatever the object is now.
UpdateStatus(w) ==
    LET f   == workers[w].key
        new == [fip[f] EXCEPT !.status = workers[w].ip, !.state = "Allocated", !.assigned = TRUE]
    IN  /\ At(w, "status")
        /\ Call(w, f, new, fip[f].live, Moved(w, "pool"), Finished(w))
        /\ Untouched /\ UNCHANGED ipam

\* The branch was chosen by the copy's label, the object is the current one.
UpdateAssigned(w) ==
    LET f == workers[w].key
    IN  /\ At(w, "assign") \/ At(w, "unassign")
        /\ Call(w, f, [fip[f] EXCEPT !.assigned = At(w, "assign")], fip[f].live,
                Finished(w), Finished(w))
        /\ Untouched /\ UNCHANGED ipam

\* The copy without our finalizer; the webhook always admits it.  The object
\* is terminating, so it disappears.
RemoveFinalizer(w) ==
    LET f == workers[w].key
    IN  /\ At(w, "rmfin")
        /\ Call(w, f, Gone, workers[w].fresh /\ fip[f].live, Finished(w), Finished(w))
        /\ Untouched /\ UNCHANGED ipam

-----------------------------------------------------------------------------
(* The pool's status, and the quota's.  The closures given to              *)
(* RetryOnConflict (Get, change, UpdateStatus) are one step: a conflict    *)
(* runs the closure again, so the object is written as it was read, and an *)
(* allocator call between reading the counts and the write is followed by  *)
(* a write of the caller's own, or leaves the counts behind anyway.        *)

Untouched2 == UNCHANGED <<fip, cache, cfresh, pcache, pgone, delEvt, upEvt, poolQ, pworker, started>>

PoolFault(w) ==
    /\ Spend("fault") /\ workers' = Finished(w) /\ Requeue(w)
    /\ UNCHANGED <<pool, pfresh, ipam>>

\* A pool that is gone meanwhile is no error.  The quota's status is the
\* last write; it may fail after the pool's was committed.
UpdatePoolStatus(w) ==
    /\ At(w, "pool")
    /\ \/ /\ IF pool.live
             THEN PutPool([pool EXCEPT !.alloc = @ \cup {workers[w].ip}, !.avail = Available(ipam)])
             ELSE UNCHANGED <<pool, pfresh>>
          /\ workers' = Finished(w)
          /\ UNCHANGED ipam
          /\ \/ UNCHANGED <<queue, budget>>
             \/ Spend("fault") /\ Requeue(w)
       \/ PoolFault(w)
    /\ Untouched2

\* reconcileDelete: the quota's status first, then ReleaseIP, which does not
\* ask whose claim it is and whose error is only logged.
DeleteRelease(w) ==
    /\ At(w, "release")
    /\ \/ /\ ipam' = IF Releasable(ipam, workers[w].ip) THEN releaseIP(ipam, workers[w].ip) ELSE ipam
          /\ workers' = Moved(w, "delpool")
          /\ UNCHANGED <<pool, pfresh, queue, budget>>
       \/ PoolFault(w)
    /\ Untouched2

\* An empty status.allocated is read back as nil (omitempty): no update.
\* The sweep of the object's other claims follows.
DeletePoolStatus(w) ==
    /\ At(w, "delpool")
    /\ \/ /\ IF pool.live /\ pool.alloc # {}
             THEN PutPool([pool EXCEPT !.alloc = @ \ {workers[w].ip}, !.avail = Available(ipam)])
             ELSE UNCHANGED <<pool, pfresh>>
          /\ \/ /\ ipam' = ReleaseAllByOwner(ipam, workers[w].key)
                /\ workers' = Moved(w, "rmfin")
                /\ UNCHANGED <<queue, budget>>
             \/ /\ Spend("fault") /\ workers' = Finished(w) /\ Requeue(w)
                /\ UNCHANGED ipam
       \/ PoolFault(w)
    /\ Untouched2

-----------------------------------------------------------------------------

Sync(w, f) ==
    \/ SyncNothing(w, f)  \/ SyncAddFinalizer(w, f) \/ SyncAssigned(w, f)
    \/ SyncNoPool(w, f)   \/ SyncAllocate(w, f)
    \/ SyncDelete(w, f)   \/ SyncDeleteUnallocated(w, f)

Step(w) ==
    \/ AddFinalizer(w)   \/ RecordError(w)       \/ UpdateSpec(w)     \/ SpecFailed(w)
    \/ UpdateStatus(w)   \/ UpdatePoolStatus(w)  \/ UpdateAssigned(w)
    \/ DeleteRelease(w)  \/ DeletePoolStatus(w)  \/ RemoveFinalizer(w)

FipWorker(w) == Step(w) \/ \E f \in Owner : Sync(w, f)
=============================================================================
