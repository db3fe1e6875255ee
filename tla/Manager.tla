------------------------------- MODULE Manager -------------------------------
(***************************************************************************)
(* cmd/manager: the controllers around one in-memory allocator, against    *)
(* the API server, the webhook and the users.  The allocator is rebuilt    *)
(* from the objects when the manager restarts; until then it is the only   *)
(* place that knows whose claim is whose.                                  *)
(***************************************************************************)
EXTENDS FIPController, PoolController

Init ==
    /\ fip = [f \in Owner |-> Gone]
    /\ cache = fip
    /\ cfresh = [f \in Owner |-> TRUE]
    /\ queue = {}
    /\ pgone = FALSE /\ delEvt = FALSE /\ upEvt = FALSE /\ pfresh = PoolAtStart
    /\ poolQ = FALSE
    /\ started = TRUE
    /\ workers = [w \in Worker |-> Idle]
    /\ pworker = PoolIdle
    /\ pcache = [live |-> PoolAtStart, cfg |-> StartConfig]
    /\ LET empty == Refreshed(Absent, StartConfig, Excludes, {})
       IN  IF PoolAtStart
           THEN /\ ipam = empty
                /\ pool = [live |-> TRUE, cfg |-> StartConfig, alloc |-> Excludes, avail |-> Available(empty)]
           ELSE /\ ipam = Absent
                /\ pool = [live |-> FALSE, cfg |-> StartConfig, alloc |-> {}, avail |-> 0]
    /\ budget = [create |-> MaxCreate, race |-> MaxRace, label |-> MaxLabel, repin |-> MaxRepin, delete |-> MaxDelete,
                 fault |-> MaxFault, restart |-> MaxRestart, poolop |-> MaxPoolOp]

\* The process dies (or loses its lease) at any point and a new one starts:
\* a new allocator, caches filled by a list, every object enqueued.  The pool
\* controller's first pass comes before the FloatingIP workers if the pool
\* was enqueued when Run read the queue's length: the caches are synced by
\* then, the event handlers need not have run.
Restart ==
    /\ Spend("restart")
    /\ ipam' = Absent
    /\ workers' = [w \in Worker |-> Idle]
    /\ pworker' = PoolIdle
    /\ cache' = fip
    /\ cfresh' = [f \in Owner |-> TRUE]
    /\ queue' = {f \in Owner : fip[f].live}
    /\ pcache' = [live |-> pool.live, cfg |-> pool.cfg]
    /\ pfresh' = pool.live
    /\ pgone' = FALSE /\ delEvt' = FALSE /\ upEvt' = FALSE
    /\ poolQ' = pool.live
    /\ started' \in {~ pool.live, TRUE}
    /\ UNCHANGED apiVars

Controllers == PoolWorker \/ handleFipPoolDelete \/ \E w \in Worker : FipWorker(w)

Next == User \/ Informers \/ Controllers \/ Restart

Spec == Init /\ [][Next]_vars

-----------------------------------------------------------------------------
(* Fairness.  The watches deliver, the pool worker runs, and an API call   *)
(* that a worker has started ends.  The work queue is first in, first out  *)
(* and hands a key out again after it failed, so a key that is waiting is  *)
(* taken although workers are busy and keys in process are passed over     *)
(* meanwhile.  Users, faults and restarts are free to happen or not.       *)

Fairness ==
    /\ WF_vars(InformPool) /\ WF_vars(InformPoolGone) /\ WF_vars(handleFipPoolDelete)
    /\ WF_vars(PoolWorker)
    /\ \A w \in Worker : WF_vars(Step(w))
    /\ \A f \in Owner : WF_vars(InformFip(f)) /\ SF_vars(\E w \in Worker : Sync(w, f))

FairSpec == Spec /\ Fairness

-----------------------------------------------------------------------------
(* What the properties speak of                                            *)

\* f has been told its address and is not on its way out.
Granted(f) == fip[f].live /\ ~ fip[f].del /\ fip[f].status # NoIP

\* The addresses that status.ipAddr of some FloatingIP names.
Holders == {fip[f].status : f \in {g \in Owner : fip[g].live /\ fip[g].status # NoIP}}

\* Everything has been delivered and processed: without a user, a restart or
\* the like nothing will ever change again (the informers do not resync).
Settled ==
    /\ queue = {} /\ ~ poolQ
    /\ \A w \in Worker : workers[w].pc = "idle"
    /\ pworker.pc = "idle"
    /\ \A f \in Owner : cfresh[f]
    /\ pool.live => pfresh
    /\ ~ pgone /\ ~ delEvt

-----------------------------------------------------------------------------
(* Invariants                                                              *)

\* The shape of the state.  Two clauses are about the code: status.available
\* never goes below zero (the webhook compares it with zero), and a
\* terminating FloatingIP still has the controller's finalizer.
TypeOK ==
    /\ fip \in [Owner -> FloatingIP] /\ cache \in [Owner -> FloatingIP]
    /\ pool \in FloatingIPPool /\ pool.avail \in Nat
    /\ pcache \in [live : BOOLEAN, cfg : Configs]
    /\ cfresh \in [Owner -> BOOLEAN]
    /\ {pfresh, pgone, delEvt, upEvt, poolQ, started} \subseteq BOOLEAN
    /\ queue \subseteq Owner
    /\ workers \in [Worker -> WorkerState]
    /\ pworker \in PoolWorkerState
    /\ ipam \in Subnet
    /\ ipam.used \subseteq ipam.ips
    /\ \A f \in Owner : fip[f].del => fip[f].fin

\* No two FloatingIPs are told that they hold the same address: what the
\* webhook's checks, the allocator's claims and the owners carried over a
\* refresh are for, taken together.
NoSharedAddress ==
    \A f, g \in Owner : f # g /\ Granted(f) /\ Granted(g) => fip[f].status # fip[g].status

\* While the allocator offers addresses (it is rebuilt, if the manager has
\* just restarted), none of them is one that a FloatingIP already holds,
\* however old the list was from which the pool controller refreshed it.
GrantedNotFree ==
    \A f \in Owner : Granted(f) => fip[f].status \notin Free(ipam)

\* No claim outlives its FloatingIP: once the finalizer is removed and the
\* object is gone, reconcileDelete and its sweep have returned every address
\* recorded under its name, those of half-finished allocations included.
NoOrphanedClaim ==
    \A f \in Owner :
        OwnedBy(ipam, f) # {} => fip[f].live \/ \E w \in Worker : workers[w].key = f

\* At rest no address is burned: what the allocator withholds is excluded or
\* held by a FloatingIP.  The claim of a failed spec update, of a deleted
\* FloatingIP or of a lost response "must not outlive" the sync.
SettledNoBurn ==
    Settled /\ pool.live => ipam.used \subseteq Excludes \cup Holders

\* At rest nobody has been forgotten: every FloatingIP has its address and
\* no deletion is half done.  The informers never resync, so a key that is
\* dropped without an error on a stale read is never looked at again.
NothingForgotten ==
    Settled /\ pool.live => \A f \in Owner : fip[f].live => fip[f].status # NoIP /\ ~ fip[f].del

\* At rest status.assigned agrees with the cluster label, although reconcile
\* chooses between assigning and unassigning by the cached object and writes
\* the current one.
SettledAssigned ==
    Settled => \A f \in Owner : Granted(f) => fip[f].assigned = fip[f].label

\* At rest the pool's status.available, from which the webhook decides about
\* FloatingIPs without a pinned address, is what the allocator can grant.
SettledCounts == Settled /\ pool.live => pool.avail = Available(ipam)

\* At rest the allocator serves the range of the pool as it is now, however
\* its deletions, creations and edits raced with a refresh.
AllocatorFollowsPool ==
    Settled /\ pool.live => ipam.ips = buildSubnet(pool.cfg).ips

-----------------------------------------------------------------------------
(* Action properties and liveness                                          *)

\* An address that a FloatingIP has been told is its address for life: no
\* retry of an allocation, on however stale a copy, replaces or clears it.
AddressNeverMoves ==
    [][\A f \in Owner :
          fip[f].status # NoIP => fip'[f].status = fip[f].status \/ ~ fip'[f].live]_vars

\* A deletion comes to its end: the finalizer is removed, the object goes and
\* the allocator has no claim of it left, through conflicts and retries.
DeletionCompletes ==
    \A f \in Owner : fip[f].del ~> (~ fip[f].live /\ OwnedBy(ipam, f) = {})

\* A FloatingIP is answered: it gets its address or is marked failed, and
\* does not stay pending while the controller works.
Answered ==
    \A f \in Owner : fip[f].live ~> (~ fip[f].live \/ fip[f].del \/ fip[f].state # "Pending")
=============================================================================
