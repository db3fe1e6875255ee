---------------------------- MODULE PoolController ---------------------------
(***************************************************************************)
(* pkg/controller/floatingippool: one worker that rebuilds the pool's      *)
(* subnet in the allocator from the addresses the cached FloatingIPs hold, *)
(* and rewrites the pool's status.  The list, the refresh and the status   *)
(* write are separate steps: the list is old when the refresh runs.        *)
(***************************************************************************)
EXTENDS ClusterAPI

StartConfig == CHOOSE c \in Configs : RefreshOK(c, Excludes)

PoolIdle == [pc |-> "idle", cfg |-> StartConfig, list |-> {}]

PoolWorkerState == [pc : {"idle", "refresh", "status"}, cfg : Configs, list : SUBSET Addr]

\* The status addresses of the cached FloatingIPs; terminating ones are
\* skipped.
ListTerminating == {cache[f].status : f \in {g \in Owner : cache[g].live /\ cache[g].status # NoIP}}
ListAssigned ==
    {cache[f].status : f \in {g \in Owner : cache[g].live /\ ~ cache[g].del /\ cache[g].assigned}}
ListAllocations ==
    {cache[f].status : f \in {g \in Owner : cache[g].live /\ ~ cache[g].del /\ cache[g].status # NoIP}}

\* The end of an item, with or without an error: the FloatingIP controller
\* starts after the pool controller's first pass over its queue.
PoolDone(again) ==
    /\ pworker' = PoolIdle
    /\ started' = TRUE
    /\ poolQ' = (poolQ \/ again)

PoolList ==
    /\ poolQ /\ pworker.pc = "idle"
    /\ IF pcache.live
       THEN /\ pworker' = [pc |-> "refresh", cfg |-> pcache.cfg, list |-> ListAllocations]
            /\ poolQ' = FALSE
            /\ UNCHANGED started
       ELSE /\ poolQ' = FALSE
            /\ started' = TRUE
            /\ UNCHANGED pworker
    /\ UNCHANGED <<apiVars, informerVars, queue, workers, ipam, budget>>

\* A configuration that RefreshSubnet refuses leaves the old subnet live and
\* the key is retried.
PoolRefreshOnce ==
    /\ pworker.pc = "refresh"
    /\ ipam' = IF ipam.ips = {} THEN Refreshed(ipam, pworker.cfg, Excludes, pworker.list) ELSE ipam
    /\ pworker' = [pworker EXCEPT !.pc = "status"]
    /\ UNCHANGED <<apiVars, informerVars, queueVars, workers, started, budget>>
PoolRefresh ==
    /\ pworker.pc = "refresh"
    /\ \/ /\ RefreshOK(pworker.cfg, Excludes)
          /\ ipam' = Refreshed(ipam, pworker.cfg, Excludes, pworker.list)
          /\ pworker' = [pworker EXCEPT !.pc = "status"]
          /\ UNCHANGED <<poolQ, started>>
       \/ /\ ~ RefreshOK(pworker.cfg, Excludes)
          /\ PoolDone(TRUE)
          /\ UNCHANGED ipam
    /\ UNCHANGED <<apiVars, informerVars, queue, workers, budget>>

\* The status is replaced; the counts come from the allocator as it is now.
\* A pool that is gone, a fault or a lost response is an error.
PoolStatus ==
    /\ pworker.pc = "status"
    /\ \/ /\ pool.live
          /\ PutPool([pool EXCEPT !.alloc = Excludes \cup pworker.list, !.avail = Available(ipam)])
          /\ \/ PoolDone(FALSE) /\ UNCHANGED budget
             \/ PoolDone(TRUE) /\ Spend("fault")
       \/ /\ IF pool.live THEN Spend("fault") ELSE UNCHANGED budget
          /\ PoolDone(TRUE)
          /\ UNCHANGED <<pool, pfresh>>
    /\ UNCHANGED <<fip, cache, cfresh, pcache, pgone, delEvt, upEvt, queue, workers, ipam>>

\* The Delete event handler runs in the informer's goroutine, whatever the
\* worker is doing; events behind it are delivered after it.
handleFipPoolDelete ==
    /\ delEvt
    /\ ipam' = Absent
    /\ delEvt' = FALSE
    /\ upEvt' = FALSE
    /\ poolQ' = (poolQ \/ upEvt)
    /\ UNCHANGED <<apiVars, cache, cfresh, pcache, pfresh, pgone, queue, workers, pworker, started, budget>>

PoolWorker == PoolList \/ PoolRefresh \/ PoolStatus
=============================================================================
