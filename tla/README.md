# A TLA+ verification of rancher-fip-manager

rancher-fip-manager hands out floating IP addresses to the clusters and projects of
a Rancher installation. This directory holds TLA+ models of its parts (the in-memory
allocator and the controllers around it, the admission webhook with its quota and its
certificates, the API server, the load-balancer controller, the cluster manager), the
TLC configurations that check them, and machine-checked proofs about all of them.
Source paths below are relative to the repository root.

## Inventory

| Component | State | Operations | Modelled in |
|---|---|---|---|
| Allocator `pkg/ipam` | per pool: range, which addresses are taken, who owns them; one mutex | `NewSubnet`, `RefreshSubnet`, `DeleteSubnet`, `GetIP`, `GetIPOwned`, `ReleaseIP`, `ReleaseIPOwned`, `ReleaseAllByOwner`, `Used`, `Available` | `IPAMOps`, `IPAM`, `ClaimTable` |
| FloatingIP controller `pkg/controller/floatingip` | work queue, two workers, informer cache | add finalizer, allocate, record errors, update assignment and quota, delete | `FIPController`, `Quota` |
| FloatingIPPool controller `pkg/controller/floatingippool` | work queue, one worker, informer cache | list, refresh the allocator, write the status; delete handler | `PoolController` |
| FloatingIPProjectQuota controller `pkg/controller/floatingipprojectquota` | quota status, finalizer, queue | rebuild the status, cascade a deletion | `Quota` |
| Admission webhook `pkg/webhook/service` | reservations of addresses and quota slots with an expiry, locks | validate FloatingIPs and pools | `ClusterAPI`, `Quota` |
| Webhook certificates `pkg/webhook/config`, `pkg/webhook/scheduler`, `cmd/webhook` | Secret, CSR, files, certificate in memory, ticker | check, renew, recover, restart | `CertSchedule`, `Certificates` |
| Manager process `cmd/manager` | the controllers, start order, leader lease | start, stop | `Manager` |
| API server `apiserver` | none of its own; labels of FloatingIPs | request, release, list, delete | `APIServer` |
| Load-balancer controller `lbcontroller` | annotations of Services, tombstones, address locks, MetalLB pools | allocate, recover, clean up in stages, undo | `LBController` |
| Cluster manager `clustermanager` | config Secrets, Helm releases, labels, claims | provision, propagate Secrets, sweep orphans, release claims | `HelmRelease`, `ConfigSecrets`, `ClusterProvisioning`, `ClusterManager` |
| Metrics, auth, middleware, webhook registration, back-end clients, generated code | | | not modelled, see below |

How they interact. The load-balancer controller of a downstream cluster asks the API
server for an address for a Service. The API server claims a FloatingIP by its labels
or creates one, and waits until the manager has granted it an address. The webhook
admits or refuses every CREATE and UPDATE after looking at the pool's status, the
live objects, the quota and its own reservations. Informers copy objects into caches,
in their own time, and enqueue keys. The pool controller rebuilds the pool's subnet in
the allocator from the addresses that the cached FloatingIPs have in `status.ipAddr`.
The FloatingIP controller claims an address in the allocator, writes it into the spec,
then into the status, then into the pool's and the quota's status; a deletion undoes
this in another order and removes the finalizer last. The cluster manager installs the
load-balancer controller downstream, hands it the token it authenticates with, and
releases the FloatingIPs of a cluster that is gone. The allocator, the reservations
and the tombstones are not persisted: a restart forgets them.

What is hard: one fact is kept in several places that change one after the other (claim,
spec, status, pool status, quota status; IPAM claim, pool, advertisement, annotation,
tombstone; local and downstream Secret; Secret, files, memory), with several workers,
processes and users, failed or lost calls and restarts in between; reads go to caches;
the manager's informers never resync (`cmd/manager/main.go:217`), so a key that is
dropped is lost. The hazards are listed at their lines in `PROJECT.json`.

What makes each part correct: the allocator never passes a claimed address on and never
loses an owned claim in a refresh; the controllers never tell two FloatingIPs the same
address, leave no claim behind, burn no address and forget no object; a project holds
no more than its quota and the status of the quota is the truth at rest; a claim the
API server approved stays with its Service; an address is advertised only while it is
claimed, and nothing is left over when a Service goes; the webhook never answers with an
expired certificate and always comes back; charts and Secrets converge, and deletions
complete.

## Modules

The manager:

* `IPAMOps`: one subnet as a record of sets (the range `ips`, the taken addresses
  `used`, the function `owners`) and what each method does to it. Addresses are
  numbers. The prefix and broadcast checks of `getIP` only choose between error
  messages, since an address that fails them is not in the range.
* `ClaimTable`: the promise of the allocator to its callers, after the doc comments
  of `ipam.go`: grants start on free addresses, an owner gives back its own
  addresses only, a refresh never offers a claimed address.
* `IPAM`: the allocator under arbitrary calls; `ImplementsClaims` is the refinement
  (`Claims == INSTANCE ClaimTable WITH ...`: `claims` is the owners map, `free` the
  untaken addresses).
* `ClusterAPI`: API objects, webhook, users and informers, and all variables of the
  composition. A resource version is only compared for equality with the version of
  a copy, so it is a flag of the copy ("fresh") that every write clears.
* `FIPController`: a sync up to its first API call is one step (it is local to the
  worker, apart from the allocator, whose methods are atomic), then one step per
  API call with the local work after it. A call succeeds, fails, or is committed with
  its response lost; the last two cost one unit of `MaxFault` unless the API server or
  the webhook really refuses.
* `PoolController`: list, refresh and status write are three steps; the delete
  handler is a step of the informer's goroutine.
* `Manager`: composition, initial state, restart, fairness, and the properties.
* `Quota`: one project's quota on one pool. An admission is the list (under
  `lockQuotaForAdmission`) and the decision, with time between them; reservations and
  objects carry their age in ticks. The quota controller and the FloatingIP
  controller's writes share the status; the FloatingIP controller is reduced to what it
  writes there and to the states pending, error and granted.

The webhook's certificate:

* `CertSchedule`: the arithmetic of the period, the wait and the decision to renew.
* `Certificates`: one step per call of `Run`, `renewTLSPair`, `writeTLSDataFromSecret`
  and the scheduler, in two pods that share the Secret and the name of the CSR.
  X.509 is reduced to the key, the minutes left and whether it can be parsed.

The clients:

* `APIServer`: every handler is a process with the object or the list it has read; one
  step per API call. The manager is abstract: it grants, assigns and finalizes in its own
  time (`Grant`, `Assign`, `Finalize`). A project has several pools. Only `findServiceFIP`
  and the list test the pool; the group match, the search for a pinned address and the
  unassigned candidates take what they find in the project, so a request for one pool can
  be answered from another. A FloatingIP created for a pinned address is named after its
  pool and its address, others get a generated name. The history variable `lapsed`
  collects the FloatingIPs that were taken over by a group match from another cluster, or
  whose name was used again under a handler that goes by it: what the API server does not
  guard.
* `LBController`: every worker is a process, one step per call to the API or the IPAM.
  The IPAM is what `APIServer` checks: it may answer a request with any address that is
  free or of the Service's group. Every write, of a Service, a pool, an advertisement or
  a claim, may be carried out although its call reports an error (`Effect`,
  `CreatePoolFails`, and the failing branches of `CreateL2Advertisement` and `Annotate`).
  The history variable `torn` has what was left that way by an allocation that was then
  taken back.

The cluster manager:

* `HelmRelease`: the plan for a release and the check for the other chart.
* `ConfigSecrets`: the quota reconciler, `HandleConfigSecrets`, the finalizer's cleanup
  and the sweeper. The data of a Secret is its token.
* `ClusterProvisioning`: the cluster reconciler with `InstallOrUpgrade` and the release
  of FloatingIPs. Helm writes a pending record, works, and writes the outcome.
* `ClusterManager`: both in one process, restart, fairness and the properties.

`MC*` are the instances. The theorems are in `IPAMProofs`, `ManagerProofs`,
`SharingProofs` (which extends `ManagerProofs`), `QuotaProofs`, `APIServerProofs`,
`CertificatesProofs`, `LBControllerProofs` and `ClusterManagerProofs`. Line numbers are in
`PROJECT.json`, "map".

Abstractions, and why they keep the behaviours that matter:

* One pool in `Manager` and `Quota`. Pools share nothing but the mutex; the allocator
  module has several.
* In `Manager` the quota object is present and its status writes are calls that may
  fail; `Quota` takes these writes up.
* A `RetryOnConflict` closure is one step in `Manager`. The count read in it can be older
  than the write; whoever changed the allocator in between writes the counts afterwards,
  or (a release of a failed update, a sweep) leaves them behind in any case.
* After a restart the FloatingIP queue's first pass has one worker in the code and
  all workers in the model, which allows more.
* `updateFipStatusWithError` compares messages; all failures count as the same one.
* In `ClusterAPI` the webhook's decision and the write are one step, except in
  `UserCreateRaced`, where the reservation has expired or another replica has answered.
* A server-side apply on an object that is gone would create it; the webhook refuses
  that, because it names no pool.
* `Quota`: one webhook process that does not restart, names are not used again, and every
  FloatingIP gets an address of its own, so that an address is its FloatingIP.
  A list takes at most `ListTimeout` ticks (`ipClaimListTimeout`, 3 s), an admitted object
  is persisted within `Latency` ticks, and the two together are less than the life of a
  reservation (`quotaReservationTTL`, 5 s). The code enforces the first and the last only:
  that the API server persists an admitted object in the 2 s left is what the comment on
  the constant demands of it (`pkg/webhook/service/service.go:139`).
* `APIServer`: one project; its FloatingIPs all carry its label. The pool's and the
  quota's refusals are what `HasRoom` and `WebhookAdmits` say; the retries of an update
  after a conflict are one step on the current object.
* `LBController`: one project with a valid Secret and one pool of the manager, MetalLB,
  every Service in its own namespace; the reads of one in-use check are one step. With
  several pools an address of another pool is not in the list that a recovery reads
  (`RetryOtherPool`); with one, the list has every claim (`ApprovedIsListed`).
* `Certificates`: what a pod does between two timers takes no time; a pair of files that
  does not match is followed until the end of the minute (`mixed` ends the promise).
* `ClusterManager`: one downstream cluster, bare metal for all projects or guest of one;
  projects exist; the manager's own finalizer on a quota is not held. In a bare metal
  cluster the cluster reconciler touches no Secret, so it is followed only where the case
  has no quotas. A cluster that is being torn down claims nothing anew, and teardown and
  crash are not combined (the missed delete event is under "Noted, not run").

## Runs

Every run sets `CHECK_DEADLOCK FALSE`, apart from `allocator`: users may stop, and when
the bounds on their actions are used up and everything is processed nothing is left to
happen. Things that are alike are symmetric, except under fairness.

| Run | Instance | Checks |
|---|---|---|
| `allocator` | 4 addresses, 3 owners, 5 configurations, one refused for its end and one for its size | `TypeOK`, `OwnersAllocated`, `ImplementsClaims`, `RefreshKeepsClaims`, `OwnerAwareCallsStayHome` |
| `grant` | 2 FloatingIPs, 2 addresses, 2 workers, 1 raced admission, 1 label edit, 1 restart | `NoSharedAddress`, `GrantedNotFree`, `SettledAssigned` |
| `delete` | 2 creations, 2 deletions, 2 workers | `NoOrphanedClaim` |
| `faults` | 1 FloatingIP created and deleted twice, 2 addresses, 2 failed or lost calls, 1 restart, 1 worker | `NoOrphanedClaim`, `SettledNoBurn`, `NothingForgotten` |
| `pool_ops` | 3 pool creations, edits or deletions, 1 FloatingIP created once, 1 deletion, 1 change of `spec.ipAddr` | `TypeOK`, `AllocatorFollowsPool`, `AddressNeverMoves` |
| `progress` | 1 address, 2 FloatingIPs, 1 deletion, 1 fault, fairness | `DeletionCompletes` |
| `quota` | 2 FloatingIPs and 1 slot (a deletion with a failed grant or call, or a restart), 2 and 2 slots with the quota deleted and a failed call, 3 and 2 slots with the manager down; a reservation lives 3 ticks | `TypeOK`, `QuotaRespected`, `SettledStatus` |
| `certificates` | 1 pod with 2 failures in a row, a crash, a dead server or a lost Secret; 2 pods with a crash or a lost Secret; certificates of 9 minutes, renewed at 3; fairness | `TypeOK`, `NeverAnswersExpired`, `SecretStaysServable`, `AlwaysReadyAgain` |
| `api_server` | 5 Services in 2 clusters, 2 handlers, 2 pools (of 2 addresses and of 1, which is in both), 1 FloatingIP there already, in either pool; 1 raced admission and 1 failed call with 2 requests and a release, 2 requests and a delete, or 3 requests | `TypeOK`, `OnePendingPerAddress`, `ApprovedKeepsClaim`, `ApprovedIsListed`, `OneFIPPerService` |
| `lb_controller` | 2 workers; 2 Services in one group with a pool of 1 address and one disturbance of nine; 2 Services apart with 2 addresses and a name used again or a crash; 1 Service with 2 addresses, a fault (a write may have happened), a crash, a conversion and a missed deletion, all of them | `TypeOK`, `AdvertisedIsClaimed`, `SettledClaims`, `SettledPools` |
| `clusters` | 2 projects, 4 tokens, 2 FloatingIPs, 15 cases of one cluster with one to six disturbances, each once (calls may fail twice); fairness | `TypeOK`, `OneLoadBalancer`, `LiveKeepsSecret`, `ForeignClaimKept`, `ChartsConverge`, `SecretsConverge`, `DeletionFinishes`, `ClaimsReleased` |

Why the bounds are enough for the question asked. In the manager's runs two addresses let
a pinned and an unpinned FloatingIP compete, a raced admission makes both want the same
one, and a retry takes another address; one address and more FloatingIPs overcommit the
pool; one restart, fault or edit can fall between any two steps, and a second fault can
hit what repairs the first. In `quota` a reservation can outlive or miss its object by one
tick either way, and the third FloatingIP finds the quota full of one object and one
reservation. In `api_server` two requests overlap in every way, within a cluster and
between two, for one pool and for two, with a release or deletion in between; with three,
a request is repeated after two others have claimed and relabelled; one address in both
pools lets a pinned search and a claim find the other pool's FloatingIP. In
`lb_controller` a pool of one address makes two Services of a group share it; with two
addresses a request that is repeated can be given another one than the first, so that a
leftover of the first shows; and one disturbance can fall between any two calls. In
`certificates` the period is three times the smallest wait, so that a third of it is
rounded, and fewer calls fail in a row than checks fit in. Larger instances of the same
shape add states and no new interaction. Every property is violated by a mutant of the
code within the same bounds ("mutants" in `PROJECT.json`).

Which property is checked where follows from what holds:

* `NoSharedAddress` and `GrantedNotFree` hold without deletions and do not hold with two
  workers and deletions (run `double_release`), nor when a pool in use is deleted and
  created again: the owners are forgotten, and a cache that lags lets the refresh offer
  held addresses. No document promises the latter, so no run claims it.
* `QuotaRespected` leaves out FloatingIPs that are granted an address after an error: the
  webhook does not count a FloatingIP in error (`OverQuota`).
* `ApprovedKeepsClaim` and `ApprovedIsListed` are about FloatingIPs that exist: a deletion
  may take one from under its client, that of a handler that gave up included
  (`LateCleanup`). They are also about FloatingIPs that are not in `lapsed`: see
  `GroupTakeover` and `NameReused` below.
* `OneFIPPerService` is about a Service that asks the same each time, in a cluster where
  nobody asks for a group that it does not ask for (`Steady`). Otherwise a pinned request
  for such a group takes over the Service's FloatingIP before the manager has recorded its
  assignment, and writes its own group on it; the Service still has its labels there, does
  not find it by its group any more, and gets another. This goes for a Service without a
  group too. What is counted is every FloatingIP of the pool that carries the labels of
  the Service, whatever its group has come to be (`ServiceHolds`); objects in `lapsed` are
  left out. Without regard to the pool it does not hold (`RetryOtherPool`).
* `ApprovedIsListed` speaks of the list of the pool that the FloatingIP is in, which may
  be another one than the Service asked for.
* `AdvertisedIsClaimed` and `SettledPools` do not speak of several Services after a
  failure or a crash (`Interrupted`): a cleanup that deferred to another Service's is not
  taken up again when that one is interrupted. All three leave out a Service that went
  without the finalizer and met another disturbance too (`LostTrack`): its tombstone is in
  memory only.
* A write that was carried out and reported failed is undone only as far as the code
  knows. An annotation that is on the Service although its claim was given back is adopted
  by the next reconcile (`LostAnnotate`); `Misled` is a Service with such an annotation,
  or one in `LostTrack`, and the three properties except it, `SettledClaims` for itself
  only. A pool or an advertisement that was created so stays when the next request is
  given another address; `SettledPools` excepts this object, at this address (`Torn`), and
  no other. All other lost responses are covered without exception.
* A resync of a Service from a cache that lags is not combined with a fault in
  `lb_controller`: see `StaleUndo`. For the same reason (a claim that two requests obtained
  and one gives back) a name used again and an annotation edited off are not combined with
  one.
* `NeverAnswersExpired`, `SecretStaysServable` and `AlwaysReadyAgain` end where a pod has
  stored the certificate of another pod's key (`mixed`), and the first where the files are
  newer than the memory, because the scheduler goes by the files.
* `LiveKeepsSecret` holds in the cases of `clusters`, which do not combine a new quota,
  another quota and a sweep (`SweepRace`).

Fairness. The users, faults and crashes are under no obligation anywhere; bounds limit the
faults, as a permanent fault would refute every liveness property.

* `progress`: the watches deliver, the pool worker and the workers take their next step:
  goroutines are scheduled and API calls end. A waiting key is taken under strong
  fairness: the queue is first in, first out and a failing key comes back behind the
  others (`AddRateLimited`), but a key that is being processed is passed over for a
  while, so weak fairness would not do.
* `certificates`: a pod takes its next step (the scheduler is a goroutine with a timer and
  every call has a deadline; the kubelet restarts a pod that stopped), the signer answers
  an approved request, time passes. All weak.
* `clusters`: the workers of both reconcilers, the sweeper's ticker, the informers and the
  clock. All weak: each has its own queue or timer, and every way out of a reconcile of a
  cluster comes back after `provisioningReconcileInterval` at the latest.

## Disagreements between the code and what it says

One run expects a violation; its finding in `PROJECT.json` quotes the lines.

* `double_release` (`NoSharedAddress`): `reconcileDelete` releases the status address
  without asking for the owner (`pkg/controller/floatingip/controller.go:778`), again on
  every retry. The finalizer removal fails on a stale copy, another FloatingIP is granted
  the address, the retry frees it, and a third one is granted it too.

More configurations each show one trace (TLC ends with a violation); they are kept to be
run by hand:

| Configuration | Module | What happens |
|---|---|---|
| `FailedRead` | `MCManager` | the spec update is committed, its response and the read that should tell are lost; the address is released although the spec records it (`floatingip/controller.go:572`) |
| `StaleCounts` | `MCManager` | the counts are not written when the last address goes, because an empty `status.allocated` reads back as nil (`:796`) |
| `DroppedKey` | `MCManager` | a FloatingIP seen before its pool is dropped and never looked at again (`:501`) |
| `RepinBurn` | `MCManager` | a re-pin to the address that is being granted makes a failed update look as if it had landed; the address is burned (`:572`) |
| `StuckPending` | `MCManager` | with the pool full the webhook refuses the controller's finalizer write; the FloatingIP stays pending (`webhook/service/service.go:603`) |
| `OverQuota` | `MCQuota` | a FloatingIP in error is not counted, its slot is given away, and its retry is granted (`service.go:620`) |
| `CascadeLeftover` | `MCQuota` | a FloatingIP not yet in the cache survives the cascade of its quota (`floatingipprojectquota/controller.go:335`) |
| `LateCleanup` | `MCAPIServer` | a handler that timed out deletes the FloatingIP another request was approved in the meantime (`handlers.go:739`) |
| `GroupTakeover` | `MCAPIServer` | a request lists the FloatingIP of its group; it is released and claimed by another cluster; the request writes its labels over the claim (`handlers.go:652`) |
| `NameReused` | `MCAPIServer` | a FloatingIP is deleted while its request waits and is created again under the name of its address for another client; the first is told the address (`kubebuilder.go:75`) |
| `RetryOtherPool` | `MCAPIServer` | a Service is given an unassigned FloatingIP of another pool than the one it asks for, because the candidate loop does not test the pool (`handlers.go:669`); asked the same again, `findServiceFIP` does test it (`:376`), and the Service gets a second FloatingIP, against the comment at `:591` (`RepeatReturnsAllocation`) |
| `LostAnnotate` | `MCLBController` | the response to the update that annotates the Service is lost (`lbcontroller/internal/controller/controller.go:1263`): the undo releases the claim (`:1404`), the annotation stays, and the next reconcile adopts it and advertises an address that nobody claims (`AlwaysWithdrawn`; compare the comment at `:586`) |
| `StaleUndo` | `MCLBController` | a Service is reconciled again before the cache shows its annotation; the request returns the address it has, the pool or the annotation fails, and as `adoptingExisting` is false the claim of the first reconcile is released under its annotation (`:1068`, `:1404`; compare `:1364`) |
| `MixedPair` | `MCCertificates` | two pods renew together and one stores the answer to the other's request: the pair cannot be served and is not renewed before its time (`tls.go:40`) |
| `SweepRace` | `MCClusterManager` | the sweep deletes the Secret of a quota that its cached list does not have yet (`floatingipprojectquota_controller.go:600`) |

Noted while modelling, not run:

* The pool controller writes an old list over a newer entry of `status.allocated`
  (`floatingippool/controller.go:288`), so that a held address can be missing from it at
  rest. The webhook's comment only promises that it lags; what is checked is that no
  address is shared in spite of it.
* API server: a release does not check again the object it writes; deletions go by name,
  not by UID.
* Load-balancer controller: a pending marker is written before the finalizer, so a Service
  deleted in between relies on its tombstone; an annotation edited off before a deletion
  leaks the address. Two Services of a group: the cleanup of one leaves the pool to the
  other, releases its claim and is interrupted by a crash; the other's cleanup defers to
  the first, whose annotation is still there, and the first resumes after its decision
  (`lbcontroller/internal/controller/controller.go:553`), so the pool stays. A pool or an
  advertisement whose creation was reported failed stays at an address that was given
  back.
* Webhook certificates: when the files are new and the push to the memory has failed, the
  certificate in the memory runs out, because the scheduler goes by the files.
* Cluster manager: a failing Delete of a local Secret is logged and the finalizer goes all
  the same; a cluster deleted while the process is down is never seen, so its FloatingIPs
  stay claimed; a label that was written before the restart of the load-balancer
  controller failed is taken for the whole the next time; the Secret of a guest cluster
  stays after its quota alone is deleted.

## Proofs

What TLC shows for a small instance, the theorems show for every value of the constants:
any number of FloatingIPs, addresses, workers, handlers, pods, projects, failures and
restarts. They rest on the named assumptions (`ASSUME`) of the modules: "none" values are
not members of the sets they are added to, addresses are numbers, bounds are natural
numbers, and the few that are facts about the code, given below. Every inductive invariant
was checked by TLC on a small instance before it was proved.

`IPAMProofs`, about the allocator under arbitrary calls:

* `InductiveInvariant`, and from it `TypeCorrect` and `OwnersAlwaysAllocated`. The
  invariant `IInv` is their conjunction: neither part is inductive alone, since a
  release clears an owner only if it is on a taken address, and a refresh carries
  owners only of taken addresses. It is stated subnet by subnet (`Sound`), one lemma
  per method, so that each action's case is one application.
* `Implementation`: the allocator refines `ClaimTable`. Every method maps to one step
  of the table or to a stutter (an idempotent re-claim); `IInv` is needed for
  releases, where "taken" and "owned" have to agree.
* `NoTransferAlways`, `RefreshAlwaysKeepsClaims` and `OwnerAwareAlwaysStaysHome`:
  action properties from the same invariant.

`ManagerProofs`, about the composition, without restriction on its steps:

* `Invariance`: the invariant `MInv`. A key is with one worker (`Keys`); a copy whose
  version is current says what the object says, and a worker that holds one holds it
  of a live object (`Copies`); a FloatingIP that the cache shows with the finalizer and
  not terminating cannot have gone (`Objects`); claims are of FloatingIPs that have the
  finalizer, and none is left at its removal (`Claims`); an address is told to a
  FloatingIP that has none (`Untold`).
* `NoOrphanAlways` ([]`NoOrphanedClaim`) needs all but the last: a worker with a stale
  copy must not claim for an object that is gone, and that it does not is because the
  finalizer of the cached object keeps the real one. `AddressStays` (`AddressNeverMoves`)
  needs `Untold`, which rests on the optimistic lock of the spec update before it.
* `AllocatorAlwaysFollows` ([]`AllocatorFollowsPool`), from `PoolFollowed`: an allocator
  that does not serve the range of the pool has a pass of the pool controller, an event or
  the delete handler ahead of it, and a pass under way with an old range has been
  overtaken by an event that will start another.
* `AssignedSettles` ([]`SettledAssigned`), from `LabelSeen`, and the theorems on
  `NothingForgotten`, from `NeedSeen`. Both say that an object which still needs something
  is `Due`: in the queue, or changed since it was last delivered, or with a worker that
  will requeue it. Every write makes its object due again, every failure requeues, and a
  worker that ends without either (`Onward`, `Unmoved`) has left what it read as it is.
* `ForgottenOnlyByDrop`: `Spec /\ [][~ DropsKey]_vars` implies []`NothingForgotten`. The
  early return of a sync that finds no pool (`SyncNoPool`) is thus the only way to forget
  a FloatingIP; `DroppedKey` shows that it is one. `NobodyForgottenWithPool` has no such
  condition: where the pool is there from the start and is not deleted (`PoolListed`), no
  sync finds none. This is the shape of the run `faults`.
* `TypeCorrect`: `status.available` is a cardinality of a difference, so the range has to
  be finite for it to be a natural number.

`SharingProofs`, about when two FloatingIPs can be told one address. `NoSharedAddress` and
`GrantedNotFree` do not hold of all behaviours (`double_release`, `FailedRead`, and a pool
that is deleted in use). The theorems say that there is no other way:

* Four steps are named: a deletion's release frees an address that another FloatingIP has
  claimed or been told (`ForeignRelease`); the read after a spec update that did land fails
  and the claim is released (`LostRead`); a user changes `spec.ipAddr` (`Repins`); an
  administrator edits or deletes the pool (`PoolChanges`). `Calm` is a step that is none of
  them.
* `UnsharedWhileCalm` and `NotFreeWhileCalm`: `Spec /\ [][Calm]_vars` implies both
  properties. Creations, raced admissions, label edits, deletions, reuse of addresses,
  stale lists, faults and restarts, in any number, are all calm.
* `UnsharedWithoutDeletion`: where nothing is deleted, `ForeignRelease` cannot happen, and
  the hypothesis about it is not needed. This is the shape of the run `grant`.
* The invariant `SInv` comes on top of `MInv`. What carries the argument is `Known` (an
  address that was told is claimed, or in the cache, and in the list that a refresh is
  about to use), `Mine` (nobody was told what another has claimed) and `Working` (an
  allocation under way has its claim), with `Pinned` for the restart: the claim is
  forgotten, but the spec holds the address that the status will get.
* `BurnedOnlyByRepin`: `Spec /\ [][~ Repins]_vars` implies []`SettledNoBurn`. Without
  re-pins, any number of faults, restarts, deletions, pool edits and pool deletions leave
  no address withheld for nobody at rest; `RepinBurn` shows that the condition is needed.
  The invariant `BInv` accounts for what is still to come. What a status says is in the
  spec (`Told`), and a worker's copy is of the object as it is (`Allocating`). A claim is
  pursued until the status has it (`ClaimsSeen`). An address that a refresh has marked for
  nobody has another refresh ahead (`GhostsGo`), because it is in `status.allocated` and
  its removal from there by the deletion is an update of the pool (`AllocGoes`,
  `LastGhost`).

`QuotaProofs`, for any limit and any FloatingIPs:

* `QuotaAlwaysRespected` ([]`QuotaRespected`) from `Invariance`. The webhook counts objects
  of its list and reservations, pairing the young ones off; that this count covers what is
  really held is `UsageCovers`. It needs that what the list has missed still has a
  reservation: an object is persisted within `Latency` of its admission (`Waiting`), and
  what an admission's list does not have was persisted after it was read (`Locked`). The
  assumption `Latency + ListTimeout < TTL` is all that is asked of the times: with the 3 s
  of `ipClaimListTimeout` and the 5 s of `quotaReservationTTL`, an admitted object is
  persisted within 2 s.
* `TypeCorrect`: `status.used` is never negative.
* `StatusSettles` ([]`SettledStatus`), in every behaviour, from the invariant `RInv`. Two
  controllers write the status. While the quota's key is not queued, the quota controller
  has seen it right, or it differs from what the cache calls for only in FloatingIPs on
  which the cache is behind (`Rebuilt`, `Outdated`). For those an event is still to come,
  and it queues the key again. `Granting` says that the FloatingIP a grant is recorded for
  has kept its finalizer, so that its address is one of them; `Releasing` that one the
  cache shows as terminating is worked on until it is gone.

`APIServerProofs`, for any handlers, clients, objects and pools:

* `OnePendingAlways` ([]`OnePendingPerAddress`) from `Placed`: an object that waits for an
  address it names has the name of that pool and address, so two of them are one.
* `ClaimsHold`, and from it `ApprovedAlwaysKeeps` and `ApprovedAlwaysListed`. The invariant
  follows a claim from the write of the labels through the watch (`WorkClaims`) to the
  approval (`HeldClaims`); `Serial` (a client has one question at a time) and `Released`
  keep a client's own release from taking what it has just been told. The attempt to prove
  the claims without exception is how `GroupTakeover` and `NameReused` were found.
* `ApprovedAlwaysListed` is about the list of the pool that the FloatingIP is in, with any
  number of pools that share addresses or not, and whatever pool the request was for: a
  granted FloatingIP has its address in the spec (`Placed`), and its labels are the
  client's.
* `OneFIPAlways` ([]`OneFIPPerService`) from `ServicesHold`, counting FloatingIPs of any
  group. Groups come only from what somebody in the cluster asks for (`Grouped`), so a
  FloatingIP with the Service's labels has the group, and the pinned address, that the
  Service asks for (`SteadyLabels`), and its next request finds it before any other. While
  a request of a Service searches, the Service has nothing yet in the pool, or only what
  its own create left under the pinned name when the answer was lost. The attempt to prove
  it for several groups in a cluster failed on the trace described above, which is why the
  property is restricted to `Steady` requests.

`CertificatesProofs`:

* `PeriodIsSane`, `IntervalIsBounded` and `NextCheckInTime` are about the schedule alone,
  for every period and every age of a certificate: the period is within its bounds, the
  wait is between a minute and the period and at most a third of what is left, and a
  certificate that a check leaves alone has all but a minute of the period left at the
  next one.
* `TypeCorrect` and `SecretAlwaysServable` (`SecretStaysServable`) hold for any pods.
* `AnswersInTime`: []`NeverAnswersExpired` for a pod on its own, with any crashes and dead
  listeners, if the calls that may fail in a row and the deletions of the Secret are
  together fewer than the minutes of the period (`Alone`). TLC finds a counterexample with
  one more. The invariant `AloneInv` keeps a reserve: what the files and the Secret have
  left is never less than the period less one, less one minute for each failure since the
  last success (`InTime`). It is inductive because a certificate that is due is looked at
  again every minute (`RetryEveryMinute`) and because nobody else works on the request and
  the Secret (`Undisturbed`). With several pods the failures of one hold up the others, so
  the bound would be one for all of them together; two pods are left to TLC.

`LBControllerProofs`, for any Services, addresses, groups, workers and bounds:

* In every behaviour, whatever fails and whatever a failed call has done: `Invariance`
  (`LInv`), and from it `TypeCorrect` and `CleanupAlwaysExclusive`. A key is with one
  worker (`Keys`), and the lock of an address is with the worker whose step is under it
  (`Locks`), so no two cleanups check, withdraw or release one address at a time.
* `AdvertisedIsClaimed`, `SettledClaims` and `SettledPools` make exceptions for what goes
  wrong. The theorems are about the behaviours in which nothing of that kind happens,
  and make none. A step is `Calm` if it is not a failed or lost call, a restart, a finalizer
  or an annotation removed by hand, or an annotation that a worker writes on an object
  created after the one it reconciles, under the same name (`AnnotatesAnother`). All else
  is calm, in any number and at any step: names used again, conversions, deletions, a
  cache that lags, relists, resyncs, the Secret removed, groups that share an address.
* `AdvertisedWhileCalm`, `ClaimsSettleWhileCalm` and `PoolsSettleWhileCalm`:
  `Spec /\ [][Calm]_vars` implies that an address that is advertised or has a pool is
  claimed (`NoOrphan`); that at rest the annotations are the claims (`ClaimsRecorded`); and
  that at rest a pool or advertisement is a live Service's (`PoolsRecorded`). Each of the
  three is stronger than the property it stands for, whose exceptions it does not have.
* `AnnotatesAnother` cannot be left out. `updateService` writes on whatever has the name;
  a worker that cleans up after the old object then releases the claim the new one's
  annotation records, and a cached annotation is adopted with no claim behind it. TLC finds
  this with one Service whose name is used again and which is converted, or whose deletion
  comes from a relist: two disturbances, where the run `lb_controller` has one.
* The invariant `CInv` has a part for each place a fact is kept in. `AgesOf`: the objects
  of one name have growing uids, and what the cache and the tombstone have is not newer.
  `CopyOf`: an annotated object is the one its worker has a copy of. `AnnotationsOf` and
  `MarksOf`: what an annotation, a pending marker and a progress mark say of the claims,
  and which step of which worker is the exception. `WorkOf` and `HeldOf`: a claim is on
  record or in the hands of a worker. `Grouped`: the IPAM's answers keep one address per
  Service and group. `Backed` and `DeferredOf`: nothing is on an address without a claim,
  nor will be after the release that a worker is about to make. The last is where the
  address lock is needed: a peer that the in-use check found has its claim until the lock
  is given back (`InUseIsClaimed`).
* Most steps touch one Service only; `Frame` says so, and `OthersKeep`,
  `OtherWorkersKeep` and `WorkerStepKeeps` reduce each action to its own Service and worker.
* `LBAssumption` says that groups and Services are different things: a pool selects by one
  label key or by the other (`lbcontroller/internal/controller/controller.go:970`).

`ClusterManagerProofs`, for any projects, tokens, FloatingIPs and cases:

* `OneLoadBalancerAlways`: the check for the other chart and the install are several steps
  apart; `ConflictChecked` says that what was checked is still so. It holds because one
  worker installs charts and goes by the load balancer it read at the start.
* `ForeignClaimAlwaysKept`: from the types; the label is compared on the object written.
* `CleanupOfDeletedOnly`: a cleanup started from an old copy is of a quota that is still
  being deleted. From it, `CleanupKeepsSecrets`: without steps of the sweeper (`[][~
  Sweeping]_vars`) no live project loses its Secret. `SweeperSparesKnown`: without
  creations (`[][NoCreation]_vars`) it keeps it with the sweeper too. `LiveKeepsSecret`
  alone does not hold (`SweepRace`); the two theorems say that it takes both.
* The assumption on tokens, that there is always one which is not among three, stands for
  tokens being random.

Only model-checked:

* liveness under fairness (`DeletionCompletes`, `AlwaysReadyAgain`, `ChartsConverge`,
  `SecretsConverge`, `DeletionFinishes`, `ClaimsReleased`): out of the prover's reach;
* the load-balancer controller with a failure, a restart or an edit by hand: there its
  properties hold for the disturbances of the run only, within the exceptions they state;
* two pods under `NeverAnswersExpired`.

## Not modelled

* Metrics and usage, authentication, middleware, token handler: they report or are local
  to a request. Webhook registration writes one object at start.
* PureLB (its branches mirror MetalLB's with one object instead of two), static addresses,
  pools of earlier releases and the branch for an overlapping pool in the load-balancer
  controller; its HTTP status page.
* Helm repositories and their locks; the Harvester lookups are one call that may fail.
* Leader election: one process at a time is assumed, as the lease promises.
* Service lists and conditions in FloatingIP statuses; generated clients and manifests.

## Plan

Every invariant and action property of a passing run is stated by a theorem, some of them
under the conditions given above. Next would be `APIServer` as an implementation of the
IPAM that `LBController` assumes.
