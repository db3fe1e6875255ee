---------------------------- MODULE SharingProofs ----------------------------
(***************************************************************************)
(* When can two FloatingIPs be told the same address?  The proofs here say *)
(* that it takes one of four things: a retried deletion that frees what is *)
(* another's by now, a lost read after a spec update that did land, a user *)
(* who changes spec.ipAddr, or a pool that is edited or deleted in use.    *)
(* Without them, any number of creations, outdated admissions, label       *)
(* edits, deletions, failing calls and restarts, with any number of        *)
(* workers, leave every address with one FloatingIP.                       *)
(*                                                                         *)
(* And when is an address burned, that is withheld from everybody for      *)
(* nobody?  At rest, only after a user has changed spec.ipAddr.            *)
(***************************************************************************)
EXTENDS ManagerProofs

-----------------------------------------------------------------------------
(* What is excluded                                                        *)

\* The read that should tell whether the spec update landed fails, although
\* it did land, and the claim is given back.
LostRead(w) ==
    /\ At(w, "specerr")
    /\ fip[workers[w].key].live /\ fip[workers[w].key].spec = workers[w].ip
    /\ ipam' # ipam

\* reconcileDelete's ReleaseIP frees an address that another FloatingIP has
\* claimed or been told.
ForeignRelease(w) ==
    /\ At(w, "release")
    /\ ipam' # ipam
    /\ \/ ipam.owners[workers[w].ip] \notin {NoOwner, workers[w].key}
       \/ \E g \in Owner \ {workers[w].key} : Granted(g) /\ fip[g].status = workers[w].ip

Repins == \E f \in Owner : \E a \in Addr : UserRepin(f, a)

PoolChanges == AdminDeletePool \/ \E c \in Configs : AdminEditPool(c)

Steady == ~ Repins /\ ~ PoolChanges /\ \A w \in Worker : ~ LostRead(w)

Calm == Steady /\ \A w \in Worker : ~ ForeignRelease(w)

-----------------------------------------------------------------------------
(* The inductive invariant, on top of the manager's                        *)

\* A terminating copy in the cache is not of an older FloatingIP of the name,
\* once the new one has the finalizer; so nobody releases for a FloatingIP
\* that is not on its way out.
Deleted ==
    \A f \in Owner :
        /\ fip[f].status # NoIP => fip[f].fin
        /\ cache[f].del /\ fip[f].fin => fip[f].del
        /\ \A w \in Worker : workers[w].key = f =>
              /\ workers[w].pc = "addfin" /\ cache[f].del => fip[f].del
              /\ workers[w].pc \in Going => ~ Granted(f)

\* Everybody has the pool's range, or none.
OnePool ==
    /\ ~ pgone /\ ~ delEvt
    /\ pcache.live => pool.live /\ pcache.cfg = pool.cfg
    /\ pworker.pc # "idle" => pool.live /\ pworker.cfg = pool.cfg
    /\ ipam.ips # {} => pool.live /\ ipam.ips = buildSubnet(pool.cfg).ips

Marked == \A a \in Addr : ipam.owners[a] # NoOwner => a \in ipam.used

\* The address told is the address in the spec.
Pinned ==
    /\ \A f \in Owner : fip[f].status # NoIP => fip[f].spec = fip[f].status
    /\ \A w \in Worker : workers[w].pc = "status" => fip[workers[w].key].spec = workers[w].ip

\* An allocation under way has its claim.
Working == \A w \in Worker : workers[w].pc \in {"spec", "status"} => ClaimOf(workers[w].key, workers[w].ip)

\* An address told is claimed, or the cache knows of it; and if the pool
\* controller has made its list already, it is in the list.
Known ==
    \A f \in Owner : Granted(f) =>
        /\ ClaimOf(f, fip[f].status) \/ (cache[f].live /\ ~ cache[f].del /\ cache[f].status = fip[f].status)
        /\ pworker.pc = "refresh" => ClaimOf(f, fip[f].status) \/ fip[f].status \in pworker.list

\* Nobody has been told an address that another has claimed.
Mine == \A a \in Addr : \A f, g \in Owner : f # g /\ ipam.owners[a] = f /\ Granted(g) => fip[g].status # a

SInv == Deleted /\ OnePool /\ Marked /\ Pinned /\ Working /\ Known /\ Mine /\ GrantedNotFree /\ NoSharedAddress

-----------------------------------------------------------------------------
(* Who is told, and who is deleted                                         *)

\* A worker that tells an address has claimed it for a FloatingIP with the
\* finalizer.
LEMMA TellsClaim ==
  ASSUME MInv, SInv, NEW w \in Worker, workers[w].pc = "status"
  PROVE  /\ ClaimOf(workers[w].key, workers[w].ip)
         /\ workers[w].key \in Owner /\ workers[w].ip \in Addr
         /\ fip[workers[w].key].live /\ fip[workers[w].key].fin
<1>1. ClaimOf(workers[w].key, workers[w].ip)
  BY DEF SInv, Working
<1>2. workers[w].key \in Owner /\ workers[w].ip \in Addr
  BY DEF MInv, TypeOK, Keys, WorkerState
<1>3. workers[w].ip \in OwnedBy(ipam, workers[w].key)
  BY <1>1, <1>2 DEF ClaimOf, OwnedBy
<1> QED BY <1>1, <1>2, <1>3 DEF MInv, Claims

\* Whoever is granted an address was so before, or is told it in this step.
LEMMA GrantSteps ==
  ASSUME MInv, SInv, FipStep, NEW f \in Owner, Granted(f)'
  PROVE  \/ Granted(f) /\ fip'[f].status = fip[f].status
         \/ \E w \in Worker : Tells(w, f)
<1>1. fip'[f].live /\ ~ fip'[f].del /\ fip'[f].status # NoIP
  BY DEF Granted
<1>2. CASE Changed(f)
  BY <1>1, <1>2 DEF Changed, Granted
<1>3. CASE fip'[f] = fip[f]
  BY <1>1, <1>3 DEF Granted
<1>4. ~ Born(f) /\ ~ Dies(f)
  BY <1>1 DEF Born, Dies, Gone
<1> QED BY <1>2, <1>3, <1>4 DEF FipStep

\* Two workers have no key in common.
LEMMA KeyApart ==
  ASSUME MInv, NEW v \in Worker, NEW w \in Worker, workers[v].key = workers[w].key, workers[v].pc # "idle"
  PROVE  v = w
  BY DEF MInv, Keys

\* Neither a copy from an earlier life of the name nor a late worker makes a
\* FloatingIP look deleted that is not.
LEMMA DeletedKept ==
  ASSUME MInv, SInv, WorkerStep, FipStep, CacheStep
  PROVE  Deleted'
<1>1. ASSUME NEW f \in Owner, fip'[f].status # NoIP
      PROVE  fip'[f].fin
  <2>1. fip[f].status # NoIP => fip[f].fin
    BY DEF SInv, Deleted
  <2>2. ASSUME NEW w \in Worker, Tells(w, f)
        PROVE  fip[f].fin
    BY <2>2, TellsClaim DEF Tells
  <2> QED BY <1>1, <2>1, <2>2 DEF FipStep, Born, Changed, Dies, Gone
<1>2. ASSUME NEW f \in Owner, cache'[f].del, fip'[f].fin
      PROVE  fip'[f].del
  <2>1. cache[f].del /\ fip[f].fin => fip[f].del
    BY DEF SInv, Deleted
  <2>2. ASSUME cache[f].del, NEW w \in Worker, Finalizes(w, f)
        PROVE  fip[f].del
    BY <2>2 DEF SInv, Deleted, Finalizes
  <2>3. CASE cache'[f] = fip[f] /\ fip'[f] = fip[f]
    BY <1>2, <2>3
  <2>4. CASE cache'[f] = cache[f]
    BY <1>2, <2>1, <2>2, <2>4 DEF FipStep, Born, Changed, Dies, Gone
  <2> QED BY <2>3, <2>4 DEF CacheStep
<1>3. ASSUME NEW f \in Owner, NEW w \in Worker, workers'[w].key = f, workers'[w].pc = "addfin", cache'[f].del
      PROVE  fip'[f].del
  <2>1. Stays(w) \/ Enters(w, f)
    BY <1>3 DEF WorkerStep, OnlyOne, Ends, GoesOn, Enters
  <2>2. CASE Enters(w, f)
    BY <1>3, <2>2 DEF Enters
  <2>3. CASE Stays(w) /\ cache'[f] = cache[f]
    <3>1. workers[w].key = f /\ workers[w].pc = "addfin"
      BY <1>3, <2>3 DEF Stays
    <3>2. fip[f].del /\ fip[f].fin /\ fip[f].live
      BY <1>3, <2>3, <3>1 DEF SInv, Deleted, MInv, TypeOK, Objects, Gone
    <3>3. ~ Dies(f)
      BY <3>1, <3>2, KeyApart DEF Dies
    <3> QED BY <3>2, <3>3 DEF FipStep, Born, Changed
  <2>4. CASE cache'[f] = fip[f] /\ fip'[f] = fip[f]
    BY <1>3, <2>4
  <2> QED BY <2>1, <2>2, <2>3, <2>4 DEF CacheStep
<1>4. ASSUME NEW f \in Owner, NEW w \in Worker, workers'[w].key = f, workers'[w].pc \in Going, Granted(f)'
      PROVE  FALSE
  <2>1. Stays(w) \/ GoesOn(w) \/ Enters(w, f)
    BY <1>4 DEF WorkerStep, OnlyOne, Ends, Enters, Going
  <2>2. CASE Enters(w, f)
    <3>1. cache[f].del /\ \A v \in Worker : workers[v].key # f
      BY <1>4, <2>2 DEF Enters, Going
    <3>2. ~ Granted(f)
      BY <3>1 DEF SInv, Deleted, Granted
    <3> QED BY <1>4, <3>1, <3>2, GrantSteps DEF Tells
  <2>3. CASE Stays(w) \/ GoesOn(w)
    <3>1. workers[w].key = f /\ workers[w].pc \in Going
      BY <1>4, <2>3 DEF Stays, GoesOn, Going
    <3>2. ~ Granted(f)
      BY <3>1 DEF SInv, Deleted
    <3>3. ASSUME NEW v \in Worker, Tells(v, f)
          PROVE  FALSE
      BY <3>1, <3>3, KeyApart DEF Tells, Going
    <3> QED BY <1>4, <3>2, <3>3, GrantSteps
  <2> QED BY <2>1, <2>2, <2>3
<1> QED BY <1>1, <1>2, <1>3, <1>4 DEF Deleted

-----------------------------------------------------------------------------
(* What a step does to the claims                                          *)

Has(s, f, a) == a \in s.used /\ s.owners[a] = f

\* Claims that matter are kept, new ones are on addresses that were free, and
\* no address told goes on offer.
HoldsOn ==
    /\ \A b \in Addr : ipam'.owners[b] # NoOwner => b \in ipam'.used
    /\ \A b \in Addr : \A f \in Owner : ipam'.owners[b] = f => ipam.owners[b] = f \/ b \in Free(ipam)
    /\ \A g \in Owner : Granted(g) /\ Has(ipam, g, fip[g].status) => Has(ipam', g, fip[g].status)
    /\ \A g \in Owner : Granted(g) /\ fip[g].status \in ipam'.ips => fip[g].status \in ipam'.used
    /\ \A v \in Worker : workers[v].pc \in {"spec", "status"} => Has(ipam', workers[v].key, workers[v].ip)

\* The pool controller's list is the one it had, or has just been taken.
ListStep ==
    pworker'.pc = "refresh" =>
        \/ pworker.pc = "refresh" /\ pworker'.list = pworker.list
        \/ pworker'.list = ListAllocations /\ UNCHANGED <<fip, cache, ipam>>

ClaimParts == Marked /\ Working /\ Known /\ Mine /\ GrantedNotFree /\ NoSharedAddress

\* Such a step leaves every address with one FloatingIP.
LEMMA HoldsOnKeeps ==
  ASSUME MInv, SInv, HoldsOn, FipStep, WorkerStep, CacheStep, ListStep
  PROVE  ClaimParts'
<1>s. Marked /\ Working /\ Known /\ Mine /\ GrantedNotFree /\ NoSharedAddress
  BY DEF SInv
<1>g. ASSUME NEW f \in Owner, Granted(f)'
      PROVE  \/ Granted(f) /\ fip'[f].status = fip[f].status
             \/ Has(ipam', f, fip'[f].status)
  BY <1>g, GrantSteps DEF Tells, HoldsOn
<1>a. ASSUME NEW f \in Owner, Granted(f)'
      PROVE  fip'[f].status \in Addr
  BY <1>a DEF FipStep, FloatingIP, IPOrNone, Granted
<1>1. Marked'
  BY DEF HoldsOn, Marked
<1>2. Working'
  <2>1. ASSUME NEW w \in Worker, workers'[w].pc \in {"spec", "status"}
        PROVE  Has(ipam', workers'[w].key, workers'[w].ip)
    <3>1. Stays(w) \/ GoesOn(w) \/ \E f \in Owner : Enters(w, f)
      BY <2>1 DEF WorkerStep, OnlyOne, Ends
    <3>2. CASE Stays(w)
      BY <2>1, <3>2 DEF Stays, HoldsOn
    <3>3. CASE GoesOn(w)
      BY <2>1, <3>3 DEF GoesOn, HoldsOn
    <3>4. CASE \E f \in Owner : Enters(w, f)
      BY <2>1, <3>4 DEF Enters, ClaimOf, Has
    <3> QED BY <3>1, <3>2, <3>3, <3>4
  <2> QED BY <2>1 DEF Working, ClaimOf, Has
<1>3. Mine'
  <2>1. SUFFICES ASSUME NEW a \in Addr, NEW f \in Owner, NEW g \in Owner, f # g, ipam'.owners[a] = f, Granted(g)',
                        fip'[g].status = a
                 PROVE  FALSE
    BY DEF Mine
  <2>2. Granted(g) /\ fip[g].status = a
    BY <1>g, <2>1 DEF Has
  <2>3. ipam.owners[a] = f \/ a \in Free(ipam)
    BY <2>1 DEF HoldsOn
  <2> QED BY <1>s, <2>1, <2>2, <2>3 DEF Mine, GrantedNotFree
<1>4. GrantedNotFree'
  <2>1. ASSUME NEW f \in Owner, Granted(f)', fip'[f].status \in ipam'.ips
        PROVE  fip'[f].status \in ipam'.used
    BY <1>g, <2>1 DEF HoldsOn, Has
  <2> QED BY <2>1 DEF GrantedNotFree, Free
<1>5. NoSharedAddress'
  <2>1. SUFFICES ASSUME NEW f \in Owner, NEW g \in Owner, f # g, Granted(f)', Granted(g)',
                        fip'[f].status = fip'[g].status
                 PROVE  FALSE
    BY DEF NoSharedAddress
  <2>2. fip'[f].status \in Addr
    BY <1>a, <2>1
  <2>3. CASE Has(ipam', f, fip'[f].status)
    BY <1>3, <2>1, <2>2, <2>3 DEF Mine, Has
  <2>4. CASE Has(ipam', g, fip'[g].status)
    BY <1>3, <2>1, <2>2, <2>4 DEF Mine, Has
  <2>5. CASE Granted(f) /\ Granted(g) /\ fip'[f].status = fip[f].status /\ fip'[g].status = fip[g].status
    BY <1>s, <2>1, <2>5 DEF NoSharedAddress
  <2> QED BY <1>g, <2>1, <2>3, <2>4, <2>5
<1>6. Known'
  <2>1. ASSUME NEW f \in Owner, Granted(f)'
        PROVE  \/ Has(ipam', f, fip'[f].status)
               \/ cache'[f].live /\ ~ cache'[f].del /\ cache'[f].status = fip'[f].status
    <3>1. CASE Granted(f) /\ fip'[f].status = fip[f].status
      <4>1. CASE Has(ipam, f, fip[f].status)
        BY <3>1, <4>1 DEF HoldsOn
      <4>2. CASE cache[f].live /\ ~ cache[f].del /\ cache[f].status = fip[f].status
        BY <2>1, <3>1, <4>2 DEF CacheStep, Granted
      <4> QED BY <1>s, <3>1, <4>1, <4>2 DEF Known, ClaimOf, Has
    <3> QED BY <1>g, <2>1, <3>1
  <2>2. ASSUME NEW f \in Owner, Granted(f)', pworker'.pc = "refresh"
        PROVE  Has(ipam', f, fip'[f].status) \/ fip'[f].status \in pworker'.list
    <3>1. CASE pworker.pc = "refresh" /\ pworker'.list = pworker.list
      <4>1. CASE Granted(f) /\ fip'[f].status = fip[f].status
        <5>1. Has(ipam, f, fip[f].status) \/ fip[f].status \in pworker.list
          BY <1>s, <3>1, <4>1 DEF Known, ClaimOf, Has
        <5> QED BY <3>1, <4>1, <5>1 DEF HoldsOn
      <4> QED BY <1>g, <2>2, <4>1
    <3>2. CASE pworker'.list = ListAllocations /\ UNCHANGED <<fip, cache, ipam>>
      <4>1. Granted(f)
        BY <2>2, <3>2 DEF Granted
      <4>2. fip[f].status # NoIP
        BY <4>1 DEF Granted
      <4>3. Has(ipam, f, fip[f].status) \/ (cache[f].live /\ ~ cache[f].del /\ cache[f].status = fip[f].status)
        BY <1>s, <4>1 DEF Known, ClaimOf, Has
      <4> QED BY <3>2, <4>2, <4>3 DEF ListAllocations
    <3> QED BY <2>2, <3>1, <3>2 DEF ListStep
  <2> QED BY <2>1, <2>2 DEF Known, ClaimOf, Has
<1> QED BY <1>1, <1>2, <1>3, <1>4, <1>5, <1>6 DEF ClaimParts

\* A claim is made on a free address, or made again by its owner.
LEMMA TakeHolds ==
  ASSUME MInv, SInv, NEW f \in Owner, NEW a \in GetIPOwned(ipam, cache[f].spec, f), ipam' = Claim(ipam, a, f)
  PROVE  HoldsOn /\ ipam'.ips = ipam.ips
<1>t. ipam \in Subnet /\ ipam.used \subseteq ipam.ips /\ Marked /\ Working /\ GrantedNotFree
  BY DEF MInv, TypeOK, SInv
<1>1. a \in Addr /\ (a \in Free(ipam) \/ Has(ipam, f, a))
  BY <1>t DEF GetIPOwned, getIP, Free, Has, Subnet
<1> DEFINE o == [ipam.owners EXCEPT ![a] = f]
<1>2. \A b \in Addr : o[b] = IF b = a THEN f ELSE ipam.owners[b]
  BY <1>1, <1>t DEF Subnet
<1>3. ipam' = [ipam EXCEPT !.used = ipam.used \cup {a}, !.owners = o]
  BY DEF Claim
<1> HIDE DEF o
<1>4. ipam'.ips = ipam.ips /\ ipam'.used = ipam.used \cup {a} /\ ipam'.owners = o
  BY <1>3, <1>t DEF Subnet
<1>k. ASSUME NEW g, NEW b, Has(ipam, g, b), b \in Addr
      PROVE  Has(ipam', g, b)
  BY <1>1, <1>2, <1>4, <1>k DEF Has, Free
<1>5. ASSUME NEW g \in Owner, Granted(g)
      PROVE  /\ fip[g].status \in Addr
             /\ fip[g].status \in ipam.ips => fip[g].status \in ipam.used
  BY <1>5, <1>t DEF MInv, TypeOK, FloatingIP, IPOrNone, Granted, GrantedNotFree, Free
<1>6. ASSUME NEW v \in Worker, workers[v].pc \in {"spec", "status"}
      PROVE  workers[v].ip \in Addr /\ Has(ipam, workers[v].key, workers[v].ip)
  BY <1>6, <1>t DEF MInv, Keys, Working, ClaimOf, Has
<1> QED BY <1>1, <1>2, <1>4, <1>5, <1>6, <1>k, <1>t DEF HoldsOn, Marked, Has

\* Claims that nobody needs any more are dropped.
Drops(D) ==
    /\ ipam'.ips = ipam.ips
    /\ \A b \in Addr \ D : ipam'.owners[b] = ipam.owners[b] /\ (b \in ipam'.used <=> b \in ipam.used)
    /\ \A b \in Addr \cap D : ipam'.owners[b] = NoOwner /\ b \notin ipam'.used

\* Nobody misses a claim that is dropped, if it is neither told nor worked on.
LEMMA DropHolds ==
  ASSUME MInv, SInv, NEW D, Drops(D),
         \A g \in Owner : Granted(g) => fip[g].status \notin D,
         \A v \in Worker : workers[v].pc \in {"spec", "status"} => workers[v].ip \notin D
  PROVE  HoldsOn
<1>t. Marked /\ Working /\ GrantedNotFree
  BY DEF SInv
<1>5. ASSUME NEW g \in Owner, Granted(g)
      PROVE  /\ fip[g].status \in Addr \ D
             /\ fip[g].status \in ipam.ips => fip[g].status \in ipam.used
  BY <1>5, <1>t DEF MInv, TypeOK, FloatingIP, IPOrNone, Granted, GrantedNotFree, Free
<1>6. ASSUME NEW v \in Worker, workers[v].pc \in {"spec", "status"}
      PROVE  workers[v].ip \in Addr \ D /\ Has(ipam, workers[v].key, workers[v].ip)
  BY <1>6, <1>t DEF MInv, Keys, Working, ClaimOf, Has
<1> QED BY <1>5, <1>6, <1>t, OwnerAssumption DEF HoldsOn, Marked, Has, Drops

\* A release drops one address.
LEMMA ReleaseDrops ==
  ASSUME Fit(ipam), NEW a, ipam' = releaseIP(ipam, a)
  PROVE  Drops({a})
<1> DEFINE o == [ipam.owners EXCEPT ![a] = NoOwner]
<1>2. \A b \in Addr : o[b] = IF b = a THEN NoOwner ELSE ipam.owners[b]
  BY DEF Fit, Subnet
<1>3. ipam' = [ipam EXCEPT !.used = ipam.used \ {a}, !.owners = o]
  BY DEF releaseIP
<1> HIDE DEF o
<1>4. ipam'.ips = ipam.ips /\ ipam'.used = ipam.used \ {a} /\ ipam'.owners = o
  BY <1>3 DEF Fit, Subnet
<1> QED BY <1>2, <1>4 DEF Drops

\* The sweep, after a release of one of the owner's addresses or without one.
LEMMA SweepDrops ==
  ASSUME Fit(ipam), NEW f \in Owner, NEW s, s = ipam \/ \E c : s = OwnedRelease(c, f), ipam' = ReleaseAllByOwner(s, f)
  PROVE  Drops(OwnedBy(ipam, f))
<1> DEFINE D == OwnedBy(ipam, f)
<1>1. /\ Fit(s) /\ s.ips = ipam.ips
      /\ \A b \in Addr \ D : s.owners[b] = ipam.owners[b] /\ (b \in s.used <=> b \in ipam.used)
      /\ \A b \in Addr \cap D : s.owners[b] = f \/ (s.owners[b] = NoOwner /\ b \notin s.used)
  <2>1. CASE s = ipam
    BY <2>1 DEF OwnedBy
  <2>2. ASSUME NEW c, s = releaseIP(ipam, c), Releasable(ipam, c), ~ ForeignClaim(ipam, c, f)
        PROVE  <1>1!:
    <3> DEFINE o == [ipam.owners EXCEPT ![c] = NoOwner]
    <3>0. c \in D
      BY <2>2 DEF ForeignClaim, Releasable, Fit, Subnet, OwnedBy
    <3>2. \A b \in Addr : o[b] = IF b = c THEN NoOwner ELSE ipam.owners[b]
      BY DEF Fit, Subnet
    <3>3. s = [ipam EXCEPT !.used = ipam.used \ {c}, !.owners = o]
      BY <2>2 DEF releaseIP
    <3> HIDE DEF o
    <3>4. s.ips = ipam.ips /\ s.used = ipam.used \ {c} /\ s.owners = o
      BY <3>3 DEF Fit, Subnet
    <3>5. Fit(s)
      BY <2>2, ReleaseFits
    <3> QED BY <3>0, <3>2, <3>4, <3>5 DEF OwnedBy
  <2> QED BY <2>1, <2>2 DEF OwnedRelease
<1> DEFINE o == [a \in Addr |-> IF s.owners[a] = f THEN NoOwner ELSE s.owners[a]]
           u == s.used \ (OwnedBy(s, f) \cap s.ips)
<1>3. ipam' = [s EXCEPT !.used = u, !.owners = o]
  BY DEF ReleaseAllByOwner
<1>4. \A b \in Addr : /\ o[b] = IF s.owners[b] = f THEN NoOwner ELSE s.owners[b]
                      /\ s.owners[b] # f => (b \in u <=> b \in s.used)
                      /\ s.owners[b] = f => b \notin u
  BY <1>1 DEF OwnedBy, Fit
<1> HIDE DEF o, u
<1>5. ipam'.ips = s.ips /\ ipam'.used = u /\ ipam'.owners = o
  BY <1>1, <1>3 DEF Fit, Subnet
<1>6. \A b \in Addr \ D : s.owners[b] # f
  BY <1>1 DEF OwnedBy
<1>7. \A b \in Addr \cap D : o[b] = NoOwner /\ b \notin u
  BY <1>1, <1>4, OwnerAssumption
<1> HIDE DEF D
<1> QED BY <1>1, <1>4, <1>5, <1>6, <1>7 DEF Drops, D

\* The refresh marks what its list has and carries over what is claimed: that is
\* every address told, as long as the range is the one there was.
LEMMA RefreshHolds ==
  ASSUME MInv, SInv, pworker.pc = "refresh", ipam' = Refreshed(ipam, pworker.cfg, Excludes, pworker.list)
  PROVE  HoldsOn /\ ipam'.ips = buildSubnet(pworker.cfg).ips
<1> DEFINE c    == pworker.cfg
           b    == buildSubnet(c)
           kept == Carried(ipam, b)
           u    == b.used \cup ((Excludes \cup pworker.list \cup kept) \cap b.ips)
           o    == [a \in Addr |-> IF a \in kept THEN ipam.owners[a] ELSE NoOwner]
           t    == [[b EXCEPT !.used = u] EXCEPT !.owners = o]
<1>t. ipam \in Subnet /\ ipam.used \subseteq ipam.ips /\ OnePool /\ Working /\ Known
  BY DEF MInv, TypeOK, SInv
<1>1. ipam' = t
  BY DEF Refreshed, MarkUsed
<1>2. b \in Subnet
  BY DEF buildSubnet, Absent, Subnet
<1>3. \A a \in Addr : /\ o[a] = IF a \in kept THEN ipam.owners[a] ELSE NoOwner
                      /\ a \in kept <=> a \in b.ips /\ a \in ipam.used /\ ipam.owners[a] # NoOwner
                      /\ a \in b.ips /\ (a \in pworker.list \/ a \in kept) => a \in u
  BY DEF Carried
<1>4. ipam.ips # {} => ipam.ips = b.ips
  BY <1>t DEF OnePool
<1> HIDE DEF b, u, o, kept
<1>5. ipam'.ips = b.ips /\ ipam'.used = u /\ ipam'.owners = o
  BY <1>1, <1>2 DEF Subnet
<1> HIDE DEF t
<1>k. ASSUME NEW g \in Owner, NEW a \in Addr, Has(ipam, g, a)
      PROVE  Has(ipam', g, a)
  BY <1>3, <1>4, <1>5, <1>k, <1>t, OwnerAssumption DEF Has
<1>6. ASSUME NEW g \in Owner, Granted(g)
      PROVE  /\ fip[g].status \in Addr
             /\ Has(ipam, g, fip[g].status) \/ fip[g].status \in pworker.list
  BY <1>6, <1>t DEF MInv, TypeOK, FloatingIP, IPOrNone, Granted, Known, ClaimOf, Has
<1>7. ASSUME NEW v \in Worker, workers[v].pc \in {"spec", "status"}
      PROVE  workers[v].ip \in Addr /\ Has(ipam, workers[v].key, workers[v].ip) /\ workers[v].key \in Owner
  BY <1>7, <1>t DEF MInv, TypeOK, WorkerState, Keys, Working, ClaimOf, Has
<1>8. \A f \in Owner : \A a \in Addr : o[a] = f => ipam.owners[a] = f
  BY <1>3, OwnerAssumption
<1>9. \A a \in Addr : o[a] # NoOwner => a \in u
  BY <1>3
<1>10. ASSUME NEW g \in Owner, Granted(g), fip[g].status \in b.ips
       PROVE  fip[g].status \in u
  BY <1>10, <1>3, <1>5, <1>6, <1>k DEF Has
<1> QED BY <1>5, <1>6, <1>7, <1>8, <1>9, <1>10, <1>k DEF HoldsOn, b, c

\* A step that leaves the allocator alone.
LEMMA SameHolds ==
  ASSUME MInv, SInv, UNCHANGED ipam
  PROVE  HoldsOn
<1>1. Drops({})
  BY DEF Drops
<1> QED BY <1>1, DropHolds

\* The allocator serves the range it served, none, or that of a refresh.
RangeStep ==
    \/ ipam'.ips \in {{}, ipam.ips}
    \/ pworker.pc = "refresh" /\ ipam'.ips = buildSubnet(pworker.cfg).ips

\* A worker that allocates or gives an address back takes nothing from anybody
\* else.
LEMMA WorkerHolds ==
  ASSUME MInv, SInv, NEW w \in Worker, FipWorker(w), ~ LostRead(w), ~ ForeignRelease(w)
  PROVE  HoldsOn /\ ipam'.ips = ipam.ips
<1>s. Deleted /\ Pinned /\ Working /\ Mine /\ Fit(ipam) /\ cache \in [Owner -> FloatingIP]
  BY DEF SInv, MInv, TypeOK, Fit
<1>u. UNCHANGED ipam => HoldsOn /\ ipam'.ips = ipam.ips
  BY SameHolds
<1>k. workers[w].pc # "idle" => workers[w].key \in Owner
  BY DEF MInv, TypeOK, Keys, WorkerState
<1>v. ASSUME NEW v \in Worker, workers[v].pc \in {"spec", "status"}
      PROVE  workers[v].ip \in Addr /\ workers[v].key \in Owner /\ ipam.owners[workers[v].ip] = workers[v].key
  BY <1>v, <1>s DEF MInv, TypeOK, WorkerState, Keys, Working, ClaimOf
<1>d. ASSUME NEW D, Drops(D),
             \A g \in Owner : Granted(g) => fip[g].status \notin D,
             \A v \in Worker : workers[v].pc \in {"spec", "status"} => workers[v].ip \notin D
      PROVE  HoldsOn /\ ipam'.ips = ipam.ips
  BY <1>d, DropHolds DEF Drops
<1>w. ASSUME NEW f \in Owner, ~ Granted(f), Drops(OwnedBy(ipam, f)),
             \A v \in Worker : workers[v].pc \in {"spec", "status"} => workers[v].key # f
      PROVE  HoldsOn /\ ipam'.ips = ipam.ips
  <2>1. ASSUME NEW g \in Owner, Granted(g), fip[g].status \in OwnedBy(ipam, f)
        PROVE  FALSE
    <3>1. fip[g].status \in Addr /\ ipam.owners[fip[g].status] = f
      BY <2>1 DEF OwnedBy
    <3> QED BY <1>s, <1>w, <2>1, <3>1 DEF Mine
  <2>2. ASSUME NEW v \in Worker, workers[v].pc \in {"spec", "status"}, workers[v].ip \in OwnedBy(ipam, f)
        PROVE  FALSE
    BY <1>v, <1>w, <2>2 DEF OwnedBy
  <2> QED BY <1>w, <1>d, <2>1, <2>2
<1>1. ASSUME NEW f \in Owner, Sync(w, f)
      PROVE  HoldsOn /\ ipam'.ips = ipam.ips
  <2>1. CASE SyncAllocate(w, f)
    <3>1. UNCHANGED ipam \/ \E a \in GetIPOwned(ipam, cache[f].spec, f) : ipam' = Claim(ipam, a, f)
      BY <2>1 DEF SyncAllocate
    <3> QED BY <1>u, <3>1, TakeHolds
  <2>2. CASE SyncDeleteUnallocated(w, f)
    <3>1. /\ cache[f].del /\ \A v \in Worker : workers[v].key # f
          /\ ipam' = ReleaseAllByOwner(OwnedRelease(cache[f].spec, f), f)
      BY <2>2 DEF SyncDeleteUnallocated, TakeKey
    <3>2. ~ Granted(f)
      BY <1>s, <3>1 DEF Deleted, Granted
    <3>3. Drops(OwnedBy(ipam, f))
      BY <1>s, <3>1, SweepDrops
    <3> QED BY <1>w, <3>1, <3>2, <3>3
  <2>3. CASE UNCHANGED ipam
    BY <1>u, <2>3
  <2> QED BY <1>1, <2>1, <2>2, <2>3 DEF Sync, SyncNothing, SyncAddFinalizer, SyncAssigned, SyncNoPool, SyncDelete
<1>2. CASE SpecFailed(w)
  <2> DEFINE f == workers[w].key
             a == workers[w].ip
  <2>1. workers[w].pc = "specerr" /\ f \in Owner
    BY <1>2, <1>k DEF SpecFailed, At
  <2>2. CASE ipam' # ipam
    <3>1. ipam' = releaseIP(ipam, a) /\ Releasable(ipam, a) /\ ~ ForeignClaim(ipam, a, f)
      BY <1>2, <2>2 DEF SpecFailed, OwnedRelease
    <3>2. a \in Addr /\ ipam.owners[a] = f
      BY <1>s, <3>1 DEF Releasable, ForeignClaim, Fit, Subnet
    <3>3. ~ (fip[f].live /\ fip[f].spec = a)
      BY <2>1, <2>2 DEF LostRead, At
    <3>4. ASSUME NEW g \in Owner, Granted(g), fip[g].status = a
          PROVE  FALSE
      BY <1>s, <2>1, <3>2, <3>3, <3>4 DEF Pinned, Granted, Mine
    <3>5. ASSUME NEW v \in Worker, workers[v].pc \in {"spec", "status"}, workers[v].ip = a
          PROVE  FALSE
      <4>1. workers[v].key = f
        BY <1>v, <3>2, <3>5
      <4> QED BY <2>1, <3>5, <4>1, KeyApart
    <3>6. Drops({a})
      BY <1>s, <3>1, ReleaseDrops
    <3> HIDE DEF a
    <3> QED BY <1>d, <3>4, <3>5, <3>6 DEF a
  <2> QED BY <1>u, <2>2
<1>3. CASE DeleteRelease(w)
  <2> DEFINE f == workers[w].key
             a == workers[w].ip
  <2>1. workers[w].pc = "release" /\ f \in Owner
    BY <1>3, <1>k DEF DeleteRelease, At
  <2>2. CASE ipam' # ipam
    <3>1. ipam' = releaseIP(ipam, a) /\ Releasable(ipam, a)
      BY <1>3, <2>2 DEF DeleteRelease, PoolFault
    <3>2. ipam.owners[a] \in {NoOwner, f} /\ \A g \in Owner \ {f} : ~ (Granted(g) /\ fip[g].status = a)
      BY <2>1, <2>2 DEF ForeignRelease, At
    <3>3. ~ Granted(f)
      BY <1>s, <2>1 DEF Deleted, Going
    <3>4. ASSUME NEW v \in Worker, workers[v].pc \in {"spec", "status"}, workers[v].ip = a
          PROVE  FALSE
      <4>1. workers[v].key = f
        BY <1>v, <3>2, <3>4, OwnerAssumption
      <4> QED BY <2>1, <3>4, <4>1, KeyApart
    <3>5. Drops({a})
      BY <1>s, <3>1, ReleaseDrops
    <3> HIDE DEF a
    <3> QED BY <1>d, <3>2, <3>3, <3>4, <3>5 DEF a
  <2> QED BY <1>u, <2>2
<1>4. CASE DeletePoolStatus(w)
  <2> DEFINE f == workers[w].key
  <2>1. workers[w].pc = "delpool" /\ f \in Owner
    BY <1>4, <1>k DEF DeletePoolStatus, At
  <2>2. CASE ipam' = ReleaseAllByOwner(ipam, f)
    <3>1. ~ Granted(f)
      BY <1>s, <2>1 DEF Deleted, Going
    <3>2. \A v \in Worker : workers[v].pc \in {"spec", "status"} => workers[v].key # f
      BY <2>1, KeyApart
    <3>3. Drops(OwnedBy(ipam, f))
      BY <1>s, <2>1, <2>2, SweepDrops
    <3> QED BY <1>w, <2>1, <3>1, <3>2, <3>3
  <2> QED BY <1>4, <1>u, <2>2 DEF DeletePoolStatus, PoolFault
<1>5. CASE UNCHANGED ipam
  BY <1>u, <1>5
<1> QED BY <1>1, <1>2, <1>3, <1>4, <1>5 DEF FipWorker, Step, AddFinalizer, RecordError, UpdateSpec, UpdateStatus,
        UpdatePoolStatus, UpdateAssigned, RemoveFinalizer, PoolFault

\* Short of a restart, every calm step keeps the claims.
LEMMA CalmHolds ==
  ASSUME MInv, SInv, Next, Calm
  PROVE  RangeStep /\ (HoldsOn \/ Restart)
<1>u. UNCHANGED ipam => HoldsOn /\ ipam'.ips = ipam.ips
  BY SameHolds
<1>1. CASE User
  <2>1. UNCHANGED ipam
    BY <1>1, UserKinds DEF NewObject, EditObject, DeleteObject, UserWrite, AdminWrite
  <2> QED BY <1>u, <2>1 DEF RangeStep
<1>2. CASE Informers \/ PoolList \/ PoolStatus
  BY <1>2, <1>u DEF Informers, InformFip, InformPool, InformPoolGone, PoolList, PoolStatus, managerVars, RangeStep
<1>3. CASE PoolRefresh
  <2>1. pworker.pc = "refresh"
    BY <1>3 DEF PoolRefresh
  <2>2. UNCHANGED ipam \/ ipam' = Refreshed(ipam, pworker.cfg, Excludes, pworker.list)
    BY <1>3 DEF PoolRefresh
  <2> QED BY <1>u, <2>1, <2>2, RefreshHolds DEF RangeStep
<1>4. ~ handleFipPoolDelete
  BY DEF SInv, OnePool, handleFipPoolDelete
<1>5. ASSUME NEW w \in Worker, FipWorker(w)
      PROVE  RangeStep /\ HoldsOn
  BY <1>5, WorkerHolds DEF Calm, Steady, RangeStep
<1>6. CASE Restart
  BY <1>6 DEF Restart, Absent, RangeStep
<1> QED BY <1>1, <1>2, <1>3, <1>4, <1>5, <1>6 DEF Next, Controllers, PoolWorker

\* After a restart the cache knows every FloatingIP as it is, and the allocator
\* offers nothing.
LEMMA RestartKeeps ==
  ASSUME MInv, SInv, Restart
  PROVE  ClaimParts'
<1>1. UNCHANGED fip /\ cache' = fip /\ ipam' = Absent /\ workers' = [w \in Worker |-> Idle] /\ pworker' = PoolIdle
  BY DEF Restart, apiVars
<1>2. pworker'.pc = "idle" /\ \A w \in Worker : workers'[w].pc = "idle"
  BY <1>1 DEF Idle, PoolIdle
<1>3. /\ ipam'.ips = {} /\ ipam'.used = {} /\ \A a \in Addr : ipam'.owners[a] = NoOwner
  BY <1>1 DEF Absent
<1>4. Marked' /\ Working' /\ Mine'
  BY <1>2, <1>3, OwnerAssumption DEF Marked, Working, Mine
<1>5. GrantedNotFree'
  BY <1>3 DEF GrantedNotFree, Free
<1>6. NoSharedAddress'
  BY <1>1 DEF SInv, NoSharedAddress, Granted
<1>7. Known'
  <2>1. ASSUME NEW f \in Owner, Granted(f)'
        PROVE  cache'[f].live /\ ~ cache'[f].del /\ cache'[f].status = fip'[f].status
    BY <1>1, <2>1 DEF Granted
  <2> QED BY <1>2, <2>1 DEF Known
<1> QED BY <1>4, <1>5, <1>6, <1>7 DEF ClaimParts

-----------------------------------------------------------------------------
(* The pool and its controller                                             *)

\* The list is taken from the cache as it is, in a step of its own.
LEMMA NextList ==
  ASSUME MInv, Next
  PROVE  ListStep
<1>1. \/ pworker' = pworker
      \/ pworker'.pc # "refresh"
      \/ pworker'.list = ListAllocations /\ UNCHANGED <<fip, cache, ipam>>
  BY PoolWorkerKinds
<1> QED BY <1>1 DEF ListStep

\* Status writes change neither the pool's range nor whether it is there.
LEMMA PoolKinds ==
  ASSUME MInv, Next, ~ PoolChanges
  PROVE  ~ pool.live \/ (pool'.live = pool.live /\ pool'.cfg = pool.cfg)
<1>t. pool \in FloatingIPPool
  BY DEF MInv, TypeOK
<1>p. ASSUME NEW al, NEW n, PutPool([pool EXCEPT !.alloc = al, !.avail = n])
      PROVE  pool'.live = pool.live /\ pool'.cfg = pool.cfg
  BY <1>p, <1>t DEF PutPool, FloatingIPPool
<1>1. CASE User
  BY <1>1 DEF User, UserCreate, UserCreateRaced, UserLabel, UserRepin, UserEdit, UserDelete, AdminCreatePool, PoolChanges
<1>2. CASE Informers \/ PoolList \/ PoolRefresh \/ handleFipPoolDelete \/ Restart
  BY <1>2 DEF Informers, InformFip, InformPool, InformPoolGone, PoolList, PoolRefresh, handleFipPoolDelete, Restart,
     apiVars
<1>3. CASE PoolStatus
  BY <1>3, <1>p DEF PoolStatus
<1>4. ASSUME NEW w \in Worker, NEW f \in Owner, Sync(w, f)
      PROVE  UNCHANGED pool
  BY <1>4 DEF Sync, SyncNothing, SyncAddFinalizer, SyncAssigned, SyncNoPool, SyncAllocate, SyncDelete,
     SyncDeleteUnallocated, Unaffected, apiVars
<1>5. ASSUME NEW w \in Worker, Step(w)
      PROVE  UNCHANGED pool \/ \E al, n : PutPool([pool EXCEPT !.alloc = al, !.avail = n])
  <2>1. CASE UpdatePoolStatus(w)
    BY <2>1 DEF UpdatePoolStatus, PoolFault
  <2>2. CASE DeletePoolStatus(w)
    BY <2>2 DEF DeletePoolStatus, PoolFault
  <2> QED BY <1>5, <2>1, <2>2 DEF Step, AddFinalizer, RecordError, UpdateSpec, SpecFailed, UpdateStatus,
             UpdateAssigned, DeleteRelease, RemoveFinalizer, PoolFault, Untouched
<1> QED BY <1>1, <1>2, <1>3, <1>4, <1>5, <1>p DEF Next, Controllers, FipWorker, PoolWorker

\* The watch shows the pool as it is, and no deletion of it.
LEMMA WatchKinds ==
  ASSUME MInv, SInv, Next, ~ PoolChanges
  PROVE  /\ ~ pgone' /\ ~ delEvt'
         /\ \/ pcache' = pcache
            \/ pcache'.live = pool.live /\ pcache'.cfg = pool.cfg /\ UNCHANGED pool
<1>t. ~ pgone /\ ~ delEvt /\ pool.live \in BOOLEAN
  BY DEF SInv, OnePool, MInv, TypeOK, FloatingIPPool
<1>1. ASSUME User
      PROVE  UNCHANGED <<pgone, delEvt, pcache>>
  BY <1>1 DEF User, UserCreate, UserCreateRaced, UserLabel, UserRepin, UserEdit, UserDelete, AdminCreatePool, PoolChanges
<1>2. ASSUME Informers
      PROVE  /\ UNCHANGED <<pgone, delEvt>>
             /\ pcache' = pcache \/ (pool.live /\ pcache' = [live |-> TRUE, cfg |-> pool.cfg] /\ UNCHANGED pool)
  BY <1>2, <1>t DEF Informers, InformFip, InformPool, InformPoolGone, apiVars
<1>3. ASSUME PoolWorker \/ handleFipPoolDelete
      PROVE  UNCHANGED <<pgone, delEvt, pcache>>
  BY <1>3, <1>t DEF PoolWorker, PoolList, PoolRefresh, PoolStatus, handleFipPoolDelete, informerVars
<1>4. CASE Restart
  BY <1>4 DEF Restart, apiVars
<1>5. ASSUME NEW w \in Worker, NEW f \in Owner, Sync(w, f)
      PROVE  UNCHANGED <<pgone, delEvt, pcache>>
  BY <1>5 DEF Sync, SyncNothing, SyncAddFinalizer, SyncAssigned, SyncNoPool, SyncAllocate, SyncDelete,
     SyncDeleteUnallocated, Unaffected, informerVars
<1>6. ASSUME NEW w \in Worker, Step(w)
      PROVE  UNCHANGED <<pgone, delEvt, pcache>>
  BY <1>6 DEF Step, AddFinalizer, RecordError, UpdateSpec, SpecFailed, UpdateStatus, UpdatePoolStatus,
     UpdateAssigned, DeleteRelease, DeletePoolStatus, RemoveFinalizer, Untouched, Untouched2
<1>7. CASE UNCHANGED <<pgone, delEvt>>
  <2>1. ~ pgone' /\ ~ delEvt'
    BY <1>7, <1>t
  <2>2. CASE pcache' = pcache
    BY <2>1, <2>2
  <2>3. CASE pool.live /\ pcache' = [live |-> TRUE, cfg |-> pool.cfg] /\ UNCHANGED pool
    BY <1>t, <2>1, <2>3
  <2> QED BY <1>1, <1>2, <1>3, <1>4, <1>5, <1>6, <2>2, <2>3 DEF Next, Controllers, FipWorker
<1> QED BY <1>1, <1>2, <1>3, <1>4, <1>5, <1>6, <1>7 DEF Next, Controllers, FipWorker

\* Everybody goes on having the pool's range, or none.
LEMMA OnePoolKept ==
  ASSUME MInv, SInv, Next, ~ PoolChanges, RangeStep
  PROVE  OnePool'
<1>s. OnePool
  BY DEF SInv
<1>1. ~ pool.live \/ (pool'.live = pool.live /\ pool'.cfg = pool.cfg)
  BY PoolKinds
<1>2. /\ ~ pgone' /\ ~ delEvt'
      /\ \/ pcache' = pcache
         \/ pcache'.live = pool.live /\ pcache'.cfg = pool.cfg /\ UNCHANGED pool
  BY WatchKinds
<1>3. pcache'.live => pool'.live /\ pcache'.cfg = pool'.cfg
  BY <1>1, <1>2, <1>s DEF OnePool
<1>4. pworker'.pc # "idle" => pool'.live /\ pworker'.cfg = pool'.cfg
  <2>1. \/ pworker' = pworker
        \/ pworker'.pc = "idle"
        \/ pcache.live /\ pworker'.cfg = pcache.cfg /\ UNCHANGED pool
        \/ pworker.pc = "refresh" /\ pworker'.cfg = pworker.cfg /\ UNCHANGED pool
    BY PoolWorkerKinds
  <2> QED BY <1>1, <1>s, <2>1 DEF OnePool
<1>5. ipam'.ips # {} => pool'.live /\ ipam'.ips = buildSubnet(pool'.cfg).ips
  BY <1>1, <1>s DEF OnePool, RangeStep
<1> QED BY <1>2, <1>3, <1>4, <1>5 DEF OnePool

-----------------------------------------------------------------------------
(* The address in the spec                                                 *)

\* The spec's address is that of its creation, or written from a current copy
\* by the worker that has claimed it.
SpecWrite(f, obj) ==
    \/ obj.spec = fip[f].spec
    \/ ~ fip[f].live
    \/ obj = Gone
    \/ \E w \in Worker : /\ workers[w].pc = "spec" /\ workers[w].key = f /\ workers[w].fresh
                         /\ obj.spec = workers[w].ip

Keeps(f, obj) == SpecWrite(f, obj) /\ (obj.del => fip[f].del \/ UserDelete(f))

SpecStep == \A f \in Owner : Keeps(f, fip'[f])

\* Without repinning there is no other way; and only users delete.
LEMMA NextSpec ==
  ASSUME MInv, Next, ~ Repins
  PROVE  SpecStep
<1>t. fip \in [Owner -> FloatingIP]
  BY DEF MInv, TypeOK
<1>u. UNCHANGED fip => SpecStep
  BY DEF SpecStep, Keeps, SpecWrite
<1>p. ASSUME NEW f \in Owner, NEW obj, NEW ws, PutFip(f, obj, ws), Keeps(f, obj)
      PROVE  SpecStep
  <2>1. fip'[f] = obj /\ \A g \in Owner \ {f} : fip'[g] = fip[g]
    BY <1>p, <1>t DEF PutFip
  <2> QED BY <1>p, <2>1 DEF SpecStep, Keeps, SpecWrite
<1>1. CASE User
  <2>1. ASSUME NEW f \in Owner, NEW a \in IPOrNone, UserCreate(f, a) \/ UserCreateRaced(f, a)
        PROVE  SpecStep
    <3>1. ~ fip[f].live /\ PutFip(f, NewFip(a), workers)
      BY <2>1 DEF UserCreate, UserCreateRaced
    <3>2. Keeps(f, NewFip(a))
      BY <3>1 DEF Keeps, SpecWrite, NewFip, Gone
    <3> QED BY <1>p, <3>1, <3>2
  <2>2. ASSUME NEW f \in Owner, UserLabel(f)
        PROVE  SpecStep
    <3> DEFINE new == [fip[f] EXCEPT !.label = ~ @]
    <3>1. Keeps(f, new)
      BY <1>t DEF FloatingIP, Keeps, SpecWrite
    <3>2. PutFip(f, new, workers)
      BY <2>2 DEF UserLabel, UserEdit
    <3> HIDE DEF new
    <3> QED BY <1>p, <3>1, <3>2
  <2>3. ASSUME NEW f \in Owner, UserDelete(f)
        PROVE  SpecStep
    <3> DEFINE new == [fip[f] EXCEPT !.del = TRUE]
    <3>1. new.spec = fip[f].spec
      BY <1>t DEF FloatingIP
    <3>3. Keeps(f, new) /\ Keeps(f, Gone)
      BY <2>3, <3>1 DEF Keeps, SpecWrite
    <3>2. PutFip(f, new, workers) \/ PutFip(f, Gone, workers)
      BY <2>3 DEF UserDelete
    <3> HIDE DEF new, Gone
    <3> QED BY <1>p, <3>2, <3>3
  <2>4. CASE (\E c \in Configs : AdminCreatePool(c) \/ AdminEditPool(c)) \/ AdminDeletePool
    BY <1>u, <2>4 DEF AdminCreatePool, AdminEditPool, AdminDeletePool
  <2> QED BY <1>1, <2>1, <2>2, <2>3, <2>4 DEF User, Repins
<1>2. CASE Informers \/ PoolWorker \/ handleFipPoolDelete \/ Restart
  BY <1>2, <1>u DEF Informers, InformFip, InformPool, InformPoolGone, PoolWorker, PoolList, PoolRefresh, PoolStatus,
     handleFipPoolDelete, Restart, apiVars
<1>3. ASSUME NEW w \in Worker, NEW f \in Owner, Sync(w, f)
      PROVE  SpecStep
  BY <1>3, <1>u DEF Sync, SyncNothing, SyncAddFinalizer, SyncAssigned, SyncNoPool, SyncAllocate, SyncDelete,
     SyncDeleteUnallocated, Unaffected, apiVars
<1>4. ASSUME NEW w \in Worker, Step(w)
      PROVE  SpecStep
  <2> DEFINE f == workers[w].key
  <2>n. workers[w].pc # "idle"
    BY <1>4 DEF Step, AddFinalizer, RecordError, UpdateSpec, SpecFailed, UpdateStatus, UpdatePoolStatus,
       UpdateAssigned, DeleteRelease, DeletePoolStatus, RemoveFinalizer, At
  <2>k. f \in Owner /\ fip[f] \in FloatingIP
    BY <1>t, <2>n DEF MInv, TypeOK, Keys, WorkerState
  <2>c. ASSUME NEW obj, NEW can, NEW ok, NEW err, Call(w, f, obj, can, ok, err), Keeps(f, obj)
        PROVE  SpecStep
    <3>1. UNCHANGED fip \/ \E ws : PutFip(f, obj, ws)
      BY <2>c DEF Call, Commit, CommitThenError, FailCall
    <3> QED BY <1>p, <1>u, <2>c, <2>k, <3>1
  <2>1. CASE AddFinalizer(w)
    <3> DEFINE new == [fip[f] EXCEPT !.fin = TRUE]
               can == fip[f].live /\ validateFloatingIP(f, fip[f])
    <3>1. Keeps(f, new)
      BY <2>k DEF FloatingIP, Keeps, SpecWrite
    <3>2. Call(w, f, new, can, Finished(w), Finished(w))
      BY <2>1 DEF AddFinalizer
    <3> HIDE DEF new, can
    <3> QED BY <2>c, <3>1, <3>2
  <2>2. CASE RecordError(w)
    <3> DEFINE new == [fip[f] EXCEPT !.state = "Error"]
    <3>1. Keeps(f, new)
      BY <2>k DEF FloatingIP, Keeps, SpecWrite
    <3>2. UNCHANGED fip \/ PutFip(f, new, Finished(w))
      BY <2>2 DEF RecordError
    <3> HIDE DEF new
    <3> QED BY <1>p, <1>u, <2>k, <3>1, <3>2
  <2>3. CASE UpdateSpec(w)
    <3> DEFINE new == [fip[f] EXCEPT !.spec = workers[w].ip]
    <3>1. workers[w].pc = "spec" /\ new.del = fip[f].del /\ new.spec = workers[w].ip
      BY <2>3, <2>k DEF UpdateSpec, At, FloatingIP
    <3>2. UNCHANGED fip \/ (workers[w].fresh /\ \E ws : PutFip(f, new, ws))
      BY <2>3 DEF UpdateSpec, Commit
    <3>3. workers[w].fresh => Keeps(f, new)
      BY <3>1 DEF Keeps, SpecWrite
    <3> HIDE DEF new
    <3> QED BY <1>p, <1>u, <2>k, <3>2, <3>3
  <2>4. CASE UpdateStatus(w)
    <3> DEFINE new == [fip[f] EXCEPT !.status = workers[w].ip, !.state = "Allocated", !.assigned = TRUE]
    <3>1. Keeps(f, new)
      BY <2>k DEF FloatingIP, Keeps, SpecWrite
    <3>2. Call(w, f, new, fip[f].live, Moved(w, "pool"), Finished(w))
      BY <2>4 DEF UpdateStatus
    <3> HIDE DEF new
    <3> QED BY <2>c, <3>1, <3>2
  <2>5. CASE UpdateAssigned(w)
    <3> DEFINE b   == At(w, "assign")
               new == [fip[f] EXCEPT !.assigned = b]
    <3>1. Keeps(f, new)
      BY <2>k DEF FloatingIP, Keeps, SpecWrite
    <3>2. Call(w, f, new, fip[f].live, Finished(w), Finished(w))
      BY <2>5 DEF UpdateAssigned
    <3> HIDE DEF new
    <3> QED BY <2>c, <3>1, <3>2
  <2>6. CASE RemoveFinalizer(w)
    <3> DEFINE can == workers[w].fresh /\ fip[f].live
    <3>1. Call(w, f, Gone, can, Finished(w), Finished(w))
      BY <2>6 DEF RemoveFinalizer
    <3>2. Keeps(f, Gone)
      BY DEF Keeps, SpecWrite, Gone
    <3> HIDE DEF can, Gone
    <3> QED BY <2>c, <3>1, <3>2
  <2>7. CASE UNCHANGED fip
    BY <1>u, <2>7
  <2> QED BY <1>4, <2>1, <2>2, <2>3, <2>4, <2>5, <2>6, <2>7
      DEF Step, SpecFailed, UpdatePoolStatus, DeleteRelease, DeletePoolStatus, Untouched2
<1> QED BY <1>1, <1>2, <1>3, <1>4 DEF Next, Controllers, FipWorker

\* The address told goes on being the address in the spec.
LEMMA PinnedKept ==
  ASSUME MInv, SInv, FipStep, WorkerStep, SpecStep
  PROVE  Pinned'
<1>s. Pinned /\ Copies /\ Keys
  BY DEF SInv, MInv
<1>1. ASSUME NEW f \in Owner, fip'[f].status # NoIP
      PROVE  fip'[f].spec = fip'[f].status
  <2>1. fip[f].status # NoIP => fip[f].spec = fip[f].status
    BY <1>s DEF Pinned
  <2>2. ASSUME NEW w \in Worker, Tells(w, f)
        PROVE  fip'[f].spec = fip'[f].status
    BY <1>s, <2>2 DEF Tells, Pinned
  <2>3. CASE Changed(f) /\ fip'[f].status = fip[f].status
    <3>1. fip'[f].spec = fip[f].spec
      BY <1>1, <1>s, <2>3 DEF SpecStep, Keeps, SpecWrite, Copies, Changed, Gone
    <3> QED BY <1>1, <2>1, <2>3, <3>1
  <2> QED BY <1>1, <2>1, <2>2, <2>3 DEF FipStep, Born, Changed, Dies, Gone
<1>2. ASSUME NEW w \in Worker, workers'[w].pc = "status"
      PROVE  fip'[workers'[w].key].spec = workers'[w].ip
  <2>1. Stays(w) \/ GoesOn(w)
    BY <1>2 DEF WorkerStep, OnlyOne, Ends, Enters
  <2>2. CASE GoesOn(w)
    BY <1>2, <2>2 DEF GoesOn
  <2>3. CASE Stays(w)
    <3> DEFINE f == workers[w].key
    <3>1. workers[w].pc = "status" /\ workers'[w].key = f /\ workers'[w].ip = workers[w].ip
      BY <1>2, <2>3 DEF Stays
    <3>2. f \in Owner /\ fip[f].live /\ fip[f].fin /\ fip[f].spec = workers[w].ip
      BY <1>s, <3>1, TellsClaim DEF Pinned
    <3>3. \A v \in Worker : workers[v].key = f => workers[v].pc = "status"
      BY <3>1, KeyApart
    <3>4. ~ Dies(f)
      BY <3>2, <3>3 DEF Dies
    <3>5. fip'[f].live
      BY <3>2, <3>4 DEF FipStep, Born, Changed
    <3>6. fip'[f].spec = fip[f].spec
      BY <3>2, <3>3, <3>5 DEF SpecStep, Keeps, SpecWrite, Gone
    <3> QED BY <3>1, <3>2, <3>6
  <2> QED BY <2>1, <2>2, <2>3
<1> QED BY <1>1, <1>2 DEF Pinned

-----------------------------------------------------------------------------
(* The invariant and what follows from it                                  *)

\* Nobody has an address, in the beginning.
LEMMA InitS == Init => SInv
<1> SUFFICES ASSUME Init
             PROVE  SInv
  OBVIOUS
<1>m. MInv
  BY InitM
<1>f. \A f \in Owner : fip[f] = Gone /\ cache[f] = Gone
  BY DEF Init
<1>g. ~ Gone.live /\ ~ Gone.del /\ Gone.status = NoIP
  BY DEF Gone
<1>w. \A w \in Worker : workers[w].pc = "idle"
  BY DEF Init, Idle
<1> HIDE DEF Gone
<1>1. Deleted
  BY <1>f, <1>g, <1>w DEF Deleted, Going
<1>2. OnePool
  <2>1. ~ pgone /\ ~ delEvt /\ pworker.pc = "idle"
    BY DEF Init, PoolIdle
  <2>2. CASE PoolAtStart
    <3>1. pool.live /\ pool.cfg = StartConfig /\ pcache.cfg = StartConfig
      BY <2>2 DEF Init
    <3>2. ipam = Refreshed(Absent, StartConfig, Excludes, {})
      BY <2>2 DEF Init
    <3> QED BY <2>1, <3>1, <3>2, RefreshRange DEF OnePool
  <2>3. CASE ~ PoolAtStart
    <3>1. ~ pcache.live
      BY <2>3 DEF Init
    <3>2. ipam.ips = {}
      BY <2>3 DEF Init, Absent
    <3> QED BY <2>1, <3>1, <3>2 DEF OnePool
  <2> QED BY <2>2, <2>3
<1>3. \A a \in Addr : ipam.owners[a] = NoOwner
  <2>1. ASSUME NEW a \in Addr, NEW f \in Owner, ipam.owners[a] = f
        PROVE  FALSE
    BY <1>f, <1>g, <1>m, <2>1 DEF MInv, Claims, OwnedBy
  <2> QED BY <1>m, <2>1 DEF MInv, TypeOK, Subnet
<1>4. Marked /\ Working /\ Mine
  BY <1>3, <1>w, OwnerAssumption DEF Marked, Working, Mine
<1>5. Pinned
  BY <1>f, <1>g, <1>w DEF Pinned
<1>6. Known /\ GrantedNotFree /\ NoSharedAddress
  BY <1>f, <1>g DEF Known, GrantedNotFree, NoSharedAddress, Granted
<1> QED BY <1>1, <1>2, <1>4, <1>5, <1>6 DEF SInv

\* No calm step breaks the invariant.
LEMMA NextS == MInv /\ SInv /\ [Next /\ Calm]_vars => SInv'
<1>1. ASSUME MInv, SInv, Next, Calm
      PROVE  SInv'
  <2>1. WorkerStep /\ FipStep /\ CacheStep /\ ListStep
    BY <1>1, NextSteps, NextFip, NextCache, NextList
  <2>2. RangeStep /\ (HoldsOn \/ Restart)
    BY <1>1, CalmHolds
  <2>3. ClaimParts'
    BY <1>1, <2>1, <2>2, HoldsOnKeeps, RestartKeeps
  <2>4. Deleted'
    BY <1>1, <2>1, DeletedKept
  <2>5. OnePool'
    BY <1>1, <2>2, OnePoolKept DEF Calm, Steady
  <2>6. SpecStep
    BY <1>1, NextSpec DEF Calm, Steady
  <2>7. Pinned'
    BY <1>1, <2>1, <2>6, PinnedKept
  <2> QED BY <2>3, <2>4, <2>5, <2>7 DEF SInv, ClaimParts
<1>2. ASSUME SInv, UNCHANGED vars
      PROVE  SInv'
  <2>1. UNCHANGED <<fip, pool, cache, pcache, pgone, delEvt, workers, pworker, ipam>>
    BY <1>2 DEF vars, apiVars, informerVars, queueVars, managerVars
  <2>2. Deleted' /\ OnePool' /\ Marked' /\ Pinned'
    BY <1>2, <2>1 DEF SInv, Deleted, OnePool, Marked, Pinned, Granted
  <2>3. Working' /\ Known' /\ Mine'
    BY <1>2, <2>1 DEF SInv, Working, Known, Mine, Granted, ClaimOf
  <2>4. GrantedNotFree' /\ NoSharedAddress'
    BY <1>2, <2>1 DEF SInv, GrantedNotFree, NoSharedAddress, Granted, Free
  <2> QED BY <2>2, <2>3, <2>4 DEF SInv
<1> QED BY <1>1, <1>2

\* The invariant holds as long as the steps are calm.
THEOREM SharingInvariance == Spec /\ [][Calm]_vars => []SInv
<1>1. MInv /\ SInv /\ [Next]_vars /\ [Calm]_vars => SInv'
  BY NextS
<1> QED BY <1>1, InitS, Invariance, PTL DEF Spec

\* The only ways to tell two FloatingIPs the same address: until one of the four
\* excluded steps has happened, every address has one holder, whatever else
\* happens, deletions and the reuse of addresses included.
THEOREM UnsharedWhileCalm == Spec /\ [][Calm]_vars => []NoSharedAddress
<1>1. SInv => NoSharedAddress
  BY DEF SInv
<1> QED BY <1>1, SharingInvariance, PTL

\* And the allocator offers no address that a FloatingIP holds: what a refresh
\* has not in its list is carried over from the claims.
THEOREM NotFreeWhileCalm == Spec /\ [][Calm]_vars => []GrantedNotFree
<1>1. SInv => GrantedNotFree
  BY DEF SInv
<1> QED BY <1>1, SharingInvariance, PTL

-----------------------------------------------------------------------------
(* Without deletions                                                       *)

Deletes == \E f \in Owner : UserDelete(f)

\* Nothing is deleted, and nobody works on a deletion.
Undeleted ==
    /\ \A f \in Owner : ~ fip[f].del /\ ~ cache[f].del
    /\ \A w \in Worker : workers[w].pc \notin Going

\* Nobody begins a deletion that nobody asked for; so nothing is released under
\* another FloatingIP, and steady steps are calm.
LEMMA NextUndeleted ==
  ASSUME MInv, Undeleted, Next, Steady, ~ Deletes
  PROVE  Undeleted' /\ Calm
<1>1. WorkerStep /\ CacheStep /\ SpecStep
  BY NextSteps, NextCache, NextSpec DEF Steady
<1>2. \A f \in Owner : ~ fip'[f].del
  BY <1>1 DEF SpecStep, Keeps, Deletes, Undeleted
<1>3. \A f \in Owner : ~ cache'[f].del
  BY <1>1 DEF CacheStep, Undeleted
<1>4. ASSUME NEW w \in Worker
      PROVE  workers'[w].pc \notin Going
  <2>1. Stays(w) \/ Ends(w) \/ GoesOn(w) \/ \E f \in Owner : Enters(w, f)
    BY <1>1 DEF WorkerStep, OnlyOne
  <2>2. CASE Stays(w) \/ Ends(w) \/ GoesOn(w)
    BY <2>2 DEF Stays, Ends, GoesOn, Going, Undeleted
  <2>3. CASE \E f \in Owner : Enters(w, f)
    BY <2>3 DEF Enters, Going, Undeleted
  <2> QED BY <2>1, <2>2, <2>3
<1>5. \A w \in Worker : ~ ForeignRelease(w)
  BY DEF ForeignRelease, At, Undeleted, Going
<1> QED BY <1>2, <1>3, <1>4, <1>5 DEF Undeleted, Calm

\* Where nothing is deleted, only a lost read, a repinned spec or a changed pool
\* can lead to a shared address: concurrent workers, old copies, outdated
\* admissions, refreshes from old lists, faults and restarts cannot.
THEOREM UnsharedWithoutDeletion ==
  Spec /\ [][Steady /\ ~ Deletes]_vars => [](NoSharedAddress /\ GrantedNotFree)
<1>1. Init => Undeleted
  BY DEF Init, Undeleted, Gone, Idle, Going
<1>2. MInv /\ SInv /\ Undeleted /\ [Next]_vars /\ [Steady /\ ~ Deletes]_vars => SInv' /\ Undeleted'
  <2>1. ASSUME MInv, SInv, Undeleted, Next, Steady, ~ Deletes
        PROVE  SInv' /\ Undeleted'
    BY <2>1, NextUndeleted, NextS
  <2>2. ASSUME MInv, SInv, Undeleted, UNCHANGED vars
        PROVE  SInv' /\ Undeleted'
    <3>1. UNCHANGED <<fip, cache, workers>>
      BY <2>2 DEF vars, apiVars, informerVars, managerVars
    <3>2. Undeleted'
      BY <2>2, <3>1 DEF Undeleted
    <3> QED BY <2>2, <3>2, NextS
  <2> QED BY <2>1, <2>2
<1>3. SInv => NoSharedAddress /\ GrantedNotFree
  BY DEF SInv
<1> QED BY <1>1, <1>2, <1>3, InitS, Invariance, PTL DEF Spec

-----------------------------------------------------------------------------
(* At rest: no address burned                                              *)

\* What a status says is in the spec as well, and the cache does not show an
\* address that the FloatingIP does not have.
Told ==
    \A f \in Owner :
        /\ fip[f].status # NoIP => fip[f].fin /\ fip[f].spec = fip[f].status
        /\ cache[f].status # NoIP => cache[f].fin
        /\ cache[f].live /\ ~ cache[f].del /\ cache[f].status # NoIP => fip[f].status = cache[f].status

\* What a worker does is for the FloatingIP as it is.
Allocating ==
    \A w \in Worker :
        /\ workers[w].pc \in {"spec", "specerr", "status"} => fip[workers[w].key].live /\ fip[workers[w].key].fin
        /\ workers[w].pc = "spec" /\ workers[w].fresh => fip[workers[w].key].spec \in {NoIP, workers[w].ip}
        /\ workers[w].pc = "status" => fip[workers[w].key].spec = workers[w].ip
        /\ workers[w].pc \in Going /\ workers[w].fresh => fip[workers[w].key].status = workers[w].ip

\* A claim is on an address that its FloatingIP's spec has, or is about to be
\* given; somebody will go on with it until the status has it too, or the whole
\* subnet is about to go.
ClaimsSeen ==
    \A f \in Owner : \A a \in OwnedBy(ipam, f) :
        /\ \/ fip[f].spec = a
           \/ \E w \in Worker : workers[w].key = f /\ workers[w].pc \in {"spec", "specerr"} /\ workers[w].ip = a
        /\ fip[f].status = NoIP =>
              \/ Due(f)
              \/ delEvt
              \/ \E w \in Worker :
                    /\ workers[w].key = f
                    /\ workers[w].pc \in {"error", "spec", "specerr", "status"} \cup Going
        /\ pcache.live \/ delEvt

\* An address that the allocator withholds and that is nobody's claim: one that
\* a refresh has marked because it was in its list.
Ghost(a) == a \in ipam.used /\ a \notin Excludes /\ ipam.owners[a] = NoOwner

\* f's object has been given up but for the write that lets it go.
Vanishing(f) == \E w \in Worker : workers[w].key = f /\ workers[w].pc = "rmfin" /\ workers[w].fresh

HeldOn(a) == \E f \in Owner : fip[f].live /\ fip[f].status = a /\ ~ Vanishing(f)

\* The pool controller has a pass ahead of it, or the subnet is about to go.
Ahead == ~ pfresh \/ poolQ \/ delEvt

\* Another refresh comes, or the list in use has the address and will show it in
\* the pool's status.
Pending(a) == Ahead \/ pworker.pc = "refresh" \/ (pworker.pc = "status" /\ a \in pworker.list)

\* What is marked for nobody will be looked at again, ...
GhostsGo == \A a \in Addr : Ghost(a) /\ ~ HeldOn(a) => Pending(a)

\* ... because status.allocated has it, and a deletion changes that.
AllocGoes ==
    \A a \in Addr : a \in pool.alloc \ Excludes /\ ~ HeldOn(a) => Ahead \/ (pworker.pc # "idle" /\ a \notin pworker.list)
LastGhost ==
    \A w \in Worker : workers[w].pc = "delpool" /\ workers[w].fresh /\ Ghost(workers[w].ip) =>
        Pending(workers[w].ip) \/ workers[w].ip \in pool.alloc

BInv == Told /\ Allocating /\ Marked /\ ClaimsSeen /\ GhostsGo /\ AllocGoes /\ LastGhost

\* A copy that is current after a step was so before, of the same object, or has
\* just been taken from a current cache.
KeptCopy(v) ==
    /\ workers[v].fresh /\ workers'[v].key = workers[v].key /\ workers'[v].ip = workers[v].ip
    /\ \A f \in Owner : workers[v].key = f => fip'[f] = fip[f]
    /\ \/ workers'[v].pc = workers[v].pc
       \/ workers'[v].pc = "delpool" /\ DeleteRelease(v)
       \/ workers'[v].pc = "rmfin" /\ DeletePoolStatus(v)
TakenCopy(v) ==
    \E f \in Owner :
        /\ workers'[v].key = f /\ cfresh[f] /\ UNCHANGED fip
        /\ workers'[v].pc = "spec" => workers'[v].ip \in GetIPOwned(ipam, cache[f].spec, f)
        /\ workers'[v].pc # "delpool"
        /\ workers'[v].pc \in Going => workers'[v].ip = cache[f].status
        /\ workers'[v].pc = "rmfin" => cache[f].status = NoIP

\* A worker that takes up a key.
LEMMA SyncFresh ==
  ASSUME MInv, NEW w \in Worker, NEW g \in Owner, Sync(w, g), NEW v \in Worker, workers'[v].fresh
  PROVE  KeptCopy(v) \/ TakenCopy(v)
<1>t. workers \in [Worker -> WorkerState] /\ cache[g] \in FloatingIP /\ ipam \in Subnet
  BY DEF MInv, TypeOK
<1>q. UNCHANGED fip /\ workers[w].pc = "idle"
  BY DEF Sync, SyncNothing, SyncAddFinalizer, SyncAssigned, SyncNoPool, SyncAllocate, SyncDelete,
     SyncDeleteUnallocated, Unaffected, apiVars, TakeKey
<1>n. NoIP \in IPOrNone /\ cache[g].spec \in IPOrNone /\ cache[g].status \in IPOrNone
  BY <1>t DEF IPOrNone, FloatingIP
<1>s. workers'[v] = workers[v] => KeptCopy(v)
  BY <1>q DEF KeptCopy
<1>e. ASSUME NEW pc \in {"addfin", "error", "spec", "assign", "unassign", "release", "rmfin"},
             NEW a \in IPOrNone, Enter(w, g, pc, a),
             pc = "spec" => a \in GetIPOwned(ipam, cache[g].spec, g),
             pc \in Going => a = cache[g].status, pc = "rmfin" => cache[g].status = NoIP
      PROVE  KeptCopy(v) \/ TakenCopy(v)
  <2>1. /\ \A u \in Worker \ {w} : workers'[u] = workers[u]
        /\ workers'[w].pc = pc /\ workers'[w].key = g /\ workers'[w].ip = a
        /\ workers'[w].fresh => cfresh[g]
    BY <1>e, <1>t, EnterWorkers
  <2>2. CASE v = w
    BY <1>e, <1>q, <2>1, <2>2 DEF TakenCopy
  <2> QED BY <1>s, <2>1, <2>2
<1>1. CASE SyncNothing(w, g) \/ SyncNoPool(w, g)
  BY <1>1, <1>s DEF SyncNothing, SyncNoPool
<1>2. CASE SyncAddFinalizer(w, g)
  BY <1>2, <1>e, <1>n DEF SyncAddFinalizer, Going
<1>3. CASE SyncAssigned(w, g)
  BY <1>3, <1>e, <1>n DEF SyncAssigned, Going
<1>4. CASE SyncDelete(w, g)
  BY <1>4, <1>e, <1>n DEF SyncDelete
<1>5. CASE SyncDeleteUnallocated(w, g)
  <2>1. Enter(w, g, "rmfin", NoIP) /\ cache[g].status = NoIP
    BY <1>5 DEF SyncDeleteUnallocated
  <2> QED BY <1>e, <1>n, <2>1
<1>6. CASE SyncAllocate(w, g)
  <2>1. CASE Enter(w, g, "error", NoIP)
    BY <1>e, <1>n, <2>1 DEF Going
  <2>2. ASSUME NEW a \in GetIPOwned(ipam, cache[g].spec, g), Enter(w, g, "spec", a)
        PROVE  KeptCopy(v) \/ TakenCopy(v)
    <3>1. a \in IPOrNone
      BY <1>t DEF GetIPOwned, getIP, Free, IPOrNone, Subnet
    <3> QED BY <1>e, <2>2, <3>1 DEF Going
  <2> QED BY <1>6, <2>1, <2>2 DEF SyncAllocate
<1> QED BY <1>1, <1>2, <1>3, <1>4, <1>5, <1>6 DEF Sync

\* A worker's API call: only the steps of a deletion go on with a copy.
LEMMA StepFresh ==
  ASSUME MInv, NEW w \in Worker, Step(w), NEW v \in Worker, workers'[v].fresh
  PROVE  KeptCopy(v)
<1> DEFINE g == workers[w].key
<1>t. workers \in [Worker -> WorkerState] /\ fip \in [Owner -> FloatingIP]
  BY DEF MInv, TypeOK
<1>n. workers[w].pc # "idle"
  BY DEF Step, AddFinalizer, RecordError, UpdateSpec, SpecFailed, UpdateStatus, UpdatePoolStatus,
     UpdateAssigned, DeleteRelease, DeletePoolStatus, RemoveFinalizer, At
<1>k. g \in Owner
  BY <1>n, <1>t DEF MInv, Keys, WorkerState
<1> DEFINE Plain(ws) == ws \in [Worker -> WorkerState] /\ (ws[v].fresh => ws[v] = workers[v])
<1>f. Plain(Finished(w))
  BY <1>t, WorkerValues
<1>m. ASSUME NEW pc \in {"specerr", "status", "pool"}
      PROVE  Plain(Moved(w, pc))
  BY <1>t, MovedWorkers
<1> HIDE DEF g
<1>s. ASSUME NEW ws, Plain(ws), workers' = ws, UNCHANGED fip
      PROVE  KeptCopy(v)
  BY <1>s DEF KeptCopy
<1>p. ASSUME NEW ws, Plain(ws), NEW obj, PutFip(g, obj, ws)
      PROVE  KeptCopy(v)
  <2>1. /\ workers'[v].pc = ws[v].pc /\ workers'[v].key = ws[v].key /\ workers'[v].ip = ws[v].ip
        /\ ws[v].fresh /\ (obj = fip[g] \/ ws[v].key # g)
    BY <1>k, <1>p, PutWorkers
  <2>2. ws[v] = workers[v]
    BY <1>p, <2>1
  <2>3. ASSUME NEW f \in Owner, workers[v].key = f
        PROVE  fip'[f] = fip[f]
    BY <1>k, <1>p, <1>t, <2>1, <2>2, <2>3 DEF PutFip
  <2> QED BY <2>1, <2>2, <2>3 DEF KeptCopy
<1> HIDE DEF Plain
<1>c. ASSUME NEW obj, NEW can, NEW ok, NEW err, Plain(ok), Plain(err), Call(w, g, obj, can, ok, err)
      PROVE  KeptCopy(v)
  BY <1>c, <1>p, <1>s DEF Call, Commit, CommitThenError, FailCall
<1>1. CASE AddFinalizer(w) \/ UpdateAssigned(w) \/ RemoveFinalizer(w)
  BY <1>1, <1>c, <1>f DEF AddFinalizer, UpdateAssigned, RemoveFinalizer, g
<1>2. CASE UpdateStatus(w)
  BY <1>2, <1>c, <1>f, <1>m DEF UpdateStatus, g
<1>3. CASE RecordError(w)
  BY <1>3, <1>f, <1>p, <1>s DEF RecordError, g
<1>4. CASE UpdateSpec(w)
  BY <1>4, <1>m, <1>p, <1>s DEF UpdateSpec, Commit, g
<1>5. CASE SpecFailed(w) \/ UpdatePoolStatus(w)
  BY <1>5, <1>f, <1>s DEF SpecFailed, UpdatePoolStatus, PoolFault, Untouched2
<1>6. CASE DeleteRelease(w) \/ DeletePoolStatus(w)
  <2>1. UNCHANGED fip
    BY <1>6 DEF DeleteRelease, DeletePoolStatus, Untouched2
  <2>2. CASE workers' = Finished(w)
    BY <1>f, <1>s, <2>1, <2>2
  <2>3. ASSUME NEW pc \in {"delpool", "rmfin"}, workers' = Moved(w, pc),
               pc = "delpool" => DeleteRelease(w), pc = "rmfin" => DeletePoolStatus(w)
        PROVE  KeptCopy(v)
    <3>1. /\ \A u \in Worker \ {w} : workers'[u] = workers[u]
          /\ workers'[w].pc = pc
          /\ workers'[w].key = workers[w].key /\ workers'[w].ip = workers[w].ip
          /\ workers'[w].fresh => workers[w].fresh
      BY <1>t, <2>3, MovedWorkers
    <3>2. CASE v = w
      BY <2>1, <2>3, <3>1, <3>2 DEF KeptCopy
    <3>3. CASE v # w
      BY <2>1, <3>1, <3>3 DEF KeptCopy
    <3> QED BY <3>2, <3>3
  <2> QED BY <1>6, <2>2, <2>3 DEF DeleteRelease, DeletePoolStatus, PoolFault
<1> QED BY <1>1, <1>2, <1>3, <1>4, <1>5, <1>6 DEF Step

\* In every step.
LEMMA NextFresh ==
  ASSUME MInv, Next, NEW v \in Worker, workers'[v].fresh
  PROVE  KeptCopy(v) \/ TakenCopy(v)
<1>t. workers \in [Worker -> WorkerState] /\ fip \in [Owner -> FloatingIP]
  BY DEF MInv, TypeOK
<1>s. UNCHANGED <<fip, workers>> => KeptCopy(v)
  BY DEF KeptCopy
<1>p. ASSUME NEW g \in Owner, NEW obj, UserWrite(g, obj)
      PROVE  KeptCopy(v)
  <2>1. PutFip(g, obj, workers)
    BY <1>p DEF UserWrite
  <2>2. /\ workers'[v].pc = workers[v].pc /\ workers'[v].key = workers[v].key /\ workers'[v].ip = workers[v].ip
        /\ workers[v].fresh /\ (obj = fip[g] \/ workers[v].key # g)
    BY <1>t, <2>1, PutWorkers
  <2>3. ASSUME NEW f \in Owner, workers[v].key = f
        PROVE  fip'[f] = fip[f]
    BY <1>t, <2>1, <2>2, <2>3 DEF PutFip
  <2> QED BY <2>2, <2>3 DEF KeptCopy
<1>1. CASE User
  <2>1. AdminWrite \/ \E g \in Owner : \E obj : UserWrite(g, obj)
    BY <1>1, UserKinds DEF NewObject, EditObject, DeleteObject
  <2> QED BY <1>p, <1>s, <2>1 DEF AdminWrite
<1>2. CASE Informers \/ PoolWorker \/ handleFipPoolDelete
  BY <1>2, <1>s DEF Informers, InformFip, InformPool, InformPoolGone, PoolWorker, PoolList, PoolRefresh, PoolStatus,
     handleFipPoolDelete, apiVars, managerVars
<1>3. CASE Restart
  <2>1. workers'[v] = Idle
    BY <1>3 DEF Restart
  <2> QED BY <2>1 DEF Idle
<1> QED BY <1>1, <1>2, <1>3, SyncFresh, StepFresh DEF Next, Controllers, FipWorker

\* A worker that has a key moves by its own steps alone, short of a restart.
LEMMA NextMoves ==
  ASSUME MInv, Next, NEW w \in Worker, workers[w].pc # "idle"
  PROVE  Stays(w) \/ Step(w) \/ Restart
<1>t. workers \in [Worker -> WorkerState]
  BY DEF MInv, TypeOK
<1>u. UNCHANGED workers => Stays(w)
  BY DEF Stays
<1>1. CASE User
  <2>1. AdminWrite \/ \E g \in Owner : \E obj : PutFip(g, obj, workers)
    BY <1>1, UserKinds DEF NewObject, EditObject, DeleteObject, UserWrite
  <2>2. ASSUME NEW g \in Owner, NEW obj, PutFip(g, obj, workers)
        PROVE  Stays(w)
    BY <1>t, <2>2, PutWorkers DEF Stays
  <2> QED BY <1>u, <2>1, <2>2 DEF AdminWrite
<1>2. CASE Informers \/ PoolWorker \/ handleFipPoolDelete
  BY <1>2, <1>u DEF Informers, InformFip, InformPool, InformPoolGone, PoolWorker, PoolList, PoolRefresh, PoolStatus,
     handleFipPoolDelete, managerVars
<1>3. ASSUME NEW u \in Worker, NEW g \in Owner, Sync(u, g)
      PROVE  Stays(w)
  <2>1. workers[u].pc = "idle"
    BY <1>3 DEF Sync, SyncNothing, SyncAddFinalizer, SyncAssigned, SyncNoPool, SyncAllocate, SyncDelete,
       SyncDeleteUnallocated, TakeKey
  <2>2. workers' = workers \/ \E j : workers' = [workers EXCEPT ![u] = j]
    BY <1>3 DEF Sync, SyncNothing, SyncAddFinalizer, SyncAssigned, SyncNoPool, SyncAllocate, SyncDelete,
       SyncDeleteUnallocated, Enter
  <2> QED BY <1>t, <2>1, <2>2 DEF Stays
<1>4. ASSUME NEW u \in Worker, Step(u)
      PROVE  Stays(w) \/ Step(w)
  BY <1>4, OthersStay
<1> QED BY <1>1, <1>2, <1>3, <1>4 DEF Next, Controllers, FipWorker

\* A FloatingIP that has the finalizer, and whose claims are not all swept, does
\* not go.
LEMMA Survives ==
  ASSUME MInv, FipStep, NEW f \in Owner, fip[f].live, fip[f].fin,
         \A v \in Worker : workers[v].key = f /\ workers[v].fresh => workers[v].pc # "rmfin"
  PROVE  fip'[f].live /\ fip'[f].fin
<1>1. ~ Dies(f) /\ ~ Born(f)
  BY DEF Dies, Born
<1> QED BY <1>1 DEF FipStep, Changed

\* The address told stays the address in the spec, and in the cache.
LEMMA ToldKept ==
  ASSUME MInv, Told, Allocating, FipStep, CacheStep, SpecStep
  PROVE  Told'
<1>s. Copies /\ Untold /\ Objects
  BY DEF MInv
<1>1. ASSUME NEW f \in Owner, fip'[f].status # NoIP
      PROVE  fip'[f].fin /\ fip'[f].spec = fip'[f].status
  <2>1. fip[f].status # NoIP => fip[f].fin /\ fip[f].spec = fip[f].status
    BY DEF Told
  <2>2. ASSUME NEW w \in Worker, Tells(w, f), Changed(f)
        PROVE  fip'[f].fin /\ fip'[f].spec = fip'[f].status
    BY <2>2 DEF Tells, Allocating, Changed
  <2>3. CASE Changed(f) /\ fip'[f].status = fip[f].status
    <3>1. fip'[f].spec = fip[f].spec
      BY <1>1, <1>s, <2>3 DEF SpecStep, Keeps, SpecWrite, Copies, Changed, Gone
    <3> QED BY <1>1, <2>1, <2>3, <3>1 DEF Changed
  <2>4. CASE Changed(f)
    BY <2>2, <2>3, <2>4 DEF Changed
  <2> QED BY <1>1, <2>1, <2>4 DEF FipStep, Born, Dies, Gone
<1>2. ASSUME NEW f \in Owner, cache'[f].status # NoIP
      PROVE  cache'[f].fin
  BY <1>2 DEF CacheStep, Told
<1>3. ASSUME NEW f \in Owner, cache'[f].live, ~ cache'[f].del, cache'[f].status # NoIP
      PROVE  fip'[f].status = cache'[f].status
  <2>1. CASE cache'[f] = fip[f] /\ fip'[f] = fip[f]
    BY <2>1
  <2>2. CASE cache'[f] = cache[f]
    <3>1. fip[f].status = cache[f].status /\ fip[f].status # NoIP /\ fip[f].live /\ fip[f].fin
      BY <1>3, <1>s, <2>2 DEF Told, Objects
    <3>2. ASSUME NEW v \in Worker, workers[v].key = f, workers[v].fresh, workers[v].pc = "rmfin"
          PROVE  FALSE
      BY <1>3, <1>s, <2>2, <3>2 DEF Copies
    <3>3. ~ Born(f) /\ ~ Dies(f)
      BY <3>1, <3>2 DEF Born, Dies
    <3>4. ASSUME NEW w \in Worker, Tells(w, f)
          PROVE  FALSE
      BY <1>s, <3>1, <3>4 DEF Tells, Untold
    <3> QED BY <2>2, <3>1, <3>3, <3>4 DEF FipStep, Changed
  <2> QED BY <2>1, <2>2 DEF CacheStep
<1> QED BY <1>1, <1>2, <1>3 DEF Told

\* The object that a worker allocates for stays as the worker needs it.
LEMMA AllocatingKept ==
  ASSUME MInv, MInv', Allocating, Next, FipStep, WorkerStep, SpecStep
  PROVE  Allocating'
<1>t. cache \in [Owner -> FloatingIP] /\ ipam \in Subnet /\ workers' \in [Worker -> WorkerState]
  BY DEF MInv, TypeOK, WorkerStep
<1>k. \A w \in Worker : workers[w].pc # "idle" => workers[w].key \in Owner
  BY DEF MInv, TypeOK, Keys, WorkerState
<1>1. ASSUME NEW w \in Worker, workers'[w].pc \in {"spec", "specerr", "status"}
      PROVE  fip'[workers'[w].key].live /\ fip'[workers'[w].key].fin
  <2>1. CASE Stays(w) \/ GoesOn(w)
    <3>1. workers[w].pc \in {"spec", "specerr", "status"} /\ workers'[w].key = workers[w].key
      BY <1>1, <2>1 DEF Stays, GoesOn
    <3>2. workers[w].key \in Owner /\ fip[workers[w].key].live /\ fip[workers[w].key].fin
      BY <1>k, <3>1 DEF Allocating
    <3>3. \A v \in Worker : workers[v].key = workers[w].key => workers[v].pc # "rmfin"
      BY <3>1, KeyApart
    <3> QED BY <3>1, <3>2, <3>3, Survives
  <2>2. ASSUME NEW f \in Owner, Enters(w, f)
        PROVE  fip'[workers'[w].key].live /\ fip'[workers'[w].key].fin
    <3>1. workers'[w].key = f /\ workers'[w].ip \in OwnedBy(ipam', f)
      BY <1>1, <2>2 DEF Enters, ClaimOf, OwnedBy
    <3> QED BY <3>1 DEF MInv, Claims
  <2> QED BY <1>1, <2>1, <2>2 DEF WorkerStep, OnlyOne, Ends
<1>2. ASSUME NEW w \in Worker, workers'[w].pc = "spec", workers'[w].fresh
      PROVE  fip'[workers'[w].key].spec \in {NoIP, workers'[w].ip}
  <2>1. CASE KeptCopy(w)
    <3>1. workers[w].pc = "spec"
      BY <1>2, <2>1 DEF KeptCopy
    <3> QED BY <1>k, <2>1, <3>1 DEF KeptCopy, Allocating
  <2>2. CASE TakenCopy(w)
    <3>1. PICK f \in Owner : /\ workers'[w].key = f /\ cfresh[f] /\ UNCHANGED fip
                             /\ workers'[w].ip \in GetIPOwned(ipam, cache[f].spec, f)
      BY <1>2, <2>2 DEF TakenCopy
    <3>2. cache[f] = fip[f]
      BY <3>1 DEF MInv, Copies
    <3>3. cache[f].spec \in {NoIP, workers'[w].ip}
      BY <1>t, <3>1 DEF GetIPOwned, getIP
    <3> QED BY <3>1, <3>2, <3>3
  <2> QED BY <1>2, <2>1, <2>2, NextFresh
<1>3. ASSUME NEW w \in Worker, workers'[w].pc = "status"
      PROVE  fip'[workers'[w].key].spec = workers'[w].ip
  <2>1. Stays(w) \/ GoesOn(w)
    BY <1>3 DEF WorkerStep, OnlyOne, Ends, Enters
  <2>2. CASE GoesOn(w)
    BY <1>3, <2>2 DEF GoesOn
  <2>3. CASE Stays(w)
    <3> DEFINE f == workers[w].key
    <3>1. workers[w].pc = "status" /\ workers'[w].key = f /\ workers'[w].ip = workers[w].ip
      BY <1>3, <2>3 DEF Stays
    <3>2. f \in Owner /\ fip[f].live /\ fip[f].fin /\ fip[f].spec = workers[w].ip
      BY <1>k, <3>1 DEF Allocating
    <3>3. \A v \in Worker : workers[v].key = f => workers[v].pc = "status"
      BY <3>1, KeyApart
    <3>4. fip'[f].live
      BY <3>2, <3>3, Survives
    <3>5. fip'[f].spec = fip[f].spec
      BY <3>2, <3>3, <3>4 DEF SpecStep, Keeps, SpecWrite, Gone
    <3> QED BY <3>1, <3>2, <3>5
  <2> QED BY <2>1, <2>2, <2>3
<1>4. ASSUME NEW w \in Worker, workers'[w].pc \in Going, workers'[w].fresh
      PROVE  fip'[workers'[w].key].status = workers'[w].ip
  <2>1. CASE KeptCopy(w)
    <3>1. workers[w].pc \in Going
      BY <1>4, <2>1 DEF KeptCopy, DeleteRelease, DeletePoolStatus, At, Going
    <3>2. workers[w].key \in Owner
      BY <1>k, <3>1 DEF Going
    <3> QED BY <2>1, <3>1, <3>2 DEF KeptCopy, Allocating
  <2>2. CASE TakenCopy(w)
    <3>1. PICK f \in Owner : workers'[w].key = f /\ cfresh[f] /\ UNCHANGED fip /\ workers'[w].ip = cache[f].status
      BY <1>4, <2>2 DEF TakenCopy
    <3> QED BY <3>1 DEF MInv, Copies
  <2> QED BY <1>4, <2>1, <2>2, NextFresh
<1> QED BY <1>1, <1>2, <1>3, <1>4 DEF Allocating

-----------------------------------------------------------------------------
(* What a step does to the allocator                                       *)

\* A claim marks the address and records its owner.
LEMMA ClaimOwners ==
  ASSUME ipam \in Subnet, NEW f \in Owner, NEW given, NEW a \in GetIPOwned(ipam, given, f), ipam' = Claim(ipam, a, f)
  PROVE  /\ a \in Addr /\ ipam'.used = ipam.used \cup {a}
         /\ \A b \in Addr : ipam'.owners[b] = IF b = a THEN f ELSE ipam.owners[b]
<1>1. a \in Addr
  BY DEF GetIPOwned, getIP, Free, Subnet
<1> DEFINE o == [ipam.owners EXCEPT ![a] = f]
<1>2. \A b \in Addr : o[b] = IF b = a THEN f ELSE ipam.owners[b]
  BY <1>1 DEF Subnet
<1>3. ipam' = [ipam EXCEPT !.used = ipam.used \cup {a}, !.owners = o]
  BY DEF Claim
<1> HIDE DEF o
<1>4. ipam'.used = ipam.used \cup {a} /\ ipam'.owners = o
  BY <1>3 DEF Subnet
<1> QED BY <1>1, <1>2, <1>4

\* A refresh carries owners over, and marks for nobody only what is excluded or
\* in its list.
LEMMA RefreshOwners ==
  ASSUME NEW s \in Subnet, NEW c, NEW L, NEW t, t = Refreshed(s, c, Excludes, L)
  PROVE  \A a \in Addr : /\ t.owners[a] # NoOwner => a \in t.used /\ s.owners[a] = t.owners[a]
                         /\ a \in t.used /\ t.owners[a] = NoOwner => a \in Excludes \cup L
<1> DEFINE b    == buildSubnet(c)
           kept == Carried(s, b)
           u    == b.used \cup ((Excludes \cup L \cup kept) \cap b.ips)
           o    == [a \in Addr |-> IF a \in kept THEN s.owners[a] ELSE NoOwner]
<1>1. t = [[b EXCEPT !.used = u] EXCEPT !.owners = o]
  BY DEF Refreshed, MarkUsed
<1>2. b \in Subnet /\ b.used = {}
  BY DEF buildSubnet, Absent, Subnet
<1>3. \A a \in Addr : /\ o[a] = IF a \in kept THEN s.owners[a] ELSE NoOwner
                      /\ a \in kept => a \in u /\ s.owners[a] # NoOwner
                      /\ a \in u => a \in Excludes \cup L \/ a \in kept
  BY <1>2 DEF Carried
<1> HIDE DEF b, u, o, kept
<1>4. t.used = u /\ t.owners = o
  BY <1>1, <1>2 DEF Subnet
<1> QED BY <1>3, <1>4

\* Worker w begins an allocation for f with a.
Takes(w, f, a) ==
    /\ SyncAllocate(w, f) /\ a \in GetIPOwned(ipam, cache[f].spec, f)
    /\ Enter(w, f, "spec", a) /\ ipam' = Claim(ipam, a, f)

\* The kinds of change: claims are dropped, one is made, the subnet is refreshed,
\* or it goes.
LEMMA NextIpam ==
  ASSUME MInv, Next
  PROVE  \/ \E D : Drops(D)
         \/ \E w \in Worker : \E f \in Owner : \E a : Takes(w, f, a)
         \/ PoolRefresh /\ ipam' = Refreshed(ipam, pworker.cfg, Excludes, pworker.list)
         \/ (Restart \/ handleFipPoolDelete) /\ ipam' = Absent
<1>t. Fit(ipam)
  BY DEF MInv, TypeOK, Fit
<1>u. UNCHANGED ipam => Drops({})
  BY DEF Drops
<1>1. CASE User
  BY <1>1, <1>u, UserKinds DEF NewObject, EditObject, DeleteObject, UserWrite, AdminWrite
<1>2. CASE Informers \/ PoolList \/ PoolStatus
  BY <1>2, <1>u DEF Informers, InformFip, InformPool, InformPoolGone, PoolList, PoolStatus, managerVars
<1>3. CASE PoolRefresh
  BY <1>3, <1>u DEF PoolRefresh
<1>4. CASE Restart \/ handleFipPoolDelete
  BY <1>4 DEF Restart, handleFipPoolDelete
<1>5. ASSUME NEW w \in Worker, NEW f \in Owner, Sync(w, f)
      PROVE  (\E D : Drops(D)) \/ \E a : Takes(w, f, a)
  <2>1. CASE SyncAllocate(w, f)
    BY <1>u, <2>1 DEF SyncAllocate, Takes
  <2>2. CASE SyncDeleteUnallocated(w, f)
    <3>1. ipam' = ReleaseAllByOwner(OwnedRelease(cache[f].spec, f), f)
      BY <2>2 DEF SyncDeleteUnallocated
    <3> QED BY <1>t, <3>1, SweepDrops
  <2> QED BY <1>5, <1>u, <2>1, <2>2 DEF Sync, SyncNothing, SyncAddFinalizer, SyncAssigned, SyncNoPool, SyncDelete
<1>6. ASSUME NEW w \in Worker, Step(w)
      PROVE  \E D : Drops(D)
  <2>k. workers[w].pc # "idle" => workers[w].key \in Owner
    BY DEF MInv, TypeOK, Keys, WorkerState
  <2>1. CASE SpecFailed(w) \/ DeleteRelease(w)
    <3>1. UNCHANGED ipam \/ ipam' = releaseIP(ipam, workers[w].ip)
      BY <2>1 DEF SpecFailed, DeleteRelease, OwnedRelease, PoolFault
    <3> QED BY <1>t, <1>u, <3>1, ReleaseDrops
  <2>2. CASE DeletePoolStatus(w)
    <3>1. workers[w].key \in Owner /\ (UNCHANGED ipam \/ ipam' = ReleaseAllByOwner(ipam, workers[w].key))
      BY <2>2, <2>k DEF DeletePoolStatus, PoolFault, At
    <3> QED BY <1>t, <1>u, <3>1, SweepDrops
  <2> QED BY <1>6, <1>u, <2>1, <2>2 DEF Step, AddFinalizer, RecordError, UpdateSpec, UpdateStatus, UpdatePoolStatus,
             UpdateAssigned, RemoveFinalizer, PoolFault
<1> QED BY <1>1, <1>2, <1>3, <1>4, <1>5, <1>6 DEF Next, Controllers, PoolWorker, FipWorker

\* Whose an address is was so before, or is by an allocation that begins; an
\* address that is marked for nobody was so before, or is in the list of the
\* refresh.
LEMMA NextOwners ==
  ASSUME MInv, Marked, Next
  PROVE  /\ Marked'
         /\ \A f \in Owner : \A a \in OwnedBy(ipam', f) : a \in OwnedBy(ipam, f) \/ \E w \in Worker : Takes(w, f, a)
         /\ \A a \in Addr : Ghost(a)' => Ghost(a) \/ (PoolRefresh /\ a \in pworker.list)
<1>t. ipam \in Subnet
  BY DEF MInv, TypeOK
<1>1. ASSUME NEW D, Drops(D)
      PROVE  /\ Marked'
             /\ \A f \in Owner : OwnedBy(ipam', f) \subseteq OwnedBy(ipam, f)
             /\ \A a \in Addr : Ghost(a)' => Ghost(a)
  BY <1>1, OwnerAssumption DEF Drops, Marked, OwnedBy, Ghost
<1>2. ASSUME NEW w \in Worker, NEW f \in Owner, NEW a, Takes(w, f, a)
      PROVE  /\ Marked'
             /\ \A g \in Owner : \A b \in OwnedBy(ipam', g) : b \in OwnedBy(ipam, g) \/ (g = f /\ b = a)
             /\ \A b \in Addr : Ghost(b)' => Ghost(b)
  <2>1. /\ a \in Addr /\ ipam'.used = ipam.used \cup {a}
        /\ \A b \in Addr : ipam'.owners[b] = IF b = a THEN f ELSE ipam.owners[b]
    BY <1>2, <1>t, ClaimOwners DEF Takes
  <2> QED BY <2>1, OwnerAssumption DEF Marked, OwnedBy, Ghost
<1>3. ASSUME PoolRefresh, ipam' = Refreshed(ipam, pworker.cfg, Excludes, pworker.list)
      PROVE  /\ Marked'
             /\ \A f \in Owner : OwnedBy(ipam', f) \subseteq OwnedBy(ipam, f)
             /\ \A a \in Addr : Ghost(a)' => a \in pworker.list
  <2>1. \A a \in Addr : /\ ipam'.owners[a] # NoOwner => a \in ipam'.used /\ ipam.owners[a] = ipam'.owners[a]
                        /\ a \in ipam'.used /\ ipam'.owners[a] = NoOwner => a \in Excludes \cup pworker.list
    BY <1>3, <1>t, RefreshOwners
  <2> QED BY <2>1, OwnerAssumption DEF Marked, OwnedBy, Ghost
<1>4. ASSUME ipam' = Absent
      PROVE  /\ Marked'
             /\ \A f \in Owner : OwnedBy(ipam', f) = {}
             /\ \A a \in Addr : ~ Ghost(a)'
  BY <1>4, OwnerAssumption DEF Absent, Marked, OwnedBy, Ghost
<1> QED BY <1>1, <1>2, <1>3, <1>4, NextIpam

-----------------------------------------------------------------------------
(* Claims                                                                  *)

\* A new claim has its worker.
LEMMA TakesWorks ==
  ASSUME MInv, NEW w \in Worker, NEW f \in Owner, NEW a, Takes(w, f, a)
  PROVE  workers'[w].pc = "spec" /\ workers'[w].key = f /\ workers'[w].ip = a /\ pcache.live /\ UNCHANGED <<pcache, delEvt>>
<1>1. workers \in [Worker -> WorkerState]
  BY DEF MInv, TypeOK
<1> QED BY <1>1 DEF Takes, SyncAllocate, Enter, Unaffected, informerVars

\* The subnet goes with the event that it is about to go.
LEMMA GoesWithEvent ==
  ASSUME MInv, Next, delEvt, ~ delEvt'
  PROVE  ipam' = Absent
<1>1. CASE User
  BY <1>1 DEF User, UserCreate, UserCreateRaced, UserLabel, UserRepin, UserEdit, UserDelete,
     AdminCreatePool, AdminEditPool, AdminDeletePool
<1>2. CASE Informers \/ PoolWorker
  BY <1>2 DEF Informers, InformFip, InformPool, InformPoolGone, PoolWorker, PoolList, PoolRefresh, PoolStatus, informerVars
<1>3. CASE handleFipPoolDelete \/ Restart
  BY <1>3 DEF handleFipPoolDelete, Restart
<1>4. ASSUME NEW w \in Worker, FipWorker(w)
      PROVE  FALSE
  BY <1>4, WorkerKeepsRange
<1> QED BY <1>1, <1>2, <1>3, <1>4 DEF Next, Controllers

\* The lister loses the pool with the event of its deletion, or at a restart.
LEMMA ListerLoses ==
  ASSUME MInv, Next, pcache.live, ~ pcache'.live
  PROVE  delEvt' \/ ipam' = Absent
<1>1. CASE User
  BY <1>1 DEF User, UserCreate, UserCreateRaced, UserLabel, UserRepin, UserEdit, UserDelete,
     AdminCreatePool, AdminEditPool, AdminDeletePool
<1>2. CASE Informers \/ PoolWorker
  <2>1. \/ pcache' = pcache \/ pcache' = [live |-> TRUE, cfg |-> pool.cfg]
        \/ delEvt'
    BY <1>2 DEF Informers, InformFip, InformPool, InformPoolGone, PoolWorker, PoolList, PoolRefresh, PoolStatus,
       informerVars
  <2> QED BY <2>1
<1>3. CASE handleFipPoolDelete \/ Restart
  BY <1>3 DEF handleFipPoolDelete, Restart
<1>4. ASSUME NEW w \in Worker, FipWorker(w)
      PROVE  FALSE
  BY <1>4, WorkerKeepsRange
<1> QED BY <1>1, <1>2, <1>3, <1>4 DEF Next, Controllers

\* The failed spec update keeps the claim only if the spec has the address.
LEMMA SpecFailedSettles ==
  ASSUME MInv, Marked, NEW w \in Worker, SpecFailed(w), NEW f \in Owner, workers[w].key = f,
         workers[w].ip \in OwnedBy(ipam, f), workers[w].ip \in OwnedBy(ipam', f)
  PROVE  fip'[f].spec = workers[w].ip
<1> DEFINE a == workers[w].ip
<1>t. Fit(ipam)
  BY DEF MInv, TypeOK, Fit
<1>1. a \in Addr /\ a \in ipam.used /\ a \in ipam.ips /\ ipam.owners[a] = f
  BY <1>t, OwnerAssumption DEF OwnedBy, Marked, Fit
<1>2. Releasable(ipam, a) /\ ~ ForeignClaim(ipam, a, f)
  BY <1>1 DEF Releasable, ForeignClaim
<1>3. CASE fip[f].spec = a
  BY <1>3 DEF SpecFailed
<1>4. CASE ipam' = releaseIP(ipam, a)
  <2>1. Drops({a})
    BY <1>4, <1>t, ReleaseDrops
  <2> QED BY <1>1, <2>1, OwnerAssumption DEF Drops, OwnedBy
<1> QED BY <1>2, <1>3, <1>4 DEF SpecFailed, OwnedRelease

\* A claim's address gets into the spec or the claim is given up.
LEMMA ClaimInSpec ==
  ASSUME MInv, MInv', BInv, Next, FipStep, SpecStep, NEW f \in Owner, NEW a \in OwnedBy(ipam, f), a \in OwnedBy(ipam', f)
  PROVE  \/ fip'[f].spec = a
         \/ \E w \in Worker : workers'[w].key = f /\ workers'[w].pc \in {"spec", "specerr"} /\ workers'[w].ip = a
<1>t. workers \in [Worker -> WorkerState] /\ fip \in [Owner -> FloatingIP] /\ a \in Addr
  BY DEF MInv, TypeOK, OwnedBy
<1>l. fip[f].live /\ fip'[f].live
  BY DEF MInv, Claims
<1>s. Allocating /\ Marked /\ ClaimsSeen
  BY DEF BInv
<1>1. CASE fip[f].spec = a
  <2>1. CASE fip'[f].spec = fip[f].spec
    BY <1>1, <2>1
  <2>2. ASSUME NEW w \in Worker, workers[w].pc = "spec", workers[w].key = f, workers[w].fresh, fip'[f].spec = workers[w].ip
        PROVE  fip'[f].spec = a
    BY <1>1, <1>s, <1>t, <2>2, NoIPAssumption DEF Allocating
  <2> QED BY <1>l, <2>1, <2>2 DEF SpecStep, Keeps, SpecWrite, Gone
<1>2. ASSUME NEW w \in Worker, workers[w].key = f, workers[w].pc \in {"spec", "specerr"}, workers[w].ip = a
      PROVE  \/ fip'[f].spec = a
             \/ \E v \in Worker : workers'[v].key = f /\ workers'[v].pc \in {"spec", "specerr"} /\ workers'[v].ip = a
  <2>1. CASE Stays(w)
    BY <1>2, <2>1 DEF Stays
  <2>2. CASE Restart
    BY <2>2, OwnerAssumption DEF Restart, Absent, OwnedBy
  <2>3. CASE Step(w)
    <3>1. UpdateSpec(w) \/ SpecFailed(w)
      BY <1>2, <2>3 DEF Step, AddFinalizer, RecordError, UpdateStatus, UpdatePoolStatus,
         UpdateAssigned, DeleteRelease, DeletePoolStatus, RemoveFinalizer, At
    <3>2. CASE SpecFailed(w)
      BY <1>2, <1>s, <3>2, SpecFailedSettles
    <3>3. CASE UpdateSpec(w)
      <4> DEFINE new == [fip[f] EXCEPT !.spec = a]
      <4>1. PutFip(f, new, Moved(w, "status")) \/ PutFip(f, new, Moved(w, "specerr")) \/ workers' = Moved(w, "specerr")
        BY <1>2, <3>3 DEF UpdateSpec, Commit
      <4>2. new.spec = a
        BY <1>t DEF FloatingIP
      <4> HIDE DEF new
      <4>3. CASE PutFip(f, new, Moved(w, "status")) \/ PutFip(f, new, Moved(w, "specerr"))
        BY <1>t, <4>2, <4>3 DEF PutFip
      <4>4. CASE workers' = Moved(w, "specerr")
        <5>1. workers'[w].pc = "specerr" /\ workers'[w].key = f /\ workers'[w].ip = a
          BY <1>2, <1>t, <4>4, MovedWorkers
        <5> QED BY <5>1
      <4> QED BY <4>1, <4>3, <4>4
    <3> QED BY <3>1, <3>2, <3>3
  <2>4. workers[w].pc # "idle"
    BY <1>2
  <2> QED BY <2>1, <2>2, <2>3, <2>4, NextMoves
<1> QED BY <1>1, <1>2, <1>s DEF ClaimsSeen

\* Where the pool is listed, or about to be unlisted for good, a claim without a
\* status is not left alone.
LEMMA ClaimPursued ==
  ASSUME MInv, MInv', BInv, Next, NEW f \in Owner, NEW a \in OwnedBy(ipam, f), a \in OwnedBy(ipam', f),
         fip'[f].status = NoIP, ~ Due(f)', ~ delEvt'
  PROVE  \E w \in Worker : /\ workers'[w].key = f
                           /\ workers'[w].pc \in {"error", "spec", "specerr", "status"} \cup Going
<1>s. ClaimsSeen
  BY DEF BInv
<1>d. ~ delEvt
  <2>1. ipam' # Absent
    BY OwnerAssumption DEF Absent, OwnedBy
  <2> QED BY <2>1, GoesWithEvent
<1>l. fip[f].live /\ fip[f].fin /\ fip'[f].live
  BY DEF MInv, Claims
<1>1. Unmoved(f) \/ \E w \in Worker : Sync(w, f)
  BY <1>l, NextDue
<1>2. CASE Unmoved(f)
  <2>1. fip'[f] = fip[f] /\ ~ Due(f)
    BY <1>2 DEF Unmoved, Due
  <2>2. PICK w \in Worker : /\ workers[w].key = f
                            /\ workers[w].pc \in {"error", "spec", "specerr", "status"} \cup Going
    BY <1>d, <1>s, <2>1 DEF ClaimsSeen
  <2>3. CASE Stays(w)
    BY <2>2, <2>3 DEF Stays
  <2>4. CASE Onward(w)
    BY <2>2, <2>4 DEF Onward, Going
  <2> QED BY <1>2, <2>2, <2>3, <2>4 DEF Unmoved
<1>3. ASSUME NEW w \in Worker, Sync(w, f)
      PROVE  \E v \in Worker : /\ workers'[v].key = f
                               /\ workers'[v].pc \in {"error", "spec", "specerr", "status"} \cup Going
  <2>1. UNCHANGED <<fip, cfresh>>
    BY <1>3 DEF Sync, SyncNothing, SyncAddFinalizer, SyncAssigned, SyncNoPool, SyncAllocate, SyncDelete,
       SyncDeleteUnallocated, Unaffected, apiVars, informerVars
  <2>2. cache[f] = fip[f]
    BY <2>1 DEF MInv, Copies, Due
  <2>3. \/ Enter(w, f, "error", NoIP) \/ \E b : Enter(w, f, "spec", b)
        \/ Enter(w, f, "rmfin", NoIP)
    <3>1. ~ SyncNoPool(w, f)
      BY <1>d, <1>s DEF ClaimsSeen, SyncNoPool
    <3> QED BY <1>3, <1>l, <2>1, <2>2, <3>1 DEF Sync, SyncNothing, SyncAddFinalizer, SyncAssigned, SyncAllocate,
               SyncDelete, SyncDeleteUnallocated, Reconcilable
  <2> QED BY <2>3, Entered DEF Going
<1> QED BY <1>1, <1>2, <1>3

\* Together.
LEMMA ClaimsSeenKept ==
  ASSUME MInv, MInv', BInv, Next, FipStep, SpecStep
  PROVE  ClaimsSeen'
<1>m. Marked /\ ClaimsSeen
  BY DEF BInv
<1>1. ASSUME NEW f \in Owner, NEW a \in OwnedBy(ipam', f)
      PROVE  a \in OwnedBy(ipam, f) \/ \E w \in Worker : Takes(w, f, a)
  BY <1>1, <1>m, NextOwners
<1>2. ASSUME NEW f \in Owner, NEW a \in OwnedBy(ipam', f)
      PROVE  \/ fip'[f].spec = a
             \/ \E w \in Worker : workers'[w].key = f /\ workers'[w].pc \in {"spec", "specerr"} /\ workers'[w].ip = a
  <2>1. CASE a \in OwnedBy(ipam, f)
    BY <1>2, <2>1, ClaimInSpec
  <2>2. CASE \E w \in Worker : Takes(w, f, a)
    BY <2>2, TakesWorks
  <2> QED BY <1>1, <1>2, <2>1, <2>2
<1>3. ASSUME NEW f \in Owner, NEW a \in OwnedBy(ipam', f), fip'[f].status = NoIP, ~ Due(f)', ~ delEvt'
      PROVE  \E w \in Worker : /\ workers'[w].key = f
                               /\ workers'[w].pc \in {"error", "spec", "specerr", "status"} \cup Going
  <2>1. CASE a \in OwnedBy(ipam, f)
    BY <1>3, <2>1, ClaimPursued
  <2>2. CASE \E w \in Worker : Takes(w, f, a)
    BY <2>2, TakesWorks
  <2> QED BY <1>1, <1>3, <2>1, <2>2
<1>4. ASSUME NEW f \in Owner, NEW a \in OwnedBy(ipam', f)
      PROVE  pcache'.live \/ delEvt'
  <2>1. CASE a \in OwnedBy(ipam, f)
    <3>1. ipam' # Absent
      BY <1>4, OwnerAssumption DEF Absent, OwnedBy
    <3>2. pcache.live \/ delEvt
      BY <1>m, <2>1 DEF ClaimsSeen
    <3> QED BY <3>1, <3>2, ListerLoses, GoesWithEvent
  <2>2. CASE \E w \in Worker : Takes(w, f, a)
    BY <2>2, TakesWorks
  <2> QED BY <1>1, <1>4, <2>1, <2>2
<1> QED BY <1>2, <1>3, <1>4 DEF ClaimsSeen, Due

-----------------------------------------------------------------------------
(* The pool's side                                                         *)

\* What the pool's worker does where no pass is ahead of it afterwards.
PoolQuiet  == ~ Ahead /\ pworker' = pworker
PoolLists  == pworker'.pc = "refresh" /\ pworker'.list = ListAllocations /\ UNCHANGED <<fip, cache, workers, ipam>>
PoolMarks  ==
    /\ ~ Ahead /\ pworker.pc = "refresh" /\ pworker'.pc = "status" /\ pworker'.list = pworker.list
    /\ ipam' = Refreshed(ipam, pworker.cfg, Excludes, pworker.list)
    /\ UNCHANGED <<fip, workers>>
PoolWrites ==
    /\ ~ Ahead /\ pworker.pc = "status" /\ pworker'.pc = "idle" /\ pool.alloc = Excludes \cup pworker.list
    /\ UNCHANGED <<fip, workers, ipam>>
PoolSide == pool' = pool /\ (PoolQuiet \/ PoolLists \/ PoolMarks \/ PoolWrites)

\* A pass is over without another ahead only if its status write found what it
\* would write; every other write is one that the watch shows.
LEMMA NextPoolSide ==
  ASSUME MInv, PoolFollowed, Next, ~ Ahead'
  PROVE  PoolSide
<1>t. /\ pool \in FloatingIPPool /\ pworker \in PoolWorkerState
      /\ {pfresh, pgone, delEvt, upEvt, poolQ, started} \subseteq BOOLEAN
  BY DEF MInv, TypeOK
<1>a. pfresh' /\ ~ poolQ' /\ ~ delEvt'
  BY DEF Ahead
<1>q. ASSUME UNCHANGED <<pool, pworker, pfresh, poolQ, delEvt>>
      PROVE  PoolSide
  BY <1>q DEF PoolSide, PoolQuiet, Ahead
<1>w. ASSUME NEW obj, PutPool(obj)
      PROVE  pool' = pool /\ obj = pool /\ pfresh
  BY <1>a, <1>w DEF PutPool
<1>1. CASE User
  <2>1. CASE UNCHANGED <<pool, pfresh, poolQ, delEvt, pworker>>
    BY <1>q, <2>1
  <2>2. CASE \E obj : PutPool(obj) /\ UNCHANGED <<poolQ, delEvt, pworker>>
    BY <1>a, <1>w, <2>2 DEF PoolSide, PoolQuiet, Ahead
  <2> QED BY <1>1, <2>1, <2>2 DEF User, UserCreate, UserCreateRaced, UserLabel, UserRepin, UserEdit, UserDelete,
             AdminCreatePool, AdminEditPool, AdminDeletePool, queueVars, managerVars
<1>2. CASE Informers
  <2>1. ASSUME InformPool
        PROVE  FALSE
    <3>1. delEvt' = delEvt /\ (delEvt \/ poolQ' = TRUE)
      BY <2>1 DEF InformPool
    <3> QED BY <1>a, <3>1
  <2>2. ASSUME InformPoolGone
        PROVE  FALSE
    <3>1. delEvt' = TRUE
      BY <2>2 DEF InformPoolGone
    <3> QED BY <1>a, <3>1
  <2> QED BY <1>2, <1>q, <2>1, <2>2 DEF Informers, InformFip, apiVars, managerVars
<1>3. CASE PoolList
  <2>1. UNCHANGED <<fip, pool, cache, pcache, pfresh, workers, ipam>>
    BY <1>3 DEF PoolList, apiVars, informerVars
  <2>2. pcache.live
    BY <1>a, <2>1 DEF PoolFollowed
  <2>3. pworker'.pc = "refresh" /\ pworker'.list = ListAllocations
    BY <1>3, <2>2 DEF PoolList
  <2> QED BY <2>1, <2>3 DEF PoolSide, PoolLists
<1>4. CASE PoolRefresh
  <2>1. UNCHANGED <<fip, pool, pfresh, delEvt, workers>> /\ pworker.pc = "refresh"
    BY <1>4 DEF PoolRefresh, apiVars, informerVars
  <2>2. ~ PoolDone(TRUE)
    BY <1>a DEF PoolDone
  <2>3. /\ ipam' = Refreshed(ipam, pworker.cfg, Excludes, pworker.list)
        /\ pworker' = [pworker EXCEPT !.pc = "status"] /\ UNCHANGED poolQ
    BY <1>4, <2>2 DEF PoolRefresh
  <2>4. pworker'.pc = "status" /\ pworker'.list = pworker.list
    BY <1>t, <2>3 DEF PoolWorkerState
  <2> QED BY <1>a, <2>1, <2>3, <2>4 DEF PoolSide, PoolMarks, Ahead
<1>5. CASE PoolStatus
  <2> DEFINE al  == Excludes \cup pworker.list
             n   == Available(ipam)
             obj == [pool EXCEPT !.alloc = al, !.avail = n]
  <2>1. ~ PoolDone(TRUE)
    BY <1>a DEF PoolDone
  <2>2. PutPool(obj) /\ PoolDone(FALSE) /\ UNCHANGED <<fip, delEvt, workers, ipam>> /\ pworker.pc = "status"
    BY <1>5, <2>1 DEF PoolStatus
  <2> HIDE DEF al, n
  <2>3. obj.alloc = al
    BY <1>t DEF FloatingIPPool
  <2> HIDE DEF obj
  <2>4. pool' = pool /\ pool.alloc = al /\ pfresh
    BY <1>w, <2>2, <2>3
  <2>5. pworker'.pc = "idle" /\ ~ poolQ
    BY <1>a, <2>2 DEF PoolDone, PoolIdle
  <2> QED BY <1>a, <2>2, <2>4, <2>5 DEF PoolSide, PoolWrites, Ahead, al
<1>6. CASE handleFipPoolDelete
  <2>1. delEvt /\ pfresh /\ (upEvt => poolQ')
    BY <1>6, <1>a DEF handleFipPoolDelete
  <2> QED BY <1>a, <2>1 DEF PoolFollowed
<1>7. CASE Restart
  BY <1>7, <1>a DEF Restart
<1>8. ASSUME NEW w \in Worker, FipWorker(w)
      PROVE  PoolSide
  <2>1. UNCHANGED <<poolQ, delEvt, pworker>> /\ pfresh
    BY <1>8, <1>a, WorkerKeepsRange
  <2>2. UNCHANGED <<pool, pfresh>> \/ \E obj : PutPool(obj)
    <3>1. CASE Step(w)
      BY <3>1 DEF Step, AddFinalizer, RecordError, UpdateSpec, SpecFailed, UpdateStatus, UpdatePoolStatus,
         UpdateAssigned, DeleteRelease, DeletePoolStatus, RemoveFinalizer, PoolFault, Untouched
    <3>2. ASSUME NEW f \in Owner, Sync(w, f)
          PROVE  UNCHANGED <<pool, pfresh>>
      BY <3>2 DEF Sync, SyncNothing, SyncAddFinalizer, SyncAssigned, SyncNoPool, SyncAllocate, SyncDelete,
         SyncDeleteUnallocated, Unaffected, apiVars, informerVars
    <3> QED BY <1>8, <3>1, <3>2 DEF FipWorker
  <2>3. pool' = pool
    BY <1>w, <2>2
  <2> QED BY <1>a, <2>1, <2>3 DEF PoolSide, PoolQuiet, Ahead
<1> QED BY <1>1, <1>2, <1>3, <1>4, <1>5, <1>6, <1>7, <1>8 DEF Next, Controllers, PoolWorker

\* An address is let go by the write of the pool's status that removes it.
LEMMA LetGo ==
  ASSUME MInv, PoolFollowed, BInv, Next, FipStep, ~ Ahead', NEW a \in Addr, HeldOn(a), ~ HeldOn(a)'
  PROVE  /\ a \notin pool.alloc /\ PoolQuiet
         /\ \E w \in Worker : workers[w].pc = "delpool" /\ workers[w].fresh /\ workers[w].ip = a
<1>s. Told /\ Allocating
  BY DEF BInv
<1>1. PICK f \in Owner : fip[f].live /\ fip[f].status = a /\ ~ Vanishing(f)
  BY DEF HeldOn
<1>2. fip[f].fin /\ a # NoIP
  BY <1>1, <1>s, NoIPAssumption DEF Told
<1>3. ~ Dies(f) /\ ~ Born(f)
  BY <1>1, <1>2 DEF Dies, Born, Vanishing
<1>4. \A w \in Worker : ~ Tells(w, f)
  BY <1>1, <1>2 DEF MInv, Untold, Tells
<1>5. fip'[f].live /\ fip'[f].status = a
  BY <1>1, <1>3, <1>4 DEF FipStep, Changed
<1>6. PICK w \in Worker : workers'[w].key = f /\ workers'[w].pc = "rmfin" /\ workers'[w].fresh
  BY <1>5 DEF HeldOn, Vanishing
<1>7. ~ TakenCopy(w)
  BY <1>1, <1>2, <1>6 DEF TakenCopy, MInv, Copies
<1>8. workers[w].fresh /\ workers[w].key = f /\ DeletePoolStatus(w)
  BY <1>1, <1>6, <1>7, NextFresh DEF KeptCopy, Vanishing
<1>9. workers[w].pc = "delpool" /\ workers[w].ip = a
  BY <1>1, <1>8, <1>s DEF DeletePoolStatus, At, Allocating, Going
<1>10. PoolSide
  BY NextPoolSide
<1>11. PoolQuiet
  <2>1. ~ UNCHANGED workers
    BY <1>6, <1>9
  <2> QED BY <1>10, <2>1 DEF PoolSide, PoolLists, PoolMarks, PoolWrites
<1>12. a \notin pool.alloc
  <2> DEFINE al  == pool.alloc \ {a}
             n   == Available(ipam)
             obj == [pool EXCEPT !.alloc = al, !.avail = n]
  <2>1. pool.live
    BY <1>11 DEF PoolQuiet, Ahead, PoolFollowed
  <2>2. workers' # Finished(w)
    <3>1. workers \in [Worker -> WorkerState]
      BY DEF MInv, TypeOK
    <3> QED BY <1>6, <3>1 DEF Finished, Idle
  <2>3. pool.alloc = {} \/ pool' = obj
    BY <1>8, <1>9, <2>1, <2>2 DEF DeletePoolStatus, PoolFault, PutPool
  <2> HIDE DEF al, n
  <2>4. obj.alloc = al
    BY DEF MInv, TypeOK, FloatingIPPool
  <2> HIDE DEF obj
  <2> QED BY <1>10, <2>3, <2>4 DEF PoolSide, al
<1> QED BY <1>8, <1>9, <1>11, <1>12

\* A refresh that is to come still is, or the list has been written.
LEMMA PendingKept ==
  ASSUME MInv, PoolFollowed, BInv, Next, ~ Ahead', NEW a \in Addr, Ghost(a)', Ghost(a) => Pending(a) \/ a \in pool.alloc
  PROVE  Pending(a)' \/ (a \in pool'.alloc /\ Ghost(a) /\ (Pending(a) => pworker'.pc = "idle"))
<1>t. ipam \in Subnet /\ Marked
  BY DEF MInv, TypeOK, BInv
<1>p. PoolSide
  BY NextPoolSide
<1>1. CASE PoolQuiet
  <2>1. CASE PoolRefresh
    BY <1>1, <2>1 DEF PoolQuiet, PoolRefresh, Pending
  <2>2. CASE ~ PoolRefresh
    <3>1. Ghost(a)
      BY <1>t, <2>2, NextOwners
    <3> QED BY <1>1, <1>p, <3>1 DEF PoolQuiet, PoolSide, Pending
  <2> QED BY <2>1, <2>2
<1>2. CASE PoolLists
  BY <1>2 DEF PoolLists, Pending
<1>3. CASE PoolMarks
  <2>1. a \in Excludes \cup pworker.list
    <3>1. ipam' = Refreshed(ipam, pworker.cfg, Excludes, pworker.list)
      BY <1>3 DEF PoolMarks
    <3> QED BY <1>t, <3>1, RefreshOwners DEF Ghost
  <2> QED BY <1>3, <2>1 DEF PoolMarks, Pending, Ghost
<1>4. CASE PoolWrites
  <2>1. Ghost(a)
    BY <1>4 DEF PoolWrites, Ghost
  <2> QED BY <1>4, <1>p, <2>1 DEF PoolWrites, PoolSide, Pending
<1> QED BY <1>1, <1>2, <1>3, <1>4, <1>p DEF PoolSide

\* A list that is taken has no address that nobody holds on to.
LEMMA ListHeld ==
  ASSUME MInv, Told, NEW a \in ListAllocations
  PROVE  HeldOn(a)
<1>1. PICK f \in Owner : cache[f].live /\ ~ cache[f].del /\ cache[f].status # NoIP /\ cache[f].status = a
  BY DEF ListAllocations
<1>2. cache[f].fin /\ fip[f].status = a
  BY <1>1 DEF Told
<1>3. fip[f].live
  BY <1>1, <1>2 DEF MInv, Objects
<1>4. ~ Vanishing(f)
  BY <1>1 DEF Vanishing, MInv, Copies
<1> QED BY <1>2, <1>3, <1>4 DEF HeldOn

\* What the pool's status has and nobody holds on to leaves it at the next write.
LEMMA AllocGoesKept ==
  ASSUME MInv, PoolFollowed, BInv, Next, FipStep
  PROVE  AllocGoes'
<1>s. Told /\ AllocGoes
  BY DEF BInv
<1>1. ASSUME NEW a \in Addr, a \in pool'.alloc, a \notin Excludes, ~ HeldOn(a)', ~ Ahead'
      PROVE  pworker'.pc # "idle" /\ a \notin pworker'.list
  <2>p. PoolSide
    BY <1>1, NextPoolSide
  <2>a. a \in pool.alloc \ Excludes
    BY <1>1, <2>p DEF PoolSide
  <2>o. ~ HeldOn(a) => Ahead \/ (pworker.pc # "idle" /\ a \notin pworker.list)
    BY <1>s, <2>a DEF AllocGoes
  <2>1. CASE PoolQuiet
    <3>1. ~ HeldOn(a)
      BY <1>1, <2>a, LetGo
    <3> QED BY <2>1, <2>o, <3>1 DEF PoolQuiet
  <2>h. UNCHANGED <<fip, workers>> => ~ HeldOn(a)
    BY <1>1 DEF HeldOn, Vanishing
  <2>2. CASE PoolLists
    <3>1. a \notin ListAllocations
      BY <1>s, <2>2, <2>h, ListHeld DEF PoolLists
    <3> QED BY <2>2, <3>1 DEF PoolLists
  <2>3. CASE PoolMarks
    BY <2>3, <2>h, <2>o DEF PoolMarks
  <2>4. CASE PoolWrites
    BY <2>4, <2>a, <2>h, <2>o DEF PoolWrites
  <2> QED BY <2>1, <2>2, <2>3, <2>4, <2>p DEF PoolSide
<1> QED BY <1>1 DEF AllocGoes

\* What is marked for nobody is looked at again.
LEMMA GhostsGoKept ==
  ASSUME MInv, PoolFollowed, BInv, Next, FipStep
  PROVE  GhostsGo'
<1>s. GhostsGo /\ AllocGoes' /\ LastGhost
  BY AllocGoesKept DEF BInv
<1>1. ASSUME NEW a \in Addr, Ghost(a)', ~ HeldOn(a)', ~ Ahead'
      PROVE  Pending(a)'
  <2>1. ASSUME Ghost(a)
        PROVE  Pending(a)
    <3>1. CASE HeldOn(a)
      <4>1. PICK w \in Worker : workers[w].pc = "delpool" /\ workers[w].fresh /\ workers[w].ip = a
        BY <1>1, <3>1, LetGo
      <4>2. Pending(a) \/ a \in pool.alloc
        BY <1>s, <2>1, <4>1 DEF LastGhost
      <4> QED BY <1>1, <3>1, <4>2, LetGo
    <3> QED BY <1>s, <2>1, <3>1 DEF GhostsGo
  <2>2. Pending(a)' \/ (a \in pool'.alloc /\ Ghost(a) /\ (Pending(a) => pworker'.pc = "idle"))
    BY <1>1, <2>1, PendingKept
  <2>3. CASE a \in pool'.alloc /\ pworker'.pc = "idle"
    BY <1>1, <1>s, <2>3 DEF AllocGoes, Ghost
  <2> QED BY <2>1, <2>2, <2>3
<1> QED BY <1>1 DEF GhostsGo, Pending

\* The release at the end of a FloatingIP's life takes the mark off its address;
\* a refresh that puts it back has the address in its list.
LEMMA LastGhostKept ==
  ASSUME MInv, PoolFollowed, BInv, Next
  PROVE  LastGhost'
<1>t. workers \in [Worker -> WorkerState] /\ Fit(ipam)
  BY DEF MInv, TypeOK, Fit
<1>1. ASSUME NEW w \in Worker, workers'[w].pc = "delpool", workers'[w].fresh, NEW a, workers'[w].ip = a, Ghost(a)'
      PROVE  Pending(a)' \/ a \in pool'.alloc
  <2>1. KeptCopy(w)
    BY <1>1, NextFresh DEF TakenCopy
  <2>2. a \in Addr
    <3>1. ipam' \in Subnet /\ ipam'.used \subseteq ipam'.ips
      BY NextSteps DEF IpamStep, Fit
    <3> QED BY <1>1, <3>1 DEF Ghost, Subnet
  <2>3. CASE workers[w].pc = "delpool"
    <3>1. Ghost(a) => Pending(a) \/ a \in pool.alloc
      BY <1>1, <2>1, <2>3 DEF KeptCopy, BInv, LastGhost
    <3> QED BY <1>1, <2>2, <3>1, PendingKept DEF Pending
  <2>4. CASE DeleteRelease(w)
    <3>1. workers' # Finished(w)
      BY <1>1, <1>t DEF Finished, Idle
    <3>2. workers[w].ip = a
      BY <1>1, <2>1 DEF KeptCopy
    <3>3. ipam' = IF Releasable(ipam, a) THEN releaseIP(ipam, a) ELSE ipam
      BY <2>4, <3>1, <3>2 DEF DeleteRelease, PoolFault
    <3>4. CASE Releasable(ipam, a)
      <4>1. Drops({a})
        BY <1>t, <3>3, <3>4, ReleaseDrops
      <4> QED BY <1>1, <2>2, <4>1 DEF Drops, Ghost
    <3>5. CASE ~ Releasable(ipam, a)
      BY <1>1, <1>t, <3>3, <3>5 DEF Releasable, Fit, Ghost
    <3> QED BY <3>4, <3>5
  <2> QED BY <1>1, <2>1, <2>3, <2>4 DEF KeptCopy, DeletePoolStatus, At
<1> QED BY <1>1 DEF LastGhost

-----------------------------------------------------------------------------
(* The theorem                                                             *)

\* No step breaks this, but for a repinned address.
LEMMA NextB == MInv /\ PoolFollowed /\ BInv /\ [Next]_vars /\ [~ Repins]_vars => BInv'
<1>1. ASSUME MInv, PoolFollowed, BInv, Next, ~ Repins
      PROVE  BInv'
  <2>m. MInv'
    BY <1>1, NextM
  <2>1. WorkerStep /\ FipStep /\ CacheStep /\ SpecStep
    BY <1>1, NextSteps, NextFip, NextCache, NextSpec
  <2>2. Told' /\ Allocating'
    BY <1>1, <2>1, <2>m, ToldKept, AllocatingKept DEF BInv
  <2>3. Marked' /\ ClaimsSeen'
    BY <1>1, <2>1, <2>m, NextOwners, ClaimsSeenKept DEF BInv
  <2>4. GhostsGo' /\ AllocGoes' /\ LastGhost'
    BY <1>1, <2>1, GhostsGoKept, AllocGoesKept, LastGhostKept
  <2> QED BY <2>2, <2>3, <2>4 DEF BInv
<1>2. ASSUME BInv, UNCHANGED vars
      PROVE  BInv'
  <2>1. UNCHANGED <<fip, pool, cache, cfresh, pcache, pfresh, delEvt, queue, poolQ, workers, pworker, ipam>>
    BY <1>2 DEF vars, apiVars, informerVars, queueVars, managerVars
  <2>2. Told' /\ Allocating' /\ Marked'
    BY <1>2, <2>1 DEF BInv, Told, Allocating, Marked
  <2>3. ClaimsSeen'
    BY <1>2, <2>1 DEF BInv, ClaimsSeen, OwnedBy, Due
  <2>4. GhostsGo' /\ AllocGoes' /\ LastGhost'
    BY <1>2, <2>1 DEF BInv, GhostsGo, AllocGoes, LastGhost, Ghost, HeldOn, Vanishing, Pending, Ahead
  <2> QED BY <2>2, <2>3, <2>4 DEF BInv
<1>3. ASSUME MInv, PoolFollowed, BInv, [Next]_vars, [~ Repins]_vars
      PROVE  BInv'
  <2>1. CASE UNCHANGED vars
    BY <1>2, <1>3, <2>1
  <2>2. CASE Next /\ ~ Repins
    BY <1>1, <1>3, <2>2
  <2> QED BY <1>3, <2>1, <2>2
<1> QED BY <1>3

\* Nothing is marked but what is excluded, in the beginning.
LEMMA InitB == Init => BInv
<1> SUFFICES ASSUME Init
             PROVE  BInv
  OBVIOUS
<1>m. MInv /\ SInv
  BY InitM, InitS
<1>f. \A f \in Owner : fip[f] = Gone /\ cache[f] = Gone
  BY DEF Init
<1>g. ~ Gone.live /\ ~ Gone.del /\ Gone.status = NoIP
  BY DEF Gone
<1>w. \A w \in Worker : workers[w].pc = "idle"
  BY DEF Init, Idle
<1> HIDE DEF Gone
<1>1. Told /\ Allocating /\ LastGhost
  BY <1>f, <1>g, <1>w DEF Told, Allocating, LastGhost, Going
<1>2. \A f \in Owner : OwnedBy(ipam, f) = {}
  BY <1>f, <1>g, <1>m DEF MInv, Claims
<1>3. \A a \in Addr : ~ Ghost(a)
  <2>1. CASE PoolAtStart
    <3>1. Absent \in Subnet
      BY AbsentFits DEF Fit
    <3>2. ipam = Refreshed(Absent, StartConfig, Excludes, {})
      BY <2>1 DEF Init
    <3> QED BY <3>1, <3>2, RefreshOwners DEF Ghost
  <2>2. CASE ~ PoolAtStart
    BY <2>2 DEF Init, Absent, Ghost
  <2> QED BY <2>1, <2>2
<1>4. pool.alloc \subseteq Excludes
  <2>1. CASE PoolAtStart
    BY <2>1 DEF Init
  <2>2. CASE ~ PoolAtStart
    BY <2>2 DEF Init
  <2> QED BY <2>1, <2>2
<1>5. ClaimsSeen /\ GhostsGo /\ AllocGoes
  BY <1>2, <1>3, <1>4 DEF ClaimsSeen, GhostsGo, AllocGoes
<1> QED BY <1>1, <1>5, <1>m DEF BInv, SInv

\* At rest no address is burned, as long as nobody edits the address in a spec:
\* the claims of failed, lost, retried and abandoned allocations are given back
\* or become the FloatingIP's address, and what a refresh marked from an old list
\* is taken back by another refresh, because the deletion changes the pool's
\* status, the watch shows that, and the pool's key is queued again.  Faults,
\* restarts, deletions, races and changes of the pool are all allowed.  The trace
\* of RepinBurn.cfg, in which an edited address is burned, shows that the
\* condition is needed.
THEOREM BurnedOnlyByRepin == Spec /\ [][~ Repins]_vars => []SettledNoBurn
<1>1. ASSUME MInv, PoolFollowed, BInv
      PROVE  SettledNoBurn
  <2>1. ASSUME Settled, pool.live, NEW a \in ipam.used, a \notin Excludes
        PROVE  a \in Holders
    <3>a. a \in Addr /\ a # NoIP
      BY <1>1, NoIPAssumption DEF MInv, TypeOK, Subnet
    <3>s. /\ ~ Ahead /\ pworker.pc = "idle" /\ \A w \in Worker : workers[w].pc = "idle"
          /\ \A f \in Owner : ~ Due(f)
      BY <2>1 DEF Settled, Ahead, Due
    <3>1. CASE Ghost(a)
      <4>1. HeldOn(a)
        BY <1>1, <3>1, <3>a, <3>s DEF BInv, GhostsGo, Pending
      <4> QED BY <3>a, <4>1 DEF HeldOn, Holders
    <3>2. ASSUME NEW f \in Owner, ipam.owners[a] = f
          PROVE  a \in Holders
      <4>1. a \in OwnedBy(ipam, f)
        BY <3>2, <3>a DEF OwnedBy
      <4>2. fip[f].spec = a /\ fip[f].status # NoIP
        BY <1>1, <3>s, <4>1 DEF BInv, ClaimsSeen, Ahead, Going
      <4>3. fip[f].status = a /\ fip[f].live
        BY <1>1, <4>1, <4>2 DEF BInv, Told, MInv, Claims
      <4> QED BY <3>a, <4>3 DEF Holders
    <3>3. ipam.owners[a] \in Owner \cup {NoOwner}
      BY <1>1, <3>a DEF MInv, TypeOK, Subnet
    <3> QED BY <2>1, <3>1, <3>2, <3>3 DEF Ghost
  <2> QED BY <2>1 DEF SettledNoBurn
<1> QED BY <1>1, InitB, NextB, InitFollowed, NextFollowed, Invariance, PTL DEF Spec
=============================================================================
