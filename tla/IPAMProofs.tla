----------------------------- MODULE IPAMProofs ------------------------------
(***************************************************************************)
(* Proofs about the allocator, for any sets of pools, addresses, owners    *)
(* and configurations.                                                     *)
(***************************************************************************)
EXTENDS IPAM, TLAPS

\* The inductive invariant: the maps have their types, taken addresses lie in
\* the range, and an owner is recorded only on a taken address.
IInv == TypeOK /\ OwnersAllocated

-----------------------------------------------------------------------------
(* What the operators of IPAMOps return.                                   *)

\* A subnet is sound when its maps agree with each other.
Sound(s) == /\ s \in Subnet
            /\ s.used \subseteq s.ips
            /\ \A a \in Addr : s.owners[a] # NoOwner => a \in s.used

\* The subnet of a pool that does not exist is sound: no owner survives a
\* DeleteSubnet.
LEMMA AbsentSound == Sound(Absent)
  BY DEF Sound, Absent, Subnet

\* buildSubnet returns a sound subnet in which every address is free.
LEMMA BuildSound ==
  ASSUME NEW c \in Config
  PROVE  /\ Sound(buildSubnet(c))
         /\ buildSubnet(c).used = {}
         /\ buildSubnet(c).owners = [a \in Addr |-> NoOwner]
  BY DEF Sound, buildSubnet, Absent, Subnet

\* A claim on a free address, or on one the owner has already, keeps the maps
\* in agreement.
LEMMA ClaimSound ==
  ASSUME NEW s, Sound(s), NEW a \in s.ips, NEW o \in Owner \cup {NoOwner}
  PROVE  Sound(Claim(s, a, o))
  BY DEF Sound, Claim, Subnet

\* A release forgets the owner together with the allocation.
LEMMA ReleaseSound ==
  ASSUME NEW s, Sound(s), NEW a \in Addr
  PROVE  Sound(releaseIP(s, a))
  BY DEF Sound, releaseIP, Subnet

\* The sweep frees exactly the addresses whose owner it forgets.
LEMMA SweepSound ==
  ASSUME NEW s, Sound(s), NEW o \in Owner
  PROVE  Sound(ReleaseAllByOwner(s, o))
  BY OwnerAssumption DEF Sound, ReleaseAllByOwner, OwnedBy, Subnet

\* A refresh carries an owner only together with its claim.
LEMMA RefreshSound ==
  ASSUME NEW s, Sound(s), NEW c \in Config, NEW E \in SUBSET Addr, NEW A \in SUBSET Addr
  PROVE  Sound(Refreshed(s, c, E, A))
  BY DEF Sound, Refreshed, MarkUsed, Carried, buildSubnet, Absent, Subnet

\* getIP returns free addresses of the pool.
LEMMA GetFree ==
  ASSUME NEW s, NEW given, NEW a \in getIP(s, given)
  PROVE  a \in Free(s)
  BY DEF getIP

\* GetIPOwned returns a free address, or one that is recorded as the caller's.
LEMMA GetOwnedFreeOrOwn ==
  ASSUME NEW s, NEW given, NEW o, NEW a \in GetIPOwned(s, given, o)
  PROVE  a \in Free(s) \/ (a \in s.used /\ s.owners[a] = o)
  BY GetFree DEF GetIPOwned

-----------------------------------------------------------------------------
(* The invariant                                                           *)

\* The invariant says that every pool's subnet is sound.
LEMMA IInvSound ==
  ipam \in [Pool -> Subnet] => (IInv <=> \A p \in Pool : Sound(ipam[p]))
  BY DEF IInv, TypeOK, OwnersAllocated, Sound

\* A step that leaves a sound subnet behind keeps the invariant.
LEMMA SwapKeepsIInv ==
  ASSUME IInv, NEW p \in Pool, NEW s, Sound(s), ipam' = [ipam EXCEPT ![p] = s]
  PROVE  IInv'
  BY DEF IInv, TypeOK, OwnersAllocated, Sound

\* Every method keeps the allocator's maps in agreement: types, ranges and
\* owners.
THEOREM InductiveInvariant == Spec => []IInv
<1>1. Init => IInv
  BY AbsentSound DEF Init, IInv, TypeOK, OwnersAllocated, Sound
<1>2. IInv /\ [Next]_ipam => IInv'
  <2> SUFFICES ASSUME IInv, [Next]_ipam
               PROVE  IInv'
    OBVIOUS
  <2>s. \A p \in Pool : Sound(ipam[p])
    BY IInvSound DEF IInv, TypeOK
  <2>1. ASSUME NEW p \in Pool, NEW c \in Configs, NewSubnet(p, c)
        PROVE  IInv'
    BY <2>1, BuildSound, SwapKeepsIInv, ConfigsAssumption DEF NewSubnet
  <2>2. ASSUME NEW p \in Pool, NEW c \in Configs, NEW E \in SUBSET Addr, NEW A \in SUBSET Addr,
               RefreshSubnet(p, c, E, A)
        PROVE  IInv'
    <3>1. Sound(Refreshed(ipam[p], c, E, A))
      BY <2>s, RefreshSound, ConfigsAssumption
    <3> QED BY <2>2, <3>1, SwapKeepsIInv DEF RefreshSubnet
  <2>3. ASSUME NEW p \in Pool, DeleteSubnet(p)
        PROVE  IInv'
    BY <2>3, AbsentSound, SwapKeepsIInv DEF DeleteSubnet
  <2>4. ASSUME NEW p \in Pool, NEW given \in Addr \cup {NoIP}, GetIP(p, given)
        PROVE  IInv'
    <3>1. PICK a \in getIP(ipam[p], given) : ipam' = [ipam EXCEPT ![p] = Claim(ipam[p], a, NoOwner)]
      BY <2>4 DEF GetIP
    <3>2. a \in ipam[p].ips
      BY GetFree DEF Free
    <3>3. Sound(Claim(ipam[p], a, NoOwner))
      BY <2>s, <3>2, ClaimSound
    <3> QED BY <3>1, <3>3, SwapKeepsIInv
  <2>5. ASSUME NEW p \in Pool, NEW given \in Addr \cup {NoIP}, NEW o \in Owner, GetOwned(p, given, o)
        PROVE  IInv'
    <3>1. PICK a \in GetIPOwned(ipam[p], given, o) : ipam' = [ipam EXCEPT ![p] = Claim(ipam[p], a, o)]
      BY <2>5 DEF GetOwned
    <3>2. a \in ipam[p].ips
      BY <2>s, GetOwnedFreeOrOwn DEF Free, Sound
    <3>3. Sound(Claim(ipam[p], a, o))
      BY <2>s, <3>2, ClaimSound
    <3> QED BY <3>1, <3>3, SwapKeepsIInv
  <2>6. ASSUME NEW p \in Pool, NEW a \in Addr, ReleaseIP(p, a)
        PROVE  IInv'
    <3>1. Sound(releaseIP(ipam[p], a))
      BY <2>s, ReleaseSound
    <3> QED BY <2>6, <3>1, SwapKeepsIInv DEF ReleaseIP
  <2>7. ASSUME NEW p \in Pool, NEW a \in Addr, NEW o \in Owner, ReleaseIPOwned(p, a, o)
        PROVE  IInv'
    BY <2>6, <2>7 DEF ReleaseIPOwned
  <2>8. ASSUME NEW p \in Pool, NEW o \in Owner, ReleaseAll(p, o)
        PROVE  IInv'
    <3>1. Sound(ReleaseAllByOwner(ipam[p], o))
      BY <2>s, SweepSound
    <3> QED BY <2>8, <3>1, SwapKeepsIInv DEF ReleaseAll
  <2>9. CASE UNCHANGED ipam
    BY <2>9 DEF IInv, TypeOK, OwnersAllocated
  <2> QED BY <2>1, <2>2, <2>3, <2>4, <2>5, <2>6, <2>7, <2>8, <2>9 DEF Next
<1> QED BY <1>1, <1>2, PTL DEF Spec

\* The type invariant the runs check.
THEOREM TypeCorrect == Spec => []TypeOK
  BY InductiveInvariant, PTL DEF IInv

\* An owner is recorded only on a taken address of the pool.
THEOREM OwnersAlwaysAllocated == Spec => []OwnersAllocated
  BY InductiveInvariant, PTL DEF IInv

-----------------------------------------------------------------------------
(* The allocator implements the table of claims                            *)

\* What an update of one pool's subnet does to the table.
LEMMA TableUpdate ==
  ASSUME IInv, NEW p \in Pool, NEW s, Sound(s), ipam' = [ipam EXCEPT ![p] = s]
  PROVE  /\ claims' = [claims EXCEPT ![p] = s.owners]
         /\ free' = [free EXCEPT ![p] = Free(s)]
  BY DEF IInv, TypeOK, claims, free, Sound

\* The table's entry for one pool.
LEMMA TableEntry ==
  ASSUME IInv, NEW p \in Pool
  PROVE  /\ claims[p] = ipam[p].owners
         /\ free[p] = Free(ipam[p])
         /\ claims[p] \in [Addr -> Owner \cup {NoOwner}]
         /\ free[p] \in SUBSET Addr
         /\ Sound(ipam[p])
  BY IInvSound DEF IInv, TypeOK, claims, free, Sound, Subnet, Free

\* A claim on a free address is the table's grant.
LEMMA ClaimIsGrant ==
  ASSUME IInv, NEW p \in Pool, NEW o \in Owner \cup {NoOwner}, NEW a \in Free(ipam[p]),
         ipam' = [ipam EXCEPT ![p] = Claim(ipam[p], a, o)]
  PROVE  Claims!Grant(p, a, o)
<1>1. Sound(ipam[p]) /\ a \in ipam[p].ips
  BY TableEntry DEF Free
<1>2. Sound(Claim(ipam[p], a, o))
  BY <1>1, ClaimSound
<1>3. /\ claims' = [claims EXCEPT ![p] = Claim(ipam[p], a, o).owners]
      /\ free' = [free EXCEPT ![p] = Free(Claim(ipam[p], a, o))]
  BY <1>2, TableUpdate
<1>4. /\ Claim(ipam[p], a, o).owners = [claims[p] EXCEPT ![a] = o]
      /\ Free(Claim(ipam[p], a, o)) = free[p] \ {a}
  BY <1>1, TableEntry DEF Claim, Sound, Subnet, Free
<1> QED BY <1>3, <1>4, TableEntry DEF Claims!Grant

\* A release that asks for no owner is the table's eviction.
LEMMA ReleaseIsEvict ==
  ASSUME IInv, NEW p \in Pool, NEW a \in Addr, ReleaseIP(p, a)
  PROVE  Claims!Evict(p, a)
<1>1. Sound(ipam[p]) /\ a \in ipam[p].ips \cap ipam[p].used
  BY TableEntry DEF ReleaseIP, Releasable
<1>2. Sound(releaseIP(ipam[p], a))
  BY <1>1, ReleaseSound
<1>3. /\ claims' = [claims EXCEPT ![p] = releaseIP(ipam[p], a).owners]
      /\ free' = [free EXCEPT ![p] = Free(releaseIP(ipam[p], a))]
  BY <1>2, TableUpdate DEF ReleaseIP
<1>4. /\ releaseIP(ipam[p], a).owners = [claims[p] EXCEPT ![a] = NoOwner]
      /\ Free(releaseIP(ipam[p], a)) = free[p] \cup {a}
  BY <1>1, TableEntry DEF releaseIP, Sound, Subnet, Free
<1> QED BY <1>1, <1>3, <1>4, TableEntry, ZenonT(30) DEF Claims!Evict, Free

\* A refresh keeps every owned claim of an address that stays in the range,
\* and offers none of the owned addresses.
LEMMA RefreshIsReconfigure ==
  ASSUME IInv, NEW p \in Pool, NEW c \in Configs, NEW E \in SUBSET Addr, NEW A \in SUBSET Addr,
         RefreshSubnet(p, c, E, A)
  PROVE  \E offer, kept \in SUBSET Addr : Claims!Reconfigure(p, offer, kept)
<1> DEFINE s    == Refreshed(ipam[p], c, E, A)
           kept == Carried(ipam[p], buildSubnet(c))
<1>1. Sound(ipam[p]) /\ Sound(s)
  BY TableEntry, RefreshSound, ConfigsAssumption
<1>2. /\ claims' = [claims EXCEPT ![p] = s.owners]
      /\ free' = [free EXCEPT ![p] = Free(s)]
  BY <1>1, TableUpdate DEF RefreshSubnet
<1>3. /\ buildSubnet(c).ips \in SUBSET Addr
      /\ buildSubnet(c) \in Subnet
      /\ buildSubnet(c).used = {}
  BY BuildSound, ConfigsAssumption DEF Sound, Subnet
<1>4. kept \in SUBSET Addr /\ kept \subseteq Claims!Held(p)
  BY <1>3, TableEntry DEF Carried, Claims!Held
<1>5. s.owners = [a \in Addr |-> IF a \in kept THEN claims[p][a] ELSE NoOwner]
  BY <1>3, TableEntry DEF Refreshed, MarkUsed, Subnet
<1>6. s.ips = buildSubnet(c).ips /\ kept \subseteq s.used
  <2>1. kept \subseteq buildSubnet(c).ips
    BY DEF Carried
  <2> QED BY <1>3, <2>1 DEF Refreshed, MarkUsed, Subnet
<1>7. Free(s) \cap Claims!Held(p) = {}
  <2> SUFFICES ASSUME NEW a \in Addr, a \in s.ips, claims[p][a] # NoOwner
               PROVE  a \in s.used
    BY <1>1 DEF Free, Claims!Held
  <2>1. a \in ipam[p].used /\ ipam[p].owners[a] # NoOwner
    BY <1>1, TableEntry DEF Sound
  <2>2. a \in kept
    BY <1>6, <2>1 DEF Carried
  <2> QED BY <1>6, <2>2
<1>8. Free(s) \in SUBSET Addr
  BY <1>1 DEF Sound, Subnet, Free
<1>9. Claims!Reconfigure(p, Free(s), kept)
  BY <1>2, <1>4, <1>5, <1>7 DEF Claims!Reconfigure
<1> QED BY <1>4, <1>8, <1>9

\* The sweep of an owner's claims gives back exactly that owner's addresses.
LEMMA SweepIsGiveBack ==
  ASSUME IInv, NEW p \in Pool, NEW o \in Owner, ReleaseAll(p, o)
  PROVE  \E S \in SUBSET Addr : Claims!GiveBack(p, o, S)
<1> DEFINE s == ReleaseAllByOwner(ipam[p], o)
           S == OwnedBy(ipam[p], o)
<1>1. Sound(ipam[p]) /\ Sound(s)
  BY TableEntry, SweepSound
<1>2. /\ claims' = [claims EXCEPT ![p] = s.owners]
      /\ free' = [free EXCEPT ![p] = Free(s)]
  BY <1>1, TableUpdate DEF ReleaseAll
<1>3. S \in SUBSET Addr /\ \A a \in S : claims[p][a] = o
  BY TableEntry DEF OwnedBy
<1>4. S \subseteq ipam[p].used /\ S \subseteq ipam[p].ips
  BY <1>1, OwnerAssumption DEF OwnedBy, Sound
<1>5. s.owners = [a \in Addr |-> IF a \in S THEN NoOwner ELSE claims[p][a]]
  BY <1>1, TableEntry DEF ReleaseAllByOwner, OwnedBy, Sound, Subnet
<1>6. s.ips = ipam[p].ips /\ s.used = ipam[p].used \ S
  BY <1>1, <1>4 DEF ReleaseAllByOwner, Sound, Subnet
<1>7. Free(s) = free[p] \cup S
  BY <1>4, <1>6, TableEntry DEF Free
<1>8. Claims!GiveBack(p, o, S)
  BY <1>2, <1>3, <1>5, <1>7 DEF Claims!GiveBack
<1> QED BY <1>3, <1>8

\* Replacing a pool's subnet by one without owners resets its entry.
LEMMA SwapIsReset ==
  ASSUME IInv, NEW p \in Pool, NEW s, Sound(s), s.owners = [a \in Addr |-> NoOwner],
         ipam' = [ipam EXCEPT ![p] = s]
  PROVE  \E offer \in SUBSET Addr : Claims!Reset(p, offer)
<1>1. Free(s) \in SUBSET Addr
  BY DEF Sound, Subnet, Free
<1>2. /\ claims' = [claims EXCEPT ![p] = s.owners]
      /\ free' = [free EXCEPT ![p] = Free(s)]
  BY TableUpdate
<1>3. Claims!Reset(p, Free(s))
  BY <1>2 DEF Claims!Reset
<1> QED BY <1>1, <1>3

\* Every step of the allocator is a step of the table, or changes nothing in
\* it.
LEMMA StepIsClaimStep ==
  ASSUME IInv, [Next]_ipam
  PROVE  [Claims!Next]_<<claims, free>>
<1>1. ASSUME NEW p \in Pool, NEW c \in Configs, NewSubnet(p, c)
      PROVE  Claims!Next
  <2>1. \E offer \in SUBSET Addr : Claims!Reset(p, offer)
    BY <1>1, BuildSound, SwapIsReset, ConfigsAssumption DEF NewSubnet
  <2> QED BY <2>1 DEF Claims!Next
<1>2. ASSUME NEW p \in Pool, NEW c \in Configs, NEW E \in SUBSET Addr, NEW A \in SUBSET Addr,
             RefreshSubnet(p, c, E, A)
      PROVE  Claims!Next
  BY <1>2, RefreshIsReconfigure DEF Claims!Next
<1>3. ASSUME NEW p \in Pool, DeleteSubnet(p)
      PROVE  Claims!Next
  <2>1. Absent.owners = [a \in Addr |-> NoOwner]
    BY DEF Absent
  <2>2. \E offer \in SUBSET Addr : Claims!Reset(p, offer)
    BY <1>3, <2>1, AbsentSound, SwapIsReset DEF DeleteSubnet
  <2> QED BY <2>2 DEF Claims!Next
<1>4. ASSUME NEW p \in Pool, NEW given \in Addr \cup {NoIP}, GetIP(p, given)
      PROVE  Claims!Next
  <2>1. PICK a \in getIP(ipam[p], given) : ipam' = [ipam EXCEPT ![p] = Claim(ipam[p], a, NoOwner)]
    BY <1>4 DEF GetIP
  <2>2. a \in Free(ipam[p]) /\ a \in Addr
    BY GetFree, TableEntry DEF Free, Sound, Subnet
  <2>3. Claims!Grant(p, a, NoOwner)
    BY <2>1, <2>2, ClaimIsGrant
  <2> QED BY <2>2, <2>3 DEF Claims!Next
<1>5. ASSUME NEW p \in Pool, NEW given \in Addr \cup {NoIP}, NEW o \in Owner, GetOwned(p, given, o)
      PROVE  Claims!Next \/ UNCHANGED <<claims, free>>
  <2>1. PICK a \in GetIPOwned(ipam[p], given, o) : ipam' = [ipam EXCEPT ![p] = Claim(ipam[p], a, o)]
    BY <1>5 DEF GetOwned
  <2>2. CASE a \in Free(ipam[p])
    <3>1. a \in Addr
      BY <2>2, TableEntry DEF Free, Sound, Subnet
    <3>2. Claims!Grant(p, a, o)
      BY <2>1, <2>2, ClaimIsGrant
    <3> QED BY <3>1, <3>2 DEF Claims!Next
  <2>3. CASE a \in ipam[p].used /\ ipam[p].owners[a] = o
    <3>1. Sound(ipam[p]) /\ a \in Addr
      BY <2>3, TableEntry DEF Sound, Subnet
    <3>2. Claim(ipam[p], a, o) = ipam[p]
      BY <2>3, <3>1 DEF Claim, Sound, Subnet
    <3>3. ipam' = ipam
      BY <2>1, <3>2 DEF IInv, TypeOK
    <3> QED BY <3>3 DEF claims, free
  <2> QED BY <2>2, <2>3, GetOwnedFreeOrOwn
<1>6. ASSUME NEW p \in Pool, NEW a \in Addr, ReleaseIP(p, a)
      PROVE  Claims!Next
  BY <1>6, ReleaseIsEvict DEF Claims!Next
<1>7. ASSUME NEW p \in Pool, NEW a \in Addr, NEW o \in Owner, ReleaseIPOwned(p, a, o)
      PROVE  Claims!Next
  BY <1>6, <1>7 DEF ReleaseIPOwned
<1>8. ASSUME NEW p \in Pool, NEW o \in Owner, ReleaseAll(p, o)
      PROVE  Claims!Next
  BY <1>8, SweepIsGiveBack DEF Claims!Next
<1>9. CASE UNCHANGED ipam
  BY <1>9 DEF claims, free
<1> QED BY <1>1, <1>2, <1>3, <1>4, <1>5, <1>6, <1>7, <1>8, <1>9 DEF Next

\* The allocator of ipam.go implements the table of claims its callers rely
\* on, whatever they call and however the pools are reconfigured.
THEOREM Implementation == Spec => ImplementsClaims
<1>1. Init => Claims!Init
  BY DEF Init, Claims!Init, claims, free, Absent, Free
<1>2. IInv /\ [Next]_ipam => [Claims!Next]_<<claims, free>>
  BY StepIsClaimStep
<1> QED BY <1>1, <1>2, InductiveInvariant, PTL DEF Spec, ImplementsClaims, Claims!Spec, Claims!vars

\* A claimed address is never handed to another owner.
THEOREM NoTransferAlways == Spec => NoTransfer
<1> DEFINE Kept == \A p \in Pool, a \in Addr :
                      claims[p][a] # NoOwner => claims'[p][a] \in {claims[p][a], NoOwner}
<1>1. IInv /\ [Next]_ipam => [Kept]_<<claims, free>>
  <2> SUFFICES ASSUME IInv, [Next]_ipam
               PROVE  [Kept]_<<claims, free>>
    OBVIOUS
  <2>t. claims \in [Pool -> [Addr -> Owner \cup {NoOwner}]] /\ free \in [Pool -> SUBSET Addr]
    BY DEF IInv, TypeOK, Subnet, claims, free, Free
  <2>h. \A p \in Pool : free[p] \cap {a \in Addr : claims[p][a] # NoOwner} = {}
    BY TableEntry DEF Sound, Free
  <2>1. ASSUME NEW p \in Pool, NEW a \in Addr, NEW o \in Owner \cup {NoOwner}, Claims!Grant(p, a, o)
        PROVE  Kept
    BY <2>1, <2>t, <2>h DEF Claims!Grant
  <2>2. ASSUME NEW p \in Pool, NEW o \in Owner, NEW S \in SUBSET Addr, Claims!GiveBack(p, o, S)
        PROVE  Kept
    BY <2>2, <2>t DEF Claims!GiveBack
  <2>3. ASSUME NEW p \in Pool, NEW a \in Addr, Claims!Evict(p, a)
        PROVE  Kept
    BY <2>3, <2>t DEF Claims!Evict
  <2>4. ASSUME NEW p \in Pool, NEW offer \in SUBSET Addr, NEW kept \in SUBSET Addr,
               Claims!Reconfigure(p, offer, kept)
        PROVE  Kept
    BY <2>4, <2>t DEF Claims!Reconfigure
  <2>5. ASSUME NEW p \in Pool, NEW offer \in SUBSET Addr, Claims!Reset(p, offer)
        PROVE  Kept
    BY <2>5, <2>t DEF Claims!Reset
  <2> QED BY StepIsClaimStep, <2>1, <2>2, <2>3, <2>4, <2>5 DEF Claims!Next
<1> QED BY <1>1, InductiveInvariant, PTL DEF Spec, NoTransfer, Claims!NoTransfer, Claims!vars

-----------------------------------------------------------------------------
(* What single methods leave alone                                         *)

\* A refreshed subnet has every owned claim of the old one that its range
\* still contains.
LEMMA RefreshCarries ==
  ASSUME NEW s, Sound(s), NEW c \in Config, NEW E \in SUBSET Addr, NEW A \in SUBSET Addr,
         NEW a \in Refreshed(s, c, E, A).ips, a \in s.used, s.owners[a] # NoOwner
  PROVE  /\ a \in Refreshed(s, c, E, A).used
         /\ Refreshed(s, c, E, A).owners[a] = s.owners[a]
  BY DEF Sound, Refreshed, MarkUsed, Carried, buildSubnet, Absent, Subnet

\* Owned claims survive every refresh, whatever list it is given ("ownership
\* is authoritative and always survives a refresh").
THEOREM RefreshAlwaysKeepsClaims == Spec => RefreshKeepsClaims
<1> DEFINE Keeps == \A p \in Pool, c \in Configs, excludes, allocations \in SUBSET Addr :
                       RefreshSubnet(p, c, excludes, allocations)
                       => \A a \in ipam'[p].ips :
                             a \in ipam[p].used /\ ipam[p].owners[a] # NoOwner
                             => a \in ipam'[p].used /\ ipam'[p].owners[a] = ipam[p].owners[a]
<1>1. IInv => Keeps
  <2> SUFFICES ASSUME IInv, NEW p \in Pool, NEW c \in Configs,
                      NEW E \in SUBSET Addr, NEW A \in SUBSET Addr, RefreshSubnet(p, c, E, A),
                      NEW a \in ipam'[p].ips, a \in ipam[p].used, ipam[p].owners[a] # NoOwner
               PROVE  a \in ipam'[p].used /\ ipam'[p].owners[a] = ipam[p].owners[a]
    OBVIOUS
  <2>1. ipam'[p] = Refreshed(ipam[p], c, E, A)
    BY DEF RefreshSubnet, IInv, TypeOK
  <2>2. Sound(ipam[p])
    BY IInvSound DEF IInv, TypeOK
  <2> QED BY <2>1, <2>2, RefreshCarries, ConfigsAssumption
<1> QED BY <1>1, InductiveInvariant, PTL DEF RefreshKeepsClaims

\* s is a subnet in which the claims of everybody but o are those of t.
OthersKept(s, t, o) ==
    \A a \in Addr : a \in t.used /\ t.owners[a] # o => a \in s.used /\ s.owners[a] = t.owners[a]

\* A step on one pool that keeps the others' claims there keeps them in all.
LEMMA OthersKeptEverywhere ==
  ASSUME IInv, NEW p \in Pool, NEW s, NEW o \in Owner,
         OthersKept(s, ipam[p], o), ipam' = [ipam EXCEPT ![p] = s]
  PROVE  \A q \in Pool : OthersKept(ipam'[q], ipam[q], o)
  BY DEF OthersKept, IInv, TypeOK

\* The owner-aware methods never touch another owner's claim.
THEOREM OwnerAwareAlwaysStaysHome == Spec => OwnerAwareCallsStayHome
<1> DEFINE Call(p, o) == \/ \E given \in Addr \cup {NoIP} : GetOwned(p, given, o)
                         \/ \E a \in Addr : ReleaseIPOwned(p, a, o)
                         \/ ReleaseAll(p, o)
           Others == \A p \in Pool, owner \in Owner :
                        Call(p, owner)
                        => \A q \in Pool, a \in Addr :
                              a \in ipam[q].used /\ ipam[q].owners[a] # owner
                              => a \in ipam'[q].used /\ ipam'[q].owners[a] = ipam[q].owners[a]
<1>1. IInv => Others
  <2> SUFFICES ASSUME IInv, NEW p \in Pool, NEW o \in Owner, Call(p, o)
               PROVE  \A q \in Pool : OthersKept(ipam'[q], ipam[q], o)
    BY DEF OthersKept
  <2>s. Sound(ipam[p])
    BY IInvSound DEF IInv, TypeOK
  <2>1. ASSUME NEW given \in Addr \cup {NoIP}, GetOwned(p, given, o)
        PROVE  \A q \in Pool : OthersKept(ipam'[q], ipam[q], o)
    <3>1. PICK a \in GetIPOwned(ipam[p], given, o) : ipam' = [ipam EXCEPT ![p] = Claim(ipam[p], a, o)]
      BY <2>1 DEF GetOwned
    <3>2. a \notin ipam[p].used \/ ipam[p].owners[a] = o
      BY GetOwnedFreeOrOwn DEF Free
    <3>3. OthersKept(Claim(ipam[p], a, o), ipam[p], o)
      BY <2>s, <3>2 DEF OthersKept, Claim, Sound, Subnet
    <3> QED BY <3>1, <3>3, OthersKeptEverywhere
  <2>2. ASSUME NEW a \in Addr, ReleaseIPOwned(p, a, o)
        PROVE  \A q \in Pool : OthersKept(ipam'[q], ipam[q], o)
    <3>1. ipam[p].owners[a] = o /\ ipam' = [ipam EXCEPT ![p] = releaseIP(ipam[p], a)]
      BY <2>2 DEF ReleaseIPOwned, ReleaseIP, ForeignClaim
    <3>2. OthersKept(releaseIP(ipam[p], a), ipam[p], o)
      BY <2>s, <3>1 DEF OthersKept, releaseIP, Sound, Subnet
    <3> QED BY <3>1, <3>2, OthersKeptEverywhere
  <2>3. ASSUME ReleaseAll(p, o)
        PROVE  \A q \in Pool : OthersKept(ipam'[q], ipam[q], o)
    <3>1. OthersKept(ReleaseAllByOwner(ipam[p], o), ipam[p], o)
      BY <2>s DEF OthersKept, ReleaseAllByOwner, OwnedBy, Sound, Subnet
    <3> QED BY <2>3, <3>1, OthersKeptEverywhere DEF ReleaseAll
  <2> QED BY <2>1, <2>2, <2>3
<1> QED BY <1>1, InductiveInvariant, PTL DEF OwnerAwareCallsStayHome
=============================================================================
