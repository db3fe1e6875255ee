-------------------------------- MODULE IPAM ---------------------------------
(***************************************************************************)
(* The allocator of pkg/ipam as its callers see it: ipam maps a pool name  *)
(* to its subnet, and every exported method is one step, because each      *)
(* takes the allocator's mutex for its whole body.  Any caller may call    *)
(* any method with any argument: the allocator has to keep its promise     *)
(* (ClaimTable) without trusting them.                                     *)
(***************************************************************************)
EXTENDS IPAMOps

CONSTANTS Pool,    \* pool names
          Configs  \* the ipConfigs that pools may be given

ASSUME ConfigsAssumption == Configs \subseteq Config

VARIABLE ipam

\* The shape of the allocator, and that only addresses of the range are ever
\* marked as taken.
TypeOK == /\ ipam \in [Pool -> Subnet]
          /\ \A p \in Pool : ipam[p].used \subseteq ipam[p].ips

\* New()
Init == ipam = [p \in Pool |-> Absent]

-----------------------------------------------------------------------------

NewSubnet(p, c) ==
    /\ Buildable(c)
    /\ ipam' = [ipam EXCEPT ![p] = buildSubnet(c)]

\* A refresh whose build or excludes fail returns the error before the swap
\* and changes nothing.
RefreshSubnet(p, c, excludes, allocations) ==
    /\ RefreshOK(c, excludes)
    /\ ipam' = [ipam EXCEPT ![p] = Refreshed(@, c, excludes, allocations)]

DeleteSubnet(p) == ipam' = [ipam EXCEPT ![p] = Absent]

GetIP(p, given) ==
    \E a \in getIP(ipam[p], given) :
        ipam' = [ipam EXCEPT ![p] = Claim(@, a, NoOwner)]

\* Claim repeats what is recorded when the claim is the owner's already.
GetOwned(p, given, owner) ==
    \E a \in GetIPOwned(ipam[p], given, owner) :
        ipam' = [ipam EXCEPT ![p] = Claim(@, a, owner)]

ReleaseIP(p, a) ==
    /\ Releasable(ipam[p], a)
    /\ ipam' = [ipam EXCEPT ![p] = releaseIP(@, a)]

ReleaseIPOwnedUnchecked(p, a, owner) == ReleaseIP(p, a)
ReleaseIPOwned(p, a, owner) ==
    /\ ~ ForeignClaim(ipam[p], a, owner)
    /\ ReleaseIP(p, a)

ReleaseAll(p, owner) == ipam' = [ipam EXCEPT ![p] = ReleaseAllByOwner(@, owner)]

Next ==
    \E p \in Pool :
        \/ \E c \in Configs : NewSubnet(p, c)
        \/ \E c \in Configs, excludes, allocations \in SUBSET Addr :
              RefreshSubnet(p, c, excludes, allocations)
        \/ DeleteSubnet(p)
        \/ \E given \in Addr \cup {NoIP} :
              \/ GetIP(p, given)
              \/ \E owner \in Owner : GetOwned(p, given, owner)
        \/ \E a \in Addr :
              \/ ReleaseIP(p, a)
              \/ \E owner \in Owner : ReleaseIPOwned(p, a, owner)
        \/ \E owner \in Owner : ReleaseAll(p, owner)

Spec == Init /\ [][Next]_ipam

-----------------------------------------------------------------------------

\* An owner is recorded only for an address that is in the pool and taken.
\* The idempotent re-claim, the foreign-claim check and the sweep of an
\* owner's claims all read the owners map as if it said so; a release or a
\* refresh that left an owner behind on a free address would make a later
\* sweep free somebody else's claim.
OwnersAllocated ==
    \A p \in Pool, a \in Addr :
        ipam[p].owners[a] # NoOwner => a \in ipam[p].used \cap ipam[p].ips

\* The table of claims the callers rely on.
claims == [p \in Pool |-> ipam[p].owners]
free   == [p \in Pool |-> Free(ipam[p])]

Claims == INSTANCE ClaimTable WITH claims <- claims, free <- free

\* Every method of the allocator is a step of the table of claims: grants
\* start on free addresses, owner-aware releases give back the owner's own
\* claims only, and a refresh never puts an owned address back on offer.
ImplementsClaims == Claims!Spec

\* No method hands a claimed address to another owner (GetIPOwned's promise
\* that "one FloatingIP can never steal another's address").
NoTransfer == Claims!NoTransfer

\* A refresh, from whatever list of allocations, leaves every owned claim
\* whose address is in the new range allocated and owned as before.
RefreshKeepsClaims ==
    [][\A p \in Pool, c \in Configs, excludes, allocations \in SUBSET Addr :
          RefreshSubnet(p, c, excludes, allocations)
          => \A a \in ipam'[p].ips :
                a \in ipam[p].used /\ ipam[p].owners[a] # NoOwner
                => a \in ipam'[p].used /\ ipam'[p].owners[a] = ipam[p].owners[a]]_ipam

\* What the owner-aware methods may do to other owners' claims: nothing.
\* GetIPOwned, ReleaseIPOwned and ReleaseAllByOwner called for one owner
\* leave every claim of every other owner as it was, and never free an
\* anonymous claim restored by a refresh.
OwnerAwareCallsStayHome ==
    [][\A p \in Pool, owner \in Owner :
          (\/ \E given \in Addr \cup {NoIP} : GetOwned(p, given, owner)
           \/ \E a \in Addr : ReleaseIPOwned(p, a, owner)
           \/ ReleaseAll(p, owner))
          => \A q \in Pool, a \in Addr :
                a \in ipam[q].used /\ ipam[q].owners[a] # owner
                => a \in ipam'[q].used /\ ipam'[q].owners[a] = ipam[q].owners[a]]_ipam
=============================================================================
