------------------------------- MODULE IPAMOps -------------------------------
(***************************************************************************)
(* The data structure of pkg/ipam: one subnet of the in-memory allocator   *)
(* and what each exported method does to it.                               *)
(*                                                                         *)
(* An address is a natural number (netip.Addr order is number order).  The *)
(* Go map ips (address -> allocated?) is the pair ips (its keys) and used  *)
(* (the keys mapped to true).  The Go map owners is a total function, with *)
(* NoOwner for a missing key and for the "" that GetIP stores: no reader   *)
(* of the map tells the two apart.  A subnet that is not in the            *)
(* allocator's map is the record with no addresses: buildSubnet never      *)
(* returns one (start <= end), and every method answers both with an       *)
(* error.                                                                  *)
(***************************************************************************)
EXTENDS Integers, FiniteSets

CONSTANTS Addr,               \* the addresses that can be named
          Owner,              \* FloatingIP namespace/name
          NoOwner,            \* "" in the owners map
          NoIP,               \* "" where an address is expected
          MaxSubnetRangeSize  \* the const of ipam.go

ASSUME AddrAssumption    == Addr \subseteq Nat
ASSUME OwnerAssumption   == NoOwner \notin Owner
ASSUME NoIPAssumption    == NoIP \notin Addr
ASSUME MaxSizeAssumption == MaxSubnetRangeSize \in Nat

Subnet == [ips    : SUBSET Addr,
           used   : SUBSET Addr,
           owners : [Addr -> Owner \cup {NoOwner}]]

Absent == [ips    |-> {},
           used   |-> {},
           owners |-> [a \in Addr |-> NoOwner]]

-----------------------------------------------------------------------------
(* Building and refreshing                                                 *)

\* What a FloatingIPPool's ipConfig says: the prefix lo..hi, its family, and
\* the range handed out.  Excludes travel separately, as in the code.
Config == [lo : Addr, hi : Addr, v4 : BOOLEAN, start : Addr, end : Addr]

\* ValidateRangeSize: the inclusive size, compared without materialising it.
ValidateRangeSize(c) == c.end - c.start + 1 <= MaxSubnetRangeSize

\* The checks of buildSubnet in front of the loop that fills the map.
Buildable(c) == /\ c.start \in c.lo .. c.hi
                /\ c.end \in c.lo .. c.hi
                /\ c.start <= c.end
                /\ ~ (c.v4 /\ c.end = c.hi)
                /\ ValidateRangeSize(c)

\* The subnet buildSubnet returns: every address of the range, all free.
buildSubnet(c) == [Absent EXCEPT !.ips = {a \in Addr : c.start <= a /\ a <= c.end}]

\* markIPUsed, folded over a set of addresses: those outside the range are
\* skipped (its error; only an exclude turns the error into an abort).
MarkUsedAnywhere(s, S) == [s EXCEPT !.used = @ \cup S]
MarkUsed(s, S) == [s EXCEPT !.used = @ \cup (S \cap s.ips)]

\* Step 4 of RefreshSubnet: the addresses whose live, owned claim in the old
\* subnet is carried into the new one.
CarriedNone(old, new) == {}
Carried(old, new) ==
    {a \in new.ips : a \in old.used /\ old.owners[a] # NoOwner}

\* RefreshSubnet's swap.  Its guard is RefreshOK: an exclude outside the
\* range aborts and leaves the old subnet live.
RefreshOK(c, excludes) == Buildable(c) /\ excludes \subseteq buildSubnet(c).ips

RefreshedUnmarked(old, c, excludes, allocations) ==
    LET fresh == buildSubnet(c)
        kept  == Carried(old, fresh)
    IN  [MarkUsed(fresh, excludes \cup allocations) EXCEPT
            !.owners = [a \in Addr |-> IF a \in kept THEN old.owners[a] ELSE NoOwner]]
Refreshed(old, c, excludes, allocations) ==
    LET fresh == buildSubnet(c)
        kept  == Carried(old, fresh)
    IN  [MarkUsed(fresh, excludes \cup allocations \cup kept) EXCEPT
            !.owners = [a \in Addr |-> IF a \in kept THEN old.owners[a] ELSE NoOwner]]

-----------------------------------------------------------------------------
(* Claims                                                                  *)

Free(s) == s.ips \ s.used

\* The address getIP hands out: none (an error) or exactly one.  The prefix
\* and broadcast checks of the code only choose the error message: an
\* address that fails them is not in ips.
getIPTaken(s, given) ==
    IF given # NoIP
    THEN s.ips \cap {given}
    ELSE {a \in Free(s) : \A b \in Free(s) : a <= b}
getIP(s, given) ==
    IF given # NoIP
    THEN Free(s) \cap {given}
    ELSE {a \in Free(s) : \A b \in Free(s) : a <= b}

\* GetIPOwned first recognises a claim that is already owner's own.
GetIPOwned(s, given, owner) ==
    IF given \in s.used /\ s.owners[given] = owner
    THEN {given}
    ELSE getIP(s, given)

Claim(s, a, owner) == [s EXCEPT !.used = @ \cup {a}, !.owners = [@ EXCEPT ![a] = owner]]

\* releaseIP: only an allocated address can be released.
Releasable(s, a) == a \in s.ips \cap s.used

releaseIPOnly(s, a) == [s EXCEPT !.used = @ \ {a}]
releaseIP(s, a) == [s EXCEPT !.used = @ \ {a}, !.owners = [@ EXCEPT ![a] = NoOwner]]

\* ErrForeignClaim: allocated, and not recorded as owner's.
ForeignClaim(s, a, owner) == Releasable(s, a) /\ s.owners[a] # owner

OwnedBy(s, owner) == {a \in Addr : s.owners[a] = owner}

ReleaseAllByOwner(s, owner) ==
    [s EXCEPT !.used   = @ \ (OwnedBy(s, owner) \cap s.ips),
              !.owners = [a \in Addr |-> IF @[a] = owner THEN NoOwner ELSE @[a]]]

Used(s)      == Cardinality(s.used)
Available(s) == Cardinality(Free(s))
=============================================================================
