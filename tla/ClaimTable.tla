----------------------------- MODULE ClaimTable ------------------------------
(***************************************************************************)
(* What the address allocator promises its callers, whatever it keeps in   *)
(* its maps: a table of claims.  claims[p][a] is the owner address a of    *)
(* pool p is granted to (NoOwner: to nobody by name), free[p] the          *)
(* addresses that may be granted next.  The doc comments of ipam.go state  *)
(* the rules: a claim starts on a free address only ("one FloatingIP can   *)
(* never steal another's address"), an owner gives back its own claims     *)
(* only, and a refresh of the pool never puts a claimed address back on    *)
(* offer ("ownership is authoritative and always survives a refresh").     *)
(***************************************************************************)
CONSTANTS Pool, Addr, Owner, NoOwner

VARIABLES claims, free

vars == <<claims, free>>

\* A claim names an owner or nobody, and offers are addresses of the pool.
TypeOK == /\ claims \in [Pool -> [Addr -> Owner \cup {NoOwner}]]
          /\ free \in [Pool -> SUBSET Addr]

Init == /\ claims = [p \in Pool |-> [a \in Addr |-> NoOwner]]
        /\ free = [p \in Pool |-> {}]

Held(p) == {a \in Addr : claims[p][a] # NoOwner}

\* A grant: one free address gets its owner, or an anonymous holder.
Grant(p, a, o) ==
    /\ a \in free[p]
    /\ free' = [free EXCEPT ![p] = @ \ {a}]
    /\ claims' = [claims EXCEPT ![p] = [@ EXCEPT ![a] = o]]

\* An owner returns addresses that are its own, and no others.
GiveBack(p, o, S) ==
    /\ \A a \in S : claims[p][a] = o
    /\ free' = [free EXCEPT ![p] = @ \cup S]
    /\ claims' = [claims EXCEPT ![p] =
                    [a \in Addr |-> IF a \in S THEN NoOwner ELSE claims[p][a]]]

\* The release that asks for no owner: whoever holds the address loses it.
Evict(p, a) ==
    /\ a \notin free[p]
    /\ free' = [free EXCEPT ![p] = @ \cup {a}]
    /\ claims' = [claims EXCEPT ![p] = [@ EXCEPT ![a] = NoOwner]]

\* A refresh may change what is on offer and forget the claims on addresses
\* that leave the range, but no claimed address comes back on offer.
Reconfigure(p, offer, kept) ==
    /\ kept \subseteq Held(p)
    /\ offer \cap Held(p) = {}
    /\ free' = [free EXCEPT ![p] = offer]
    /\ claims' = [claims EXCEPT ![p] =
                    [a \in Addr |-> IF a \in kept THEN claims[p][a] ELSE NoOwner]]

\* The pool is removed, or created anew over an old one.
Reset(p, offer) ==
    /\ free' = [free EXCEPT ![p] = offer]
    /\ claims' = [claims EXCEPT ![p] = [a \in Addr |-> NoOwner]]

Next ==
    \E p \in Pool :
        \/ \E a \in Addr, o \in Owner \cup {NoOwner} : Grant(p, a, o)
        \/ \E o \in Owner, S \in SUBSET Addr : GiveBack(p, o, S)
        \/ \E a \in Addr : Evict(p, a)
        \/ \E offer, kept \in SUBSET Addr : Reconfigure(p, offer, kept)
        \/ \E offer \in SUBSET Addr : Reset(p, offer)

Spec == Init /\ [][Next]_vars

\* A claim never passes from one owner to another in one step: it is lost
\* first, and only then can it be granted again.
NoTransfer ==
    [][\A p \in Pool, a \in Addr :
          claims[p][a] # NoOwner => claims'[p][a] \in {claims[p][a], NoOwner}]_vars
=============================================================================
