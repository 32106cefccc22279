----------------------------- MODULE MasterRole -----------------------------
(***************************************************************************)
(* What the master handoff promises (network/virtual_cdj.rs, the comments  *)
(* on HandoffPhase and on the negotiated handoff): one device claims the   *)
(* role of tempo master, and from then on it is only ever handed over.  A  *)
(* holder offers it to another device, and gives it up only once that one  *)
(* has it.                                                                 *)
(*                                                                         *)
(* Module HandoffRole shows that the negotiation by packets implements it. *)
(***************************************************************************)
CONSTANTS
    Device,     \* the device numbers of the network
    NoDevice    \* no device

VARIABLES
    claimed,    \* whether the role was claimed
    holders,    \* the devices that hold the role
    offer       \* per device: to whom it offers the role

vars == <<claimed, holders, offer>>

TypeOK ==
    /\ claimed \in BOOLEAN
    /\ holders \subseteq Device
    /\ offer \in [Device -> Device \union {NoDevice}]

Init ==
    /\ claimed = FALSE
    /\ holders = {}
    /\ offer = [d \in Device |-> NoDevice]

\* The first master takes the role that nobody has.
Claim(d) ==
    /\ ~claimed /\ claimed' = TRUE
    /\ holders' = {d}
    /\ UNCHANGED offer

NoOffer == \A d \in Device : offer[d] = NoDevice

\* The one holder offers the role to another device.
Offer(d, e) ==
    /\ holders = {d} /\ NoOffer /\ e # d
    /\ offer' = [offer EXCEPT ![d] = e]
    /\ UNCHANGED <<claimed, holders>>

\* The device that it is offered to takes the role.
Accept(d, e) ==
    /\ d \in holders /\ offer[d] = e /\ e \in Device \ holders
    /\ holders' = holders \union {e}
    /\ UNCHANGED <<claimed, offer>>

\* The offering device gives the role up, because the other one has it, and ends the
\* offer, in any order.
GiveUp(d) ==
    /\ d \in holders /\ offer[d] \in holders
    /\ holders' = holders \ {d}
    /\ offer' \in {offer, [offer EXCEPT ![d] = NoDevice]}
    /\ UNCHANGED claimed

EndOffer(d) ==
    /\ d \notin holders /\ offer[d] \in holders
    /\ offer' = [offer EXCEPT ![d] = NoDevice]
    /\ UNCHANGED <<claimed, holders>>

Next == \E d \in Device : \/ Claim(d) \/ GiveUp(d) \/ EndOffer(d)
                          \/ \E e \in Device : Offer(d, e) \/ Accept(d, e)

\* An offer is a promise: it does not stand for ever.
OffersEnd == \A d \in Device : offer[d] # NoDevice ~> offer[d] = NoDevice

Steps == Init /\ [][Next]_vars

Spec == Steps /\ OffersEnd

-----------------------------------------------------------------------------
\* Once claimed, the role is never dropped.
RoleKept == claimed => holders # {}

\* Two devices hold the role at once only while one of them offers it to the other.
OverlapOnlyInHandoff ==
    \A d, e \in holders : d # e => offer[d] = e \/ offer[e] = d
=============================================================================
