---------------------------- MODULE HandoffRole ----------------------------
(***************************************************************************)
(* The handoff negotiation implements MasterRole.  A device holds the role *)
(* from the moment its status task has read a packet that offers it to     *)
(* this device (a master's flag in that packet makes it a follower once    *)
(* more, until it accepts); it offers the role while it is yielding.       *)
(***************************************************************************)
EXTENDS Handoff

Claimed == left["force"] < Budget["force"]

Accepting == {d \in Device : task[d].pc = "accept" /\ hs[d].auto_negotiate}

Holders == Masters \union Accepting

Offer == [d \in Device |-> IF hs[d].phase = "Yielding" THEN hs[d].target ELSE NoDevice]

Role == INSTANCE MasterRole WITH claimed <- Claimed, holders <- Holders, offer <- Offer

\* Over a lossy network, with one claim and requests of devices that are not the
\* master, the negotiation by packets is a handover of one role: it is never dropped, two
\* devices hold it only while one yields it to the other, a device stops yielding only
\* once its target has the role, and no offer stands for ever (process_cdj_status,
\* process_master_handoff).
ImplementsRole == Role!Spec
=============================================================================
