------------------------------- MODULE Claim -------------------------------
(***************************************************************************)
(* Claiming and defending device numbers (network/virtual_cdj.rs,          *)
(* protocol/announce.rs).  Each host runs a DeviceFinder and at most one   *)
(* VirtualCdj, started by start, start_claimed or start_auto.              *)
(*                                                                         *)
(* run_claim_protocol sends twelve packets 300 ms apart: three hellos and  *)
(* three of each stage.  From the first packet of stage 1 on, the pauses   *)
(* end early on a defense.  Time is counted in pauses of 300 ms; within    *)
(* one of them everything may happen in any order.                         *)
(*                                                                         *)
(* Packets take up to MaxDelay pauses, the work of the finder and of the   *)
(* defense loop included, and up to MaxLoss of them are lost.              *)
(***************************************************************************)
EXTENDS Integers, FiniteSets

CONSTANTS
    Host,
    PlayerNumber,   \* 1..4 in the source
    OtherNumber,    \* 7..15 in the source
    MaxDelay,       \* bound: how late a packet can be, in pauses
    MaxLoss         \* bound: how many claim and defense packets are lost

Number == PlayerNumber \union OtherNumber

ASSUME ClaimAssumption ==
    /\ Number \subseteq Nat
    /\ MaxDelay \in Nat /\ MaxLoss \in Nat

VARIABLES
    cdj,     \* per host: its VirtualCdj, or the attempt to start one
    heard,   \* per host: the DefenseReceived events its claim can still read
    net,     \* the claim and defense packets under way
    lost     \* how many packets were lost

vars == <<cdj, heard, net, lost>>

-----------------------------------------------------------------------------
\* The packets of run_claim_protocol, in order.
FirstStage1 == 4
FirstStage2 == 7
FirstStage3 == 10
LastPacket  == 12

\* Ages beyond this one are not told apart: a claim that begins when an owner is
\* that old has met its defense long before it ends.
MaxAge == 2 * LastPacket

Cdj == [pc     : {"off", "claiming", "owner", "undefended", "failed"},
        number : Number \union {0},
        sent   : 0..LastPacket,   \* packets sent of the claim for this number
        age    : 0..MaxAge,       \* pauses since that claim began
        todo   : SUBSET Number,   \* the candidates that start_auto has left
        auto   : BOOLEAN]

Packet == [kind : {"claim", "defense"}, number : Number, nth : 1..3,
           from : Host, to : Host, ttl : 0..MaxDelay]

TypeOK ==
    /\ cdj \in [Host -> Cdj]
    /\ heard \in [Host -> SUBSET Number]
    /\ net \subseteq Packet
    /\ lost \in 0..MaxLoss

Init ==
    /\ cdj = [h \in Host |-> [pc |-> "off", number |-> 0, sent |-> 0, age |-> 0,
                              todo |-> {}, auto |-> FALSE]]
    /\ heard = [h \in Host |-> {}]
    /\ net = {}
    /\ lost = 0

-----------------------------------------------------------------------------
\* Starting a VirtualCdj

Holds(h, n) == cdj[h].pc \in {"owner", "undefended"} /\ cdj[h].number = n

Taken == {n \in Number : \E h \in Host : Holds(h, n)}

Claiming(n, todo, auto) == [pc |-> "claiming", number |-> n, sent |-> 0, age |-> 0,
                            todo |-> todo, auto |-> auto]

GivenUp(auto) == [pc |-> "failed", number |-> 0, sent |-> 0, age |-> 0,
                  todo |-> {}, auto |-> auto]

\* The next claim of an attempt: the candidates are tried in ascending order
\* (players first), each with a fresh subscription to the finder's events.
Begins(h, todo, auto) ==
    /\ \/ /\ todo = {}
          /\ cdj' = [cdj EXCEPT ![h] = GivenUp(auto)]
       \/ \E n \in todo :
             /\ \A m \in todo : n <= m
             /\ cdj' = [cdj EXCEPT ![h] = Claiming(n, todo \ {n}, auto)]
    /\ heard' = [heard EXCEPT ![h] = {}]

\* candidate_device_numbers.
Candidates(used, players) ==
    (IF players THEN Number ELSE OtherNumber) \ used

\* start_auto, after its four seconds of watching: the finder knows some of the
\* numbers in use, since keep-alives may be lost.
StartAuto(h) ==
    /\ cdj[h].pc = "off"
    /\ \E used \in SUBSET Taken, players \in BOOLEAN :
           Begins(h, Candidates(used, players), TRUE)
    /\ UNCHANGED <<net, lost>>

\* start_claimed with a number of the caller's choice.
StartClaimed(h) ==
    /\ cdj[h].pc = "off"
    /\ \E n \in Number : Begins(h, {n}, FALSE)
    /\ UNCHANGED <<net, lost>>

\* start: no claim and no defense, but for a look at the finder's devices.
Start(h) ==
    /\ cdj[h].pc = "off"
    /\ \E used \in SUBSET Taken, n \in Number :
           cdj' = [cdj EXCEPT ![h].pc     = IF n \in used THEN "failed" ELSE "undefended",
                              ![h].number = IF n \in used THEN 0 ELSE n]
    /\ UNCHANGED <<heard, net, lost>>

-----------------------------------------------------------------------------
\* run_claim_protocol

\* A stage-2 packet, the only one a finder makes a ClaimReceived event of.
Stage2(h, nth) == {[kind |-> "claim", number |-> cdj[h].number, nth |-> nth,
                    from |-> h, to |-> k, ttl |-> MaxDelay] : k \in Host \ {h}}

\* Fault: one packet too many.
SendPacketTooMany(h) ==
    /\ cdj[h].pc = "claiming"
    /\ cdj[h].sent = cdj[h].age
    /\ cdj[h].sent <= LastPacket
    /\ cdj' = [cdj EXCEPT ![h].sent = @ + 1]
    /\ net' = IF cdj'[h].sent \in FirstStage2..(FirstStage3 - 1)
              THEN net \union Stage2(h, cdj'[h].sent - FirstStage2 + 1)
              ELSE net
    /\ UNCHANGED <<heard, lost>>

SendPacket(h) ==
    /\ cdj[h].pc = "claiming"
    /\ cdj[h].sent = cdj[h].age
    /\ cdj[h].sent < LastPacket
    /\ cdj' = [cdj EXCEPT ![h].sent = @ + 1]
    /\ net' = IF cdj'[h].sent \in FirstStage2..(FirstStage3 - 1)
              THEN net \union Stage2(h, cdj'[h].sent - FirstStage2 + 1)
              ELSE net
    /\ UNCHANGED <<heard, lost>>

\* Fault: a defense is not looked for in stage 3.
HearsBeforeStage3(h) ==
    cdj[h].sent \in FirstStage1..(FirstStage3 - 1) /\ cdj[h].number \in heard[h]

\* wait_for_defense, which every pause from stage 1 on is, returns true.
Hears(h) == cdj[h].sent >= FirstStage1 /\ cdj[h].number \in heard[h]

\* Fault: the first defense ends the attempt.
DefendedGivesUp(h) ==
    /\ cdj[h].pc = "claiming"
    /\ Hears(h)
    /\ Begins(h, {}, cdj[h].auto)
    /\ UNCHANGED <<net, lost>>

\* Fault: the number that was defended stays among the candidates.
DefendedRetries(h) ==
    /\ cdj[h].pc = "claiming"
    /\ Hears(h)
    /\ Begins(h, cdj[h].todo \union {cdj[h].number}, cdj[h].auto)
    /\ UNCHANGED <<net, lost>>

\* The claim fails: try the next candidate, or give up.
Defended(h) ==
    /\ cdj[h].pc = "claiming"
    /\ Hears(h)
    /\ Begins(h, cdj[h].todo, cdj[h].auto)
    /\ UNCHANGED <<net, lost>>

\* The last pause is over: the number is ours, and the defense loop starts.
Complete(h) ==
    /\ cdj[h].pc = "claiming"
    /\ cdj[h].age = LastPacket
    /\ cdj' = [cdj EXCEPT ![h].pc = "owner"]
    /\ heard' = [heard EXCEPT ![h] = {}]
    /\ UNCHANGED <<net, lost>>

-----------------------------------------------------------------------------
\* The finders and the defense loops

Answer(p) == [kind |-> "defense", number |-> p.number, nth |-> p.nth,
              from |-> p.to, to |-> p.from, ttl |-> MaxDelay]

\* Fault: the defense loop answers every claim.
ReceiveClaimOfAnyNumber(p) ==
    /\ p.kind = "claim"
    /\ net' = (net \ {p}) \union
                {Answer(q) : q \in {q \in {p} : cdj[p.to].pc = "owner"}}
    /\ UNCHANGED <<cdj, heard, lost>>

\* ClaimReceived reaches the defense loop, which answers for its own number.
ReceiveClaim(p) ==
    /\ p.kind = "claim"
    /\ net' = (net \ {p}) \union
                {Answer(q) : q \in {q \in {p} : /\ cdj[p.to].pc = "owner"
                                                /\ cdj[p.to].number = p.number}}
    /\ UNCHANGED <<cdj, heard, lost>>

\* DefenseReceived is buffered for a claim that is running.
ReceiveDefense(p) ==
    /\ p.kind = "defense"
    /\ net' = net \ {p}
    /\ heard' = [heard EXCEPT ![p.to] = IF cdj[p.to].pc = "claiming"
                                        THEN @ \union {p.number} ELSE @]
    /\ UNCHANGED <<cdj, lost>>

Lose(p) ==
    /\ lost < MaxLoss
    /\ lost' = lost + 1
    /\ net' = net \ {p}
    /\ UNCHANGED <<cdj, heard>>

-----------------------------------------------------------------------------
\* A pause goes by: every claim has sent its packet and read what it heard, and
\* no packet is as late as it can be.
Tick ==
    /\ \A h \in Host : cdj[h].pc = "claiming" => cdj[h].sent = cdj[h].age + 1 /\ ~Hears(h)
    /\ \A p \in net : p.ttl > 0
    /\ (\E h \in Host : cdj[h].pc = "claiming") \/ net # {}
    /\ cdj' = [h \in Host |->
                 IF cdj[h].pc \in {"claiming", "owner"} /\ cdj[h].age < MaxAge
                 THEN [cdj[h] EXCEPT !.age = @ + 1] ELSE cdj[h]]
    /\ net' = {[p EXCEPT !.ttl = @ - 1] : p \in net}
    /\ UNCHANGED <<heard, lost>>

Starts(h) == StartAuto(h) \/ StartClaimed(h) \/ Start(h)

Proceeds(h) == SendPacket(h) \/ Defended(h) \/ Complete(h)

Receives(p) == ReceiveClaim(p) \/ ReceiveDefense(p)

Next == \/ \E h \in Host : Starts(h) \/ Proceeds(h)
        \/ \E p \in net : Receives(p) \/ Lose(p)
        \/ Tick

Spec == Init /\ [][Next]_vars

\* Tasks run, packets that are not lost arrive, and time goes by.
FairSpec == /\ Spec
            /\ \A h \in Host : WF_vars(Proceeds(h))
            /\ WF_vars(\E p \in net : Receives(p))
            /\ WF_vars(Tick)

-----------------------------------------------------------------------------
\* How much later than an owner's a claim can begin and still miss its defense (for
\* MaxLoss < 3): the last of its stage-2 packets, or the last that is not lost, must
\* come before the owner's own claim is complete.
Window == LastPacket - (FirstStage3 - 2) + 1 + MaxLoss

\* Two hosts claim the same number only if their claims began less than Window
\* pauses apart (run_claim_protocol against defense_loop).
CollidesOnlyInWindow ==
    [][\A h, k \in Host :
        h # k /\ Complete(h) /\ cdj[k].pc = "owner" /\ cdj[k].number = cdj[h].number
            => cdj[k].age < cdj[h].age + Window]_vars

\* A host is turned away from a number only if some host owns it and has defended it
\* (wait_for_defense).
TurnedAwayByOwner ==
    [][\A h \in Host : Defended(h) =>
        \E k \in Host : cdj[k].pc = "owner" /\ cdj[k].number = cdj[h].number]_vars

\* start_auto reports that no number is available only when each of the numbers it
\* may always use is held by a host.
FailsOnlyWhenTaken ==
    \A h \in Host : cdj[h].pc = "failed" /\ cdj[h].auto => OtherNumber \subseteq Taken

\* Every start_claimed and start_auto comes to an end.
StartsEnd == \A h \in Host : cdj[h].pc = "claiming" ~> cdj[h].pc \in {"owner", "failed"}
=============================================================================
