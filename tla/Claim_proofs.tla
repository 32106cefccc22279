---------------------------- MODULE Claim_proofs ----------------------------
(***************************************************************************)
(* Proofs about Claim: its types; that no host is ever turned away from a  *)
(* number nobody owns, and none gives up before it was turned away from    *)
(* every number, for any number of hosts, device numbers, delays and       *)
(* losses; and that two hosts claim one number only if their claims began  *)
(* less than Window pauses apart, for any number of hosts, as long as      *)
(* packets are at most one pause late and at most two of them are lost.    *)
(*                                                                         *)
(* The arguments: an owner keeps its number, so for the first two it is    *)
(* enough that every defense, under way or heard, names a number that some *)
(* host owned when the defense was sent.  For the collisions, a host that  *)
(* lags behind an owner by Window pauses or more has sent its last stage-2 *)
(* packet to an owner long enough ago for the defense to have come back.   *)
(***************************************************************************)
EXTENDS Claim, TLAPS

Owned(n) == \E k \in Host : cdj[k].pc = "owner" /\ cdj[k].number = n

\* A claim is always for a number.
Numbered == \A h \in Host : cdj[h].pc \in {"claiming", "owner"} => cdj[h].number \in Number

\* Every defense was sent by an owner of its number.
DefensesHonest ==
    /\ \A p \in net : p.kind = "defense" => Owned(p.number)
    /\ \A h \in Host : \A n \in heard[h] : Owned(n)

IInv == TypeOK /\ Numbered /\ DefensesHonest

-----------------------------------------------------------------------------
LEMMA ConstantFacts ==
    /\ FirstStage1 = 4 /\ FirstStage2 = 7 /\ FirstStage3 = 10
    /\ LastPacket = 12 /\ MaxAge = 24
    /\ MaxDelay \in Nat /\ MaxLoss \in Nat /\ Number \subseteq Nat
BY ClaimAssumption DEF FirstStage1, FirstStage2, FirstStage3, LastPacket, MaxAge

LEMMA InitTyped == Init => IInv
<1> SUFFICES ASSUME Init PROVE IInv
    OBVIOUS
<1>1. TypeOK
    BY ConstantFacts DEF Init, TypeOK, Cdj
<1>2. Numbered
    BY DEF Init, Numbered
<1>3. DefensesHonest
    BY DEF Init, DefensesHonest
<1> QED
    BY <1>1, <1>2, <1>3 DEF IInv

\* Begins leads from one claim to the next with the right types, forgets what was
\* heard and touches no other host.
LEMMA BeginsTyped ==
    ASSUME TypeOK, NEW h \in Host, NEW todo \in SUBSET Number, NEW auto \in BOOLEAN,
           Begins(h, todo, auto)
    PROVE  /\ cdj' \in [Host -> Cdj] /\ heard' \in [Host -> SUBSET Number]
           /\ cdj'[h].pc = "claiming" => cdj'[h].number \in Number
           /\ cdj'[h].pc \in {"claiming", "failed"}
           /\ heard'[h] = {}
           /\ \A k \in Host \ {h} : cdj'[k] = cdj[k] /\ heard'[k] = heard[k]
<1>1. heard' = [heard EXCEPT ![h] = {}]
    BY DEF Begins
<1>2. GivenUp(auto) \in Cdj /\ GivenUp(auto).pc = "failed"
    BY ConstantFacts DEF GivenUp, Cdj
<1>3. ASSUME NEW n \in todo
      PROVE  /\ Claiming(n, todo \ {n}, auto) \in Cdj
             /\ Claiming(n, todo \ {n}, auto).pc = "claiming"
             /\ Claiming(n, todo \ {n}, auto).number \in Number
    BY ConstantFacts DEF Claiming, Cdj
<1>4. PICK c \in Cdj : /\ cdj' = [cdj EXCEPT ![h] = c]
                       /\ c.pc \in {"claiming", "failed"}
                       /\ c.pc = "claiming" => c.number \in Number
    BY <1>2, <1>3 DEF Begins
<1> QED
    BY <1>1, <1>4 DEF TypeOK

-----------------------------------------------------------------------------
LEMMA BeginsInductive ==
    ASSUME IInv, NEW h \in Host, NEW todo \in SUBSET Number, NEW auto \in BOOLEAN,
           cdj[h].pc \in {"off", "claiming"},
           Begins(h, todo, auto), UNCHANGED <<net, lost>>
    PROVE  IInv'
<1>1. TypeOK
    BY DEF IInv
<1>2. /\ cdj' \in [Host -> Cdj] /\ heard' \in [Host -> SUBSET Number]
      /\ cdj'[h].pc = "claiming" => cdj'[h].number \in Number
      /\ cdj'[h].pc \in {"claiming", "failed"}
      /\ heard'[h] = {}
      /\ \A k \in Host \ {h} : cdj'[k] = cdj[k] /\ heard'[k] = heard[k]
    BY <1>1, BeginsTyped
<1>3. TypeOK'
    BY <1>1, <1>2 DEF TypeOK
<1>4. Numbered'
    BY <1>2 DEF IInv, Numbered
<1>5. \A n : Owned(n) => Owned(n)'
    BY <1>2 DEF Owned
<1>6. DefensesHonest'
    BY <1>2, <1>5 DEF IInv, DefensesHonest
<1> QED
    BY <1>3, <1>4, <1>6 DEF IInv

-----------------------------------------------------------------------------
\* One step per action that begins no claim.

LEMMA StartInductive ==
    ASSUME IInv, NEW h \in Host, Start(h)
    PROVE  IInv'
<1>1. PICK n \in Number \union {0}, c \in {"failed", "undefended"} :
          cdj' = [cdj EXCEPT ![h].pc = c, ![h].number = n]
    BY DEF Start
<1>2. cdj[h] \in Cdj /\ cdj[h].pc = "off"
    BY DEF Start, IInv, TypeOK
<1>3. [cdj[h] EXCEPT !.pc = c, !.number = n] \in Cdj
    BY <1>2 DEF Cdj
<1>4. cdj' \in [Host -> Cdj] /\ cdj'[h].pc = c /\ \A k \in Host \ {h} : cdj'[k] = cdj[k]
    BY <1>1, <1>2, <1>3 DEF IInv, TypeOK, Cdj
<1>5. heard' = heard /\ net' = net /\ lost' = lost
    BY DEF Start
<1>6. \A m : Owned(m) => Owned(m)'
    BY <1>2, <1>4 DEF Owned
<1>7. TypeOK'
    BY <1>4, <1>5 DEF IInv, TypeOK
<1>8. Numbered'
    BY <1>4 DEF IInv, Numbered
<1>9. DefensesHonest'
    BY <1>5, <1>6 DEF IInv, DefensesHonest
<1> QED
    BY <1>7, <1>8, <1>9 DEF IInv

\* A packet of stage 2 is well formed.
LEMMA Stage2Typed ==
    ASSUME IInv, NEW h \in Host, NEW nth \in 1..3, cdj[h].pc = "claiming"
    PROVE  Stage2(h, nth) \subseteq Packet /\ \A p \in Stage2(h, nth) : p.kind = "claim"
<1>1. cdj[h].number \in Number
    BY DEF IInv, Numbered
<1> QED
    BY <1>1, ConstantFacts DEF Stage2, Packet

LEMMA SendPacketInductive ==
    ASSUME IInv, NEW h \in Host, SendPacket(h)
    PROVE  IInv'
<1>1. cdj[h] \in Cdj /\ cdj[h].pc = "claiming" /\ cdj[h].sent \in 0..11
    BY ConstantFacts DEF SendPacket, IInv, TypeOK, Cdj
<1>2. [cdj[h] EXCEPT !.sent = @ + 1] \in Cdj
    BY <1>1, ConstantFacts DEF Cdj
<1>3. /\ cdj' \in [Host -> Cdj] /\ cdj'[h].sent = cdj[h].sent + 1
      /\ \A k \in Host : cdj'[k].pc = cdj[k].pc /\ cdj'[k].number = cdj[k].number
    BY <1>1, <1>2 DEF SendPacket, IInv, TypeOK, Cdj
<1>4. /\ net' \subseteq Packet
      /\ \A p \in net' : p \in net \/ p.kind = "claim"
    <2>1. CASE cdj'[h].sent \in FirstStage2..(FirstStage3 - 1)
        <3>1. cdj'[h].sent - FirstStage2 + 1 \in 1..3
            BY <2>1, ConstantFacts
        <3>2. net' = net \union Stage2(h, cdj'[h].sent - FirstStage2 + 1)
            BY <2>1 DEF SendPacket
        <3> QED
            BY <1>1, <3>1, <3>2, Stage2Typed DEF IInv, TypeOK
    <2>2. CASE cdj'[h].sent \notin FirstStage2..(FirstStage3 - 1)
        BY <2>2 DEF SendPacket, IInv, TypeOK
    <2> QED
        BY <2>1, <2>2
<1>5. heard' = heard /\ lost' = lost
    BY DEF SendPacket
<1>6. TypeOK'
    BY <1>3, <1>4, <1>5 DEF IInv, TypeOK
<1>7. Numbered'
    BY <1>3 DEF IInv, Numbered
<1>8. \A m : Owned(m) => Owned(m)'
    BY <1>3 DEF Owned
<1>9. DefensesHonest'
    BY <1>4, <1>5, <1>8 DEF IInv, DefensesHonest
<1> QED
    BY <1>6, <1>7, <1>9 DEF IInv

LEMMA CompleteInductive ==
    ASSUME IInv, NEW h \in Host, Complete(h)
    PROVE  IInv'
<1>1. cdj[h] \in Cdj /\ cdj[h].pc = "claiming" /\ cdj[h].number \in Number
    BY DEF Complete, IInv, TypeOK, Numbered
<1>2. [cdj[h] EXCEPT !.pc = "owner"] \in Cdj
    BY <1>1 DEF Cdj
<1>3. /\ cdj' \in [Host -> Cdj] /\ cdj'[h].pc = "owner" /\ cdj'[h].number = cdj[h].number
      /\ \A k \in Host \ {h} : cdj'[k] = cdj[k]
    BY <1>1, <1>2 DEF Complete, IInv, TypeOK, Cdj
<1>4. net' = net /\ lost' = lost /\ heard' = [heard EXCEPT ![h] = {}]
    BY DEF Complete
<1>5. TypeOK'
    BY <1>3, <1>4 DEF IInv, TypeOK
<1>6. Numbered'
    BY <1>1, <1>3 DEF IInv, Numbered
<1>7. \A m : Owned(m) => Owned(m)'
    BY <1>1, <1>3 DEF Owned
<1>8. DefensesHonest'
    BY <1>4, <1>7 DEF IInv, TypeOK, DefensesHonest
<1> QED
    BY <1>5, <1>6, <1>8 DEF IInv

\* The defense loop answers only for the number it owns.
LEMMA ReceiveClaimInductive ==
    ASSUME IInv, NEW p \in net, ReceiveClaim(p)
    PROVE  IInv'
<1>1. p \in Packet
    BY DEF IInv, TypeOK
<1>2. Answer(p) \in Packet /\ Answer(p).number = p.number
    BY <1>1, ConstantFacts DEF Answer, Packet
<1>3. /\ net' \subseteq net \union {Answer(p)}
      /\ Answer(p) \in net' => Answer(p) \in net \/ Owned(p.number)
    BY <1>1 DEF ReceiveClaim, Owned, Packet
<1>4. cdj' = cdj /\ heard' = heard /\ lost' = lost
    BY DEF ReceiveClaim
<1>5. TypeOK'
    BY <1>2, <1>3, <1>4 DEF IInv, TypeOK
<1>6. Numbered'
    BY <1>4 DEF IInv, Numbered
<1>7. \A m : Owned(m)' <=> Owned(m)
    BY <1>4 DEF Owned
<1>8. DefensesHonest'
    BY <1>2, <1>3, <1>4, <1>7 DEF IInv, DefensesHonest
<1> QED
    BY <1>5, <1>6, <1>8 DEF IInv

LEMMA ReceiveDefenseInductive ==
    ASSUME IInv, NEW p \in net, ReceiveDefense(p)
    PROVE  IInv'
<1>1. p.to \in Host /\ p.number \in Number /\ Owned(p.number)
    BY DEF ReceiveDefense, IInv, TypeOK, DefensesHonest, Packet
<1>2. cdj' = cdj /\ lost' = lost /\ net' = net \ {p}
    BY DEF ReceiveDefense
<1>3. /\ heard' \in [Host -> SUBSET Number]
      /\ \A h \in Host : heard'[h] \subseteq heard[h] \union {p.number}
    BY <1>1 DEF ReceiveDefense, IInv, TypeOK
<1>4. TypeOK'
    BY <1>2, <1>3 DEF IInv, TypeOK
<1>5. Numbered'
    BY <1>2 DEF IInv, Numbered
<1>6. \A m : Owned(m)' <=> Owned(m)
    BY <1>2 DEF Owned
<1>7. DefensesHonest'
    BY <1>1, <1>2, <1>3, <1>6 DEF IInv, DefensesHonest
<1> QED
    BY <1>4, <1>5, <1>7 DEF IInv

LEMMA LoseInductive ==
    ASSUME IInv, NEW p \in net, Lose(p)
    PROVE  IInv'
<1>1. /\ cdj' = cdj /\ heard' = heard /\ net' \subseteq net
      /\ lost' \in 0..MaxLoss
    BY ConstantFacts DEF Lose, IInv, TypeOK
<1>2. TypeOK'
    BY <1>1 DEF IInv, TypeOK
<1>3. Numbered'
    BY <1>1 DEF IInv, Numbered
<1>4. DefensesHonest'
    BY <1>1 DEF IInv, DefensesHonest, Owned
<1> QED
    BY <1>2, <1>3, <1>4 DEF IInv

LEMMA TickInductive ==
    ASSUME IInv, Tick
    PROVE  IInv'
<1>1. ASSUME NEW h \in Host
      PROVE  /\ cdj'[h] \in Cdj
             /\ cdj'[h].pc = cdj[h].pc /\ cdj'[h].number = cdj[h].number
    <2>1. cdj[h] \in Cdj
        BY DEF IInv, TypeOK
    <2>2. CASE cdj[h].pc \in {"claiming", "owner"} /\ cdj[h].age < MaxAge
        <3>1. cdj'[h] = [cdj[h] EXCEPT !.age = @ + 1]
            BY <2>2 DEF Tick
        <3>2. cdj[h].age + 1 \in 0..MaxAge
            BY <2>1, <2>2, ConstantFacts DEF Cdj
        <3> QED
            BY <2>1, <3>1, <3>2 DEF Cdj
    <2>3. CASE ~(cdj[h].pc \in {"claiming", "owner"} /\ cdj[h].age < MaxAge)
        <3>1. cdj'[h] = cdj[h]
            BY <2>3 DEF Tick
        <3> QED
            BY <2>1, <3>1
    <2> QED
        BY <2>2, <2>3
<1>2. cdj' \in [Host -> Cdj]
    <2>1. cdj' = [h \in Host |-> cdj'[h]]
        BY DEF Tick
    <2> QED
        BY <1>1, <2>1
<1>3. \A q \in net' : \E p \in net : /\ q \in Packet
                                     /\ q.kind = p.kind /\ q.number = p.number
    <2>1. ASSUME NEW p \in net
          PROVE  /\ [p EXCEPT !.ttl = @ - 1] \in Packet
                 /\ [p EXCEPT !.ttl = @ - 1].kind = p.kind
                 /\ [p EXCEPT !.ttl = @ - 1].number = p.number
        <3>1. p \in Packet
            BY DEF IInv, TypeOK
        <3>2. p.ttl - 1 \in 0..MaxDelay
            BY <3>1, ConstantFacts DEF Tick, Packet
        <3> QED
            BY <3>1, <3>2 DEF Packet
    <2> QED
        BY <2>1 DEF Tick
<1>4. heard' = heard /\ lost' = lost
    BY DEF Tick
<1>5. TypeOK'
    BY <1>2, <1>3, <1>4 DEF IInv, TypeOK
<1>6. Numbered'
    BY <1>1 DEF IInv, Numbered
<1>7. \A m : Owned(m) => Owned(m)'
    BY <1>1 DEF Owned
<1>8. DefensesHonest'
    BY <1>3, <1>4, <1>7 DEF IInv, DefensesHonest
<1> QED
    BY <1>5, <1>6, <1>8 DEF IInv

-----------------------------------------------------------------------------
LEMMA Inductive == IInv /\ [Next]_vars => IInv'
<1> SUFFICES ASSUME IInv, [Next]_vars PROVE IInv'
    OBVIOUS
<1>1. ASSUME NEW h \in Host, StartAuto(h) PROVE IInv'
    <2>1. PICK used \in SUBSET Taken, players \in BOOLEAN :
              Begins(h, Candidates(used, players), TRUE)
        BY <1>1 DEF StartAuto
    <2>2. Candidates(used, players) \in SUBSET Number
        BY DEF Candidates, Number
    <2> QED
        BY <1>1, <2>1, <2>2, BeginsInductive DEF StartAuto
<1>2. ASSUME NEW h \in Host, StartClaimed(h) PROVE IInv'
    <2>1. PICK n \in Number : Begins(h, {n}, FALSE)
        BY <1>2 DEF StartClaimed
    <2> QED
        BY <1>2, <2>1, BeginsInductive DEF StartClaimed
<1>3. ASSUME NEW h \in Host, Defended(h) PROVE IInv'
    <2>1. cdj[h].todo \in SUBSET Number /\ cdj[h].auto \in BOOLEAN
        BY DEF IInv, TypeOK, Cdj
    <2> QED
        BY <1>3, <2>1, BeginsInductive DEF Defended
<1>4. ASSUME UNCHANGED vars PROVE IInv'
    BY <1>4 DEF IInv, TypeOK, Numbered, DefensesHonest, Owned, vars
<1> QED
    BY <1>1, <1>2, <1>3, <1>4, StartInductive, SendPacketInductive, CompleteInductive,
       ReceiveClaimInductive, ReceiveDefenseInductive, LoseInductive, TickInductive
    DEF Next, Starts, Proceeds, Receives

THEOREM ClaimInvariant == Spec => []IInv
<1> QED
    BY InitTyped, Inductive, PTL DEF Spec

\* The variables keep their types: no claim sends more than its twelve packets or runs
\* over its last pause (run_claim_protocol).
THEOREM ClaimTypeOK == Spec => []TypeOK
<1>1. IInv => TypeOK
    BY DEF IInv
<1> QED
    BY ClaimInvariant, <1>1, PTL

\* A host is turned away from a number only if some host owns it and has defended it
\* (wait_for_defense, defense_loop).
THEOREM ClaimTurnedAwayByOwner == Spec => TurnedAwayByOwner
<1>1. IInv /\ [Next]_vars =>
          [\A h \in Host : Defended(h) =>
              \E k \in Host : cdj[k].pc = "owner" /\ cdj[k].number = cdj[h].number]_vars
    BY DEF IInv, DefensesHonest, Defended, Hears, Owned
<1> QED
    BY ClaimInvariant, <1>1, PTL DEF Spec, TurnedAwayByOwner
-----------------------------------------------------------------------------
(***************************************************************************)
(* start_auto fails only when every number it may use is held.  The        *)
(* argument: of the numbers it began with, a claim has those it was turned *)
(* away from behind it, and these are held; nobody gives a number back.    *)
(***************************************************************************)

\* What is neither to be tried nor being claimed is held.
Covers(h) ==
    cdj[h].auto =>
        /\ cdj[h].pc \in {"claiming", "owner", "failed"}
        /\ cdj[h].pc = "claiming" =>
               OtherNumber \subseteq Taken \union cdj[h].todo \union {cdj[h].number}
        /\ cdj[h].pc = "failed" => OtherNumber \subseteq Taken

AutoCovers == \A h \in Host : Covers(h)

\* A host that keeps its claim and its candidates stays covered when no number is
\* given back.
LEMMA CoversKept ==
    ASSUME NEW h \in Host, Covers(h), Taken \subseteq Taken',
           cdj'[h].pc = cdj[h].pc \/ cdj'[h].pc = "owner",
           cdj'[h].number = cdj[h].number,
           cdj'[h].todo = cdj[h].todo, cdj'[h].auto = cdj[h].auto
    PROVE  Covers(h)'
BY DEF Covers

\* A next claim covers what the attempt covered before it.
LEMMA BeginsCovers ==
    ASSUME IInv, NEW h \in Host, NEW todo \in SUBSET Number, NEW auto \in BOOLEAN,
           cdj[h].pc \in {"off", "claiming"}, Begins(h, todo, auto),
           AutoCovers, auto => OtherNumber \subseteq Taken \union todo
    PROVE  AutoCovers'
<1>1. /\ cdj'[h].pc \in {"claiming", "failed"}
      /\ \A k \in Host \ {h} : cdj'[k] = cdj[k]
    BY BeginsTyped DEF IInv
<1>2. Taken \subseteq Taken'
    BY <1>1 DEF Taken, Holds
<1>3. Covers(h)'
    <2>1. CASE todo = {} /\ cdj' = [cdj EXCEPT ![h] = GivenUp(auto)]
        <3>1. cdj'[h] = GivenUp(auto)
            BY <2>1 DEF IInv, TypeOK
        <3> QED
            BY <1>2, <2>1, <3>1 DEF Covers, GivenUp
    <2>2. ASSUME NEW n \in todo, cdj' = [cdj EXCEPT ![h] = Claiming(n, todo \ {n}, auto)]
          PROVE  Covers(h)'
        <3>1. cdj'[h] = Claiming(n, todo \ {n}, auto)
            BY <2>2 DEF IInv, TypeOK
        <3> QED
            BY <1>2, <3>1 DEF Covers, Claiming
    <2> QED
        BY <2>1, <2>2 DEF Begins
<1>4. ASSUME NEW k \in Host \ {h} PROVE Covers(k)'
    BY <1>1, <1>2, CoversKept DEF AutoCovers
<1> QED
    BY <1>3, <1>4 DEF AutoCovers

LEMMA AutoCoversNext == IInv /\ AutoCovers /\ [Next]_vars => AutoCovers'
<1> SUFFICES ASSUME IInv, AutoCovers, [Next]_vars PROVE AutoCovers'
    OBVIOUS
<1> USE DEF AutoCovers
<1>1. ASSUME NEW h \in Host, StartAuto(h) PROVE AutoCovers'
    <2>1. PICK used \in SUBSET Taken, players \in BOOLEAN :
              Begins(h, Candidates(used, players), TRUE)
        BY <1>1 DEF StartAuto
    <2>2. /\ Candidates(used, players) \in SUBSET Number
          /\ OtherNumber \subseteq Taken \union Candidates(used, players)
        BY DEF Candidates, Number
    <2> QED
        BY <1>1, <2>1, <2>2, BeginsCovers DEF StartAuto
<1>2. ASSUME NEW h \in Host, StartClaimed(h) PROVE AutoCovers'
    <2>1. PICK n \in Number : Begins(h, {n}, FALSE)
        BY <1>2 DEF StartClaimed
    <2> QED
        BY <1>2, <2>1, BeginsCovers DEF StartClaimed
<1>3. ASSUME NEW h \in Host, Defended(h) PROVE AutoCovers'
    <2>1. cdj[h].todo \in SUBSET Number /\ cdj[h].auto \in BOOLEAN
        BY DEF IInv, TypeOK, Cdj
    <2>2. cdj[h].number \in Number /\ Owned(cdj[h].number)
        BY <1>3 DEF Defended, Hears, IInv, Numbered, DefensesHonest
    <2>3. cdj[h].number \in Taken
        BY <2>2 DEF Owned, Taken, Holds
    <2>4. cdj[h].auto => OtherNumber \subseteq Taken \union cdj[h].todo
        BY <1>3, <2>3 DEF Covers, Defended
    <2> QED
        BY <1>3, <2>1, <2>4, BeginsCovers DEF Defended
<1>4. ASSUME NEW h \in Host, Start(h) PROVE AutoCovers'
    <2>1. /\ \A k \in Host \ {h} : cdj'[k] = cdj[k]
          /\ cdj'[h].auto = cdj[h].auto /\ cdj[h].pc = "off"
        BY <1>4 DEF Start, IInv, TypeOK, Cdj
    <2>2. Taken \subseteq Taken'
        BY <2>1 DEF Taken, Holds
    <2> QED
        BY <2>1, <2>2, CoversKept DEF Covers
<1>5. ASSUME NEW h \in Host, SendPacket(h) \/ Complete(h) PROVE AutoCovers'
    <2>1. \A k \in Host : /\ \/ cdj'[k].pc = cdj[k].pc
                             \/ cdj[k].pc = "claiming" /\ cdj'[k].pc = "owner"
                          /\ cdj'[k].number = cdj[k].number
                          /\ cdj'[k].todo = cdj[k].todo /\ cdj'[k].auto = cdj[k].auto
        BY <1>5 DEF SendPacket, Complete, IInv, TypeOK, Cdj
    <2>2. Taken \subseteq Taken'
        BY <2>1 DEF Taken, Holds
    <2> QED
        BY <2>1, <2>2, CoversKept
<1>6. CASE Tick
    <2>1. \A k \in Host : /\ cdj'[k].pc = cdj[k].pc /\ cdj'[k].number = cdj[k].number
                          /\ cdj'[k].todo = cdj[k].todo /\ cdj'[k].auto = cdj[k].auto
        BY <1>6 DEF Tick, IInv, TypeOK, Cdj
    <2>2. Taken \subseteq Taken'
        BY <2>1 DEF Taken, Holds
    <2> QED
        BY <2>1, <2>2, CoversKept
<1>7. CASE cdj' = cdj
    <2>1. Taken \subseteq Taken'
        BY <1>7 DEF Taken, Holds
    <2> QED
        BY <1>7, <2>1, CoversKept
<1> QED
    BY <1>1, <1>2, <1>3, <1>4, <1>5, <1>6, <1>7
    DEF Next, Starts, Proceeds, Receives, ReceiveClaim, ReceiveDefense, Lose, vars

\* start_auto reports that no number is available only when each of the numbers it may
\* always use is held by a host (candidate_device_numbers, start_auto).
THEOREM ClaimFailsOnlyWhenTaken == Spec => []FailsOnlyWhenTaken
<1>1. Init => AutoCovers
    BY DEF Init, AutoCovers, Covers
<1>2. AutoCovers => FailsOnlyWhenTaken
    BY DEF AutoCovers, Covers, FailsOnlyWhenTaken
<1> QED
    BY <1>1, <1>2, ClaimInvariant, AutoCoversNext, PTL DEF Spec
-----------------------------------------------------------------------------
(***************************************************************************)
(* Two hosts own the same number only if their claims began less than      *)
(* Window pauses apart, while a packet is at most one pause late and fewer *)
(* than three are lost.  The argument: a claim that begins Window pauses   *)
(* or more after the owner's sends its last MaxLoss + 1 packets of stage 2 *)
(* to an owner.  Each of them, and then its defense, is under way no       *)
(* longer than MaxDelay or is lost; one is not lost, and its defense comes *)
(* before the claim's last pause begins, which it ends.                    *)
(***************************************************************************)

\* A claim sends one packet per pause, and an owner was through with its own.
InStep ==
    \A h \in Host :
        /\ cdj[h].pc = "claiming" => /\ cdj[h].age <= LastPacket
                                     /\ cdj[h].age <= cdj[h].sent
                                     /\ cdj[h].sent <= cdj[h].age + 1
        /\ cdj[h].pc = "owner" => cdj[h].age >= LastPacket

\* h claims the number that k owns, and began late enough to meet its defense.
Behind(h, k) ==
    /\ h # k /\ cdj[h].pc = "claiming" /\ cdj[k].pc = "owner"
    /\ cdj[k].number = cdj[h].number
    /\ cdj[k].age >= cdj[h].age + Window

\* The i-th packet of stage 2 was sent, and to an owner.
Due(h, k, i) ==
    /\ Behind(h, k)
    /\ i >= 3 - MaxLoss /\ cdj[h].sent >= FirstStage2 + i - 1

ClaimUnderWay(h, k, i) ==
    \E p \in net : /\ p.kind = "claim" /\ p.nth = i /\ p.number = cdj[h].number
                   /\ p.from = h /\ p.to = k
                   /\ cdj[h].age + p.ttl <= FirstStage2 - 2 + i + MaxDelay

DefenseUnderWay(h, k, i) ==
    \E p \in net : /\ p.kind = "defense" /\ p.nth = i /\ p.number = cdj[h].number
                   /\ p.from = k /\ p.to = h
                   /\ cdj[h].age + p.ttl <= FirstStage2 - 2 + i + 2 * MaxDelay

\* The packet or its defense is under way and in time, or a defense was heard.
Alive(h, k, i) ==
    cdj[h].number \in heard[h] \/ ClaimUnderWay(h, k, i) \/ DefenseUnderWay(h, k, i)

Gone(h, k, i) == IF Due(h, k, i) /\ ~Alive(h, k, i) THEN 1 ELSE 0

\* No packet goes missing but those that are lost.
LossesCounted ==
    \A h, k \in Host : Gone(h, k, 1) + Gone(h, k, 2) + Gone(h, k, 3) <= lost

\* A claim that is behind does not reach the end of its last pause.
TurnedAwayInTime == \A h, k \in Host : Behind(h, k) => cdj[h].age < LastPacket

InTime == InStep /\ LossesCounted /\ TurnedAwayInTime
\* What a step must not do: make a packet that was under way go missing.
KeptAlive(h, k, i) == Due(h, k, i)' => Alive(h, k, i)' \/ (Due(h, k, i) /\ ~Alive(h, k, i))

LEMMA WindowFacts == Window = 5 + MaxLoss
BY ConstantFacts DEF Window

LEMMA CdjFacts ==
    ASSUME IInv, NEW h \in Host
    PROVE  /\ cdj[h].age \in Nat /\ cdj[h].age <= 24
           /\ cdj[h].sent \in Nat /\ cdj[h].sent <= 12
BY ConstantFacts DEF IInv, TypeOK, Cdj

\* A claim that begins has sent nothing; nothing else changes for the others.
LEMMA BeginsAnew ==
    ASSUME IInv, NEW h \in Host, NEW todo \in SUBSET Number, NEW auto \in BOOLEAN,
           Begins(h, todo, auto)
    PROVE  /\ cdj'[h].pc \in {"claiming", "failed"}
           /\ cdj'[h].sent = 0 /\ cdj'[h].age = 0
           /\ \A k \in Host \ {h} : cdj'[k] = cdj[k] /\ heard'[k] = heard[k]
BY DEF Begins, GivenUp, Claiming, IInv, TypeOK

\* The steps that begin a claim, or go without one.
Anew(x) ==
    /\ cdj[x].pc \in {"off", "claiming"}
    /\ cdj'[x].pc \notin {"owner"}
    /\ cdj'[x].pc = "claiming" => cdj'[x].sent = 0 /\ cdj'[x].age = 0
    /\ \A k \in Host \ {x} : cdj'[k] = cdj[k] /\ heard'[k] = heard[k]
    /\ net' = net /\ lost' = lost

LEMMA StartsAnew ==
    ASSUME IInv, NEW x \in Host, Starts(x) \/ Defended(x)
    PROVE  Anew(x)
<1>1. CASE StartAuto(x)
    <2>1. PICK used \in SUBSET Taken, players \in BOOLEAN :
              Begins(x, Candidates(used, players), TRUE)
        BY <1>1 DEF StartAuto
    <2>2. Candidates(used, players) \in SUBSET Number
        BY DEF Candidates, Number
    <2> QED
        BY <1>1, <2>1, <2>2, BeginsAnew DEF StartAuto, Anew
<1>2. CASE StartClaimed(x)
    <2>1. PICK n \in Number : Begins(x, {n}, FALSE)
        BY <1>2 DEF StartClaimed
    <2> QED
        BY <1>2, <2>1, BeginsAnew DEF StartClaimed, Anew
<1>3. CASE Defended(x)
    <2>1. cdj[x].todo \in SUBSET Number /\ cdj[x].auto \in BOOLEAN
        BY DEF IInv, TypeOK, Cdj
    <2> QED
        BY <1>3, <2>1, BeginsAnew DEF Defended, Anew
<1>4. CASE Start(x)
    BY <1>4 DEF Start, Anew, IInv, TypeOK, Cdj
<1> QED
    BY <1>1, <1>2, <1>3, <1>4 DEF Starts

LEMMA InStepNext == IInv /\ InStep /\ [Next]_vars => InStep'
<1> SUFFICES ASSUME IInv, InStep, [Next]_vars PROVE InStep'
    OBVIOUS
<1> USE CdjFacts, ConstantFacts DEF InStep
<1>1. ASSUME NEW x \in Host, Starts(x) \/ Defended(x) PROVE InStep'
    BY <1>1, StartsAnew DEF Anew
<1>2. ASSUME NEW x \in Host, SendPacket(x) PROVE InStep'
    BY <1>2 DEF SendPacket, IInv, TypeOK, Cdj
<1>3. ASSUME NEW x \in Host, Complete(x) PROVE InStep'
    BY <1>3 DEF Complete, IInv, TypeOK, Cdj
<1>4. CASE Tick
    <2>1. ASSUME NEW h \in Host, cdj[h].pc \in {"claiming", "owner"}
          PROVE  /\ cdj'[h].pc = cdj[h].pc /\ cdj'[h].sent = cdj[h].sent
                 /\ cdj'[h].age = IF cdj[h].age < 24 THEN cdj[h].age + 1 ELSE cdj[h].age
        BY <1>4, <2>1 DEF Tick, IInv, TypeOK, Cdj
    <2>2. ASSUME NEW h \in Host, cdj[h].pc \notin {"claiming", "owner"}
          PROVE  cdj'[h] = cdj[h]
        BY <1>4, <2>2 DEF Tick
    <2>3. \A h \in Host : cdj[h].pc = "claiming" => cdj[h].sent = cdj[h].age + 1
        BY <1>4 DEF Tick
    <2> QED
        BY <2>1, <2>2, <2>3
<1>5. CASE cdj' = cdj
    BY <1>5
<1> QED
    BY <1>1, <1>2, <1>3, <1>4, <1>5
    DEF Next, Proceeds, Receives, ReceiveClaim, ReceiveDefense, Lose, vars

-----------------------------------------------------------------------------
\* One lemma per kind of step: it keeps the packets of every pair of hosts alive.

\* Nothing is lost of a pair whose state stays as it is while packets are added.
LEMMA PairSame ==
    ASSUME NEW h \in Host, NEW k \in Host, NEW i \in 1..3,
           cdj'[h] = cdj[h], cdj'[k] = cdj[k], heard'[h] = heard[h],
           net \subseteq net'
    PROVE  KeptAlive(h, k, i)
BY DEF KeptAlive, Due, Behind, Alive, ClaimUnderWay, DefenseUnderWay

LEMMA AnewKeeps ==
    ASSUME IInv, NEW x \in Host, Anew(x),
           NEW h \in Host, NEW k \in Host, NEW i \in 1..3
    PROVE  KeptAlive(h, k, i)
<1>1. CASE h = x
    BY <1>1, ConstantFacts DEF Anew, KeptAlive, Due, Behind
<1>2. CASE k = x
    BY <1>2 DEF Anew, KeptAlive, Due, Behind
<1>3. CASE h # x /\ k # x
    BY <1>3, PairSame DEF Anew
<1> QED
    BY <1>1, <1>2, <1>3

LEMMA SendPacketKeeps ==
    ASSUME IInv, InStep, NEW x \in Host, SendPacket(x),
           NEW h \in Host, NEW k \in Host, NEW i \in 1..3
    PROVE  KeptAlive(h, k, i)
<1>1. /\ cdj[x].pc = "claiming" /\ cdj'[x].pc = "claiming"
      /\ cdj'[x].number = cdj[x].number /\ cdj'[x].age = cdj[x].age
      /\ cdj[x].sent = cdj[x].age /\ cdj'[x].sent = cdj[x].sent + 1
      /\ \A y \in Host \ {x} : cdj'[y] = cdj[y]
      /\ heard' = heard /\ net \subseteq net'
    BY DEF SendPacket, IInv, TypeOK, Cdj
<1>2. CASE h # x /\ k # x
    BY <1>1, <1>2, PairSame
<1>3. CASE k = x
    BY <1>1, <1>3 DEF KeptAlive, Due, Behind
<1>4. CASE h = x /\ k # x
    <2>1. Alive(h, k, i) => Alive(h, k, i)'
        BY <1>1, <1>4 DEF Alive, ClaimUnderWay, DefenseUnderWay
    <2>2. Behind(h, k)' => Behind(h, k)
        BY <1>1, <1>4 DEF Behind
    <2>3. ASSUME Due(h, k, i)', ~Due(h, k, i) PROVE Alive(h, k, i)'
        <3>1. cdj'[h].sent = FirstStage2 + i - 1 /\ cdj[h].age = FirstStage2 + i - 2
            BY <1>1, <1>4, <2>2, <2>3, CdjFacts, ConstantFacts DEF Due
        <3>2. net' = net \union Stage2(h, i)
            <4>1. cdj'[h].sent \in FirstStage2..(FirstStage3 - 1)
                BY <3>1, ConstantFacts
            <4>2. cdj'[h].sent - FirstStage2 + 1 = i
                BY <3>1, ConstantFacts
            <4> QED
                BY <1>4, <4>1, <4>2 DEF SendPacket
        <3> DEFINE p == [kind |-> "claim", number |-> cdj[h].number, nth |-> i,
                         from |-> h, to |-> k, ttl |-> MaxDelay]
        <3>3. p \in net'
            BY <1>4, <3>2 DEF Stage2
        <3>4. cdj'[h].age + p.ttl <= FirstStage2 - 2 + i + MaxDelay
            BY <1>1, <1>4, <3>1, ConstantFacts
        <3>5. ClaimUnderWay(h, k, i)'
            BY <1>1, <1>4, <3>3, <3>4 DEF ClaimUnderWay
        <3> QED
            BY <3>5 DEF Alive
    <2> QED
        BY <2>1, <2>3 DEF KeptAlive
<1> QED
    BY <1>2, <1>3, <1>4

\* A claim that has just become the owner's is met by none that is behind it and has
\* sent what would still be due.
LEMMA CompleteKeeps ==
    ASSUME IInv, InStep, NEW x \in Host, Complete(x),
           NEW h \in Host, NEW k \in Host, NEW i \in 1..3
    PROVE  KeptAlive(h, k, i)
<1>1. /\ cdj[x].pc = "claiming" /\ cdj'[x].pc = "owner" /\ cdj'[x].age = LastPacket
      /\ \A y \in Host \ {x} : cdj'[y] = cdj[y] /\ heard'[y] = heard[y]
      /\ net' = net
    BY DEF Complete, IInv, TypeOK, Cdj
<1>2. CASE h # x /\ k # x
    BY <1>1, <1>2, PairSame
<1>3. CASE h = x
    BY <1>1, <1>3 DEF KeptAlive, Due, Behind
<1>4. CASE k = x /\ h # x
    <2>1. ASSUME Due(h, k, i)' PROVE FALSE
        <3>1. cdj'[h] = cdj[h] /\ cdj[h].pc = "claiming"
            BY <1>1, <1>4, <2>1 DEF Due, Behind
        <3>2. cdj[h].sent <= cdj[h].age + 1
            BY <3>1 DEF InStep
        <3>3. cdj[h].age + 5 + MaxLoss <= 12 /\ i >= 3 - MaxLoss /\ cdj[h].sent >= 6 + i
            BY <1>1, <1>4, <2>1, <3>1, CdjFacts, WindowFacts, ConstantFacts DEF Due, Behind
        <3> QED
            BY <3>2, <3>3, CdjFacts, ConstantFacts
    <2> QED
        BY <2>1 DEF KeptAlive
<1> QED
    BY <1>2, <1>3, <1>4

LEMMA ReceiveClaimKeeps ==
    ASSUME IInv, NEW p \in net, ReceiveClaim(p),
           NEW h \in Host, NEW k \in Host, NEW i \in 1..3
    PROVE  KeptAlive(h, k, i)
<1>1. cdj' = cdj /\ heard' = heard
    BY DEF ReceiveClaim
<1>2. Due(h, k, i)' <=> Due(h, k, i)
    BY <1>1 DEF Due, Behind
<1>3. \A q \in net : q # p => q \in net'
    BY DEF ReceiveClaim
<1>4. ASSUME cdj[h].number \in heard[h] PROVE Alive(h, k, i)'
    BY <1>1, <1>4 DEF Alive
<1>5. ASSUME DefenseUnderWay(h, k, i) PROVE Alive(h, k, i)'
    BY <1>1, <1>3, <1>5 DEF DefenseUnderWay, Alive, ReceiveClaim
<1>6. ASSUME Due(h, k, i), ClaimUnderWay(h, k, i) PROVE Alive(h, k, i)'
    <2>1. PICK q \in net : /\ q.kind = "claim" /\ q.nth = i /\ q.number = cdj[h].number
                           /\ q.from = h /\ q.to = k
                           /\ cdj[h].age + q.ttl <= FirstStage2 - 2 + i + MaxDelay
        BY <1>6 DEF ClaimUnderWay
    <2>2. CASE q # p
        BY <1>1, <1>3, <2>1, <2>2 DEF Alive, ClaimUnderWay
    <2>3. CASE q = p
        <3>1. Answer(p) \in net'
            BY <1>6, <2>1, <2>3 DEF ReceiveClaim, Due, Behind
        <3>2. /\ Answer(p).kind = "defense" /\ Answer(p).nth = i
              /\ Answer(p).number = cdj[h].number
              /\ Answer(p).from = k /\ Answer(p).to = h /\ Answer(p).ttl = MaxDelay
            BY <2>1, <2>3 DEF Answer
        <3>3. p.ttl \in Nat
            BY ConstantFacts DEF IInv, TypeOK, Packet
        <3>4. cdj[h].age + MaxDelay <= FirstStage2 - 2 + i + 2 * MaxDelay
            BY <2>1, <2>3, <3>3, CdjFacts, ConstantFacts
        <3> QED
            BY <1>1, <3>1, <3>2, <3>4 DEF Alive, DefenseUnderWay
    <2> QED
        BY <2>2, <2>3
<1> QED
    BY <1>2, <1>4, <1>5, <1>6 DEF KeptAlive, Alive

LEMMA ReceiveDefenseKeeps ==
    ASSUME IInv, NEW p \in net, ReceiveDefense(p),
           NEW h \in Host, NEW k \in Host, NEW i \in 1..3
    PROVE  KeptAlive(h, k, i)
<1>1. cdj' = cdj /\ net' = net \ {p} /\ p.kind = "defense" /\ p.to \in Host
    BY DEF ReceiveDefense, IInv, TypeOK, Packet
<1>2. Due(h, k, i)' <=> Due(h, k, i)
    BY <1>1 DEF Due, Behind
<1>3. heard[h] \subseteq heard'[h]
    BY <1>1 DEF ReceiveDefense, IInv, TypeOK
<1>4. ASSUME Due(h, k, i), Alive(h, k, i) PROVE Alive(h, k, i)'
    <2>1. CASE cdj[h].number \in heard[h] \/ ClaimUnderWay(h, k, i)
        BY <1>1, <1>3, <2>1 DEF Alive, ClaimUnderWay
    <2>2. CASE DefenseUnderWay(h, k, i)
        <3>1. CASE p.to = h /\ p.number = cdj[h].number
            BY <1>1, <1>4, <3>1 DEF ReceiveDefense, Due, Behind, Alive, IInv, TypeOK
        <3>2. CASE ~(p.to = h /\ p.number = cdj[h].number)
            BY <1>1, <2>2, <3>2 DEF DefenseUnderWay, Alive
        <3> QED
            BY <3>1, <3>2
    <2> QED
        BY <1>4, <2>1, <2>2 DEF Alive
<1> QED
    BY <1>2, <1>4 DEF KeptAlive

LEMMA LoseKeeps ==
    ASSUME IInv, NEW p \in net, Lose(p),
           NEW h \in Host, NEW k \in Host, NEW i \in 1..3, i # p.nth
    PROVE  KeptAlive(h, k, i)
BY DEF Lose, KeptAlive, Due, Behind, Alive, ClaimUnderWay, DefenseUnderWay

\* A pause goes by for both hosts: neither falls further behind.
LEMMA TickAges ==
    ASSUME IInv, InStep, Tick, NEW h \in Host, NEW k \in Host, Behind(h, k)'
    PROVE  /\ Behind(h, k)
           /\ cdj'[h].age = cdj[h].age + 1 /\ cdj'[h].sent = cdj[h].sent
           /\ cdj'[h].number = cdj[h].number
<1>1. \A y \in Host : /\ cdj'[y].pc = cdj[y].pc /\ cdj'[y].number = cdj[y].number
                      /\ cdj'[y].sent = cdj[y].sent
                      /\ cdj'[y].age \in {cdj[y].age, cdj[y].age + 1}
    BY DEF Tick, IInv, TypeOK, Cdj
<1>2. cdj[h].pc = "claiming" /\ cdj[h].age <= 12
    BY <1>1, ConstantFacts DEF Behind, InStep
<1>3. cdj'[h].age = cdj[h].age + 1
    BY <1>2, CdjFacts, ConstantFacts DEF Tick, IInv, TypeOK, Cdj
<1>4. cdj[k].age >= cdj[h].age + Window
    BY <1>1, <1>3, CdjFacts, WindowFacts, ConstantFacts DEF Behind
<1> QED
    BY <1>1, <1>3, <1>4 DEF Behind

LEMMA TickKeeps ==
    ASSUME IInv, InStep, Tick,
           NEW h \in Host, NEW k \in Host, NEW i \in 1..3
    PROVE  KeptAlive(h, k, i)
<1> SUFFICES ASSUME Due(h, k, i)' PROVE Due(h, k, i) /\ (Alive(h, k, i) => Alive(h, k, i)')
    BY DEF KeptAlive
<1>1. /\ Behind(h, k) /\ cdj'[h].age = cdj[h].age + 1 /\ cdj'[h].sent = cdj[h].sent
      /\ cdj'[h].number = cdj[h].number
    BY TickAges DEF Due
<1>2. Due(h, k, i)
    BY <1>1 DEF Due
<1>3. heard' = heard
    BY DEF Tick
<1>4. ASSUME NEW p \in net
      PROVE  \E q \in net' : /\ q.kind = p.kind /\ q.nth = p.nth /\ q.number = p.number
                             /\ q.from = p.from /\ q.to = p.to /\ q.ttl = p.ttl - 1
    <2>1. [p EXCEPT !.ttl = @ - 1] \in net'
        BY DEF Tick
    <2> QED
        BY <2>1 DEF IInv, TypeOK, Packet
<1>5. \A p \in net : p.ttl \in Nat
    BY ConstantFacts DEF IInv, TypeOK, Packet
<1>6. ASSUME ClaimUnderWay(h, k, i) PROVE ClaimUnderWay(h, k, i)'
    <2>1. PICK p \in net : /\ p.kind = "claim" /\ p.nth = i /\ p.number = cdj[h].number
                           /\ p.from = h /\ p.to = k
                           /\ cdj[h].age + p.ttl <= FirstStage2 - 2 + i + MaxDelay
        BY <1>6 DEF ClaimUnderWay
    <2>2. PICK q \in net' : /\ q.kind = p.kind /\ q.nth = p.nth /\ q.number = p.number
                            /\ q.from = p.from /\ q.to = p.to /\ q.ttl = p.ttl - 1
        BY <1>4
    <2>3. cdj'[h].age + q.ttl = cdj[h].age + p.ttl
        BY <1>1, <1>5, <2>2, CdjFacts
    <2> QED
        BY <1>1, <2>1, <2>2, <2>3 DEF ClaimUnderWay
<1>7. ASSUME DefenseUnderWay(h, k, i) PROVE DefenseUnderWay(h, k, i)'
    <2>1. PICK p \in net : /\ p.kind = "defense" /\ p.nth = i /\ p.number = cdj[h].number
                           /\ p.from = k /\ p.to = h
                           /\ cdj[h].age + p.ttl <= FirstStage2 - 2 + i + 2 * MaxDelay
        BY <1>7 DEF DefenseUnderWay
    <2>2. PICK q \in net' : /\ q.kind = p.kind /\ q.nth = p.nth /\ q.number = p.number
                            /\ q.from = p.from /\ q.to = p.to /\ q.ttl = p.ttl - 1
        BY <1>4
    <2>3. cdj'[h].age + q.ttl = cdj[h].age + p.ttl
        BY <1>1, <1>5, <2>2, CdjFacts
    <2> QED
        BY <1>1, <2>1, <2>2, <2>3 DEF DefenseUnderWay
<1> QED
    BY <1>1, <1>2, <1>3, <1>6, <1>7 DEF Alive

-----------------------------------------------------------------------------
\* What goes missing is what is lost.
LEMMA LossesCountedNext ==
    IInv /\ InStep /\ LossesCounted /\ [Next]_vars => LossesCounted'
<1> SUFFICES ASSUME IInv, InStep, LossesCounted, [Next]_vars,
                    NEW h \in Host, NEW k \in Host
             PROVE  (Gone(h, k, 1) + Gone(h, k, 2) + Gone(h, k, 3) <= lost)'
    BY DEF LossesCounted
<1>1. /\ Gone(h, k, 1) + Gone(h, k, 2) + Gone(h, k, 3) <= lost
      /\ lost \in Nat
    BY ConstantFacts DEF LossesCounted, IInv, TypeOK
<1>2. ASSUME \A i \in 1..3 : KeptAlive(h, k, i), lost' = lost
      PROVE  (Gone(h, k, 1) + Gone(h, k, 2) + Gone(h, k, 3) <= lost)'
    <2>1. ASSUME NEW i \in 1..3
          PROVE  Gone(h, k, i)' \in 0..1 /\ Gone(h, k, i) \in 0..1 /\ Gone(h, k, i)' <= Gone(h, k, i)
        BY <1>2 DEF Gone, KeptAlive
    <2> QED
        BY <1>1, <1>2, <2>1
<1>3. ASSUME NEW p \in net, Lose(p)
      PROVE  (Gone(h, k, 1) + Gone(h, k, 2) + Gone(h, k, 3) <= lost)'
    <2>1. p.nth \in 1..3
        BY DEF IInv, TypeOK, Packet
    <2>2. ASSUME NEW i \in 1..3, i # p.nth
          PROVE  Gone(h, k, i)' <= Gone(h, k, i)
        BY <1>3, <2>2, LoseKeeps DEF Gone, KeptAlive
    <2>3. \A i \in 1..3 : Gone(h, k, i)' \in 0..1 /\ Gone(h, k, i) \in 0..1
        BY DEF Gone
    <2>4. lost' = lost + 1
        BY <1>3 DEF Lose
    <2> QED
        BY <1>1, <2>1, <2>2, <2>3, <2>4
<1>4. ASSUME NEW x \in Host, Starts(x) \/ Defended(x)
      PROVE  (Gone(h, k, 1) + Gone(h, k, 2) + Gone(h, k, 3) <= lost)'
    <2>1. Anew(x)
        BY <1>4, StartsAnew
    <2> QED
        BY <1>2, <2>1, AnewKeeps DEF Anew
<1>5. ASSUME NEW x \in Host, SendPacket(x)
      PROVE  (Gone(h, k, 1) + Gone(h, k, 2) + Gone(h, k, 3) <= lost)'
    BY <1>2, <1>5, SendPacketKeeps DEF SendPacket
<1>6. ASSUME NEW x \in Host, Complete(x)
      PROVE  (Gone(h, k, 1) + Gone(h, k, 2) + Gone(h, k, 3) <= lost)'
    BY <1>2, <1>6, CompleteKeeps DEF Complete
<1>7. ASSUME NEW p \in net, ReceiveClaim(p)
      PROVE  (Gone(h, k, 1) + Gone(h, k, 2) + Gone(h, k, 3) <= lost)'
    BY <1>2, <1>7, ReceiveClaimKeeps DEF ReceiveClaim
<1>8. ASSUME NEW p \in net, ReceiveDefense(p)
      PROVE  (Gone(h, k, 1) + Gone(h, k, 2) + Gone(h, k, 3) <= lost)'
    BY <1>2, <1>8, ReceiveDefenseKeeps DEF ReceiveDefense
<1>9. CASE Tick
    BY <1>2, <1>9, TickKeeps DEF Tick
<1>10. CASE UNCHANGED vars
    BY <1>2, <1>10, PairSame DEF vars
<1> QED
    BY <1>3, <1>4, <1>5, <1>6, <1>7, <1>8, <1>9, <1>10 DEF Next, Proceeds, Receives

\* Before its last pause a claim that is behind has heard a defense, which ends the
\* pause; or else more packets would be missing than may be lost.
LEMMA LastPauseEnds ==
    ASSUME MaxDelay <= 1, MaxLoss <= 2, IInv, InStep, LossesCounted, Tick,
           NEW h \in Host, NEW k \in Host, Behind(h, k)
    PROVE  cdj[h].age # 11
<1> SUFFICES ASSUME cdj[h].age = 11 PROVE FALSE
    OBVIOUS
<1>1. cdj[h].sent = 12 /\ cdj[h].number \notin heard[h]
    BY CdjFacts, ConstantFacts DEF Tick, Hears, Behind
<1>2. ASSUME NEW i \in 1..3, i >= 3 - MaxLoss PROVE Gone(h, k, i) = 1
    <2>1. Due(h, k, i)
        BY <1>1, <1>2, ConstantFacts DEF Due
    <2>2. \A p \in net : p.ttl \in Nat
        BY ConstantFacts DEF IInv, TypeOK, Packet
    <2>3. ~ClaimUnderWay(h, k, i)
        BY <2>2, ConstantFacts DEF ClaimUnderWay
    <2>4. ~DefenseUnderWay(h, k, i)
        BY <2>2, ConstantFacts DEF DefenseUnderWay
    <2> QED
        BY <1>1, <2>1, <2>3, <2>4 DEF Gone, Alive
<1>3. \A i \in 1..3 : Gone(h, k, i) \in 0..1
    BY DEF Gone
<1>4. Gone(h, k, 1) + Gone(h, k, 2) + Gone(h, k, 3) <= MaxLoss
    BY <1>3, ConstantFacts DEF LossesCounted, IInv, TypeOK
<1>5. MaxLoss \in 0..2
    BY ConstantFacts
<1> QED
    BY <1>2, <1>3, <1>4, <1>5

LEMMA TurnedAwayInTimeNext ==
    ASSUME MaxDelay <= 1, MaxLoss <= 2,
           IInv, InStep, LossesCounted, TurnedAwayInTime, [Next]_vars
    PROVE  TurnedAwayInTime'
<1> SUFFICES ASSUME NEW h \in Host, NEW k \in Host, Behind(h, k)'
             PROVE  cdj'[h].age < LastPacket
    BY DEF TurnedAwayInTime
<1>1. ASSUME NEW x \in Host, Starts(x) \/ Defended(x) PROVE cdj'[h].age < LastPacket
    <2>1. Anew(x)
        BY <1>1, StartsAnew
    <2>2. CASE h = x
        BY <2>1, <2>2, ConstantFacts DEF Anew, Behind
    <2>3. CASE h # x
        BY <2>1, <2>3 DEF Anew, Behind, TurnedAwayInTime
    <2> QED
        BY <2>2, <2>3
<1>2. ASSUME NEW x \in Host, SendPacket(x) PROVE cdj'[h].age < LastPacket
    <2>1. \A y \in Host : /\ cdj'[y].pc = cdj[y].pc /\ cdj'[y].age = cdj[y].age
                          /\ cdj'[y].number = cdj[y].number
        BY <1>2 DEF SendPacket, IInv, TypeOK, Cdj
    <2> QED
        BY <2>1 DEF Behind, TurnedAwayInTime
<1>3. ASSUME NEW x \in Host, Complete(x) PROVE cdj'[h].age < LastPacket
    <2>1. /\ cdj'[x].pc = "owner" /\ cdj'[x].age = 12
          /\ \A y \in Host \ {x} : cdj'[y] = cdj[y]
        BY <1>3, ConstantFacts DEF Complete, IInv, TypeOK, Cdj
    <2>2. CASE k = x
        BY <2>1, <2>2, CdjFacts, WindowFacts, ConstantFacts DEF Behind
    <2>3. CASE k # x
        BY <2>1, <2>3 DEF Behind, TurnedAwayInTime
    <2> QED
        BY <2>2, <2>3
<1>4. CASE Tick
    <2>1. Behind(h, k) /\ cdj'[h].age = cdj[h].age + 1
        BY <1>4, TickAges
    <2>2. cdj[h].age # 11 /\ cdj[h].age < 12
        BY <1>4, <2>1, LastPauseEnds, ConstantFacts DEF TurnedAwayInTime
    <2> QED
        BY <2>1, <2>2, CdjFacts, ConstantFacts
<1>5. CASE cdj' = cdj
    BY <1>5 DEF Behind, TurnedAwayInTime
<1> QED
    BY <1>1, <1>2, <1>3, <1>4, <1>5
    DEF Next, Proceeds, Receives, ReceiveClaim, ReceiveDefense, Lose, vars

\* Two hosts claim the same number only if their claims began less than Window pauses
\* apart, on a network whose packets are at most one pause late and of which it loses at
\* most two (run_claim_protocol against defense_loop).
THEOREM ClaimCollidesOnlyInWindow ==
    ASSUME MaxDelay <= 1, MaxLoss <= 2
    PROVE  Spec => CollidesOnlyInWindow
<1>1. Init => InTime
    BY DEF Init, InTime, InStep, LossesCounted, TurnedAwayInTime, Gone, Due, Behind
<1>2. IInv /\ InTime /\ [Next]_vars => InTime'
    BY InStepNext, LossesCountedNext, TurnedAwayInTimeNext DEF InTime
<1>3. IInv /\ InTime /\ [Next]_vars =>
          [\A h, k \in Host :
              h # k /\ Complete(h) /\ cdj[k].pc = "owner" /\ cdj[k].number = cdj[h].number
                  => cdj[k].age < cdj[h].age + Window]_vars
    <2> SUFFICES ASSUME IInv, InTime, NEW h \in Host, NEW k \in Host,
                        h # k, Complete(h), cdj[k].pc = "owner",
                        cdj[k].number = cdj[h].number
                 PROVE  cdj[k].age < cdj[h].age + Window
        OBVIOUS
    <2>1. ~Behind(h, k)
        BY ConstantFacts DEF Complete, InTime, TurnedAwayInTime
    <2> QED
        BY <2>1, CdjFacts, WindowFacts, ConstantFacts DEF Behind, Complete
<1> QED
    BY <1>1, <1>2, <1>3, ClaimInvariant, PTL DEF Spec, CollidesOnlyInWindow
=============================================================================
