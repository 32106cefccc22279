--------------------------- MODULE Handoff_proofs ---------------------------
(***************************************************************************)
(* Proofs about Handoff, for any number of devices, any calls of the       *)
(* applications, any runtime, with and without loss and loop-back: its     *)
(* type invariant, the bounds on the sync counters, and that a device      *)
(* yields and accepts only upward.  The counters are assumed not to reach  *)
(* 2^32.                                                                   *)
(*                                                                         *)
(* The last part is about MasterRole itself, for any implementation.       *)
(***************************************************************************)
EXTENDS HandoffRole, SequenceTheorems, TLAPS

\* Each request raises the largest counter by at most one, from 1.
NoOverflow == Budget["request"] + 1 < SyncModulus

-----------------------------------------------------------------------------
\* The inductive invariant

\* What a device may have in its status inbox or in its status task: a packet whose
\* counter its sender has reached, and which the device that it offers the role to
\* has passed.
CouldHear(d) == {p \in Status : /\ p.sync_number <= hs[p.device_number].sync_counter
                                /\ p.master_hand_off \in Device
                                      => p.sync_number < hs[p.master_hand_off].sync_counter}

PacketsHonest ==
    \A d \in Device : /\ statusIn[d] \in Seq(CouldHear(d))
                      /\ task[d].pc # "idle" => task[d].status \in CouldHear(d)
                      /\ task[d].pc = "accept" => task[d].status.master_hand_off = d

\* Who is offered the role is above the one that offers it.
Offers(d, e) == hs[d].target = e

TargetsAbove ==
    \A d, e \in Device : Offers(d, e) => hs[d].sync_counter < hs[e].sync_counter

\* What is left of the requests bounds how far the counters can still go.
CountersBounded ==
    \A d \in Device : hs[d].sync_counter + left["request"] <= 1 + Budget["request"]

IInv ==
    /\ TypeOK
    /\ PacketsHonest
    /\ CountersHeard
    /\ CountersBounded
    /\ TargetsAbove

-----------------------------------------------------------------------------
\* The network

\* A broadcast keeps the kind of packet of every inbox, if the packet is of the
\* kind its receivers expect.
LEMMA BroadcastsKeep ==
    ASSUME NEW kind, NEW d \in Device, NEW m,
           NEW inbox, inbox = [r \in Device |-> inbox[r]],
           NEW new \in Broadcasts(inbox, d, m),
           \A r \in Device : inbox[r] \in Seq(kind[r]),
           \A r \in Receivers(d) : m \in kind[r]
    PROVE  /\ new = [r \in Device |-> new[r]]
           /\ \A r \in Device : new[r] \in Seq(kind[r])
<1>1. PICK got \in SUBSET Receivers(d) :
        new = [r \in Device |-> IF r \in got THEN Append(inbox[r], m) ELSE inbox[r]]
  BY DEF Broadcasts
<1>2. ASSUME NEW r \in Device
      PROVE  new[r] \in Seq(kind[r])
  <2>1. CASE r \in got
    <3>1. m \in kind[r]
      BY <2>1
    <3>2. Append(inbox[r], m) \in Seq(kind[r])
      BY <3>1, AppendProperties
    <3> QED
      BY <1>1, <2>1, <3>2
  <2>2. CASE r \notin got
    BY <1>1, <2>2
  <2> QED
    BY <2>1, <2>2
<1> QED
  BY <1>1, <1>2

\* Taking the oldest packet leaves one of the inbox's kind in hand and keeps the
\* inbox.
LEMMA Taken ==
    ASSUME NEW K, NEW s \in Seq(K), s # <<>>
    PROVE  Head(s) \in K /\ Tail(s) \in Seq(K)
BY HeadTailProperties

\* Honest packets stay honest while the counters only go up.
LEMMA HonestStays ==
    ASSUME hs \in [Device -> HandoffState], hs' \in [Device -> HandoffState],
           \A e \in Device : hs'[e].sync_counter >= hs[e].sync_counter,
           NEW d \in Device
    PROVE  /\ CouldHear(d) \subseteq CouldHear(d)'
           /\ Seq(CouldHear(d)) \subseteq Seq(CouldHear(d)')
<1>1. ASSUME NEW p \in CouldHear(d)
      PROVE  p \in CouldHear(d)'
  <2>1. /\ p \in Status /\ p.device_number \in Device /\ p.sync_number \in Nat
        /\ p.master_hand_off \in Device \union {NoDevice}
    BY DEF CouldHear, Status
  <2>2. p.sync_number <= hs'[p.device_number].sync_counter
    <3>1. /\ hs[p.device_number].sync_counter \in Nat
          /\ hs'[p.device_number].sync_counter \in Nat
      BY <2>1 DEF HandoffState
    <3>2. p.sync_number <= hs[p.device_number].sync_counter
      BY DEF CouldHear
    <3> QED
      BY <2>1, <3>1, <3>2
  <2>3. ASSUME p.master_hand_off \in Device
        PROVE  p.sync_number < hs'[p.master_hand_off].sync_counter
    <3>1. /\ hs[p.master_hand_off].sync_counter \in Nat
          /\ hs'[p.master_hand_off].sync_counter \in Nat
      BY <2>3 DEF HandoffState
    <3>2. p.sync_number < hs[p.master_hand_off].sync_counter
      BY <2>3 DEF CouldHear
    <3> QED
      BY <2>1, <2>3, <3>1, <3>2
  <2> QED
    BY <2>1, <2>2, <2>3 DEF CouldHear
<1>2. CouldHear(d) \subseteq CouldHear(d)'
  BY <1>1
<1> QED
  BY <1>2, SeqMonotonic

\* What can be heard depends on the counters only.
LEMMA HonestSame ==
    ASSUME \A e \in Device : hs'[e].sync_counter = hs[e].sync_counter,
           NEW d \in Device
    PROVE  CouldHear(d)' = CouldHear(d)
<1>1. \A p \in Status :
        /\ hs'[p.device_number].sync_counter = hs[p.device_number].sync_counter
        /\ p.master_hand_off \in Device
              => hs'[p.master_hand_off].sync_counter = hs[p.master_hand_off].sync_counter
  BY DEF Status
<1> QED
  BY <1>1 DEF CouldHear

-----------------------------------------------------------------------------
\* The counters

\* What each step that leaves the counters alone may do to the device d whose
\* handoff state it writes: hear of a counter somebody has, yield to a device
\* above it, or end its offer.
HearsOrYields(d) ==
    /\ \A e \in Device \ {d} : hs'[e] = hs[e]
    /\ hs'[d].sync_counter = hs[d].sync_counter
    /\ hs'[d].largest_sync_counter >= hs[d].largest_sync_counter
    /\ \/ hs'[d].largest_sync_counter = hs[d].largest_sync_counter
       \/ \E e \in Device : hs'[d].largest_sync_counter <= hs[e].sync_counter
    /\ \A e \in Device : Offers(d, e)' => \/ Offers(d, e)
                                          \/ hs[d].sync_counter < hs[e].sync_counter

\* Such a step keeps the facts about counters.
LEMMA CountersKept ==
    ASSUME IInv, NEW d \in Device, hs' \in [Device -> HandoffState],
           HearsOrYields(d), left'["request"] = left["request"]
    PROVE  /\ CountersHeard' /\ CountersBounded' /\ TargetsAbove'
           /\ \A e \in Device : hs'[e].sync_counter = hs[e].sync_counter
<1> USE DEF IInv, TypeOK
<1>1. \A e \in Device : hs'[e].sync_counter = hs[e].sync_counter
  BY DEF HearsOrYields
<1>2. \A e \in Device : /\ hs[e].sync_counter \in Nat /\ hs'[e].sync_counter \in Nat
                        /\ hs[e].largest_sync_counter \in Nat
                        /\ hs'[e].largest_sync_counter \in Nat
  BY DEF HandoffState
<1>3. CountersHeard'
  <2> SUFFICES ASSUME NEW e \in Device
               PROVE  /\ \E f \in Device :
                            hs'[e].largest_sync_counter <= hs'[f].sync_counter
                      /\ hs'[e].sync_counter <= hs'[e].largest_sync_counter + 1
    BY DEF CountersHeard
  <2>1. \E f \in Device : hs'[e].largest_sync_counter <= hs'[f].sync_counter
    BY <1>1 DEF HearsOrYields, CountersHeard
  <2>2. hs[e].sync_counter <= hs[e].largest_sync_counter + 1
    BY DEF CountersHeard
  <2>3. hs'[e].largest_sync_counter >= hs[e].largest_sync_counter
    <3>1. CASE e = d
      BY <3>1 DEF HearsOrYields
    <3>2. CASE e # d
      <4>1. hs'[e] = hs[e]
        BY <3>2 DEF HearsOrYields
      <4>2. hs[e].largest_sync_counter \in Nat
        BY <1>2
      <4> QED
        BY <4>1, <4>2
    <3> QED
      BY <3>1, <3>2
  <2> QED
    BY <1>1, <1>2, <2>1, <2>2, <2>3
<1>4. CountersBounded'
  BY <1>1 DEF CountersBounded
<1>5. TargetsAbove'
  <2> SUFFICES ASSUME NEW e \in Device, NEW f \in Device, Offers(e, f)'
               PROVE  hs'[e].sync_counter < hs'[f].sync_counter
    BY DEF TargetsAbove
  <2>1. Offers(e, f) \/ hs[e].sync_counter < hs[f].sync_counter
    BY DEF HearsOrYields, Offers
  <2> QED
    BY <1>1, <2>1 DEF TargetsAbove
<1> QED
  BY <1>1, <1>3, <1>4, <1>5

\* A step that does not touch the handoff states or the requests keeps them too.
LEMMA CountersSame ==
    ASSUME IInv, hs' = hs, left'["request"] = left["request"]
    PROVE  /\ CountersHeard' /\ CountersBounded' /\ TargetsAbove'
           /\ \A e \in Device : CouldHear(e)' = CouldHear(e)
BY DEF IInv, CountersHeard, CountersBounded, TargetsAbove, Offers, CouldHear

\* Putting the parts together.
LEMMA Parts ==
    ASSUME TypeOK', PacketsHonest', CountersHeard', CountersBounded', TargetsAbove'
    PROVE  IInv'
BY DEF IInv

\* The states that the methods of TempoMaster leave.
LEMMA TempoTypes ==
    ASSUME NEW d \in Device, NEW e \in Device, NEW s \in MasterState
    PROVE  /\ SetWeAreMasterState(d, NoTempo) \in MasterState
           /\ OnDeviceIsMasterState(d, e, NoTempo) \in MasterState
           /\ ResignState(s) \in MasterState
BY DEF SetWeAreMasterState, OnDeviceIsMasterState, ResignState, MasterState, NoTempo

\* Calls counts a call off its budget, and leaves the requests alone unless it
\* is one.
LEMMA CallsLeft ==
    ASSUME NEW m \in Method, Calls(m), left \in [Method -> Nat]
    PROVE  /\ left' \in [Method -> Nat]
           /\ m # "request" => left'["request"] = left["request"]
           /\ m = "request" => left'["request"] + 1 = left["request"]
<1>1. left[m] \in Nat /\ left[m] - 1 \in Nat
  BY DEF Calls
<1> QED
  BY <1>1 DEF Calls, Method

\* A broadcast master command leaves the beat inboxes well typed.
LEMMA CommandsType ==
    ASSUME NEW d \in Device, beatIn \in [Device -> Seq(Device)],
           beatIn' \in Broadcasts(beatIn, d, d)
    PROVE  beatIn' \in [Device -> Seq(Device)]
<1> DEFINE kind == [r \in Device |-> Device]
<1>1. \A r \in Device : beatIn[r] \in Seq(kind[r])
  OBVIOUS
<1>2. \A r \in Receivers(d) : d \in kind[r]
  BY DEF Receivers
<1>3. beatIn = [r \in Device |-> beatIn[r]]
  OBVIOUS
<1>4. /\ beatIn' = [r \in Device |-> beatIn'[r]]
      /\ \A r \in Device : beatIn'[r] \in Seq(kind[r])
  <2> HIDE DEF kind
  <2> QED
    BY <1>1, <1>2, <1>3, BroadcastsKeep
<1> QED
  BY <1>4

-----------------------------------------------------------------------------
\* The actions

\* A force claim broadcasts a command and takes the role: no counter moves.
LEMMA ClaimKeeps ==
    ASSUME IInv, NEW d \in Device, RequestMasterRole(d)
    PROVE  IInv'
<1> USE DEF IInv, TypeOK, RequestMasterRole
<1>1. left' \in [Method -> Nat] /\ left'["request"] = left["request"]
  BY CallsLeft DEF Method
<1>2. CountersHeard' /\ CountersBounded' /\ TargetsAbove'
  BY <1>1, CountersSame
<1>3. PacketsHonest'
  BY <1>1, CountersSame DEF PacketsHonest
<1>4. beatIn' \in [Device -> Seq(Device)]
  BY CommandsType
<1>5. tempo' \in [Device -> MasterState]
  BY TempoTypes
<1>6. TypeOK'
  BY <1>1, <1>4, <1>5
<1> QED
  BY <1>2, <1>3, <1>6, Parts

\* A resignation only changes the role.
LEMMA YieldKeeps ==
    ASSUME IInv, NEW d \in Device, YieldMasterRole(d)
    PROVE  IInv'
<1> USE DEF IInv, TypeOK, YieldMasterRole
<1>1. left' \in [Method -> Nat] /\ left'["request"] = left["request"]
  BY CallsLeft DEF Method
<1>2. CountersHeard' /\ CountersBounded' /\ TargetsAbove'
  BY <1>1, CountersSame
<1>3. PacketsHonest'
  BY <1>1, CountersSame DEF PacketsHonest
<1>4. tempo' \in [Device -> MasterState]
  BY TempoTypes
<1>5. TypeOK'
  BY <1>1, <1>4
<1> QED
  BY <1>2, <1>3, <1>5, Parts

\* A request puts the counter one above the largest heard.  That is no lower than
\* before, it cannot overflow within the budget, and whoever yields to the device
\* is still below it.
LEMMA RequestKeeps ==
    ASSUME NoOverflow, IInv, NEW d \in Device, RequestMasterRoleNegotiated(d)
    PROVE  /\ IInv'
           /\ \A e \in Device : hs'[e].sync_counter >= hs[e].sync_counter
<1> USE DEF IInv, TypeOK
<1> DEFINE largest == hs[d].largest_sync_counter
           new == [hs[d] EXCEPT !.sync_counter = largest + 1,
                                !.phase = "Requesting", !.target = NoDevice]
<1> HIDE DEF largest, new
<1>1. Calls("request") /\ UNCHANGED <<tempo, statusIn, beatIn, task, sampled>>
  BY DEF RequestMasterRoleNegotiated
<1>2. /\ left' \in [Method -> Nat]
      /\ left'["request"] + 1 = left["request"]
      /\ left["request"] \in Nat /\ left'["request"] \in Nat
  BY <1>1, CallsLeft DEF Method
<1>3. hs[d] \in HandoffState /\ largest \in Nat /\ hs[d].sync_counter \in Nat
  BY DEF HandoffState, largest
<1>4. Budget["request"] \in Nat
  BY HandoffAssumption DEF Method
<1>5. largest + left["request"] <= 1 + Budget["request"]
  <2>1. PICK f \in Device : largest <= hs[f].sync_counter
    BY DEF CountersHeard, largest
  <2>2. hs[f].sync_counter + left["request"] <= 1 + Budget["request"]
    BY DEF CountersBounded
  <2>3. hs[f].sync_counter \in Nat
    BY DEF HandoffState
  <2> HIDE DEF IInv, TypeOK
  <2> QED
    BY <1>2, <1>3, <1>4, <2>1, <2>2, <2>3
<1>6. Successor(largest) = largest + 1
  <2>1. largest + 1 <= 1 + Budget["request"]
    BY <1>2, <1>3, <1>4, <1>5
  <2>2. largest + 1 # SyncModulus
    BY <1>3, <1>4, <2>1, HandoffAssumption DEF NoOverflow
  <2> QED
    BY <2>2 DEF Successor
<1>7. hs' = [hs EXCEPT ![d] = new]
  BY <1>6 DEF RequestMasterRoleNegotiated, largest, new
<1>8. /\ new \in HandoffState
      /\ new.sync_counter = largest + 1
      /\ new.largest_sync_counter = largest /\ new.target = NoDevice
  <2>1. largest + 1 \in Nat
    BY <1>3
  <2>2. new \in HandoffState
    BY <1>3, <2>1 DEF HandoffState, new
  <2>3. new.sync_counter = largest + 1 /\ new.target = NoDevice
    BY <1>3 DEF HandoffState, new
  <2>4. new.largest_sync_counter = largest
    BY <1>3 DEF HandoffState, new, largest
  <2> QED
    BY <2>2, <2>3, <2>4
<1>9. /\ hs' \in [Device -> HandoffState]
      /\ hs'[d] = new
      /\ \A e \in Device \ {d} : hs'[e] = hs[e]
  BY <1>7, <1>8
<1>10. \A e \in Device : hs[e].sync_counter \in Nat /\ hs'[e].sync_counter \in Nat
  BY <1>9 DEF HandoffState
<1>11. hs[d].sync_counter <= largest + 1
  BY DEF CountersHeard, largest
<1>12. \A e \in Device : hs'[e].sync_counter >= hs[e].sync_counter
  <2> TAKE e \in Device
  <2>1. CASE e = d
    BY <1>8, <1>9, <1>11, <2>1
  <2>2. CASE e # d
    BY <1>9, <1>10, <2>2
  <2> QED
    BY <2>1, <2>2
<1>13. CountersHeard'
  <2> SUFFICES ASSUME NEW e \in Device
               PROVE  /\ \E f \in Device :
                            hs'[e].largest_sync_counter <= hs'[f].sync_counter
                      /\ hs'[e].sync_counter <= hs'[e].largest_sync_counter + 1
    BY DEF CountersHeard
  <2>1. hs'[e].largest_sync_counter = hs[e].largest_sync_counter
    BY <1>8, <1>9 DEF largest
  <2>2. PICK f \in Device : hs[e].largest_sync_counter <= hs[f].sync_counter
    BY DEF CountersHeard
  <2>3. hs[e].largest_sync_counter \in Nat
    BY DEF HandoffState
  <2>4. hs'[e].largest_sync_counter <= hs'[f].sync_counter
    BY <1>10, <1>12, <2>1, <2>2, <2>3
  <2>5. hs'[e].sync_counter <= hs'[e].largest_sync_counter + 1
    <3>1. CASE e = d
      BY <1>3, <1>8, <1>9, <3>1
    <3>2. CASE e # d
      BY <1>9, <3>2 DEF CountersHeard
    <3> QED
      BY <3>1, <3>2
  <2> QED
    BY <2>4, <2>5
<1>14. CountersBounded'
  <2> SUFFICES ASSUME NEW e \in Device
               PROVE  hs'[e].sync_counter + left'["request"] <= 1 + Budget["request"]
    BY DEF CountersBounded
  <2>1. CASE e = d
    BY <1>2, <1>3, <1>4, <1>5, <1>8, <1>9, <2>1
  <2>2. CASE e # d
    <3>1. hs[e].sync_counter + left["request"] <= 1 + Budget["request"]
      BY DEF CountersBounded
    <3> QED
      BY <1>2, <1>4, <1>9, <1>10, <2>2, <3>1
  <2> QED
    BY <2>1, <2>2
<1>15. TargetsAbove'
  <2> SUFFICES ASSUME NEW e \in Device, NEW f \in Device, Offers(e, f)'
               PROVE  hs'[e].sync_counter < hs'[f].sync_counter
    BY DEF TargetsAbove
  <2>1. e # d
    BY <1>8, <1>9, NoDeviceAssumption DEF Offers
  <2>2. Offers(e, f) /\ hs'[e] = hs[e]
    BY <1>9, <2>1 DEF Offers
  <2>3. hs[e].sync_counter < hs[f].sync_counter
    BY <2>2 DEF TargetsAbove
  <2>4. hs'[f].sync_counter >= hs[f].sync_counter
    BY <1>12
  <2> QED
    BY <1>10, <2>2, <2>3, <2>4
<1>16. PacketsHonest'
  <2> SUFFICES ASSUME NEW e \in Device
               PROVE  /\ statusIn'[e] \in Seq(CouldHear(e)')
                      /\ task'[e].pc # "idle" => task'[e].status \in CouldHear(e)'
                      /\ task'[e].pc = "accept" => task'[e].status.master_hand_off = e
    BY DEF PacketsHonest, CouldHear
  <2>1. /\ CouldHear(e) \subseteq CouldHear(e)'
        /\ Seq(CouldHear(e)) \subseteq Seq(CouldHear(e)')
    BY <1>9, <1>12, HonestStays
  <2> QED
    BY <1>1, <2>1 DEF PacketsHonest
<1>17. TypeOK'
  BY <1>1, <1>2, <1>9
<1> QED
  BY <1>12, <1>13, <1>14, <1>15, <1>16, <1>17, Parts

\* The setting of set_auto_negotiate is not a counter.
LEMMA AutoKeeps ==
    ASSUME IInv, NEW d \in Device, SetAutoNegotiate(d)
    PROVE  IInv' /\ \A e \in Device : hs'[e].sync_counter = hs[e].sync_counter
<1> USE DEF IInv, TypeOK
<1> DEFINE new == [hs[d] EXCEPT !.auto_negotiate = ~hs[d].auto_negotiate]
<1> HIDE DEF new
<1>1. Calls("auto") /\ UNCHANGED <<tempo, statusIn, beatIn, task, sampled>>
  BY DEF SetAutoNegotiate
<1>2. left' \in [Method -> Nat] /\ left'["request"] = left["request"]
  BY <1>1, CallsLeft DEF Method
<1>3. hs' = [hs EXCEPT ![d] = new]
  BY DEF SetAutoNegotiate, new
<1>4. hs[d] \in HandoffState
  OBVIOUS
<1>5. /\ new \in HandoffState
      /\ new.sync_counter = hs[d].sync_counter
      /\ new.largest_sync_counter = hs[d].largest_sync_counter
      /\ new.phase = hs[d].phase /\ new.target = hs[d].target
  BY <1>4 DEF HandoffState, new
<1>6. /\ hs' \in [Device -> HandoffState]
      /\ hs'[d] = new
      /\ \A e \in Device \ {d} : hs'[e] = hs[e]
  BY <1>3, <1>5
<1>7. HearsOrYields(d)
  <2>1. hs'[d].largest_sync_counter \in Nat
    BY <1>6 DEF HandoffState
  <2> QED
    BY <1>5, <1>6, <2>1 DEF HearsOrYields, Offers
<1>8. /\ CountersHeard' /\ CountersBounded' /\ TargetsAbove'
      /\ \A e \in Device : hs'[e].sync_counter = hs[e].sync_counter
  BY <1>2, <1>6, <1>7, CountersKept
<1>9. PacketsHonest'
  BY <1>1, <1>8, HonestSame DEF PacketsHonest
<1>10. TypeOK'
  BY <1>1, <1>2, <1>6
<1> QED
  BY <1>8, <1>9, <1>10, Parts

\* The broadcast loop reads; its packet carries the counter of the moment.
LEMMA BroadcastKeeps ==
    ASSUME IInv, NEW d \in Device, BroadcastLoop(d)
    PROVE  IInv'
<1> USE DEF IInv, TypeOK
<1>1. CASE SampleMaster(d)
  <2>1. CountersHeard' /\ CountersBounded' /\ TargetsAbove' /\ PacketsHonest'
    BY <1>1, CountersSame DEF SampleMaster, PacketsHonest
  <2>2. sampled' \in [Device -> {"nothing", "master", "follower"}]
    BY <1>1 DEF SampleMaster
  <2>3. TypeOK'
    BY <1>1, <2>2 DEF SampleMaster
  <2> QED
    BY <2>1, <2>3, Parts
<1>2. CASE SendStatus(d)
  <2>1. PICK we \in BOOLEAN : statusIn' \in Broadcasts(statusIn, d, BuiltStatus(d, we))
    <3>1. tempo[d].we_are_master \in BOOLEAN
      BY DEF MasterState
    <3> QED
      BY <1>2, <3>1 DEF SendStatus
  <2>2. UNCHANGED <<tempo, hs, beatIn, task, left>>
    BY <1>2 DEF SendStatus
  <2>3. CountersHeard' /\ CountersBounded' /\ TargetsAbove'
    BY <2>2, CountersSame
  <2>4. \A e \in Device : CouldHear(e)' = CouldHear(e)
    BY <2>2, CountersSame
  <2>5. BuiltStatus(d, we) \in Status
    BY DEF BuiltStatus, Status, HandoffState
  <2> DEFINE kind == [r \in Device |-> CouldHear(r)]
             m == BuiltStatus(d, we)
  <2>6. \A r \in Receivers(d) : m \in kind[r]
    <3> SUFFICES ASSUME NEW r \in Receivers(d) PROVE m \in CouldHear(r)
      BY DEF Receivers
    <3>1. m.device_number = d /\ m.sync_number = hs[d].sync_counter
      BY DEF BuiltStatus
    <3>2. hs[d].sync_counter \in Nat
      BY DEF HandoffState
    <3>3. ASSUME m.master_hand_off \in Device
          PROVE  hs[d].sync_counter < hs[m.master_hand_off].sync_counter
      <4>1. Offers(d, m.master_hand_off)
        BY DEF BuiltStatus, Offers
      <4> QED
        BY <3>3, <4>1 DEF TargetsAbove
    <3> QED
      BY <2>5, <3>1, <3>2, <3>3 DEF CouldHear
  <2>7. /\ statusIn' = [r \in Device |-> statusIn'[r]]
        /\ \A r \in Device : statusIn'[r] \in Seq(kind[r])
    <3>1. \A r \in Device : statusIn[r] \in Seq(kind[r])
      BY DEF PacketsHonest
    <3>2. statusIn = [r \in Device |-> statusIn[r]]
      OBVIOUS
    <3>3. statusIn' \in Broadcasts(statusIn, d, m)
      BY <2>1
    <3> HIDE DEF kind, m
    <3> QED
      BY <2>6, <3>1, <3>2, <3>3, BroadcastsKeep
  <2>8. \A r \in Device : statusIn'[r] \in Seq(CouldHear(r))
    BY <2>7
  <2>9. PacketsHonest'
    BY <2>2, <2>4, <2>8 DEF PacketsHonest
  <2>10. statusIn' \in [Device -> Seq(Status)]
    <3>1. \A r \in Device : statusIn'[r] \in Seq(Status)
      <4> TAKE r \in Device
      <4>1. CouldHear(r) \subseteq Status
        BY DEF CouldHear
      <4> QED
        BY <2>8, <4>1, SeqMonotonic
    <3> QED
      BY <2>7, <3>1
  <2>11. sampled' \in [Device -> {"nothing", "master", "follower"}]
    BY <1>2 DEF SendStatus
  <2>12. TypeOK'
    BY <2>2, <2>10, <2>11
  <2> QED
    BY <2>3, <2>9, <2>12, Parts
<1> QED
  BY <1>1, <1>2 DEF BroadcastLoop

\* A packet taken from the inbox goes to the status task as it came.
LEMMA HandleKeeps ==
    ASSUME IInv, NEW d \in Device, HandleStatus(d)
    PROVE  IInv'
<1> USE DEF IInv, TypeOK
<1> DEFINE status == Head(statusIn[d])
           pc == IF status.master_hand_off = d THEN "accept" ELSE "counters"
           now == [pc |-> pc, status |-> status]
<1> HIDE DEF status, pc, now
<1>1. UNCHANGED <<hs, beatIn, sampled, left>>
  BY DEF HandleStatus
<1>2. CountersHeard' /\ CountersBounded' /\ TargetsAbove'
  BY <1>1, CountersSame
<1>3. \A e \in Device : CouldHear(e)' = CouldHear(e)
  BY <1>1, CountersSame
<1>4. status \in CouldHear(d) /\ Tail(statusIn[d]) \in Seq(CouldHear(d))
  BY Taken DEF HandleStatus, PacketsHonest, status
<1>5. CouldHear(d) \subseteq Status
  BY DEF CouldHear
<1>6. status \in Status /\ status.device_number \in Device
  BY <1>4, <1>5 DEF Status
<1>7. statusIn' = [statusIn EXCEPT ![d] = Tail(@)]
  BY DEF HandleStatus
<1>8. task' = [task EXCEPT ![d] = now]
  BY DEF HandleStatus, status, pc, now
<1>9. /\ now \in TaskState /\ now.status = status
      /\ now.pc = "accept" => status.master_hand_off = d
  BY <1>6 DEF TaskState, now, pc
<1>10. statusIn' \in [Device -> Seq(Status)]
  BY <1>4, <1>5, <1>7, SeqMonotonic
<1>11. task' \in [Device -> TaskState]
  BY <1>8, <1>9
<1>12. tempo' \in [Device -> MasterState]
  <2>1. OnDeviceIsMasterState(d, status.device_number, NoTempo) \in MasterState
    BY <1>6 DEF OnDeviceIsMasterState, MasterState, NoTempo
  <2> QED
    BY <2>1 DEF HandleStatus, status
<1>13. PacketsHonest'
  <2> SUFFICES ASSUME NEW e \in Device
               PROVE  /\ statusIn'[e] \in Seq(CouldHear(e))
                      /\ task'[e].pc # "idle" => task'[e].status \in CouldHear(e)
                      /\ task'[e].pc = "accept" => task'[e].status.master_hand_off = e
    BY <1>3 DEF PacketsHonest
  <2>1. CASE e = d
    BY <1>4, <1>7, <1>8, <1>9, <2>1
  <2>2. CASE e # d
    BY <1>7, <1>8, <2>2 DEF PacketsHonest
  <2> QED
    BY <2>1, <2>2
<1>14. TypeOK'
  BY <1>1, <1>10, <1>11, <1>12
<1> QED
  BY <1>2, <1>13, <1>14, Parts

\* Going back to phase Idle, as an accept and a resignation do.
LEMMA IdleHears ==
    ASSUME IInv, NEW d \in Device,
           hs' = [hs EXCEPT ![d].phase = "Idle", ![d].target = NoDevice]
    PROVE  hs' \in [Device -> HandoffState] /\ HearsOrYields(d)
<1> USE DEF IInv, TypeOK
<1> DEFINE new == [hs[d] EXCEPT !.phase = "Idle", !.target = NoDevice]
<1> HIDE DEF new
<1>1. hs' = [hs EXCEPT ![d] = new]
  BY DEF new
<1>2. hs[d] \in HandoffState /\ hs[d].largest_sync_counter \in Nat
  BY DEF HandoffState
<1>3. new \in HandoffState
  BY <1>2 DEF HandoffState, new
<1>4. /\ new.sync_counter = hs[d].sync_counter
      /\ new.largest_sync_counter = hs[d].largest_sync_counter
      /\ new.target = NoDevice
  BY <1>2 DEF HandoffState, new
<1>5. /\ hs' \in [Device -> HandoffState]
      /\ hs'[d] = new
      /\ \A e \in Device \ {d} : hs'[e] = hs[e]
  BY <1>1, <1>3
<1>6. HearsOrYields(d)
  BY <1>2, <1>4, <1>5, NoDeviceAssumption DEF HearsOrYields, Offers
<1> QED
  BY <1>5, <1>6

\* An accept touches no counter and keeps the packet for TrackCounters.
LEMMA AcceptKeeps ==
    ASSUME IInv, NEW d \in Device, AcceptYield(d)
    PROVE  IInv' /\ \A e \in Device : hs'[e].sync_counter = hs[e].sync_counter
<1> USE DEF IInv, TypeOK
<1>1. UNCHANGED <<statusIn, sampled, left>> /\ task[d].pc = "accept"
  BY DEF AcceptYield
<1>2. /\ hs' \in [Device -> HandoffState]
      /\ CountersHeard' /\ CountersBounded' /\ TargetsAbove'
      /\ \A e \in Device : hs'[e].sync_counter = hs[e].sync_counter
  <2>1. CASE hs' = hs
    BY <1>1, <2>1, CountersSame
  <2>2. CASE hs' = [hs EXCEPT ![d].phase = "Idle", ![d].target = NoDevice]
    BY <1>1, <2>2, IdleHears, CountersKept
  <2> QED
    BY <2>1, <2>2 DEF AcceptYield
<1>3. task[d].status \in Status
  BY <1>1 DEF TaskState
<1> DEFINE now == [task[d] EXCEPT !.pc = "counters"]
<1> HIDE DEF now
<1>4. task' = [task EXCEPT ![d] = now]
  BY DEF AcceptYield, now
<1>5. now \in TaskState /\ now.status = task[d].status /\ now.pc = "counters"
  BY <1>1 DEF TaskState, now
<1>6. task' \in [Device -> TaskState]
  BY <1>4, <1>5
<1>7. beatIn' \in [Device -> Seq(Device)]
  BY CommandsType DEF AcceptYield
<1>8. tempo' \in [Device -> MasterState]
  BY TempoTypes DEF AcceptYield
<1>9. PacketsHonest'
  <2> SUFFICES ASSUME NEW e \in Device
               PROVE  /\ statusIn'[e] \in Seq(CouldHear(e))
                      /\ task'[e].pc # "idle" => task'[e].status \in CouldHear(e)
                      /\ task'[e].pc = "accept" => task'[e].status.master_hand_off = e
    BY <1>2, HonestSame DEF PacketsHonest
  <2>1. /\ task'[e].pc # "idle" => task[e].pc # "idle" /\ task'[e].status = task[e].status
        /\ task'[e].pc = "accept" => task[e].pc = "accept"
    BY <1>1, <1>4, <1>5
  <2> QED
    BY <1>1, <2>1 DEF PacketsHonest
<1>10. TypeOK'
  BY <1>1, <1>2, <1>6, <1>7, <1>8
<1> QED
  BY <1>2, <1>9, <1>10, Parts

\* A tracked counter was reached by its sender, and a yield goes to a sender whose
\* counter is above ours.
LEMMA TrackKeeps ==
    ASSUME IInv, NEW d \in Device, TrackCounters(d)
    PROVE  IInv' /\ \A e \in Device : hs'[e].sync_counter = hs[e].sync_counter
<1> USE DEF IInv, TypeOK
<1> DEFINE status == task[d].status
           sender == status.device_number
           yields == AutoYields(d, status)
           largest == HigherOf(status.sync_number, hs[d].largest_sync_counter)
           new == [hs[d] EXCEPT !.largest_sync_counter = largest,
                                !.phase  = IF yields THEN "Yielding" ELSE hs[d].phase,
                                !.target = IF yields THEN sender ELSE hs[d].target]
<1> HIDE DEF status, sender, yields, largest, new
<1>1. /\ UNCHANGED <<tempo, statusIn, beatIn, sampled, left>>
      /\ task' = [task EXCEPT ![d] = Idle]
      /\ task[d].pc = "counters"
  BY DEF TrackCounters
<1>2. hs' = [hs EXCEPT ![d] = new]
  BY DEF TrackCounters, status, sender, yields, largest, new
<1>3. status \in CouldHear(d)
  BY <1>1 DEF PacketsHonest, status
<1>4. /\ sender \in Device /\ status.sync_number \in Nat
      /\ status.sync_number <= hs[sender].sync_counter
  BY <1>3 DEF CouldHear, Status, sender
<1>5. /\ hs[d] \in HandoffState
      /\ hs[d].sync_counter \in Nat /\ hs[d].largest_sync_counter \in Nat
      /\ hs[sender].sync_counter \in Nat
  BY <1>4 DEF HandoffState
<1>6. /\ largest \in Nat /\ largest >= hs[d].largest_sync_counter
      /\ largest \in {status.sync_number, hs[d].largest_sync_counter}
  BY <1>4, <1>5 DEF HigherOf, largest
<1>7. yields \in BOOLEAN
  BY DEF yields, AutoYields
<1>8. new \in HandoffState
  <2>1. CASE yields
    BY <1>4, <1>5, <1>6, <2>1 DEF HandoffState, new
  <2>2. CASE ~yields
    BY <1>5, <1>6, <2>2 DEF HandoffState, new
  <2> QED
    BY <2>1, <2>2
<1>9. /\ new.sync_counter = hs[d].sync_counter
      /\ new.largest_sync_counter = largest
      /\ yields => new.target = sender
      /\ ~yields => new.phase = hs[d].phase /\ new.target = hs[d].target
  BY <1>5 DEF HandoffState, new
<1>10. /\ hs' \in [Device -> HandoffState]
       /\ hs'[d] = new
       /\ \A e \in Device \ {d} : hs'[e] = hs[e]
  BY <1>2, <1>8
<1>11. yields => hs[d].sync_counter < hs[sender].sync_counter
  <2>1. yields => status.sync_number > hs[d].sync_counter
    BY DEF yields, AutoYields
  <2> QED
    BY <1>4, <1>5, <2>1
<1>12. HearsOrYields(d)
  <2>1. \/ new.largest_sync_counter = hs[d].largest_sync_counter
        \/ \E e \in Device : new.largest_sync_counter <= hs[e].sync_counter
    BY <1>4, <1>6, <1>9
  <2>2. ASSUME NEW e \in Device, Offers(d, e)'
        PROVE  Offers(d, e) \/ hs[d].sync_counter < hs[e].sync_counter
    <3>1. CASE yields
      <4>1. e = sender
        BY <1>9, <1>10, <2>2, <3>1 DEF Offers
      <4> QED
        BY <1>11, <3>1, <4>1
    <3>2. CASE ~yields
      BY <1>9, <1>10, <2>2, <3>2 DEF Offers
    <3> QED
      BY <3>1, <3>2
  <2> QED
    BY <1>6, <1>9, <1>10, <2>1, <2>2 DEF HearsOrYields
<1>13. /\ CountersHeard' /\ CountersBounded' /\ TargetsAbove'
       /\ \A e \in Device : hs'[e].sync_counter = hs[e].sync_counter
  BY <1>1, <1>10, <1>12, CountersKept
<1>14. PacketsHonest'
  <2> SUFFICES ASSUME NEW e \in Device
               PROVE  /\ statusIn'[e] \in Seq(CouldHear(e))
                      /\ task'[e].pc # "idle" => task'[e].status \in CouldHear(e)
                      /\ task'[e].pc = "accept" => task'[e].status.master_hand_off = e
    BY <1>13, HonestSame DEF PacketsHonest
  <2>1. task'[e].pc # "idle" => task'[e] = task[e]
    BY <1>1 DEF Idle
  <2> QED
    BY <1>1, <2>1 DEF PacketsHonest
<1>15. TypeOK'
  BY <1>1, <1>10 DEF Idle, TaskState
<1> QED
  BY <1>13, <1>14, <1>15, Parts

\* A master command at most ends a yield.
LEMMA CommandKeeps ==
    ASSUME IInv, NEW d \in Device, HandleMasterCommand(d)
    PROVE  IInv' /\ \A e \in Device : hs'[e].sync_counter = hs[e].sync_counter
<1> USE DEF IInv, TypeOK
<1>1. UNCHANGED <<statusIn, task, sampled, left>>
  BY DEF HandleMasterCommand
<1>2. /\ hs' \in [Device -> HandoffState]
      /\ CountersHeard' /\ CountersBounded' /\ TargetsAbove'
      /\ \A e \in Device : hs'[e].sync_counter = hs[e].sync_counter
  <2>1. CASE hs' = hs
    BY <1>1, <2>1, CountersSame
  <2>2. CASE hs' = [hs EXCEPT ![d].phase = "Idle", ![d].target = NoDevice]
    BY <1>1, <2>2, IdleHears, CountersKept
  <2> QED
    BY <2>1, <2>2 DEF HandleMasterCommand
<1>3. PacketsHonest'
  BY <1>1, <1>2, HonestSame DEF PacketsHonest
<1>4. beatIn' \in [Device -> Seq(Device)]
  BY Taken DEF HandleMasterCommand
<1>5. tempo' \in [Device -> MasterState]
  <2>1. ResignState(tempo[d]) \in MasterState
    BY TempoTypes
  <2>2. tempo' = tempo \/ tempo' = [tempo EXCEPT ![d] = ResignState(@)]
    BY DEF HandleMasterCommand
  <2> QED
    BY <2>1, <2>2
<1>6. TypeOK'
  BY <1>1, <1>2, <1>4, <1>5
<1> QED
  BY <1>2, <1>3, <1>6, Parts

-----------------------------------------------------------------------------
\* The theorems

\* The inductive invariant holds initially.
LEMMA InitIInv == Init => IInv
<1> SUFFICES ASSUME Init PROVE IInv
  OBVIOUS
<1> USE DEF Init
<1> DEFINE first(d) == [phase                |-> "Idle",
                        target               |-> NoDevice,
                        sync_counter         |-> 1,
                        largest_sync_counter |-> 0,
                        auto_negotiate       |-> d \in AutoDevice]
<1>1. ASSUME NEW d \in Device PROVE first(d) \in HandoffState
  <2> DEFINE auto == d \in AutoDevice
  <2>1. first(d) = [phase |-> "Idle", target |-> NoDevice, sync_counter |-> 1,
                    largest_sync_counter |-> 0, auto_negotiate |-> auto]
    OBVIOUS
  <2>2. auto \in BOOLEAN
    OBVIOUS
  <2> HIDE DEF auto, first
  <2> QED
    BY <2>1, <2>2 DEF HandoffState
<1>2. hs \in [Device -> HandoffState]
  BY <1>1
<1>3. \A d \in Device : /\ hs[d].sync_counter = 1 /\ hs[d].largest_sync_counter = 0
                        /\ hs[d].target = NoDevice
  OBVIOUS
<1>4. Budget \in [Method -> Nat] /\ Budget["request"] \in Nat
  BY HandoffAssumption DEF Method
<1>5. tempo \in [Device -> MasterState]
  BY DEF DefaultState, MasterState, NoTempo
<1>6. TypeOK
  BY <1>2, <1>4, <1>5, EmptySeq DEF TypeOK, Idle, TaskState
<1>7. PacketsHonest
  BY EmptySeq DEF PacketsHonest, Idle
<1> HIDE DEF Init
<1>8. CountersHeard
  <2> SUFFICES ASSUME NEW d \in Device
               PROVE  /\ \E e \in Device :
                            hs[d].largest_sync_counter <= hs[e].sync_counter
                      /\ hs[d].sync_counter <= hs[d].largest_sync_counter + 1
    BY DEF CountersHeard
  <2>1. hs[d].sync_counter = 1 /\ hs[d].largest_sync_counter = 0
    BY <1>3
  <2> QED
    BY <2>1
<1>9. CountersBounded
  <2>1. left["request"] = Budget["request"]
    BY DEF Init
  <2> SUFFICES ASSUME NEW d \in Device
               PROVE  hs[d].sync_counter + left["request"] <= 1 + Budget["request"]
    BY DEF CountersBounded
  <2>2. hs[d].sync_counter = 1
    BY <1>3
  <2> QED
    BY <1>4, <2>1, <2>2
<1>10. TargetsAbove
  BY <1>3, NoDeviceAssumption DEF TargetsAbove, Offers
<1> QED
  BY <1>6, <1>7, <1>8, <1>9, <1>10 DEF IInv

\* Every step keeps it, and none lowers a counter.
LEMMA NextIInv ==
    ASSUME NoOverflow, IInv, [Next]_vars
    PROVE  IInv' /\ \A e \in Device : hs'[e].sync_counter >= hs[e].sync_counter
<1>1. \A e \in Device : hs[e].sync_counter \in Nat
  BY DEF IInv, TypeOK, HandoffState
<1>2. ASSUME hs' = hs
      PROVE  \A e \in Device : hs'[e].sync_counter >= hs[e].sync_counter
  BY <1>1, <1>2
<1>3. CASE UNCHANGED vars
  <2>1. CountersHeard' /\ CountersBounded' /\ TargetsAbove'
    BY <1>3, CountersSame DEF vars
  <2>2. PacketsHonest'
    BY <1>3, CountersSame DEF vars, PacketsHonest, IInv
  <2>3. TypeOK'
    BY <1>3 DEF vars, TypeOK, IInv
  <2> QED
    BY <1>2, <1>3, <2>1, <2>2, <2>3, Parts DEF vars
<1>4. ASSUME NEW d \in Device, Application(d)
      PROVE  IInv' /\ \A e \in Device : hs'[e].sync_counter >= hs[e].sync_counter
  <2>1. CASE RequestMasterRole(d)
    <3>1. hs' = hs
      BY <2>1 DEF RequestMasterRole
    <3> QED
      BY <1>2, <2>1, <3>1, ClaimKeeps
  <2>2. CASE YieldMasterRole(d)
    <3>1. hs' = hs
      BY <2>2 DEF YieldMasterRole
    <3> QED
      BY <1>2, <2>2, <3>1, YieldKeeps
  <2>3. CASE RequestMasterRoleNegotiated(d)
    BY <2>3, RequestKeeps
  <2>4. CASE SetAutoNegotiate(d)
    BY <1>1, <2>4, AutoKeeps
  <2> QED
    BY <1>4, <2>1, <2>2, <2>3, <2>4 DEF Application
<1>5. ASSUME NEW d \in Device, BroadcastLoop(d)
      PROVE  IInv' /\ \A e \in Device : hs'[e].sync_counter >= hs[e].sync_counter
  <2>1. hs' = hs
    BY <1>5 DEF BroadcastLoop, SampleMaster, SendStatus
  <2> QED
    BY <1>2, <1>5, <2>1, BroadcastKeeps
<1>6. ASSUME NEW d \in Device, StatusTask(d)
      PROVE  IInv' /\ \A e \in Device : hs'[e].sync_counter >= hs[e].sync_counter
  <2>1. CASE HandleStatus(d)
    <3>1. hs' = hs
      BY <2>1 DEF HandleStatus
    <3> QED
      BY <1>2, <2>1, <3>1, HandleKeeps
  <2>2. CASE AcceptYield(d)
    BY <1>1, <2>2, AcceptKeeps
  <2>3. CASE TrackCounters(d)
    BY <1>1, <2>3, TrackKeeps
  <2> QED
    BY <1>6, <2>1, <2>2, <2>3 DEF StatusTask
<1>7. ASSUME NEW d \in Device, HandleMasterCommand(d)
      PROVE  IInv' /\ \A e \in Device : hs'[e].sync_counter >= hs[e].sync_counter
  BY <1>1, <1>7, CommandKeeps
<1> QED
  BY <1>3, <1>4, <1>5, <1>6, <1>7 DEF Next

\* Every reachable state satisfies the invariant.
LEMMA Invariant ==
    ASSUME NoOverflow
    PROVE  Spec => []IInv
<1>1. IInv /\ [Next]_vars => IInv'
  BY NextIInv
<1> QED
  BY <1>1, InitIInv, PTL DEF Spec

\* Every variable keeps its type.
THEOREM HandoffTypeOK ==
    ASSUME NoOverflow
    PROVE  Spec => []TypeOK
<1>1. IInv => TypeOK
  BY DEF IInv
<1> QED
  BY <1>1, Invariant, PTL

\* The largest counter heard was reached by some device, and a device's own counter
\* is at most one above it, whatever is lost, delayed or looped back.
THEOREM HandoffCountersHeard ==
    ASSUME NoOverflow
    PROVE  Spec => []CountersHeard
<1>1. IInv => CountersHeard
  BY DEF IInv
<1> QED
  BY <1>1, Invariant, PTL

\* A device yields only to one whose counter is above its own.
THEOREM HandoffYieldsUpward ==
    ASSUME NoOverflow
    PROVE  Spec => []YieldsUpward
<1>1. IInv => YieldsUpward
  BY DEF IInv, TargetsAbove, Offers, YieldsUpward, YieldsTo
<1> QED
  BY <1>1, Invariant, PTL

\* No step lowers a sync counter.
THEOREM HandoffSyncMonotone ==
    ASSUME NoOverflow
    PROVE  Spec => SyncMonotone
<1>1. IInv /\ [Next]_vars
        => [\A d \in Device : hs'[d].sync_counter >= hs[d].sync_counter]_vars
  BY NextIInv
<1> QED
  BY <1>1, Invariant, PTL DEF Spec, SyncMonotone

\* A device takes the role only from one whose counter was below its own now, on any
\* runtime, with and without loop-back, and whatever was requested in between.
THEOREM HandoffAcceptsUpward ==
    ASSUME NoOverflow
    PROVE  Spec => []AcceptsUpward
<1>1. IInv => AcceptsUpward
  <2> SUFFICES ASSUME IInv, NEW d \in Device, task[d].pc = "accept"
               PROVE  task[d].status.sync_number < hs[d].sync_counter
    BY DEF AcceptsUpward
  <2>1. task[d].status \in CouldHear(d) /\ task[d].status.master_hand_off = d
    BY DEF IInv, PacketsHonest
  <2> QED
    BY <2>1 DEF CouldHear
<1> QED
  BY <1>1, Invariant, PTL

-----------------------------------------------------------------------------
(***************************************************************************)
(* MasterRole itself, of which the negotiation is one implementation: for  *)
(* any claim, holders and offers that change as it says, the role is never *)
(* dropped, and two devices hold it only during a handoff.                 *)
(***************************************************************************)
VARIABLES claimed, holders, offer

Abstract == INSTANCE MasterRole

\* The role is unclaimed, or with one device, or being handed over by d to e.
Unclaimed == ~claimed /\ holders = {} /\ Abstract!NoOffer
With(d)   == claimed /\ holders = {d} /\ Abstract!NoOffer

Handing(d, e) ==
    /\ claimed /\ d # e
    /\ offer = [x \in Device |-> IF x = d THEN e ELSE NoDevice]
    /\ holders = {d} \/ holders = {d, e} \/ holders = {e}

RoleShape ==
    /\ claimed \in BOOLEAN
    /\ offer \in [Device -> Device \union {NoDevice}]
    /\ \/ Unclaimed
       \/ \E d \in Device : With(d)
       \/ \E d, e \in Device : Handing(d, e)

LEMMA ShapeInit == Abstract!Init => RoleShape
BY DEF Abstract!Init, RoleShape, Unclaimed, Abstract!NoOffer

\* While d hands the role to e, nobody else offers it.
LEMMA OneOffers ==
    ASSUME NoDevice \notin Device, NEW d \in Device, NEW e \in Device, Handing(d, e),
           NEW x \in Device, offer[x] # NoDevice
    PROVE  x = d /\ offer[x] = e
BY DEF Handing

LEMMA ShapeNext ==
    ASSUME NoDevice \notin Device, RoleShape, [Abstract!Next]_(Abstract!vars)
    PROVE  RoleShape'
<1> USE DEF RoleShape
<1>1. CASE UNCHANGED Abstract!vars
  BY <1>1 DEF Abstract!vars, Unclaimed, With, Handing, Abstract!NoOffer
<1>2. ASSUME NEW d \in Device, Abstract!Claim(d)
      PROVE  RoleShape'
  <2>1. Unclaimed
    BY <1>2 DEF Abstract!Claim, With, Handing
  <2>2. With(d)'
    BY <1>2, <2>1 DEF Abstract!Claim, Unclaimed, With, Abstract!NoOffer
  <2> QED
    BY <1>2, <2>2 DEF Abstract!Claim
<1>3. ASSUME NEW d \in Device, Abstract!GiveUp(d)
      PROVE  RoleShape'
  <2>1. offer[d] # NoDevice
    BY <1>3 DEF Abstract!GiveUp, Unclaimed, With, Handing
  <2>2. PICK a \in Device, e \in Device : Handing(a, e)
    BY <1>3, <2>1 DEF Unclaimed, With, Abstract!NoOffer
  <2>3. a = d /\ offer[d] = e
    BY <2>1, <2>2, OneOffers
  <2>4. claimed' /\ holders' = {e}
    BY <1>3, <2>2, <2>3 DEF Abstract!GiveUp, Handing
  <2>5. CASE offer' = offer
    BY <2>2, <2>3, <2>4, <2>5 DEF Handing
  <2>6. CASE offer' = [offer EXCEPT ![d] = NoDevice]
    <3>1. offer' \in [Device -> Device \union {NoDevice}] /\ Abstract!NoOffer'
      BY <2>2, <2>3, <2>6 DEF Handing, Abstract!NoOffer
    <3> QED
      BY <2>4, <3>1 DEF With
  <2> QED
    BY <1>3, <2>5, <2>6 DEF Abstract!GiveUp
<1>4. ASSUME NEW d \in Device, Abstract!EndOffer(d)
      PROVE  RoleShape'
  <2>1. offer[d] # NoDevice
    BY <1>4 DEF Abstract!EndOffer, Unclaimed, With, Handing
  <2>2. PICK a \in Device, e \in Device : Handing(a, e)
    BY <1>4, <2>1 DEF Unclaimed, With, Abstract!NoOffer
  <2>3. a = d /\ offer[d] = e
    BY <2>1, <2>2, OneOffers
  <2>4. claimed' /\ holders' = {e}
    BY <1>4, <2>2, <2>3 DEF Abstract!EndOffer, Handing
  <2>5. offer' \in [Device -> Device \union {NoDevice}] /\ Abstract!NoOffer'
    BY <1>4, <2>2, <2>3 DEF Abstract!EndOffer, Handing, Abstract!NoOffer
  <2> QED
    BY <2>4, <2>5 DEF With
<1>5. ASSUME NEW d \in Device, NEW e \in Device, Abstract!Offer(d, e)
      PROVE  RoleShape'
  <2>1. claimed
    BY <1>5 DEF Abstract!Offer, Unclaimed, With, Handing
  <2>2. offer' = [x \in Device |-> IF x = d THEN e ELSE NoDevice]
    BY <1>5 DEF Abstract!Offer, Abstract!NoOffer
  <2>3. Handing(d, e)'
    BY <1>5, <2>1, <2>2 DEF Abstract!Offer, Handing
  <2> QED
    BY <1>5, <2>2, <2>3 DEF Abstract!Offer
<1>6. ASSUME NEW d \in Device, NEW e \in Device, Abstract!Accept(d, e)
      PROVE  RoleShape'
  <2>1. offer[d] # NoDevice
    BY <1>6 DEF Abstract!Accept
  <2>2. PICK a \in Device, b \in Device : Handing(a, b)
    BY <1>6, <2>1 DEF Abstract!Accept, Unclaimed, With, Abstract!NoOffer
  <2>3. a = d /\ b = e
    BY <1>6, <2>1, <2>2, OneOffers DEF Abstract!Accept
  <2>4. holders = {d}
    BY <1>6, <2>2, <2>3 DEF Abstract!Accept, Handing
  <2>5. Handing(d, e)' /\ claimed' \in BOOLEAN
    BY <1>6, <2>2, <2>3, <2>4 DEF Abstract!Accept, Handing
  <2> QED
    BY <1>6, <2>5 DEF Abstract!Accept
<1> QED
  BY <1>1, <1>2, <1>3, <1>4, <1>5, <1>6 DEF Abstract!Next

\* Only devices hold the role and offer it.
THEOREM RoleTypeOK ==
    ASSUME NoDevice \notin Device
    PROVE  Abstract!Steps => []Abstract!TypeOK
<1>1. Abstract!Init => RoleShape
  BY ShapeInit
<1>2. RoleShape /\ [Abstract!Next]_(Abstract!vars) => RoleShape'
  BY ShapeNext
<1>3. RoleShape => Abstract!TypeOK
  <2>1. Unclaimed \/ (\E d \in Device : With(d)) => holders \subseteq Device
    BY DEF Unclaimed, With
  <2>2. (\E d, e \in Device : Handing(d, e)) => holders \subseteq Device
    BY DEF Handing
  <2> QED
    BY <2>1, <2>2 DEF RoleShape, Abstract!TypeOK
<1> QED
  BY <1>1, <1>2, <1>3, PTL DEF Abstract!Steps

\* Once claimed, the role is never dropped, whoever offers it, accepts it and gives it up
\* (HandoffPhase: "We keep advertising master=true until the target confirms").
THEOREM RoleIsKept ==
    ASSUME NoDevice \notin Device
    PROVE  Abstract!Steps => []Abstract!RoleKept
<1>1. Abstract!Init => RoleShape
  BY ShapeInit
<1>2. RoleShape /\ [Abstract!Next]_(Abstract!vars) => RoleShape'
  BY ShapeNext
<1>3. RoleShape => Abstract!RoleKept
  BY DEF RoleShape, Abstract!RoleKept, Unclaimed, With, Handing
<1> QED
  BY <1>1, <1>2, <1>3, PTL DEF Abstract!Steps

\* Two devices hold the role only while one of them hands it to the other.
THEOREM RoleOverlapsOnlyInHandoff ==
    ASSUME NoDevice \notin Device
    PROVE  Abstract!Steps => []Abstract!OverlapOnlyInHandoff
<1>1. Abstract!Init => RoleShape
  BY ShapeInit
<1>2. RoleShape /\ [Abstract!Next]_(Abstract!vars) => RoleShape'
  BY ShapeNext
<1>3. RoleShape => Abstract!OverlapOnlyInHandoff
  BY DEF RoleShape, Abstract!OverlapOnlyInHandoff, Unclaimed, With, Handing
<1> QED
  BY <1>1, <1>2, <1>3, PTL DEF Abstract!Steps
=============================================================================
