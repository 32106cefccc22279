------------------------------ MODULE Handoff ------------------------------
(***************************************************************************)
(* The master handoff negotiation between virtual CDJs                     *)
(* (network/virtual_cdj.rs): every device of the network runs a VirtualCdj *)
(* with its status broadcast loop on.                                      *)
(*                                                                         *)
(* A device hears the others on two UDP ports.  Status packets arrive on   *)
(* one, master commands on the other; each port has a task of its own, so  *)
(* packets of one port stay in order and packets of different ports do     *)
(* not.  The status task handles a packet in up to three steps, one per    *)
(* acquisition of the `handoff` mutex, and other tasks of the device run   *)
(* in between.  The broadcast loop reads the watched master state before   *)
(* it takes the mutex to read the handoff phase; on a current-thread       *)
(* runtime nothing runs in between.                                        *)
(*                                                                         *)
(* The methods of TempoMaster are taken as atomic here (TempoTracker looks *)
(* inside them), and every tempo is NoTempo.                               *)
(***************************************************************************)
EXTENDS TempoMaster, Sequences

CONSTANTS
    AutoDevice,   \* the devices on which set_auto_negotiate(true) was called
    LoopBack,     \* TRUE: a device receives its own broadcasts
    OneThread,    \* TRUE: current-thread runtimes; FALSE: multi-threaded
    Lossy,        \* TRUE: a datagram may miss any of its receivers
    Eager,        \* TRUE: the role may also be requested by the master itself,
                  \* and by a device that has not heard every counter yet
    Budget,       \* per method, how often the applications call it
    InboxCap,     \* bound: datagrams waiting at one port of one device
    SyncModulus   \* 2^32 in the source: the counters are u32

Method == {"force", "yield", "request", "auto"}

ASSUME HandoffAssumption ==
    /\ AutoDevice \subseteq Device
    /\ LoopBack \in BOOLEAN /\ OneThread \in BOOLEAN
    /\ Lossy \in BOOLEAN /\ Eager \in BOOLEAN
    /\ Budget \in [Method -> Nat]
    /\ InboxCap \in Nat \ {0}
    /\ SyncModulus \in Nat \ {0, 1}

VARIABLES
    tempo,      \* per device: its TempoMaster
    hs,         \* per device: its HandoffState
    statusIn,   \* per device: status packets waiting, oldest first
    beatIn,     \* per device: senders of the master commands waiting
    task,       \* per device: where its status task is, and with which packet
    sampled,    \* per device: what its broadcast loop read of the master state
    left        \* calls the applications may still make

vars == <<tempo, hs, statusIn, beatIn, task, sampled, left>>

-----------------------------------------------------------------------------

\* HandoffState.  target is NoDevice unless the phase is "Yielding".
HandoffState == [phase                : {"Idle", "Requesting", "Yielding"},
                 target               : Device \union {NoDevice},
                 sync_counter         : Nat,
                 largest_sync_counter : Nat,
                 auto_negotiate       : BOOLEAN]

\* The fields of a CdjStatus that process_cdj_status reads.
Status == [device_number   : Device,
           is_master       : BOOLEAN,
           master_hand_off : Device \union {NoDevice},
           sync_number     : Nat]

NoStatus == [device_number |-> NoDevice]

\* The status task: waiting, or about to lock the mutex for a status packet.
TaskState == [pc : {"idle"}, status : {NoStatus}]
               \union [pc : {"accept", "counters"}, status : Status]

TypeOK ==
    /\ tempo \in [Device -> MasterState]
    /\ hs \in [Device -> HandoffState]
    /\ statusIn \in [Device -> Seq(Status)]
    /\ beatIn \in [Device -> Seq(Device)]
    /\ task \in [Device -> TaskState]
    /\ sampled \in [Device -> {"nothing", "master", "follower"}]
    /\ left \in [Method -> Nat]

Idle == [pc |-> "idle", status |-> NoStatus]

Init ==
    /\ tempo = [d \in Device |-> DefaultState]
    /\ hs = [d \in Device |-> [phase                |-> "Idle",
                               target               |-> NoDevice,
                               sync_counter         |-> 1,
                               largest_sync_counter |-> 0,
                               auto_negotiate       |-> d \in AutoDevice]]
    /\ statusIn = [d \in Device |-> <<>>]
    /\ beatIn = [d \in Device |-> <<>>]
    /\ task = [d \in Device |-> Idle]
    /\ sampled = [d \in Device |-> "nothing"]
    /\ left = Budget

-----------------------------------------------------------------------------
\* The network

Receivers(d) == IF LoopBack THEN Device ELSE Device \ {d}

WithRoom(inbox) == {r \in Device : Len(inbox[r]) < InboxCap}

\* The inboxes after d broadcasts m.  Without loss a broadcast waits until all
\* its receivers have room; with loss it reaches any of those that have.
Broadcasts(inbox, d, m) ==
    LET Reaching(got) == [r \in Device |-> IF r \in got THEN Append(inbox[r], m)
                                                        ELSE inbox[r]]
    IN  IF Lossy
        THEN {Reaching(got) : got \in SUBSET (Receivers(d) \intersect WithRoom(inbox))}
        ELSE {Reaching(got) : got \in {Receivers(d)} \intersect SUBSET WithRoom(inbox)}

-----------------------------------------------------------------------------
\* Calls of the application

Calls(method) == /\ left[method] > 0
                 /\ left' = [left EXCEPT ![method] = @ - 1]

\* request_master_role: the force claim.
RequestMasterRole(d) ==
    /\ Calls("force")
    /\ beatIn' \in Broadcasts(beatIn, d, d)
    /\ tempo' = [tempo EXCEPT ![d] = SetWeAreMasterState(d, NoTempo)]
    /\ UNCHANGED <<hs, statusIn, task, sampled>>

\* yield_master_role.
YieldMasterRole(d) ==
    /\ Calls("yield")
    /\ tempo[d].we_are_master
    /\ tempo' = [tempo EXCEPT ![d] = ResignState(@)]
    /\ UNCHANGED <<hs, statusIn, beatIn, task, sampled>>

\* n + 1 as a u32.
Successor(n) == IF n + 1 = SyncModulus THEN 0 ELSE n + 1

\* Fault: the request does not raise the counter, or raises our own.
RequestForgetsToRaise(d) ==
    /\ Calls("request")
    /\ hs' = [hs EXCEPT ![d].sync_counter = hs[d].largest_sync_counter,
                        ![d].phase = "Requesting",
                        ![d].target = NoDevice]
    /\ UNCHANGED <<tempo, statusIn, beatIn, task, sampled>>

RequestRaisesOwn(d) ==
    /\ Calls("request")
    /\ hs' = [hs EXCEPT ![d].sync_counter = Successor(@),
                        ![d].phase = "Requesting",
                        ![d].target = NoDevice]
    /\ UNCHANGED <<tempo, statusIn, beatIn, task, sampled>>

\* Fault: a device that requests while it is yielding goes on offering the role.
RequestKeepsTarget(d) ==
    /\ Calls("request")
    /\ hs' = [hs EXCEPT ![d].sync_counter = Successor(hs[d].largest_sync_counter),
                        ![d].phase = "Requesting"]
    /\ UNCHANGED <<tempo, statusIn, beatIn, task, sampled>>

\* request_master_role_negotiated.  An application that is not eager calls it
\* only while its device is not the master and once it has heard the counter of
\* every other one.
RequestMasterRoleNegotiated(d) ==
    /\ Calls("request")
    /\ \/ Eager
       \/ /\ ~tempo[d].we_are_master
          /\ \A e \in Device \ {d} : hs[e].sync_counter <= hs[d].largest_sync_counter
    /\ hs' = [hs EXCEPT ![d].sync_counter = Successor(hs[d].largest_sync_counter),
                        ![d].phase = "Requesting",
                        ![d].target = NoDevice]
    /\ UNCHANGED <<tempo, statusIn, beatIn, task, sampled>>

\* set_auto_negotiate.
SetAutoNegotiate(d) ==
    /\ Calls("auto")
    /\ hs' = [hs EXCEPT ![d].auto_negotiate = ~@]
    /\ UNCHANGED <<tempo, statusIn, beatIn, task, sampled>>

-----------------------------------------------------------------------------
\* The status broadcast loop

\* The loop clones the watched master state ...
SampleMaster(d) ==
    /\ ~OneThread
    /\ sampled[d] = "nothing"
    /\ sampled' = [sampled EXCEPT ![d] = IF tempo[d].we_are_master THEN "master"
                                                                   ELSE "follower"]
    /\ UNCHANGED <<tempo, hs, statusIn, beatIn, task, left>>

\* Fault: the absent hand-off byte is read as device 0.
BuiltStatusNoneIsZero(d, we) ==
    [device_number   |-> d,
     is_master       |-> we \/ hs[d].phase = "Yielding",
     master_hand_off |-> IF hs[d].phase = "Yielding" THEN hs[d].target ELSE 0,
     sync_number     |-> hs[d].sync_counter]

\* ... then locks the handoff state, builds the packet and sends it.
BuiltStatus(d, we) ==
    [device_number   |-> d,
     is_master       |-> we \/ hs[d].phase = "Yielding",
     master_hand_off |-> hs[d].target,
     sync_number     |-> hs[d].sync_counter]

SendStatus(d) ==
    /\ \/ /\ OneThread
          /\ statusIn' \in Broadcasts(statusIn, d, BuiltStatus(d, tempo[d].we_are_master))
       \/ /\ sampled[d] # "nothing"
          /\ statusIn' \in Broadcasts(statusIn, d, BuiltStatus(d, sampled[d] = "master"))
    /\ sampled' = [sampled EXCEPT ![d] = "nothing"]
    /\ UNCHANGED <<tempo, hs, beatIn, task, left>>

-----------------------------------------------------------------------------
\* process_cdj_status, in the status task

\* The master flag is followed before the mutex is touched.
HandleStatus(d) ==
    /\ task[d] = Idle
    /\ statusIn[d] # <<>>
    /\ LET status == Head(statusIn[d])
       IN  /\ tempo' = IF status.is_master
                       THEN [tempo EXCEPT ![d] =
                               OnDeviceIsMasterState(d, status.device_number, NoTempo)]
                       ELSE tempo
           /\ task' = [task EXCEPT ![d] =
                         [pc     |-> IF status.master_hand_off = d THEN "accept"
                                                                   ELSE "counters",
                          status |-> status]]
    /\ statusIn' = [statusIn EXCEPT ![d] = Tail(@)]
    /\ UNCHANGED <<hs, beatIn, sampled, left>>

\* Fault: the accept does not send its command, or does not take the role.
AcceptForgetsCommand(d) ==
    /\ task[d].pc = "accept"
    /\ IF hs[d].auto_negotiate
       THEN /\ tempo' = [tempo EXCEPT ![d] = SetWeAreMasterState(d, NoTempo)]
            /\ hs' = [hs EXCEPT ![d].phase = "Idle", ![d].target = NoDevice]
       ELSE UNCHANGED <<tempo, hs>>
    /\ task' = [task EXCEPT ![d].pc = "counters"]
    /\ UNCHANGED <<statusIn, beatIn, sampled, left>>

AcceptForgetsRole(d) ==
    /\ task[d].pc = "accept"
    /\ IF hs[d].auto_negotiate
       THEN /\ beatIn' \in Broadcasts(beatIn, d, d)
            /\ hs' = [hs EXCEPT ![d].phase = "Idle", ![d].target = NoDevice]
       ELSE UNCHANGED <<hs, beatIn>>
    /\ task' = [task EXCEPT ![d].pc = "counters"]
    /\ UNCHANGED <<tempo, statusIn, sampled, left>>

\* The current master yields to us: send the master command, take the role.
AcceptYield(d) ==
    /\ task[d].pc = "accept"
    /\ IF hs[d].auto_negotiate
       THEN /\ beatIn' \in Broadcasts(beatIn, d, d)
            /\ tempo' = [tempo EXCEPT ![d] = SetWeAreMasterState(d, NoTempo)]
            /\ hs' = [hs EXCEPT ![d].phase = "Idle", ![d].target = NoDevice]
       ELSE UNCHANGED <<tempo, hs, beatIn>>
    /\ task' = [task EXCEPT ![d].pc = "counters"]
    /\ UNCHANGED <<statusIn, sampled, left>>

\* Fault: >= for >.
AutoYieldsToEqual(d, status) ==
    /\ hs[d].auto_negotiate
    /\ tempo[d].we_are_master
    /\ status.device_number # d
    /\ status.sync_number >= hs[d].sync_counter
    /\ hs[d].phase # "Yielding"

\* Another device's counter passed ours while we are the master.
AutoYields(d, status) ==
    /\ hs[d].auto_negotiate
    /\ tempo[d].we_are_master
    /\ status.device_number # d
    /\ status.sync_number > hs[d].sync_counter
    /\ hs[d].phase # "Yielding"

HigherOf(m, n) == IF m > n THEN m ELSE n

\* Fault: the yielding master resigns at once.
TrackCountersResigns(d) ==
    /\ task[d].pc = "counters"
    /\ LET status == task[d].status
           yields == AutoYields(d, status)
       IN  /\ hs' = [hs EXCEPT
                       ![d].largest_sync_counter = HigherOf(status.sync_number, @),
                       ![d].phase  = IF yields THEN "Yielding" ELSE @,
                       ![d].target = IF yields THEN status.device_number ELSE @]
           /\ tempo' = [tempo EXCEPT ![d] = IF yields THEN ResignState(@) ELSE @]
    /\ task' = [task EXCEPT ![d] = Idle]
    /\ UNCHANGED <<statusIn, beatIn, sampled, left>>

TrackCounters(d) ==
    /\ task[d].pc = "counters"
    /\ LET status == task[d].status
           yields == AutoYields(d, status)
       IN  hs' = [hs EXCEPT
                    ![d].largest_sync_counter = HigherOf(status.sync_number, @),
                    ![d].phase  = IF yields THEN "Yielding" ELSE @,
                    ![d].target = IF yields THEN status.device_number ELSE @]
    /\ task' = [task EXCEPT ![d] = Idle]
    /\ UNCHANGED <<tempo, statusIn, beatIn, sampled, left>>

-----------------------------------------------------------------------------
\* process_master_handoff, in the handoff task

YieldsTo(d, e) == hs[d].phase = "Yielding" /\ hs[d].target = e

\* Fault: the confirmed handoff is forgotten without resigning.
HandleCommandKeepsRole(d) ==
    /\ beatIn[d] # <<>>
    /\ hs' = IF YieldsTo(d, Head(beatIn[d]))
             THEN [hs EXCEPT ![d].phase = "Idle", ![d].target = NoDevice]
             ELSE hs
    /\ beatIn' = [beatIn EXCEPT ![d] = Tail(@)]
    /\ UNCHANGED <<tempo, statusIn, task, sampled, left>>

HandleMasterCommand(d) ==
    /\ beatIn[d] # <<>>
    /\ IF YieldsTo(d, Head(beatIn[d]))
       THEN /\ tempo' = [tempo EXCEPT ![d] = ResignState(@)]
            /\ hs' = [hs EXCEPT ![d].phase = "Idle", ![d].target = NoDevice]
       ELSE UNCHANGED <<tempo, hs>>
    /\ beatIn' = [beatIn EXCEPT ![d] = Tail(@)]
    /\ UNCHANGED <<statusIn, task, sampled, left>>

-----------------------------------------------------------------------------

Application(d) == \/ RequestMasterRole(d)
                  \/ YieldMasterRole(d)
                  \/ RequestMasterRoleNegotiated(d)
                  \/ SetAutoNegotiate(d)

BroadcastLoop(d) == SampleMaster(d) \/ SendStatus(d)

StatusTask(d) == HandleStatus(d) \/ AcceptYield(d) \/ TrackCounters(d)

Next == \E d \in Device : \/ Application(d)
                          \/ BroadcastLoop(d)
                          \/ StatusTask(d)
                          \/ HandleMasterCommand(d)

Spec == Init /\ [][Next]_vars

\* The tasks of a device keep running, and a datagram that is broadcast again
\* and again reaches every receiver some time.  Sending is strongly fair only
\* because a full inbox, which the program does not have, disables it.
Reaches(inbox, e) == Len(inbox'[e]) > Len(inbox[e])

Fairness ==
    \A d \in Device :
        /\ WF_vars(SampleMaster(d))
        /\ SF_vars(SendStatus(d))
        /\ \A e \in Device \ {d} : SF_vars(SendStatus(d) /\ Reaches(statusIn, e))
        /\ WF_vars(HandleStatus(d))
        /\ SF_vars(AcceptYield(d))
        /\ \A e \in Device \ {d} : SF_vars(AcceptYield(d) /\ Reaches(beatIn, e))
        /\ WF_vars(TrackCounters(d))
        /\ WF_vars(HandleMasterCommand(d))

FairSpec == Spec /\ Fairness

-----------------------------------------------------------------------------
Masters == {d \in Device : tempo[d].we_are_master}

\* The largest counter a device has heard is one that a device really reached,
\* and its own is never more than one above it: nobody can run away with the
\* counters, however packets are delayed or lost (process_cdj_status,
\* request_master_role_negotiated).
CountersHeard ==
    \A d \in Device :
        /\ \E e \in Device : hs[d].largest_sync_counter <= hs[e].sync_counter
        /\ hs[d].sync_counter <= hs[d].largest_sync_counter + 1

\* A device only ever yields to another device whose own sync counter is above
\* its own at this very moment, however old the packet it decided on.
YieldsUpward ==
    \A d, e \in Device :
        YieldsTo(d, e) => hs[d].sync_counter < hs[e].sync_counter

\* A sync counter never goes down: a request computes it from the counters heard,
\* not from its own (request_master_role_negotiated).
SyncMonotone ==
    [][\A d \in Device : hs'[d].sync_counter >= hs[d].sync_counter]_vars

\* A device takes the role only from one whose counter, when it made the offer, was
\* below its own now: however long the offer was on its way and whatever the devices
\* have asked for since, nobody is handed a role it did not request
\* (process_cdj_status).
AcceptsUpward ==
    \A d \in Device :
        task[d].pc = "accept" => task[d].status.sync_number < hs[d].sync_counter

\* A device stops yielding only when its target has taken the role, or is handling
\* the packet that gives it the role again: the command it resigns on answers
\* this very offer (process_master_handoff).
ResignsToNewMaster ==
    [][\A d, e \in Device :
        YieldsTo(d, e) /\ ~YieldsTo(d, e)'
            => tempo[e].we_are_master \/ task[e].pc = "accept"]_vars

\* A device that requests the role while there is a master ends up as the one
\* and only master, for good, whatever packets are lost on the way.
HandoffSettles ==
    \A d \in Device :
        hs[d].phase = "Requesting" /\ Masters # {} ~> [](Masters = {d})
=============================================================================
