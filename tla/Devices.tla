------------------------------ MODULE Devices ------------------------------
(***************************************************************************)
(* The device finder (network/finder.rs) and one subscriber of its events. *)
(*                                                                         *)
(* Devices announce themselves every 1.5 s.  The receive loop looks at the *)
(* ignore list, then waits for the write lock of the map; the ageing task, *)
(* flush_devices and snapshots take the same lock, and events are sent     *)
(* under it.  Time is counted in half seconds; the tasks of the finder are *)
(* ready long before the next one.                                         *)
(***************************************************************************)
EXTENDS Integers, Sequences, SequencesExt, FiniteSets

CONSTANTS
    Source,         \* the devices of the network, identified by their address
    OpusQuad,       \* those of them that are Opus Quads
    NumberOf,       \* the number each announces
    OpusPlayer,     \* the players an Opus Quad stands for, 1..4 in the source
    Capacity,       \* of the broadcast channel, 256 in the source
    MaxDelay,       \* bound: half seconds a keep-alive is under way at most
    MaxMissed,      \* bound: keep-alives of a device lost in a row
    MaxCalls,       \* bound: calls of the application, departures and failures
    None

KeepAliveInterval == 3
DeviceExpiry      == 9
AgingInterval     == 2
MaxAge            == DeviceExpiry + AgingInterval + 1

Number == {NumberOf[s] : s \in Source \ OpusQuad} \union OpusPlayer

ASSUME DevicesAssumption ==
    /\ OpusQuad \subseteq Source /\ {None, "ended"} \intersect Source = {}
    /\ None \notin 0..MaxDelay /\ None # "ended"
    /\ IsFiniteSet(Source) /\ IsFiniteSet(OpusPlayer)
    /\ NumberOf \in [Source -> Nat] /\ OpusPlayer \subseteq Nat
    /\ Capacity \in Nat \ {0}
    /\ MaxDelay \in Nat /\ MaxMissed \in Nat /\ MaxCalls \in Nat

VARIABLES
    devices,    \* the map: the device last announced under each number
    age,        \* how long ago that was (last_seen)
    ignored,    \* ignored_addresses
    recv,       \* the keep-alive the receive loop has let through, or "ended"
    aging,      \* time to the next tick of the ageing task
    host,       \* the devices themselves: on or off, time to their next keep-alive
    net,        \* the keep-alives under way and for how long
    sub,        \* the subscriber: its queue, and its picture of the map
    known,      \* devices the finder has had no reason to lose since it heard them
    calls       \* how many calls, departures and failures are left

vars == <<devices, age, ignored, recv, aging, host, net, sub, known, calls>>

Host  == [on : BOOLEAN, due : 0..KeepAliveInterval, missed : 0..MaxMissed]
Event == [kind : {"DeviceFound", "DeviceUpdated", "DeviceLost"},
          number : Number, device : Source]
Subscriber == [pc : {"off", "subscribed", "mirroring"}, queue : Seq(Event),
               lagged : BOOLEAN, picture : [Number -> Source \union {None}]]

TypeOK ==
    /\ devices \in [Number -> Source \union {None}]
    /\ age \in [Number -> 0..MaxAge]
    /\ ignored \subseteq Source
    /\ recv \in Source \union {None, "ended"}
    /\ aging \in 0..AgingInterval
    /\ host \in [Source -> Host]
    /\ net \in [Source -> 0..MaxDelay \union {None}]
    /\ sub \in Subscriber /\ Len(sub.queue) <= Capacity
    /\ known \subseteq Source /\ calls \in 0..MaxCalls

Init ==
    /\ devices = [n \in Number |-> None] /\ age = [n \in Number |-> 0]
    /\ ignored = {} /\ recv = None /\ aging = 0
    /\ host = [s \in Source |-> [on |-> FALSE, due |-> 0, missed |-> 0]]
    /\ net = [s \in Source |-> None]
    /\ sub = [pc |-> "off", queue |-> <<>>, lagged |-> FALSE,
              picture |-> [n \in Number |-> None]]
    /\ known = {} /\ calls = MaxCalls

-----------------------------------------------------------------------------
\* What the network does.

Join(s) ==
    /\ ~host[s].on
    /\ host' = [host EXCEPT ![s] = [on |-> TRUE, due |-> 0, missed |-> 0]]
    /\ UNCHANGED <<devices, age, ignored, recv, aging, net, sub, known, calls>>

Leave(s) ==
    /\ host[s].on
    /\ calls > 0 /\ calls' = calls - 1
    /\ host' = [host EXCEPT ![s] = [on |-> FALSE, due |-> 0, missed |-> 0]]
    /\ known' = known \ {s}
    /\ UNCHANGED <<devices, age, ignored, recv, aging, net, sub>>

\* A device broadcasts a keep-alive; it is lost if the one before was not.
Announce(s) ==
    /\ host[s].on /\ host[s].due = 0 /\ net[s] = None
    /\ \/ /\ net' = [net EXCEPT ![s] = IF recv = "ended" THEN None ELSE 0]
          /\ host' = [host EXCEPT ![s].due = KeepAliveInterval, ![s].missed = 0]
       \/ /\ host[s].missed < MaxMissed
          /\ host' = [host EXCEPT ![s].due = KeepAliveInterval, ![s].missed = @ + 1]
          /\ net' = net
    /\ UNCHANGED <<devices, age, ignored, recv, aging, sub, known, calls>>

\* Half a second goes by when every task has done what it could.  (A subscriber
\* that is slower falls behind by more events, not by other ones.)
Tick ==
    /\ aging > 0 /\ recv \in {None, "ended"}
    /\ sub.pc # "subscribed" /\ sub.queue = <<>> /\ ~sub.lagged
    /\ \A s \in Source : host[s].on => host[s].due > 0
    /\ \A s \in Source : net[s] # MaxDelay
    /\ aging' = aging - 1
    /\ host' = [s \in Source |-> [host[s] EXCEPT !.due = IF host[s].on THEN @ - 1 ELSE 0]]
    /\ net' = [s \in Source |-> IF net[s] \in 0..(MaxDelay - 1) THEN net[s] + 1 ELSE net[s]]
    /\ age' = [n \in Number |-> IF devices[n] = None \/ age[n] = MaxAge
                                THEN age[n] ELSE age[n] + 1]
    /\ UNCHANGED <<devices, ignored, recv, sub, known, calls>>

-----------------------------------------------------------------------------
\* event_tx.send: a subscriber that is Capacity events behind loses the oldest.
Sent(events) ==
    IF sub.pc = "off" THEN sub
    ELSE LET all == sub.queue \o events
             cut == Len(all) - Capacity
         IN  [sub EXCEPT !.queue = IF cut > 0 THEN SubSeq(all, cut + 1, Len(all)) ELSE all,
                         !.lagged = @ \/ cut > 0]

\* expand_opus_quad_announcement: the numbers a keep-alive is entered under.
Expanded(s) == IF s \in OpusQuad THEN OpusPlayer ELSE {NumberOf[s]}

\* Fault: the ignore list is not looked at.
ReceiveAll(s) ==
    /\ recv = None /\ net[s] # None
    /\ net' = [net EXCEPT ![s] = None] /\ recv' = s
    /\ UNCHANGED <<devices, age, ignored, aging, host, sub, known, calls>>

\* recv_from, and the look at the ignore list.
Receive(s) ==
    /\ recv = None /\ net[s] # None
    /\ net' = [net EXCEPT ![s] = None]
    /\ recv' = IF s \in ignored THEN None ELSE s
    /\ UNCHANGED <<devices, age, ignored, aging, host, sub, known, calls>>

Entered(s) ==
    SetToSeq({[kind   |-> IF devices[n] = None THEN "DeviceFound" ELSE "DeviceUpdated",
               number |-> n, device |-> s] : n \in Expanded(s)})

\* Under the write lock: the entries of the announcement and their events.
Insert ==
    /\ recv \in Source
    /\ devices' = [n \in Number |-> IF n \in Expanded(recv) THEN recv ELSE devices[n]]
    /\ age' = [n \in Number |-> IF n \in Expanded(recv) THEN 0 ELSE age[n]]
    /\ sub' = Sent(Entered(recv))
    /\ known' = IF host[recv].on /\ recv \notin ignored THEN known \union {recv} ELSE known
    /\ recv' = None
    /\ UNCHANGED <<ignored, aging, host, net, calls>>

\* recv_from fails: the loop ends and says nothing.
SocketFails ==
    /\ recv = None /\ calls > 0 /\ calls' = calls - 1
    /\ recv' = "ended" /\ known' = {}
    /\ net' = [s \in Source |-> None]
    /\ UNCHANGED <<devices, age, ignored, aging, host, sub>>

-----------------------------------------------------------------------------
\* Fault: the ageing task removes one device per tick.
OneExpired == LET all == {n \in Number : devices[n] # None /\ age[n] > DeviceExpiry}
              IN  IF all = {} THEN {} ELSE {CHOOSE n \in all : TRUE}

\* Fault: the deadline is that of one missed keep-alive interval.
ExpiredEarly == {n \in Number : devices[n] # None /\ age[n] > KeepAliveInterval}

Expired == {n \in Number : devices[n] # None /\ age[n] > DeviceExpiry}

LostEvents(numbers) ==
    SetToSeq({[kind |-> "DeviceLost", number |-> n, device |-> devices[n]] : n \in numbers})

Without(numbers) == [n \in Number |-> IF n \in numbers THEN None ELSE devices[n]]

\* One tick of the ageing task.
Age ==
    /\ aging = 0 /\ aging' = AgingInterval
    /\ devices' = Without(Expired)
    /\ age' = [n \in Number |-> IF n \in Expired THEN 0 ELSE age[n]]
    /\ sub' = Sent(LostEvents(Expired))
    /\ UNCHANGED <<ignored, recv, host, net, known, calls>>

\* Fault: the map is emptied without telling anyone.
SilentFlush ==
    /\ calls > 0 /\ calls' = calls - 1
    /\ devices' = Without(Number) /\ age' = [n \in Number |-> 0]
    /\ known' = {}
    /\ UNCHANGED <<ignored, recv, aging, host, net, sub>>

FlushDevices ==
    /\ calls > 0 /\ calls' = calls - 1
    /\ devices' = Without(Number) /\ age' = [n \in Number |-> 0]
    /\ sub' = Sent(LostEvents({n \in Number : devices[n] # None}))
    /\ known' = {}
    /\ UNCHANGED <<ignored, recv, aging, host, net>>

AddIgnoredAddress(s) ==
    /\ calls > 0 /\ calls' = calls - 1
    /\ ignored' = ignored \union {s} /\ known' = known \ {s}
    /\ UNCHANGED <<devices, age, recv, aging, host, net, sub>>

RemoveIgnoredAddress(s) ==
    /\ s \in ignored
    /\ ignored' = ignored \ {s}
    /\ UNCHANGED <<devices, age, recv, aging, host, net, sub, known, calls>>

-----------------------------------------------------------------------------
\* A subscriber that keeps a picture of the map: it subscribes, then takes a
\* snapshot, and takes another one when it learns that it lagged.

Subscribe ==
    /\ sub.pc = "off"
    /\ sub' = [sub EXCEPT !.pc = "subscribed"]
    /\ UNCHANGED <<devices, age, ignored, recv, aging, host, net, known, calls>>

Snapshot ==
    /\ sub.pc = "subscribed" \/ sub.lagged
    /\ sub' = [sub EXCEPT !.pc = "mirroring", !.lagged = FALSE, !.picture = devices]
    /\ UNCHANGED <<devices, age, ignored, recv, aging, host, net, known, calls>>

Follow ==
    /\ sub.pc = "mirroring" /\ sub.queue # <<>>
    /\ LET e == Head(sub.queue)
       IN  sub' = [sub EXCEPT !.queue = Tail(@),
                     !.picture[e.number] = IF e.kind = "DeviceLost" THEN None ELSE e.device]
    /\ UNCHANGED <<devices, age, ignored, recv, aging, host, net, known, calls>>

-----------------------------------------------------------------------------
Network == \E s \in Source : Join(s) \/ Leave(s) \/ Announce(s)
Finder  == Insert \/ SocketFails \/ Age \/ \E s \in Source : Receive(s)
App     == \/ FlushDevices \/ Subscribe \/ Snapshot \/ Follow
           \/ \E s \in Source : AddIgnoredAddress(s) \/ RemoveIgnoredAddress(s)

Next == Network \/ Finder \/ App \/ Tick

\* Tokio runs the finder's tasks and the subscriber's; time goes by.
Fairness == /\ WF_vars(Tick) /\ WF_vars(Age) /\ WF_vars(Insert)
            /\ WF_vars(Snapshot) /\ WF_vars(Follow)
            /\ \A s \in Source : WF_vars(Receive(s)) /\ WF_vars(Announce(s))

Spec == Init /\ [][Next]_vars /\ Fairness

-----------------------------------------------------------------------------
\* A subscriber that has read all its events, and has not been told that it
\* lagged, sees the map as it is: found, updated and lost devices are announced
\* in the order in which they are entered and removed.
PictureMatchesMap ==
    sub.pc = "mirroring" /\ sub.queue = <<>> /\ ~sub.lagged => sub.picture = devices

\* A device that keeps announcing itself stays in the map although a keep-alive
\* is lost now and then: DEVICE_EXPIRY outlasts the gap.
HeardDevicesStay ==
    \A s \in known : \A n \in Expanded(s) : devices[n] # None

\* No entry outlives DEVICE_EXPIRY by more than one interval of the ageing task,
\* also when the receive loop has ended: that is how its end shows.
GoneInTime ==
    \A n \in Number : devices[n] # None => age[n] <= DeviceExpiry + AgingInterval

\* The map holds the devices that were heard of lately, and no others.
MapFollowsNetwork == HeardDevicesStay /\ GoneInTime

\* An address that stays ignored leaves the map, although adding it removes
\* nothing and a keep-alive may have passed the list before.
IgnoredGo ==
    \A s \in Source : (s \in ignored) ~> (s \notin ignored \/ \A n \in Number : devices[n] # s)
=============================================================================
