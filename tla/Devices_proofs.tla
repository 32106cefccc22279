--------------------------- MODULE Devices_proofs ---------------------------
(***************************************************************************)
(* Proofs about Devices, for any network, capacity of the channel, delay   *)
(* and number of calls: its types; that a subscriber's picture of the map  *)
(* is right once its events are read; that no entry outlives its expiry;   *)
(* and that a device that announces itself stays, as long as the delays    *)
(* and losses fit into the expiry.                                         *)
(***************************************************************************)
EXTENDS Devices, SequenceTheorems, FiniteSetTheorems, TLAPS

-----------------------------------------------------------------------------
(* Events of a set, in any order *)

\* SetToSeq lists a finite set: each of its elements once.
LEMMA Listed ==
    ASSUME NEW S, IsFiniteSet(S)
    PROVE  /\ SetToSeq(S) \in Seq(S)
           /\ \A x \in S : \E i \in 1..Len(SetToSeq(S)) : SetToSeq(S)[i] = x
<1> DEFINE D == 1..Cardinality(S)
<1>1. Cardinality(S) \in Nat /\ ExistsBijection(D, S)
    BY FS_CardinalityType
<1>2. PICK g \in Bijection(D, S) : TRUE
    BY <1>1 DEF ExistsBijection
<1>3. g \in [D -> S] /\ IsInjective(g)
    BY <1>2 DEF Bijection, Injection, IsInjective
<1>4. SetToSeq(S) \in [D -> S] /\ IsInjective(SetToSeq(S))
    BY <1>3 DEF SetToSeq
<1> DEFINE f == SetToSeq(S)
<1>5. f \in Injection(D, S)
    BY <1>4 DEF Injection, IsInjective
<1>6. IsFiniteSet(D) /\ Cardinality(D) = Cardinality(S)
    BY <1>1, FS_Interval
<1>7. f \in Surjection(D, S)
    BY <1>5, <1>6, FS_Injection
<1>8. f \in Seq(S) /\ Len(f) = Cardinality(S)
    BY <1>1, <1>4
<1> QED
    BY <1>7, <1>8 DEF Surjection

\* The image of a finite set is finite.
LEMMA FiniteImage ==
    ASSUME NEW T, IsFiniteSet(T), NEW f
    PROVE  IsFiniteSet({f[x] : x \in T})
<1> DEFINE S == {f[x] : x \in T}
           g == [x \in T |-> f[x]]
<1>1. g \in Surjection(T, S)
    BY DEF Surjection
<1> QED
    BY <1>1, FS_Surjection

LEMMA FiniteNumbers == IsFiniteSet(Number)
<1>1. IsFiniteSet(Source \ OpusQuad)
    BY DevicesAssumption, FS_Subset
<1>2. IsFiniteSet({NumberOf[s] : s \in Source \ OpusQuad})
    BY <1>1, FiniteImage
<1> QED
    BY <1>2, DevicesAssumption, FS_Union DEF Number

LEMMA ExpandedNumbers ==
    ASSUME NEW s \in Source
    PROVE  Expanded(s) \subseteq Number
BY DEF Expanded, Number

-----------------------------------------------------------------------------
(* Events of one change of the map *)

\* What an event says about its number.
Says(e) == IF e.kind = "DeviceLost" THEN None ELSE e.device

\* The events tell how the map becomes new: one about each number that changes.
Tell(events, new) ==
    /\ events \subseteq Event
    /\ \A e \in events : Says(e) = new[e.number]
    /\ \A n \in Number : (\A e \in events : e.number # n) => new[n] = devices[n]

EnteredEvent(s, n) == [kind   |-> IF devices[n] = None THEN "DeviceFound" ELSE "DeviceUpdated",
                       number |-> n, device |-> s]

LostEvent(n) == [kind |-> "DeviceLost", number |-> n, device |-> devices[n]]

LEMMA EnteredTells ==
    ASSUME NEW s \in Source
    PROVE  LET events == {EnteredEvent(s, n) : n \in Expanded(s)}
           IN  /\ Entered(s) = SetToSeq(events) /\ IsFiniteSet(events)
               /\ Tell(events, [n \in Number |-> IF n \in Expanded(s) THEN s ELSE devices[n]])
<1> DEFINE f == [n \in Expanded(s) |-> EnteredEvent(s, n)]
           events == {EnteredEvent(s, n) : n \in Expanded(s)}
<1>1. Expanded(s) \subseteq Number /\ IsFiniteSet(Expanded(s))
    BY ExpandedNumbers, FiniteNumbers, FS_Subset
<1>2. events = {f[n] : n \in Expanded(s)}
    OBVIOUS
<1>3. IsFiniteSet(events)
    <2> HIDE DEF events, f
    <2> QED
        BY <1>1, <1>2, FiniteImage
<1>4. Tell(events, [n \in Number |-> IF n \in Expanded(s) THEN s ELSE devices[n]])
    <2> DEFINE new == [n \in Number |-> IF n \in Expanded(s) THEN s ELSE devices[n]]
    <2>1. ASSUME NEW n \in Expanded(s)
          PROVE  /\ EnteredEvent(s, n) \in Event /\ EnteredEvent(s, n).number = n
                 /\ Says(EnteredEvent(s, n)) = s /\ new[n] = s
        BY <1>1 DEF EnteredEvent, Event, Says
    <2>2. \A n \in Number : n \notin Expanded(s) => new[n] = devices[n]
        OBVIOUS
    <2>3. ASSUME NEW e \in events PROVE e \in Event /\ Says(e) = new[e.number]
        BY <2>1
    <2>4. ASSUME NEW n \in Number, \A e \in events : e.number # n
          PROVE  new[n] = devices[n]
        <3>1. n \notin Expanded(s)
            BY <2>1, <2>4
        <3> QED
            BY <2>2, <3>1
    <2> HIDE DEF new, events
    <2>5. Tell(events, new)
        BY <2>3, <2>4 DEF Tell
    <2> QED
        BY <2>5 DEF new
<1>5. Entered(s) = SetToSeq(events)
    BY DEF Entered, EnteredEvent
<1> QED
    BY <1>3, <1>4, <1>5

LEMMA LostTells ==
    ASSUME TypeOK, NEW numbers \in SUBSET Number, \A n \in numbers : devices[n] # None
    PROVE  LET events == {LostEvent(n) : n \in numbers}
           IN  /\ LostEvents(numbers) = SetToSeq(events) /\ IsFiniteSet(events)
               /\ Tell(events, Without(numbers))
<1> DEFINE f == [n \in numbers |-> LostEvent(n)]
           events == {LostEvent(n) : n \in numbers}
<1>1. IsFiniteSet(numbers)
    BY FiniteNumbers, FS_Subset
<1>2. events = {f[n] : n \in numbers}
    OBVIOUS
<1>3. IsFiniteSet(events)
    <2> HIDE DEF events, f
    <2> QED
        BY <1>1, <1>2, FiniteImage
<1>4. \A n \in numbers : devices[n] \in Source
    BY DEF TypeOK
<1>5. Tell(events, Without(numbers))
    <2>1. ASSUME NEW n \in numbers
          PROVE  /\ LostEvent(n) \in Event /\ LostEvent(n).number = n
                 /\ Says(LostEvent(n)) = None /\ Without(numbers)[n] = None
        BY <1>4 DEF LostEvent, Event, Says, Without
    <2>2. \A n \in Number : n \notin numbers => Without(numbers)[n] = devices[n]
        BY DEF Without
    <2> QED
        BY <2>1, <2>2 DEF Tell
<1>6. LostEvents(numbers) = SetToSeq(events)
    BY DEF LostEvents, LostEvent
<1> QED
    BY <1>3, <1>5, <1>6

-----------------------------------------------------------------------------
(***************************************************************************)
(* The subscriber.  The argument: of the events it has not read, the last  *)
(* about a number tells what the map holds there; what no unread event is  *)
(* about, the picture already has, unless events were lost.                *)
(***************************************************************************)

LastAbout(q, i) == \A j \in (i + 1)..Len(q) : q[j].number # q[i].number

Unmentioned(q, n) == \A i \in 1..Len(q) : q[i].number # n

EndsAt(q, map) ==
    \A i \in 1..Len(q) : LastAbout(q, i) => Says(q[i]) = map[q[i].number]

\* A sequence of the elements of S, each at least once.
Lists(events, S) ==
    events \in Seq(S) /\ \A x \in S : \E i \in 1..Len(events) : events[i] = x

\* Subscriber s, when the map is map.
Follows(s, map) ==
    /\ s.pc = "off" => s.queue = <<>>
    /\ EndsAt(s.queue, map)
    /\ s.pc = "mirroring" /\ ~s.lagged =>
           \A n \in Number : Unmentioned(s.queue, n) => s.picture[n] = map[n]

\* Events that tell of a change, appended to the queue, keep the subscriber following.
LEMMA AppendedFollow ==
    ASSUME NEW q \in Seq(Event), NEW S \in SUBSET Event, NEW events, Lists(events, S),
           NEW new, Tell(S, new)
    PROVE  /\ q \o events \in Seq(Event)
           /\ EndsAt(q, devices) => EndsAt(q \o events, new)
           /\ \A n \in Number : Unmentioned(q \o events, n) =>
                  Unmentioned(q, n) /\ new[n] = devices[n]
<1> DEFINE all == q \o events
<1>1. /\ all \in Seq(Event) /\ Len(all) = Len(q) + Len(events)
      /\ Len(q) \in Nat /\ Len(events) \in Nat
      /\ \A i \in 1..Len(q) : all[i] = q[i] /\ q[i] \in Event
      /\ \A i \in 1..Len(events) : all[Len(q) + i] = events[i] /\ events[i] \in S
    <2>1. events \in Seq(Event)
        BY SeqMonotonic DEF Lists
    <2>2. \A i \in 1..Len(events) : events[i] \in S
        BY ElementOfSeq DEF Lists
    <2> QED
        BY <2>1, <2>2
<1> HIDE DEF all
<1>2. ASSUME NEW e \in S PROVE \E j \in (Len(q) + 1)..Len(all) : all[j] = e
    <2>1. PICK i \in 1..Len(events) : events[i] = e
        BY DEF Lists
    <2>2. Len(q) + i \in (Len(q) + 1)..Len(all) /\ all[Len(q) + i] = e
        BY <1>1, <2>1
    <2> QED
        BY <2>2
<1>3. ASSUME EndsAt(q, devices), NEW i \in 1..Len(all), LastAbout(all, i)
      PROVE  Says(all[i]) = new[all[i].number]
    <2>1. CASE i > Len(q)
        <3>1. i - Len(q) \in 1..Len(events) /\ all[i] = events[i - Len(q)]
            BY <1>1, <2>1
        <3> QED
            BY <1>1, <3>1 DEF Tell
    <2>2. CASE i <= Len(q)
        <3>1. i \in 1..Len(q) /\ all[i] = q[i] /\ q[i] \in Event
            BY <1>1, <2>2
        <3>2. ASSUME NEW j \in (i + 1)..Len(q) PROVE q[j].number # q[i].number
            <4>1. j \in 1..Len(q) /\ j \in (i + 1)..Len(all) /\ all[j] = q[j]
                BY <1>1, <3>1
            <4> QED
                BY <1>3, <3>1, <4>1 DEF LastAbout
        <3>3. ASSUME NEW e \in S PROVE e.number # q[i].number
            <4>1. PICK j \in (Len(q) + 1)..Len(all) : all[j] = e
                BY <1>2
            <4>2. j \in (i + 1)..Len(all)
                BY <1>1, <3>1, <4>1
            <4> QED
                BY <1>3, <3>1, <4>1, <4>2 DEF LastAbout
        <3>4. new[q[i].number] = devices[q[i].number]
            BY <3>1, <3>3 DEF Tell, Event
        <3>5. Says(q[i]) = devices[q[i].number]
            BY <1>3, <3>1, <3>2 DEF LastAbout, EndsAt
        <3> QED
            BY <3>1, <3>4, <3>5
    <2>3. i > Len(q) \/ i <= Len(q)
        BY <1>1
    <2> QED
        BY <2>1, <2>2, <2>3
<1>4. ASSUME NEW n \in Number, Unmentioned(all, n)
      PROVE  Unmentioned(q, n) /\ new[n] = devices[n]
    <2>1. ASSUME NEW i \in 1..Len(q) PROVE q[i].number # n
        <3>1. i \in 1..Len(all) /\ all[i] = q[i]
            BY <1>1
        <3> QED
            BY <1>4, <3>1 DEF Unmentioned
    <2>2. ASSUME NEW e \in S PROVE e.number # n
        <3>1. PICK j \in (Len(q) + 1)..Len(all) : all[j] = e
            BY <1>2
        <3>2. j \in 1..Len(all)
            BY <1>1
        <3> QED
            BY <1>4, <3>1, <3>2 DEF Unmentioned
    <2> QED
        BY <2>1, <2>2 DEF Tell, Unmentioned
<1>5. EndsAt(q, devices) => EndsAt(all, new)
    BY <1>3 DEF EndsAt
<1> QED
    BY <1>1, <1>4, <1>5 DEF all

\* Sending them does, also when the oldest events are lost.
LEMMA SentFollows ==
    ASSUME TypeOK, Follows(sub, devices),
           NEW S \in SUBSET Event, IsFiniteSet(S), NEW new, Tell(S, new)
    PROVE  /\ Sent(SetToSeq(S)) \in Subscriber /\ Len(Sent(SetToSeq(S)).queue) <= Capacity
           /\ Follows(Sent(SetToSeq(S)), new)
<1> DEFINE events == SetToSeq(S)
           all == sub.queue \o events
           cut == Len(all) - Capacity
<1>1. sub \in Subscriber /\ sub.queue \in Seq(Event) /\ Capacity \in Nat \ {0}
    BY DevicesAssumption DEF TypeOK, Subscriber
<1>2. Lists(events, S)
    BY Listed DEF Lists
<1> HIDE DEF events
<1>3. /\ all \in Seq(Event) /\ EndsAt(all, new)
      /\ \A n \in Number : Unmentioned(all, n) =>
             Unmentioned(sub.queue, n) /\ new[n] = devices[n]
    <2>1. EndsAt(sub.queue, devices)
        BY DEF Follows
    <2> QED
        BY <1>1, <1>2, <2>1, AppendedFollow
<1> HIDE DEF all
<1>4. Len(all) \in Nat /\ cut \in Int
    BY <1>1, <1>3
<1> DEFINE kept == IF cut > 0 THEN SubSeq(all, cut + 1, Len(all)) ELSE all
           lags == sub.lagged \/ cut > 0
<1>sent. ASSUME sub.pc # "off"
      PROVE  Sent(events) = [sub EXCEPT !.queue = kept, !.lagged = lags]
    BY <1>sent DEF Sent, all
<1>lags. lags \in BOOLEAN
    OBVIOUS
<1>kept. kept \in Seq(Event) /\ Len(kept) <= Capacity
    BY <1>1, <1>3, <1>4
<1>new. ASSUME sub.pc # "off"
      PROVE  /\ Sent(events) \in Subscriber /\ Sent(events).queue = kept
             /\ Sent(events).pc = sub.pc /\ Sent(events).lagged = lags
             /\ Sent(events).picture = sub.picture
    <2> HIDE DEF kept, lags
    <2> DEFINE queued == [sub EXCEPT !.queue = kept]
    <2>1. Sent(events) = [queued EXCEPT !.lagged = lags]
        BY <1>sent, <1>new
    <2>2. /\ queued \in Subscriber /\ queued.queue = kept
          /\ queued.pc = sub.pc /\ queued.picture = sub.picture
        BY <1>1, <1>kept DEF Subscriber
    <2> HIDE DEF queued
    <2> QED
        BY <1>lags, <2>1, <2>2 DEF Subscriber
<1>5. CASE sub.pc = "off"
    <2>1. sub.queue = <<>> /\ Sent(events) = sub /\ sub.pc # "mirroring"
        BY <1>5 DEF Sent, Follows
    <2>2. Len(sub.queue) = 0 /\ 0 <= Capacity
        BY <1>1, <2>1
    <2>3. Follows(sub, new)
        BY <2>1, <2>2 DEF Follows, EndsAt
    <2> QED
        BY <1>1, <2>1, <2>2, <2>3 DEF events
<1>6. CASE sub.pc # "off" /\ cut <= 0
    <2>1. kept = all /\ lags = sub.lagged
        BY <1>1, <1>4, <1>6 DEF Subscriber
    <2> HIDE DEF kept, lags
    <2>2. Follows(Sent(events), new)
        BY <1>3, <1>6, <1>new, <2>1 DEF Follows
    <2> QED
        BY <1>6, <1>kept, <1>new, <2>2 DEF events
<1>7. CASE sub.pc # "off" /\ cut > 0
    <2>1. lags
        BY <1>7
    <2>2. Len(kept) = Capacity /\ \A i \in 1..Capacity : kept[i] = all[cut + i]
        BY <1>1, <1>3, <1>4, <1>7
    <2> HIDE DEF kept, lags
    <2>3. ASSUME NEW i \in 1..Len(kept), LastAbout(kept, i)
          PROVE  Says(kept[i]) = new[kept[i].number]
        <3>1. cut + i \in 1..Len(all) /\ kept[i] = all[cut + i]
            BY <1>1, <1>4, <1>7, <2>2
        <3>2. ASSUME NEW j \in (cut + i + 1)..Len(all) PROVE all[j].number # all[cut + i].number
            <4>1. j - cut \in (i + 1)..Len(kept) /\ kept[j - cut] = all[j]
                BY <1>1, <1>4, <1>7, <2>2
            <4> QED
                BY <2>3, <3>1, <4>1 DEF LastAbout
        <3> QED
            BY <1>3, <3>1, <3>2 DEF LastAbout, EndsAt
    <2>4. Follows(Sent(events), new)
        BY <1>7, <1>new, <2>1, <2>3 DEF Follows, EndsAt
    <2> QED
        BY <1>7, <1>kept, <1>new, <2>4 DEF events
<1> QED
    BY <1>1, <1>4, <1>5, <1>6, <1>7

MirrorInv == TypeOK /\ Follows(sub, devices)

LEMMA MirrorInit == Init => MirrorInv
<1> SUFFICES ASSUME Init PROVE MirrorInv
    OBVIOUS
<1> USE DevicesAssumption
<1>1. sub \in Subscriber /\ Len(sub.queue) <= Capacity
    BY DEF Init, Subscriber
<1>2. host \in [Source -> Host]
    BY DEF Init, Host, KeepAliveInterval
<1>3. TypeOK
    BY <1>1, <1>2 DEF Init, TypeOK, MaxAge, DeviceExpiry, AgingInterval
<1>4. Follows(sub, devices)
    BY DEF Init, Follows, EndsAt
<1> QED
    BY <1>3, <1>4 DEF MirrorInv

\* A change of the map whose events are sent keeps the subscriber following.
LEMMA ChangeFollowed ==
    ASSUME MirrorInv, NEW S, IsFiniteSet(S), Tell(S, devices'), sub' = Sent(SetToSeq(S))
    PROVE  /\ sub' \in Subscriber /\ Len(sub'.queue) <= Capacity
           /\ Follows(sub', devices')
<1>1. S \in SUBSET Event
    BY DEF Tell
<1> QED
    BY <1>1, SentFollows DEF MirrorInv

LEMMA WithoutTyped ==
    ASSUME TypeOK, NEW numbers
    PROVE  Without(numbers) \in [Number -> Source \union {None}]
BY DEF TypeOK, Without

\* What Announce and Tick do to the devices.
LEMMA Announced ==
    ASSUME TypeOK, NEW s \in Source, Announce(s)
    PROVE  /\ host' \in [Source -> Host] /\ \A t \in Source \ {s} : host'[t] = host[t]
           /\ host'[s].on = host[s].on /\ host'[s].due = KeepAliveInterval
           /\ \/ net' = [net EXCEPT ![s] = IF recv = "ended" THEN None ELSE 0]
              \/ net' = net /\ host'[s].missed = host[s].missed + 1 /\ host[s].missed < MaxMissed
<1> DEFINE sent == [host EXCEPT ![s].due = KeepAliveInterval]
<1>1. host \in [Source -> Host] /\ MaxMissed \in Nat
    BY DevicesAssumption DEF TypeOK
<1>2. /\ sent \in [Source -> Host] /\ \A t \in Source \ {s} : sent[t] = host[t]
      /\ sent[s].on = host[s].on /\ sent[s].due = KeepAliveInterval
      /\ sent[s].missed = host[s].missed
    BY <1>1 DEF Host, KeepAliveInterval
<1>3. CASE /\ net' = [net EXCEPT ![s] = IF recv = "ended" THEN None ELSE 0]
           /\ host' = [host EXCEPT ![s].due = KeepAliveInterval, ![s].missed = 0]
    <2>1. host' = [sent EXCEPT ![s].missed = 0]
        BY <1>3
    <2> HIDE DEF sent
    <2>2. /\ host' \in [Source -> Host] /\ \A t \in Source \ {s} : host'[t] = host[t]
          /\ host'[s].on = host[s].on /\ host'[s].due = KeepAliveInterval
        BY <1>1, <1>2, <2>1 DEF Host
    <2> QED
        BY <1>3, <2>2
<1>4. CASE /\ host[s].missed < MaxMissed
           /\ host' = [host EXCEPT ![s].due = KeepAliveInterval, ![s].missed = host[s].missed + 1]
           /\ net' = net
    <2>1. host' = [sent EXCEPT ![s].missed = host[s].missed + 1]
        BY <1>4
    <2> HIDE DEF sent
    <2> QED
        BY <1>1, <1>2, <1>4, <2>1 DEF Host
<1> QED
    BY <1>3, <1>4 DEF Announce

LEMMA Ticked ==
    ASSUME TypeOK, Tick
    PROVE  /\ host' \in [Source -> Host]
           /\ \A s \in Source : host'[s].on = host[s].on
           /\ \A s \in Source : host'[s].missed = host[s].missed
           /\ \A s \in Source : host[s].on => host'[s].due = host[s].due - 1
<1>1. ASSUME NEW s \in Source
      PROVE  /\ host'[s] \in Host
             /\ host'[s].on = host[s].on /\ host'[s].missed = host[s].missed
             /\ host[s].on => host'[s].due = host[s].due - 1
    <2>1. /\ host[s] \in Host /\ (host[s].on => host[s].due > 0)
          /\ host'[s] = [host[s] EXCEPT !.due = IF host[s].on THEN host[s].due - 1 ELSE 0]
        BY DEF Tick, TypeOK
    <2> QED
        BY <2>1 DEF Host, KeepAliveInterval
<1>2. DOMAIN host' = Source /\ host' = [s \in Source |-> host'[s]]
    BY DEF Tick
<1> QED
    BY <1>1, <1>2

LEMMA MirrorNext ==
    ASSUME MirrorInv, [Next]_vars
    PROVE  MirrorInv'
<1> USE DevicesAssumption DEF KeepAliveInterval, DeviceExpiry, AgingInterval, MaxAge
<1>1. TypeOK /\ Follows(sub, devices)
    BY DEF MirrorInv
<1>kept. ASSUME UNCHANGED <<devices, sub>>
         PROVE  Follows(sub, devices)'
    BY <1>1, <1>kept
<1> DEFINE SubOK == sub \in Subscriber /\ Len(sub.queue) <= Capacity
           RestOK == /\ devices \in [Number -> Source \union {None}]
                     /\ age \in [Number -> 0..MaxAge]
                     /\ ignored \subseteq Source
                     /\ recv \in Source \union {None, "ended"}
                     /\ aging \in 0..AgingInterval
                     /\ host \in [Source -> Host]
                     /\ net \in [Source -> 0..MaxDelay \union {None}]
                     /\ known \subseteq Source /\ calls \in 0..MaxCalls
<1>type. (TypeOK <=> SubOK /\ RestOK) /\ (TypeOK' <=> SubOK' /\ RestOK')
    BY DEF TypeOK
<1>2. ASSUME NEW s \in Source, Join(s) PROVE MirrorInv'
    <2>1. TypeOK'
        BY <1>1, <1>2 DEF Join, TypeOK, Host
    <2> QED
        BY <1>2, <1>kept, <2>1 DEF Join, MirrorInv
<1>3. ASSUME NEW s \in Source, Leave(s) PROVE MirrorInv'
    <2>1. TypeOK'
        BY <1>1, <1>3 DEF Leave, TypeOK, Host
    <2> QED
        BY <1>3, <1>kept, <2>1 DEF Leave, MirrorInv
<1>4. ASSUME NEW s \in Source, Announce(s) PROVE MirrorInv'
    <2>1. host' \in [Source -> Host]
        BY <1>1, <1>4, Announced
    <2>2. TypeOK'
        BY <1>1, <1>4, <2>1 DEF Announce, TypeOK
    <2> QED
        BY <1>4, <1>kept, <2>2 DEF Announce, MirrorInv
<1>5. CASE Tick
    <2>1. host' \in [Source -> Host]
        BY <1>1, <1>5, Ticked
    <2>2. net' \in [Source -> 0..MaxDelay \union {None}]
        BY <1>1, <1>5 DEF Tick, TypeOK
    <2>3. age' \in [Number -> 0..MaxAge]
        BY <1>1, <1>5 DEF Tick, TypeOK
    <2>4. TypeOK'
        BY <1>1, <1>5, <2>1, <2>2, <2>3 DEF Tick, TypeOK
    <2> QED
        BY <1>5, <1>kept, <2>4 DEF Tick, MirrorInv
<1>6. ASSUME NEW s \in Source, Receive(s) PROVE MirrorInv'
    <2>1. TypeOK'
        BY <1>1, <1>6 DEF Receive, TypeOK
    <2> QED
        BY <1>6, <1>kept, <2>1 DEF Receive, MirrorInv
<1>7. CASE Insert
    <2> DEFINE S == {EnteredEvent(recv, n) : n \in Expanded(recv)}
    <2>1. /\ Entered(recv) = SetToSeq(S) /\ IsFiniteSet(S)
          /\ Tell(S, [n \in Number |-> IF n \in Expanded(recv) THEN recv ELSE devices[n]])
        BY <1>7, EnteredTells DEF Insert
    <2> HIDE DEF S
    <2>2. SubOK' /\ Follows(sub', devices')
        BY <1>7, <2>1, ChangeFollowed DEF Insert
    <2>3. RestOK'
        BY <1>1, <1>7 DEF Insert, TypeOK
    <2> QED
        BY <1>type, <2>2, <2>3 DEF MirrorInv
<1>8. CASE SocketFails
    <2>1. TypeOK'
        BY <1>1, <1>8 DEF SocketFails, TypeOK
    <2> QED
        BY <1>8, <1>kept, <2>1 DEF SocketFails, MirrorInv
<1>9. CASE Age
    <2> DEFINE S == {LostEvent(n) : n \in Expired}
    <2>1. LostEvents(Expired) = SetToSeq(S) /\ IsFiniteSet(S) /\ Tell(S, Without(Expired))
        BY <1>1, LostTells DEF Expired
    <2> HIDE DEF S
    <2>2. SubOK' /\ Follows(sub', devices')
        BY <1>9, <2>1, ChangeFollowed DEF Age
    <2>3. RestOK'
        BY <1>1, <1>9, WithoutTyped DEF Age, TypeOK
    <2> QED
        BY <1>type, <2>2, <2>3 DEF MirrorInv
<1>10. CASE FlushDevices
    <2> DEFINE held == {n \in Number : devices[n] # None}
               S == {LostEvent(n) : n \in held}
    <2>1. /\ LostEvents(held) = SetToSeq(S) /\ IsFiniteSet(S) /\ Tell(S, Without(held))
        BY <1>1, LostTells
    <2>2. Without(held) = Without(Number)
        BY DEF Without
    <2> HIDE DEF S
    <2>3. SubOK' /\ Follows(sub', devices')
        BY <1>10, <2>1, <2>2, ChangeFollowed DEF FlushDevices
    <2>4. RestOK'
        BY <1>1, <1>10, WithoutTyped DEF FlushDevices, TypeOK
    <2> QED
        BY <1>type, <2>3, <2>4 DEF MirrorInv
<1>11. ASSUME NEW s \in Source, AddIgnoredAddress(s) \/ RemoveIgnoredAddress(s)
       PROVE  MirrorInv'
    <2>1. TypeOK'
        BY <1>1, <1>11 DEF AddIgnoredAddress, RemoveIgnoredAddress, TypeOK
    <2> QED
        BY <1>11, <1>kept, <2>1 DEF AddIgnoredAddress, RemoveIgnoredAddress, MirrorInv
<1>12. CASE Subscribe
    <2>1. SubOK' /\ sub'.pc = "subscribed" /\ sub'.queue = sub.queue
        BY <1>1, <1>12 DEF Subscribe, TypeOK, Subscriber
    <2>2. RestOK' /\ devices' = devices
        BY <1>1, <1>12 DEF Subscribe, TypeOK
    <2>3. Follows(sub', devices')
        BY <1>1, <2>1, <2>2 DEF Follows
    <2> QED
        BY <1>type, <2>1, <2>2, <2>3 DEF MirrorInv
<1>13. CASE Snapshot
    <2>1. RestOK' /\ devices' = devices
        BY <1>1, <1>13 DEF Snapshot, TypeOK
    <2>2. SubOK' /\ sub'.pc = "mirroring" /\ sub'.queue = sub.queue /\ sub'.picture = devices
        <3> DEFINE started == [sub EXCEPT !.pc = "mirroring"]
                   told == [started EXCEPT !.lagged = FALSE]
        <3>1. sub' = [told EXCEPT !.picture = devices]
            BY <1>13 DEF Snapshot
        <3>2. started \in Subscriber /\ started.pc = "mirroring" /\ started.queue = sub.queue
            BY <1>1 DEF TypeOK, Subscriber
        <3> HIDE DEF started
        <3>3. told \in Subscriber /\ told.pc = "mirroring" /\ told.queue = sub.queue
            BY <3>2 DEF Subscriber
        <3> HIDE DEF told
        <3> QED
            BY <1>1, <3>1, <3>3 DEF TypeOK, Subscriber
    <2>3. Follows(sub', devices')
        BY <1>1, <2>1, <2>2 DEF Follows
    <2> QED
        BY <1>type, <2>1, <2>2, <2>3 DEF MirrorInv
<1>14. CASE Follow
    <2> DEFINE e == Head(sub.queue)
               rest == Tail(sub.queue)
               drawn == [sub.picture EXCEPT ![e.number] = Says(e)]
    <2>1. /\ sub \in Subscriber /\ sub.queue \in Seq(Event) /\ sub.queue # <<>>
          /\ sub.pc = "mirroring" /\ Len(sub.queue) \in Nat
        BY <1>1, <1>14 DEF Follow, TypeOK, Subscriber
    <2>2. /\ e \in Event /\ e = sub.queue[1] /\ rest \in Seq(Event)
          /\ Len(rest) = Len(sub.queue) - 1
          /\ \A i \in 1..Len(rest) : rest[i] = sub.queue[i + 1]
        BY <2>1
    <2>3. drawn \in [Number -> Source \union {None}]
        BY <2>1, <2>2 DEF Subscriber, Event, Says
    <2>4. /\ sub' \in Subscriber /\ sub'.queue = rest /\ sub'.picture = drawn
          /\ sub'.pc = sub.pc /\ sub'.lagged = sub.lagged
        <3> DEFINE read == [sub EXCEPT !.queue = rest]
        <3>1. sub' = [read EXCEPT !.picture = drawn]
            BY <1>14, <2>1 DEF Follow, Says, Subscriber
        <3> HIDE DEF rest, drawn
        <3>2. /\ read \in Subscriber /\ read.queue = rest /\ read.pc = sub.pc
              /\ read.lagged = sub.lagged /\ read.picture = sub.picture
            BY <2>1, <2>2 DEF Subscriber
        <3> HIDE DEF read
        <3> QED
            BY <2>3, <3>1, <3>2 DEF Subscriber
    <2>5. RestOK' /\ devices' = devices
        BY <1>1, <1>14 DEF Follow, TypeOK
    <2>6. SubOK'
        BY <1>1, <2>1, <2>2, <2>4 DEF TypeOK
    <2> HIDE DEF rest, e
    <2>7. ASSUME NEW i \in 1..Len(rest), LastAbout(rest, i)
          PROVE  Says(rest[i]) = devices[rest[i].number]
        <3>1. i + 1 \in 1..Len(sub.queue) /\ rest[i] = sub.queue[i + 1]
            BY <2>1, <2>2
        <3>2. ASSUME NEW j \in (i + 2)..Len(sub.queue)
              PROVE  sub.queue[j].number # sub.queue[i + 1].number
            <4>1. j - 1 \in (i + 1)..Len(rest) /\ rest[j - 1] = sub.queue[j]
                BY <2>1, <2>2
            <4> QED
                BY <2>7, <3>1, <4>1 DEF LastAbout
        <3>3. LastAbout(sub.queue, i + 1)
            BY <3>1, <3>2 DEF LastAbout
        <3> QED
            BY <1>1, <3>1, <3>3 DEF Follows, EndsAt
    <2>8. ASSUME ~sub.lagged, NEW n \in Number, Unmentioned(rest, n)
          PROVE  drawn[n] = devices[n]
        <3>1. CASE n = e.number
            <4>1. ASSUME NEW j \in 2..Len(sub.queue) PROVE sub.queue[j].number # e.number
                <5>1. j - 1 \in 1..Len(rest) /\ rest[j - 1] = sub.queue[j]
                    BY <2>1, <2>2
                <5> QED
                    BY <2>8, <3>1, <5>1 DEF Unmentioned
            <4>2. LastAbout(sub.queue, 1) /\ 1 \in 1..Len(sub.queue)
                BY <2>1, <2>2, <4>1 DEF LastAbout
            <4>3. Says(e) = devices[n]
                BY <1>1, <2>2, <3>1, <4>2 DEF Follows, EndsAt
            <4> QED
                BY <2>1, <3>1, <4>3 DEF Subscriber
        <3>2. CASE n # e.number
            <4>1. ASSUME NEW j \in 1..Len(sub.queue) PROVE sub.queue[j].number # n
                <5>1. j = 1 \/ (j - 1 \in 1..Len(rest) /\ rest[j - 1] = sub.queue[j])
                    BY <2>1, <2>2
                <5> QED
                    BY <2>2, <2>8, <3>2, <5>1 DEF Unmentioned
            <4>2. sub.picture[n] = devices[n]
                BY <1>1, <2>1, <2>8, <4>1 DEF Follows, Unmentioned
            <4> QED
                BY <2>1, <3>2, <4>2 DEF Subscriber
        <3> QED
            BY <3>1, <3>2
    <2> HIDE DEF drawn
    <2>9. Follows(sub', devices')
        BY <2>1, <2>4, <2>5, <2>7, <2>8 DEF Follows, EndsAt
    <2> QED
        BY <1>type, <2>5, <2>6, <2>9 DEF MirrorInv
<1>15. CASE UNCHANGED vars
    BY <1>1, <1>15 DEF vars, MirrorInv, TypeOK
<1> QED
    BY <1>2, <1>3, <1>4, <1>5, <1>6, <1>7, <1>8, <1>9, <1>10, <1>11, <1>12, <1>13, <1>14, <1>15
    DEF Next, Network, Finder, App

LEMMA MirrorAlways == Spec => []MirrorInv
<1>1. MirrorInv /\ [Next]_vars => MirrorInv'
    BY MirrorNext
<1> QED
    BY MirrorInit, <1>1, PTL DEF Spec

\* The type invariant: it carries the capacity of the broadcast channel.
THEOREM DevicesTypeOK == Spec => []TypeOK
BY MirrorAlways, PTL DEF MirrorInv

\* A subscriber that has read its events, and was not told that it lagged, sees the
\* map as it is: events are sent under the lock under which the map changes.
THEOREM DevicesPictureMatchesMap == Spec => []PictureMatchesMap
<1>1. MirrorInv => PictureMatchesMap
    <2> SUFFICES ASSUME MirrorInv, sub.pc = "mirroring", sub.queue = <<>>, ~sub.lagged
                 PROVE  sub.picture = devices
        BY DEF PictureMatchesMap
    <2>1. \A n \in Number : Unmentioned(sub.queue, n)
        BY DEF Unmentioned
    <2>2. \A n \in Number : sub.picture[n] = devices[n]
        BY <2>1 DEF MirrorInv, Follows
    <2> QED
        BY <2>2 DEF MirrorInv, TypeOK, Subscriber
<1> QED
    BY <1>1, MirrorAlways, PTL

-----------------------------------------------------------------------------
(***************************************************************************)
(* The map follows the network.                                            *)
(***************************************************************************)

\* The ageing task is as far from its next tick as an entry may still age.
Aged == \A n \in Number :
            devices[n] # None => age[n] <= DeviceExpiry + AgingInterval - aging

LEMMA AgedNext ==
    ASSUME TypeOK, Aged, [Next]_vars
    PROVE  Aged'
<1> USE DEF DeviceExpiry, AgingInterval, MaxAge
<1>1. CASE UNCHANGED <<devices, age, aging>>
    BY <1>1 DEF Aged
<1>2. CASE Tick
    BY <1>2 DEF Tick, Aged, TypeOK
<1>3. CASE Insert
    BY <1>3 DEF Insert, Aged, TypeOK
<1>4. CASE Age
    BY <1>4 DEF Age, Aged, TypeOK, Without, Expired
<1>5. CASE FlushDevices
    BY <1>5 DEF FlushDevices, Aged, Without
<1> QED
    BY <1>1, <1>2, <1>3, <1>4, <1>5 DEF Next, Network, Finder, App, Join, Leave, Announce,
       Receive, SocketFails, AddIgnoredAddress, RemoveIgnoredAddress, Subscribe, Snapshot,
       Follow, vars

\* No entry outlives its expiry by more than one interval of the ageing task.
THEOREM DevicesGoneInTime == Spec => []GoneInTime
<1>1. Init => Aged
    BY DEF Init, Aged
<1>2. TypeOK /\ Aged /\ [Next]_vars => Aged'
    BY AgedNext
<1>3. TypeOK /\ Aged => GoneInTime
    BY DEF Aged, GoneInTime, TypeOK, DeviceExpiry, AgingInterval, MaxAge
<1> QED
    BY <1>1, <1>2, <1>3, DevicesTypeOK, PTL DEF Spec

\* The longest that a device goes unheard: its losses in a row, and a delay.
Gap == KeepAliveInterval * (MaxMissed + 1) + MaxDelay

\* How long until the finder hears from device s again, at most.
Left(s) ==
    IF recv = s THEN 0
    ELSE IF net[s] # None THEN MaxDelay - net[s]
    ELSE host[s].due + KeepAliveInterval * (MaxMissed - host[s].missed) + MaxDelay

KnownOn == \A s \in known : host[s].on /\ s \notin ignored /\ recv # "ended"

HeardInTime ==
    \A s \in known : \A n \in Expanded(s) : devices[n] # None /\ age[n] + Left(s) <= Gap

HeardInv == KnownOn /\ HeardInTime

LEMMA LeftBounds ==
    ASSUME TypeOK, NEW s \in Source
    PROVE  Left(s) \in 0..Gap
<1>1. /\ host[s].due \in 0..KeepAliveInterval /\ host[s].missed \in 0..MaxMissed
      /\ net[s] \in 0..MaxDelay \union {None} /\ MaxMissed \in Nat /\ MaxDelay \in Nat
    BY DevicesAssumption DEF TypeOK, Host
<1> QED
    BY <1>1 DEF Left, Gap, KeepAliveInterval

LEMMA LeftBoundsNext ==
    ASSUME TypeOK', NEW s \in Source
    PROVE  Left(s)' \in 0..Gap
<1>1. /\ host'[s].due \in 0..KeepAliveInterval /\ host'[s].missed \in 0..MaxMissed
      /\ net'[s] \in 0..MaxDelay \union {None} /\ MaxMissed \in Nat /\ MaxDelay \in Nat
    BY DevicesAssumption DEF TypeOK, Host
<1> QED
    BY <1>1 DEF Left, Gap, KeepAliveInterval

\* What is heard of does not get older than the time that is left allows.
LEMMA HeardKept ==
    ASSUME TypeOK, HeardInv, UNCHANGED <<devices, age>>, known' \subseteq known,
           \A s \in known' : Left(s)' <= Left(s), TypeOK'
    PROVE  HeardInTime'
<1>1. ASSUME NEW s \in known', NEW n \in Expanded(s)
      PROVE  devices'[n] # None /\ age'[n] + Left(s)' <= Gap
    <2>1. s \in Source /\ n \in Number /\ s \in known
        BY ExpandedNumbers DEF TypeOK
    <2>2. Left(s) \in 0..Gap /\ Left(s)' \in 0..Gap /\ Gap \in Nat
        BY <2>1, LeftBounds, LeftBoundsNext, DevicesAssumption DEF Gap, KeepAliveInterval
    <2>3. devices[n] # None /\ age[n] + Left(s) <= Gap /\ age[n] \in Nat
        BY <2>1 DEF HeardInv, HeardInTime, TypeOK, MaxAge, DeviceExpiry, AgingInterval
    <2> QED
        BY <1>1, <2>1, <2>2, <2>3
<1> QED
    BY <1>1 DEF HeardInTime, Expanded

LEMMA HeardInit == Init => HeardInv
BY DEF Init, HeardInv, KnownOn, HeardInTime

LEMMA HeardNext ==
    ASSUME Gap <= DeviceExpiry, TypeOK, TypeOK', HeardInv, [Next]_vars
    PROVE  HeardInv'
<1>1. /\ KnownOn /\ HeardInTime /\ known \subseteq Source
      /\ MaxMissed \in Nat /\ MaxDelay \in Nat /\ Gap \in Nat
    BY DevicesAssumption DEF HeardInv, TypeOK, Gap, KeepAliveInterval
<1>none. None \notin Source /\ "ended" \notin Source /\ None # "ended"
    BY DevicesAssumption
<1>time. None \notin 0..MaxDelay
    BY DevicesAssumption
<1>host. ASSUME NEW s \in Source
         PROVE  /\ host[s].due \in 0..KeepAliveInterval /\ host[s].missed \in 0..MaxMissed
                /\ net[s] \in 0..MaxDelay \union {None}
    BY DEF TypeOK, Host
<1>age. MaxAge \in Nat /\ \A n \in Number : age[n] \in Nat
    BY DEF TypeOK, MaxAge, DeviceExpiry, AgingInterval
<1>2. ASSUME NEW t \in Source, Join(t) PROVE HeardInv'
    <2>1. \A s \in known : host'[s] = host[s] /\ s # t
        BY <1>1, <1>2 DEF Join, TypeOK, KnownOn
    <2>2. \A s \in known' : Left(s)' <= Left(s)
        BY <1>1, <1>2, <2>1, LeftBounds DEF Join, Left
    <2>3. KnownOn'
        BY <1>1, <1>2, <2>1 DEF Join, KnownOn
    <2> QED
        BY <1>2, <2>2, <2>3, HeardKept DEF Join, HeardInv
<1>3. ASSUME NEW t \in Source, Leave(t) PROVE HeardInv'
    <2>1. \A s \in known' : host'[s] = host[s] /\ s \in known
        BY <1>1, <1>3 DEF Leave, TypeOK
    <2>2. \A s \in known' : Left(s)' <= Left(s)
        BY <1>1, <1>3, <2>1, LeftBounds DEF Leave, Left
    <2>3. KnownOn'
        BY <1>1, <1>3, <2>1 DEF Leave, KnownOn
    <2> QED
        BY <1>3, <2>1, <2>2, <2>3, HeardKept DEF Leave, HeardInv
<1>4. ASSUME NEW t \in Source, Announce(t) PROVE HeardInv'
    <2>1. /\ \A s \in Source \ {t} : host'[s] = host[s]
          /\ host'[t].on = host[t].on /\ host'[t].due = KeepAliveInterval
          /\ host[t].due = 0 /\ net[t] = None
          /\ UNCHANGED <<devices, age, ignored, recv, known>>
          /\ \/ net' = [net EXCEPT ![t] = IF recv = "ended" THEN None ELSE 0]
             \/ net' = net /\ host'[t].missed = host[t].missed + 1 /\ host[t].missed < MaxMissed
        BY <1>4, Announced DEF Announce
    <2>2. net' \in [Source -> 0..MaxDelay \union {None}] /\ net \in [Source -> 0..MaxDelay \union {None}]
        BY DEF TypeOK
    <2>3. ASSUME NEW s \in known' PROVE Left(s)' <= Left(s)
        <3>1. s \in Source /\ s \in known /\ recv # "ended"
            BY <1>1, <2>1 DEF KnownOn
        <3>2. CASE s # t
            <4>1. host'[s] = host[s] /\ net'[s] = net[s] /\ recv' = recv
                BY <2>1, <2>2, <3>1, <3>2
            <4> QED
                BY <3>1, <4>1, LeftBounds DEF Left
        <3>3. CASE s = t
            <4>1. CASE net' = [net EXCEPT ![t] = IF recv = "ended" THEN None ELSE 0]
                <5>1. net'[s] = 0 \/ net'[s] = None
                    BY <2>2, <3>1, <3>3, <4>1
                <5>2. net'[s] = 0
                    BY <2>2, <3>1, <3>3, <4>1
                <5> QED
                    BY <1>1, <1>time, <1>host, <2>1, <3>1, <3>3, <5>2 DEF Left, KeepAliveInterval
            <4>2. CASE /\ net' = net /\ host'[t].missed = host[t].missed + 1
                       /\ host[t].missed < MaxMissed
                BY <1>1, <1>host, <2>1, <3>1, <3>3, <4>2 DEF Left, KeepAliveInterval
            <4> QED
                BY <2>1, <4>1, <4>2
        <3> QED
            BY <3>2, <3>3
    <2>4. KnownOn'
        BY <1>1, <2>1 DEF KnownOn
    <2> QED
        BY <2>1, <2>3, <2>4, HeardKept DEF HeardInv
<1>5. CASE Tick
    <2>1. /\ host' \in [Source -> Host]
          /\ \A s \in Source : host'[s].on = host[s].on
          /\ \A s \in Source : host'[s].missed = host[s].missed
          /\ \A s \in Source : host[s].on => host'[s].due = host[s].due - 1
        BY <1>5, Ticked
    <2>rest. UNCHANGED <<devices, ignored, recv, known>> /\ recv \in {None, "ended"}
        BY <1>5 DEF Tick
    <2>net. \A s \in Source : /\ net[s] # MaxDelay
                               /\ net'[s] = IF net[s] \in 0..(MaxDelay - 1) THEN net[s] + 1 ELSE net[s]
        BY <1>5 DEF Tick
    <2>age. \A n \in Number : age'[n] = IF devices[n] = None \/ age[n] = MaxAge
                                         THEN age[n] ELSE age[n] + 1
        BY <1>5 DEF Tick
    <2>2. KnownOn'
        <3>1. ASSUME NEW s \in known PROVE host'[s].on /\ s \notin ignored' /\ recv' # "ended"
            <4>1. s \in Source /\ host[s].on /\ s \notin ignored /\ recv # "ended"
                BY <1>1 DEF KnownOn
            <4>2. host'[s].on = host[s].on
                BY <2>1, <4>1
            <4> QED
                BY <2>rest, <4>1, <4>2
        <3> QED
            BY <2>rest, <3>1 DEF KnownOn
    <2>3. ASSUME NEW s \in known', NEW n \in Expanded(s)
          PROVE  devices'[n] # None /\ age'[n] + Left(s)' <= Gap
        <3>known. s \in Source /\ s \in known /\ n \in Number /\ n \in Expanded(s)
            BY <1>1, <2>3, <2>net, <2>rest, <2>age, ExpandedNumbers DEF Expanded
        <3>1. /\ s \in Source /\ n \in Number /\ s \in known /\ host[s].on /\ recv # s
              /\ age[n] \in Nat /\ MaxAge \in Nat
              /\ devices[n] # None /\ age[n] + Left(s) <= Gap
            BY <1>1, <1>none, <1>age, <2>net, <2>rest, <2>age, <3>known DEF KnownOn, HeardInTime
        <3>2. Left(s)' = Left(s) - 1
            <4>1. CASE net[s] = None
                <5>1. net'[s] = None
                    BY <1>1, <1>time, <2>1, <2>net, <2>rest, <2>age, <3>1, <4>1
                <5> QED
                    <6>1. /\ host'[s].due = host[s].due - 1 /\ host'[s].missed = host[s].missed
                          /\ recv' = recv
                        BY <2>1, <2>rest, <3>1
                    <6>2. host[s].due \in 0..KeepAliveInterval /\ host[s].missed \in 0..MaxMissed
                        BY <1>host, <3>1
                    <6> QED
                        BY <1>1, <3>1, <4>1, <5>1, <6>1, <6>2 DEF Left, KeepAliveInterval
            <4>2. CASE net[s] # None
                <5>1. net[s] \in 0..(MaxDelay - 1)
                    BY <1>1, <1>host, <2>1, <2>net, <2>rest, <2>age, <3>1, <4>2
                <5>2. net'[s] = net[s] + 1
                    BY <2>1, <2>net, <2>rest, <2>age, <3>1, <5>1
                <5>3. net'[s] # None
                    BY <1>1, <1>time, <5>1, <5>2
                <5> QED
                    BY <1>1, <1>host, <2>1, <2>net, <2>rest, <2>age, <3>1, <4>2, <5>1, <5>2, <5>3 DEF Left
            <4> QED
                BY <4>1, <4>2
        <3>3. Left(s) \in 0..Gap
            BY <3>1, LeftBounds
        <3>4. age'[n] <= age[n] + 1 /\ age'[n] \in Nat
            BY <2>1, <2>net, <2>rest, <2>age, <3>1
        <3> QED
            BY <1>1, <2>1, <2>net, <2>rest, <2>age, <3>1, <3>2, <3>3, <3>4
    <2> QED
        BY <2>2, <2>3 DEF HeardInv, HeardInTime, Expanded
<1>6. ASSUME NEW t \in Source, Receive(t) PROVE HeardInv'
    <2>1. /\ recv = None /\ net[t] # None /\ net' = [net EXCEPT ![t] = None]
          /\ recv' = IF t \in ignored THEN None ELSE t
          /\ UNCHANGED <<devices, age, ignored, host, known>>
        BY <1>6 DEF Receive
    <2>2. None \notin Source /\ "ended" \notin Source /\ recv' # "ended"
        BY <1>none, <2>1
    <2>3. ASSUME NEW s \in known' PROVE Left(s)' <= Left(s)
        <3>1. s \in Source /\ s \in known /\ s \notin ignored
            BY <1>1, <2>1 DEF KnownOn
        <3>2. CASE s # t
            <4>1. net'[s] = net[s] /\ recv # s /\ recv' # s
                BY <2>1, <2>2, <3>1, <3>2 DEF TypeOK
            <4> QED
                BY <2>1, <3>1, <4>1, LeftBounds DEF Left
        <3>3. CASE s = t
            <4>1. recv' = s
                BY <2>1, <3>1, <3>3
            <4> QED
                BY <3>1, <4>1, LeftBounds DEF Left
        <3> QED
            BY <3>2, <3>3
    <2>4. KnownOn'
        BY <1>1, <2>1, <2>2 DEF KnownOn
    <2> QED
        BY <2>1, <2>3, <2>4, HeardKept DEF HeardInv
<1>7. CASE Insert
    <2>1. /\ recv \in Source /\ recv' = None
          /\ devices' = [n \in Number |-> IF n \in Expanded(recv) THEN recv ELSE devices[n]]
          /\ age' = [n \in Number |-> IF n \in Expanded(recv) THEN 0 ELSE age[n]]
          /\ known' = IF host[recv].on /\ recv \notin ignored THEN known \union {recv} ELSE known
          /\ UNCHANGED <<ignored, host, net>>
        BY <1>7 DEF Insert
    <2>2. recv' # "ended"
        BY <1>none, <2>1
    <2>3. KnownOn'
        BY <1>1, <2>1, <2>2 DEF KnownOn
    <2>4. ASSUME NEW s \in known', NEW n \in Expanded(s)
          PROVE  devices'[n] # None /\ age'[n] + Left(s)' <= Gap
        <3>1. s \in Source /\ n \in Number /\ (s \in known \/ s = recv)
            BY <1>1, <2>1, ExpandedNumbers
        <3>2. Left(s)' \in 0..Gap
            BY <3>1, LeftBoundsNext
        <3>3. CASE n \in Expanded(recv)
            BY <1>1, <1>none, <2>1, <3>1, <3>2, <3>3
        <3>4. CASE n \notin Expanded(recv)
            <4>1. s \in known /\ s # recv
                BY <3>1, <3>4
            <4>2. devices'[n] = devices[n] /\ age'[n] = age[n]
                BY <2>1, <3>1, <3>4
            <4>3. Left(s)' = Left(s)
                BY <1>none, <2>1, <3>1, <4>1 DEF Left
            <4> QED
                BY <1>1, <4>1, <4>2, <4>3 DEF HeardInTime
        <3> QED
            BY <3>3, <3>4
    <2> QED
        BY <2>3, <2>4 DEF HeardInv, HeardInTime, Expanded
<1>8. CASE SocketFails \/ FlushDevices
    BY <1>8 DEF SocketFails, FlushDevices, HeardInv, KnownOn, HeardInTime
<1>9. CASE Age
    <2>1. /\ devices' = Without(Expired)
          /\ age' = [n \in Number |-> IF n \in Expired THEN 0 ELSE age[n]]
          /\ UNCHANGED <<ignored, recv, host, net, known>>
        BY <1>9 DEF Age
    <2>2. KnownOn'
        BY <1>1, <2>1 DEF KnownOn
    <2>3. ASSUME NEW s \in known', NEW n \in Expanded(s)
          PROVE  devices'[n] # None /\ age'[n] + Left(s)' <= Gap
        <3>known. s \in Source /\ s \in known /\ n \in Number /\ n \in Expanded(s)
            BY <1>1, <2>1, <2>3, ExpandedNumbers DEF Expanded
        <3>1. /\ s \in Source /\ n \in Number /\ s \in known /\ age[n] \in Nat
              /\ devices[n] # None /\ age[n] + Left(s) <= Gap
            BY <1>1, <1>age, <3>known DEF HeardInTime
        <3>2. Left(s)' = Left(s) /\ Left(s) \in 0..Gap
            BY <2>1, <3>1, LeftBounds DEF Left
        <3>3. n \notin Expired
            BY <1>1, <3>1, <3>2 DEF Expired, DeviceExpiry
        <3>4. devices'[n] = devices[n] /\ age'[n] = age[n]
            BY <2>1, <3>1, <3>3 DEF Without
        <3> QED
            BY <3>1, <3>2, <3>4
    <2> QED
        BY <2>2, <2>3 DEF HeardInv, HeardInTime, Expanded
<1>10. ASSUME NEW t \in Source, AddIgnoredAddress(t) \/ RemoveIgnoredAddress(t)
       PROVE  HeardInv'
    <2>1. /\ UNCHANGED <<devices, age, recv, host, net>> /\ known' \subseteq known
          /\ \A s \in known' : s \notin ignored'
        BY <1>1, <1>10 DEF AddIgnoredAddress, RemoveIgnoredAddress, KnownOn
    <2>2. KnownOn'
        BY <1>1, <2>1 DEF KnownOn
    <2>3. \A s \in known' : Left(s)' <= Left(s)
        BY <1>1, <2>1, LeftBounds DEF Left
    <2> QED
        BY <2>1, <2>2, <2>3, HeardKept DEF HeardInv
<1>11. CASE UNCHANGED <<devices, age, ignored, recv, host, net, known>>
    <2>1. \A s \in known' : Left(s)' <= Left(s)
        BY <1>1, <1>11, LeftBounds DEF Left
    <2>2. KnownOn'
        BY <1>1, <1>11 DEF KnownOn
    <2> QED
        BY <1>11, <2>1, <2>2, HeardKept DEF HeardInv
<1> QED
    BY <1>2, <1>3, <1>4, <1>5, <1>6, <1>7, <1>8, <1>9, <1>10, <1>11
    DEF Next, Network, Finder, App, Subscribe, Snapshot, Follow, vars

\* A device that keeps announcing itself stays in the map, and no entry outlives its
\* expiry, as long as the expiry outlasts the longest gap between two keep-alives.
THEOREM DevicesMapFollowsNetwork ==
    ASSUME Gap <= DeviceExpiry
    PROVE  Spec => []MapFollowsNetwork
<1>1. TypeOK /\ TypeOK' /\ HeardInv /\ [Next]_vars => HeardInv'
    BY HeardNext
<1>2. HeardInv => HeardDevicesStay
    BY DEF HeardInv, HeardInTime, HeardDevicesStay
<1>3. Spec => []HeardInv
    BY HeardInit, <1>1, DevicesTypeOK, PTL DEF Spec
<1> QED
    BY <1>2, <1>3, DevicesGoneInTime, PTL DEF MapFollowsNetwork
=============================================================================
