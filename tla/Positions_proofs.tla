-------------------------- MODULE Positions_proofs --------------------------
(***************************************************************************)
(* Proofs about Positions, for any speeds, tracks and delays: its types,   *)
(* how far from the player's position the answer to a reader can be, and   *)
(* how long after a change it is the player's again.                       *)
(***************************************************************************)
EXTENDS Positions, SequenceTheorems, TLAPS

-----------------------------------------------------------------------------
(***************************************************************************)
(* The invariant.  A packet that is still true of the player's course      *)
(* tells where the player is now, and a beat number where its beat began.  *)
(***************************************************************************)
Reached(position, age) == IF player.playing THEN position + age * player.pitch ELSE position

TrueStill(p) ==
    p.fresh => /\ p.playing = player.playing /\ p.pitch = player.pitch
               /\ player.position = Reached(p.position, p.age)

Told(p) ==
    player.analysed => Estimated(p) <= p.position /\ p.position - (Beat - 1) <= Estimated(p)

PacketsTrue == \A s \in Stream : \A i \in 1..Len(queue[s]) : TrueStill(queue[s][i]) /\ Told(queue[s][i])

\* The entry knows the player's course.
CourseKnown ==
    /\ "position" \in settled => settled = Course
    /\ settled # {} => entry # None
    /\ "playing" \in settled => entry.playing = player.playing
    /\ "pitch" \in settled => entry.pitch = player.pitch

FollowInv == TypeOK /\ PacketsTrue /\ CourseKnown /\ EstimateBounds

-----------------------------------------------------------------------------
(* Arithmetic *)

LEMMA Products ==
    ASSUME NEW a \in Nat, NEW b \in Nat, NEW v \in Nat
    PROVE  /\ a * v \in Nat /\ (a + 1) * v = a * v + v
           /\ (a - b) * v = a * v - b * v /\ (b <= a => (a - b) * v \in Nat)
<1>1. a * v \in Nat /\ b * v \in Nat /\ (a + 1) * v = a * v + v /\ (a - b) * v = a * v - b * v
    OBVIOUS
<1>2. ASSUME b <= a PROVE (a - b) * v \in Nat
    <2>1. a - b \in Nat
        BY <1>2
    <2> QED
        BY <2>1
<1> QED
    BY <1>1, <1>2

LEMMA PatienceNat == Patience \in Nat /\ 0 \in 0..Patience
BY PositionsAssumption DEF Patience

\* The beginning of the beat a position is in.
LEMMA BeatBegins ==
    ASSUME NEW x \in Nat
    PROVE  /\ x \div Beat \in Nat
           /\ (x \div Beat) * Beat <= x /\ x - (Beat - 1) <= (x \div Beat) * Beat
<1>1. Beat \in Nat \ {0}
    BY PositionsAssumption
<1> DEFINE q == x \div Beat
           r == x % Beat
<1>2. q \in Nat /\ r \in 0..(Beat - 1) /\ x = Beat * q + r
    BY <1>1
<1> HIDE DEF q, r
<1>3. q * Beat = Beat * q /\ q * Beat \in Nat
    BY <1>1, <1>2
<1> QED
    BY <1>1, <1>2, <1>3 DEF q

-----------------------------------------------------------------------------
(* Types *)

LEMMA PlayerTyped ==
    ASSUME TypeOK
    PROVE  /\ player.position \in Nat /\ player.pitch \in Nat
           /\ player.playing \in BOOLEAN /\ player.analysed \in BOOLEAN
           /\ recount \in Nat /\ queue \in [Stream -> Seq(Packet)]
<1>1. player \in Player /\ recount \in Nat /\ queue \in [Stream -> Seq(Packet)]
    BY DEF TypeOK
<1>2. /\ player.position \in 0..TrackLength /\ player.pitch \in Speed
      /\ player.playing \in BOOLEAN /\ player.analysed \in BOOLEAN
    BY <1>1 DEF Player
<1>3. player.position \in Nat
    BY <1>2, PositionsAssumption
<1>4. player.pitch \in Nat
    BY <1>2, PositionsAssumption, Zenon
<1> QED
    BY <1>1, <1>2, <1>3, <1>4

LEMMA PacketTyped ==
    ASSUME NEW p \in Packet
    PROVE  /\ p.age \in Nat /\ p.age \in 0..MaxLag /\ p.position \in Nat /\ p.playing \in BOOLEAN
           /\ p.pitch \in Nat /\ p.fresh \in BOOLEAN /\ p.beatNumber \in Nat \union {None}
           /\ Estimated(p) \in Nat
<1>1. /\ p.age \in Nat /\ p.age \in 0..MaxLag /\ p.position \in Nat /\ p.playing \in BOOLEAN
      /\ p.fresh \in BOOLEAN /\ p.beatNumber \in Nat \union {None}
    BY PositionsAssumption DEF Packet
<1>pitch. p.pitch \in Nat
    <2>1. p.pitch \in Speed
        BY DEF Packet
    <2> QED
        BY <2>1, PositionsAssumption, Zenon
<1>2. CASE p.beatNumber \in {None, 0}
    BY <1>1, <1>pitch, <1>2 DEF Estimated
<1>3. CASE p.beatNumber \notin {None, 0}
    <2>1. p.beatNumber - 1 \in Nat /\ Beat \in Nat
        BY <1>1, <1>3, PositionsAssumption
    <2>2. (p.beatNumber - 1) * Beat \in Nat
        BY <2>1
    <2> QED
        BY <1>1, <1>pitch, <1>3, <2>2 DEF Estimated
<1> QED
    BY <1>1, <1>pitch, <1>2, <1>3

\* What a reader is told: at pitch 0 the guard of get_time_for makes no difference.
LEMMA ToldIs ==
    ASSUME NEW e \in PlayerPosition
    PROVE  /\ GetTimeFor(e) = IF e.playing THEN e.position + e.age * e.pitch ELSE e.position
           /\ GetTimeFor(e) \in Nat
<1>1. /\ e.position \in Nat /\ e.age \in Nat /\ e.pitch \in Nat /\ e.playing \in BOOLEAN
    BY DEF PlayerPosition
<1>2. e.age * e.pitch \in Nat /\ e.age * 0 = 0
    BY <1>1
<1>3. GetTimeFor(e) = IF e.playing THEN e.position + e.age * e.pitch ELSE e.position
    <2>1. CASE e.pitch > 0
        BY <2>1 DEF GetTimeFor
    <2>2. CASE e.pitch = 0
        <3>1. e.position + e.age * e.pitch = e.position
            BY <1>1, <1>2, <2>2
        <3> QED
            BY <1>1, <2>2, <3>1 DEF GetTimeFor
    <2> QED
        BY <1>1, <2>1, <2>2
<1> QED
    BY <1>1, <1>2, <1>3

\* A reader is told the same position after snap_forward, but for what is counted twice.
LEMMA SnapForwardIs ==
    ASSUME NEW e \in PlayerPosition, NEW p \in Packet
    PROVE  /\ SnapForward(e, p) \in PlayerPosition
           /\ SnapForward(e, p).playing = e.playing /\ SnapForward(e, p).precise = e.precise
           /\ SnapForward(e, p).pitch = e.pitch
           /\ Recounted(e, p) \in Nat
           /\ GetTimeFor(e) \in Nat
           /\ GetTimeFor(SnapForward(e, p)) = GetTimeFor(e) + Recounted(e, p) * e.pitch
<1> DEFINE v == e.pitch
           moved == IF e.playing /\ e.pitch > 0 /\ e.age > p.age
                    THEN e.position + (e.age - p.age) * v ELSE e.position
           at   == [e EXCEPT !.position = moved]
           snap == [at EXCEPT !.age = p.age]
<1>1. /\ e.position \in Nat /\ e.age \in Nat /\ e.playing \in BOOLEAN /\ e.precise \in BOOLEAN
      /\ p.age \in Nat /\ v \in Nat
    BY PacketTyped DEF PlayerPosition
<1>2. /\ e.age * v \in Nat /\ p.age * v \in Nat
      /\ (e.age - p.age) * v = e.age * v - p.age * v
      /\ (p.age - e.age) * v = p.age * v - e.age * v
      /\ p.age <= e.age => (e.age - p.age) * v \in Nat
      /\ 0 * v = 0
    BY <1>1, Products
<1>3. SnapForward(e, p) = snap
    BY DEF SnapForward
<1>4. moved = (IF e.playing /\ e.age > p.age THEN e.position + (e.age - p.age) * v ELSE e.position)
    <2>1. CASE v > 0
        BY <2>1
    <2>2. CASE v = 0
        <3>1. (e.age - p.age) * 0 = 0
            BY <1>1
        <3> QED
            BY <1>1, <2>2, <3>1
    <2> QED
        BY <1>1, <2>1, <2>2
<1> HIDE DEF moved
<1>nat. moved \in Nat
    BY <1>1, <1>2, <1>4
<1>5. Recounted(e, p) = (IF e.playing /\ p.age > e.age THEN p.age - e.age ELSE 0)
    BY DEF Recounted
<1>6. Recounted(e, p) \in Nat
    BY <1>1, <1>5
<1>7. moved + (IF e.playing THEN p.age * v ELSE 0)
          = e.position + (IF e.playing THEN e.age * v ELSE 0) + Recounted(e, p) * v
    <2>1. CASE e.playing /\ e.age > p.age
        BY <1>1, <1>2, <1>4, <1>5, <2>1
    <2>2. CASE e.playing /\ p.age > e.age
        BY <1>1, <1>2, <1>4, <1>5, <2>2
    <2>3. CASE e.playing /\ p.age = e.age
        BY <1>1, <1>2, <1>4, <1>5, <2>3
    <2>4. CASE ~e.playing
        BY <1>1, <1>2, <1>4, <1>5, <2>4
    <2> QED
        BY <1>1, <2>1, <2>2, <2>3, <2>4
<1>8. /\ at \in PlayerPosition /\ at.playing = e.playing /\ at.precise = e.precise
      /\ at.pitch = e.pitch /\ at.position = moved
    BY <1>nat DEF PlayerPosition
<1> HIDE DEF at
<1>9. /\ snap \in PlayerPosition /\ snap.playing = e.playing /\ snap.precise = e.precise
      /\ snap.pitch = e.pitch /\ snap.position = moved /\ snap.age = p.age
    BY <1>1, <1>8 DEF PlayerPosition
<1> HIDE DEF snap
<1>10. /\ GetTimeFor(snap) = moved + (IF e.playing THEN p.age * v ELSE 0)
       /\ GetTimeFor(e) = e.position + (IF e.playing THEN e.age * v ELSE 0)
       /\ GetTimeFor(e) \in Nat
    BY <1>1, <1>nat, <1>9, ToldIs
<1> QED
    BY <1>3, <1>6, <1>7, <1>9, <1>10

-----------------------------------------------------------------------------
(* The player's steps *)

\* The packets underway again, one by one.
LEMMA Underway ==
    ASSUME queue \in [Stream -> Seq(Packet)], DOMAIN queue' = Stream,
           queue' = [s \in Stream |-> queue'[s]],
           \A s \in Stream : /\ queue'[s] = [i \in 1..Len(queue[s]) |-> queue'[s][i]]
                             /\ \A i \in 1..Len(queue[s]) : queue'[s][i] \in Packet
    PROVE  /\ queue' \in [Stream -> Seq(Packet)]
           /\ \A s \in Stream : Len(queue'[s]) = Len(queue[s])
<1>1. ASSUME NEW s \in Stream
      PROVE  queue'[s] \in Seq(Packet) /\ Len(queue'[s]) = Len(queue[s])
    <2>1. /\ queue'[s] = [i \in 1..Len(queue[s]) |-> queue'[s][i]]
          /\ \A i \in 1..Len(queue[s]) : queue'[s][i] \in Packet
          /\ Len(queue[s]) \in Nat
        BY <1>1
    <2> QED
        BY <2>1
<1> QED
    BY <1>1

LEMMA ChangeKeeps ==
    ASSUME FollowInv, StartOrStop \/ Jump \/ SetPitch \/ TakeOver
    PROVE  FollowInv'
<1>1. PICK p \in Player :
          /\ p.analysed = player.analysed /\ player' = p
          /\ queue' = Stale /\ settled' = {} /\ since' = 0
          /\ changes > 0 /\ changes' = changes - 1
          /\ UNCHANGED <<due, sent, entry, recount>>
    <2>0. player \in Player /\ 0 \in 0..TrackLength
        BY PositionsAssumption DEF FollowInv, TypeOK
    <2>1. /\ [player EXCEPT !.playing = ~@] \in Player
          /\ [player EXCEPT !.playing = ~@].analysed = player.analysed
          /\ [player EXCEPT !.position = 0] \in Player
          /\ [player EXCEPT !.position = 0].analysed = player.analysed
          /\ [player EXCEPT !.cdj3000 = ~@] \in Player
          /\ [player EXCEPT !.cdj3000 = ~@].analysed = player.analysed
          /\ \A v \in Speed : /\ [player EXCEPT !.pitch = v] \in Player
                               /\ [player EXCEPT !.pitch = v].analysed = player.analysed
        BY <2>0 DEF Player
    <2>2. PICK p : p \in Player /\ p.analysed = player.analysed /\ Change(p)
        BY <2>1 DEF StartOrStop, Jump, SetPitch, TakeOver
    <2> QED
        BY <2>2 DEF Change
<1>2. TypeOK /\ PacketsTrue /\ queue \in [Stream -> Seq(Packet)] /\ player \in Player
    BY DEF FollowInv, TypeOK
<1>3. p \in Player /\ p.analysed = player.analysed
    BY <1>1
<1>4. /\ DOMAIN queue' = Stream /\ queue' = [s \in Stream |-> queue'[s]]
      /\ \A s \in Stream : queue'[s] = [i \in DOMAIN queue[s] |-> [queue[s][i] EXCEPT !.fresh = FALSE]]
    BY <1>1, Zenon DEF Stale
<1>5. ASSUME NEW s \in Stream
      PROVE  /\ queue'[s] = [i \in 1..Len(queue[s]) |-> queue'[s][i]]
             /\ \A i \in 1..Len(queue[s]) :
                    /\ queue'[s][i] \in Packet /\ queue'[s][i].fresh = FALSE
                    /\ queue'[s][i].beatNumber = queue[s][i].beatNumber
                    /\ queue'[s][i].position = queue[s][i].position
    <2>1. /\ queue'[s] = [i \in 1..Len(queue[s]) |-> [queue[s][i] EXCEPT !.fresh = FALSE]]
          /\ \A i \in 1..Len(queue[s]) : queue[s][i] \in Packet
        BY <1>2, <1>4
    <2>2. \A q \in Packet : LET new == [q EXCEPT !.fresh = FALSE]
                            IN  /\ new \in Packet /\ new.fresh = FALSE
                                /\ new.beatNumber = q.beatNumber /\ new.position = q.position
        BY DEF Packet
    <2>3. \A i \in 1..Len(queue[s]) : queue'[s][i] = [queue[s][i] EXCEPT !.fresh = FALSE]
        BY <2>1, Zenon
    <2>4. queue'[s] = [i \in 1..Len(queue[s]) |-> queue'[s][i]]
        BY <2>1
    <2> QED
        BY <2>1, <2>2, <2>3, <2>4
<1>6. queue' \in [Stream -> Seq(Packet)] /\ \A s \in Stream : Len(queue'[s]) = Len(queue[s])
    BY <1>2, <1>4, <1>5, Underway
<1>7. TypeOK'
    <2>1. since' \in 0..Patience
        BY <1>1, PatienceNat
    <2> QED
        BY <1>1, <1>2, <1>3, <1>6, <2>1, PositionsAssumption DEF TypeOK
<1>8. PacketsTrue'
    <2> SUFFICES ASSUME NEW s \in Stream, NEW i \in 1..Len(queue'[s])
                 PROVE  TrueStill(queue[s][i])' /\ Told(queue[s][i])'
        BY DEF PacketsTrue
    <2>1. /\ i \in 1..Len(queue[s]) /\ queue'[s][i].fresh = FALSE
          /\ queue'[s][i].beatNumber = queue[s][i].beatNumber
          /\ queue'[s][i].position = queue[s][i].position
        BY <1>5, <1>6
    <2>2. Told(queue[s][i])
        BY <1>2, <2>1 DEF PacketsTrue
    <2>3. Told(queue[s][i])'
        BY <1>1, <1>3, <2>1, <2>2 DEF Told, Estimated
    <2> QED
        BY <2>1, <2>3 DEF TrueStill
<1>9. CourseKnown' /\ EstimateBounds'
    BY <1>1 DEF CourseKnown, EstimateBounds, Settled, Course
<1> QED
    BY <1>7, <1>8, <1>9 DEF FollowInv

\* A packet tells the truth when it is sent.
LEMMA SentTrue ==
    ASSUME TypeOK
    PROVE  LET p == [age |-> 0, playing |-> player.playing, pitch |-> player.pitch,
                     position |-> player.position,
                     beatNumber |-> IF player.analysed THEN BeatNumber ELSE None, fresh |-> TRUE]
           IN  p \in Packet /\ TrueStill(p) /\ Told(p)
<1> DEFINE number == IF player.analysed THEN BeatNumber ELSE None
           p == [age |-> 0, playing |-> player.playing, pitch |-> player.pitch,
                 position |-> player.position, beatNumber |-> number, fresh |-> TRUE]
           q == player.position \div Beat
<1>1. /\ player.position \in Nat /\ player.pitch \in Nat /\ player.playing \in BOOLEAN
      /\ player.position \in 0..TrackLength /\ player.analysed \in BOOLEAN
      /\ player.pitch \in Speed
    BY PlayerTyped DEF TypeOK, Player
<1>2. /\ q \in Nat /\ q * Beat <= player.position /\ player.position - (Beat - 1) <= q * Beat
    BY <1>1, BeatBegins
<1>3. number = IF player.analysed
               THEN IF player.position = 0 /\ ~player.playing THEN 0 ELSE q + 1
               ELSE None
    BY DEF BeatNumber
<1> HIDE DEF q, number
<1>4. p \in Packet
    <2>1. number \in Nat \union {None} /\ 0 \in 0..MaxLag
        BY <1>1, <1>2, <1>3, PositionsAssumption
    <2> QED
        BY <1>1, <2>1 DEF Packet
<1>5. TrueStill(p)
    <2>1. player.position + 0 * player.pitch = player.position
        BY <1>1
    <2> QED
        BY <2>1 DEF TrueStill, Reached
<1>6. Told(p)
    <2> SUFFICES ASSUME player.analysed
                 PROVE  Estimated(p) <= player.position /\ player.position - (Beat - 1) <= Estimated(p)
        BY DEF Told
    <2>0. Beat \in Nat \ {0}
        BY PositionsAssumption
    <2>1. CASE player.position = 0 /\ ~player.playing
        <3>1. Estimated(p) = 0
            BY <1>3, <2>1 DEF Estimated
        <3> QED
            BY <2>0, <2>1, <3>1
    <2>2. CASE ~(player.position = 0 /\ ~player.playing)
        <3>1. number = q + 1 /\ number \in Nat /\ number # 0 /\ number # None
            BY <1>2, <1>3, <2>2, NoneAssumption
        <3>2. Estimated(p) = (number - 1) * Beat /\ number - 1 = q
            BY <1>2, <3>1 DEF Estimated
        <3> QED
            BY <1>2, <3>2
    <2> QED
        BY <2>1, <2>2
<1> QED
    BY <1>4, <1>5, <1>6 DEF number

LEMMA SendKeeps ==
    ASSUME FollowInv, NEW s \in Stream, Send(s)
    PROVE  FollowInv'
<1> DEFINE p == [age |-> 0, playing |-> player.playing, pitch |-> player.pitch,
                 position |-> player.position,
                 beatNumber |-> IF player.analysed THEN BeatNumber ELSE None, fresh |-> TRUE]
<1>1. /\ TypeOK /\ PacketsTrue /\ CourseKnown /\ EstimateBounds
      /\ queue \in [Stream -> Seq(Packet)]
    BY DEF FollowInv, TypeOK
<1>2. p \in Packet /\ TrueStill(p) /\ Told(p)
    BY <1>1, SentTrue
<1>3. /\ sent' = sent \union {s} /\ due' \in {StatusInterval, due}
      /\ UNCHANGED <<player, entry, settled, recount>>
      /\ \/ queue' = [queue EXCEPT ![s] = Append(@, p)] /\ changes' = changes /\ since' = since
         \/ changes > 0 /\ changes' = changes - 1 /\ queue' = queue /\ since' = 0
    BY DEF Send
<1> HIDE DEF p
<1>4. queue' = queue \/ queue' = [queue EXCEPT ![s] = Append(queue[s], p)]
    BY <1>3
<1>5. /\ queue' \in [Stream -> Seq(Packet)]
      /\ \A t \in Stream : \A i \in 1..Len(queue'[t]) :
             queue'[t][i] = p \/ (i \in 1..Len(queue[t]) /\ queue'[t][i] = queue[t][i])
    <2>1. ASSUME NEW t \in Stream
          PROVE  /\ queue'[t] \in Seq(Packet)
                 /\ \A i \in 1..Len(queue'[t]) :
                        queue'[t][i] = p \/ (i \in 1..Len(queue[t]) /\ queue'[t][i] = queue[t][i])
        <3>1. queue'[t] = queue[t] \/ queue'[t] = Append(queue[t], p)
            BY <1>1, <1>4, <2>1
        <3>2. queue[t] \in Seq(Packet)
            BY <1>1
        <3> QED
            BY <1>2, <3>1, <3>2
    <2>2. DOMAIN queue' = Stream /\ queue' = [t \in Stream |-> queue'[t]]
        BY <1>1, <1>4
    <2> QED
        BY <2>1, <2>2
<1>6. PacketsTrue'
    <2> SUFFICES ASSUME NEW t \in Stream, NEW i \in 1..Len(queue'[t])
                 PROVE  TrueStill(queue[t][i])' /\ Told(queue[t][i])'
        BY DEF PacketsTrue
    <2>1. TrueStill(queue'[t][i]) /\ Told(queue'[t][i])
        BY <1>1, <1>2, <1>5 DEF PacketsTrue
    <2> QED
        BY <1>3, <2>1 DEF TrueStill, Told, Reached
<1>7. TypeOK'
    <2>1. since' \in 0..Patience
        BY <1>1, <1>3, PatienceNat DEF TypeOK
    <2> QED
        BY <1>1, <1>3, <1>5, <2>1, PositionsAssumption DEF TypeOK
<1>8. CourseKnown' /\ EstimateBounds'
    BY <1>1, <1>3
    DEF CourseKnown, EstimateBounds, NotBehind, NotAhead, Settled, Located, Blur, GetTimeFor
<1> QED
    BY <1>6, <1>7, <1>8 DEF FollowInv

LEMMA TickKeeps ==
    ASSUME FollowInv, Tick
    PROVE  FollowInv'
<1> DEFINE v     == player.pitch
           there == player.position + v
           ends  == player.playing /\ there >= TrackLength
<1>1. /\ TypeOK /\ PacketsTrue /\ CourseKnown /\ EstimateBounds
      /\ queue \in [Stream -> Seq(Packet)] /\ player \in Player
      /\ player.position \in Nat /\ v \in Nat /\ player.playing \in BOOLEAN /\ recount \in Nat
    BY PlayerTyped DEF FollowInv, TypeOK
<1>2. /\ player' = CASE ends -> [player EXCEPT !.position = TrackLength, !.playing = FALSE]
                     [] player.playing /\ ~ends -> [player EXCEPT !.position = there]
                     [] OTHER -> player
      /\ queue' = [s \in Stream |-> [i \in DOMAIN queue[s] |->
                      [queue[s][i] EXCEPT !.age = @ + 1, !.fresh = @ /\ ~ends]]]
      /\ settled' = IF ends THEN {} ELSE settled
      /\ since' = CASE ends -> 0 [] ~ends /\ since < Patience -> since + 1 [] OTHER -> since
      /\ due' = IF due = 0 THEN 0 ELSE due - 1
      /\ sent' = {} /\ UNCHANGED <<recount, changes>>
      /\ entry' = IF entry = None THEN None ELSE [entry EXCEPT !.age = @ + 1]
      /\ \A s \in Stream : \A i \in DOMAIN queue[s] : queue[s][i].age < MaxLag
    BY DEF Tick
<1>3. there \in Nat /\ ends \in BOOLEAN /\ TrackLength \in Nat
    BY <1>1, PositionsAssumption
<1> HIDE DEF there, ends
<1>4. /\ player' \in Player /\ player'.pitch = v /\ player'.analysed = player.analysed
      /\ ~ends => /\ player'.playing = player.playing
                  /\ player'.position = IF player.playing THEN there ELSE player.position
    <2> DEFINE ended   == [player EXCEPT !.position = TrackLength]
               final   == [ended EXCEPT !.playing = FALSE]
               moved   == [player EXCEPT !.position = there]
    <2>1. player' = CASE ends -> final [] player.playing /\ ~ends -> moved [] OTHER -> player
        <3>1. final = [player EXCEPT !.position = TrackLength, !.playing = FALSE]
            BY Zenon
        <3> HIDE DEF final, moved
        <3> QED
            BY <1>2, <3>1 DEF moved
    <2>2. ended \in Player /\ ended.pitch = v /\ ended.analysed = player.analysed
        <3>1. TrackLength \in 0..TrackLength
            BY <1>3
        <3> QED
            BY <1>1, <3>1 DEF Player
    <2> HIDE DEF ended
    <2>3. final \in Player /\ final.pitch = v /\ final.analysed = player.analysed
        BY <2>2 DEF Player
    <2>4. ASSUME player.playing, ~ends
          PROVE  /\ moved \in Player /\ moved.pitch = v /\ moved.analysed = player.analysed
                 /\ moved.playing = player.playing /\ moved.position = there
        <3>1. there \in 0..TrackLength
            BY <1>3, <2>4 DEF ends
        <3> QED
            BY <1>1, <3>1 DEF Player
    <2> HIDE DEF final, moved
    <2>5. CASE ends
        BY <2>1, <2>3, <2>5
    <2>6. CASE player.playing /\ ~ends
        BY <2>1, <2>4, <2>6
    <2>7. CASE ~player.playing /\ ~ends
        BY <1>1, <2>1, <2>7
    <2> QED
        BY <1>1, <1>3, <2>5, <2>6, <2>7
<1>5. ASSUME NEW s \in Stream, NEW i \in 1..Len(queue[s])
      PROVE  LET q == queue[s][i] new == queue'[s][i]
             IN  /\ q \in Packet /\ q.age + 1 \in 0..MaxLag /\ TrueStill(q) /\ Told(q)
                 /\ new \in Packet /\ new.age = q.age + 1 /\ new.fresh = (q.fresh /\ ~ends)
                 /\ new.playing = q.playing /\ new.pitch = q.pitch
                 /\ new.position = q.position /\ new.beatNumber = q.beatNumber
    <2> DEFINE q == queue[s][i]
               n == q.age + 1
               b == q.fresh /\ ~ends
    <2>1. q \in Packet /\ q.age < MaxLag /\ TrueStill(q) /\ Told(q)
        <3>1. i \in DOMAIN queue[s] /\ q \in Packet
            BY <1>1
        <3>2. q.age < MaxLag
            BY <1>2, <3>1
        <3> QED
            BY <1>1, <3>1, <3>2 DEF PacketsTrue
    <2>2. queue'[s][i] = [q EXCEPT !.age = n, !.fresh = b]
        <3>1. DOMAIN queue[s] = 1..Len(queue[s])
            BY <1>1
        <3>2. queue'[s] = [j \in DOMAIN queue[s] |->
                              [queue[s][j] EXCEPT !.age = @ + 1, !.fresh = @ /\ ~ends]]
            BY <1>2, Zenon
        <3>3. queue'[s][i] = [q EXCEPT !.age = @ + 1, !.fresh = @ /\ ~ends]
            BY <3>1, <3>2, Zenon
        <3> QED
            BY <3>3, Zenon
    <2>3. n \in 0..MaxLag /\ b \in BOOLEAN
        BY <2>1, PacketTyped, PositionsAssumption
    <2> DEFINE aged == [q EXCEPT !.age = n]
               new  == queue'[s][i]
    <2>4. new = [aged EXCEPT !.fresh = b]
        BY <2>2, Zenon
    <2> HIDE DEF q, n, b, new
    <2>5. /\ aged \in Packet /\ aged.age = n /\ aged.playing = q.playing /\ aged.pitch = q.pitch
          /\ aged.position = q.position /\ aged.beatNumber = q.beatNumber
        BY <2>1, <2>3 DEF Packet
    <2> HIDE DEF aged
    <2>6. /\ new \in Packet /\ new.age = n /\ new.fresh = b
          /\ new.playing = q.playing /\ new.pitch = q.pitch
          /\ new.position = q.position /\ new.beatNumber = q.beatNumber
        BY <2>3, <2>4, <2>5 DEF Packet
    <2> QED
        BY <2>1, <2>3, <2>6 DEF q, n, b, new
<1>6. /\ DOMAIN queue' = Stream /\ queue' = [s \in Stream |-> queue'[s]]
      /\ \A s \in Stream : queue'[s] = [i \in 1..Len(queue[s]) |-> queue'[s][i]]
    <2>1. DOMAIN queue' = Stream /\ queue' = [s \in Stream |-> queue'[s]]
        BY <1>2, Zenon
    <2>2. ASSUME NEW s \in Stream PROVE queue'[s] = [i \in 1..Len(queue[s]) |-> queue'[s][i]]
        <3>1. DOMAIN queue[s] = 1..Len(queue[s])
            BY <1>1
        <3>2. queue'[s] = [j \in DOMAIN queue[s] |->
                              [queue[s][j] EXCEPT !.age = @ + 1, !.fresh = @ /\ ~ends]]
            BY <1>2, Zenon
        <3> QED
            BY <3>1, <3>2, Zenon
    <2> QED
        BY <2>1, <2>2
<1>7. queue' \in [Stream -> Seq(Packet)] /\ \A s \in Stream : Len(queue'[s]) = Len(queue[s])
    BY <1>1, <1>5, <1>6, Underway
<1>8. PacketsTrue'
    <2> SUFFICES ASSUME NEW s \in Stream, NEW i \in 1..Len(queue'[s])
                 PROVE  TrueStill(queue[s][i])' /\ Told(queue[s][i])'
        BY DEF PacketsTrue
    <2> DEFINE q == queue[s][i]
               new == queue'[s][i]
    <2>1. /\ q \in Packet /\ TrueStill(q) /\ Told(q)
          /\ new.age = q.age + 1 /\ new.fresh = (q.fresh /\ ~ends)
          /\ new.playing = q.playing /\ new.pitch = q.pitch
          /\ new.position = q.position /\ new.beatNumber = q.beatNumber
        BY <1>5, <1>7
    <2>2. q.age \in Nat /\ q.position \in Nat /\ q.fresh \in BOOLEAN
        BY <2>1, PacketTyped
    <2>3. Told(queue[s][i])'
        BY <1>4, <2>1 DEF Told, Estimated
    <2>4. (q.age + 1) * v = q.age * v + v /\ q.age * v \in Nat
        BY <1>1, <2>2, Products
    <2>5. TrueStill(queue[s][i])'
        <3> SUFFICES ASSUME new.fresh
                     PROVE  /\ new.playing = player'.playing /\ new.pitch = player'.pitch
                            /\ player'.position = IF player'.playing
                                                  THEN new.position + new.age * player'.pitch
                                                  ELSE new.position
            BY DEF TrueStill, Reached
        <3>1. /\ q.fresh /\ ~ends /\ q.playing = player.playing /\ q.pitch = v
              /\ player.position = IF player.playing THEN q.position + q.age * v ELSE q.position
            BY <2>1 DEF TrueStill, Reached
        <3>2. /\ player'.playing = player.playing
              /\ player'.position = IF player.playing THEN player.position + v ELSE player.position
            BY <1>4, <3>1 DEF there
        <3> QED
            BY <1>1, <1>4, <2>1, <2>2, <2>4, <3>1, <3>2
    <2> QED
        BY <2>3, <2>5
<1>9. /\ entry' = None <=> entry = None
      /\ entry # None => /\ entry' \in PlayerPosition /\ entry'.playing = entry.playing
                         /\ entry'.precise = entry.precise /\ entry'.position = entry.position
                         /\ entry'.pitch = entry.pitch /\ entry'.age = entry.age + 1
    <2>1. entry \in PlayerPosition \union {None}
        BY <1>1 DEF TypeOK
    <2>2. ASSUME entry # None
          PROVE  /\ entry' \in PlayerPosition /\ entry'.playing = entry.playing
                 /\ entry'.precise = entry.precise /\ entry'.position = entry.position
                 /\ entry'.pitch = entry.pitch /\ entry'.age = entry.age + 1
        <3>1. entry' = [entry EXCEPT !.age = entry.age + 1] /\ entry \in PlayerPosition
            BY <1>2, <2>1, <2>2
        <3> QED
            BY <3>1 DEF PlayerPosition
    <2> QED
        BY <1>2, <2>2, NoneAssumption
<1>10. TypeOK'
    <2>1. due' \in 0..StatusInterval
        <3>1. due \in 0..StatusInterval /\ StatusInterval \in Nat
            BY <1>1, PositionsAssumption DEF TypeOK
        <3>2. due' = IF due = 0 THEN 0 ELSE due - 1
            BY <1>2
        <3> QED
            BY <3>1, <3>2
    <2>2. settled' \subseteq Course /\ sent' \subseteq Stream
        BY <1>1, <1>2 DEF TypeOK
    <2>3. since' \in 0..Patience
        <3>1. since \in 0..Patience /\ Patience \in Nat
            BY <1>1, PatienceNat DEF TypeOK
        <3>2. since' \in {0, since} \/ (since < Patience /\ since' = since + 1)
            BY <1>2, <1>3
        <3> QED
            BY <3>1, <3>2
    <2> QED
        BY <1>1, <1>2, <1>4, <1>7, <1>9, <2>1, <2>2, <2>3 DEF TypeOK
<1>11. CourseKnown'
    BY <1>1, <1>2, <1>4, <1>9 DEF CourseKnown, Course
<1>12. EstimateBounds'
    <2> SUFFICES ASSUME Settled' PROVE EstimateBounds'
        BY DEF EstimateBounds
    <2>1. ~ends /\ Settled /\ entry.playing = player.playing /\ entry.pitch = v /\ Blur' = Blur
        BY <1>1, <1>2, <1>4, <1>9 DEF Settled, Located, CourseKnown, Blur, Course
    <2>2. /\ entry \in PlayerPosition /\ entry.age \in Nat /\ entry.position \in Nat
        BY <1>1, <2>1 DEF TypeOK, Settled, PlayerPosition
    <2>3. (entry.age + 1) * v = entry.age * v + v /\ entry.age * v \in Nat /\ recount * v \in Nat
        BY <1>1, <2>2, Products
    <2>4. /\ GetTimeFor(entry) = IF player.playing THEN entry.position + entry.age * v ELSE entry.position
          /\ GetTimeFor(entry)' = IF player.playing THEN entry.position + (entry.age + 1) * v
                                  ELSE entry.position
        <3>1. /\ GetTimeFor(entry) = IF entry.playing THEN entry.position + entry.age * entry.pitch
                                    ELSE entry.position
              /\ GetTimeFor(entry') = IF entry'.playing THEN entry'.position + entry'.age * entry'.pitch
                                     ELSE entry'.position
            BY <1>9, <2>1, <2>2, ToldIs DEF Settled
        <3>2. GetTimeFor(entry)' = GetTimeFor(entry')
            BY DEF GetTimeFor
        <3> QED
            BY <1>9, <2>1, <3>1, <3>2 DEF Settled
    <2>5. player'.position = IF player.playing THEN player.position + v ELSE player.position
        BY <1>4, <2>1 DEF there
    <2>6. /\ GetTimeFor(entry) >= player.position - Blur
          /\ GetTimeFor(entry) <= player.position + recount * v
        BY <1>1, <2>1 DEF EstimateBounds, NotBehind, NotAhead
    <2>7. Blur \in Int
        BY PositionsAssumption DEF Blur
    <2>8. /\ GetTimeFor(entry)' >= player'.position - Blur
          /\ GetTimeFor(entry)' <= player'.position + recount * v
        <3> DEFINE told == GetTimeFor(entry)
                   ahead == recount * v
                   blur == Blur
                   gone == entry.age * v
                   goes == (entry.age + 1) * v
        <3>1. /\ gone \in Nat /\ goes = gone + v /\ ahead \in Nat /\ blur \in Int /\ v \in Nat
              /\ entry.position \in Nat /\ player.position \in Nat
            BY <1>1, <2>2, <2>3, <2>7
        <3>2. /\ told = IF player.playing THEN entry.position + gone ELSE entry.position
              /\ told' = IF player.playing THEN entry.position + goes ELSE entry.position
              /\ told >= player.position - blur /\ told <= player.position + ahead
            BY <2>4, <2>6
        <3> HIDE DEF told, ahead, blur, gone, goes, v
        <3>3. told' >= player'.position - blur /\ told' <= player'.position + ahead
            BY <3>1, <3>2, <2>5
        <3> QED
            BY <3>3 DEF told, ahead, blur
    <2> QED
        BY <1>2, <1>4, <2>1, <2>8 DEF EstimateBounds, NotBehind, NotAhead
<1> QED
    BY <1>8, <1>10, <1>11, <1>12 DEF FollowInv

-----------------------------------------------------------------------------
(* What TimeFinder does with a packet *)

LEMMA Taken ==
    ASSUME FollowInv, NEW s \in Stream, Take(s)
    PROVE  /\ Head(queue[s]) \in Packet /\ TrueStill(Head(queue[s])) /\ Told(Head(queue[s]))
           /\ queue' \in [Stream -> Seq(Packet)] /\ PacketsTrue'
           /\ UNCHANGED <<player, due, sent, since, changes>>
<1>1. /\ PacketsTrue /\ queue \in [Stream -> Seq(Packet)] /\ queue[s] # <<>>
      /\ queue' = [queue EXCEPT ![s] = Tail(queue[s])] /\ UNCHANGED <<player, due, sent, since, changes>>
    BY DEF FollowInv, TypeOK, Take
<1>2. 1 \in 1..Len(queue[s]) /\ Head(queue[s]) = queue[s][1] /\ queue[s][1] \in Packet
    BY <1>1
<1>3. TrueStill(Head(queue[s])) /\ Told(Head(queue[s]))
    BY <1>1, <1>2 DEF PacketsTrue
<1>4. /\ Tail(queue[s]) \in Seq(Packet)
      /\ \A i \in 1..Len(Tail(queue[s])) : i + 1 \in 1..Len(queue[s])
                                           /\ Tail(queue[s])[i] = queue[s][i + 1]
    BY <1>1
<1>5. queue' \in [Stream -> Seq(Packet)]
    BY <1>1, <1>4
<1>6. PacketsTrue'
    <2> SUFFICES ASSUME NEW t \in Stream, NEW i \in 1..Len(queue'[t])
                 PROVE  TrueStill(queue[t][i])' /\ Told(queue[t][i])'
        BY DEF PacketsTrue
    <2>1. \E j \in 1..Len(queue[t]) : queue'[t][i] = queue[t][j]
        <3>1. CASE t = s
            BY <1>1, <1>4, <3>1
        <3>2. CASE t # s
            BY <1>1, <3>2
        <3> QED
            BY <3>1, <3>2
    <2>2. TrueStill(queue'[t][i]) /\ Told(queue'[t][i])
        BY <1>1, <2>1 DEF PacketsTrue
    <2> QED
        BY <1>1, <2>2 DEF TrueStill, Told, Reached
<1> QED
    BY <1>1, <1>2, <1>3, <1>5, <1>6

\* The entry a handler starts from.
LEMMA EntryTyped ==
    ASSUME TypeOK, NEW p \in Packet, NEW playing \in BOOLEAN, NEW pitch \in Nat
    PROVE  LET e == IF entry = None THEN NewEntry(p, playing, pitch) ELSE entry
           IN  e \in PlayerPosition /\ (entry = None => e.precise = FALSE)
<1>1. /\ NewEntry(p, playing, pitch) \in PlayerPosition
      /\ NewEntry(p, playing, pitch).precise = FALSE
    BY PacketTyped DEF NewEntry, PlayerPosition
<1>2. entry \in PlayerPosition \union {None}
    BY DEF TypeOK
<1> QED
    BY <1>1, <1>2

\* A handler keeps the invariant if it keeps the course and the bounds.
LEMMA Handled ==
    ASSUME FollowInv, NEW s \in Stream, Take(s), entry' \in PlayerPosition,
           settled' \subseteq Course, recount' \in Nat,
           "position" \in settled' => settled' = Course,
           "playing" \in settled' => entry'.playing = player.playing,
           "pitch" \in settled' => entry'.pitch = player.pitch,
           Settled' => /\ GetTimeFor(entry') >= player.position - Blur'
                       /\ GetTimeFor(entry') <= player.position + recount' * player.pitch
    PROVE  FollowInv'
<1>1. /\ queue' \in [Stream -> Seq(Packet)] /\ PacketsTrue'
      /\ UNCHANGED <<player, due, sent, since, changes>>
    BY Taken
<1>2. entry' # None
    BY NoneAssumption
<1>3. TypeOK'
    BY <1>1 DEF FollowInv, TypeOK
<1>4. CourseKnown'
    BY <1>1, <1>2 DEF CourseKnown
<1>5. GetTimeFor(entry)' = GetTimeFor(entry')
    BY <1>1 DEF GetTimeFor
<1>6. EstimateBounds'
    BY <1>1, <1>5 DEF EstimateBounds, NotBehind, NotAhead
<1> QED
    BY <1>1, <1>3, <1>4, <1>6 DEF FollowInv

\* What the bounds say of an entry that has heard all.
LEMMA Bounded ==
    ASSUME FollowInv, settled = Course, Located
    PROVE  /\ entry # None /\ entry.playing = player.playing /\ entry.pitch = player.pitch
           /\ GetTimeFor(entry) >= player.position - Blur
           /\ GetTimeFor(entry) <= player.position + recount * player.pitch
BY DEF FollowInv, CourseKnown, EstimateBounds, NotBehind, NotAhead, Settled, Course

\* snap_forward keeps the bounds: what it adds is counted.
LEMMA SnapKeepsBounds ==
    ASSUME FollowInv, settled = Course, Located, NEW p \in Packet
    PROVE  LET now   == GetTimeFor(SnapForward(entry, p))
               twice == recount + Recounted(entry, p)
           IN  now >= player.position - Blur /\ now <= player.position + twice * player.pitch
<1> DEFINE v == player.pitch
           r == Recounted(entry, p)
           told == GetTimeFor(entry)
<1>1. /\ TypeOK /\ entry \in PlayerPosition /\ entry.pitch = v
      /\ told >= player.position - Blur /\ told <= player.position + recount * v
    BY Bounded DEF FollowInv, TypeOK
<1>2. r \in Nat /\ told \in Nat /\ GetTimeFor(SnapForward(entry, p)) = told + r * v
    BY <1>1, SnapForwardIs
<1>3. recount \in Nat /\ v \in Nat /\ player.position \in Nat /\ Blur \in Int
    BY <1>1, PlayerTyped, PositionsAssumption DEF Blur
<1> HIDE DEF v, r, told
<1>4. r * v \in Nat /\ recount * v \in Nat /\ (recount + r) * v = recount * v + r * v
    BY <1>2, <1>3
<1> QED
    BY <1>1, <1>2, <1>3, <1>4 DEF v, r

\* The snapped entry, with the playing state and the pitch of the packet, is told the
\* same if neither is new.
LEMMA SameTold ==
    ASSUME NEW a \in PlayerPosition, NEW b \in PlayerPosition,
           a.position = b.position, a.age = b.age, a.playing = b.playing, a.pitch = b.pitch
    PROVE  GetTimeFor(a) = GetTimeFor(b)
BY DEF GetTimeFor

LEMMA OnCdjStatusKeeps ==
    ASSUME FollowInv, OnCdjStatus
    PROVE  FollowInv'
<1> DEFINE p == Head(queue["status"])
           e == IF entry = None THEN NewEntry(p, FALSE, 1) ELSE entry
           v == player.pitch
<1>1. /\ Take("status") /\ "status" \in Stream
      /\ entry' = IF e.precise
                  THEN [SnapForward(e, p) EXCEPT !.playing = p.playing, !.pitch = p.pitch]
                  ELSE [position |-> Estimated(p), playing |-> p.playing,
                        pitch |-> p.pitch, age |-> p.age, precise |-> FALSE]
      /\ recount' = IF e.precise THEN recount + Recounted(e, p) ELSE 0
      /\ settled' = CASE ~p.fresh -> {}
                      [] p.fresh /\ e.precise -> settled \union {"playing", "pitch"}
                      [] OTHER -> Course
    BY DEF OnCdjStatus, Stream
<1>2. /\ TypeOK /\ p \in Packet /\ TrueStill(p) /\ Told(p) /\ player' = player
    BY <1>1, Taken DEF FollowInv
<1>3. /\ p.age \in Nat /\ p.position \in Nat /\ p.playing \in BOOLEAN /\ p.fresh \in BOOLEAN
      /\ p.pitch \in Nat /\ Estimated(p) \in Nat
    BY <1>2, PacketTyped
<1>4. e \in PlayerPosition /\ (e.precise => entry # None /\ e = entry)
    BY <1>2, EntryTyped
<1>5. /\ v \in Nat /\ player.position \in Nat /\ recount \in Nat /\ settled \subseteq Course
    BY <1>2, PlayerTyped DEF TypeOK
<1> HIDE DEF p, e
<1>settled. settled' = CASE ~p.fresh -> {}
                      [] p.fresh /\ e.precise -> settled \union {"playing", "pitch"}
                      [] OTHER -> Course
    BY <1>1
<1>6. CASE e.precise
    <2> DEFINE snap == SnapForward(e, p)
               twice == Recounted(e, p)
    <2>1. /\ snap \in PlayerPosition /\ snap.playing = e.playing /\ snap.precise = e.precise
          /\ snap.pitch = e.pitch /\ twice \in Nat
        BY <1>2, <1>4, SnapForwardIs
    <2> DEFINE played == [snap EXCEPT !.playing = p.playing]
    <2>2. entry' = [played EXCEPT !.pitch = p.pitch] /\ recount' = recount + twice
        BY <1>1, <1>6
    <2>3. settled' = IF p.fresh THEN settled \union {"playing", "pitch"} ELSE {}
        <3>1. CASE p.fresh
            BY <1>6, <1>settled, <3>1
        <3>2. CASE ~p.fresh
            BY <1>6, <1>settled, <3>2
        <3> QED
            BY <1>3, <3>1, <3>2
    <2> HIDE DEF snap, twice
    <2>4. /\ entry' \in PlayerPosition /\ entry'.playing = p.playing /\ entry'.precise
          /\ entry'.pitch = p.pitch
          /\ entry'.position = snap.position /\ entry'.age = snap.age
        <3>1. /\ played \in PlayerPosition /\ played.playing = p.playing
              /\ played.precise = snap.precise
              /\ played.position = snap.position /\ played.age = snap.age
            BY <1>3, <2>1 DEF PlayerPosition
        <3> HIDE DEF played
        <3> QED
            BY <1>3, <1>6, <2>1, <2>2, <3>1 DEF PlayerPosition
    <2> HIDE DEF played
    <2>5. /\ "playing" \in settled' => p.fresh /\ entry'.playing = player.playing
          /\ "pitch" \in settled' => entry'.pitch = player.pitch
        BY <1>2, <2>3, <2>4 DEF TrueStill
    <2>6. ASSUME Settled'
          PROVE  /\ GetTimeFor(entry') >= player.position - Blur'
                 /\ GetTimeFor(entry') <= player.position + recount' * v
        <3>1. p.fresh /\ "position" \in settled
            BY <2>3, <2>6 DEF Settled, Course
        <3>2. settled = Course
            BY <3>1 DEF FollowInv, CourseKnown
        <3>3. Located /\ Blur' = Blur /\ e = entry
            BY <1>4, <1>6, <2>4 DEF Located, Blur
        <3>4. GetTimeFor(snap) >= player.position - Blur /\ GetTimeFor(snap) <= player.position + recount' * v
            BY <1>2, <2>2, <3>2, <3>3, SnapKeepsBounds DEF snap, twice
        <3>5. /\ entry.playing = player.playing /\ entry'.playing = player.playing
              /\ entry.pitch = v /\ entry'.pitch = v
            BY <1>2, <2>4, <3>1, <3>2, <3>3, Bounded DEF TrueStill
        <3>6. GetTimeFor(entry') = GetTimeFor(snap)
            BY <2>1, <2>4, <3>3, <3>5, SameTold
        <3> QED
            BY <3>3, <3>4, <3>6
    <2>7. settled' \subseteq Course /\ recount' \in Nat
          /\ ("position" \in settled' => settled' = Course)
        <3>1. "position" \in settled => settled = Course
            BY DEF FollowInv, CourseKnown
        <3> QED
            BY <1>5, <2>1, <2>2, <2>3, <3>1 DEF Course
    <2> QED
        BY <1>1, <2>4, <2>5, <2>6, <2>7, Handled
<1>7. CASE ~e.precise
    <2>1. /\ entry' = [position |-> Estimated(p), playing |-> p.playing,
                       pitch |-> p.pitch, age |-> p.age, precise |-> FALSE]
          /\ recount' = 0 /\ settled' = IF p.fresh THEN Course ELSE {}
        BY <1>1, <1>3, <1>7
    <2>2. entry' \in PlayerPosition
        BY <1>3, <2>1 DEF PlayerPosition
    <2>3. /\ "playing" \in settled' => entry'.playing = player.playing
          /\ "pitch" \in settled' => entry'.pitch = player.pitch
        BY <1>2, <2>1 DEF TrueStill
    <2>4. ASSUME Settled'
          PROVE  /\ GetTimeFor(entry') >= player.position - Blur'
                 /\ GetTimeFor(entry') <= player.position + recount' * v
        <3>1. p.fresh /\ player.analysed /\ Blur' = Beat - 1
            BY <1>2, <2>1, <2>4 DEF Settled, Located, Blur, Course
        <3>2. /\ p.playing = player.playing /\ p.pitch = v
              /\ player.position = IF player.playing THEN p.position + p.age * v ELSE p.position
              /\ Estimated(p) <= p.position /\ p.position - (Beat - 1) <= Estimated(p)
            BY <1>2, <3>1 DEF TrueStill, Reached, Told
        <3>3. GetTimeFor(entry') = IF player.playing THEN Estimated(p) + p.age * v ELSE Estimated(p)
            BY <2>1, <2>2, <3>2, ToldIs
        <3>4. p.age * v \in Nat /\ 0 * v = 0 /\ Beat \in Nat
            BY <1>3, <1>5, PositionsAssumption
        <3> DEFINE gone == p.age * v
                   est == Estimated(p)
                   nil == 0 * v
        <3>5. /\ gone \in Nat /\ nil = 0 /\ est \in Nat
              /\ player.position = IF player.playing THEN p.position + gone ELSE p.position
              /\ GetTimeFor(entry') = IF player.playing THEN est + gone ELSE est
              /\ est <= p.position /\ p.position - (Beat - 1) <= est
            BY <1>3, <3>2, <3>3, <3>4
        <3> HIDE DEF gone, est, nil, v
        <3>6. /\ GetTimeFor(entry') >= player.position - (Beat - 1)
              /\ GetTimeFor(entry') <= player.position + nil
            BY <1>3, <3>4, <3>5
        <3> QED
            BY <2>1, <3>1, <3>6 DEF nil
    <2>5. settled' \subseteq Course /\ recount' \in Nat
          /\ ("position" \in settled' => settled' = Course)
        BY <2>1 DEF Course
    <2> QED
        BY <1>1, <2>2, <2>3, <2>4, <2>5, Handled
<1> QED
    BY <1>6, <1>7

LEMMA OnPrecisePositionKeeps ==
    ASSUME FollowInv, OnPrecisePosition
    PROVE  FollowInv'
<1> DEFINE p == Head(queue["precise"])
           e == IF entry = None THEN NewEntry(p, FALSE, 1) ELSE entry
           v == player.pitch
<1>1. /\ Take("precise") /\ "precise" \in Stream
      /\ entry' = [position |-> p.position, playing |-> e.playing, pitch |-> p.pitch,
                   age |-> p.age, precise |-> TRUE]
      /\ settled' = Heard(p, TRUE)
      /\ recount' = 0
    BY DEF OnPrecisePosition, Stream
<1>2. /\ TypeOK /\ CourseKnown /\ p \in Packet /\ TrueStill(p) /\ player' = player
    BY <1>1, Taken DEF FollowInv
<1>3. p.age \in Nat /\ p.position \in Nat /\ p.pitch \in Nat
    BY <1>2, PacketTyped
<1>4. e \in PlayerPosition
    BY <1>2, EntryTyped
<1>5. /\ v \in Nat /\ player.position \in Nat /\ settled \subseteq Course
    BY <1>2, PlayerTyped DEF TypeOK
<1>6. "playing" \in settled => e = entry /\ entry.playing = player.playing
    BY <1>2 DEF CourseKnown
<1> HIDE DEF p, e
<1>7. entry' \in PlayerPosition
    BY <1>1, <1>3, <1>4 DEF PlayerPosition
<1>8. /\ settled' \subseteq Course
      /\ "position" \in settled' => p.fresh /\ "playing" \in settled /\ settled' = Course
      /\ "playing" \in settled' => "playing" \in settled
      /\ "pitch" \in settled' => p.fresh
    <2>1. CASE p.fresh /\ "playing" \in settled
        <3>1. settled' = settled \union {"pitch"} \union {"position"}
            BY <1>1, <2>1 DEF Heard
        <3> QED
            BY <1>5, <2>1, <3>1 DEF Course
    <2>2. CASE p.fresh /\ "playing" \notin settled
        <3>1. settled' = settled \union {"pitch"} /\ "position" \notin settled
            BY <1>1, <1>2, <2>2 DEF Heard, CourseKnown, Course
        <3> QED
            BY <1>5, <2>2, <3>1 DEF Course
    <2>3. CASE ~p.fresh
        BY <1>1, <1>5, <2>3 DEF Heard
    <2> QED
        BY <2>1, <2>2, <2>3
<1>9. ASSUME Settled'
      PROVE  /\ GetTimeFor(entry') >= player.position - Blur'
             /\ GetTimeFor(entry') <= player.position + recount' * v
    <2>1. p.fresh /\ "playing" \in settled /\ Blur' = 0
        BY <1>1, <1>8, <1>9 DEF Settled, Blur, Course
    <2>2. /\ player.position = IF player.playing THEN p.position + p.age * v ELSE p.position
          /\ p.pitch = v
        BY <1>2, <2>1 DEF TrueStill, Reached
    <2>3. GetTimeFor(entry') = player.position
        BY <1>1, <1>6, <1>7, <2>1, <2>2, ToldIs
    <2>4. recount' * v = 0
        BY <1>1, <1>5
    <2> QED
        BY <1>5, <2>1, <2>3, <2>4
<1>10. /\ "playing" \in settled' => entry'.playing = player.playing
       /\ "pitch" \in settled' => entry'.pitch = player.pitch
    BY <1>1, <1>2, <1>6, <1>8 DEF TrueStill
<1> QED
    BY <1>1, <1>7, <1>8, <1>9, <1>10, Handled

LEMMA OnBeatKeeps ==
    ASSUME FollowInv, OnBeat
    PROVE  FollowInv'
<1> DEFINE p == Head(queue["beat"])
           e == IF entry = None THEN NewEntry(p, TRUE, p.pitch) ELSE entry
           snap == SnapForward(e, p)
           v == player.pitch
<1>1. /\ Take("beat") /\ "beat" \in Stream /\ settled' = Heard(p, FALSE)
      /\ entry' = [snap EXCEPT !.pitch = p.pitch] /\ recount' = recount + Recounted(e, p)
    BY DEF OnBeat, Stream
<1>2. /\ TypeOK /\ CourseKnown /\ p \in Packet /\ TrueStill(p) /\ player' = player
    BY <1>1, Taken DEF FollowInv
<1>3. p.pitch \in Nat
    BY <1>2, PacketTyped
<1>4. e \in PlayerPosition
    BY <1>2, <1>3, EntryTyped
<1>5. recount \in Nat /\ settled \subseteq Course
    BY <1>2, PlayerTyped DEF TypeOK
<1>6. "playing" \in settled => e = entry /\ entry.playing = player.playing
    BY <1>2 DEF CourseKnown
<1> HIDE DEF p, e
<1>7. /\ snap \in PlayerPosition /\ snap.playing = e.playing /\ snap.precise = e.precise
      /\ snap.pitch = e.pitch /\ Recounted(e, p) \in Nat
    BY <1>2, <1>4, SnapForwardIs
<1> HIDE DEF snap
<1>8. /\ entry' \in PlayerPosition /\ entry'.playing = e.playing /\ entry'.precise = e.precise
      /\ entry'.pitch = p.pitch
      /\ entry'.position = snap.position /\ entry'.age = snap.age
    BY <1>1, <1>3, <1>7 DEF PlayerPosition
<1>9. /\ settled' \subseteq Course
      /\ "position" \in settled' => p.fresh /\ "position" \in settled
      /\ "playing" \in settled' => "playing" \in settled
      /\ "pitch" \in settled' => p.fresh
      /\ p.fresh => settled \subseteq settled'
    BY <1>1, <1>5 DEF Heard, Course
<1>10. "position" \in settled' => settled = Course /\ settled' = Course
    BY <1>2, <1>9 DEF CourseKnown, Course
<1>11. ASSUME Settled'
       PROVE  /\ GetTimeFor(entry') >= player.position - Blur'
              /\ GetTimeFor(entry') <= player.position + recount' * v
    <2>1. p.fresh /\ settled = Course
        BY <1>9, <1>10, <1>11 DEF Settled, Course
    <2>2. e = entry
        BY <1>6, <2>1 DEF Course
    <2>3. Located /\ Blur' = Blur
        BY <1>2, <1>8, <1>11, <2>2 DEF Settled, Located, Blur
    <2>4. entry.pitch = v /\ p.pitch = v
        BY <1>2, <2>1, <2>3, Bounded DEF TrueStill
    <2>5. GetTimeFor(entry') = GetTimeFor(snap)
        BY <1>7, <1>8, <2>2, <2>4, SameTold
    <2> QED
        BY <1>1, <1>2, <2>1, <2>2, <2>3, <2>5, SnapKeepsBounds DEF snap
<1>12. /\ recount' \in Nat
       /\ "playing" \in settled' => entry'.playing = player.playing
       /\ "pitch" \in settled' => entry'.pitch = player.pitch
    <2>1. recount' \in Nat
        BY <1>1, <1>5, <1>7
    <2>2. "playing" \in settled' => entry'.playing = player.playing
        BY <1>6, <1>8, <1>9
    <2>3. "pitch" \in settled' => entry'.pitch = player.pitch
        BY <1>2, <1>8, <1>9 DEF TrueStill
    <2> QED
        BY <2>1, <2>2, <2>3
<1> QED
    BY <1>1, <1>8, <1>9, <1>10, <1>11, <1>12, Handled

-----------------------------------------------------------------------------
(* The theorems *)

LEMMA FollowInit == Init => FollowInv
<1> SUFFICES ASSUME Init PROVE FollowInv
    OBVIOUS
<1>1. \A s \in Stream : queue[s] = <<>>
    BY DEF Init
<1>2. TypeOK
    <2>1. queue \in [Stream -> Seq(Packet)]
        BY DEF Init
    <2> QED
        BY <2>1, PatienceNat, PositionsAssumption DEF Init, TypeOK
<1>3. PacketsTrue
    BY <1>1 DEF PacketsTrue
<1>4. CourseKnown /\ EstimateBounds
    BY DEF Init, CourseKnown, EstimateBounds, Settled, Course
<1> QED
    BY <1>2, <1>3, <1>4 DEF FollowInv

LEMMA FollowNext == FollowInv /\ [Next]_vars => FollowInv'
<1> SUFFICES ASSUME FollowInv, [Next]_vars PROVE FollowInv'
    OBVIOUS
<1>1. CASE StartOrStop \/ Jump \/ SetPitch \/ TakeOver
    BY <1>1, ChangeKeeps
<1>2. CASE Tick
    BY <1>2, TickKeeps
<1>3. CASE \E s \in Stream : Send(s)
    BY <1>3, SendKeeps
<1>4. CASE OnCdjStatus
    BY <1>4, OnCdjStatusKeeps
<1>5. CASE OnPrecisePosition
    BY <1>5, OnPrecisePositionKeeps
<1>6. CASE OnBeat
    BY <1>6, OnBeatKeeps
<1>7. CASE RemovePlayer \/ UNCHANGED vars
    <2>1. /\ UNCHANGED <<player, due, sent, queue>>
          /\ \/ /\ entry' = None /\ settled' = {} /\ recount' = 0
                /\ changes > 0 /\ changes' = changes - 1 /\ since' = 0
             \/ UNCHANGED <<entry, settled, recount, changes, since>>
        BY <1>7 DEF RemovePlayer, vars
    <2>2. TypeOK'
        <3>1. changes' \in 0..MaxChanges /\ recount' \in Nat
            BY <2>1, PositionsAssumption DEF FollowInv, TypeOK
        <3>2. /\ entry' \in PlayerPosition \union {None} /\ settled' \subseteq Course
              /\ since' \in 0..Patience
            BY <2>1, PatienceNat DEF FollowInv, TypeOK
        <3> QED
            BY <2>1, <3>1, <3>2 DEF FollowInv, TypeOK
    <2>3. PacketsTrue'
        BY <2>1 DEF FollowInv, PacketsTrue, TrueStill, Told, Reached
    <2>4. CourseKnown' /\ EstimateBounds'
        BY <2>1 DEF FollowInv, CourseKnown, EstimateBounds, NotBehind, NotAhead, Settled,
                    Located, Blur, GetTimeFor, Course
    <2> QED
        BY <2>2, <2>3, <2>4 DEF FollowInv
<1> QED
    BY <1>1, <1>2, <1>3, <1>4, <1>5, <1>6, <1>7 DEF Next

LEMMA FollowAlways == Spec => []FollowInv
BY FollowInit, FollowNext, PTL DEF Spec

-----------------------------------------------------------------------------
(***************************************************************************)
(* How long a course stays unknown.  Old packets are gone MaxLag steps     *)
(* after a change.  The first status packet of the new course, sent within *)
(* StatusInterval steps, tells whether the player plays, and no old one    *)
(* comes after it.  From then on a precise packet makes everything known;  *)
(* for a player without them the first status packet sent when no old      *)
(* packet was left does.                                                   *)
(***************************************************************************)
InQueue(s) == 1..Len(queue[s])

SentDue == "status" \in sent => due = StatusInterval

StaleOld == \A s \in Stream : \A i \in InQueue(s) : ~queue[s][i].fresh => since <= queue[s][i].age

\* In the stream of status packets the old ones come first.
StaleFirst == \A i, j \in InQueue("status") :
                  i < j /\ ~queue["status"][j].fresh => ~queue["status"][i].fresh

\* A packet of this course, sent at most n steps after the change, waits to be handled.
Waits(s, n) == \E i \in InQueue(s) : queue[s][i].fresh /\ since <= queue[s][i].age + n

\* ... or will be sent in that time.
StatusBy(n) == Waits("status", n) \/ since + due <= n

StatusStale == \E i \in InQueue("status") : ~queue["status"][i].fresh

PlayingInTime == "playing" \notin settled \/ StatusStale => StatusBy(StatusInterval)

PlainInTime ==
    since > MaxLag /\ ~player.cdj3000 /\ ~Stuck /\ settled # Course
        => StatusBy(MaxLag + StatusInterval)

Later == MaxLag + StatusInterval + 1

PreciseInTime ==
    since >= Later /\ player.cdj3000 /\ settled # Course
        => Waits("precise", Later) \/ (since = Later /\ "precise" \notin sent)

TimeInv == SentDue /\ StaleOld /\ StaleFirst /\ PlayingInTime /\ PlainInTime /\ PreciseInTime

\* What is known of the numbers and of the packets.
LEMMA TimeTyped ==
    ASSUME TypeOK
    PROVE  /\ MaxLag \in Nat /\ StatusInterval \in Nat \ {0} /\ due \in 0..StatusInterval
           /\ since \in 0..Patience /\ Patience = 2 * MaxLag + StatusInterval + 2
           /\ Later = MaxLag + StatusInterval + 1
           /\ settled \subseteq Course /\ player.cdj3000 \in BOOLEAN
           /\ queue \in [Stream -> Seq(Packet)]
<1>1. /\ MaxLag \in Nat /\ StatusInterval \in Nat \ {0} /\ due \in 0..StatusInterval
      /\ since \in 0..Patience /\ settled \subseteq Course /\ player.cdj3000 \in BOOLEAN
      /\ queue \in [Stream -> Seq(Packet)]
    BY PositionsAssumption DEF TypeOK, Player
<1> QED
    BY <1>1 DEF Patience, Later

LEMMA QueueTyped ==
    ASSUME NEW q \in [Stream -> Seq(Packet)], NEW s \in Stream
    PROVE  /\ q[s] \in Seq(Packet) /\ Len(q[s]) \in Nat /\ DOMAIN q[s] = 1..Len(q[s])
           /\ \A i \in 1..Len(q[s]) : /\ q[s][i] \in Packet /\ q[s][i].age \in 0..MaxLag
                                      /\ q[s][i].fresh \in BOOLEAN
<1>1. q[s] \in Seq(Packet) /\ Len(q[s]) \in Nat /\ DOMAIN q[s] = 1..Len(q[s])
    OBVIOUS
<1>2. ASSUME NEW i \in 1..Len(q[s])
      PROVE  q[s][i] \in Packet /\ q[s][i].age \in 0..MaxLag /\ q[s][i].fresh \in BOOLEAN
    <2>1. q[s][i] \in Packet
        BY <1>1, <1>2
    <2> QED
        BY <2>1, PacketTyped
<1> QED
    BY <1>1, <1>2

\* Whatever sets the count back to nothing starts anew.
LEMMA Restarted ==
    ASSUME TypeOK', since' = 0, SentDue', StaleFirst'
    PROVE  TimeInv'
<1>1. /\ MaxLag \in Nat /\ StatusInterval \in Nat /\ due' \in 0..StatusInterval
      /\ queue' \in [Stream -> Seq(Packet)]
    BY PositionsAssumption DEF TypeOK
<1>2. StaleOld'
    <2> SUFFICES ASSUME NEW s \in Stream, NEW i \in 1..Len(queue'[s])
                 PROVE  since' <= queue'[s][i].age
        BY DEF StaleOld, InQueue
    <2>1. queue'[s][i].age \in 0..MaxLag
        BY <1>1, QueueTyped
    <2> QED
        BY <1>1, <2>1
<1>3. StatusBy(StatusInterval)'
    <2>1. ASSUME NEW n \in 0..StatusInterval
          PROVE  0 + n <= StatusInterval
        BY <1>1
    <2> QED
        BY <1>1, <2>1, Zenon DEF StatusBy
<1>4. PlainInTime' /\ PreciseInTime'
    <2>1. ~(since' > MaxLag) /\ ~(since' >= Later)
        BY <1>1 DEF Later
    <2> QED
        BY <2>1 DEF PlainInTime, PreciseInTime, Later
<1> QED
    BY <1>2, <1>3, <1>4 DEF TimeInv, PlayingInTime

LEMMA ChangeInTime ==
    ASSUME TypeOK, TypeOK', TimeInv, StartOrStop \/ Jump \/ SetPitch \/ TakeOver
    PROVE  TimeInv'
<1>1. queue' = Stale /\ since' = 0 /\ UNCHANGED <<due, sent>>
    BY DEF StartOrStop, Jump, SetPitch, TakeOver, Change
<1>2. /\ queue \in [Stream -> Seq(Packet)] /\ queue' \in [Stream -> Seq(Packet)]
    BY DEF TypeOK
<1>3. ASSUME NEW i \in 1..Len(queue'["status"])
      PROVE  ~queue'["status"][i].fresh
    <2>1. /\ queue'["status"] = [j \in DOMAIN queue["status"] |->
                                    [queue["status"][j] EXCEPT !.fresh = FALSE]]
          /\ "status" \in Stream
        BY <1>1 DEF Stale, Stream
    <2>2. i \in DOMAIN queue["status"]
        BY <1>2, <2>1
    <2>3. queue["status"][i] \in Packet
        BY <1>2, <2>1, <2>2, QueueTyped
    <2>4. [queue["status"][i] EXCEPT !.fresh = FALSE].fresh = FALSE
        BY <2>3 DEF Packet
    <2> QED
        BY <2>1, <2>2, <2>4
<1>4. StaleFirst' /\ SentDue'
    BY <1>1, <1>3 DEF StaleFirst, InQueue, TimeInv, SentDue
<1> QED
    BY <1>1, <1>4, Restarted

LEMMA RemoveInTime ==
    ASSUME TypeOK, TypeOK', TimeInv, RemovePlayer
    PROVE  TimeInv'
<1>1. UNCHANGED <<due, sent, queue>> /\ since' = 0
    BY DEF RemovePlayer
<1>2. StaleFirst' /\ SentDue'
    BY <1>1 DEF StaleFirst, InQueue, TimeInv, SentDue
<1> QED
    BY <1>1, <1>2, Restarted

LEMMA SendInTime ==
    ASSUME TypeOK, TypeOK', TimeInv, NEW s \in Stream, Send(s)
    PROVE  TimeInv'
<1> DEFINE p == [age |-> 0, playing |-> player.playing, pitch |-> player.pitch,
                 position |-> player.position,
                 beatNumber |-> IF player.analysed THEN BeatNumber ELSE None, fresh |-> TRUE]
<1>1. /\ s \notin sent /\ Ready(s) /\ sent' = sent \union {s}
      /\ due' = IF s = "status" THEN StatusInterval ELSE due
      /\ UNCHANGED <<player, entry, settled, recount>>
      /\ \/ queue' = [queue EXCEPT ![s] = Append(@, p)] /\ since' = since
         \/ queue' = queue /\ since' = 0
    BY DEF Send
<1>2. p.age = 0 /\ p.fresh = TRUE
    OBVIOUS
<1> HIDE DEF p
<1>3. /\ MaxLag \in Nat /\ StatusInterval \in Nat \ {0} /\ due \in 0..StatusInterval
      /\ since \in 0..Patience /\ Later = MaxLag + StatusInterval + 1
      /\ queue \in [Stream -> Seq(Packet)] /\ "status" \in Stream /\ "precise" \in Stream
    BY TimeTyped DEF Stream
<1>4. SentDue'
    BY <1>1 DEF TimeInv, SentDue
<1>5. CASE queue' = queue /\ since' = 0
    <2>1. StaleFirst'
        BY <1>5 DEF StaleFirst, InQueue, TimeInv
    <2> QED
        BY <1>4, <1>5, <2>1, Restarted
<1>6. CASE queue' = [queue EXCEPT ![s] = Append(queue[s], p)] /\ since' = since
    <2>1. ASSUME NEW t \in Stream
          PROVE  /\ Len(queue[t]) \in Nat /\ Len(queue'[t]) \in Nat
                 /\ t # s => queue'[t] = queue[t]
                 /\ t = s => /\ Len(queue'[t]) = Len(queue[t]) + 1
                             /\ queue'[t][Len(queue[t]) + 1] = p
                             /\ \A i \in 1..Len(queue[t]) : queue'[t][i] = queue[t][i]
        <3>1. queue[t] \in Seq(Packet) /\ (t # s => queue'[t] = queue[t])
              /\ (t = s => queue'[t] = Append(queue[t], p))
            BY <1>3, <1>6
        <3> QED
            BY <3>1
    <2>2. ASSUME NEW t \in Stream, NEW i \in 1..Len(queue'[t])
          PROVE  \/ t = s /\ i = Len(queue[t]) + 1 /\ queue'[t][i] = p
                 \/ i \in 1..Len(queue[t]) /\ queue'[t][i] = queue[t][i]
        BY <2>1, <2>2
    <2>3. ASSUME NEW t \in Stream, NEW n, Waits(t, n)
          PROVE  Waits(t, n)'
        <3>1. PICK i \in 1..Len(queue[t]) : queue[t][i].fresh /\ since <= queue[t][i].age + n
            BY <2>3 DEF Waits, InQueue
        <3>2. i \in 1..Len(queue'[t]) /\ queue'[t][i] = queue[t][i]
            BY <2>1, <3>1
        <3> QED
            BY <1>6, <3>1, <3>2 DEF Waits, InQueue
    <2>4. ASSUME NEW n \in Nat, since <= n
          PROVE  Waits(s, n)'
        <3>1. /\ Len(queue[s]) + 1 \in 1..Len(queue'[s])
              /\ queue'[s][Len(queue[s]) + 1] = p
            BY <2>1
        <3>2. since' <= p.age + n
            BY <1>2, <1>3, <1>6, <2>4
        <3> QED
            BY <1>2, <3>1, <3>2 DEF Waits, InQueue
    <2>5. ASSUME NEW n \in Nat, StatusBy(n)
          PROVE  StatusBy(n)'
        <3>1. CASE Waits("status", n)
            BY <1>3, <2>3, <3>1 DEF StatusBy
        <3>2. CASE since + due <= n /\ s = "status"
            <4>1. since <= n
                BY <1>3, <2>5, <3>2
            <4> QED
                BY <2>4, <2>5, <3>2, <4>1 DEF StatusBy
        <3>3. CASE since + due <= n /\ s # "status"
            BY <1>1, <1>6, <3>3 DEF StatusBy
        <3> QED
            BY <2>5, <3>1, <3>2, <3>3 DEF StatusBy
    <2>6. StaleOld'
        <3> SUFFICES ASSUME NEW t \in Stream, NEW i \in 1..Len(queue'[t]), ~queue'[t][i].fresh
                     PROVE  since' <= queue'[t][i].age
            BY DEF StaleOld, InQueue
        <3>1. i \in 1..Len(queue[t]) /\ queue'[t][i] = queue[t][i]
            BY <1>2, <2>2
        <3> QED
            BY <1>6, <3>1 DEF TimeInv, StaleOld, InQueue
    <2>7. StaleFirst'
        <3> SUFFICES ASSUME NEW i \in 1..Len(queue'["status"]), NEW j \in 1..Len(queue'["status"]),
                            i < j, ~queue'["status"][j].fresh
                     PROVE  ~queue'["status"][i].fresh
            BY DEF StaleFirst, InQueue
        <3>1. j \in 1..Len(queue["status"]) /\ queue'["status"][j] = queue["status"][j]
            BY <1>2, <1>3, <2>2
        <3>2. i \in 1..Len(queue["status"]) /\ queue'["status"][i] = queue["status"][i]
            BY <1>3, <2>1, <2>2, <3>1
        <3> QED
            BY <3>1, <3>2 DEF TimeInv, StaleFirst, InQueue
    <2>8. PlayingInTime'
        <3>1. ASSUME StatusStale'
              PROVE  StatusStale
            <4>1. PICK i \in 1..Len(queue'["status"]) : ~queue'["status"][i].fresh
                BY <3>1 DEF StatusStale, InQueue
            <4>2. i \in 1..Len(queue["status"]) /\ queue'["status"][i] = queue["status"][i]
                BY <1>2, <1>3, <2>2, <4>1
            <4> QED
                BY <4>1, <4>2 DEF StatusStale, InQueue
        <3> QED
            BY <1>1, <1>3, <2>5, <3>1 DEF TimeInv, PlayingInTime
    <2>9. PlainInTime'
        <3>1. MaxLag + StatusInterval \in Nat
            BY <1>3
        <3> QED
            BY <1>1, <1>6, <2>5, <3>1 DEF TimeInv, PlainInTime, Stuck
    <2>10. PreciseInTime'
        <3> SUFFICES ASSUME since >= Later, player.cdj3000, settled # Course
                     PROVE  Waits("precise", Later)' \/ (since' = Later /\ "precise" \notin sent')
            BY <1>1, <1>6 DEF PreciseInTime, Later
        <3>1. CASE Waits("precise", Later)
            BY <1>3, <2>3, <3>1
        <3>2. CASE since = Later /\ s = "precise"
            <4>1. Later \in Nat /\ since <= Later
                BY <1>3, <3>2
            <4> QED
                BY <2>4, <3>2, <4>1
        <3>3. CASE since = Later /\ "precise" \notin sent /\ s # "precise"
            BY <1>1, <1>6, <3>3
        <3> QED
            BY <3>1, <3>2, <3>3 DEF TimeInv, PreciseInTime
    <2> QED
        BY <1>4, <2>6, <2>7, <2>8, <2>9, <2>10 DEF TimeInv
<1> QED
    BY <1>1, <1>5, <1>6

\* A step later, and a step nearer to the next status packet.
LEMMA Nearer ==
    ASSUME NEW x \in Nat, NEW y \in Nat, NEW xx \in Nat, NEW yy \in Nat, NEW n \in Nat,
           xx <= x + 1, yy = y - 1, x + y <= n
    PROVE  xx + yy <= n
OBVIOUS

LEMMA TickInTime ==
    ASSUME TypeOK, TypeOK', TimeInv, Tick
    PROVE  TimeInv'
<1> DEFINE there == player.position + player.pitch
           ends  == player.playing /\ there >= TrackLength
<1>1. /\ \A s \in Stream : Ready(s) => s \in sent
      /\ player' = CASE ends -> [player EXCEPT !.position = TrackLength, !.playing = FALSE]
                     [] player.playing /\ ~ends -> [player EXCEPT !.position = there]
                     [] OTHER -> player
      /\ queue' = [s \in Stream |-> [i \in DOMAIN queue[s] |->
                      [queue[s][i] EXCEPT !.age = @ + 1, !.fresh = @ /\ ~ends]]]
      /\ settled' = IF ends THEN {} ELSE settled
      /\ since' = CASE ends -> 0 [] ~ends /\ since < Patience -> since + 1 [] OTHER -> since
      /\ due' = IF due = 0 THEN 0 ELSE due - 1
      /\ sent' = {}
      /\ entry' = IF entry = None THEN None ELSE [entry EXCEPT !.age = @ + 1]
    BY DEF Tick
<1>2. ends \in BOOLEAN
    BY PlayerTyped
<1> HIDE DEF ends
<1>3. /\ MaxLag \in Nat /\ StatusInterval \in Nat \ {0} /\ due \in 0..StatusInterval
      /\ since \in 0..Patience /\ Patience = 2 * MaxLag + StatusInterval + 2
      /\ Later = MaxLag + StatusInterval + 1
      /\ queue \in [Stream -> Seq(Packet)] /\ queue' \in [Stream -> Seq(Packet)]
      /\ "status" \in Stream /\ "precise" \in Stream
    BY TimeTyped DEF Stream, TypeOK
<1>4. ASSUME NEW s \in Stream, NEW i \in 1..Len(queue'[s])
      PROVE  /\ i \in 1..Len(queue[s])
             /\ queue'[s][i].age = queue[s][i].age + 1
             /\ queue'[s][i].fresh = (queue[s][i].fresh /\ ~ends)
             /\ queue[s][i].age \in Nat
    <2>1. queue'[s] = [j \in DOMAIN queue[s] |->
                          [queue[s][j] EXCEPT !.age = @ + 1, !.fresh = @ /\ ~ends]]
        BY <1>1
    <2>2. i \in DOMAIN queue[s] /\ i \in 1..Len(queue[s])
        <3>1. DOMAIN queue'[s] = DOMAIN queue[s]
            BY <2>1, Zenon
        <3>2. DOMAIN queue'[s] = 1..Len(queue'[s]) /\ DOMAIN queue[s] = 1..Len(queue[s])
            BY <1>3, QueueTyped
        <3> QED
            BY <3>1, <3>2
    <2> DEFINE p     == queue[s][i]
               later == p.age + 1
               still == p.fresh /\ ~ends
               older == [p EXCEPT !.age = later]
    <2>3. p \in Packet /\ p.age \in Nat
        <3>1. p \in Packet
            BY <1>3, <2>2, QueueTyped
        <3> QED
            BY <3>1, PacketTyped
    <2>4. queue'[s][i] = [older EXCEPT !.fresh = still]
        <3>1. [older EXCEPT !.fresh = still] = [p EXCEPT !.age = @ + 1, !.fresh = @ /\ ~ends]
            BY Zenon
        <3> QED
            BY <2>1, <2>2, <3>1, Zenon
    <2> HIDE DEF later, still
    <2>5. older.age = later /\ DOMAIN older = DOMAIN p
        BY <2>3 DEF Packet
    <2>6. "fresh" \in DOMAIN older
        BY <2>3, <2>5 DEF Packet
    <2> HIDE DEF older
    <2>7. queue'[s][i].age = later /\ queue'[s][i].fresh = still
        BY <2>4, <2>5, <2>6
    <2> QED
        BY <2>2, <2>3, <2>7 DEF later, still
<1>5. ASSUME NEW s \in Stream, NEW i \in 1..Len(queue[s])
      PROVE  i \in 1..Len(queue'[s])
    <2>1. queue'[s] = [j \in DOMAIN queue[s] |->
                          [queue[s][j] EXCEPT !.age = @ + 1, !.fresh = @ /\ ~ends]]
        BY <1>1
    <2> DEFINE all == DOMAIN queue[s]
    <2>2. DOMAIN queue'[s] = all
        BY <2>1
    <2>3. DOMAIN queue[s] = 1..Len(queue[s]) /\ DOMAIN queue'[s] = 1..Len(queue'[s])
        BY <1>3, QueueTyped
    <2> QED
        BY <1>5, <2>2, <2>3
<1>6. SentDue'
    BY <1>1 DEF SentDue
<1>7. StaleFirst'
    <2> SUFFICES ASSUME NEW i \in 1..Len(queue'["status"]), NEW j \in 1..Len(queue'["status"]),
                        i < j, ~queue'["status"][j].fresh
                 PROVE  ~queue'["status"][i].fresh
        BY DEF StaleFirst, InQueue
    <2> QED
        BY <1>2, <1>3, <1>4 DEF TimeInv, StaleFirst, InQueue
<1>8. CASE ends
    <2>1. since' = 0
        BY <1>1, <1>8
    <2> QED
        BY <1>6, <1>7, <2>1, Restarted
<1>9. CASE ~ends
    <2>1. /\ settled' = settled /\ since' = IF since < Patience THEN since + 1 ELSE since
          /\ player' = player \/ player' = [player EXCEPT !.position = there]
        BY <1>1, <1>9
    <2>2. since' \in Nat /\ since \in Nat /\ since' <= since + 1
        BY <1>3, <2>1
    <2>3. player'.cdj3000 = player.cdj3000
        <3>1. player \in Player
            BY DEF TypeOK
        <3> HIDE DEF there
        <3> QED
            BY <2>1, <3>1 DEF Player
    <2>4. due \in Nat /\ due > 0 /\ due' = due - 1 /\ due' \in Nat
        <3>1. due = 0 => "status" \in sent
            BY <1>1, <1>3 DEF Ready
        <3>2. "status" \in sent => due = StatusInterval
            BY DEF TimeInv, SentDue
        <3>3. due # 0 /\ due \in Nat
            BY <1>3, <3>1, <3>2
        <3>4. due' = due - 1
            BY <1>1, <3>3
        <3> QED
            BY <3>3, <3>4
    <2>5. ASSUME NEW s \in Stream, NEW n \in Nat, Waits(s, n)
          PROVE  Waits(s, n)'
        <3>1. PICK i \in 1..Len(queue[s]) : queue[s][i].fresh /\ since <= queue[s][i].age + n
            BY <2>5 DEF Waits, InQueue
        <3>2. /\ i \in 1..Len(queue'[s])
              /\ queue'[s][i].fresh /\ queue'[s][i].age = queue[s][i].age + 1
              /\ queue[s][i].age \in Nat
            BY <1>4, <1>5, <1>9, <3>1
        <3>3. since' <= queue'[s][i].age + n
            BY <2>2, <3>1, <3>2
        <3> QED
            BY <3>2, <3>3 DEF Waits, InQueue
    <2>6. ASSUME NEW n \in Nat, StatusBy(n)
          PROVE  StatusBy(n)'
        <3>1. CASE Waits("status", n)
            BY <1>3, <2>5, <3>1 DEF StatusBy
        <3>2. CASE since + due <= n
            <4> DEFINE x  == since
                       xx == since'
                       y  == due
                       yy == due'
            <4>0. /\ x \in Nat /\ y \in Nat /\ xx \in Nat /\ yy \in Nat /\ n \in Nat
                  /\ xx <= x + 1 /\ yy = y - 1 /\ x + y <= n
                BY <2>2, <2>4, <2>6, <3>2
            <4> HIDE DEF x, xx, y, yy
            <4>1. xx + yy <= n
                BY <4>0
            <4> USE DEF xx, yy
            <4> QED
                BY <4>1 DEF StatusBy
        <3> QED
            BY <2>6, <3>1, <3>2 DEF StatusBy
    <2>7. StaleOld'
        <3> SUFFICES ASSUME NEW s \in Stream, NEW i \in 1..Len(queue'[s]), ~queue'[s][i].fresh
                     PROVE  since' <= queue'[s][i].age
            BY DEF StaleOld, InQueue
        <3>1. /\ i \in 1..Len(queue[s]) /\ ~queue[s][i].fresh
              /\ queue'[s][i].age = queue[s][i].age + 1 /\ queue[s][i].age \in Nat
            BY <1>4, <1>9
        <3>2. since <= queue[s][i].age
            BY <3>1 DEF TimeInv, StaleOld, InQueue
        <3> QED
            BY <2>2, <3>1, <3>2
    <2>8. PlayingInTime'
        <3>1. ASSUME StatusStale'
              PROVE  StatusStale
            BY <1>3, <1>4, <1>9, <3>1 DEF StatusStale, InQueue
        <3> QED
            BY <1>3, <2>1, <2>6, <3>1 DEF TimeInv, PlayingInTime
    <2>9. PlainInTime'
        <3>2. Stuck => Stuck'
            <4>1. ASSUME entry # None
                  PROVE  entry' # None /\ entry'.precise = entry.precise
                <5>1. entry \in PlayerPosition
                    BY <4>1 DEF TypeOK
                <5> DEFINE later == entry.age + 1
                <5>2. entry' = [entry EXCEPT !.age = later]
                    BY <1>1, <4>1
                <5> HIDE DEF later
                <5>3. entry'.precise = entry.precise
                    BY <5>1, <5>2 DEF PlayerPosition
                <5>4. entry' # None
                    <6>1. later \in Nat
                        BY <5>1 DEF later, PlayerPosition
                    <6>2. entry' \in PlayerPosition
                        BY <5>1, <5>2, <6>1 DEF PlayerPosition
                    <6> QED
                        BY <6>2, NoneAssumption
                <5> QED
                    BY <5>3, <5>4
            <4> QED
                BY <2>3, <4>1 DEF Stuck
        <3> SUFFICES ASSUME since' > MaxLag, ~player.cdj3000, ~Stuck, settled # Course
                     PROVE  StatusBy(MaxLag + StatusInterval)'
            BY <2>1, <2>3, <3>2 DEF PlainInTime
        <3>3. MaxLag + StatusInterval \in Nat
            BY <1>3
        <3>4. CASE since > MaxLag
            BY <2>6, <3>3, <3>4 DEF TimeInv, PlainInTime
        <3>5. CASE ~(since > MaxLag)
            <4>1. since + due <= MaxLag + StatusInterval
                BY <1>3, <3>5
            <4>2. since' + due' <= MaxLag + StatusInterval
                BY <2>2, <2>4, <3>3, <4>1, Nearer
            <4> QED
                BY <4>2 DEF StatusBy
        <3> QED
            BY <3>4, <3>5
    <2>10. PreciseInTime'
        <3> SUFFICES ASSUME since' >= Later, player.cdj3000, settled # Course
                     PROVE  Waits("precise", Later)' \/ (since' = Later /\ "precise" \notin sent')
            BY <2>1, <2>3 DEF PreciseInTime, Later
        <3>1. CASE since >= Later
            <4>1. "precise" \in sent
                BY <1>1, <1>3 DEF Ready
            <4>2. Waits("precise", Later) /\ Later \in Nat
                BY <1>3, <3>1, <4>1 DEF TimeInv, PreciseInTime
            <4> QED
                BY <1>3, <2>5, <4>2
        <3>2. CASE ~(since >= Later)
            <4>1. since' = Later
                BY <1>3, <2>2, <3>2
            <4> QED
                BY <1>1, <4>1
        <3> QED
            BY <3>1, <3>2
    <2> QED
        BY <1>6, <1>7, <2>7, <2>8, <2>9, <2>10 DEF TimeInv
<1> QED
    BY <1>2, <1>8, <1>9

\* A packet is taken: all others wait as before.
LEMMA TakenInTime ==
    ASSUME TypeOK, TypeOK', TimeInv, NEW s \in Stream, Take(s)
    PROVE  /\ SentDue' /\ StaleOld' /\ StaleFirst'
           /\ \A t \in Stream : \A n : Waits(t, n) /\ (t # s \/ ~Head(queue[s]).fresh) => Waits(t, n)'
           /\ StatusStale' => StatusStale
           /\ s = "status" /\ Head(queue[s]).fresh => ~StatusStale'
           /\ since > MaxLag => Head(queue[s]).fresh
           /\ Head(queue[s]) \in Packet
           /\ s = "status" /\ ~Head(queue[s]).fresh => StatusStale
           /\ UNCHANGED <<player, due, sent, since>>
<1>1. /\ queue[s] # <<>> /\ queue' = [queue EXCEPT ![s] = Tail(queue[s])]
      /\ UNCHANGED <<player, due, sent, since>>
      /\ queue \in [Stream -> Seq(Packet)] /\ MaxLag \in Nat /\ since \in Nat
      /\ "status" \in Stream
    BY TimeTyped DEF Take, Stream
<1>2. /\ 1 \in 1..Len(queue[s]) /\ Head(queue[s]) = queue[s][1] /\ queue[s][1] \in Packet
      /\ Len(queue[s]) \in Nat
      /\ queue[s][1].age \in 0..MaxLag /\ queue[s][1].fresh \in BOOLEAN
    <2>1. queue[s] \in Seq(Packet)
        BY <1>1
    <2>2. 1 \in 1..Len(queue[s]) /\ Head(queue[s]) = queue[s][1] /\ Len(queue[s]) \in Nat
        BY <1>1, <2>1
    <2> QED
        BY <1>1, <2>2, QueueTyped
<1>3. /\ queue'[s] = Tail(queue[s]) /\ \A t \in Stream : t # s => queue'[t] = queue[t]
      /\ Len(queue'[s]) = Len(queue[s]) - 1
      /\ \A i \in 1..Len(queue'[s]) : i + 1 \in 1..Len(queue[s]) /\ queue'[s][i] = queue[s][i + 1]
    <2>1. queue'[s] = Tail(queue[s]) /\ \A t \in Stream : t # s => queue'[t] = queue[t]
        BY <1>1
    <2>2. queue[s] \in Seq(Packet)
        BY <1>1
    <2> QED
        BY <1>1, <2>1, <2>2
<1>4. ASSUME NEW t \in Stream, NEW i \in 1..Len(queue'[t])
      PROVE  \E j \in 1..Len(queue[t]) : queue'[t][i] = queue[t][j]
    BY <1>3, <1>4
<1>5. SentDue'
    BY <1>1 DEF TimeInv, SentDue
<1>6. StaleOld'
    <2> SUFFICES ASSUME NEW t \in Stream, NEW i \in 1..Len(queue'[t]), ~queue'[t][i].fresh
                 PROVE  since' <= queue'[t][i].age
        BY DEF StaleOld, InQueue
    <2>1. PICK j \in 1..Len(queue[t]) : queue'[t][i] = queue[t][j]
        BY <1>4
    <2> QED
        BY <1>1, <2>1 DEF TimeInv, StaleOld, InQueue
<1>7. StaleFirst'
    <2> SUFFICES ASSUME NEW i \in 1..Len(queue'["status"]), NEW j \in 1..Len(queue'["status"]),
                        i < j, ~queue'["status"][j].fresh
                 PROVE  ~queue'["status"][i].fresh
        BY DEF StaleFirst, InQueue
    <2>1. CASE s = "status"
        <3>1. /\ i + 1 \in 1..Len(queue["status"]) /\ j + 1 \in 1..Len(queue["status"])
              /\ queue'["status"][i] = queue["status"][i + 1]
              /\ queue'["status"][j] = queue["status"][j + 1]
            BY <1>3, <2>1
        <3>2. i \in Int /\ j \in Int /\ i + 1 < j + 1
            OBVIOUS
        <3> QED
            BY <3>1, <3>2 DEF TimeInv, StaleFirst, InQueue
    <2>2. CASE s # "status"
        <3>1. queue'["status"] = queue["status"]
            BY <1>1, <1>3, <2>2
        <3> QED
            BY <3>1 DEF TimeInv, StaleFirst, InQueue
    <2> QED
        BY <2>1, <2>2
<1>8. ASSUME NEW t \in Stream, NEW n, Waits(t, n), t # s \/ ~Head(queue[s]).fresh
      PROVE  Waits(t, n)'
    <2>1. PICK i \in 1..Len(queue[t]) : queue[t][i].fresh /\ since <= queue[t][i].age + n
        BY <1>8 DEF Waits, InQueue
    <2>2. \E j \in 1..Len(queue'[t]) : queue'[t][j] = queue[t][i]
        <3>1. CASE t # s
            BY <1>3, <2>1, <3>1
        <3>2. CASE t = s
            <4>1. i # 1
                BY <1>2, <1>8, <2>1, <3>2
            <4>2. i - 1 \in 1..Len(queue'[s])
                BY <1>2, <1>3, <2>1, <3>2, <4>1
            <4>3. queue'[s][i - 1] = queue[s][(i - 1) + 1] /\ (i - 1) + 1 = i
                BY <1>3, <2>1, <4>2
            <4> QED
                BY <3>2, <4>2, <4>3
        <3> QED
            BY <3>1, <3>2
    <2> QED
        BY <1>1, <2>1, <2>2 DEF Waits, InQueue
<1>9. StatusStale' => StatusStale
    BY <1>1, <1>4 DEF StatusStale, InQueue
<1>10. ASSUME s = "status", Head(queue[s]).fresh
       PROVE  ~StatusStale'
    <2> SUFFICES ASSUME NEW i \in 1..Len(queue'[s]), ~queue'[s][i].fresh
                 PROVE  FALSE
        BY <1>10 DEF StatusStale, InQueue
    <2>1. i + 1 \in 1..Len(queue[s]) /\ queue'[s][i] = queue[s][i + 1] /\ 1 < i + 1
        BY <1>3
    <2> QED
        BY <1>2, <1>10, <2>1 DEF TimeInv, StaleFirst, InQueue
<1>11. since > MaxLag => Head(queue[s]).fresh
    <2>1. ~queue[s][1].fresh => since <= queue[s][1].age
        BY <1>2 DEF TimeInv, StaleOld, InQueue
    <2> QED
        BY <1>1, <1>2, <2>1
<1>12. s = "status" /\ ~Head(queue[s]).fresh => StatusStale
    BY <1>2 DEF StatusStale, InQueue
<1> QED
    BY <1>1, <1>2, <1>5, <1>6, <1>7, <1>8, <1>9, <1>10, <1>11, <1>12

\* After the first steps, a player that is not known to play or not has a status packet
\* under way; after Later steps it is known.
LEMMA PlayingKnown ==
    ASSUME TypeOK, TimeInv, since >= Later
    PROVE  "playing" \in settled
<1>1. /\ MaxLag \in Nat /\ StatusInterval \in Nat \ {0} /\ due \in 0..StatusInterval
      /\ since \in 0..Patience /\ Later = MaxLag + StatusInterval + 1
      /\ queue \in [Stream -> Seq(Packet)] /\ "status" \in Stream
    BY TimeTyped DEF Stream
<1>2. ~(since + due <= StatusInterval)
    BY <1>1
<1>3. ~Waits("status", StatusInterval)
    <2> SUFFICES ASSUME NEW i \in 1..Len(queue["status"]),
                        since <= queue["status"][i].age + StatusInterval
                 PROVE  FALSE
        BY DEF Waits, InQueue
    <2>1. queue["status"][i].age \in 0..MaxLag
        BY <1>1, QueueTyped
    <2> QED
        BY <1>1, <2>1
<1> QED
    BY <1>2, <1>3 DEF TimeInv, PlayingInTime, StatusBy

LEMMA OnCdjStatusInTime ==
    ASSUME TypeOK, TypeOK', TimeInv, OnCdjStatus
    PROVE  TimeInv'
<1> DEFINE p == Head(queue["status"])
           e == IF entry = None THEN NewEntry(p, FALSE, 1) ELSE entry
<1>1. /\ Take("status") /\ "status" \in Stream /\ "precise" \in Stream
      /\ entry' = IF e.precise
                  THEN [SnapForward(e, p) EXCEPT !.playing = p.playing, !.pitch = p.pitch]
                  ELSE [position |-> Estimated(p), playing |-> p.playing,
                        pitch |-> p.pitch, age |-> p.age, precise |-> FALSE]
      /\ settled' = CASE ~p.fresh -> {}
                      [] p.fresh /\ e.precise -> settled \union {"playing", "pitch"}
                      [] OTHER -> Course
    BY DEF OnCdjStatus, Stream
<1>2. /\ SentDue' /\ StaleOld' /\ StaleFirst'
      /\ \A t \in Stream : \A n : Waits(t, n) /\ (t # "status" \/ ~p.fresh) => Waits(t, n)'
      /\ p.fresh => ~StatusStale'
      /\ since > MaxLag => p.fresh
      /\ p \in Packet
      /\ ~p.fresh => StatusStale
      /\ UNCHANGED <<player, due, sent, since>>
    BY <1>1, TakenInTime
<1>3. p.fresh \in BOOLEAN /\ p.playing \in BOOLEAN /\ p.pitch \in Nat
    BY <1>2, PacketTyped
<1>4. e \in PlayerPosition /\ (entry = None => e.precise = FALSE) /\ (entry # None => e = entry)
    BY <1>2, EntryTyped
<1>5. e.precise => entry'.precise /\ entry' # None
    <2> DEFINE snapped == SnapForward(e, p)
               told    == [snapped EXCEPT !.playing = p.playing]
    <2>1. snapped \in PlayerPosition /\ snapped.precise = e.precise
        BY <1>2, <1>4, SnapForwardIs
    <2> HIDE DEF snapped
    <2>2. told \in PlayerPosition /\ told.precise = e.precise
        BY <1>3, <2>1 DEF PlayerPosition
    <2>3. e.precise => entry' = [told EXCEPT !.pitch = p.pitch]
        <3>1. [told EXCEPT !.pitch = p.pitch]
                  = [snapped EXCEPT !.playing = p.playing, !.pitch = p.pitch]
            BY Zenon
        <3> QED
            BY <1>1, <3>1 DEF snapped
    <2> HIDE DEF told
    <2>4. e.precise => entry' \in PlayerPosition /\ entry'.precise
        BY <1>3, <2>2, <2>3 DEF PlayerPosition
    <2> QED
        BY <2>4, NoneAssumption
<1>6. MaxLag \in Nat /\ StatusInterval \in Nat /\ since \in Nat
      /\ Later = MaxLag + StatusInterval + 1
    BY TimeTyped
<1> HIDE DEF e, p
<1>7. PlayingInTime'
    <2>1. CASE p.fresh
        <3>1. "playing" \in settled'
            BY <1>1, <2>1 DEF Course
        <3> QED
            BY <1>2, <2>1, <3>1 DEF PlayingInTime
    <2>2. CASE ~p.fresh
        <3>1. StatusBy(StatusInterval)
            BY <1>2, <2>2 DEF TimeInv, PlayingInTime
        <3> QED
            BY <1>1, <1>2, <2>2, <3>1 DEF PlayingInTime, StatusBy
    <2> QED
        BY <2>1, <2>2
<1>8. PlainInTime'
    <2> SUFFICES ASSUME since > MaxLag, ~player.cdj3000, ~Stuck', settled' # Course
                 PROVE  FALSE
        BY <1>2 DEF PlainInTime
    <2>1. p.fresh
        BY <1>2
    <2>2. ~e.precise
        BY <1>2, <1>5 DEF Stuck
    <2> QED
        BY <1>1, <2>1, <2>2
<1>9. PreciseInTime'
    <2> SUFFICES ASSUME since >= Later, player.cdj3000, settled' # Course
                 PROVE  Waits("precise", Later)' \/ (since' = Later /\ "precise" \notin sent')
        BY <1>2 DEF PreciseInTime, Later
    <2>1. p.fresh
        BY <1>2, <1>6
    <2>2. e.precise /\ settled' = settled \union {"playing", "pitch"}
        BY <1>1, <2>1
    <2>3. settled # Course
        BY <2>2 DEF Course
    <2>4. Waits("precise", Later) \/ (since = Later /\ "precise" \notin sent)
        BY <2>3 DEF TimeInv, PreciseInTime
    <2> QED
        BY <1>1, <1>2, <2>4
<1> QED
    BY <1>2, <1>7, <1>8, <1>9 DEF TimeInv

LEMMA OnPrecisePositionInTime ==
    ASSUME TypeOK, TypeOK', TimeInv, OnPrecisePosition
    PROVE  TimeInv'
<1> DEFINE p == Head(queue["precise"])
           e == IF entry = None THEN NewEntry(p, FALSE, 1) ELSE entry
<1>1. /\ Take("precise") /\ "status" \in Stream /\ "precise" \in Stream
      /\ entry' = [position |-> p.position, playing |-> e.playing, pitch |-> p.pitch,
                   age |-> p.age, precise |-> TRUE]
      /\ settled' = Heard(p, TRUE)
    BY DEF OnPrecisePosition, Stream
<1>2. /\ SentDue' /\ StaleOld' /\ StaleFirst'
      /\ \A t \in Stream : \A n : Waits(t, n) /\ (t # "precise" \/ ~p.fresh) => Waits(t, n)'
      /\ since > MaxLag => p.fresh
      /\ p \in Packet
      /\ StatusStale' => StatusStale
      /\ UNCHANGED <<player, due, sent, since>>
    BY <1>1, TakenInTime
<1>3. e \in PlayerPosition
    BY <1>2, EntryTyped
<1> HIDE DEF e
<1>4. entry' \in PlayerPosition /\ entry'.precise
    BY <1>1, <1>2, <1>3, PacketTyped DEF PlayerPosition
<1>5. MaxLag \in Nat /\ StatusInterval \in Nat /\ since \in Nat
      /\ Later = MaxLag + StatusInterval + 1
    BY TimeTyped
<1> HIDE DEF p
<1>6. PlayingInTime'
    <2>1. "playing" \in settled => "playing" \in settled'
        BY <1>1 DEF Heard
    <2>2. "status" # "precise"
        OBVIOUS
    <2> QED
        BY <1>1, <1>2, <2>1, <2>2 DEF TimeInv, PlayingInTime, StatusBy
<1>7. PlainInTime'
    <2>1. ~player.cdj3000 => Stuck'
        BY <1>2, <1>4, NoneAssumption DEF Stuck
    <2> QED
        BY <1>2, <2>1 DEF PlainInTime
<1>8. PreciseInTime'
    <2>1. ASSUME since >= Later
          PROVE  settled' = Course
        <3>1. p.fresh /\ "playing" \in settled /\ settled \subseteq Course
            BY <1>2, <1>5, <2>1, PlayingKnown, TimeTyped
        <3> QED
            BY <1>1, <3>1 DEF Heard, Course
    <2> QED
        BY <1>2, <2>1 DEF PreciseInTime, Later
<1> QED
    BY <1>2, <1>6, <1>7, <1>8 DEF TimeInv

LEMMA OnBeatInTime ==
    ASSUME TypeOK, TypeOK', TimeInv, OnBeat
    PROVE  TimeInv'
<1> DEFINE p == Head(queue["beat"])
           e == IF entry = None THEN NewEntry(p, TRUE, p.pitch) ELSE entry
<1>1. /\ Take("beat") /\ "status" \in Stream /\ "precise" \in Stream /\ "beat" \in Stream
      /\ entry' = [SnapForward(e, p) EXCEPT !.pitch = p.pitch]
      /\ settled' = Heard(p, FALSE)
    BY DEF OnBeat, Stream
<1>2. /\ SentDue' /\ StaleOld' /\ StaleFirst'
      /\ \A t \in Stream : \A n : Waits(t, n) /\ (t # "beat" \/ ~p.fresh) => Waits(t, n)'
      /\ since > MaxLag => p.fresh
      /\ p \in Packet
      /\ StatusStale' => StatusStale
      /\ UNCHANGED <<player, due, sent, since>>
    BY <1>1, TakenInTime
<1>3. p.pitch \in Nat
    BY <1>2, PacketTyped
<1>4. e \in PlayerPosition /\ (entry = None => e.precise = FALSE) /\ (entry # None => e = entry)
    BY <1>2, <1>3, EntryTyped
<1>5. entry' \in PlayerPosition /\ entry'.precise = e.precise
    <2> DEFINE snapped == SnapForward(e, p)
    <2>1. snapped \in PlayerPosition /\ snapped.precise = e.precise
        BY <1>2, <1>4, SnapForwardIs
    <2> HIDE DEF snapped
    <2>2. entry' = [snapped EXCEPT !.pitch = p.pitch]
        BY <1>1 DEF snapped
    <2> QED
        BY <1>3, <2>1, <2>2 DEF PlayerPosition
<1>6. MaxLag \in Nat /\ StatusInterval \in Nat /\ since \in Nat
      /\ Later = MaxLag + StatusInterval + 1
    BY TimeTyped
<1> HIDE DEF e, p
<1>7. PlayingInTime'
    <2>1. "playing" \in settled => "playing" \in settled'
        BY <1>1 DEF Heard
    <2>2. "status" # "beat"
        OBVIOUS
    <2> QED
        BY <1>1, <1>2, <2>1, <2>2 DEF TimeInv, PlayingInTime, StatusBy
<1>8. ASSUME since > MaxLag, settled' # Course
      PROVE  settled # Course
    <2>1. settled' = settled \union {"pitch"}
        BY <1>1, <1>2, <1>8 DEF Heard
    <2> QED
        BY <1>8, <2>1 DEF Course
<1>9. PlainInTime'
    <2> SUFFICES ASSUME since > MaxLag, ~player.cdj3000, ~Stuck', settled' # Course
                 PROVE  StatusBy(MaxLag + StatusInterval)'
        BY <1>2 DEF PlainInTime
    <2>1. ~Stuck
        BY <1>2, <1>4, <1>5, NoneAssumption DEF Stuck
    <2>2. StatusBy(MaxLag + StatusInterval)
        BY <1>8, <2>1 DEF TimeInv, PlainInTime
    <2>3. "status" # "beat"
        OBVIOUS
    <2> QED
        BY <1>1, <1>2, <2>2, <2>3 DEF StatusBy
<1>10. PreciseInTime'
    <2> SUFFICES ASSUME since >= Later, player.cdj3000, settled' # Course
                 PROVE  Waits("precise", Later)' \/ (since' = Later /\ "precise" \notin sent')
        BY <1>2 DEF PreciseInTime, Later
    <2>1. since > MaxLag
        BY <1>6
    <2>2. Waits("precise", Later) \/ (since = Later /\ "precise" \notin sent)
        BY <1>8, <2>1 DEF TimeInv, PreciseInTime
    <2>3. "precise" # "beat"
        OBVIOUS
    <2> QED
        BY <1>1, <1>2, <2>2, <2>3
<1> QED
    BY <1>2, <1>7, <1>9, <1>10 DEF TimeInv

LEMMA TimeInit == Init => TimeInv
<1> SUFFICES ASSUME Init PROVE TimeInv
    OBVIOUS
<1>1. /\ since = 0 /\ due = 0 /\ sent = {} /\ MaxLag \in Nat /\ StatusInterval \in Nat \ {0}
      /\ \A s \in Stream : Len(queue[s]) = 0
      /\ "status" \in Stream
    BY PositionsAssumption DEF Init, Stream
<1>2. SentDue /\ StaleOld /\ StaleFirst
    BY <1>1 DEF SentDue, StaleOld, StaleFirst, InQueue
<1>3. PlayingInTime
    <2>1. since + due <= StatusInterval
        BY <1>1
    <2> QED
        BY <2>1 DEF PlayingInTime, StatusBy
<1>4. PlainInTime /\ PreciseInTime
    BY <1>1 DEF PlainInTime, PreciseInTime, Later
<1> QED
    BY <1>2, <1>3, <1>4 DEF TimeInv

LEMMA TimeNext == TypeOK /\ TypeOK' /\ TimeInv /\ [Next]_vars => TimeInv'
<1> SUFFICES ASSUME TypeOK, TypeOK', TimeInv, [Next]_vars PROVE TimeInv'
    OBVIOUS
<1>1. CASE StartOrStop \/ Jump \/ SetPitch \/ TakeOver
    BY <1>1, ChangeInTime
<1>2. CASE Tick
    BY <1>2, TickInTime
<1>3. CASE \E s \in Stream : Send(s)
    BY <1>3, SendInTime
<1>4. CASE OnCdjStatus
    BY <1>4, OnCdjStatusInTime
<1>5. CASE OnPrecisePosition
    BY <1>5, OnPrecisePositionInTime
<1>6. CASE OnBeat
    BY <1>6, OnBeatInTime
<1>7. CASE RemovePlayer
    BY <1>7, RemoveInTime
<1>8. CASE UNCHANGED vars
    BY <1>8 DEF vars, TimeInv, SentDue, StaleOld, StaleFirst, PlayingInTime, PlainInTime,
                PreciseInTime, StatusBy, StatusStale, Waits, InQueue, Stuck, Later
<1> QED
    BY <1>1, <1>2, <1>3, <1>4, <1>5, <1>6, <1>7, <1>8 DEF Next

\* Once time is up all is known, unless the entry is stuck.
LEMMA AllKnown ==
    ASSUME FollowInv, TimeInv
    PROVE  KnownInTime
<1> SUFFICES ASSUME since = Patience, ~Stuck
             PROVE  /\ entry # None
                    /\ entry.playing = player.playing /\ entry.pitch = player.pitch
                    /\ Located => NotBehind /\ NotAhead
    BY DEF KnownInTime
<1>1. /\ TypeOK /\ MaxLag \in Nat /\ StatusInterval \in Nat \ {0} /\ due \in 0..StatusInterval
      /\ since = 2 * MaxLag + StatusInterval + 2 /\ Later = MaxLag + StatusInterval + 1
      /\ queue \in [Stream -> Seq(Packet)] /\ "status" \in Stream /\ "precise" \in Stream
    BY TimeTyped DEF FollowInv, Stream
<1>2. ASSUME NEW s \in Stream, NEW n \in {Later, MaxLag + StatusInterval}
      PROVE  ~Waits(s, n)
    <2> SUFFICES ASSUME NEW i \in 1..Len(queue[s]), since <= queue[s][i].age + n
                 PROVE  FALSE
        BY DEF Waits, InQueue
    <2>1. queue[s][i].age \in 0..MaxLag
        BY <1>1, QueueTyped
    <2> QED
        BY <1>1, <1>2, <2>1
<1>3. settled = Course
    <2>1. CASE player.cdj3000
        BY <1>1, <1>2, <2>1 DEF TimeInv, PreciseInTime
    <2>2. CASE ~player.cdj3000
        BY <1>1, <1>2, <2>2 DEF TimeInv, PlainInTime, StatusBy
    <2> QED
        BY <2>1, <2>2
<1> QED
    BY <1>3 DEF FollowInv, CourseKnown, EstimateBounds, Settled, Course

\* The type invariant.
THEOREM PositionsTypeOK == Spec => []TypeOK
BY FollowAlways, PTL DEF FollowInv

\* Once a player's course is known, what readers are told is its position, but for the
\* part of a beat that status packets leave out and for what snap_forward counts twice.
THEOREM PositionsEstimateBounds == Spec => []EstimateBounds
BY FollowAlways, PTL DEF FollowInv

\* Whatever the order in which the channels are handled, Patience steps after the last
\* change readers are told the right thing, unless the entry is stuck.
THEOREM PositionsKnownInTime == Spec => []KnownInTime
<1>1. Spec => [](FollowInv /\ TimeInv)
    <2>1. FollowInv => TypeOK
        BY DEF FollowInv
    <2> QED
        BY <2>1, FollowAlways, TimeInit, TimeNext, PTL DEF Spec
<1>2. FollowInv /\ TimeInv => KnownInTime
    BY AllKnown
<1> QED
    BY <1>1, <1>2, PTL
=============================================================================
