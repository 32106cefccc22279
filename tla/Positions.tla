----------------------------- MODULE Positions -----------------------------
(***************************************************************************)
(* TimeFinder (network/time.rs): where a player is in its track, worked    *)
(* out from its status packets, its beats and, for a CDJ-3000, its precise *)
(* positions.                                                              *)
(*                                                                         *)
(* The three kinds come through three channels, so that one may be handled *)
(* after a later one of another kind.  A packet carries the time at which  *)
(* it was received; here packets and the entry of the map keep their age   *)
(* instead, and time goes by in steps.  A pitch is the number of units by  *)
(* which a player that plays moves per step: 1 is normal speed, and 0, the *)
(* lower end of the slider, stands still.  The entry has the pitch of the  *)
(* packet handled last, which may be an old one.                           *)
(***************************************************************************)
EXTENDS Integers, Sequences

CONSTANTS
    Speed,          \* the pitch multipliers players run at
    Beat,           \* units per beat of the track
    TrackLength,    \* units
    StatusInterval, \* steps between status packets
    MaxLag,         \* bound: steps until a packet is handled
    MaxChanges,     \* bound: changes of the player's course, lost packets
    None

Stream == {"status", "beat", "precise"}

ASSUME PositionsAssumption ==
    /\ Speed \subseteq Nat
    /\ Beat \in Nat \ {0} /\ TrackLength \in Nat /\ StatusInterval \in Nat \ {0}
    /\ MaxLag \in Nat /\ MaxChanges \in Nat

VARIABLES
    player,     \* the player itself
    due,        \* steps until its next status packet; precise ones come at every step
    sent,       \* which packets of this step it has sent
    queue,      \* the packets not handled yet, per stream
    entry,      \* the PlayerPosition of the player
    settled,    \* what the entry has heard since the player last changed its course
    recount,    \* steps counted more than once since the last absolute position
    since,      \* steps since the last change, loss or removal, up to Patience
    changes     \* how many changes are left

vars == <<player, due, sent, queue, entry, settled, recount, since, changes>>

Player == [position : 0..TrackLength, playing : BOOLEAN, pitch : Speed,
           cdj3000 : BOOLEAN, analysed : BOOLEAN]

\* All but age and fresh are the player's when the packet was received.
Packet == [age : 0..MaxLag, playing : BOOLEAN, pitch : Speed, position : 0..TrackLength,
           beatNumber : Nat \union {None}, fresh : BOOLEAN]

PlayerPosition == [position : Nat, playing : BOOLEAN, pitch : Nat, age : Nat,
                   precise : BOOLEAN]

\* What an entry has to hear about a course.
Course == {"playing", "pitch", "position"}

\* The steps it takes: the next status packet is sent and handled, then the next precise
\* one; or the old packets are all handled before a status packet is sent and handled.
Patience == 2 * MaxLag + StatusInterval + 2

ASSUME NoneAssumption == None \notin Nat /\ None \notin PlayerPosition

TypeOK ==
    /\ player \in Player /\ due \in 0..StatusInterval /\ sent \subseteq Stream
    /\ queue \in [Stream -> Seq(Packet)]
    /\ entry \in PlayerPosition \union {None}
    /\ settled \subseteq Course
    /\ recount \in Nat /\ since \in 0..Patience /\ changes \in 0..MaxChanges

Init ==
    /\ player \in {p \in Player : p.position = 0}
    /\ due = 0 /\ sent = {} /\ queue = [s \in Stream |-> <<>>]
    /\ entry = None /\ settled = {} /\ recount = 0 /\ since = 0
    /\ changes = MaxChanges

-----------------------------------------------------------------------------
\* The player.

Stale == [s \in Stream |-> [i \in DOMAIN queue[s] |-> [queue[s][i] EXCEPT !.fresh = FALSE]]]

Change(p) ==
    /\ changes > 0 /\ changes' = changes - 1
    /\ p # player /\ player' = p
    /\ queue' = Stale /\ settled' = {} /\ since' = 0
    /\ UNCHANGED <<due, sent, entry, recount>>

StartOrStop == Change([player EXCEPT !.playing = ~@])
Jump        == Change([player EXCEPT !.position = 0])
SetPitch    == \E v \in Speed : Change([player EXCEPT !.pitch = v])

\* Another player takes the number over, one with precise positions for one without
\* or the other way round.
TakeOver == Change([player EXCEPT !.cdj3000 = ~@])

Ready(s) ==
    CASE s = "status"  -> due = 0
      [] s = "beat"    -> player.playing /\ player.position % Beat < player.pitch
      [] s = "precise" -> player.cdj3000

\* Before its first beat a player reports beat 0, from it on the beat it is in.
BeatNumber == IF player.position = 0 /\ ~player.playing THEN 0
              ELSE player.position \div Beat + 1

Send(s) ==
    /\ s \notin sent /\ Ready(s)
    /\ sent' = sent \union {s}
    /\ due' = IF s = "status" THEN StatusInterval ELSE due
    /\ \/ /\ queue' = [queue EXCEPT ![s] = Append(@,
                 [age |-> 0, playing |-> player.playing, pitch |-> player.pitch,
                  position |-> player.position,
                  beatNumber |-> IF player.analysed THEN BeatNumber ELSE None,
                  fresh |-> TRUE])]
          /\ UNCHANGED <<changes, since>>
       \/ /\ changes > 0 /\ changes' = changes - 1     \* lost
          /\ since' = 0 /\ UNCHANGED queue
    /\ UNCHANGED <<player, entry, settled, recount>>

\* One step of time: what is due has been sent, nothing is later than MaxLag.  A
\* player that reaches the end stops, which is a change of course.
Tick ==
    /\ \A s \in Stream : Ready(s) => s \in sent
    /\ \A s \in Stream : \A i \in DOMAIN queue[s] : queue[s][i].age < MaxLag
    /\ LET there == player.position + player.pitch
           ends  == player.playing /\ there >= TrackLength
           older == [s \in Stream |-> [i \in DOMAIN queue[s] |->
                        [queue[s][i] EXCEPT !.age = @ + 1, !.fresh = @ /\ ~ends]]]
       IN  /\ player' = CASE ends -> [player EXCEPT !.position = TrackLength, !.playing = FALSE]
                          [] player.playing /\ ~ends -> [player EXCEPT !.position = there]
                          [] OTHER -> player
           /\ queue' = older
           /\ settled' = IF ends THEN {} ELSE settled
           /\ since' = CASE ends -> 0
                         [] ~ends /\ since < Patience -> since + 1
                         [] OTHER -> since
    /\ due' = IF due = 0 THEN 0 ELSE due - 1
    /\ sent' = {}
    /\ entry' = IF entry = None THEN None
                ELSE [entry EXCEPT !.age = @ + 1]
    /\ UNCHANGED <<recount, changes>>

-----------------------------------------------------------------------------
\* Where a reader finds the player: get_time_for.
GetTimeFor(e) == IF e.playing /\ e.pitch > 0 THEN e.position + e.age * e.pitch
                 ELSE e.position

\* Fault: time that went by is dropped.
SnapNothing(e, p) == [e EXCEPT !.age = p.age]

\* snap_forward to the time of a packet.  If the entry is newer than the packet
\* the position stays, but the entry is dated back.
SnapForward(e, p) ==
    [e EXCEPT !.position = IF e.playing /\ e.pitch > 0 /\ e.age > p.age
                           THEN @ + (e.age - p.age) * e.pitch ELSE @,
              !.age = p.age]

Recounted(e, p) == IF e.playing /\ p.age > e.age THEN p.age - e.age ELSE 0

Take(s) == /\ queue[s] # <<>>
           /\ queue' = [queue EXCEPT ![s] = Tail(@)]
           /\ UNCHANGED <<player, due, sent, since, changes>>

NewEntry(p, playing, pitch) ==
    [position |-> 0, playing |-> playing, pitch |-> pitch, age |-> p.age, precise |-> FALSE]

\* Fault: the subtraction does not saturate at the beat before the first.
EstimatedBelow(p) == IF p.beatNumber = None THEN 0 ELSE (p.beatNumber - 1) * Beat

\* Fault: the beat number is not made to count from zero.
EstimatedLate(p) == IF p.beatNumber = None THEN 0 ELSE p.beatNumber * Beat

\* The position of a status packet: the beginning of its beat (saturating_sub(1)).
Estimated(p) == IF p.beatNumber \in {None, 0} THEN 0 ELSE (p.beatNumber - 1) * Beat

\* Fault: the pitch of a status packet is not taken over.
OnCdjStatusPitchKept ==
    /\ Take("status")
    /\ LET p == Head(queue["status"])
           e == IF entry = None THEN NewEntry(p, FALSE, 1) ELSE entry
       IN  /\ entry' = IF e.precise
                       THEN [SnapForward(e, p) EXCEPT !.playing = p.playing]
                       ELSE [position |-> Estimated(p), playing |-> p.playing,
                             pitch |-> e.pitch, age |-> p.age, precise |-> FALSE]
           /\ recount' = IF e.precise THEN recount + Recounted(e, p) ELSE 0
           /\ settled' = CASE ~p.fresh -> {}
                           [] p.fresh /\ e.precise -> settled \union {"playing", "pitch"}
                           [] OTHER -> Course

OnCdjStatus ==
    /\ Take("status")
    /\ LET p == Head(queue["status"])
           e == IF entry = None THEN NewEntry(p, FALSE, 1) ELSE entry
       IN  /\ entry' = IF e.precise
                       THEN [SnapForward(e, p) EXCEPT !.playing = p.playing, !.pitch = p.pitch]
                       ELSE [position |-> Estimated(p), playing |-> p.playing,
                             pitch |-> p.pitch, age |-> p.age, precise |-> FALSE]
           /\ recount' = IF e.precise THEN recount + Recounted(e, p) ELSE 0
           /\ settled' = CASE ~p.fresh -> {}
                           [] p.fresh /\ e.precise -> settled \union {"playing", "pitch"}
                           [] OTHER -> Course

\* What a beat or a precise packet makes sure of: of its pitch, and of its position if
\* the entry knows whether the player plays.  An old one makes both unsure.
Heard(p, located) ==
    IF p.fresh THEN settled \union {"pitch"}
                            \union (IF located /\ "playing" \in settled THEN {"position"} ELSE {})
    ELSE settled \ {"pitch", "position"}

\* Fault: the position is taken over, the time it was measured at is not.
OnPrecisePositionUndated ==
    /\ Take("precise")
    /\ LET p == Head(queue["precise"])
           e == IF entry = None THEN NewEntry(p, FALSE, 1) ELSE entry
       IN  /\ entry' = [e EXCEPT !.position = p.position, !.pitch = p.pitch, !.precise = TRUE]
           /\ settled' = Heard(p, TRUE)
    /\ recount' = 0

OnPrecisePosition ==
    /\ Take("precise")
    /\ LET p == Head(queue["precise"])
           e == IF entry = None THEN NewEntry(p, FALSE, 1) ELSE entry
       IN  /\ entry' = [position |-> p.position, playing |-> e.playing, pitch |-> p.pitch,
                        age |-> p.age, precise |-> TRUE]
           /\ settled' = Heard(p, TRUE)
    /\ recount' = 0

\* Fault: a beat dates the entry but does not move it.
OnBeatUnmoved ==
    /\ Take("beat")
    /\ LET p == Head(queue["beat"])
           e == IF entry = None THEN NewEntry(p, TRUE, p.pitch) ELSE entry
       IN  /\ entry' = [e EXCEPT !.age = p.age, !.pitch = p.pitch]
           /\ recount' = recount + Recounted(e, p)
           /\ settled' = Heard(p, FALSE)

OnBeat ==
    /\ Take("beat")
    /\ LET p == Head(queue["beat"])
           e == IF entry = None THEN NewEntry(p, TRUE, p.pitch) ELSE entry
       IN  /\ entry' = [SnapForward(e, p) EXCEPT !.pitch = p.pitch]
           /\ recount' = recount + Recounted(e, p)
           /\ settled' = Heard(p, FALSE)

RemovePlayer ==
    /\ entry # None /\ changes > 0 /\ changes' = changes - 1
    /\ entry' = None /\ settled' = {} /\ recount' = 0 /\ since' = 0
    /\ UNCHANGED <<player, due, sent, queue>>

Next == \/ StartOrStop \/ Jump \/ SetPitch \/ TakeOver
        \/ Tick \/ \E s \in Stream : Send(s)
        \/ OnCdjStatus \/ OnPrecisePosition \/ OnBeat \/ RemovePlayer

\* Time goes by, the player sends what is due, the tasks of the application run.
Fairness == /\ WF_vars(Tick) /\ \A s \in Stream : WF_vars(Send(s))
            /\ WF_vars(OnCdjStatus) /\ WF_vars(OnPrecisePosition) /\ WF_vars(OnBeat)

Spec == Init /\ [][Next]_vars /\ Fairness

-----------------------------------------------------------------------------
\* Positions that status packets or precise ones carry.
Located == player.analysed \/ entry.precise

\* The part of a beat that status packets do not tell.
Blur == IF entry.precise THEN 0 ELSE Beat - 1

Settled == entry # None /\ settled = Course /\ Located

\* Readers are not told a position the player has passed, but for the part of a beat
\* that a status packet leaves out ...
NotBehind == GetTimeFor(entry) >= player.position - Blur

\* ... nor one it has not reached, but for the steps that snap_forward counted twice
\* when it dated the entry back to a packet older than the one before.
NotAhead == GetTimeFor(entry) <= player.position + recount * player.pitch

\* As soon as a player's course is known, what readers are told is its position, but
\* for the two errors: late packets of another stream take no time away.
EstimateBounds == Settled => NotBehind /\ NotAhead

\* Precise positions have been told under this number, and no more will be: the player
\* that sent them is gone.  The entry never takes a position from a status packet again.
Stuck == entry # None /\ entry.precise /\ ~player.cdj3000

\* A packet of an older course, handled after one of the new course from another
\* stream, takes the old pitch or the old playing state back; but Patience steps after
\* the last change readers are told the right thing, unless the entry is stuck.
KnownInTime ==
    since = Patience /\ ~Stuck =>
        /\ entry # None
        /\ entry.playing = player.playing /\ entry.pitch = player.pitch
        /\ Located => NotBehind /\ NotAhead

\* Whatever the player does, and although a precise entry no longer takes its
\* position from status packets, readers are told the right place again.
Recovers ==
    []<>(\/ Stuck
         \/ /\ entry # None
            /\ Located => GetTimeFor(entry) \in (player.position - Blur)..player.position)
=============================================================================
