# Verification of prodjlink-rs

TLA+ models of `prodjlink-rs`, a Rust (Tokio) implementation of the Pioneer DJ
Link protocol, with TLC runs over small instances and TLAPS proofs for every
value of the constants. Source paths are relative to `src/src/`.

Contents: 1 inventory, 2 modules, 3 runs, 4 what the runs show, 5 proofs,
6 limits and what is not modelled, 7 plan.

## 1. The system

A program that uses the crate joins a network of DJ players and mixers as one
more player, the *virtual CDJ*. Three UDP ports carry the protocol (50000
announcements and claims of device numbers, 50001 beats and commands, 50002
status packets), and TCP connections to the players' database servers carry
track data. `ProDjLink` (`lib.rs`) builds and owns the parts; they run as Tokio
tasks and talk through broadcast channels, a watch channel, atomics and mutexes.

| Component | State | Operations | Interacts with |
|---|---|---|---|
| Session (`lib.rs`) | owned services, three wire tasks | build, shutdown | starts and stops all others |
| Device finder (`network/finder.rs`) | map of devices with last-seen times, ignore list | receive loop, ageing loop, flush, stop | feeds claims and `start_auto`; events to subscribers |
| Status listener (`network/status.rs`) | latest update per device | receive loop, latest, stop | its stream drives `process_device_update` |
| Beat finder (`network/beat.rs`) | time of the last XDJ-XZ beat | receive loop with five streams, stop | its streams drive `process_beat` and `process_master_handoff` |
| Tempo master (`network/tempo.rs`) | watched `MasterState` | eight update methods, events | called from the status, beat and handoff tasks and from the application |
| Master handoff (`network/virtual_cdj.rs`) | `HandoffState`: phase, sync counters | request, yield, automatic yield and accept, confirmation | status packets and master commands of other devices |
| Number claim (`network/virtual_cdj.rs`) | device number, stage of the claim | `start`, `start_claimed`, `start_auto`, defense loop | other hosts, over UDP and through the finder's events |
| Status broadcast (`network/virtual_cdj.rs`) | flag, handle of the loop | `set_sending_status`, `stop` | reads the tempo master and the handoff state |
| Plain commands (`network/virtual_cdj.rs`) | none | on-air, fader start, load track, sync, settings | one datagram each; the command listener hears those of others |
| Position tracking (`network/time.rs`) | position per player | four update methods, interpolated reads | fed by the application |
| Database connections (`dbserver/`) | pool of clients under one mutex, per client a stream and a transaction counter | `with_client`, `clear`, `remove`, requests | players' servers over TCP |
| Packets (`protocol/`) and messages (`dbserver/message.rs`, `field.rs`) | none | parsers and builders | all of the above |
| Fetching, menus, track data (`data/`) | none | requests, decoders, searches in grids and cues | database connections |
| Types, settings, utilities (`device/`, `util.rs`) | none | conversions, settings packets | all |

What is hard here, and what makes each part correct:

* **Tempo master.** No lock covers a method: it clones the watched state, sends
  events, and writes later. Right when subscribers who follow the events know
  the master and our role unless two methods have overtaken each other, and "we
  are master" and the master's number agree.
* **Handoff.** Two ports, hence two tasks, hence no order between a status
  packet and a master command; UDP loses packets; three acquisitions of one
  mutex per status packet. Right when devices yield and accept only upward in the
  order of the counters, and when one request is a handover of one role: never
  dropped, shared only while it is handed over, granted in the end.
* **Claim.** Hosts claim the same number at the same time, and defenses are
  late or lost. Right when a host is turned away only by an owner, collisions
  need overlapping claims, and every start ends.
* **Device finder.** The receive loop waits for the map's lock after it has
  looked at the ignore list; ageing and flushes compete for the lock; an Opus
  Quad stands for four players. Right when a device that keeps announcing
  itself stays, one that does not goes in time, ignored addresses go, and a
  subscriber who follows the events has the same picture as the map.
* **Position tracking.** Three streams, none in order with another, each packet
  dated at its reception; each brings a pitch, which an old packet takes back.
  Right when the answer stays within a beat of the player once its course is
  known, but for time that an old packet makes count twice, and is known some
  time after any disturbance.
* **Packets.** Bytes at offsets, the same type byte for different packets on
  different ports, old and new players with packets of different sizes. Right
  when each packet is heard by the subscribers it is for, saying what was meant,
  and none makes a listener read past its end.
* **Database.** Futures dropped half way, a request still in a write buffer,
  closed connections, silent players, a mutex held across awaits. Right when
  requests get their own answers, fail
  for a reason, and end.
* **Library.** Answers arrive in pieces, and an incomplete message is told from
  a complete one only by parsing, so that a text that is no UTF-16 looks like one
  that has not arrived. Right when a call returns what the player stores for its
  arguments, leaves nothing of the answer behind, and ends.
* **Session.** Tasks end some time after their abort; a flag and a handle
  change in two steps. Right when the flag tells the truth about the loop and
  shutdown leaves nothing behind.

`PROJECT.json` lists every component with its status and every hazard at its
line, with the properties that cover it.

## 2. Modules

Components that run:

| Module | Models | State | Actions |
|---|---|---|---|
| `TempoMaster` | the methods of `TempoMaster` as operators: `XEvents` (what is sent after reading `current`) and `XState` (what `send_modify` leaves) | none | none |
| `TempoTracker` | one tracker and the three tasks that call it | watched state, pending write per task, a subscriber's view; which writes were overtaken | one per calling method, `BeatInfers`, `SendModify` |
| `Handoff` | any number of virtual CDJs with their status loops on, over UDP | per device: tracker, `HandoffState`, inboxes of the two ports, position of the status task, sample of the broadcast loop | `RequestMasterRole`, `YieldMasterRole`, `RequestMasterRoleNegotiated`, `SetAutoNegotiate`, `SampleMaster`, `SendStatus`, `HandleStatus`, `AcceptYield`, `TrackCounters`, `HandleMasterCommand` |
| `MasterRole` | abstract: what a handoff promises | the holders of the role, the offers | `Claim`, `Offer`, `Accept`, `GiveUp`, `EndOffer` |
| `HandoffRole` | the refinement mapping from `Handoff` to `MasterRole` | none | none |
| `Claim` | hosts that start virtual CDJs | per host: number, stage, age and candidates; packets under way; defenses heard | `StartAuto`, `StartClaimed`, `Start`, `SendPacket`, `Defended`, `Complete`, `ReceiveClaim`, `ReceiveDefense`, `Lose`, `Tick` |
| `Devices` | the finder's map and a subscriber of its events | map, ages, ignore list, the two tasks, devices and their keep-alives, the subscriber's queue and picture | `Announce`, `Receive`, `Insert`, `SocketFails`, `Age`, `FlushDevices`, `AddIgnoredAddress`, `RemoveIgnoredAddress`, `Subscribe`, `Snapshot`, `Follow`, `Join`, `Leave`, `Tick` |
| `Positions` | `TimeFinder` following one player | the player, its packets of three streams, the entry of the map | `OnCdjStatus`, `OnBeat`, `OnPrecisePosition`, `RemovePlayer`; the player's `StartOrStop`, `Jump`, `SetPitch`, `TakeOver`, `Send`, `Tick` |
| `Datagrams` | every packet from its builder to the subscribers | packets sent and who has not handled them, what was heard, the cache of statuses, the sighting of an XDJ | one per sending operation and per kind of device, `FinderReceives`, `BeatsReceive`, `StatusReceives`, `StatusSent`, `CommandReceives`, `AppReceives`, `PlayerReceives`, `Lose`, `XdjWindowEnds` |
| `Database` | tasks that make requests through one `ConnectionManager` | pool, mutex, per call its place and client | `Begin`, `Lock`, `Connect`, `ConnectFails`, `Send`, `Flush`, `FlushFails`, `ReadSimple`, `ReadItem`, `ReadLast`, `ReadClosed`, `Insert`, `Remove`, `Clear`, `Cancel`, `GoesIdle`, `Closes`, `FallsSilent` |
| `Library` | one client of a player's database server, down to the bytes | connection, call, bytes unread at either end, read buffer, items, transaction | `Greet`, `ReadGreeting`, `SetUp`, one per kind of call, `PlayerReads`, `PlayerCloses`, `Receive`, `SimpleResponse`, `MenuMessage`, `AppDecodes` |
| `Session` | the tasks of a session from build to shutdown | tasks running and aborted, flag, handle, calls under way | `StartListener`, `BecomeUp`, `BuildFails`, `Swap`, `Store`, `Take`, `LoopEnds`, `AbortWires`, `Unwrap`, `StopListeners`, `Dies`, `DefenseCloses` |

Pure parts, as operators:

| Module | Models |
|---|---|
| `Bytes` | numbers and names as bytes, packet headers (`util.rs`, `protocol/header.rs`) |
| `DeviceTypes` | the enumerations with their codes, Opus Quad numbers, pitch, half frames (`device/types.rs`, `device/settings.rs`, `util.rs`) |
| `Announcements` | `protocol/announce.rs`: keep-alives, claims, defenses, the expansion of an Opus Quad |
| `BeatPackets` | `protocol/beat.rs`, `protocol/command.rs`, the settings packet, `try_parse_command` |
| `StatusPackets` | `protocol/status.rs`, `protocol/media.rs`: status and media packets and what is derived from them |
| `Messages` | `dbserver/field.rs`, `dbserver/message.rs`: fields and messages, serialised and parsed |
| `TrackData` | `data/`: metadata, cues, grids, waveforms, artwork, analysis tags, signatures |

`TempoTracker` and `Handoff` both extend `TempoMaster`: the first looks inside
its methods, the second takes each as one step and composes many devices.
`Datagrams` composes the packet modules with all listeners, and `Library` the
messages, the decoders and the requests. `MCx` instantiates module `x` for TLC;
`x_proofs` holds its theorems (those about `MasterRole` are at the end of
`Handoff_proofs`). Definitions whose comment begins with *Fault* are
wrong versions of the definition that follows; they are used by no
specification and show, when put in its place, that a property can fail.

How steps correspond to code: a step runs from one point where another task or
the network can intervene to the next. On a multi-threaded runtime these points
are lock acquisitions, channel operations and reads of the watch channel; on a
current-thread runtime only awaits. `TempoTracker` is about the first, which
includes all that the second can do; in `Handoff`, `OneThread` chooses.

* `TempoTracker`: each method of `tempo.rs` is two steps, `Send` (clone of the
  state and events) and `SendModify`. `on_beat` without a known master calls
  `on_device_is_master`, which reads again (`BeatInfers`). Our own status packets
  and beats come back to us like those of others, as nothing filters them out.
  `overtaken` and `unsure` are bookkeeping of the model: a method is overtaken if
  another task moves the master or our role between its two steps, and a field is
  unsure from a write of an overtaken method that moved it, or from our own
  flagged packet after we resigned (for which no event is sent), up to the next
  write that moves it otherwise.
* `Handoff`: `process_cdj_status` is `HandleStatus` (the master flag, before
  the mutex), `AcceptYield` (first lock) and `TrackCounters` (second lock).
  `AcceptYield` sends the command and takes the role in one step, since the
  mutex is held across both and nothing else of the device writes its role
  meanwhile except through that mutex or a force claim. The broadcast loop is
  `SampleMaster` and `SendStatus`; that it skips a packet shortly after a beat
  is a packet not sent at that moment, which the free timing of `SendStatus`
  covers.
* `HandoffRole`: a device holds the role while it is the master, and also
  between the packet that offers it the role and its acceptance: the master flag
  of that packet makes a device that had accepted before a follower for that
  moment. It offers the role while its phase is `Yielding`.
* `Claim`: time is counted in the 300 ms pauses of `run_claim_protocol`.
  `Tick` happens when every claim has sent its packet of the pause and no
  packet is as late as it can be. `start_auto`'s look at the finder is any
  subset of the numbers in use, since keep-alives can be lost.
* `Devices`: time is counted in half seconds. The receive loop is `Receive`
  (the ignore list) and `Insert` (the map's lock, with the events sent under
  it); the ageing task, `flush_devices` and snapshots take the lock in one step.
* `Positions`: packets and the entry keep their age in steps instead of the
  instants of the source; at normal speed a player moves by one unit per step.
  The entry has the pitch of the packet that was handled last (`pitch_multiplier`),
  and `entry.position + age * entry.pitch` is `get_time_for`; the player's own
  pitch is the model's and changes freely. `settled` is what the entry has heard
  of the player's present course, `since` how long that course has gone on.
* `Datagrams`, `Bytes` and the packet modules: a packet is its size and the cells
  that are not zero, at the offsets of the source; a name is one cell of 20
  bytes. Each sending step notes with the packet what ought to be heard of it.
  `StatusReceives` and `StatusSent` are the two halves of the listener's loop,
  which writes the cache before it sends.
* `Library`: fields and messages are sequences of bytes. `Receive` appends some
  of the bytes on their way to `read_buf`, `SimpleResponse` and `MenuMessage`
  are what `simple_request` and `menu_request` do with the next whole message.
  What a player answers is external: it filters and sorts a library by what the
  request's kind means. The names of the functions say what they ought to
  list, and the model gives them in tables, a row for each function.
* `Database`: messages are reduced to kind and transaction; the socket and the
  read buffer of a client are one sequence, `stream`. `send_message_raw` is `Send`
  (the transaction, and the request into the `BufWriter`) and `Flush` or
  `FlushFails`. A dropped future (`Cancel`) frees the mutex and leaves the client
  as it is: dropped between `Send` and `Flush`, the request, or the part of it
  that the socket has not taken, stays in the `BufWriter`, and the next call on
  the client writes it first. `unsent` stands for it, as the answers the player
  will give; so a request never reaches a player torn, but may reach it with
  another's.
* `Session`: `set_sending_status` is `Swap` (the atomic swap, and the spawn,
  which no one can observe apart from it) and, under the lock, `Store` or
  `Take`.

## 3. Runs

Passing runs (distinct states):

| Run | Instance | States | Properties |
|---|---|---|---|
| `tracker` | us and two devices, tempos 0 to 2; status task, beat task and application interleaved, own packets heard | 863,000 | `TypeOK`, `WeMeansUs`, `MasterEventsMirror`, `RoleEventsMirror` |
| `handoff_calls` | two devices, multi-threaded, lossy; two requests and each of the other calls once, by either device, at any time | 781,000 (symmetry) | `TypeOK`, `CountersHeard`, `YieldsUpward`, `AcceptsUpward`, `SyncMonotone` |
| `handoff_settles` | two devices, current-thread, lossy, fair; one force claim and one request | 20,000 | `HandoffSettles`, `ImplementsRole` |
| `claim` | two hosts, one player number and one other, delay 1, two losses | 128,000 | `TypeOK`, `FailsOnlyWhenTaken`, `CollidesOnlyInWindow`, `TurnedAwayByOwner`, `StartsEnd` |
| `devices` | a player with number 1 and an Opus Quad that stands for players 1 and 2; a channel of three events | 528,000 | `PictureMatchesMap`, `MapFollowsNetwork`, `IgnoredGo` |
| `positions` | a player that stands still, runs at normal or at double speed and changes between them, with or without precise positions and an analysed track | 1,013,000 | `EstimateBounds`, `KnownInTime`, `Recovers` |
| `datagrams` | every packet the crate builds and those of a player, a mixer, an Opus Quad and XDJs; status packets of six sizes | 375,000 | `HeardAsMeant`, `NothingMissed`, `NoPanic`, `LatestIsLastHeard`, `DerivedRight` |
| `database` | two tasks, one player that may fall silent, one item per menu, one dropped future, one closed connection | 201,000 | `AnswersOwn`, `FailsForAReason`, `CallsEnd` |
| `library` | four tracks, one of them with texts that are no UTF-16, all 41 menus, searches, the six fetches and the six calls of the provider, files of all tracks | 92,000 | `AnsweredAsStored`, `StreamClean`, `SearchesFind`, `FilesRead`, `CallsEnd` |
| `session` | two tasks that switch broadcasting, three loop identities | 77,000 | `LoopMatchesFlagInTurn`, `QuietWhenOff`, `ListenersEnd`, `StopEndsAll` |

Runs in which TLC finds the property violated, each one a disagreement between
the code and a sentence of its own documentation (`findings` in `PROJECT.json`
quotes both):

| Run | Property | What happens |
|---|---|---|
| `handoff_stale_command` | `ResignsToNewMaster` | a late master command, sent before the offer, is taken for its confirmation; nobody is master afterwards |
| `database_reconnects` | `Reconnects` | a closed connection stays in the pool and every retry refreshes it |

Every property of a passing run has at least one mutant in `PROJECT.json`: a
*Fault* put in the place of a definition makes TLC find that property violated.
A property that is a conjunction of named parts has one for each part.

### Bounds

* `InboxCap` (datagrams per port), `MaxBacklog`, `Loop` (3 identities) and the
  ages limit the model, not the program. A full inbox makes a sender wait
  without loss, or the datagram miss its receiver with loss. In the runs of the
  handover, two datagrams per port are enough for a stale and a fresh one to be
  told apart; in `handoff_calls`, one per port and one in the status task's hand
  are, and leave room for the second request. Three loop identities are enough
  for two overlapping calls and a loop whose handle was lost.
* `Budget` gives how often each method is called. In `handoff_calls` a role
  is requested twice and every other method called once, by either device, so that
  a counter moves after packets that tell the old one; the sync counters, which only
  requests raise, then stay far below `SyncModulus`.
* `Claim`: delay 1 and two losses leave one of the three stage-2 packets, the
  worst case in which an owner still defends. `Window` says what that costs
  and is meaningful for `MaxLoss < 3`; with three losses a defense can be
  missed altogether.
* `Devices`: `MaxMissed = 1` keep-alive of a device lost in a row, after which
  `DEVICE_EXPIRY` has 3 half seconds left; `MaxCalls = 2` departures, flushes,
  ignores and failures, two of which can follow each other in any order;
  `Capacity = 3` for the source's 256, so that a subscriber does lag. With
  `MaxDelay = 0` a keep-alive arrives within its half second.
* `Positions`: `MaxLag = 1` lets a packet of one stream be handled after a later
  one of another, `MaxChanges = 2` starts, stops, jumps, changes of pitch, other
  players that take the number over, removals or lost packets; a track of 7 units
  with beats every 3 has a beat before, within and after the changes. `Patience`
  is not a bound but what `KnownInTime` claims, in terms of `MaxLag` and
  `StatusInterval`.
* `Datagrams`: `MaxSent = 2` packets, of which two only for the streams in which
  packets meet, statuses (in the cache) and media (compared); for the others
  packets are handled one by one, without state between them.
* `Library`: `MaxCalls = 2` calls on a connection, so that the second shows what
  the first left; answers arrive whole or in pieces of three bytes (`Pieces`),
  which cut every field, also those whose length is one of its bytes.
* `Database`: a call begins on a client only while at most `MaxBacklog` messages
  are to come on it, the oldest from at most `MaxAge` requests ago (`Recent`);
  `TxnModulus = 5` makes the counter wrap during a run and stays above what
  `MaxAge = 2` lets lie unread, as 2^32 does in the program.
* Deadlock is not checked where the system may stop: `claim` (all hosts
  started), `session` (after shutdown), `database` (every call waiting for a
  silent player, bounds used up), `datagrams` (all packets handled).

### Fairness

* `Handoff`: weak fairness of the tasks' steps, which Tokio schedules; a
  datagram that is sent again and again reaches its receiver some time. Sending
  is strongly fair only because a full inbox, which the program does not have,
  disables it.
* `Claim`: tasks run, packets that are not lost arrive, time goes by.
* `Devices`: the finder's tasks and the subscriber run, time goes by, devices
  that are on announce themselves. `Join`, `Leave` and the calls are free.
* `Positions`: time goes by, a player sends what is due, the application's tasks
  run. Losses are counted by `MaxChanges`.
* `Database`: tasks run, players that are not silent answer; strong fairness of
  the mutex, since Tokio's is granted in the order of the requests.
* `Library`: the player answers what it has read, bytes on their way arrive, and
  a task that is ready is polled. `ENABLED` of these steps is written out
  (`Asked`, `Awaiting`, `Arrived`) because TLC is slow to find it.
* `Session`: weak fairness of a running loop's tick, of the drop of an aborted
  task and of the steps of a call or of shutdown that has begun.

## 4. What the runs show

* **Events mirror the state, but for two cases.** A subscriber who follows the
  events of `TempoMaster` knows master and role whenever no method is half done,
  whatever tasks interleave, unless the last change of it was written by a method
  that another task had overtaken since it read the state (the events then come in
  another order than the writes, `network/tempo.rs:174`), or was made by our own
  status packet after we resigned, for which `on_device_is_master` finds no change
  of master to tell (`network/tempo.rs:159`). Both cases occur in the run. Explored
  but not kept as properties: with several threads a beat's tempo can be written
  after another device became master, and a master inferred from a beat can
  displace one that a status told (`network/tempo.rs:190`).
* **Devices yield and accept only upward**: whoever is offered the role, and
  whoever accepts it, has a counter above that of the device that offers it, at
  that moment and whatever was lost, delayed, looped back or requested again in
  between. So no chain of offers comes back to where it began without a new
  request.
* **The handoff is a handover of one role** over a lossy network, on
  current-thread runtimes, once counters have been heard, if one device claims
  the role and one requests it: `Handoff` refines `MasterRole`, liveness
  included, for two devices. This is model-checked and not proved: each of those
  restrictions is needed and none is the code's own, so that a theorem under them
  would say little of the program. Explored
  but not kept as runs: on a multi-threaded runtime the role can be lost (the
  loop's two reads); with two requests two of three devices can hold the role
  without yielding to each other; a request made before any packet was heard is
  never granted; a device that hears its own datagrams takes the role back.
* **A collision of device numbers needs overlapping claims**, by less than
  `Window` pauses; it is not impossible, since nobody defends while claiming.
* **The finder's map follows the network**, and subscribers who are not told that
  they lagged follow the map, whatever flushes, ageing and the ignore list do
  between two packets. The end of the receive loop shows only by the loss of
  every device, within 11 half seconds (`GoneInTime`).
* **Positions are off by less than a beat** for players without precise
  positions, and by the time `snap_forward` counts twice when it handles an older
  packet after a newer one (`network/time.rs:60`); a precise position sets that
  right. That holds as soon as the entry knows the player's course. An old packet
  handled after a new one of another stream takes the old pitch or playing state
  back, and until the next packets readers move at the wrong speed
  (`network/time.rs:193`); but `Patience` steps after the last change, loss or
  removal, the entry does know the course (`KnownInTime`). The exception is an
  entry that is `Stuck`: once it had a precise position it takes none from a
  status packet, not even if a player without precise positions has taken the
  number over, and only `remove_player` helps (`network/time.rs:181`).
* **What is sent is heard**, by the right subscribers only, for every sending
  operation. A tempo may arrive a hundredth too low (`status.rs:699`), and no
  more. The cache of statuses may be one ahead of the stream, never behind.
* **Calls return what the player stores**, however its answer is cut into pieces,
  and leave the stream clean for the next call. A text that is no UTF-16, such as
  one that was cut within a character of two code units, makes the call wait until
  the connection is closed (`dbserver/field.rs:146`, `client.rs:138`), which
  `CallsEnd` excepts; in a file, one such comment is an error of the whole list of
  cues (`data/cue.rs:464`).
* **The pool never mixes answers up** on connections no dropped call has used;
  what it does not do is let go of a broken or silent connection. A silent
  player keeps the pool's mutex, and with it every other player's requests
  (`dbserver/connection.rs:95`).
* **Flag and loop of the status broadcast agree** as long as calls do not
  overlap. When they do, a call may abort the loop that another has just started,
  and the flag stays on without a loop (`network/virtual_cdj.rs:596`). Shutdown
  cannot unwrap the virtual CDJ while an aborted task still holds it
  (`lib.rs:317`); its loops then live on, which `StopEndsAll` excepts.

Smaller things the models are built around, because the source is so:

* `build_beat` writes 0x3c where `parse_beat` reads the type of the sender's
  device, so the type of the crate's own beats is not one it knows.
* The documents of `header.rs` and `command.rs` name 0x7f for precise positions
  and port 50002 for sync and master commands; the code uses 0x0b and 50001,
  and so do the models.
* The status listener and the command listener share a port (`SO_REUSEPORT`). A
  packet to everyone reaches both; one to this host alone reaches one of them.
* An Opus Quad is listed as players 1 to 4 but its statuses are cached under its
  own numbers, 9 to 12; `remap_opus_quad_device` leads from one to the other.
* A menu request takes a response that is no menu for its only item: of a track
  that the player does not have, `fetch_metadata` gives metadata with nothing in
  them and `fetch_cue_list` one memory point at 0 (`AnsweredAsStored`).
* The signature of a track uses tempos cut to a hundredth; `FilesRead` shows that
  it does not change when a grid is written and read again.
* `find_beat_at_time` gives any of several beats at one time; `FindBeatAtTime` is
  the set of them.

## 5. Proofs

| Theorem | States | Assumes |
|---|---|---|
| `TrackerTypeOK` | the tracker's variables keep their types | |
| `TrackerWeMeansUs` | we are master only if the master is us: every interleaving, own packets included | |
| `TrackerMasterEventsMirror`, `TrackerRoleEventsMirror` | between methods, a subscriber's views of master and role are exact, unless the last change of them was overtaken or untold: every interleaving, own packets included | |
| `HandoffTypeOK` | type correctness | `NoOverflow` |
| `HandoffCountersHeard` | the largest counter heard was reached by a device; no counter runs away | `NoOverflow` |
| `HandoffYieldsUpward` | a device yields only to one whose counter is above its own now | `NoOverflow` |
| `HandoffSyncMonotone` | no step lowers a sync counter | `NoOverflow` |
| `HandoffAcceptsUpward` | a device that takes an offer has a counter above the one that made it | `NoOverflow` |
| `RoleTypeOK`, `RoleIsKept`, `RoleOverlapsOnlyInHandoff` | of `MasterRole` itself: a role that was claimed is never dropped, and two devices hold it only while one hands it to the other | |
| `ClaimTypeOK` | no claim outlives its twelve packets | |
| `ClaimTurnedAwayByOwner` | a host is turned away only by an owner that defends | |
| `ClaimFailsOnlyWhenTaken` | `start_auto` gives up only when turned away from every number it may try | |
| `ClaimCollidesOnlyInWindow` | two hosts claim one number only if their claims began less than `Window` pauses apart | `MaxDelay <= 1`, `MaxLoss <= 2` |
| `DevicesTypeOK` | type correctness | |
| `DevicesPictureMatchesMap` | a subscriber that has not lagged has the picture of the map once it has read its queue | |
| `DevicesGoneInTime` | no entry outlives the expiry by more than an interval of the ageing task | |
| `DevicesMapFollowsNetwork` | devices that announce themselves stay in the map, those that do not leave it in time | `Gap <= DeviceExpiry` |
| `PositionsTypeOK` | type correctness | |
| `PositionsEstimateBounds` | once the course is known, the position a reader is given is off by less than a beat, but for what an old packet makes count twice: any pitches, any changes of them | |
| `PositionsKnownInTime` | `Patience` steps after the last change it is known, unless the entry is stuck | |
| `DatabaseTypeOK` | type correctness | |
| `DatabaseFailsForAReason` | a request fails only on a connection that is closed or that a dropped call has used | |
| `DatabaseAnswersOwn` | a request gets its own answer, all of it and nothing else | `[]NotReused` |
| `DatagramsHeardAsMeant` | what a device sends is heard as it was meant, by the subscribers it is for and by no others, once and in order | |
| `DatagramsNothingMissed` | a listener that gets a packet sends its subscribers all that the packet tells | |
| `DatagramsNoPanic` | no listener reads past the end of a packet | |
| `DatagramsDerivedRight` | the crate works out of its events whether a player plays, which deck of an Opus Quad a number is and whether a medium was swapped | |
| `DatagramsLatestIsLastHeard` | the cache of the latest statuses is never behind what subscribers have heard, and ahead only by the status about to be sent | |
| `SessionTypeOK` | only tasks that run are aborted; type correctness | |
| `SessionLoopMatchesFlagInTurn` | unless calls have overlapped, one broadcast loop goes on while the flag is on and none while it is off | |

They hold for any set of devices, hosts, callers or players, any network and any
budget, under the assumptions named in the modules and those of the last column:

* `NoOverflow` (`Handoff_proofs`): the requests of a run do not exhaust a
  32-bit counter. Without it a counter wraps to 0 and `SyncMonotone` fails.
* `MaxDelay <= 1`, `MaxLoss <= 2` (`Claim_proofs`): a defense comes back before
  the claim ends only if one of the three packets of stage 2 arrives, and soon.
* `Gap <= DeviceExpiry` (`Devices_proofs`): the losses in a row and the delay of
  a device's keep-alives, which come every 1.5 s, fit into the 5 s of the
  expiry. Without it a device that is on does expire.
* `NotReused` (`Database_proofs`): no transaction is given out again while a
  message under it lies unread or a request under it unsent. `u32` transactions come round after 2^32 requests
  on one connection; if one did meet an old message, `simple_request` would take
  it for its answer. The run `database`, with five transactions, keeps it.
* The theorems of `Datagrams` need only its assumptions on constants, for any
  number of packets: device numbers, addresses and the raw numbers of an Opus
  Quad are bytes; a tempo fits into two of them; the crate's own device is not
  named like an Opus Quad; a raw number lies in one of the two ranges of decks.

The inductive invariants:

* **TempoTracker.** `WeMeansUs` alone is not inductive, since a pending write
  could put another device beside our role; it holds because every write of a
  method sets role and device together or changes neither device nor claims the
  role. For the mirrors, `MirrorInv` says of each field that is not unsure that the subscriber believes what it is or what a write still to be
  made will set it to (`Expected`), and of any field that, if a write that was not
  overtaken will move it (`Moves`), such a write will set it to what the
  subscriber believes (`Leads`): a first write of several overtakes the others.
* **Handoff.** `IInv` is `TypeOK`, `PacketsHonest`, `CountersHeard`,
  `CountersBounded` (counters plus the requests left stay within the budget) and
  `TargetsAbove` (who is offered the role has the larger counter). Packets have to
  be part of it, since a device decides on them, however old: a status packet that
  is under way or in a task's hand (`CouldHear`) tells a counter its sender has
  reached and offers the role only to a device above that counter. Counters only
  go up, so that both stay true while the packet is under way. `YieldsUpward` and
  `AcceptsUpward` follow.
* **MasterRole.** `RoleShape` says which of three shapes the state has: nobody holds
  the role, one device does, or `d` hands it to `e` and either or both hold it.
* **Claim.** `IInv` is `TypeOK`, `Numbered` (a claim has a number) and
  `DefensesHonest` (a defense under way or heard was sent by a host that owns
  its number): owners never let go, so what was true at the sending is true
  when the claim fails. `AutoCovers` says that each number `start_auto` may try
  is taken, being tried or still to be tried. For the collisions,
  `InTime` follows the three packets of stage 2 of a claim that lags behind an
  owner: a claim sends one packet per pause (`InStep`); one of the three that is
  neither under way nor answered was lost (`LossesCounted`); so the claim does
  not reach the end of its last pause (`TurnedAwayInTime`).
* **Devices.** `MirrorInv` says of the queue of a subscriber that the last event
  about a device, if there is one, leaves the picture as the map is, and that the
  picture is right where no event is queued. It survives the loss of the oldest
  events, of which the subscriber is told. `Aged` bounds the age of entries by
  the phase of the ageing task. `HeardInv` adds to the age of an entry the time
  until its device is heard again at the latest (`Left`), counting the
  keep-alive under way, the one in the receive loop, and those that may be lost:
  the sum never exceeds `Gap`.
* **Positions.** `FollowInv` is `TypeOK`, `PacketsTrue` (a packet still true of
  the player's course tells its pitch and where it is now; a beat number where its
  beat began), `CourseKnown` (what the entry has settled of the course it has right)
  and `EstimateBounds` itself. `TimeInv`, for `KnownInTime`, follows the packets
  through time: an old one is at least as old as the course (`StaleOld`), and old
  ones come first in their stream; as long as the playing state, or the whole
  course, is not settled, a fresh packet that will settle it waits or is due early
  enough (`PlayingInTime`, `PlainInTime`, `PreciseInTime`).
* **Database.** `CleanInv`: while a call writes or reads on a connection that no
  dropped call has used, what it has collected, what is unread and what is unsent
  make up its own answer, in order and cut off only by a closed connection;
  between calls nothing is unread or unsent. `AnswersInv` adds that on any
  connection only the answer of a simple request carries its transaction.
* **Datagrams.** `HearInv` says of each packet (`SoundSent`) that the listeners
  which have not handled it yet will make of it what its sender meant (`Meant`):
  the owner of the stream tells its events and the others tell nothing. For this,
  a first part of the module proves what a packet that was built reads as, cell
  by cell, and from that one lemma per operation (`...Sound`): a number of two
  bytes is read back as it was written, a byte from a table as its row, and the
  port, type byte and size lead to one listener only. `Progress` says where a
  packet is: nothing of it is heard yet (`Waits`), its status is in the cache and
  about to be sent (`Arrives`), or all its events stand in a row in what was heard
  (`Finished`); `HeardAsMeant` and `NothingMissed` follow. `Shape` has that
  every field of what is heard is a value (`Valued`), since a parser that has
  checked the size of a packet makes only values of it, of whatever cells it
  is: that is `NoPanic`. `TellInv`, for `DerivedRight`, adds that an event
  comes from the packet it is heard of (`FromPackets`), and that what the crate
  works out of a packet is right (`SentImplied`). `CacheInv` is
  `LatestIsLastHeard` for every device number; the other listeners leave it
  alone because none of them sends on the stream of statuses (`OthersHeard`).
* **Session.** `LoopMatchesFlagInTurn` says nothing about a call between its swap
  and its lock, where flag and handle disagree. `IInv` adds `HalfWay`: a call
  that will store has its loop as the only one that goes on, and one that will
  take has nothing going on but the loop in the slot; and `OneAtATime`.

Each proof has one step per action and one per conjunct the action can disturb.
TLC checked the invariants on the instances above before they were proved.

## 6. Limits and what is not modelled

* Only model-checked:
  * everything about liveness (`HandoffSettles`, `StartsEnd`, `CallsEnd`, `IgnoredGo`,
    `Recovers`, `QuietWhenOff`, `ListenersEnd`, `StopEndsAll`): TLAPS has no
    rules for `ENABLED` and fairness with the installed back ends;
  * `ImplementsRole`, which holds only under the restrictions of section 4;
  * `Library`: `AnsweredAsStored`, `StreamClean`, `SearchesFind` and `FilesRead`
    are about what loops over messages, rows, tags and cues compute, which are
    recursive functions and folds over data of any length. The library's induction
    theorems cannot be instantiated with the installed provers, so each of those
    loops would need an induction rebuilt from sets by hand, and `SetToSortSeq`
    and `SelectSeq` a definition the provers can expand. The packets of
    `Datagrams` have fixed layouts, so that theirs does not.

  `TypeOK` of these two modules documents their state and is not in the runs.
* Tempos are small numbers, which differ in `TempoMaster` when the source's
  differ by more than 0.001 BPM, and are hundredths in `Datagrams`, with the set
  of those that floating point cuts off (`Inexact`) as a constant.
* Texts are sequences of code units, of which a character takes one or two;
  `trim` knows only the space.
* `Positions` follows one player. A packet is dated when it is sent, so time on
  the network is part of `MaxLag`; a jump is to the beginning. The pitch is a whole number, and
  not negative, as the code treats one below zero like zero.
* The runs of `Handoff` leave out devices that hear their own datagrams
  (`LoopBack`); the theorems do not.
* In `Handoff` a lagging receiver of a broadcast channel is not told apart from a
  lost datagram.
* Hosts and players are honest: packets and messages are well-formed, except for
  status packets that are too short and texts that are no UTF-16. The pool, which
  is keyed by the player's
  number alone, does not see a player whose address changes.
* `Claim` leaves `stop` out, so owners keep their numbers; hence "partly".
* `protocol/`: predicates of `CdjStatus`, `MixerStatus` and `Beat` that compare
  one field, and the text of the cue countdown, are left out.
* `data/`: the table of rekordbox colors and the RGB values of color items
  (constants), `fetch_anlz_tag` (it always fails) and the hash of a signature.
* `device/`, `util.rs`: `Display`, the error type, percentages of a pitch read
  back, phrase colors.
* Not modelled at all: `network/interface.rs` and the sockets (queries of the
  operating system, pure I/O) and the testing support (fixtures). The examples
  are applications of the crate, not part of it.

## 7. Plan

Done: the tempo master, the handoff and its abstract specification, the claim,
the device finder, position tracking, all packets and their listeners, the
database connections, the library, the session; proofs of every safety property
of the runs but those of `Library` and the refinement.

What would add most next:

1. The composition of `Devices` with `TempoTracker`: an application that calls
   `on_no_master` when the master's device is lost.
2. `stop` in `Claim`, with owners that let go of their numbers.
3. What two requests at once may do to the role, as an abstract specification
   weaker than `MasterRole`.
