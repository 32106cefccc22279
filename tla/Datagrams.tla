----------------------------- MODULE Datagrams -----------------------------
(***************************************************************************)
(* The packets between the virtual CDJ, the devices of the network and the *)
(* tasks that listen: DeviceFinder on port 50000, BeatFinder on 50001,     *)
(* StatusListener and the command listener on 50002, which share that port *)
(* (network/beat.rs, network/status.rs, network/virtual_cdj.rs, the        *)
(* dispatch of network/finder.rs).                                         *)
(*                                                                         *)
(* An operation of the virtual CDJ builds a packet and broadcasts it; what *)
(* a subscriber ought to hear of it is kept beside it.  Packets may be     *)
(* lost and handled in any order.  A device may also send to our address   *)
(* alone, and then the kernel gives its packet to one of the sockets that  *)
(* share the port.                                                         *)
(***************************************************************************)
EXTENDS Announcements, StatusPackets, Functions

CONSTANTS
    Me, MyMac, MyIp,    \* device number and addresses of the virtual CDJ
    MyName,             \* the names it may be given
    Player, Mixer,      \* device numbers of a player and of a mixer
    OpusRaw,            \* device numbers an Opus Quad has
    Tempo,              \* tempos, in hundredths of a BPM
    Sizes,              \* sizes of the status packets of players
    MaxSent,            \* bound: packets sent
    Mixed               \* bound: the streams of which more than one packet is sent

\* Device numbers are bytes and 255 is nobody's; names other than the long ones are cut
\* nowhere; nobody else calls itself an Opus Quad.
ASSUME DatagramsAssumption ==
    /\ {Me, Player, Mixer} \subseteq Byte \ {NoHandOff} /\ OpusRaw \subseteq Byte
    /\ MyMac \in [1..6 -> Byte] /\ MyIp \in [1..4 -> Byte]
    /\ MyName \subseteq {n \in Name : Cut[n] # OpusQuadName} /\ CommandName # OpusQuadName
    /\ \A n \in {CommandName, OpusQuadName} \union XdjNames : Cut[n] = n
    /\ Tempo \subseteq Nat /\ (\A bpm \in Tempo : bpm < 65536)
    /\ Sizes \subseteq Nat /\ MaxSent \in Nat

\* An Opus Quad has the numbers of its two modes.
ASSUME OpusAssumption ==
    OpusRaw \subseteq (OpusNormalBase..(OpusNormalBase + 3)) \union (OpusLightingBase..(OpusLightingBase + 3))

\* What a field of an event may be: a number, a flag, a name, a word, nothing, a sequence
\* of these, or the settings of a player.
Firmware == "1.00"
Word == {"Unknown", "Start", "Stop", "NoChange", "FaderStart", "LoadTrack", "Cdj", "Mixer", Firmware}
        \union {row[2] : row \in DeviceType \union TrackSourceSlot \union TrackType \union PlayState
                              \union PlayState2 \union PlayState3 \union MediaType}
        \union UNION {Range(SettingAt[o].names) : o \in DOMAIN SettingAt}
Datum == Int \union BOOLEAN \union Name \union Word \union {None}
Value == Datum \union Seq(Datum \union Seq(Datum)) \union [DOMAIN SettingAt -> Word]

ASSUME PanicAssumption == Panic \notin Value

VARIABLES
    sent,       \* the packets, each with what ought to be heard of it
    pending,    \* the listeners that have not handled or lost each packet
    lost,       \* packets some listener has not got
    heard,      \* what the subscribers were sent, in order
    latest,     \* StatusListener's cache: the packet of the latest status
    inserting,  \* the status that is in the cache and not sent yet: none or one
    xdjSeen     \* whether an XDJ's beat is recent: can_see_xdj_xz_in_pro_dj_link_mode

vars == <<sent, pending, lost, heard, latest, inserting, xdjSeen>>

Listener == {"finder", "beats", "status", "commands", "app", "player"}
Listens(port) == CASE port = DiscoveryPort -> {"finder"}
                   [] port = BeatPort      -> {"beats"}
                   [] port = StatusPort    -> {"status", "commands"}

Stream == {"found", "defense", "claim", "beat", "precise", "on_air", "sync", "handoff",
           "fader_start", "command", "status", "media", "settings"}

Ids == 1..MaxSent

TypeOK ==
    /\ Len(sent) <= MaxSent
    /\ \A i \in DOMAIN sent : /\ sent[i].port \in {DiscoveryPort, BeatPort, StatusPort}
                              /\ \A o \in DOMAIN sent[i].packet.at : o < sent[i].packet.size
    /\ pending \in [Ids -> SUBSET Listener] /\ lost \subseteq Ids
    /\ \A k \in DOMAIN heard : heard[k].id \in DOMAIN sent /\ heard[k].stream \in Stream
    /\ \A n \in DOMAIN latest : latest[n] \in DOMAIN sent
    /\ Len(inserting) <= 1 /\ \A k \in DOMAIN inserting : inserting[k].id \in DOMAIN sent
    /\ xdjSeen \in BOOLEAN

Init ==
    /\ sent = <<>> /\ pending = [i \in Ids |-> {}] /\ lost = {}
    /\ heard = <<>> /\ latest = <<>> /\ inserting = <<>> /\ xdjSeen = FALSE

-----------------------------------------------------------------------------
\* Sending.  stream and events are what subscribers ought to hear.

Emit(port, to, packet, stream, events) ==
    /\ Len(sent) < MaxSent
    /\ sent # <<>> => stream \in Mixed /\ \A i \in DOMAIN sent : sent[i].stream \in Mixed
    /\ sent' = Append(sent, [port |-> port, packet |-> packet, stream |-> stream, events |-> events])
    /\ pending' = [pending EXCEPT ![Len(sent) + 1] = to]
    /\ UNCHANGED <<lost, heard, latest, inserting, xdjSeen>>

Broadcast(port, packet, stream, events) == Emit(port, Listens(port), packet, stream, events)

\* Announcements: keep-alives, claims and defenses (handled in Claim and Devices).
SendKeepAlive ==
    \E name \in MyName :
       Broadcast(DiscoveryPort, BuildKeepAlive(name, Me, MyMac, MyIp, <<"Cdj">>), "found",
                 <<[name |-> Cut[name], number |-> Me, device_type |-> <<"Cdj">>,
                    mac_address |-> MyMac, ip_address |-> MyIp, library_plus |-> FALSE]>>)

SendHello == Broadcast(DiscoveryPort, BuildDeviceHello(CommandName), "claim", <<>>)

SendClaim ==
    \/ Broadcast(DiscoveryPort, BuildClaimStage1(CommandName, MyMac, 1), "claim", <<>>)
    \/ Broadcast(DiscoveryPort, BuildClaimStage2(CommandName, MyMac, MyIp, Me, 1, TRUE), "claim",
                 <<[device_number |-> Me]>>)
    \/ Broadcast(DiscoveryPort, BuildClaimStage3(CommandName, Me, 1), "claim", <<>>)

SendDefense ==
    Broadcast(DiscoveryPort, BuildDefense(CommandName, Me, MyIp), "defense",
              <<[device_number |-> Me]>>)

\* send_beat
SendBeat ==
    \E name \in MyName, bpm \in Tempo, bar \in {1, 4} :
       Broadcast(BeatPort, BuildBeat(name, Me, bpm, PitchNormal, bar), "beat",
                 <<[name |-> Cut[name], device_number |-> Me, bpm |-> bpm, pitch |-> PitchNormal,
                    beat_within_bar |-> bar, timing |-> [i \in 1..6 |-> None]]>>)

\* send_on_air_command
SendOnAirCommand ==
    \E on \in SUBSET (1..4) :
       LET channels == [i \in 1..4 |-> i \in on]
       IN  Broadcast(BeatPort, BuildOnAir(CommandName, Me, channels), "on_air",
                     <<[device_number |-> Me, channels |-> channels]>>)

\* fader_start; the channel is the target's, or the last one.
FaderStart ==
    \E target \in {1, Player, Me}, start \in BOOLEAN :
       Broadcast(StatusPort, BuildFaderStartSingle(Me, target, start), "command",
                 <<[kind |-> "FaderStart", source_device |-> Me,
                    channels |-> [i \in 1..4 |-> CASE i # SingleChannel(target) -> "NoChange"
                                    [] i = SingleChannel(target) /\ start -> "Start"
                                    [] OTHER -> "Stop"]]>>)

\* load_track
LoadTrack ==
    \E slot \in Values(TrackSourceSlot), type \in Values(TrackType) :
       Broadcast(StatusPort, BuildLoadTrack(Me, Player, Player, slot, type, <<0, 0, 1, 2>>), "command",
                 <<[kind |-> "LoadTrack", source_device |-> Me, source_player |-> Player,
                    source_slot |-> slot, track_type |-> type, rekordbox_id |-> <<0, 0, 1, 2>>]>>)

\* set_sync
SetSync ==
    \E enable \in BOOLEAN :
       Broadcast(BeatPort, BuildSyncCommand(Me, Player, enable), "sync",
                 <<[device_number |-> Me, sync_enabled |-> enable]>>)

\* become_master
BecomeMaster ==
    Broadcast(BeatPort, BuildMasterCommand(Me), "handoff", <<[device_number |-> Me]>>)

\* send_load_settings_command.  Only the player hears of it: one setting differs from
\* the default.
DefaultSettings == [o \in DOMAIN SettingAt |-> SettingAt[o].default]
SendLoadSettings ==
    \E o \in DOMAIN SettingAt : \E i \in DOMAIN SettingAt[o].names :
       LET settings == [DefaultSettings EXCEPT ![o] = SettingAt[o].names[i]]
       IN  Emit(StatusPort, Listens(StatusPort) \union {"player"}, BuildSettings(settings, Me, Player),
                "settings", <<[target |-> Player, settings |-> settings]>>)

\* The status loop's packet: on air, a default pitch and no beat number.
SendStatus ==
    \E playing \in BOOLEAN, synced \in BOOLEAN, bpm \in Tempo,
       role \in {<<FALSE, None>>, <<TRUE, None>>, <<TRUE, Player>>} :
       Broadcast(StatusPort,
          BuildCdjStatus([device_name |-> CommandName, device_number |-> Me, bpm |-> bpm,
             flags |-> [playing |-> playing, master |-> role[1], synced |-> synced,
                        on_air |-> TRUE, bpm_sync |-> FALSE],
             pitch |-> PitchNormal, beat_number |-> None, beat_within_bar |-> 1,
             master_hand_off |-> role[2], sync_number |-> <<0, 0, 0, 1>>,
             packet_number |-> <<0, 0, 1, 0>>]),
          "status",
          <<[kind |-> "Cdj", device_number |-> Me, device_type |-> <<"Cdj">>,
             is_playing_flag |-> playing, is_master |-> role[1], is_synced |-> synced,
             is_on_air |-> TRUE, is_bpm_synced |-> FALSE, bpm |-> bpm, pitch |-> PitchNormal,
             beat_number |-> None, beat_within_bar |-> 1, master_hand_off |-> role[2],
             sync_number |-> <<0, 0, 0, 1>>, packet_number |-> <<0, 0, 1, 0>>,
             cue_countdown |-> None, loop_beats |-> None]>>)

-----------------------------------------------------------------------------
\* Other devices.

\* Keep-alives of a mixer, of an Opus Quad and of an XDJ-AZ.
AnnounceDevice ==
    \/ Broadcast(DiscoveryPort, BuildKeepAlive(CommandName, Mixer, MyMac, MyIp, <<"Mixer">>), "found",
                 <<[number |-> Mixer, device_type |-> <<"Mixer">>]>>)
    \/ \E raw \in OpusRaw :
          Broadcast(DiscoveryPort, BuildKeepAlive(OpusQuadName, raw, MyMac, MyIp, <<"Cdj">>), "found",
                    [i \in 1..4 |-> [number |-> i, name |-> OpusQuadName]])

\* A packet ends at its size.
Short(packet) ==
    [packet EXCEPT !.at = [o \in {i \in DOMAIN packet.at : i < packet.size} |-> packet.at[o]]]

\* A player's status packet, as long as size, and what such a packet tells.
FrontCells ==
    {Cells(NameOffset, <<CommandName>>), Cells(DeviceNumberOffset, <<Player, 0, 1>>),
     Cells(\h27, <<1, Player, 3, 1>>), Cells(\h2c, <<0, 0, 7, 8>>),
     Cells(\h32, <<0, 9>>), Cells(\h37, <<\h1e>>), Cells(\h46, <<1, 0>>),
     Cells(\h6f, <<4>>), Cells(\h73, <<0>>), Cells(\h75, <<1>>)}

BackCells(playing, flags) ==
    {Cells(\h7b, <<IF playing THEN \h03 ELSE \h05>>), Cells(\h7c, <<Firmware>>),
     Cells(\h84, <<0, 0, 0, 2>>), Cells(\h89, <<flags>>),
     Cells(\h8b, <<IF playing THEN \h7a ELSE \h7e>>), Cells(\h8d, Bytes(PitchNormal, 3)),
     Cells(\h92, Bytes(12800, 2)), Cells(\h9d, <<IF playing THEN \h09 ELSE 1>>),
     Cells(\h9f, <<NoHandOff>>), Cells(\ha0, <<0, 0, 0, 5>>), Cells(\ha4, <<0, 6>>),
     Cells(\ha6, <<1>>), Cells(\hc8, <<0, 0, 0, 3>>)}

LoopCells == {Cells(\h1b6, <<0, 0, 3, 232>>), Cells(\h1be, <<0, 0, 7, 208>>), Cells(\h1c8, <<0, 4>>)}

PlayerCells(size, playing) ==
    FrontCells \union BackCells(playing, IF size >= NexusLen /\ playing THEN \h40 ELSE 0)
    \union (IF size < LoopThreshold THEN {} ELSE LoopCells)

PlayerPacket(size, playing) == Short(Packet(size, \h0a, PlayerCells(size, playing)))

PlayerEvents(size, playing) ==
    LET loops == size >= LoopThreshold
    IN  IF size < MinCdjStatusLen THEN <<>>
        ELSE <<[kind |-> "Cdj", device_number |-> Player, track_source_player |-> Player,
                track_source_slot |-> <<"UsbSlot">>, track_type |-> <<"Rekordbox">>,
                rekordbox_id |-> <<0, 0, 7, 8>>, firmware_version |-> Firmware, bpm |-> 12800,
                beat_number |-> <<0, 0, 0, 5>>, cue_countdown |-> 6, master_hand_off |-> None,
                packet_number |-> <<0, 0, 0, 3>>, is_busy |-> TRUE, track_number |-> 9,
                local_usb_state |-> 4, local_sd_state |-> 0, link_media_available |-> TRUE,
                local_disc_state |-> \h1e, disc_track_count |-> 256,
                play_state |-> IF playing THEN <<"Playing">> ELSE <<"Paused">>,
                loop_start |-> IF loops THEN 65536 ELSE None,
                loop_end   |-> IF loops THEN 131072 ELSE None,
                loop_beats |-> IF loops THEN 4 ELSE None]>>

\* It goes to everyone, or to us alone, where one of two listeners gets it.
PlayerStatus ==
    \E size \in Sizes, playing \in BOOLEAN :
       LET packet == PlayerPacket(size, playing)
           events == PlayerEvents(size, playing)
       IN  \/ Broadcast(StatusPort, packet, "status", events)
           \/ \E l \in Listens(StatusPort) :
                 Emit(StatusPort, {l}, packet, "status", IF l = "status" THEN events ELSE <<>>)

\* A mixer: build_mixer_status, the fader start and the flags of six channels.
MixerStatus ==
    \E role \in {<<FALSE, None>>, <<TRUE, None>>, <<TRUE, Me>>}, synced \in BOOLEAN, bpm \in Tempo :
       Broadcast(StatusPort,
          BuildMixerStatus([device_name |-> CommandName, device_number |-> Mixer, bpm |-> bpm,
             pitch |-> PitchNormal, beat_within_bar |-> 2, is_master |-> role[1],
             is_synced |-> synced, master_hand_off |-> role[2]]),
          "status",
          <<[kind |-> "Mixer", device_number |-> Mixer, bpm |-> bpm, pitch |-> PitchNormal,
             beat_within_bar |-> 2, is_master |-> role[1], is_synced |-> synced,
             master_hand_off |-> role[2]]>>)

MixerFaderStart ==
    LET channels == <<"Start", "Stop", "NoChange", "Stop">>
    IN  Broadcast(BeatPort, BuildFaderStart(Mixer, channels), "fader_start",
                  <<[device_number |-> Mixer, channels |-> channels]>>)

SixChannelsOnAir ==
    \E on \in {{}, {1, 6}} :
       Broadcast(BeatPort,
          Packet(\h2a, \h03,
             {Cells(NameOffset, <<CommandName>>), Cells(DeviceNumberOffset, <<Mixer>>),
              Cells(\h24, [i \in 1..6 |-> IF i \in on THEN 1 ELSE 0])}),
          "on_air", <<[device_number |-> Mixer, channels |-> [i \in 1..6 |-> i \in on]]>>)

\* The percentage of the pitch is in hundredths, here 0, 625 and -625, the tempo in tenths.
Percentages == {<<0, 0, 0, 0>>, <<0, 0, 2, 113>>, <<255, 255, 253, 143>>}
PitchMeant(percentage) ==
    PitchNormal + (CASE percentage[2] = 255 -> -65536 [] percentage[3] = 2 -> 65536 [] OTHER -> 0)

PositionPacket(percentage) ==
    Packet(PrecisePositionLength, \h0b,
       {Cells(NameOffset, <<CommandName>>), Cells(DeviceNumberOffset, <<Player>>),
        Cells(\h24, <<0, 0, 1, 44>>), Cells(\h28, <<0, 0, 3, 232>>), Cells(\h2c, percentage),
        Cells(\h38, <<0, 0, 5, 0>>)})

SendPrecisePosition ==
    \E percentage \in Percentages :
       Broadcast(BeatPort, PositionPacket(percentage), "precise",
                 <<[device_number |-> Player, position_ms |-> <<0, 0, 3, 232>>,
                    effective_bpm |-> 12800, pitch |-> PitchMeant(percentage)]>>)

\* The beat of an XDJ, which one listener remembers.
XdjBeat ==
    \E name \in XdjNames :
       Broadcast(BeatPort, BuildBeat(name, Player, 12800, PitchNormal, 1), "beat",
                 <<[name |-> name, device_number |-> Player, bpm |-> 12800]>>)

\* The answer to a media query goes to the socket of the application that asked.
MediaAnswer ==
    \E size \in {\h84, \hac, \hc8}, tracks \in {0, 3} :
       Emit(StatusPort, {"app"},
          Packet(size, \h06,
             {Cells(\h21, <<Player>>), Cells(\h27, <<3, 3>>), Cells(\h2c, <<0, 77, 0, 88>>),
              Cells(\h6c, <<0, 0, 0, tracks, 0, 1, 5, 1, 0, 0, 0, 1, 0, 0, 0, 0>>)}
             \union (IF size > \hab THEN {Cells(\hab, <<1>>)} ELSE {})
             \union (IF size = \hc8 THEN {Cells(\hc0, <<0, 0, 0, 0, 0, 0, 0, 9>>)} ELSE {})),
          "media",
          <<[player |-> Player, slot |-> <<"UsbSlot">>, media_type |-> <<"Usb">>, name |-> <<77, 88>>,
             track_count |-> <<0, 0, 0, tracks>>, playlist_count |-> 1, color |-> 5,
             is_rekordbox |-> TRUE, total_size |-> <<0, 0, 0, 1, 0, 0, 0, 0>>,
             has_my_settings |-> IF size > \hab THEN TRUE ELSE None,
             min_size |-> IF size = \hc8 THEN <<0, 0, 0, 0, 0, 0, 0, 9>> ELSE None]>>)

\* The query itself, for any slot of the player.
MediaQuery ==
    \E slot \in Values(TrackSourceSlot) :
       Broadcast(StatusPort, BuildMediaQuery(Me, Player, slot), "media", <<>>)

-----------------------------------------------------------------------------
\* Receiving.

Receives(l, i) == /\ l \in pending[i]
                  /\ pending' = [pending EXCEPT ![i] = @ \ {l}]

Lose(l, i) == /\ Receives(l, i) /\ lost' = lost \union {i}
              /\ UNCHANGED <<sent, heard, latest, inserting, xdjSeen>>

Hear(i, stream, events) ==
    heard' = heard \o [k \in DOMAIN events |-> [id |-> i, stream |-> stream, event |-> events[k]]]

\* DeviceFinder's loop: the stream of a packet's events, and the events.
FinderStream(p) ==
    CASE ParseHeader(p) = "DeviceKeepAlive" ->
           <<"found", IF ParseKeepAlive(p) = <<>> THEN <<>> ELSE ExpandOpusQuad(ParseKeepAlive(p)[1])>>
      [] ParseHeader(p) = "DeviceDefense" ->
           <<"defense", IF ExtractDefenseDeviceNumber(p) = None THEN <<>>
                        ELSE <<[device_number |-> ExtractDefenseDeviceNumber(p)]>> >>
      [] ParseHeader(p) = "DeviceClaimStage2" ->
           <<"claim", IF ExtractClaimStage2DeviceNumber(p) = None THEN <<>>
                      ELSE <<[device_number |-> ExtractClaimStage2DeviceNumber(p)]>> >>
      [] OTHER -> <<"found", <<>> >>

FinderReceives(i) ==
    /\ Receives("finder", i)
    /\ LET heardOf == FinderStream(sent[i].packet) IN Hear(i, heardOf[1], heardOf[2])
    /\ UNCHANGED <<sent, lost, latest, inserting, xdjSeen>>

\* BeatFinder's loop.
BeatStream(p) ==
    CASE ParseHeaderOnPort(p, BeatPort) = "Beat"            -> <<"beat", ParseBeat(p)>>
      [] ParseHeaderOnPort(p, BeatPort) = "PrecisePosition" -> <<"precise", ParsePrecisePosition(p)>>
      [] ParseHeaderOnPort(p, BeatPort) = "OnAir"           -> <<"on_air", ParseChannelsOnAir(p)>>
      [] ParseHeaderOnPort(p, BeatPort) = "SyncControl"     -> <<"sync", ParseSync(p)>>
      [] ParseHeaderOnPort(p, BeatPort) = "MasterHandoff"   -> <<"handoff", ParseMasterHandoff(p)>>
      [] ParseHeaderOnPort(p, BeatPort) = "FaderStart"      -> <<"fader_start", ParseFaderStart(p)>>
      [] OTHER                                              -> <<"beat", <<>> >>

BeatsReceive(i) ==
    /\ Receives("beats", i)
    /\ LET heardOf == BeatStream(sent[i].packet)
       IN  /\ Hear(i, heardOf[1], heardOf[2])
           /\ xdjSeen' = (xdjSeen \/ /\ heardOf[1] = "beat" /\ heardOf[2] # <<>>
                                     /\ heardOf[2][1].name \in XdjNames)
    /\ UNCHANGED <<sent, lost, latest, inserting>>

\* XDJ_XZ_ACTIVE_WINDOW has gone by since the last beat of an XDJ.
XdjWindowEnds == xdjSeen /\ xdjSeen' = FALSE
                 /\ UNCHANGED <<sent, pending, lost, heard, latest, inserting>>

\* Fault: the first status of a device stays.
FirstCached(n, i) == [k \in DOMAIN latest \union {n} |-> IF k \in DOMAIN latest THEN latest[k] ELSE i]

Cached(n, i) == [k \in DOMAIN latest \union {n} |-> IF k = n THEN i ELSE latest[k]]

\* StatusListener's loop, until the send: the cache has the status.
StatusReceives(i) ==
    /\ Receives("status", i) /\ inserting = <<>>
    /\ LET status == ParseStatus(sent[i].packet)
       IN  IF status = <<>> THEN UNCHANGED <<latest, inserting>>
           ELSE /\ latest' = Cached(status[1].device_number, i)
                /\ inserting' = <<[id |-> i, event |-> status[1]]>>
    /\ UNCHANGED <<sent, lost, heard, xdjSeen>>

StatusSent ==
    /\ inserting # <<>> /\ inserting' = <<>>
    /\ Hear(inserting[1].id, "status", <<inserting[1].event>>)
    /\ UNCHANGED <<sent, pending, lost, latest, xdjSeen>>

\* The command listener's loop.
CommandReceives(i) ==
    /\ Receives("commands", i)
    /\ Hear(i, "command", TryParseCommand(sent[i].packet))
    /\ UNCHANGED <<sent, lost, latest, inserting, xdjSeen>>

\* An application that asked about media parses the answer.
AppReceives(i) ==
    /\ Receives("app", i)
    /\ Hear(i, "media", ParseMediaDetails(sent[i].packet))
    /\ UNCHANGED <<sent, lost, latest, inserting, xdjSeen>>

\* The player that settings are for reads them as from_byte does.
ReadSettings(p) ==
    <<[target   |-> At(p, \h37),
       settings |-> [o \in DOMAIN SettingAt |-> SettingFrom(SettingAt[o], At(p, o))]]>>

PlayerReceives(i) ==
    /\ Receives("player", i)
    /\ Hear(i, "settings", ReadSettings(sent[i].packet))
    /\ UNCHANGED <<sent, lost, latest, inserting, xdjSeen>>

Operation == SendKeepAlive \/ SendHello \/ SendClaim \/ SendDefense \/ SendBeat \/ SendOnAirCommand
             \/ FaderStart \/ LoadTrack \/ SetSync \/ BecomeMaster \/ SendLoadSettings \/ SendStatus

Device == AnnounceDevice \/ PlayerStatus \/ MixerStatus \/ MixerFaderStart \/ SixChannelsOnAir
          \/ SendPrecisePosition \/ XdjBeat \/ MediaAnswer \/ MediaQuery

Task == \/ \E i \in DOMAIN sent : \/ FinderReceives(i) \/ BeatsReceive(i) \/ StatusReceives(i)
                                  \/ CommandReceives(i) \/ AppReceives(i)
                                  \/ PlayerReceives(i)
        \/ StatusSent

Next == Operation \/ Device \/ Task \/ XdjWindowEnds
        \/ \E i \in DOMAIN sent, l \in Listener : Lose(l, i)

Spec == Init /\ [][Next]_vars

-----------------------------------------------------------------------------
\* An event says what was meant.  The tempo of a status is told to the hundredth: it is
\* never above, and at most one hundredth below.
Agrees(event, meant) ==
    \A f \in DOMAIN meant :
       /\ f \in DOMAIN event
       /\ \/ event[f] = meant[f]
          \/ f = "bpm" /\ "kind" \in DOMAIN meant /\ meant[f] - event[f] = 1

\* Whatever an operation or a device sends is heard as it was meant, by the
\* subscribers it is for and by no others, once and in order: the parsers read what the
\* builders wrote, and each kind of packet has its listener although type bytes are used
\* twice.
HeardAsMeant ==
    \A i \in DOMAIN sent : \E before \in 0..Len(heard) :
       \A k \in DOMAIN heard : heard[k].id = i =>
          /\ k - before \in DOMAIN sent[i].events
          /\ heard[k].stream = sent[i].stream
          /\ Agrees(heard[k].event, sent[i].events[k - before])

\* Nothing that reaches its listener is dropped by it.
NothingMissed ==
    \A i \in DOMAIN sent :
       pending[i] = {} /\ i \notin lost /\ (inserting = <<>> \/ inserting[1].id # i)
       => \E before \in 0..Len(heard) : \A k \in DOMAIN sent[i].events :
             before + k \in DOMAIN heard /\ heard[before + k].id = i

\* No listener reads past the end of a packet, of whatever size its sender makes it.
NoPanic ==
    \A k \in DOMAIN heard : \A f \in DOMAIN heard[k].event :
       /\ heard[k].event[f] # Panic
       /\ f = "channels" => \A c \in DOMAIN heard[k].event[f] : heard[k].event[f][c] # Panic

\* What a status says of playing agrees: the flag, which old players do not set, and
\* the play states.
PlayingTold ==
    \A k \in DOMAIN heard :
       LET s == heard[k].event
       IN  heard[k].stream = "status" /\ s.kind = "Cdj" =>
             /\ IsPlaying(s) = (s.play_state = <<"Playing">>)
             /\ IsPlaying(s) = IsPlaying([s EXCEPT !.packet_length = MinCdjStatusLen])
             /\ IsPlaying(s) = IsPlayingForwards(s) /\ ~IsPlayingBackwards(s)

StatusesOf(n) ==
    {k \in DOMAIN heard : heard[k].stream = "status" /\ heard[k].event.device_number = n}

\* The cache of the latest statuses is never behind what subscribers have heard, and
\* ahead only by the status that is about to be sent.
LatestIsLastHeard ==
    \A n \in {Me, Player, Mixer} :
       IF inserting # <<>> /\ inserting[1].event.device_number = n
       THEN n \in DOMAIN latest /\ latest[n] = inserting[1].id
       ELSE IF StatusesOf(n) = {} THEN n \notin DOMAIN latest
       ELSE n \in DOMAIN latest /\ \E k \in StatusesOf(n) :
               latest[n] = heard[k].id /\ \A j \in StatusesOf(n) : j <= k

\* An Opus Quad is announced as the players that remap_opus_quad_device makes of its
\* own numbers, and unmap_opus_quad_device leads back to them.
OpusDecks ==
    \A k \in DOMAIN heard :
       LET raw == At(sent[heard[k].id].packet, \h24)
       IN  heard[k].stream = "found" /\ heard[k].event.opus_quad =>
             /\ \E l \in DOMAIN heard : /\ heard[l].id = heard[k].id
                                        /\ heard[l].event.number = RemapOpusQuad(raw)
             /\ UnmapOpusQuad(RemapOpusQuad(raw), raw >= OpusLightingBase) = raw

\* Media that was swapped for other media in the same slot is told from it.
MediaSwapSeen ==
    \A k, l \in DOMAIN heard : heard[k].stream = "media" /\ heard[l].stream = "media" =>
       (HasChanged(heard[k].event, heard[l].event)
          <=> sent[heard[k].id].events[1].track_count # sent[heard[l].id].events[1].track_count)

\* What the crate works out from the events it sends: whether a player plays, which deck
\* of an Opus Quad a number is, whether a medium was swapped.
DerivedRight == PlayingTold /\ OpusDecks /\ MediaSwapSeen
=============================================================================
