---------------------------- MODULE BeatPackets ----------------------------
(***************************************************************************)
(* The packets of the beat port (protocol/beat.rs) and the commands, of    *)
(* the beat and the status port (protocol/command.rs, the parsers of       *)
(* network/virtual_cdj.rs, the packet of device/settings.rs).              *)
(*                                                                         *)
(* Tempos are in hundredths of a BPM.  The product bpm * 100.0 of a tempo  *)
(* in Inexact comes out below the whole number.                            *)
(***************************************************************************)
EXTENDS DeviceTypes

CONSTANT Inexact   \* hundredths of BPM whose product with 100.0 is too small

ASSUME InexactAssumption == Inexact \subseteq Nat \ {0}

NameOffset         == \h0b
DeviceNumberOffset == \h21
DeviceTypeOffset   == \h23

BeatPacketLength       == \h60
PrecisePositionLength  == \h3c
ChannelsOnAirMinLength == \h28
SyncMinLength          == \h31
MasterHandoffMinLength == \h27
FaderStartMinLength    == \h28

-----------------------------------------------------------------------------
\* Builders.

\* (bpm * 100.0).round() as u16: rounded to the hundredth, and capped.
RoundedBpm(bpm) == IF bpm > 65535 THEN 65535 ELSE bpm

BuildBeat(name, device, bpm, pitch, beatWithinBar) ==
    Packet(BeatPacketLength, \h28,
       {Cells(NameOffset, <<Cut[name]>>), Cells(\h1f, <<1>>),
        Cells(DeviceNumberOffset, <<device, 0, \h3c>>),
        Cells(\h24, [i \in 1..24 |-> 255]),
        Cells(\h55, Bytes(pitch, 3)), Cells(\h5a, Bytes(RoundedBpm(bpm), 2)),
        Cells(\h5c, <<beatWithinBar>>)})

BuildOnAir(name, device, channels) ==
    Packet(\h28, \h03,
       {Cells(NameOffset, <<Cut[name]>>), Cells(\h1f, <<1>>),
        Cells(DeviceNumberOffset, <<device, 0, 4>>),
        Cells(\h24, [i \in 1..4 |-> IF channels[i] THEN 1 ELSE 0])})

\* write_prefix
Command(type, source, payloadLength, cells) ==
    Packet(\h24 + payloadLength, type,
       {Cells(\h0c, <<CommandName>>), Cells(\h20, <<1, source>>), Cells(\h22, Bytes(payloadLength, 2))}
       \union cells)

BuildFaderStart(source, channels) ==
    Command(\h02, source, \h08, {Cells(\h24, [i \in 1..4 |-> FaderByte(channels[i])])})

\* build_fader_start_single: players above 4 share the fourth channel.
SingleChannel(target) == IF target <= 1 THEN 1 ELSE IF target >= 4 THEN 4 ELSE target

BuildFaderStartSingle(source, target, start) ==
    BuildFaderStart(source, [[i \in 1..4 |-> "NoChange"] EXCEPT ![SingleChannel(target)] =
                                IF start THEN "Start" ELSE "Stop"])

BuildLoadTrack(source, target, player, slot, type, id) ==
    Command(\h19, source, \h34,
       {Cells(\h24, <<source>>),
        Cells(\h28, <<player, ToByte(TrackSourceSlot, slot), ToByte(TrackType, type)>>),
        Cells(\h2c, id), Cells(\h38, <<\h32>>),
        Cells(\h40, <<IF target = 0 THEN 0 ELSE target - 1>>)})

BuildSyncCommand(source, target, enable) ==
    Command(\h2a, source, \h0d,
       {Cells(\h24, <<target, 0, source>>), Cells(\h2c, <<source>>),
        Cells(\h30, <<IF enable THEN \h10 ELSE \h20>>)})

BuildMasterCommand(source) ==
    Command(\h26, source, \h09, {Cells(\h26, <<source>>), Cells(\h2c, <<source>>)})

\* build_settings_packet, and what each of its bytes is.
SettingAt ==
    [o \in {\h24, \h25, \h26, \h27, \h28, \h2c, \h30, \h31} |->
       CASE o = \h24 -> LcdBrightness [] o = \h25 -> JogMode    [] o = \h26 -> AutoCueLevel
         [] o = \h27 -> TempoRange    [] o = \h28 -> Language   [] o = \h2c -> TimeDisplayMode
         [] o = \h30 -> PlayMode      [] OTHER   -> QuantizeMode]

BuildSettings(settings, source, target) ==
    Command(\h34, source, \h14,
       {[o \in DOMAIN SettingAt |-> SettingByte(SettingAt[o], settings[o])],
        Cells(\h37, <<target>>)})

-----------------------------------------------------------------------------
\* Parsers: they give what a packet tells, or nothing for their errors.

ParseBeat(p) ==
    IF ParseHeader(p) # "Beat" \/ p.size < BeatPacketLength THEN <<>>
    ELSE <<[name            |-> ReadDeviceName(p, NameOffset),
            device_number   |-> At(p, DeviceNumberOffset),
            device_type     |-> FromByte(DeviceType, At(p, DeviceTypeOffset)),
            pitch           |-> BytesToNumber(p, \h55, 3),
            bpm             |-> BytesToNumber(p, \h5a, 2),
            beat_within_bar |-> At(p, \h5c),
            \* next_beat, second_beat, next_bar, fourth_beat, second_bar, eighth_beat
            timing |-> [i \in 1..6 |-> Unless(FourBytes, BytesAt(p, \h24 + 4 * (i - 1), 4))]]>>

\* The tempo is sent in tenths.
ParsePrecisePosition(p) ==
    IF ParseHeader(p) # "PrecisePosition" \/ p.size # PrecisePositionLength THEN <<>>
    ELSE <<[name          |-> ReadDeviceName(p, NameOffset),
            device_number |-> At(p, DeviceNumberOffset),
            track_length  |-> BytesAt(p, \h24, 4),
            position_ms   |-> BytesAt(p, \h28, 4),
            pitch         |-> PitchFromPercentage(SignedAt(p, \h2c)),
            effective_bpm |-> 10 * BytesToNumber(p, \h38, 4)]>>

\* Fault: every packet is taken to have six flags.
SixFlags(p) == 6

ChannelFlags(p) == IF p.size - \h24 >= 6 THEN 6 ELSE 4

ParseChannelsOnAir(p) ==
    IF ParseHeader(p) # "OnAir" \/ p.size < ChannelsOnAirMinLength THEN <<>>
    ELSE <<[name          |-> ReadDeviceName(p, NameOffset),
            device_number |-> At(p, DeviceNumberOffset),
            channels      |-> [i \in 1..ChannelFlags(p) |-> NonZero(At(p, \h24 + i - 1))]]>>

ParseSync(p) ==
    IF ParseHeader(p) # "SyncControl" \/ p.size < SyncMinLength THEN <<>>
    ELSE <<[device_number |-> At(p, DeviceNumberOffset), sync_enabled |-> Equals(At(p, \h30), \h10)]>>

ParseMasterHandoff(p) ==
    IF ParseHeader(p) # "MasterHandoff" \/ p.size < MasterHandoffMinLength THEN <<>>
    ELSE <<[device_number |-> At(p, DeviceNumberOffset), target_device |-> At(p, \h26)]>>

ParseFaderStart(p) ==
    IF ParseHeaderOnPort(p, BeatPort) # "FaderStart" \/ p.size < FaderStartMinLength THEN <<>>
    ELSE <<[device_number |-> At(p, DeviceNumberOffset),
            channels      |-> [i \in 1..4 |-> FaderAction(At(p, \h24 + i - 1))]]>>

\* parse_incoming_fader_start and parse_incoming_load_track (virtual_cdj.rs), which
\* try_parse_command chooses from without the port.
ParseIncomingFaderStart(p) ==
    IF p.size < \h28 THEN <<>>
    ELSE <<[kind |-> "FaderStart", source_device |-> At(p, \h21),
            channels |-> [i \in 1..4 |-> FaderAction(At(p, \h24 + i - 1))]]>>

ParseIncomingLoadTrack(p) ==
    IF p.size < \h30 THEN <<>>
    ELSE <<[kind          |-> "LoadTrack",
            source_device |-> At(p, \h21),
            source_player |-> At(p, \h28),
            source_slot   |-> FromByte(TrackSourceSlot, At(p, \h29)),
            track_type    |-> FromByte(TrackType, At(p, \h2a)),
            rekordbox_id  |-> BytesAt(p, \h2c, 4)]>>

TryParseCommand(p) ==
    CASE p.size < MinPacketSize \/ ~p.magic -> <<>>
      [] p.size >= MinPacketSize /\ p.magic /\ At(p, \h0a) = \h02 -> ParseIncomingFaderStart(p)
      [] p.size >= MinPacketSize /\ p.magic /\ At(p, \h0a) = \h19 -> ParseIncomingLoadTrack(p)
      [] OTHER -> <<>>
=============================================================================
