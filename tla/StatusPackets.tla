--------------------------- MODULE StatusPackets ---------------------------
(***************************************************************************)
(* The packets of the status port (protocol/status.rs) and the answers to  *)
(* media queries (protocol/media.rs).                                      *)
(***************************************************************************)
EXTENDS BeatPackets

MinCdjStatusLen   == \hcc
MinMixerStatusLen == \h38
NexusLen          == \hd4
LoopThreshold     == \h1ca

NoHandOff == 255

\* The bits of the flags byte at 0x89, and of a mixer's at 0x27.
FlagBit == [bpm_sync |-> \h02, on_air |-> \h08, synced |-> \h10, master |-> \h20, playing |-> \h40]

\* CdjStatusFlags::to_byte and from_byte.
FlagsToByte(flags) ==
    LET bit(f) == IF flags[f] THEN FlagBit[f] ELSE 0
    IN  bit("bpm_sync") + bit("on_air") + bit("synced") + bit("master") + bit("playing")
FlagsFromByte(b) == [f \in DOMAIN FlagBit |-> HasBit(b, FlagBit[f])]

\* (bpm * 100.0) as u32, of which two bytes are sent: cut off, not rounded.
\* Fault: the tempo is made whole first.
WholeBpm(bpm) == (bpm \div 100) * 100

CutBpm(bpm) == IF bpm \in Inexact THEN bpm - 1 ELSE bpm

-----------------------------------------------------------------------------
\* Builders.

OrNone(sentinel, value) == IF value = None THEN sentinel ELSE value

\* build_cdj_status; s is a CdjStatusBuilder.
BuildCdjStatus(s) ==
    Packet(NexusLen, \h0a,
       {Cells(NameOffset, <<Cut[s.device_name]>>),
        Cells(DeviceNumberOffset, <<s.device_number, 0, 1>>),
        Cells(\h89, <<FlagsToByte(s.flags)>>),
        Cells(\h92, Bytes(CutBpm(s.bpm), 2)),
        Cells(\h8d, Bytes(s.pitch, 3)),
        Cells(\ha0, OrNone(FourBytes, s.beat_number)),
        Cells(\ha6, <<s.beat_within_bar>>),
        Cells(\h9f, <<OrNone(NoHandOff, s.master_hand_off)>>),
        Cells(\h84, s.sync_number),
        Cells(\h7b, <<IF s.flags.playing THEN \h03 ELSE \h05>>),
        Cells(\h8b, <<IF s.flags.playing THEN \h6a ELSE \h6e>>),
        Cells(\h9d, <<IF s.flags.playing THEN \h0d ELSE \h01>>),
        Cells(\ha4, <<1, 255>>),
        Cells(\hc8, s.packet_number)})

BuildMixerStatus(s) ==
    Packet(MinMixerStatusLen, \h29,
       {Cells(NameOffset, <<Cut[s.device_name]>>),
        Cells(DeviceNumberOffset, <<s.device_number>>),
        Cells(\h27, <<(IF s.is_master THEN FlagBit.master ELSE 0)
                      + (IF s.is_synced THEN FlagBit.synced ELSE 0)>>),
        Cells(\h28, <<0>>), Cells(\h29, Bytes(s.pitch, 3)),
        Cells(\h2e, Bytes(CutBpm(s.bpm), 2)),
        Cells(\h36, <<OrNone(NoHandOff, s.master_hand_off), s.beat_within_bar>>)})

-----------------------------------------------------------------------------
\* Parsers.

\* Milliseconds into the CDJ-3000's units, for loops of which TLC can hold them.
LoopPosition(p, offset) == (BytesToNumber(p, offset, 4) * 65536) \div 1000

CdjStatus(p) ==
    LET flags == FlagsFromByte(At(p, \h89))
        loops == p.size >= LoopThreshold
    IN  [kind                 |-> "Cdj",
         name                 |-> ReadDeviceName(p, NameOffset),
         device_number        |-> At(p, DeviceNumberOffset),
         device_type          |-> FromByte(DeviceType, At(p, DeviceTypeOffset)),
         track_source_player  |-> At(p, \h28),
         track_source_slot    |-> FromByte(TrackSourceSlot, At(p, \h29)),
         track_type           |-> FromByte(TrackType, At(p, \h2a)),
         rekordbox_id         |-> BytesAt(p, \h2c, 4),
         play_state           |-> FromByte(PlayState, At(p, \h7b)),
         play_state_2         |-> FromByte(PlayState2, At(p, \h8b)),
         play_state_3         |-> FromByte(PlayState3, At(p, \h9d)),
         is_playing_flag      |-> flags.playing,
         is_master            |-> flags.master,
         is_synced            |-> flags.synced,
         is_bpm_synced        |-> flags.bpm_sync,
         is_on_air            |-> flags.on_air,
         firmware_version     |-> ReadDeviceName(p, \h7c),
         sync_number          |-> BytesAt(p, \h84, 4),
         bpm                  |-> BytesToNumber(p, \h92, 2),
         pitch                |-> BytesToNumber(p, \h8d, 3),
         beat_number          |-> Unless(FourBytes, BytesAt(p, \ha0, 4)),
         beat_within_bar      |-> At(p, \ha6),
         master_hand_off      |-> Unless(NoHandOff, At(p, \h9f)),
         loop_start           |-> IF loops THEN LoopPosition(p, \h1b6) ELSE None,
         loop_end             |-> IF loops THEN LoopPosition(p, \h1be) ELSE None,
         loop_beats           |-> IF loops THEN BytesToNumber(p, \h1c8, 2) ELSE None,
         packet_length        |-> p.size,
         is_busy              |-> NonZero(At(p, \h27)),
         track_number         |-> BytesToNumber(p, \h32, 2),
         cue_countdown        |-> Unless(\h01ff, BytesToNumber(p, \ha4, 2)),
         packet_number        |-> IF p.size >= \hc8 + 4 THEN BytesAt(p, \hc8, 4)
                                  ELSE <<0, 0, 0, 0>>,
         local_usb_state      |-> At(p, \h6f),
         local_sd_state       |-> At(p, \h73),
         link_media_available |-> NonZero(At(p, \h75)),
         local_disc_state     |-> At(p, \h37),
         disc_track_count     |-> BytesToNumber(p, \h46, 2)]

ParseCdjStatus(p) == IF p.size < MinCdjStatusLen THEN <<>> ELSE <<CdjStatus(p)>>

ParseMixerStatus(p) ==
    IF p.size < MinMixerStatusLen THEN <<>>
    ELSE <<[kind            |-> "Mixer",
            name            |-> ReadDeviceName(p, NameOffset),
            device_number   |-> At(p, DeviceNumberOffset),
            bpm             |-> BytesToNumber(p, \h2e, 2),
            pitch           |-> BytesToNumber(p, \h28, 4),
            beat_within_bar |-> At(p, \h37),
            is_master       |-> HasBit(At(p, \h27), FlagBit.master),
            is_synced       |-> HasBit(At(p, \h27), FlagBit.synced),
            master_hand_off |-> Unless(NoHandOff, At(p, \h36))]>>

ParseStatus(p) ==
    CASE ParseHeaderOnPort(p, StatusPort) = "CdjStatus"   -> ParseCdjStatus(p)
      [] ParseHeaderOnPort(p, StatusPort) = "MixerStatus" -> ParseMixerStatus(p)
      [] OTHER                                            -> <<>>

-----------------------------------------------------------------------------
\* What a CdjStatus tells.

\* Fault: the flag is trusted whatever the packet's size.
FlagTrusted(s) == s.is_playing_flag

IsPlaying(s) ==
    IF s.packet_length >= NexusLen THEN s.is_playing_flag
    ELSE s.play_state \in {<<"Playing">>, <<"Looping">>, <<"Searching">>} /\ IsMoving(s.play_state_2)

IsPlayingForwards(s)  == s.play_state = <<"Playing">> /\ s.play_state_3 # <<"PausedOrReverse">>
IsPlayingBackwards(s) == s.play_state = <<"Playing">> /\ s.play_state_3 = <<"PausedOrReverse">>

-----------------------------------------------------------------------------
\* Media (media.rs).

MinMediaDetailsSize == \h84

BuildMediaQuery(source, target, slot) ==
    Packet(\h24, \h05,
       {Cells(\h0c, <<CommandName>>),
        Cells(\h21, <<source, target, ToByte(TrackSourceSlot, slot)>>)})

\* read_utf16be_name: the units before the first zero.
ReadUtf16(p, offset, maxBytes) ==
    LET end    == IF offset + maxBytes > p.size THEN p.size ELSE offset + maxBytes
        unit   == [i \in 1..((end - offset) \div 2) |-> BytesToNumber(p, offset + 2 * (i - 1), 2)]
        zeroes == {i \in DOMAIN unit : unit[i] = 0}
    IN  IF zeroes = {} THEN unit ELSE SubSeq(unit, 1, (CHOOSE i \in zeroes : \A j \in zeroes : i <= j) - 1)

\* parse_media_details.  creation_date begins where track_count does.
MediaDetails(p) ==
    [player          |-> At(p, \h21),
     slot            |-> FromByte(TrackSourceSlot, At(p, \h27)),
     media_type      |-> FromByte(MediaType, At(p, \h28)),
     name            |-> ReadUtf16(p, \h2c, \h40),
     track_count     |-> BytesAt(p, \h6c, 4),
     playlist_count  |-> BytesToNumber(p, \h70, 2),
     color           |-> At(p, \h72),
     is_rekordbox    |-> NonZero(At(p, \h73)),
     total_size      |-> BytesAt(p, \h74, 8),
     free_space      |-> BytesAt(p, \h7c, 8),
     creation_date   |-> ReadUtf16(p, \h6c, \h18),
     has_my_settings |-> IF p.size > \hab THEN NonZero(At(p, \hab)) ELSE None,
     min_size        |-> IF p.size >= \hc0 + 8 THEN BytesAt(p, \hc0, 8) ELSE None]

ParseMediaDetails(p) ==
    IF p.size < MinMediaDetailsSize \/ ~p.magic THEN <<>> ELSE <<MediaDetails(p)>>

\* hash_key and has_changed.
\* Fault: the counts are left out.
HashKeyShort(m) == <<m.name, m.total_size, m.free_space>>

HashKey(m) == <<m.name, m.track_count, m.playlist_count, m.total_size, m.free_space>>
HasChanged(m, other) == HashKey(m) # HashKey(other)
=============================================================================
