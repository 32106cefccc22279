---------------------------- MODULE DeviceTypes ----------------------------
(***************************************************************************)
(* The enumerations of the protocol and their bytes (device/types.rs,      *)
(* device/settings.rs, media.rs, command.rs), the device numbers of the    *)
(* Opus Quad, and the units of pitch and of cue positions.                 *)
(*                                                                         *)
(* A value of an enumeration is <<name>>, or <<"Unknown", byte>>.          *)
(***************************************************************************)
EXTENDS Bytes

\* From<u8> and the way back, for an enumeration given as a table of <<byte, name>>.
FromByte(table, byte) ==
    CASE byte = Panic -> Panic
      [] byte # Panic /\ IsIn(table, byte) -> <<NameFor(table, byte)>>
      [] OTHER -> <<"Unknown", byte>>

ToByte(table, value) == IF value[1] = "Unknown" THEN value[2] ELSE ByteFor(table, value[1])

Values(table) == {<<row[2]>> : row \in table}

DeviceType == {<<1, "Cdj">>, <<2, "Mixer">>, <<3, "Rekordbox">>}

TrackSourceSlot == {<<0, "NoTrack">>, <<1, "CdSlot">>, <<2, "SdSlot">>, <<3, "UsbSlot">>,
                    <<4, "Collection">>, <<7, "Usb2Slot">>}

TrackType == {<<0, "NoTrack">>, <<1, "Rekordbox">>, <<2, "Unanalyzed">>,
              <<5, "CdDigitalAudio">>}

PlayState == {<<\h00, "NoTrack">>, <<\h02, "Loading">>, <<\h03, "Playing">>,
              <<\h04, "Looping">>, <<\h05, "Paused">>, <<\h06, "Cued">>,
              <<\h07, "CuePlaying">>, <<\h08, "CueScratch">>, <<\h09, "Searching">>,
              <<\h11, "Ended">>}

PlayState2 == {<<\h6a, "Moving">>, <<\h7a, "Moving">>, <<\hfa, "OpusMoving">>,
               <<\h6e, "Stopped">>, <<\h7e, "Stopped">>, <<\hfe, "Stopped">>}

IsMoving(state2) == state2 \in {<<"Moving">>, <<"OpusMoving">>}

PlayState3 == {<<\h00, "NoTrack">>, <<\h01, "PausedOrReverse">>, <<\h09, "ForwardVinyl">>,
               <<\h0d, "ForwardCdj">>}

MediaType == {<<0, "None">>, <<1, "Cd">>, <<2, "Sd">>, <<3, "Usb">>}

\* FaderAction: every other byte means no change.
FaderByte(action) == CASE action = "Start" -> 0 [] action = "Stop" -> 1 [] OTHER -> 2
FaderAction(byte) ==
    CASE byte = Panic -> Panic [] byte = 0 -> "Start" [] byte = 1 -> "Stop" [] OTHER -> "NoChange"

-----------------------------------------------------------------------------
\* Settings (settings.rs).  The bytes of an enumeration count from a first one; a
\* byte that is none of them is read as the default.

Setting(first, names, default) == [first |-> first, names |-> names, default |-> default]

LcdBrightness == Setting(\h80, <<"White", "One", "Two", "Three", "Four", "Five">>, "One")
JogMode       == Setting(\h80, <<"Cdj", "Vinyl">>, "Cdj")
TempoRange    == Setting(\h80, <<"Six", "Ten", "Sixteen", "Wide">>, "Ten")
AutoCueLevel  == Setting(\h80, <<"Minus36", "Minus42", "Minus48", "Minus54", "Minus60",
                                 "Minus66", "Minus72", "Minus78", "MemoryCue">>, "Minus48")
Language      == Setting(\h81, <<"English", "French", "German", "Italian", "Dutch", "Spanish",
                     "Russian", "Korean", "ChineseSimplified", "ChineseTraditional", "Japanese",
                     "Portuguese", "Swedish", "Czech", "Hungarian", "Danish", "Greek", "Turkish">>,
                     "English")
TimeDisplayMode == Setting(\h80, <<"Elapsed", "Remaining">>, "Elapsed")
PlayMode        == Setting(\h80, <<"Continue", "Single">>, "Continue")
QuantizeMode    == Setting(\h80, <<"Off", "On">>, "On")

SettingByte(s, name) == s.first - 1 + CHOOSE i \in DOMAIN s.names : s.names[i] = name

SettingFrom(s, byte) ==
    IF byte - s.first + 1 \in DOMAIN s.names THEN s.names[byte - s.first + 1] ELSE s.default

-----------------------------------------------------------------------------
\* The Opus Quad's decks 1 to 4 are devices 9 to 12, or 17 to 20 in lighting mode.

OpusNormalBase   == 9
OpusLightingBase == 17

\* Fault: the decks count from zero.
RemapFromZero(raw) ==
    CASE raw \in OpusNormalBase..(OpusNormalBase + 3)     -> raw - OpusNormalBase
      [] raw \in OpusLightingBase..(OpusLightingBase + 3) -> raw - OpusLightingBase
      [] OTHER                                            -> raw

RemapOpusQuad(raw) ==
    CASE raw \in OpusNormalBase..(OpusNormalBase + 3)     -> raw - OpusNormalBase + 1
      [] raw \in OpusLightingBase..(OpusLightingBase + 3) -> raw - OpusLightingBase + 1
      [] OTHER                                            -> raw

UnmapOpusQuad(player, lighting) ==
    IF player \notin 1..4 THEN player
    ELSE player - 1 + (IF lighting THEN OpusLightingBase ELSE OpusNormalBase)

-----------------------------------------------------------------------------
\* Pitch: 2^20 is normal speed.  Pitch::from_percentage for hundredths of a percent:
\* 2^20 / 10000 = 65536 / 625, and the cast cuts the fraction off.
PitchNormal == \h100000
PitchFromPercentage(hundredths) == PitchNormal + (hundredths * 65536) \div 625

\* Half frames: 150 in a second.
HalfFrameToTime(halfFrame)     == (halfFrame * 100) \div 15
TimeToHalfFrame(ms)            == (ms * 15 + 50) \div 100
TimeToHalfFrameRounded(ms)     == (ms * 15 + 99) \div 100
=============================================================================
