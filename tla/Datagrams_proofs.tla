-------------------------- MODULE Datagrams_proofs --------------------------
(***************************************************************************)
(* Proofs about Datagrams, for any device numbers, addresses, names,       *)
(* tempos, sizes of status packets and numbers of packets, and for any     *)
(* losses and order of handling:                                           *)
(*   - no listener reads past the end of a packet (NoPanic);               *)
(*   - what a device sends is heard as it was meant, by the subscribers it *)
(*     is for and by no others, once and in order (HeardAsMeant), and a    *)
(*     listener that gets a packet drops nothing of it (NothingMissed);    *)
(*   - StatusListener's cache of the latest statuses is never behind what  *)
(*     its subscribers have heard, and ahead only by the status about to   *)
(*     be sent (LatestIsLastHeard);                                        *)
(*   - the crate works out of the events whether a player plays, which     *)
(*     deck of an Opus Quad a number is and whether a medium was swapped   *)
(*     (DerivedRight).                                                     *)
(* First come the parsers, whose events hold values whatever packet they   *)
(* are given; then what each packet that is built reads as, and from that  *)
(* one lemma per operation: what it sends is what listeners make of it.    *)
(* The invariants that join these with the order of handling come last.    *)
(***************************************************************************)
EXTENDS Datagrams, SequenceTheorems, WellFoundedInduction, TLAPS

-----------------------------------------------------------------------------
(* Cells of packets, and what the parsers make of any packet *)

\* A cell is a byte; at the offsets where names begin it may be a name.
IsCell(cell) == cell \in Byte \union Name \union {Firmware}

IsPacket(p) ==
    /\ p.size \in Nat
    /\ \A i \in DOMAIN p.at : /\ IsCell(p.at[i])
                              /\ i \notin {\h0b, \h0c, \h7c} => p.at[i] \in Byte

\* Within a packet every offset holds a cell, and only where names begin one that is no byte.
LEMMA AtCell ==
    ASSUME NEW p, IsPacket(p), NEW i \in Nat, i < p.size
    PROVE  IsCell(At(p, i)) /\ (i \notin {\h0b, \h0c, \h7c} => At(p, i) \in Byte)
<1>1. p.size \in Nat /\ ~(i >= p.size)
    BY DEF IsPacket
<1>2. CASE i \in DOMAIN p.at
    <2>1. At(p, i) = p.at[i]
        BY <1>1, <1>2 DEF At
    <2> QED
        BY <1>2, <2>1 DEF IsPacket
<1>3. CASE i \notin DOMAIN p.at
    <2>1. At(p, i) = 0
        BY <1>1, <1>3 DEF At
    <2> QED
        BY <2>1 DEF Byte, IsCell
<1> QED
    BY <1>2, <1>3

\* Away from the names it holds a byte.
LEMMA AtByte ==
    ASSUME NEW p, IsPacket(p), NEW i \in Nat, i < p.size, i \notin {\h0b, \h0c, \h7c}
    PROVE  At(p, i) \in Byte
BY AtCell

\* A cell is data an event may carry.
LEMMA AtDatum ==
    ASSUME NEW p, IsPacket(p), NEW i \in Nat, i < p.size
    PROVE  At(p, i) \in Datum
<1>1. Byte \subseteq Int
    BY DEF Byte
<1>2. IsCell(At(p, i))
    BY AtCell
<1> QED
    BY <1>1, <1>2 DEF Datum, Word, IsCell

\* A byte that was read is a value of an event.
LEMMA ByteField ==
    ASSUME NEW p, IsPacket(p), NEW i \in Nat, i < p.size
    PROVE  At(p, i) \in Value
BY AtDatum DEF Value

\* So is each of several that were read,
LEMMA BytesData ==
    ASSUME NEW p, IsPacket(p), NEW offset \in Nat, NEW len \in Nat, offset + len <= p.size
    PROVE  BytesAt(p, offset, len) \in Seq(Datum)
<1>1. p.size \in Nat
    BY DEF IsPacket
<1>2. BytesAt(p, offset, len) = [i \in 1..len |-> At(p, offset + i - 1)]
    BY <1>1 DEF BytesAt
<1>3. ASSUME NEW i \in 1..len PROVE At(p, offset + i - 1) \in Datum
    <2>1. offset + i - 1 \in Nat /\ offset + i - 1 < p.size
        BY <1>1
    <2> QED
        BY <2>1, AtDatum
<1>4. BytesAt(p, offset, len) \in [1..len -> Datum]
    BY <1>2, <1>3
<1> QED
    BY <1>4

\* and all of them together,
LEMMA BytesField ==
    ASSUME NEW p, IsPacket(p), NEW offset \in Nat, NEW len \in Nat, offset + len <= p.size
    PROVE  BytesAt(p, offset, len) \in Value
<1>1. BytesAt(p, offset, len) \in Seq(Datum \union Seq(Datum))
    BY BytesData
<1> QED
    BY <1>1 DEF Value

\* away from the names bytes.
LEMMA BytesAtBytes ==
    ASSUME NEW p, IsPacket(p), NEW offset \in Nat, NEW len \in Nat, offset + len <= p.size,
           \A i \in {\h0b, \h0c, \h7c} : i < offset \/ i >= offset + len \/ At(p, i) \in Byte
    PROVE  /\ DOMAIN BytesAt(p, offset, len) = 1..len
           /\ \A i \in 1..len : BytesAt(p, offset, len)[i] \in Byte
<1>1. p.size \in Nat
    BY DEF IsPacket
<1>2. BytesAt(p, offset, len) = [i \in 1..len |-> At(p, offset + i - 1)]
    BY <1>1 DEF BytesAt
<1>3. ASSUME NEW i \in 1..len PROVE At(p, offset + i - 1) \in Byte
    <2> DEFINE o == offset + i - 1
    <2>1. o \in Nat /\ o < p.size /\ (o \in {\h0b, \h0c, \h7c} => At(p, o) \in Byte)
        BY <1>1
    <2> HIDE DEF o
    <2>2. At(p, o) \in Byte
        BY <2>1, AtByte
    <2> QED
        BY <2>2 DEF o
<1> QED
    BY <1>2, <1>3

\* A number of up to four bytes is a natural number,
LEMMA NumberAt ==
    ASSUME NEW p, IsPacket(p), NEW offset \in Nat, NEW len \in 1..4, offset + len <= p.size,
           \A i \in {\h0b, \h0c, \h7c} : i < offset \/ i >= offset + len \/ At(p, i) \in Byte
    PROVE  BytesToNumber(p, offset, len) \in Nat
<1> DEFINE low(i) == IF i <= len THEN At(p, offset + len - i) ELSE 0
<1>1. p.size \in Nat
    BY DEF IsPacket
<1>2. ASSUME NEW i \in 1..4 PROVE low(i) \in Nat
    <2>1. CASE i <= len
        <3> DEFINE o == offset + len - i
        <3>1. o \in Nat /\ o < p.size /\ (o \in {\h0b, \h0c, \h7c} => At(p, o) \in Byte)
            BY <1>1, <2>1
        <3> HIDE DEF o
        <3>2. At(p, o) \in Byte
            BY <3>1, AtByte
        <3> QED
            BY <2>1, <3>2 DEF Byte, o
    <2> QED
        BY <2>1
<1>3. BytesToNumber(p, offset, len) = low(1) + 256 * low(2) + 65536 * low(3) + 16777216 * low(4)
    BY <1>1 DEF BytesToNumber
<1> HIDE DEF low
<1> QED
    BY <1>2, <1>3

\* and a value of an event.
LEMMA NumberField ==
    ASSUME NEW p, IsPacket(p), NEW offset \in Nat, NEW len \in 1..4, offset + len <= p.size,
           \A i \in {\h0b, \h0c, \h7c} : i < offset \/ i >= offset + len \/ At(p, i) \in Byte
    PROVE  BytesToNumber(p, offset, len) \in Value
BY NumberAt DEF Value, Datum

\* An element of a sequence of rows is in its range.
LEMMA Listed ==
    ASSUME NEW S, NEW n \in Nat, NEW f \in [1..n -> S]
    PROVE  f \in Seq(S)
OBVIOUS

\* Pairs of data are data.
LEMMA Tuples ==
    ASSUME NEW S, NEW a \in S, NEW b \in S
    PROVE  <<>> \in Seq(S) /\ <<a>> \in Seq(S) /\ <<a, b>> \in Seq(S)
OBVIOUS

\* A tagged byte is a value of an event.
LEMMA TuplesValue ==
    ASSUME NEW a \in Datum, NEW b \in Datum
    PROVE  <<a>> \in Value /\ <<a, b>> \in Value
<1>1. a \in Datum \union Seq(Datum) /\ b \in Datum \union Seq(Datum)
    OBVIOUS
<1>2. <<a>> \in Seq(Datum \union Seq(Datum)) /\ <<a, b>> \in Seq(Datum \union Seq(Datum))
    BY <1>1, Tuples
<1> QED
    BY <1>2 DEF Value

\* A value is never the mark of a panic.
LEMMA NoBytePanics == \A b \in Byte : b # Panic /\ b # None /\ b \in Int /\ b \in Datum
<1>1. ASSUME NEW b \in Byte PROVE b \in Int /\ b \in Datum /\ b \in Value
    <2>1. b \in Int
        BY DEF Byte
    <2> QED
        BY <2>1 DEF Datum, Value
<1> QED
    BY <1>1, PanicAssumption, BytesAssumption

\* What from_byte makes of any byte is a value,
LEMMA FromByteValue ==
    ASSUME NEW table, \A row \in table : row[2] \in Word, NEW byte \in Byte
    PROVE  FromByte(table, byte) \in Value
<1>1. byte # Panic /\ byte \in Datum
    BY NoBytePanics
<1>2. CASE IsIn(table, byte)
    <2>1. NameFor(table, byte) \in Word
        BY <1>2 DEF IsIn, NameFor
    <2>2. NameFor(table, byte) \in Datum
        BY <2>1 DEF Datum
    <2>3. FromByte(table, byte) = <<NameFor(table, byte)>>
        BY <1>1, <1>2 DEF FromByte
    <2> QED
        BY <2>2, <2>3, TuplesValue
<1>3. CASE ~IsIn(table, byte)
    <2>1. FromByte(table, byte) = <<"Unknown", byte>>
        BY <1>1, <1>3 DEF FromByte
    <2>2. "Unknown" \in Datum
        BY DEF Word, Datum
    <2> QED
        BY <1>1, <2>1, <2>2, TuplesValue
<1> QED
    BY <1>2, <1>3

\* wherever in the packet the byte is.
LEMMA EnumField ==
    ASSUME NEW p, IsPacket(p), NEW i \in Nat, i < p.size, i \notin {\h0b, \h0c, \h7c},
           NEW table \in {DeviceType, TrackSourceSlot, TrackType, PlayState, PlayState2, PlayState3,
                          MediaType}
    PROVE  FromByte(table, At(p, i)) \in Value
<1>1. \A row \in table : row[2] \in Word
    BY DEF Word
<1> QED
    BY <1>1, AtByte, FromByteValue

\* A flag that was read is a value.
LEMMA FlagField ==
    ASSUME NEW p, IsPacket(p), NEW i \in Nat, i < p.size, i \notin {\h0b, \h0c, \h7c}
    PROVE  /\ NonZero(At(p, i)) \in BOOLEAN
           /\ \A n : Equals(At(p, i), n) \in BOOLEAN /\ HasBit(At(p, i), n) \in BOOLEAN
<1>1. At(p, i) # Panic
    BY AtByte, NoBytePanics
<1>2. NonZero(At(p, i)) \in BOOLEAN
    BY <1>1 DEF NonZero
<1>3. ASSUME NEW n PROVE Equals(At(p, i), n) \in BOOLEAN
    BY <1>1 DEF Equals
<1>4. ASSUME NEW n PROVE HasBit(At(p, i), n) \in BOOLEAN
    BY <1>1 DEF HasBit
<1> QED
    BY <1>2, <1>3, <1>4

\* Constants of an event are values.
LEMMA Plain == /\ BOOLEAN \subseteq Value /\ Int \subseteq Value /\ None \in Value /\ Nat \subseteq Value
               /\ \A w \in Word : w \in Value
BY DEF Value, Datum

\* A field that is read only from long packets is a value either way.
LEMMA UnlessField == ASSUME NEW s, NEW v \in Value PROVE Unless(s, v) \in Value
BY Plain DEF Unless

\* Events whose fields are all values, and so are a mixer's channels.
Valued(e) ==
    /\ \A f \in DOMAIN e : e[f] \in Value
    /\ "channels" \in DOMAIN e => \A c \in DOMAIN e.channels : e.channels[c] \in Value

\* Every field of a CDJ status is a value, for a packet of any length that passes the check.
LEMMA CdjStatusValued ==
    ASSUME NEW p, IsPacket(p), ParseCdjStatus(p) # <<>>
    PROVE  \E e : ParseCdjStatus(p) = <<e>> /\ Valued(e)
<1> DEFINE flags == FlagsFromByte(At(p, \h89))
           loops == p.size >= LoopThreshold
           n(o, len) == BytesToNumber(p, o, len)
           b(o, len) == BytesAt(p, o, len)
<1>1. p.size \in Nat /\ p.size >= \hcc
    BY DEF IsPacket, ParseCdjStatus, MinCdjStatusLen
<1>2. /\ At(p, \h0b) \in Value /\ At(p, \h7c) \in Value /\ At(p, \h21) \in Value
      /\ At(p, \h28) \in Value /\ At(p, \ha6) \in Value /\ At(p, \h6f) \in Value
      /\ At(p, \h73) \in Value /\ At(p, \h37) \in Value /\ At(p, \h9f) \in Value
    BY <1>1, ByteField
<1>3. /\ b(\h2c, 4) \in Value /\ b(\h84, 4) \in Value /\ b(\ha0, 4) \in Value
      /\ n(\h92, 2) \in Value /\ n(\h8d, 3) \in Value /\ n(\h32, 2) \in Value
      /\ n(\ha4, 2) \in Value /\ n(\h46, 2) \in Value
    BY <1>1, BytesField, NumberField
<1>4. /\ FromByte(DeviceType, At(p, DeviceTypeOffset)) \in Value
      /\ FromByte(TrackSourceSlot, At(p, \h29)) \in Value
      /\ FromByte(TrackType, At(p, \h2a)) \in Value
      /\ FromByte(PlayState, At(p, \h7b)) \in Value
      /\ FromByte(PlayState2, At(p, \h8b)) \in Value
      /\ FromByte(PlayState3, At(p, \h9d)) \in Value
    BY <1>1, EnumField DEF DeviceTypeOffset
<1>5. /\ flags.playing \in Value /\ flags.master \in Value /\ flags.synced \in Value
      /\ flags.bpm_sync \in Value /\ flags.on_air \in Value
    <2>1. \A f \in {"playing", "master", "synced", "bpm_sync", "on_air"} :
             flags[f] = HasBit(At(p, \h89), FlagBit[f])
        BY DEF FlagsFromByte, FlagBit
    <2>2. \A k : HasBit(At(p, \h89), k) \in BOOLEAN
        BY <1>1, FlagField
    <2> HIDE DEF flags
    <2> QED
        BY <2>1, <2>2, Plain
<1>6. NonZero(At(p, \h27)) \in Value /\ NonZero(At(p, \h75)) \in Value
    BY <1>1, FlagField, Plain
<1>7. /\ loops => LoopPosition(p, \h1b6) \in Value /\ LoopPosition(p, \h1be) \in Value
                  /\ n(\h1c8, 2) \in Value
      /\ p.size >= \hc8 + 4 => b(\hc8, 4) \in Value
      /\ <<0, 0, 0, 0>> \in Value /\ "Cdj" \in Value /\ p.size \in Value
    <2>1. ASSUME loops, NEW o \in {\h1b6, \h1be} PROVE LoopPosition(p, o) \in Value
        <3>1. n(o, 4) \in Nat
            BY <1>1, <2>1, NumberAt DEF LoopThreshold
        <3>2. LoopPosition(p, o) \in Int
            BY <3>1 DEF LoopPosition
        <3> QED
            BY <3>2, Plain
    <2>2. loops => n(\h1c8, 2) \in Value
        BY <1>1, NumberField DEF LoopThreshold
    <2>3. p.size >= \hc8 + 4 => b(\hc8, 4) \in Value
        BY <1>1, BytesField
    <2>4. <<0, 0, 0, 0>> \in Value
        <3>1. 0 \in Datum \union Seq(Datum)
            BY DEF Datum
        <3>2. <<0, 0, 0, 0>> \in Seq(Datum \union Seq(Datum))
            BY <3>1
        <3> QED
            BY <3>2 DEF Value
    <2>5. "Cdj" \in Value
        BY Plain DEF Word
    <2> QED
        BY <1>1, <2>1, <2>2, <2>3, <2>4, <2>5, Plain
<1> HIDE DEF flags, loops, n, b
<1> DEFINE e == CdjStatus(p)
<1>8. ParseCdjStatus(p) = <<e>>
    BY DEF ParseCdjStatus
<1>9. DOMAIN e = {"kind", "name", "device_number", "device_type", "track_source_player",
         "track_source_slot", "track_type", "rekordbox_id", "play_state", "play_state_2",
         "play_state_3", "is_playing_flag", "is_master", "is_synced", "is_bpm_synced", "is_on_air",
         "firmware_version", "sync_number", "bpm", "pitch", "beat_number", "beat_within_bar",
         "master_hand_off", "loop_start", "loop_end", "loop_beats", "packet_length", "is_busy",
         "track_number", "cue_countdown", "packet_number", "local_usb_state", "local_sd_state",
         "link_media_available", "local_disc_state", "disc_track_count"}
    BY DEF CdjStatus
<1>10. e.name \in Value /\ e.device_number \in Value /\ e.track_source_player \in Value /\ e.firmware_version \in Value /\ e.beat_within_bar \in Value /\ e.local_usb_state \in Value /\ e.local_sd_state \in Value /\ e.local_disc_state \in Value
    <2>1. e.name = ReadDeviceName(p, \h0b) /\ e.firmware_version = ReadDeviceName(p, \h7c)
        BY DEF CdjStatus, NameOffset
    <2>2. /\ e.device_number = At(p, \h21) /\ e.track_source_player = At(p, \h28)
          /\ e.beat_within_bar = At(p, \ha6) /\ e.local_usb_state = At(p, \h6f)
          /\ e.local_sd_state = At(p, \h73) /\ e.local_disc_state = At(p, \h37)
        BY DEF CdjStatus, DeviceNumberOffset
    <2> HIDE DEF e
    <2> QED
        BY <1>1, <1>2, <2>1, <2>2 DEF ReadDeviceName
<1>11. e.rekordbox_id \in Value /\ e.sync_number \in Value /\ e.bpm \in Value /\ e.pitch \in Value /\ e.track_number \in Value /\ e.disc_track_count \in Value
    BY <1>3 DEF CdjStatus, n, b
<1>12. e.beat_number \in Value /\ e.master_hand_off \in Value /\ e.cue_countdown \in Value
    <2>1. /\ e.beat_number = Unless(FourBytes, b(\ha0, 4))
          /\ e.master_hand_off = Unless(NoHandOff, At(p, \h9f))
          /\ e.cue_countdown = Unless(\h01ff, n(\ha4, 2))
        BY DEF CdjStatus, n, b
    <2> HIDE DEF e
    <2> QED
        BY <1>2, <1>3, <2>1, UnlessField
<1>13. e.device_type \in Value /\ e.track_source_slot \in Value /\ e.track_type \in Value /\ e.play_state \in Value /\ e.play_state_2 \in Value /\ e.play_state_3 \in Value
    BY <1>4 DEF CdjStatus
<1>14. e.is_playing_flag \in Value /\ e.is_master \in Value /\ e.is_synced \in Value /\ e.is_bpm_synced \in Value /\ e.is_on_air \in Value
    BY <1>5 DEF CdjStatus, flags
<1>15. e.is_busy \in Value /\ e.link_media_available \in Value
    BY <1>6 DEF CdjStatus
<1>16. e.kind \in Value /\ e.loop_start \in Value /\ e.loop_end \in Value /\ e.loop_beats \in Value /\ e.packet_length \in Value /\ e.packet_number \in Value
    BY <1>7, Plain DEF CdjStatus, loops, n, b
<1> HIDE DEF e
<1>17. \A f \in DOMAIN e : e[f] \in Value
    BY <1>9, <1>10, <1>11, <1>12, <1>13, <1>14, <1>15, <1>16
<1> QED
    BY <1>8, <1>9, <1>17 DEF Valued

\* Every nonempty set of natural numbers has a least one.
LEMMA LeastOf ==
    ASSUME NEW Z, Z \subseteq Nat, Z # {}
    PROVE  \E m \in Z : \A j \in Z : m <= j
<1> DEFINE Below == OpToRel(<, Nat)
<1>1. \A j, m \in Nat : <<j, m>> \in Below <=> j < m
    BY DEF OpToRel
<1>2. IsWellFoundedOn(Below, Nat)
    BY NatLessThanWellFounded
<1> HIDE DEF Below
<1>3. \E m \in Z : \A j \in Z : <<j, m>> \notin Below
    BY <1>2, WFMin
<1>4. PICK m \in Z : \A j \in Z : <<j, m>> \notin Below
    BY <1>3
<1>5. ASSUME NEW j \in Z PROVE m <= j
    <2>1. j \in Nat /\ m \in Nat
        OBVIOUS
    <2>2. ~(j < m)
        BY <1>1, <1>4, <2>1
    <2> QED
        BY <2>1, <2>2
<1> QED
    BY <1>5

\* The same of a mixer's status,
LEMMA MixerStatusValued ==
    ASSUME NEW p, IsPacket(p), ParseMixerStatus(p) # <<>>
    PROVE  \E e : ParseMixerStatus(p) = <<e>> /\ Valued(e)
<1> DEFINE e == ParseMixerStatus(p)[1]
<1>1. p.size \in Nat /\ p.size >= \h38
    BY DEF IsPacket, ParseMixerStatus, MinMixerStatusLen
<1>2. ParseMixerStatus(p) = <<e>>
    BY <1>1 DEF ParseMixerStatus, MinMixerStatusLen
<1>3. /\ DOMAIN e = {"kind", "name", "device_number", "bpm", "pitch", "beat_within_bar", "is_master",
                     "is_synced", "master_hand_off"}
      /\ e.kind = "Mixer" /\ e.name = ReadDeviceName(p, \h0b) /\ e.device_number = At(p, \h21)
      /\ e.bpm = BytesToNumber(p, \h2e, 2) /\ e.pitch = BytesToNumber(p, \h28, 4)
      /\ e.beat_within_bar = At(p, \h37) /\ e.is_master = HasBit(At(p, \h27), FlagBit.master)
      /\ e.is_synced = HasBit(At(p, \h27), FlagBit.synced)
      /\ e.master_hand_off = Unless(NoHandOff, At(p, \h36))
    BY <1>1 DEF ParseMixerStatus, MinMixerStatusLen, NameOffset, DeviceNumberOffset
<1> HIDE DEF e
<1>4. e.kind \in Value
    BY <1>3, Plain DEF Word
<1>5. e.name \in Value
    BY <1>1, <1>3, ByteField DEF ReadDeviceName
<1>6. e.device_number \in Value /\ e.beat_within_bar \in Value
    BY <1>1, <1>3, ByteField
<1>7. e.bpm \in Value /\ e.pitch \in Value
    BY <1>1, <1>3, NumberField
<1>8. e.is_master \in Value /\ e.is_synced \in Value
    BY <1>1, <1>3, FlagField, Plain
<1>9. e.master_hand_off \in Value
    BY <1>1, <1>3, ByteField, UnlessField
<1>10. \A f \in DOMAIN e : e[f] \in Value
    BY <1>3, <1>4, <1>5, <1>6, <1>7, <1>8, <1>9
<1> QED
    BY <1>2, <1>3, <1>10 DEF Valued

\* of a keep-alive,
LEMMA KeepAliveValued ==
    ASSUME NEW p, IsPacket(p), ParseKeepAlive(p) # <<>>
    PROVE  \E e : /\ ParseKeepAlive(p) = <<e>> /\ Valued(e)
                  /\ \A i \in Nat : Valued([e EXCEPT !.number = i])
<1> DEFINE e == ParseKeepAlive(p)[1]
<1>1. p.size \in Nat /\ p.size >= \h36
    BY DEF IsPacket, ParseKeepAlive, KeepAliveMinSize
<1>2. ParseKeepAlive(p) = <<e>>
    BY <1>1 DEF ParseKeepAlive, KeepAliveMinSize
<1>3. /\ DOMAIN e = {"name", "number", "device_type", "mac_address", "ip_address", "peer_count",
                     "opus_quad", "xdj_az", "library_plus"}
      /\ e.name = ReadDeviceName(p, \h0c) /\ e.number = At(p, \h24)
      /\ e.device_type = FromByte(DeviceType, At(p, \h25))
      /\ e.mac_address = BytesAt(p, \h26, 6) /\ e.ip_address = BytesAt(p, \h2c, 4)
      /\ e.peer_count = At(p, \h30)
      /\ e.opus_quad = (ReadDeviceName(p, \h0c) = OpusQuadName)
      /\ e.xdj_az = (ReadDeviceName(p, \h0c) = XdjAzName)
      /\ e.library_plus = (p.size > \h36 /\ NonZero(At(p, \h36)))
    BY <1>1 DEF ParseKeepAlive, KeepAliveMinSize, AnnouncedNameOffset, DeviceLibraryPlusOffset
<1> HIDE DEF e
<1>4. e.name \in Value
    BY <1>1, <1>3, ByteField DEF ReadDeviceName
<1>5. e.number \in Value /\ e.peer_count \in Value
    BY <1>1, <1>3, ByteField
<1>6. e.device_type \in Value
    BY <1>1, <1>3, EnumField
<1>7. e.mac_address \in Value /\ e.ip_address \in Value
    BY <1>1, <1>3, BytesField
<1>8. e.opus_quad \in Value /\ e.xdj_az \in Value /\ e.library_plus \in Value
    <2>1. e.opus_quad \in BOOLEAN /\ e.xdj_az \in BOOLEAN
        BY <1>3
    <2>2. e.library_plus \in BOOLEAN
        BY <1>3
    <2> QED
        BY <2>1, <2>2, Plain
<1>9. \A f \in DOMAIN e : e[f] \in Value
    BY <1>3, <1>4, <1>5, <1>6, <1>7, <1>8
<1>10. ASSUME NEW i \in Nat PROVE Valued([e EXCEPT !.number = i])
    <2> DEFINE d == [e EXCEPT !.number = i]
    <2>1. DOMAIN d = DOMAIN e /\ \A f \in DOMAIN e : d[f] = i \/ d[f] = e[f]
        OBVIOUS
    <2> HIDE DEF d
    <2>2. "channels" \notin DOMAIN d /\ \A f \in DOMAIN d : d[f] \in Value
        BY <1>3, <1>9, <2>1, Plain
    <2>3. Valued(d)
        BY <2>2 DEF Valued
    <2> QED
        BY <2>3 DEF d
<1> QED
    BY <1>2, <1>3, <1>9, <1>10 DEF Valued

\* of a beat,
LEMMA BeatValued ==
    ASSUME NEW p, IsPacket(p), ParseBeat(p) # <<>>
    PROVE  \E e : ParseBeat(p) = <<e>> /\ Valued(e)
<1> DEFINE e == ParseBeat(p)[1]
           time(i) == Unless(FourBytes, BytesAt(p, \h24 + 4 * (i - 1), 4))
<1>1. p.size \in Nat /\ p.size >= \h60
    BY DEF IsPacket, ParseBeat, BeatPacketLength
<1>2. ParseBeat(p) = <<e>>
    BY <1>1 DEF ParseBeat, BeatPacketLength
<1>3. /\ DOMAIN e = {"name", "device_number", "device_type", "pitch", "bpm", "beat_within_bar",
                     "timing"}
      /\ e.name = ReadDeviceName(p, \h0b) /\ e.device_number = At(p, \h21)
      /\ e.device_type = FromByte(DeviceType, At(p, \h23))
      /\ e.pitch = BytesToNumber(p, \h55, 3) /\ e.bpm = BytesToNumber(p, \h5a, 2)
      /\ e.beat_within_bar = At(p, \h5c) /\ e.timing = [i \in 1..6 |-> time(i)]
    BY <1>1 DEF ParseBeat, BeatPacketLength, NameOffset, DeviceNumberOffset, DeviceTypeOffset
<1> HIDE DEF e
<1>4. e.name \in Value
    BY <1>1, <1>3, ByteField DEF ReadDeviceName
<1>5. e.device_number \in Value /\ e.beat_within_bar \in Value
    BY <1>1, <1>3, ByteField
<1>6. e.device_type \in Value
    BY <1>1, <1>3, EnumField
<1>7. e.pitch \in Value /\ e.bpm \in Value
    BY <1>1, <1>3, NumberField
<1>8. e.timing \in Value
    <2>1. ASSUME NEW i \in 1..6 PROVE time(i) \in Datum \union Seq(Datum)
        <3> DEFINE o == \h24 + 4 * (i - 1)
        <3>1. o \in Nat /\ o + 4 <= p.size /\ o >= \h24 /\ o + 4 <= \h3c
            BY <1>1
        <3> HIDE DEF o
        <3>2. BytesAt(p, o, 4) \in Seq(Datum)
            BY <3>1, BytesData
        <3>3. None \in Datum
            BY DEF Datum
        <3> QED
            BY <3>2, <3>3 DEF Unless, o
    <2> HIDE DEF time
    <2> DEFINE n == 6
    <2>2. n \in Nat /\ e.timing \in [1..n -> Datum \union Seq(Datum)]
        BY <1>3, <2>1
    <2> HIDE DEF n
    <2>3. e.timing \in Seq(Datum \union Seq(Datum))
        BY <2>2, Listed
    <2> QED
        BY <2>3 DEF Value
<1>9. \A f \in DOMAIN e : e[f] \in Value
    BY <1>3, <1>4, <1>5, <1>6, <1>7, <1>8
<1> QED
    BY <1>2, <1>3, <1>9 DEF Valued

\* of a precise position,
LEMMA PrecisePositionValued ==
    ASSUME NEW p, IsPacket(p), ParsePrecisePosition(p) # <<>>
    PROVE  \E e : ParsePrecisePosition(p) = <<e>> /\ Valued(e)
<1> DEFINE e == ParsePrecisePosition(p)[1]
<1>1. p.size = \h3c
    BY DEF ParsePrecisePosition, PrecisePositionLength
<1>2. ParsePrecisePosition(p) = <<e>>
    BY DEF ParsePrecisePosition
<1>3. /\ DOMAIN e = {"name", "device_number", "track_length", "position_ms", "pitch", "effective_bpm"}
      /\ e.name = ReadDeviceName(p, \h0b) /\ e.device_number = At(p, \h21)
      /\ e.track_length = BytesAt(p, \h24, 4) /\ e.position_ms = BytesAt(p, \h28, 4)
      /\ e.pitch = PitchFromPercentage(SignedAt(p, \h2c))
      /\ e.effective_bpm = 10 * BytesToNumber(p, \h38, 4)
    BY DEF ParsePrecisePosition, NameOffset, DeviceNumberOffset
<1> HIDE DEF e
<1>4. e.name \in Value
    BY <1>1, <1>3, ByteField DEF ReadDeviceName
<1>5. e.device_number \in Value
    BY <1>1, <1>3, ByteField
<1>6. e.track_length \in Value /\ e.position_ms \in Value
    BY <1>1, <1>3, BytesField
<1>7. e.pitch \in Value
    <2>1. \A i \in 1..4 : BytesAt(p, \h2c, 4)[i] \in Byte
        <3>1. \h2c + 4 <= p.size /\ \A i \in {\h0b, \h0c, \h7c} : i < \h2c \/ i >= \h2c + 4
            BY <1>1
        <3> QED
            BY <3>1, BytesAtBytes
    <2>2. BytesAt(p, \h2c, 4) # Panic
        BY <1>1, BytesField, PanicAssumption
    <2> DEFINE b == BytesAt(p, \h2c, 4)
               high == IF b[1] >= 128 THEN b[1] - 256 ELSE b[1]
    <2>3. b[1] \in Byte /\ b[2] \in Byte /\ b[3] \in Byte /\ b[4] \in Byte
        <3>1. \A S : (\A i \in 1..4 : b[i] \in S) => b[1] \in S /\ b[2] \in S /\ b[3] \in S /\ b[4] \in S
            <4> HIDE DEF b
            <4> QED
                OBVIOUS
        <3> QED
            BY <2>1, <3>1
    <2>4. SignedAt(p, \h2c) = high * 16777216 + b[2] * 65536 + b[3] * 256 + b[4]
        BY <2>2 DEF SignedAt
    <2> HIDE DEF b
    <2>5. high \in Int /\ b[2] \in Int /\ b[3] \in Int /\ b[4] \in Int
        <3>1. \A n \in Byte : n \in Int /\ n - 256 \in Int
            BY DEF Byte
        <3>2. b[1] \in Int /\ b[1] - 256 \in Int /\ b[2] \in Int /\ b[3] \in Int /\ b[4] \in Int
            BY <2>3, <3>1
        <3> QED
            BY <3>2
    <2> HIDE DEF high
    <2>7. SignedAt(p, \h2c) \in Int
        <3>1. high * 16777216 \in Int
            BY <2>5, SMT
        <3>2. b[2] * 65536 \in Int /\ b[3] * 256 \in Int
            BY <2>5, SMT
        <3>3. SignedAt(p, \h2c) = high * 16777216 + b[2] * 65536 + b[3] * 256 + b[4]
            BY <2>4, SMT
        <3> DEFINE x == high * 16777216
                   y == b[2] * 65536
                   z == b[3] * 256
        <3> HIDE DEF x, y, z
        <3>4. x \in Int /\ y \in Int /\ z \in Int /\ b[4] \in Int
            BY <2>5, <3>1, <3>2 DEF x, y, z
        <3>5. x + y + z + b[4] \in Int
            BY <3>4
        <3> QED
            BY <3>3, <3>5 DEF x, y, z
    <2>6. e.pitch \in Int
        BY <1>3, <2>7, SMT DEF PitchFromPercentage, PitchNormal
    <2> QED
        BY <2>6, Plain
<1>8. e.effective_bpm \in Value
    <2>1. BytesToNumber(p, \h38, 4) \in Nat
        BY <1>1, NumberAt
    <2>2. e.effective_bpm \in Int
        BY <1>3, <2>1, SMT
    <2> QED
        BY <2>2, Plain
<1>9. \A f \in DOMAIN e : e[f] \in Value
    BY <1>3, <1>4, <1>5, <1>6, <1>7, <1>8
<1> QED
    BY <1>2, <1>3, <1>9 DEF Valued

\* Flags of channels are values.
LEMMA FlagsValue ==
    ASSUME NEW n \in Nat, NEW f \in [1..n -> Datum]
    PROVE  f \in Value /\ \A i \in DOMAIN f : f[i] \in Value
<1>1. f \in [1..n -> Datum \union Seq(Datum)]
    OBVIOUS
<1>2. f \in Seq(Datum \union Seq(Datum))
    BY <1>1, Listed
<1>3. DOMAIN f = 1..n /\ \A i \in 1..n : f[i] \in Datum
    OBVIOUS
<1> QED
    BY <1>2, <1>3 DEF Value

\* Every field of a channels-on-air packet is a value, of four channels or of six,
LEMMA ChannelsOnAirValued ==
    ASSUME NEW p, IsPacket(p), ParseChannelsOnAir(p) # <<>>
    PROVE  \E e : ParseChannelsOnAir(p) = <<e>> /\ Valued(e)
<1> DEFINE e == ParseChannelsOnAir(p)[1]
           n == ChannelFlags(p)
<1>1. p.size \in Nat /\ p.size >= \h28
    BY DEF IsPacket, ParseChannelsOnAir, ChannelsOnAirMinLength
<1>2. ParseChannelsOnAir(p) = <<e>>
    BY DEF ParseChannelsOnAir
<1>3. /\ DOMAIN e = {"name", "device_number", "channels"}
      /\ e.name = ReadDeviceName(p, \h0b) /\ e.device_number = At(p, \h21)
      /\ e.channels = [i \in 1..n |-> NonZero(At(p, \h24 + i - 1))]
    BY <1>1 DEF ParseChannelsOnAir, ChannelsOnAirMinLength, NameOffset, DeviceNumberOffset
<1>4. n \in Nat /\ \h24 + n <= p.size
    BY <1>1 DEF ChannelFlags
<1> HIDE DEF e, n
<1>5. e.name \in Value
    BY <1>1, <1>3, ByteField DEF ReadDeviceName
<1>6. e.device_number \in Value
    BY <1>1, <1>3, ByteField
<1>7. ASSUME NEW i \in 1..n PROVE NonZero(At(p, \h24 + i - 1)) \in Datum
    <2> DEFINE o == \h24 + i - 1
    <2>1. o \in Nat /\ o < p.size /\ o \notin {\h0b, \h0c, \h7c}
        BY <1>1, <1>4 DEF n, ChannelFlags
    <2> HIDE DEF o
    <2>2. NonZero(At(p, o)) \in BOOLEAN
        BY <2>1, FlagField
    <2> QED
        BY <2>2 DEF Datum, o
<1>8. e.channels \in Value /\ \A i \in DOMAIN e.channels : e.channels[i] \in Value
    <2>1. e.channels \in [1..n -> Datum]
        BY <1>3, <1>7
    <2> QED
        BY <1>4, <2>1, FlagsValue
<1>9. \A f \in DOMAIN e : e[f] \in Value
    BY <1>3, <1>5, <1>6, <1>8
<1> QED
    BY <1>2, <1>8, <1>9 DEF Valued

\* of a sync command,
LEMMA SyncValued ==
    ASSUME NEW p, IsPacket(p), ParseSync(p) # <<>>
    PROVE  \E e : ParseSync(p) = <<e>> /\ Valued(e)
<1> DEFINE e == ParseSync(p)[1]
<1>1. p.size \in Nat /\ p.size >= \h31
    BY DEF IsPacket, ParseSync, SyncMinLength
<1>2. ParseSync(p) = <<e>>
    BY DEF ParseSync
<1>3. /\ DOMAIN e = {"device_number", "sync_enabled"}
      /\ e.device_number = At(p, \h21) /\ e.sync_enabled = Equals(At(p, \h30), \h10)
    BY <1>1 DEF ParseSync, SyncMinLength, DeviceNumberOffset
<1> HIDE DEF e
<1>4. e.device_number \in Value
    BY <1>1, <1>3, ByteField
<1>5. e.sync_enabled \in Value
    BY <1>1, <1>3, FlagField, Plain
<1> QED
    BY <1>2, <1>3, <1>4, <1>5 DEF Valued

\* of a master handoff,
LEMMA MasterHandoffValued ==
    ASSUME NEW p, IsPacket(p), ParseMasterHandoff(p) # <<>>
    PROVE  \E e : ParseMasterHandoff(p) = <<e>> /\ Valued(e)
<1> DEFINE e == ParseMasterHandoff(p)[1]
<1>1. p.size \in Nat /\ p.size >= \h27
    BY DEF IsPacket, ParseMasterHandoff, MasterHandoffMinLength
<1>2. ParseMasterHandoff(p) = <<e>>
    BY DEF ParseMasterHandoff
<1>3. /\ DOMAIN e = {"device_number", "target_device"}
      /\ e.device_number = At(p, \h21) /\ e.target_device = At(p, \h26)
    BY <1>1 DEF ParseMasterHandoff, MasterHandoffMinLength, DeviceNumberOffset
<1> HIDE DEF e
<1>4. e.device_number \in Value /\ e.target_device \in Value
    BY <1>1, <1>3, ByteField
<1> QED
    BY <1>2, <1>3, <1>4 DEF Valued

\* The four actions of a fader start.
LEMMA ActionsValue ==
    ASSUME NEW p, IsPacket(p), p.size >= \h28,
           NEW f, f = [i \in 1..4 |-> FaderAction(At(p, \h24 + i - 1))]
    PROVE  f \in Value /\ \A i \in DOMAIN f : f[i] \in Value
<1>1. ASSUME NEW i \in 1..4 PROVE FaderAction(At(p, \h24 + i - 1)) \in Datum
    <2> DEFINE o == \h24 + i - 1
    <2>1. o \in Nat /\ o < p.size /\ o \notin {\h0b, \h0c, \h7c}
        BY DEF IsPacket
    <2> HIDE DEF o
    <2>2. At(p, o) # Panic
        BY <2>1, AtByte, NoBytePanics
    <2>3. FaderAction(At(p, o)) \in {"Start", "Stop", "NoChange"}
        BY <2>2 DEF FaderAction
    <2> QED
        BY <2>3 DEF Datum, Word, o
<1> DEFINE n == 4
<1>2. n \in Nat /\ f \in [1..n -> Datum]
    BY <1>1
<1> HIDE DEF n
<1> QED
    BY <1>2, FlagsValue

\* of a fader start,
LEMMA FaderStartValued ==
    ASSUME NEW p, IsPacket(p), ParseFaderStart(p) # <<>>
    PROVE  \E e : ParseFaderStart(p) = <<e>> /\ Valued(e)
<1> DEFINE e == ParseFaderStart(p)[1]
<1>1. p.size \in Nat /\ p.size >= \h28
    BY DEF IsPacket, ParseFaderStart, FaderStartMinLength
<1>2. ParseFaderStart(p) = <<e>>
    BY DEF ParseFaderStart
<1>3. /\ DOMAIN e = {"device_number", "channels"}
      /\ e.device_number = At(p, \h21)
      /\ e.channels = [i \in 1..4 |-> FaderAction(At(p, \h24 + i - 1))]
    BY <1>1 DEF ParseFaderStart, FaderStartMinLength, DeviceNumberOffset
<1> HIDE DEF e
<1>4. e.device_number \in Value
    BY <1>1, <1>3, ByteField
<1>5. e.channels \in Value /\ \A i \in DOMAIN e.channels : e.channels[i] \in Value
    BY <1>1, <1>3, ActionsValue
<1> QED
    BY <1>2, <1>3, <1>4, <1>5 DEF Valued

\* of a command,
LEMMA CommandValued ==
    ASSUME NEW p, IsPacket(p), TryParseCommand(p) # <<>>
    PROVE  \E e : TryParseCommand(p) = <<e>> /\ Valued(e)
<1>1. TryParseCommand(p) \in {ParseIncomingFaderStart(p), ParseIncomingLoadTrack(p)}
    BY DEF TryParseCommand
<1>2. CASE TryParseCommand(p) = ParseIncomingFaderStart(p)
    <2> DEFINE e == ParseIncomingFaderStart(p)[1]
    <2>1. p.size \in Nat /\ p.size >= \h28
        BY <1>2 DEF IsPacket, ParseIncomingFaderStart
    <2>2. ParseIncomingFaderStart(p) = <<e>>
        BY <1>2 DEF ParseIncomingFaderStart
    <2>3. /\ DOMAIN e = {"kind", "source_device", "channels"}
          /\ e.kind = "FaderStart" /\ e.source_device = At(p, \h21)
          /\ e.channels = [i \in 1..4 |-> FaderAction(At(p, \h24 + i - 1))]
        BY <2>1 DEF ParseIncomingFaderStart
    <2> HIDE DEF e
    <2>4. e.kind \in Value /\ e.source_device \in Value
        BY <2>1, <2>3, ByteField, Plain DEF Word
    <2>5. e.channels \in Value /\ \A i \in DOMAIN e.channels : e.channels[i] \in Value
        BY <2>1, <2>3, ActionsValue
    <2> QED
        BY <1>2, <2>2, <2>3, <2>4, <2>5 DEF Valued
<1>3. CASE TryParseCommand(p) = ParseIncomingLoadTrack(p)
    <2> DEFINE e == ParseIncomingLoadTrack(p)[1]
    <2>1. p.size \in Nat /\ p.size >= \h30
        BY <1>3 DEF IsPacket, ParseIncomingLoadTrack
    <2>2. ParseIncomingLoadTrack(p) = <<e>>
        BY <1>3 DEF ParseIncomingLoadTrack
    <2>3. /\ DOMAIN e = {"kind", "source_device", "source_player", "source_slot", "track_type",
                         "rekordbox_id"}
          /\ e.kind = "LoadTrack" /\ e.source_device = At(p, \h21) /\ e.source_player = At(p, \h28)
          /\ e.source_slot = FromByte(TrackSourceSlot, At(p, \h29))
          /\ e.track_type = FromByte(TrackType, At(p, \h2a)) /\ e.rekordbox_id = BytesAt(p, \h2c, 4)
        BY <2>1 DEF ParseIncomingLoadTrack
    <2> HIDE DEF e
    <2>4. e.kind \in Value /\ e.source_device \in Value /\ e.source_player \in Value
        BY <2>1, <2>3, ByteField, Plain DEF Word
    <2>5. e.source_slot \in Value /\ e.track_type \in Value
        BY <2>1, <2>3, EnumField
    <2>6. e.rekordbox_id \in Value
        BY <2>1, <2>3, BytesField
    <2> QED
        BY <1>3, <2>2, <2>3, <2>4, <2>5, <2>6 DEF Valued
<1> QED
    BY <1>1, <1>2, <1>3

\* The name of a medium: its words before the first zero.
LEMMA WordsField ==
    ASSUME NEW p, IsPacket(p), NEW offset \in Nat, NEW maxBytes \in Nat, offset <= p.size,
           \A i \in {\h0b, \h0c, \h7c} : i < offset \/ i >= offset + maxBytes \/ At(p, i) \in Byte
    PROVE  ReadUtf16(p, offset, maxBytes) \in Value
<1> DEFINE end    == IF offset + maxBytes > p.size THEN p.size ELSE offset + maxBytes
           n      == (end - offset) \div 2
           unit   == [i \in 1..n |-> BytesToNumber(p, offset + 2 * (i - 1), 2)]
           zeroes == {i \in DOMAIN unit : unit[i] = 0}
           first  == CHOOSE i \in zeroes : \A j \in zeroes : i <= j
<1>1. p.size \in Nat
    BY DEF IsPacket
<1>2. end \in Nat /\ end <= p.size /\ end <= offset + maxBytes /\ end - offset \in Nat
    BY <1>1
<1>3. n \in Nat /\ 2 * n <= end - offset
    <2> DEFINE w == end - offset
    <2>1. w \in Nat
        BY <1>2
    <2> HIDE DEF w
    <2>2. w \div 2 \in Nat /\ 2 * (w \div 2) <= w
        BY <2>1
    <2> QED
        BY <2>2 DEF w
<1>4. ASSUME NEW i \in 1..n PROVE BytesToNumber(p, offset + 2 * (i - 1), 2) \in Datum
    <2> DEFINE o == offset + 2 * (i - 1)
    <2>1. o \in Nat /\ o >= offset /\ o + 2 <= end
        <3> HIDE DEF end, n
        <3> QED
            BY <1>2, <1>3
    <2> HIDE DEF o
    <2>2. o + 2 <= p.size /\ \A k \in {\h0b, \h0c, \h7c} : k < o \/ k >= o + 2 \/ At(p, k) \in Byte
        <3> HIDE DEF end
        <3> QED
            BY <1>1, <1>2, <2>1
    <2>3. BytesToNumber(p, o, 2) \in Nat
        BY <2>1, <2>2, NumberAt
    <2> QED
        BY <2>3 DEF Datum, o
<1>5. ReadUtf16(p, offset, maxBytes) = IF zeroes = {} THEN unit ELSE SubSeq(unit, 1, first - 1)
    BY DEF ReadUtf16
<1> HIDE DEF n
<1>6. unit \in [1..n -> Datum]
    BY <1>4
<1> HIDE DEF unit, end
<1>7. unit \in Seq(Datum) /\ Len(unit) = n
    BY <1>3, <1>6, Listed
<1>8. CASE zeroes = {}
    <2>1. unit \in [1..n -> Datum \union Seq(Datum)]
        BY <1>6
    <2>2. unit \in Seq(Datum \union Seq(Datum))
        BY <1>3, <2>1, Listed
    <2> QED
        BY <1>5, <1>8, <2>2 DEF Value
<1>9. CASE zeroes # {}
    <2>1. zeroes \subseteq 1..n
        BY <1>6
    <2>2. first \in 1..n
        <3>1. zeroes \subseteq Nat
            BY <1>3, <2>1
        <3>2. \E m \in zeroes : \A j \in zeroes : m <= j
            BY <1>9, <3>1, LeastOf
        <3> HIDE DEF zeroes
        <3>3. first \in zeroes
            BY <3>2
        <3> QED
            BY <2>1, <3>3
    <2> HIDE DEF first
    <2>3. SubSeq(unit, 1, first - 1) \in Seq(Datum)
        BY <1>3, <1>7, <2>2
    <2>4. SubSeq(unit, 1, first - 1) \in Seq(Datum \union Seq(Datum))
        <3> DEFINE s == SubSeq(unit, 1, first - 1)
        <3>1. Len(s) \in Nat /\ s \in [1..Len(s) -> Datum]
            <4> HIDE DEF s
            <4>1. s \in Seq(Datum)
                BY <2>3 DEF s
            <4> QED
                BY <4>1
        <3>2. s \in [1..Len(s) -> Datum \union Seq(Datum)]
            BY <3>1
        <3> HIDE DEF s
        <3>3. s \in Seq(Datum \union Seq(Datum))
            BY <3>1, <3>2, Listed
        <3> QED
            BY <3>3 DEF s
    <2> QED
        BY <1>5, <1>9, <2>4 DEF Value
<1> QED
    BY <1>8, <1>9

\* of the details of a medium.
LEMMA MediaDetailsValued ==
    ASSUME NEW p, IsPacket(p), \h7c \in DOMAIN p.at => p.at[\h7c] \in Byte, ParseMediaDetails(p) # <<>>
    PROVE  \E e : ParseMediaDetails(p) = <<e>> /\ Valued(e)
<1> DEFINE e == MediaDetails(p)
<1>1. p.size \in Nat /\ p.size >= \h84
    BY DEF IsPacket, ParseMediaDetails, MinMediaDetailsSize
<1>2. ParseMediaDetails(p) = <<e>>
    BY DEF ParseMediaDetails
<1>3. At(p, \h7c) \in Byte
    <2>1. At(p, \h7c) = IF \h7c \in DOMAIN p.at THEN p.at[\h7c] ELSE 0
        BY <1>1 DEF At
    <2>2. 0 \in Byte
        BY DEF Byte
    <2>3. CASE \h7c \in DOMAIN p.at
        BY <2>1, <2>3
    <2>4. CASE \h7c \notin DOMAIN p.at
        BY <2>1, <2>2, <2>4
    <2> QED
        BY <2>3, <2>4
<1>4. DOMAIN e = {"player", "slot", "media_type", "name", "track_count", "playlist_count", "color",
         "is_rekordbox", "total_size", "free_space", "creation_date", "has_my_settings", "min_size"}
    BY DEF MediaDetails
<1>5. /\ e.player = At(p, \h21) /\ e.color = At(p, \h72)
      /\ e.slot = FromByte(TrackSourceSlot, At(p, \h27)) /\ e.media_type = FromByte(MediaType, At(p, \h28))
      /\ e.name = ReadUtf16(p, \h2c, \h40) /\ e.creation_date = ReadUtf16(p, \h6c, \h18)
      /\ e.track_count = BytesAt(p, \h6c, 4) /\ e.total_size = BytesAt(p, \h74, 8)
      /\ e.free_space = BytesAt(p, \h7c, 8) /\ e.playlist_count = BytesToNumber(p, \h70, 2)
      /\ e.is_rekordbox = NonZero(At(p, \h73))
    BY DEF MediaDetails
<1>6. /\ e.has_my_settings = IF p.size > \hab THEN NonZero(At(p, \hab)) ELSE None
      /\ e.min_size = IF p.size >= \hc0 + 8 THEN BytesAt(p, \hc0, 8) ELSE None
    BY DEF MediaDetails
<1> HIDE DEF e
<1>7. e.player \in Value /\ e.color \in Value
    BY <1>1, <1>5, ByteField
<1>8. e.slot \in Value /\ e.media_type \in Value
    BY <1>1, <1>5, EnumField
<1>9. e.name \in Value /\ e.creation_date \in Value
    <2>1. ReadUtf16(p, \h2c, \h40) \in Value
        BY <1>1, WordsField
    <2>2. ReadUtf16(p, \h6c, \h18) \in Value
        BY <1>1, <1>3, WordsField
    <2> QED
        BY <1>5, <2>1, <2>2
<1>10. e.track_count \in Value /\ e.total_size \in Value /\ e.free_space \in Value
    BY <1>1, <1>5, BytesField
<1>11. e.playlist_count \in Value
    BY <1>1, <1>5, NumberField
<1>12. e.is_rekordbox \in Value
    BY <1>1, <1>5, FlagField, Plain
<1>13. e.has_my_settings \in Value
    <2>1. p.size > \hab => NonZero(At(p, \hab)) \in BOOLEAN
        BY <1>1, FlagField
    <2> QED
        BY <1>6, <2>1, Plain
<1>14. e.min_size \in Value
    <2>1. p.size >= \hc0 + 8 => BytesAt(p, \hc0, 8) \in Value
        BY <1>1, BytesField
    <2> QED
        BY <1>6, <2>1, Plain
<1>15. \A f \in DOMAIN e : e[f] \in Value
    BY <1>4, <1>7, <1>8, <1>9, <1>10, <1>11, <1>12, <1>13, <1>14
<1> QED
    BY <1>2, <1>4, <1>15 DEF Valued

-----------------------------------------------------------------------------
(* What a packet that was built reads as *)

\* A cell of n entries at an offset.
Spans(c, offset, n) == DOMAIN c = offset..(offset + n - 1)

Apart(cells) == \A c, d \in cells : c = d \/ DOMAIN c \intersect DOMAIN d = {}

\* The cells of a sequence are its elements, from an offset on.
LEMMA CellsOf ==
    ASSUME NEW offset \in Nat, NEW n \in Nat, NEW bytes, Len(bytes) = n, DOMAIN bytes = 1..n
    PROVE  /\ Spans(Cells(offset, bytes), offset, n)
           /\ \A k \in 1..n : Cells(offset, bytes)[offset + k - 1] = bytes[k]
<1>1. Cells(offset, bytes) = [i \in offset..(offset + n - 1) |-> bytes[i - offset + 1]]
    BY DEF Cells
<1>2. ASSUME NEW k \in 1..n
      PROVE  offset + k - 1 \in offset..(offset + n - 1) /\ (offset + k - 1) - offset + 1 = k
    OBVIOUS
<1> QED
    BY <1>1, <1>2 DEF Spans

\* One cell.
LEMMA Cells1 ==
    ASSUME NEW offset \in Nat, NEW a
    PROVE  DOMAIN Cells(offset, <<a>>) = {offset} /\ Cells(offset, <<a>>)[offset] = a
<1> DEFINE b == <<a>>
           n == 1
<1>1. n \in Nat /\ Len(b) = n /\ DOMAIN b = 1..n /\ b[1] = a
    OBVIOUS
<1> HIDE DEF b, n
<1>2. /\ Spans(Cells(offset, b), offset, n)
      /\ \A k \in 1..n : Cells(offset, b)[offset + k - 1] = b[k]
    BY <1>1, CellsOf
<1>3. offset + n - 1 = offset /\ n = 1
    BY DEF n
<1>4. DOMAIN Cells(offset, b) = {offset} /\ Cells(offset, b)[offset] = b[1]
    BY <1>2, <1>3 DEF Spans
<1> QED
    BY <1>1, <1>4 DEF b

\* The type byte of a packet.
LEMMA TypeCell ==
    ASSUME NEW type
    PROVE  DOMAIN Cells(\h0a, <<type>>) = {\h0a} /\ Cells(\h0a, <<type>>)[\h0a] = type
<1>1. DOMAIN Cells(\h0a, <<type>>) = {\h0a}
    BY Cells1
<1>2. Cells(\h0a, <<type>>)[\h0a] = type
    BY Cells1
<1> QED
    BY <1>1, <1>2

\* Where a cell was written, the packet has it.
LEMMA AtWritten ==
    ASSUME NEW size \in Nat, NEW type, NEW cells, Apart(cells \union {Cells(\h0a, <<type>>)}),
           NEW c \in cells \union {Cells(\h0a, <<type>>)}, NEW i \in DOMAIN c, i \in Nat, i < size
    PROVE  At(Packet(size, type, cells), i) = c[i]
<1> DEFINE p == Packet(size, type, cells)
           all == cells \union {Cells(\h0a, <<type>>)}
           d == CHOOSE d \in all : i \in DOMAIN d
<1>1. p.size = size /\ i \in DOMAIN p.at /\ p.at[i] = d[i]
    BY DEF Packet
<1>2. d \in all /\ i \in DOMAIN d
    OBVIOUS
<1>3. d = c
    <2> HIDE DEF d
    <2> QED
        BY <1>2 DEF Apart
<1>4. At(p, i) = p.at[i]
    <2> HIDE DEF p
    <2> QED
        BY <1>1 DEF At
<1> QED
    BY <1>1, <1>3, <1>4

\* Where nothing was written, it has a zero.
LEMMA AtBlank ==
    ASSUME NEW size \in Nat, NEW type, NEW cells, NEW i \in Nat, i < size,
           \A c \in cells \union {Cells(\h0a, <<type>>)} : i \notin DOMAIN c
    PROVE  At(Packet(size, type, cells), i) = 0
<1> DEFINE p == Packet(size, type, cells)
<1>1. p.size = size /\ i \notin DOMAIN p.at
    BY DEF Packet
<1> HIDE DEF p
<1>2. At(p, i) = 0
    BY <1>1 DEF At
<1> QED
    BY <1>2 DEF p

\* A packet is one when its cells are bytes, and names where names begin.
LEMMA PacketIs ==
    ASSUME NEW size \in Nat, NEW type \in Byte, NEW cells,
           \A c \in cells : \A i \in DOMAIN c : IsCell(c[i]) /\ (i \notin {\h0b, \h0c, \h7c} => c[i] \in Byte)
    PROVE  IsPacket(Packet(size, type, cells))
<1> DEFINE p == Packet(size, type, cells)
           t == Cells(\h0a, <<type>>)
           all == cells \union {t}
           Good(c) == \A i \in DOMAIN c : IsCell(c[i]) /\ (i \notin {\h0b, \h0c, \h7c} => c[i] \in Byte)
<1>1. Good(t)
    <2>1. DOMAIN t = {\h0a}
        BY TypeCell
    <2>2. t[\h0a] = type
        BY TypeCell
    <2> HIDE DEF t
    <2> QED
        BY <2>1, <2>2 DEF IsCell
<1>2. \A c \in all : Good(c)
    BY <1>1
<1> HIDE DEF Good
<1>3. /\ p.size = size /\ DOMAIN p.at = UNION {DOMAIN c : c \in all}
      /\ \A i \in DOMAIN p.at : p.at[i] = (CHOOSE c \in all : i \in DOMAIN c)[i]
    BY DEF Packet
<1>4. ASSUME NEW i \in DOMAIN p.at
      PROVE  \E c \in all : i \in DOMAIN c /\ p.at[i] = c[i]
    <2>1. \E c \in all : i \in DOMAIN c
        BY <1>3
    <2> QED
        BY <1>3, <2>1
<1> HIDE DEF p, all
<1> QED
    BY <1>2, <1>3, <1>4 DEF IsPacket, Good, p

\* What a cell of one to four entries has.
GoodCell(c) == \A i \in DOMAIN c : IsCell(c[i]) /\ (i \notin {\h0b, \h0c, \h7c} => c[i] \in Byte)

One(c, offset, a)         == GoodCell(c) /\ DOMAIN c = {offset} /\ c[offset] = a
Two(c, offset, a, b)      == /\ GoodCell(c) /\ DOMAIN c = offset..(offset + 1)
                             /\ c[offset] = a /\ c[offset + 1] = b
Three(c, offset, a, b, d) == /\ GoodCell(c) /\ DOMAIN c = offset..(offset + 2)
                             /\ c[offset] = a /\ c[offset + 1] = b /\ c[offset + 2] = d
Four(c, offset, s)        == /\ GoodCell(c) /\ DOMAIN c = offset..(offset + 3)
                             /\ c[offset] = s[1] /\ c[offset + 1] = s[2]
                             /\ c[offset + 2] = s[3] /\ c[offset + 3] = s[4]

\* A run of cells lies apart from the header and within the packet.
LEMMA GoodMany ==
    ASSUME NEW offset \in Nat, NEW n \in Nat, NEW s, Len(s) = n, DOMAIN s = 1..n,
           \A k \in 1..n : s[k] \in Byte
    PROVE  GoodCell(Cells(offset, s))
<1> DEFINE c == Cells(offset, s)
<1>1. Spans(c, offset, n) /\ \A k \in 1..n : c[offset + k - 1] = s[k]
    BY CellsOf
<1> HIDE DEF c
<1>2. ASSUME NEW i \in DOMAIN c PROVE c[i] \in Byte
    <2> DEFINE k == i - offset + 1
    <2>1. k \in 1..n /\ offset + k - 1 = i
        BY <1>1 DEF Spans
    <2> QED
        BY <1>1, <2>1
<1> QED
    BY <1>2 DEF GoodCell, IsCell, c

\* What one cell that was written reads as,
LEMMA OneIs == ASSUME NEW offset \in Nat, NEW a \in Byte PROVE One(Cells(offset, <<a>>), offset, a)
<1> DEFINE c == Cells(offset, <<a>>)
<1>1. DOMAIN c = {offset} /\ c[offset] = a
    <2>1. \A x : DOMAIN Cells(offset, <<x>>) = {offset} /\ Cells(offset, <<x>>)[offset] = x
        BY Cells1
    <2> QED
        BY <2>1, Zenon
<1> HIDE DEF c
<1>2. One(c, offset, a)
    BY <1>1 DEF One, GoodCell, IsCell
<1> QED
    BY <1>2 DEF c

\* a name,
LEMMA NameIs ==
    ASSUME NEW offset \in {\h0b, \h0c, \h7c}, NEW a \in Name \union {Firmware}
    PROVE  One(Cells(offset, <<a>>), offset, a)
<1> DEFINE c == Cells(offset, <<a>>)
<1>1. DOMAIN c = {offset} /\ c[offset] = a
    <2>0. offset \in Nat
        OBVIOUS
    <2>1. \A x : DOMAIN Cells(offset, <<x>>) = {offset} /\ Cells(offset, <<x>>)[offset] = x
        BY <2>0, Cells1
    <2> QED
        BY <2>1, Zenon
<1> HIDE DEF c
<1>2. One(c, offset, a)
    BY <1>1 DEF One, GoodCell, IsCell
<1> QED
    BY <1>2 DEF c

\* two cells,
LEMMA TwoIs ==
    ASSUME NEW offset \in Nat, NEW a \in Byte, NEW b \in Byte
    PROVE  Two(Cells(offset, <<a, b>>), offset, a, b)
<1> DEFINE s == <<a, b>>
           n == 2
<1>1. /\ n \in Nat /\ Len(s) = n /\ DOMAIN s = 1..n /\ s[1] = a /\ s[2] = b
      /\ \A k \in 1..n : s[k] \in Byte
    OBVIOUS
<1> HIDE DEF s, n
<1>2. /\ Spans(Cells(offset, s), offset, n)
      /\ \A k \in 1..n : Cells(offset, s)[offset + k - 1] = s[k]
    BY <1>1, CellsOf
<1>3. n = 2 /\ offset + 1 - 1 = offset /\ offset + 2 - 1 = offset + 1
    BY DEF n
<1>4. DOMAIN Cells(offset, s) = offset..(offset + 1)
    BY <1>2, <1>3 DEF Spans
<1>5. Cells(offset, s)[offset] = s[1] /\ Cells(offset, s)[offset + 1] = s[2]
    BY <1>2, <1>3
<1>0. GoodCell(Cells(offset, s))
    BY <1>1, GoodMany
<1>6. Two(Cells(offset, s), offset, a, b)
    BY <1>0, <1>1, <1>4, <1>5 DEF Two
<1> QED
    BY <1>6 DEF s

\* three,
LEMMA ThreeIs ==
    ASSUME NEW offset \in Nat, NEW a \in Byte, NEW b \in Byte, NEW d \in Byte
    PROVE  Three(Cells(offset, <<a, b, d>>), offset, a, b, d)
<1> DEFINE s == <<a, b, d>>
           n == 3
<1>1. /\ n \in Nat /\ Len(s) = n /\ DOMAIN s = 1..n /\ s[1] = a /\ s[2] = b /\ s[3] = d
      /\ \A k \in 1..n : s[k] \in Byte
    OBVIOUS
<1> HIDE DEF s, n
<1>2. /\ Spans(Cells(offset, s), offset, n)
      /\ \A k \in 1..n : Cells(offset, s)[offset + k - 1] = s[k]
    BY <1>1, CellsOf
<1>3. n = 3 /\ offset + 1 - 1 = offset /\ offset + 2 - 1 = offset + 1 /\ offset + 3 - 1 = offset + 2
    BY DEF n
<1>4. DOMAIN Cells(offset, s) = offset..(offset + 2)
    BY <1>2, <1>3 DEF Spans
<1>5. /\ Cells(offset, s)[offset] = s[1] /\ Cells(offset, s)[offset + 1] = s[2]
      /\ Cells(offset, s)[offset + 2] = s[3]
    BY <1>2, <1>3
<1>0. GoodCell(Cells(offset, s))
    BY <1>1, GoodMany
<1>6. Three(Cells(offset, s), offset, a, b, d)
    BY <1>0, <1>1, <1>4, <1>5 DEF Three
<1> QED
    BY <1>6 DEF s

\* and four.
LEMMA FourIs ==
    ASSUME NEW offset \in Nat, NEW s, Len(s) = 4, DOMAIN s = 1..4, \A k \in 1..4 : s[k] \in Byte
    PROVE  Four(Cells(offset, s), offset, s)
<1> DEFINE n == 4
<1>1. n \in Nat /\ Len(s) = n /\ DOMAIN s = 1..n /\ \A k \in 1..n : s[k] \in Byte
    OBVIOUS
<1> HIDE DEF n
<1>0. GoodCell(Cells(offset, s))
    BY <1>1, GoodMany
<1>2. /\ Spans(Cells(offset, s), offset, n)
      /\ \A k \in 1..n : Cells(offset, s)[offset + k - 1] = s[k]
    <2>1. \A x : Len(x) = n /\ DOMAIN x = 1..n =>
                 /\ Spans(Cells(offset, x), offset, n)
                 /\ \A k \in 1..n : Cells(offset, x)[offset + k - 1] = x[k]
        BY <1>1, CellsOf
    <2> QED
        BY <1>1, <2>1
<1>3. n = 4 /\ offset + 1 - 1 = offset /\ offset + 2 - 1 = offset + 1 /\ offset + 3 - 1 = offset + 2
            /\ offset + 4 - 1 = offset + 3
    BY DEF n
<1>4. DOMAIN Cells(offset, s) = offset..(offset + 3)
    BY <1>2, <1>3 DEF Spans
<1>5. /\ Cells(offset, s)[offset] = s[1] /\ Cells(offset, s)[offset + 1] = s[2]
      /\ Cells(offset, s)[offset + 2] = s[3] /\ Cells(offset, s)[offset + 3] = s[4]
    BY <1>2, <1>3
<1> QED
    BY <1>0, <1>4, <1>5 DEF Four

\* Numbers of two and three bytes.
TwoByte   == {n \in Nat : n < 65536}
ThreeByte == {n \in Nat : n < 16777216}
Top(n)  == (n \div 65536) % 256
High(n) == (n \div 256) % 256
Low(n)  == n % 256

\* A number in two bytes,
LEMMA BytesTwo == ASSUME NEW n \in Nat PROVE Bytes(n, 2) = <<High(n), Low(n)>>
<1> DEFINE low == <<n % 256, (n \div 256) % 256, (n \div 65536) % 256, (n \div 16777216) % 256>>
<1>1. low[1] = Low(n) /\ low[2] = High(n)
    BY DEF High, Low
<1>2. Bytes(n, 2) = [i \in 1..2 |-> low[2 - i + 1]]
    BY DEF Bytes
<1> HIDE DEF low
<1>3. Bytes(n, 2) = <<low[2], low[1]>>
    BY <1>2
<1> QED
    BY <1>1, <1>3

\* and in three.
LEMMA BytesThree ==
    ASSUME NEW n \in Nat PROVE Bytes(n, 3) = <<Top(n), High(n), Low(n)>>
<1> DEFINE low == <<n % 256, (n \div 256) % 256, (n \div 65536) % 256, (n \div 16777216) % 256>>
<1>1. low[1] = Low(n) /\ low[2] = High(n) /\ low[3] = Top(n)
    BY DEF High, Low, Top
<1>2. Bytes(n, 3) = [i \in 1..3 |-> low[3 - i + 1]]
    BY DEF Bytes
<1> HIDE DEF low
<1>3. Bytes(n, 3) = <<low[3], low[2], low[1]>>
    BY <1>2
<1> QED
    BY <1>1, <1>3

\* Numbers of two and three bytes are cells.
LEMMA ByteCells ==
    ASSUME NEW n \in Nat
    PROVE  /\ Low(n) \in Byte /\ High(n) \in Byte /\ Top(n) \in Byte
           /\ n \in TwoByte => n = Low(n) + 256 * High(n)
           /\ n \in ThreeByte => n = Low(n) + 256 * High(n) + 65536 * Top(n)
<1>1. ASSUME NEW m \in Nat PROVE m \div 256 \in Nat /\ m = 256 * (m \div 256) + (m % 256)
    <2> DEFINE d == m \div 256
               e == m % 256
    <2>1. d \in Nat
        BY SMT
    <2>2. e = m - 256 * d
        BY SMT
    <2> HIDE DEF d, e
    <2>3. m = 256 * d + e
        BY <2>1, <2>2, SMT
    <2> QED
        BY <2>1, <2>3 DEF d, e
<1>2. ASSUME NEW m \in Nat PROVE m % 256 \in 0..255
    BY SMT
<1>3. ASSUME NEW m \in Nat, m < 256 PROVE m % 256 = m
    BY <1>3, SMT
<1> DEFINE q == n \div 256
           t == q \div 256
<1>4. n \div 65536 = t
    BY SMT
<1>5. q \in Nat /\ t \in Nat /\ n = 256 * q + (n % 256) /\ q = 256 * t + (q % 256)
    BY <1>1
<1> HIDE DEF q, t
<1>6. n % 256 \in 0..255 /\ q % 256 \in 0..255 /\ t % 256 \in 0..255
    BY <1>2, <1>5
<1> DEFINE r == n % 256
           s == q % 256
<1>7. r \in 0..255 /\ s \in 0..255 /\ n = 256 * q + r /\ q = 256 * t + s
    BY <1>5, <1>6
<1> HIDE DEF r, s
<1>8. n < 65536 => q < 256
    BY <1>5, <1>7, SMT
<1>9. n < 65536 => s = q
    BY <1>3, <1>5, <1>8 DEF s
<1>10. n < 65536 => n = 256 * s + r
    BY <1>7, <1>9
<1>11. n < 16777216 => t < 256
    BY <1>5, <1>7, SMT
<1>12. n < 16777216 => t % 256 = t
    BY <1>3, <1>5, <1>11
<1>13. n < 16777216 => n = 65536 * (t % 256) + 256 * s + r
    BY <1>5, <1>7, <1>12, SMT
<1>14. r \in Byte /\ s \in Byte /\ t % 256 \in Byte
    BY <1>6 DEF Byte, r, s
<1>15. Low(n) = r /\ High(n) = s /\ Top(n) = t % 256
    BY <1>4 DEF q, r, s, High, Low, Top
<1>16. n \in TwoByte => n < 65536
    BY SMT DEF TwoByte
<1>17. n \in ThreeByte => n < 16777216
    BY SMT DEF ThreeByte
<1>18. n \in TwoByte => n = r + 256 * s
    BY <1>7, <1>10, <1>16, SMT
<1>19. n \in ThreeByte => n = r + 256 * s + 65536 * (t % 256)
    <2> DEFINE u == t % 256
    <2>1. u \in 0..255
        BY <1>6
    <2> HIDE DEF u
    <2>2. n < 16777216 => n = 65536 * u + 256 * s + r
        BY <1>13 DEF u
    <2>3. n \in ThreeByte => n = r + 256 * s + 65536 * u
        BY <1>7, <1>17, <2>1, <2>2, SMT
    <2> QED
        BY <2>3 DEF u
<1> QED
    BY <1>14, <1>15, <1>18, <1>19

\* What a packet with such cells, none above another, is and reads as.
Reads(p, size, type, cells) ==
    /\ p.size = size /\ p.magic = TRUE /\ At(p, \h0a) = type
    /\ \A c \in cells : \A i \in DOMAIN c : i \in Nat /\ i < size => At(p, i) = c[i]

\* A packet of good cells is a packet, with the size and the type it was given.
LEMMA Built ==
    ASSUME NEW size \in Nat, size > \h0a, NEW type \in Byte, NEW cells, \A c \in cells : GoodCell(c),
           Apart(cells \union {Cells(\h0a, <<type>>)})
    PROVE  IsPacket(Packet(size, type, cells)) /\ Reads(Packet(size, type, cells), size, type, cells)
<1> DEFINE p == Packet(size, type, cells)
<1>1. IsPacket(p)
    BY PacketIs DEF GoodCell
<1>2. p.size = size /\ p.magic = TRUE
    BY DEF Packet
<1>3. At(p, \h0a) = type
    <2> DEFINE t == Cells(\h0a, <<type>>)
    <2>1. t \in cells \union {t} /\ \h0a \in DOMAIN t /\ t[\h0a] = type
        BY TypeCell
    <2>2. \h0a \in Nat /\ \h0a < size
        OBVIOUS
    <2>3. At(p, \h0a) = t[\h0a]
        BY <2>1, <2>2, AtWritten
    <2> QED
        BY <2>1, <2>3
<1>4. \A c \in cells : \A i \in DOMAIN c : i \in Nat /\ i < size => At(p, i) = c[i]
    BY AtWritten
<1> QED
    BY <1>1, <1>2, <1>3, <1>4 DEF Reads

\* The constants that are bytes.
LEMMA Numbers ==
    ASSUME NEW n
    PROVE  /\ n \in TwoByte => n \in Nat /\ RoundedBpm(n) = n
           /\ n \in ThreeByte => n \in Nat
<1>1. n \in TwoByte => n \in Nat /\ RoundedBpm(n) = n
    BY SMT DEF TwoByte, RoundedBpm
<1>2. n \in ThreeByte => n \in Nat
    BY DEF ThreeByte
<1> QED
    BY <1>1, <1>2

\* A number of two bytes is its bytes' sum, and so is
LEMMA TwoNumber ==
    ASSUME NEW offset \in Nat, NEW n \in TwoByte
    PROVE  Two(Cells(offset, Bytes(n, 2)), offset, High(n), Low(n))
<1>1. n \in Nat
    BY Numbers
<1>2. Low(n) \in Byte /\ High(n) \in Byte
    BY <1>1, ByteCells
<1>3. Bytes(n, 2) = <<High(n), Low(n)>>
    BY <1>1, BytesTwo
<1> QED
    BY <1>2, <1>3, TwoIs

\* one of three bytes.
LEMMA ThreeNumber ==
    ASSUME NEW offset \in Nat, NEW n \in ThreeByte
    PROVE  Three(Cells(offset, Bytes(n, 3)), offset, Top(n), High(n), Low(n))
<1>1. n \in Nat
    BY Numbers
<1>2. Low(n) \in Byte /\ High(n) \in Byte /\ Top(n) \in Byte
    BY <1>1, ByteCells
<1>3. Bytes(n, 3) = <<Top(n), High(n), Low(n)>>
    BY <1>1, BytesThree
<1> QED
    BY <1>2, <1>3, ThreeIs

\* What the settled pitch and the widths of numbers are.
LEMMA Literals ==
    /\ 0 \in Byte /\ 1 \in Byte /\ 2 \in Byte /\ 3 \in Byte /\ 4 \in Byte /\ 5 \in Byte /\ 6 \in Byte /\ 8 \in Byte
    /\ 9 \in Byte /\ 10 \in Byte /\ \h0b \in Byte /\ \h19 \in Byte /\ \h26 \in Byte /\ \h28 \in Byte /\ \h29 \in Byte /\ \h2a \in Byte
    /\ \h32 \in Byte /\ \h34 \in Byte /\ \h3c \in Byte /\ \h40 \in Byte /\ \h64 \in Byte /\ 255 \in Byte
BY DEF Byte

\* A number written in two bytes is read back when it is below 2^16,
LEMMA ReadTwo ==
    ASSUME NEW p, p.size \in Nat, NEW o \in Nat, o + 2 <= p.size, NEW n \in TwoByte,
           At(p, o) = High(n), At(p, o + 1) = Low(n)
    PROVE  BytesToNumber(p, o, 2) = n
<1> DEFINE low(i) == IF i <= 2 THEN At(p, o + 2 - i) ELSE 0
<1>1. BytesToNumber(p, o, 2) = low(1) + 256 * low(2) + 65536 * low(3) + 16777216 * low(4)
    BY SMT DEF BytesToNumber
<1>2. low(1) = Low(n) /\ low(2) = High(n) /\ low(3) = 0 /\ low(4) = 0
    <2>1. o + 2 - 1 = o + 1 /\ o + 2 - 2 = o /\ 1 <= 2 /\ 2 <= 2 /\ ~(3 <= 2) /\ ~(4 <= 2)
        OBVIOUS
    <2> QED
        BY <2>1
<1> HIDE DEF low
<1>3. n \in Nat /\ Low(n) \in Nat /\ High(n) \in Nat /\ n = Low(n) + 256 * High(n)
    <2>1. n \in Nat
        BY Numbers
    <2>2. Low(n) \in Byte /\ High(n) \in Byte /\ n = Low(n) + 256 * High(n)
        BY <2>1, ByteCells
    <2>3. Byte \subseteq Nat
        BY DEF Byte
    <2> QED
        BY <2>1, <2>2, <2>3
<1>4. low(1) + 256 * low(2) + 65536 * low(3) + 16777216 * low(4) = Low(n) + 256 * High(n)
    BY <1>2, <1>3, SMT
<1> QED
    BY <1>1, <1>3, <1>4

\* and one written in three below 2^24.
LEMMA ReadThree ==
    ASSUME NEW p, p.size \in Nat, NEW o \in Nat, o + 3 <= p.size, NEW n \in ThreeByte,
           At(p, o) = Top(n), At(p, o + 1) = High(n), At(p, o + 2) = Low(n)
    PROVE  BytesToNumber(p, o, 3) = n
<1> DEFINE low(i) == IF i <= 3 THEN At(p, o + 3 - i) ELSE 0
<1>1. BytesToNumber(p, o, 3) = low(1) + 256 * low(2) + 65536 * low(3) + 16777216 * low(4)
    BY SMT DEF BytesToNumber
<1>2. low(1) = Low(n) /\ low(2) = High(n) /\ low(3) = Top(n) /\ low(4) = 0
    <2>1. o + 3 - 1 = o + 2 /\ o + 3 - 2 = o + 1 /\ o + 3 - 3 = o
          /\ 1 <= 3 /\ 2 <= 3 /\ 3 <= 3 /\ ~(4 <= 3)
        OBVIOUS
    <2> QED
        BY <2>1
<1> HIDE DEF low
<1>3. /\ n \in Nat /\ Low(n) \in Nat /\ High(n) \in Nat /\ Top(n) \in Nat
      /\ n = Low(n) + 256 * High(n) + 65536 * Top(n)
    <2>1. n \in Nat
        BY Numbers
    <2>2. Low(n) \in Byte /\ High(n) \in Byte /\ Top(n) \in Byte
        BY <2>1, ByteCells
    <2>3. Low(n) \in Nat /\ High(n) \in Nat /\ Top(n) \in Nat
        BY <2>2 DEF Byte
    <2>4. n = Low(n) + 256 * High(n) + 65536 * Top(n)
        BY <2>1, ByteCells
    <2> QED
        BY <2>1, <2>3, <2>4
<1>4. low(1) + 256 * low(2) + 65536 * low(3) + 16777216 * low(4) = Low(n) + 256 * High(n) + 65536 * Top(n)
    BY <1>2, <1>3, SMT
<1> QED
    BY <1>1, <1>3, <1>4

\* Four bytes are read one by one.
LEMMA ReadFour ==
    ASSUME NEW p, p.size \in Nat, NEW o \in Nat, o + 4 <= p.size, NEW s, s = [i \in 1..4 |-> s[i]],
           At(p, o) = s[1], At(p, o + 1) = s[2], At(p, o + 2) = s[3], At(p, o + 3) = s[4]
    PROVE  BytesAt(p, o, 4) = s
<1>1. BytesAt(p, o, 4) = [i \in 1..4 |-> At(p, o + i - 1)]
    BY DEF BytesAt
<1>2. ASSUME NEW i \in 1..4 PROVE At(p, o + i - 1) = s[i]
    <2>1. i = 1 \/ i = 2 \/ i = 3 \/ i = 4
        OBVIOUS
    <2>2. o + 1 - 1 = o /\ o + 2 - 1 = o + 1 /\ o + 3 - 1 = o + 2 /\ o + 4 - 1 = o + 3
        OBVIOUS
    <2> QED
        BY <2>1, <2>2
<1> QED
    BY <1>1, <1>2

\* A table tells a byte from its name, and a name from its byte.
LEMMA NameForRow ==
    ASSUME NEW table, NEW r \in table, \A q \in table : q[1] = r[1] => q = r
    PROVE  IsIn(table, r[1]) /\ NameFor(table, r[1]) = r[2]
BY DEF IsIn, NameFor

Table(t) ==
    /\ \A q, r \in t : q[1] = r[1] => q = r
    /\ \A r \in t : r[1] \in Byte /\ r[2] # "Unknown"

\* A value of a table that is written as its byte is read back as itself.
LEMMA TableTrip ==
    ASSUME NEW table, Table(table), NEW value \in Values(table)
    PROVE  /\ ToByte(table, value) \in Byte
           /\ FromByte(table, ToByte(table, value)) = value
<1>1. PICK row \in table : value = <<row[2]>>
    BY DEF Values
<1> DEFINE r == CHOOSE r \in table : r[2] = row[2]
<1>2. r \in table /\ r[2] = row[2]
    OBVIOUS
<1>3. ToByte(table, value) = r[1]
    <2>1. value[1] = row[2]
        BY <1>1
    <2> QED
        BY <1>1, <2>1 DEF ToByte, ByteFor, Table
<1> HIDE DEF r
<1>4. r[1] \in Byte /\ r[1] # Panic
    BY <1>2, NoBytePanics DEF Table
<1>5. IsIn(table, r[1]) /\ NameFor(table, r[1]) = r[2]
    BY <1>2, NameForRow DEF Table
<1>6. FromByte(table, r[1]) = <<r[2]>>
    BY <1>4, <1>5 DEF FromByte
<1> QED
    BY <1>1, <1>2, <1>3, <1>4, <1>6

\* The tables of device types, slots and track types are such tables.
LEMMA Tables == Table(DeviceType) /\ Table(TrackSourceSlot) /\ Table(TrackType)
<1>1. Table(DeviceType)
    BY DEF Table, DeviceType, Byte
<1>2. Table(TrackSourceSlot)
    BY DEF Table, TrackSourceSlot, Byte
<1>3. Table(TrackType)
    BY DEF Table, TrackType, Byte
<1> QED
    BY <1>1, <1>2, <1>3

\* The kinds of packets on each port.
LEMMA Types ==
    /\ PacketType(\h00) = "DeviceClaimStage1" /\ PacketType(\h02) = "DeviceClaimStage2"
    /\ PacketType(\h04) = "DeviceClaimStage3" /\ PacketType(\h06) = "DeviceKeepAlive"
    /\ PacketType(\h08) = "DeviceDefense" /\ PacketType(\h0a) = "DeviceHello"
    /\ PacketType(\h0b) = "PrecisePosition" /\ PacketType(\h03) = "OnAir"
    /\ PacketType(\h26) = "MasterHandoff" /\ PacketType(\h28) = "Beat"
    /\ PacketType(\h29) = "MixerStatus" /\ PacketType(\h2a) = "SyncControl"
    /\ PacketType(\h19) = "Unknown" /\ PacketType(\h34) = "Unknown" /\ PacketType(\h05) = "Unknown"
<1>1. \A q, r \in PacketTypes : q[1] = r[1] => q = r
    BY DEF PacketTypes
<1>2. \A r \in PacketTypes : PacketType(r[1]) = r[2]
    BY <1>1, NameForRow DEF PacketType
<1>3. /\ <<\h00, "DeviceClaimStage1">> \in PacketTypes /\ <<\h02, "DeviceClaimStage2">> \in PacketTypes
      /\ <<\h04, "DeviceClaimStage3">> \in PacketTypes /\ <<\h06, "DeviceKeepAlive">> \in PacketTypes
      /\ <<\h08, "DeviceDefense">> \in PacketTypes /\ <<\h0a, "DeviceHello">> \in PacketTypes
      /\ <<\h0b, "PrecisePosition">> \in PacketTypes /\ <<\h03, "OnAir">> \in PacketTypes
      /\ <<\h26, "MasterHandoff">> \in PacketTypes /\ <<\h28, "Beat">> \in PacketTypes
      /\ <<\h29, "MixerStatus">> \in PacketTypes /\ <<\h2a, "SyncControl">> \in PacketTypes
    BY DEF PacketTypes
<1>4. ~IsIn(PacketTypes, \h19) /\ ~IsIn(PacketTypes, \h34) /\ ~IsIn(PacketTypes, \h05)
    BY DEF IsIn, PacketTypes
<1>5. PacketType(\h19) = "Unknown" /\ PacketType(\h34) = "Unknown" /\ PacketType(\h05) = "Unknown"
    BY <1>4 DEF PacketType
<1>6. \A a, b : <<a, b>>[1] = a /\ <<a, b>>[2] = b
    OBVIOUS
<1>7. \A a, b : <<a, b>> \in PacketTypes => PacketType(a) = b
    BY <1>2, <1>6
<1> QED
    BY <1>3, <1>5, <1>7

\* What the assumptions say of the constants, in the terms used here.
LEMMA Given ==
    /\ MyName \subseteq Name /\ CommandName \in Name /\ OpusQuadName \in Name /\ XdjNames \subseteq Name
    /\ Me \in Byte /\ Player \in Byte /\ Mixer \in Byte
    /\ Tempo \subseteq TwoByte /\ PitchNormal \in ThreeByte /\ NoHandOff \in Byte
    /\ \A n \in Name : Cut[n] \in Name
<1>1. MyName \subseteq Name /\ CommandName \in Name /\ OpusQuadName \in Name /\ XdjNames \subseteq Name
    <2>1. MyName \subseteq Name
        BY DatagramsAssumption
    <2> QED
        BY <2>1, BytesAssumption
<1>2. Me \in Byte /\ Player \in Byte /\ Mixer \in Byte
    BY DatagramsAssumption
<1>3. Tempo \subseteq TwoByte
    BY DatagramsAssumption DEF TwoByte
<1>4. PitchNormal \in ThreeByte
    BY SMT DEF PitchNormal, ThreeByte
<1>5. NoHandOff \in Byte
    BY DEF NoHandOff, Byte
<1>6. \A n \in Name : Cut[n] \in Name
    BY BytesAssumption
<1> QED
    BY <1>1, <1>2, <1>3, <1>4, <1>5, <1>6

-----------------------------------------------------------------------------
(* What listeners make of a packet *)

\* The listener that tells the subscribers of a stream.
Owner(stream) ==
    CASE stream \in {"found", "defense", "claim"} -> "finder"
      [] stream \in {"beat", "precise", "on_air", "sync", "handoff", "fader_start"} -> "beats"
      [] stream = "command" -> "commands"
      [] stream = "media" -> "app"
      [] stream = "settings" -> "player"
      [] OTHER -> "status"

\* The stream and the events of what a listener tells of a packet.
Outcome(l, p) ==
    CASE l = "finder" -> FinderStream(p)
      [] l = "beats"  -> BeatStream(p)
      [] l = "commands" -> <<"command", TryParseCommand(p)>>
      [] l = "app"    -> <<"media", ParseMediaDetails(p)>>
      [] l = "player" -> <<"settings", ReadSettings(p)>>
      [] OTHER        -> <<"status", ParseStatus(p)>>

Silent(l, p) == Outcome(l, p)[2] = <<>>

IsSequence(s) == \E S : s \in Seq(S)

\* It tells the events on the stream, and as they were meant.
Tells(l, p, stream, events) ==
    IF events = <<>> THEN Silent(l, p)
    ELSE /\ Outcome(l, p)[1] = stream
         /\ IsSequence(Outcome(l, p)[2]) /\ Len(Outcome(l, p)[2]) = Len(events)
         /\ \A k \in 1..Len(events) : Agrees(Outcome(l, p)[2][k], events[k])

\* Whoever has a packet to come tells of it what its sender means: the owner of the
\* stream the events, and the others nothing.
Meant(to, p, stream, events) ==
    /\ IsPacket(p) /\ stream \in Stream /\ IsSequence(events)
    /\ "app" \in to /\ \h7c \in DOMAIN p.at => p.at[\h7c] \in Byte
    /\ "player" \in to => p.size > \h37
    /\ \A l \in to : IF l = Owner(stream) THEN Tells(l, p, stream, events) ELSE Silent(l, p)

\* So it is of a packet that is sent, and events are sent to the owner of their stream.
Sound(to, p, stream, events) ==
    Meant(to, p, stream, events) /\ (events # <<>> => Owner(stream) \in to)

\* Each stream has one listener that tells it.
LEMMA Owners ==
    /\ Owner("found") = "finder" /\ Owner("defense") = "finder" /\ Owner("claim") = "finder"
    /\ Owner("beat") = "beats" /\ Owner("precise") = "beats" /\ Owner("on_air") = "beats"
    /\ Owner("sync") = "beats" /\ Owner("handoff") = "beats" /\ Owner("fader_start") = "beats"
    /\ Owner("command") = "commands" /\ Owner("media") = "app" /\ Owner("settings") = "player"
    /\ Owner("status") = "status"
BY DEF Owner

\* What each listener makes of a packet.
LEMMA Outcomes ==
    ASSUME NEW p
    PROVE  /\ Outcome("finder", p) = FinderStream(p) /\ Outcome("beats", p) = BeatStream(p)
           /\ Outcome("commands", p) = <<"command", TryParseCommand(p)>>
           /\ Outcome("app", p) = <<"media", ParseMediaDetails(p)>>
           /\ Outcome("player", p) = <<"settings", ReadSettings(p)>>
           /\ Outcome("status", p) = <<"status", ParseStatus(p)>>
BY DEF Outcome

\* Who listens to a port.
LEMMA Listeners ==
    /\ Listens(DiscoveryPort) = {"finder"} /\ Listens(BeatPort) = {"beats"}
    /\ Listens(StatusPort) = {"status", "commands"}
BY DEF Listens, DiscoveryPort, BeatPort, StatusPort

\* One event that agrees with what was meant is told.
LEMMA TellsOne ==
    ASSUME NEW l, NEW p, NEW stream, NEW e, NEW meant, Outcome(l, p) = <<stream, <<e>> >>, Agrees(e, meant)
    PROVE  Tells(l, p, stream, <<meant>>) /\ IsSequence(<<meant>>) /\ <<meant>> # <<>>
<1> DEFINE s == <<e>>
           m == <<meant>>
<1>1. s \in Seq({e}) /\ Len(s) = 1 /\ s[1] = e
    OBVIOUS
<1>2. m \in Seq({meant}) /\ Len(m) = 1 /\ m[1] = meant /\ m # <<>>
    OBVIOUS
<1> HIDE DEF s, m
<1>3. Outcome(l, p)[1] = stream /\ Outcome(l, p)[2] = s
    BY DEF s
<1>4. IsSequence(s) /\ IsSequence(m)
    BY <1>1, <1>2 DEF IsSequence
<1>5. \A k \in 1..1 : Agrees(s[k], m[k])
    BY <1>1, <1>2
<1>6. Tells(l, p, stream, m)
    BY <1>1, <1>2, <1>3, <1>4, <1>5 DEF Tells
<1> QED
    BY <1>2, <1>4, <1>6 DEF m

\* Four bytes read are a sequence of four.
LEMMA FourBytesAre ==
    /\ FourBytes = [i \in 1..4 |-> FourBytes[i]]
    /\ FourBytes[1] = 255 /\ FourBytes[2] = 255 /\ FourBytes[3] = 255 /\ FourBytes[4] = 255
BY DEF FourBytes

-----------------------------------------------------------------------------
(* The beat *)

\* A beat packet is parsed as a beat.
LEMMA BeatParsed ==
    ASSUME NEW p, ParseHeader(p) = "Beat", p.size \in Nat, p.size >= \h60
    PROVE  \E e : /\ ParseBeat(p) = <<e>>
                  /\ DOMAIN e = {"name", "device_number", "device_type", "pitch", "bpm",
                                 "beat_within_bar", "timing"}
                  /\ e.name = ReadDeviceName(p, \h0b) /\ e.device_number = At(p, \h21)
                  /\ e.device_type = FromByte(DeviceType, At(p, \h23))
                  /\ e.pitch = BytesToNumber(p, \h55, 3) /\ e.bpm = BytesToNumber(p, \h5a, 2)
                  /\ e.beat_within_bar = At(p, \h5c)
                  /\ e.timing = [i \in 1..6 |-> Unless(FourBytes, BytesAt(p, \h24 + 4 * (i - 1), 4))]
<1> DEFINE e == ParseBeat(p)[1]
<1>1. /\ ParseBeat(p) = <<e>>
      /\ DOMAIN e = {"name", "device_number", "device_type", "pitch", "bpm",
                     "beat_within_bar", "timing"}
      /\ e.name = ReadDeviceName(p, \h0b) /\ e.device_number = At(p, \h21)
      /\ e.device_type = FromByte(DeviceType, At(p, \h23))
      /\ e.pitch = BytesToNumber(p, \h55, 3) /\ e.bpm = BytesToNumber(p, \h5a, 2)
      /\ e.beat_within_bar = At(p, \h5c)
      /\ e.timing = [i \in 1..6 |-> Unless(FourBytes, BytesAt(p, \h24 + 4 * (i - 1), 4))]
    BY DEF ParseBeat, BeatPacketLength, NameOffset, DeviceNumberOffset, DeviceTypeOffset
<1> HIDE DEF e
<1> QED
    BY <1>1

\* A beat that was built is told with its tempo, pitch and place in the bar.
LEMMA BeatHeard ==
    ASSUME NEW name \in Name, NEW device \in Byte, NEW bpm \in TwoByte, NEW pitch \in ThreeByte,
           NEW bar \in Byte
    PROVE  /\ IsPacket(BuildBeat(name, device, bpm, pitch, bar))
           /\ \E e : /\ BeatStream(BuildBeat(name, device, bpm, pitch, bar)) = <<"beat", <<e>> >>
                     /\ DOMAIN e = {"name", "device_number", "device_type", "pitch", "bpm",
                                    "beat_within_bar", "timing"}
                     /\ e.name = Cut[name] /\ e.device_number = device /\ e.bpm = bpm
                     /\ e.pitch = pitch /\ e.beat_within_bar = bar
                     /\ e.timing = [i \in 1..6 |-> None]
<1> DEFINE c0 == Cells(\h0a, <<\h28>>)
           c1 == Cells(\h0b, <<Cut[name]>>)
           c2 == Cells(\h1f, <<1>>)
           c3 == Cells(\h21, <<device, 0, \h3c>>)
           c4 == Cells(\h24, [i \in 1..24 |-> 255])
           c5 == Cells(\h55, Bytes(pitch, 3))
           c6 == Cells(\h5a, Bytes(bpm, 2))
           c7 == Cells(\h5c, <<bar>>)
           cells == {c1, c2, c3, c4, c5, c6, c7}
           p == BuildBeat(name, device, bpm, pitch, bar)
<1>1. One(c0, \h0a, \h28) /\ One(c2, \h1f, 1) /\ One(c7, \h5c, bar)
    BY OneIs, Literals
<1>2. One(c1, \h0b, Cut[name])
    BY NameIs, BytesAssumption
<1>3. Three(c3, \h21, device, 0, \h3c)
    BY ThreeIs, Literals
<1>4. Three(c5, \h55, Top(pitch), High(pitch), Low(pitch)) /\ Two(c6, \h5a, High(bpm), Low(bpm))
    BY ThreeNumber, TwoNumber
<1>5. DOMAIN c4 = \h24..\h3b /\ \A i \in \h24..\h3b : c4[i] = 255
    BY DEF Cells
<1>6. p = Packet(\h60, \h28, cells)
    BY Numbers DEF BuildBeat, BeatPacketLength, NameOffset, DeviceNumberOffset
<1> HIDE DEF c0, c1, c2, c3, c4, c5, c6, c7, p
<1>7. Apart(cells \union {c0})
    BY <1>1, <1>2, <1>3, <1>4, <1>5 DEF Apart, One, Two, Three
<1>8. GoodCell(c4)
    BY <1>5, Literals DEF GoodCell, IsCell
<1>9. \A c \in cells : GoodCell(c)
    BY <1>1, <1>2, <1>3, <1>4, <1>8 DEF One, Two, Three
<1>10. IsPacket(p) /\ Reads(p, \h60, \h28, cells)
    BY <1>6, <1>7, <1>9, Built, Literals DEF c0
<1>11. \A c \in cells : \A i \in DOMAIN c : i \in Nat /\ i < \h60 => At(p, i) = c[i]
    BY <1>10 DEF Reads
<1>12. p.size = \h60 /\ p.magic = TRUE /\ At(p, \h0a) = \h28
    BY <1>10 DEF Reads
<1>13. At(p, \h0b) = Cut[name] /\ At(p, \h21) = device /\ At(p, \h5c) = bar
    BY <1>1, <1>2, <1>3, <1>11 DEF One, Three
<1>14. At(p, \h55) = Top(pitch) /\ At(p, \h56) = High(pitch) /\ At(p, \h57) = Low(pitch)
    BY <1>4, <1>11 DEF Three
<1>15. At(p, \h5a) = High(bpm) /\ At(p, \h5b) = Low(bpm)
    BY <1>4, <1>11 DEF Two
<1>16. \A i \in \h24..\h3b : At(p, i) = 255
    BY <1>5, <1>11
<1>18. ParseHeader(p) = "Beat" /\ ParseHeaderOnPort(p, BeatPort) = "Beat"
    BY <1>10, <1>12, <1>13, <1>14, <1>15, <1>16, Types DEF ParseHeader, ParseHeaderOnPort, PacketTypeOnPort, MinPacketSize, BeatPort, StatusPort
<1>19. BeatStream(p) = <<"beat", ParseBeat(p)>>
    BY <1>18 DEF BeatStream
<1>20. PICK e : /\ ParseBeat(p) = <<e>>
               /\ DOMAIN e = {"name", "device_number", "device_type", "pitch", "bpm",
                              "beat_within_bar", "timing"}
               /\ e.name = ReadDeviceName(p, \h0b) /\ e.device_number = At(p, \h21)
               /\ e.device_type = FromByte(DeviceType, At(p, \h23))
               /\ e.pitch = BytesToNumber(p, \h55, 3) /\ e.bpm = BytesToNumber(p, \h5a, 2)
               /\ e.beat_within_bar = At(p, \h5c)
               /\ e.timing = [i \in 1..6 |-> Unless(FourBytes, BytesAt(p, \h24 + 4 * (i - 1), 4))]
    BY <1>10, <1>12, <1>13, <1>14, <1>15, <1>16, <1>18, BeatParsed
<1>21. e.pitch = pitch
    BY <1>10, <1>12, <1>13, <1>14, <1>15, <1>16, <1>20, ReadThree
<1>22. e.bpm = bpm
    BY <1>10, <1>12, <1>13, <1>14, <1>15, <1>16, <1>20, ReadTwo
<1>23. e.name = Cut[name]
    BY <1>10, <1>12, <1>13, <1>14, <1>15, <1>16, <1>20 DEF ReadDeviceName
<1>24. e.timing = [i \in 1..6 |-> None]
    <2>1. ASSUME NEW i \in 1..6 PROVE Unless(FourBytes, BytesAt(p, \h24 + 4 * (i - 1), 4)) = None
        <3> DEFINE o == \h24 + 4 * (i - 1)
        <3>1. o \in Nat /\ o + 4 <= p.size /\ o >= \h24 /\ o + 3 <= \h3b
            BY <1>12
        <3> HIDE DEF o
        <3>2. At(p, o) = 255 /\ At(p, o + 1) = 255 /\ At(p, o + 2) = 255 /\ At(p, o + 3) = 255
            BY <1>10, <1>12, <1>13, <1>14, <1>15, <1>16, <3>1
        <3>3. BytesAt(p, o, 4) = FourBytes
            BY <1>10, <1>12, <1>13, <1>14, <1>15, <1>16, <3>1, <3>2, ReadFour, FourBytesAre
        <3> QED
            BY <3>3 DEF Unless, o
    <2> QED
        BY <1>20, <2>1
<1>25. BeatStream(p) = <<"beat", <<e>> >>
    BY <1>19, <1>20
<1>26. /\ DOMAIN e = {"name", "device_number", "device_type", "pitch", "bpm", "beat_within_bar", "timing"}
       /\ e.device_number = device /\ e.beat_within_bar = bar
    BY <1>13, <1>20
<1> QED
    BY <1>10, <1>21, <1>22, <1>23, <1>24, <1>25, <1>26 DEF p

\* What the crate works out of the events: whether a player plays, which deck of an Opus
\* Quad a number is, which medium it was told of.
PlayingAgrees(s) ==
    s.kind = "Cdj" =>
       /\ IsPlaying(s) = (s.play_state = <<"Playing">>)
       /\ IsPlaying(s) = IsPlaying([s EXCEPT !.packet_length = MinCdjStatusLen])
       /\ IsPlaying(s) = IsPlayingForwards(s) /\ ~IsPlayingBackwards(s)

FourDecks(p, events) ==
    At(p, \h24) \in OpusRaw /\ events = [i \in 1..4 |-> [number |-> i, name |-> OpusQuadName]]

KeyOf(tracks) == << <<77, 88>>, tracks, 1, <<0, 0, 0, 1, 0, 0, 0, 0>>, <<0, 0, 0, 0, 0, 0, 0, 0>> >>

Implied(p, stream, events) ==
    /\ stream = "status" => \A k \in DOMAIN ParseStatus(p) : PlayingAgrees(ParseStatus(p)[k])
    /\ stream = "found" => \A k \in DOMAIN FinderStream(p)[2] :
                              FinderStream(p)[2][k].opus_quad => FourDecks(p, events)
    /\ stream = "media" => \A k \in DOMAIN ParseMediaDetails(p) :
                              HashKey(ParseMediaDetails(p)[k]) = KeyOf(events[1].track_count)

\* Of other streams nothing is worked out.
LEMMA Unimplied ==
    ASSUME NEW p, NEW stream, stream \notin {"status", "found", "media"}, NEW events
    PROVE  Implied(p, stream, events)
BY DEF Implied

\* What is worked out of one status, or of none.
LEMMA StatusImplies ==
    ASSUME NEW p, NEW events, ParseStatus(p) = <<>> \/ \E e : ParseStatus(p) = <<e>> /\ PlayingAgrees(e)
    PROVE  Implied(p, "status", events)
<1>1. CASE ParseStatus(p) = <<>>
    BY <1>1 DEF Implied
<1>2. CASE \E e : ParseStatus(p) = <<e>> /\ PlayingAgrees(e)
    <2>1. PICK e : ParseStatus(p) = <<e>> /\ PlayingAgrees(e)
        BY <1>2
    <2> DEFINE told == <<e>>
    <2>2. DOMAIN told = {1} /\ told[1] = e
        OBVIOUS
    <2> HIDE DEF told
    <2>3. ParseStatus(p) = told
        BY <2>1 DEF told
    <2> QED
        BY <2>1, <2>2, <2>3 DEF Implied
<1> QED
    BY <1>1, <1>2

\* A device that is no Opus Quad.
LEMMA FoundImplies ==
    ASSUME NEW p, NEW events, NEW e, FinderStream(p) = <<"found", <<e>> >>, ~e.opus_quad
    PROVE  Implied(p, "found", events)
<1> DEFINE told == <<e>>
<1>1. DOMAIN told = {1} /\ told[1] = e
    OBVIOUS
<1> HIDE DEF told
<1>2. FinderStream(p)[2] = told
    BY DEF told
<1> QED
    BY <1>1, <1>2 DEF Implied

\* An operation sends a packet that is sound and of which what is worked out is right.
Sends ==
    \E port, to, p, stream, events :
       Emit(port, to, p, stream, events) /\ Sound(to, p, stream, events) /\ Implied(p, stream, events)

\* send_beat
LEMMA SendBeatSound == ASSUME SendBeat PROVE Sends
<1>1. PICK name \in MyName, bpm \in Tempo, bar \in {1, 4} :
         Broadcast(BeatPort, BuildBeat(name, Me, bpm, PitchNormal, bar), "beat",
            <<[name |-> Cut[name], device_number |-> Me, bpm |-> bpm, pitch |-> PitchNormal,
               beat_within_bar |-> bar, timing |-> [i \in 1..6 |-> None]]>>)
    BY DEF SendBeat
<1> DEFINE p == BuildBeat(name, Me, bpm, PitchNormal, bar)
           meant == [name |-> Cut[name], device_number |-> Me, bpm |-> bpm, pitch |-> PitchNormal,
                     beat_within_bar |-> bar, timing |-> [i \in 1..6 |-> None]]
<1>2. name \in Name /\ Me \in Byte /\ bpm \in TwoByte /\ PitchNormal \in ThreeByte /\ bar \in Byte
    BY Given, Literals
<1>3. PICK e : /\ BeatStream(p) = <<"beat", <<e>> >>
               /\ DOMAIN e = {"name", "device_number", "device_type", "pitch", "bpm",
                              "beat_within_bar", "timing"}
               /\ e.name = Cut[name] /\ e.device_number = Me /\ e.bpm = bpm
               /\ e.pitch = PitchNormal /\ e.beat_within_bar = bar /\ e.timing = [i \in 1..6 |-> None]
    BY <1>2, BeatHeard
<1>4. IsPacket(p)
    BY <1>2, BeatHeard
<1>5. Agrees(e, meant)
    BY <1>3 DEF Agrees
<1> HIDE DEF p, meant
<1>6. Emit(BeatPort, {"beats"}, p, "beat", <<meant>>)
    BY <1>1, Listeners DEF Broadcast, p, meant
<1>7. Sound({"beats"}, p, "beat", <<meant>>)
    <2>1. Tells("beats", p, "beat", <<meant>>) /\ IsSequence(<<meant>>)
        BY <1>3, <1>5, Outcomes, TellsOne
    <2> QED
        BY <1>4, <2>1, Owners DEF Sound, Meant, Stream
<1> QED
    BY <1>6, <1>7, Unimplied DEF Sends

\* Several cells that were written are read back, and
LEMMA ReadMany ==
    ASSUME NEW p, p.size \in Nat, NEW o \in Nat, NEW n \in Nat, o + n <= p.size,
           NEW s \in [1..n -> Byte], \A k \in 1..n : At(p, o + k - 1) = s[k]
    PROVE  BytesAt(p, o, n) = s
<1>1. BytesAt(p, o, n) = [i \in 1..n |-> At(p, o + i - 1)]
    BY DEF BytesAt
<1> QED
    BY <1>1

\* A sequence of bytes as a cell.
Many(c, offset, s, n) ==
    /\ GoodCell(c) /\ DOMAIN c = offset..(offset + n - 1)
    /\ \A k \in 1..n : c[offset + k - 1] = s[k]

\* each is where it was written.
LEMMA ManyIs ==
    ASSUME NEW offset \in Nat, NEW n \in Nat, NEW s, s \in [1..n -> Byte]
    PROVE  Many(Cells(offset, s), offset, s, n)
<1>1. s \in Seq(Byte) /\ Len(s) = n /\ DOMAIN s = 1..n /\ \A k \in 1..n : s[k] \in Byte
    OBVIOUS
<1>2. GoodCell(Cells(offset, s))
    BY <1>1, GoodMany
<1>3. /\ Spans(Cells(offset, s), offset, n)
      /\ \A k \in 1..n : Cells(offset, s)[offset + k - 1] = s[k]
    BY <1>1, CellsOf
<1> QED
    BY <1>2, <1>3 DEF Many, Spans

\* The addresses of the virtual CDJ, written and read.
LEMMA AddressIs ==
    ASSUME NEW offset \in Nat
    PROVE  Many(Cells(offset, MyMac), offset, MyMac, 6) /\ Many(Cells(offset, MyIp), offset, MyIp, 4)
<1> DEFINE m == 6
           n == 4
<1>1. m \in Nat /\ n \in Nat /\ MyMac \in [1..m -> Byte] /\ MyIp \in [1..n -> Byte]
    BY DatagramsAssumption
<1> HIDE DEF m, n
<1>2. Many(Cells(offset, MyMac), offset, MyMac, m)
    BY <1>1, ManyIs
<1>3. Many(Cells(offset, MyIp), offset, MyIp, n)
    BY <1>1, ManyIs
<1> QED
    BY <1>2, <1>3 DEF m, n

\* An address is read back as it was written.
LEMMA ReadAddress ==
    ASSUME NEW p, p.size \in Nat, NEW o \in Nat
    PROVE  /\ o + 6 <= p.size /\ (\A k \in 1..6 : At(p, o + k - 1) = MyMac[k]) => BytesAt(p, o, 6) = MyMac
           /\ o + 4 <= p.size /\ (\A k \in 1..4 : At(p, o + k - 1) = MyIp[k]) => BytesAt(p, o, 4) = MyIp
<1> DEFINE m == 6
           n == 4
<1>1. m \in Nat /\ n \in Nat /\ MyMac \in [1..m -> Byte] /\ MyIp \in [1..n -> Byte]
    BY DatagramsAssumption
<1> HIDE DEF m, n
<1>2. ASSUME o + m <= p.size, \A k \in 1..m : At(p, o + k - 1) = MyMac[k]
      PROVE  BytesAt(p, o, m) = MyMac
    BY <1>1, <1>2, ReadMany
<1>3. ASSUME o + n <= p.size, \A k \in 1..n : At(p, o + k - 1) = MyIp[k]
      PROVE  BytesAt(p, o, n) = MyIp
    BY <1>1, <1>3, ReadMany
<1> QED
    BY <1>2, <1>3 DEF m, n

\* The cells beyond the prefix.
Beyond(cells) == \A c \in cells : GoodCell(c) /\ \A i \in DOMAIN c : i \in Nat /\ i >= \h24

\* An announcement: its prefix and the cells beyond it.
LEMMA Announced ==
    ASSUME NEW name \in Name, NEW structure \in Byte, NEW size \in TwoByte, size >= \h24,
           NEW type \in Byte, NEW cells, Beyond(cells), Apart(cells)
    PROVE  /\ IsPacket(Packet(size, type, Prefix(name, structure, size) \union cells))
           /\ Reads(Packet(size, type, Prefix(name, structure, size) \union cells), size, type, cells)
           /\ At(Packet(size, type, Prefix(name, structure, size) \union cells), \h0c) = Cut[name]
<1> DEFINE c0 == Cells(\h0a, <<type>>)
           c1 == Cells(\h0c, <<Cut[name]>>)
           c2 == Cells(\h20, <<1, structure>>)
           c3 == Cells(\h22, Bytes(size, 2))
           all == Prefix(name, structure, size) \union cells
           p == Packet(size, type, all)
<1>1. One(c0, \h0a, type)
    BY OneIs, Literals
<1>2. One(c1, \h0c, Cut[name])
    BY NameIs, BytesAssumption
<1>3. Two(c2, \h20, 1, structure) /\ Two(c3, \h22, High(size), Low(size))
    BY TwoIs, TwoNumber, Literals
<1>4. Prefix(name, structure, size) = {c1, c2, c3}
    BY DEF Prefix, AnnouncedNameOffset
<1>5. size \in Nat
    BY Numbers
<1> HIDE DEF c0, c1, c2, c3
<1>6. Apart({c1, c2, c3} \union {c0})
    BY <1>1, <1>2, <1>3 DEF Apart, One, Two
<1>7. \A c \in {c1, c2, c3, c0} : \A i \in DOMAIN c : i < \h24
    BY <1>1, <1>2, <1>3 DEF One, Two
<1>8. Apart(all \union {c0})
    BY <1>4, <1>6, <1>7 DEF Apart, Beyond
<1>9. \A c \in all : GoodCell(c)
    BY <1>1, <1>2, <1>3, <1>4 DEF One, Two, Beyond
<1>10. IsPacket(p) /\ Reads(p, size, type, all)
    BY <1>5, <1>8, <1>9, Built DEF c0
<1>11. Reads(p, size, type, cells)
    BY <1>10 DEF Reads
<1>12. At(p, \h0c) = c1[\h0c]
    BY <1>2, <1>4, <1>5, <1>10 DEF Reads, One
<1> QED
    BY <1>2, <1>10, <1>11, <1>12 DEF One

Announces(e, name, number, type) ==
    /\ DOMAIN e = {"name", "number", "device_type", "mac_address", "ip_address",
                   "peer_count", "opus_quad", "xdj_az", "library_plus"}
    /\ e.name = Cut[name] /\ e.number = number /\ e.device_type = type
    /\ e.mac_address = MyMac /\ e.ip_address = MyIp /\ e.library_plus = FALSE
    /\ e.opus_quad = (Cut[name] = OpusQuadName)

\* A keep-alive that was built is told as the device it announces.
LEMMA KeepAliveHeard ==
    ASSUME NEW name \in Name, NEW number \in Byte, NEW type \in Values(DeviceType)
    PROVE  /\ IsPacket(BuildKeepAlive(name, number, MyMac, MyIp, type))
           /\ At(BuildKeepAlive(name, number, MyMac, MyIp, type), \h24) = number
           /\ \E e : /\ FinderStream(BuildKeepAlive(name, number, MyMac, MyIp, type))
                          = <<"found", ExpandOpusQuad(e)>>
                     /\ Announces(e, name, number, type)
<1> DEFINE byte == ToByte(DeviceType, type)
           c1 == Cells(\h24, <<number, byte>>)
           c2 == Cells(\h26, MyMac)
           c3 == Cells(\h2c, MyIp)
           c4 == Cells(\h34, <<byte, \h64>>)
           cells == {c1, c2, c3, c4}
           p == BuildKeepAlive(name, number, MyMac, MyIp, type)
<1>1. byte \in Byte /\ FromByte(DeviceType, byte) = type
    BY Tables, TableTrip
<1>2. p = Packet(\h36, \h06, Prefix(name, 2, \h36) \union cells)
    BY DEF BuildKeepAlive
<1> HIDE DEF byte, p
<1>3. Two(c1, \h24, number, byte) /\ Two(c4, \h34, byte, \h64)
    BY <1>1, TwoIs, Literals
<1>4. Many(c2, \h26, MyMac, 6) /\ Many(c3, \h2c, MyIp, 4)
    BY AddressIs
<1> HIDE DEF c1, c2, c3, c4
<1>5. Apart(cells) /\ Beyond(cells)
    BY <1>3, <1>4 DEF Apart, Beyond, Two, Many
<1>6. \h36 \in TwoByte /\ \h36 >= \h24
    BY DEF TwoByte
<1>7. IsPacket(p) /\ Reads(p, \h36, \h06, cells) /\ At(p, \h0c) = Cut[name]
    <2> DEFINE q == Packet(\h36, \h06, Prefix(name, 2, \h36) \union cells)
    <2>1. 2 \in Byte /\ \h06 \in Byte
        BY Literals
    <2> HIDE DEF cells
    <2>2. IsPacket(q) /\ Reads(q, \h36, \h06, cells) /\ At(q, \h0c) = Cut[name]
        BY <1>5, <1>6, <2>1, Announced
    <2> QED
        BY <1>2, <2>2
<1>8. /\ p.size = \h36 /\ p.magic = TRUE /\ At(p, \h0a) = \h06
      /\ \A c \in cells : \A i \in DOMAIN c : i \in Nat /\ i < \h36 => At(p, i) = c[i]
    BY <1>7 DEF Reads
<1>9. At(p, \h24) = number /\ At(p, \h25) = byte
    BY <1>3, <1>8 DEF Two
<1>10. BytesAt(p, \h26, 6) = MyMac
    <2>1. \A k \in 1..6 : At(p, \h26 + k - 1) = MyMac[k]
        BY <1>4, <1>8 DEF Many
    <2> QED
        BY <1>8, <2>1, ReadAddress
<1>11. BytesAt(p, \h2c, 4) = MyIp
    <2>1. \A k \in 1..4 : At(p, \h2c + k - 1) = MyIp[k]
        BY <1>4, <1>8 DEF Many
    <2> QED
        BY <1>8, <2>1, ReadAddress
<1>12. ParseHeader(p) = "DeviceKeepAlive"
    BY <1>8, Types DEF ParseHeader, MinPacketSize
<1> DEFINE e == ParseKeepAlive(p)[1]
<1>13. /\ ParseKeepAlive(p) = <<e>>
       /\ DOMAIN e = {"name", "number", "device_type", "mac_address", "ip_address",
                      "peer_count", "opus_quad", "xdj_az", "library_plus"}
       /\ e.name = ReadDeviceName(p, \h0c) /\ e.number = At(p, \h24)
       /\ e.device_type = FromByte(DeviceType, At(p, \h25))
       /\ e.mac_address = BytesAt(p, \h26, 6) /\ e.ip_address = BytesAt(p, \h2c, 4)
       /\ e.opus_quad = (ReadDeviceName(p, \h0c) = OpusQuadName)
       /\ e.library_plus = (p.size > \h36 /\ NonZero(At(p, \h36)))
    BY <1>8, <1>12 DEF ParseKeepAlive, KeepAliveMinSize, AnnouncedNameOffset, DeviceLibraryPlusOffset
<1> HIDE DEF e
<1>14. FinderStream(p) = <<"found", ExpandOpusQuad(e)>>
    BY <1>12, <1>13 DEF FinderStream
<1>15. ReadDeviceName(p, \h0c) = Cut[name]
    BY <1>7, <1>8 DEF ReadDeviceName
<1>16. e.library_plus = FALSE
    <2>1. ~(p.size > \h36)
        BY <1>8
    <2> QED
        BY <1>13, <2>1
<1>17. e.opus_quad = (Cut[name] = OpusQuadName) /\ e.name = Cut[name]
    BY <1>13, <1>15
<1>18. e.number = number /\ e.device_type = type /\ e.mac_address = MyMac /\ e.ip_address = MyIp
    BY <1>1, <1>9, <1>10, <1>11, <1>13
<1>19. Announces(e, name, number, type)
    BY <1>13, <1>16, <1>17, <1>18 DEF Announces
<1> QED
    BY <1>7, <1>9, <1>14, <1>19 DEF p

\* One event, or none, and who hears it.
LEMMA HeardOne ==
    ASSUME NEW to, NEW p, NEW stream \in Stream, NEW e, NEW meant, IsPacket(p), "app" \notin to,
           "player" \in to => p.size > \h37, Owner(stream) \in to,
           Outcome(Owner(stream), p) = <<stream, <<e>> >>, Agrees(e, meant),
           \A l \in to : l = Owner(stream) \/ Silent(l, p)
    PROVE  Sound(to, p, stream, <<meant>>)
<1>1. Tells(Owner(stream), p, stream, <<meant>>) /\ IsSequence(<<meant>>)
    BY TellsOne
<1> QED
    BY <1>1 DEF Sound, Meant

\* A packet that its listeners make nothing of.
LEMMA Unheard ==
    ASSUME NEW to, NEW p, NEW stream \in Stream, IsPacket(p), to \intersect {"app", "player"} = {},
           \A l \in to : Silent(l, p)
    PROVE  Sound(to, p, stream, <<>>)
<1>1. <<>> \in Seq({})
    OBVIOUS
<1>2. IsSequence(<<>>)
    BY <1>1 DEF IsSequence
<1>3. \A l \in to : Tells(l, p, stream, <<>>)
    BY DEF Tells
<1> QED
    BY <1>2, <1>3 DEF Sound, Meant

\* Announcing oneself
LEMMA SendKeepAliveSound == ASSUME SendKeepAlive PROVE Sends
<1>1. PICK name \in MyName :
         Broadcast(DiscoveryPort, BuildKeepAlive(name, Me, MyMac, MyIp, <<"Cdj">>), "found",
            <<[name |-> Cut[name], number |-> Me, device_type |-> <<"Cdj">>,
               mac_address |-> MyMac, ip_address |-> MyIp, library_plus |-> FALSE]>>)
    BY DEF SendKeepAlive
<1> DEFINE type == <<"Cdj">>
           p == BuildKeepAlive(name, Me, MyMac, MyIp, type)
           meant == [name |-> Cut[name], number |-> Me, device_type |-> type,
                     mac_address |-> MyMac, ip_address |-> MyIp, library_plus |-> FALSE]
<1>2. name \in Name /\ Me \in Byte /\ Cut[name] # OpusQuadName
    BY Given, DatagramsAssumption
<1>3. type \in Values(DeviceType)
    BY DEF Values, DeviceType
<1>4. Emit(DiscoveryPort, {"finder"}, p, "found", <<meant>>)
    BY <1>1, Listeners DEF Broadcast
<1> HIDE DEF type
<1>5. IsPacket(p)
    BY <1>2, <1>3, KeepAliveHeard
<1>6. PICK e : /\ FinderStream(p) = <<"found", ExpandOpusQuad(e)>>
               /\ Announces(e, name, Me, type)
    BY <1>2, <1>3, KeepAliveHeard
<1>7. Agrees(e, meant)
    <2>1. DOMAIN meant = {"name", "number", "device_type", "mac_address", "ip_address", "library_plus"}
        OBVIOUS
    <2>2. /\ meant.name = Cut[name] /\ meant.number = Me /\ meant.device_type = type
          /\ meant.mac_address = MyMac /\ meant.ip_address = MyIp /\ meant.library_plus = FALSE
        OBVIOUS
    <2> HIDE DEF meant
    <2>3. \A f \in DOMAIN meant : f \in DOMAIN e /\ e[f] = meant[f]
        BY <1>6, <2>1, <2>2 DEF Announces
    <2> QED
        BY <2>3 DEF Agrees
<1>8. FinderStream(p) = <<"found", <<e>> >> /\ ~e.opus_quad
    BY <1>2, <1>6 DEF Announces, ExpandOpusQuad
<1> HIDE DEF p, meant
<1>9. Sound({"finder"}, p, "found", <<meant>>)
    BY <1>5, <1>7, <1>8, HeardOne, Outcomes, Owners DEF Stream
<1> QED
    BY <1>4, <1>8, <1>9, FoundImplies DEF Sends

\* The hello
LEMMA SendHelloSound == ASSUME SendHello PROVE Sends
<1> DEFINE c == Cells(\h24, <<1, \h40>>)
           p == BuildDeviceHello(CommandName)
<1>1. Two(c, \h24, 1, \h40)
    BY TwoIs, Literals
<1> HIDE DEF c
<1>2. Beyond({c}) /\ Apart({c})
    BY <1>1 DEF Beyond, Apart, Two
<1>3. p = Packet(\h26, \h0a, Prefix(CommandName, 4, \h26) \union {c})
    BY DEF BuildDeviceHello, c
<1> HIDE DEF p
<1>4. \h26 \in TwoByte /\ \h26 >= \h24
    BY DEF TwoByte
<1>5. 4 \in Byte /\ \h0a \in Byte /\ CommandName \in Name
    BY Given, Literals
<1>6. IsPacket(p) /\ Reads(p, \h26, \h0a, {c})
    BY <1>2, <1>3, <1>4, <1>5, Announced
<1>7. ParseHeader(p) = "DeviceHello"
    BY <1>6, Types DEF Reads, ParseHeader, MinPacketSize
<1>8. FinderStream(p) = <<"found", <<>> >>
    BY <1>7 DEF FinderStream
<1>9. Silent("finder", p)
    BY <1>8, Outcomes DEF Silent
<1>10. Sound({"finder"}, p, "claim", <<>>)
    BY <1>6, <1>9, Unheard DEF Stream
<1>11. Emit(DiscoveryPort, {"finder"}, p, "claim", <<>>)
    BY Listeners DEF SendHello, Broadcast, p
<1> QED
    BY <1>10, <1>11, Unimplied DEF Sends

\* Defending a device number
LEMMA SendDefenseSound == ASSUME SendDefense PROVE Sends
<1> DEFINE c == Cells(\h24, <<Me>>)
           d == Cells(\h25, MyIp)
           p == BuildDefense(CommandName, Me, MyIp)
           e == [device_number |-> Me]
<1>1. One(c, \h24, Me) /\ Many(d, \h25, MyIp, 4)
    BY OneIs, AddressIs, Given
<1> HIDE DEF c, d
<1>2. Beyond({c, d}) /\ Apart({c, d})
    BY <1>1 DEF Beyond, Apart, One, Many
<1>3. p = Packet(\h29, \h08, Prefix(CommandName, 2, \h29) \union {c, d})
    BY DEF BuildDefense, c, d
<1> HIDE DEF p
<1>4. \h29 \in TwoByte /\ \h29 >= \h24
    BY DEF TwoByte
<1>5. 2 \in Byte /\ \h08 \in Byte /\ CommandName \in Name
    BY Given, Literals
<1>6. IsPacket(p) /\ Reads(p, \h29, \h08, {c, d})
    BY <1>2, <1>3, <1>4, <1>5, Announced
<1>7. ParseHeader(p) = "DeviceDefense"
    BY <1>6, Types DEF Reads, ParseHeader, MinPacketSize
<1>8. p.size > \h24 /\ At(p, \h24) = Me
    BY <1>1, <1>6 DEF Reads, One
<1>9. ExtractDefenseDeviceNumber(p) = Me /\ Me # None
    BY <1>8, Given, NoBytePanics DEF ExtractDefenseDeviceNumber
<1>10. FinderStream(p) = <<"defense", <<e>> >>
    BY <1>7, <1>9 DEF FinderStream
<1>11. Agrees(e, e)
    BY DEF Agrees
<1>12. Emit(DiscoveryPort, {"finder"}, p, "defense", <<e>>)
    BY Listeners DEF SendDefense, Broadcast, p
<1> HIDE DEF e
<1>13. Sound({"finder"}, p, "defense", <<e>>)
    BY <1>6, <1>10, <1>11, HeardOne, Outcomes, Owners DEF Stream
<1> QED
    BY <1>12, <1>13, Unimplied DEF Sends

\* The three stages of a claim
LEMMA SendClaimSound == ASSUME SendClaim PROVE Sends
<1>0. 0 \in Byte /\ 1 \in Byte /\ 2 \in Byte /\ 3 \in Byte /\ 4 \in Byte /\ Me \in Byte /\ CommandName \in Name
    BY Given, Literals
<1>1. CASE Broadcast(DiscoveryPort, BuildClaimStage1(CommandName, MyMac, 1), "claim", <<>>)
    <2> DEFINE c == Cells(\h24, <<1, 1>>)
               d == Cells(\h26, MyMac)
               p == BuildClaimStage1(CommandName, MyMac, 1)
    <2>1. Two(c, \h24, 1, 1) /\ Many(d, \h26, MyMac, 6)
        BY <1>0, TwoIs, AddressIs
    <2> HIDE DEF c, d
    <2>2. Beyond({c, d}) /\ Apart({c, d})
        BY <2>1 DEF Beyond, Apart, Two, Many
    <2>3. p = Packet(\h2c, \h00, Prefix(CommandName, 3, \h2c) \union {c, d})
        BY DEF BuildClaimStage1, c, d
    <2> HIDE DEF p
    <2>4. \h2c \in TwoByte /\ \h2c >= \h24
        BY DEF TwoByte
    <2>5. IsPacket(p) /\ Reads(p, \h2c, \h00, {c, d})
        BY <1>0, <2>2, <2>3, <2>4, Announced
    <2>6. ParseHeader(p) = "DeviceClaimStage1"
        BY <2>5, Types DEF Reads, ParseHeader, MinPacketSize
    <2>7. FinderStream(p) = <<"found", <<>> >>
        BY <2>6 DEF FinderStream
    <2>8. Silent("finder", p)
        BY <2>7, Outcomes DEF Silent
    <2>9. Sound({"finder"}, p, "claim", <<>>)
        BY <2>5, <2>8, Unheard DEF Stream
    <2>10. Emit(DiscoveryPort, {"finder"}, p, "claim", <<>>)
        BY <1>1, Listeners DEF Broadcast, p
    <2> QED
        BY <2>9, <2>10, Unimplied DEF Sends
<1>2. CASE Broadcast(DiscoveryPort, BuildClaimStage2(CommandName, MyMac, MyIp, Me, 1, TRUE), "claim",
                     <<[device_number |-> Me]>>)
    <2> DEFINE s == <<Me, 1, 1, 1>>
               c == Cells(\h24, MyIp)
               d == Cells(\h28, MyMac)
               f == Cells(\h2e, s)
               p == BuildClaimStage2(CommandName, MyMac, MyIp, Me, 1, TRUE)
               e == [device_number |-> Me]
    <2>1. Many(c, \h24, MyIp, 4) /\ Many(d, \h28, MyMac, 6)
        BY AddressIs
    <2>2. Len(s) = 4 /\ DOMAIN s = 1..4 /\ s[1] = Me /\ s[2] = 1 /\ s[3] = 1 /\ s[4] = 1
        OBVIOUS
    <2>3. p = Packet(\h32, \h02, Prefix(CommandName, 3, \h32) \union {c, d, f})
        BY DEF BuildClaimStage2
    <2> HIDE DEF p, s, c, d
    <2>4. \A k \in 1..4 : s[k] \in Byte
        BY <1>0, <2>2
    <2>5. Four(f, \h2e, s)
        BY <2>2, <2>4, FourIs
    <2> HIDE DEF f
    <2>6. Beyond({c, d, f}) /\ Apart({c, d, f})
        BY <2>1, <2>5 DEF Beyond, Apart, Four, Many
    <2>7. \h32 \in TwoByte /\ \h32 >= \h24
        BY DEF TwoByte
    <2>8. IsPacket(p) /\ Reads(p, \h32, \h02, {c, d, f})
        BY <1>0, <2>3, <2>6, <2>7, Announced
    <2>9. ParseHeader(p) = "DeviceClaimStage2"
        BY <2>8, Types DEF Reads, ParseHeader, MinPacketSize
    <2>10. p.size > \h2e /\ At(p, \h2e) = Me
        BY <2>2, <2>5, <2>8 DEF Reads, Four
    <2>11. ExtractClaimStage2DeviceNumber(p) = Me /\ Me # None
        BY <1>0, <2>10, NoBytePanics DEF ExtractClaimStage2DeviceNumber
    <2>12. FinderStream(p) = <<"claim", <<e>> >>
        BY <2>9, <2>11 DEF FinderStream
    <2>13. Agrees(e, e)
        BY DEF Agrees
    <2>14. Emit(DiscoveryPort, {"finder"}, p, "claim", <<e>>)
        BY <1>2, Listeners DEF Broadcast, p
    <2> HIDE DEF e
    <2>15. Sound({"finder"}, p, "claim", <<e>>)
        BY <2>8, <2>12, <2>13, HeardOne, Outcomes, Owners DEF Stream
    <2> QED
        BY <2>14, <2>15, Unimplied DEF Sends
<1>3. CASE Broadcast(DiscoveryPort, BuildClaimStage3(CommandName, Me, 1), "claim", <<>>)
    <2> DEFINE c == Cells(\h24, <<Me, 1>>)
               p == BuildClaimStage3(CommandName, Me, 1)
    <2>1. Two(c, \h24, Me, 1)
        BY <1>0, TwoIs
    <2> HIDE DEF c
    <2>2. Beyond({c}) /\ Apart({c})
        BY <2>1 DEF Beyond, Apart, Two
    <2>3. p = Packet(\h26, \h04, Prefix(CommandName, 3, \h26) \union {c})
        BY DEF BuildClaimStage3, c
    <2> HIDE DEF p
    <2>4. \h26 \in TwoByte /\ \h26 >= \h24
        BY DEF TwoByte
    <2>5. IsPacket(p) /\ Reads(p, \h26, \h04, {c})
        BY <1>0, <2>2, <2>3, <2>4, Announced
    <2>6. ParseHeader(p) = "DeviceClaimStage3"
        BY <2>5, Types DEF Reads, ParseHeader, MinPacketSize
    <2>7. FinderStream(p) = <<"found", <<>> >>
        BY <2>6 DEF FinderStream
    <2>8. Silent("finder", p)
        BY <2>7, Outcomes DEF Silent
    <2>9. Sound({"finder"}, p, "claim", <<>>)
        BY <2>5, <2>8, Unheard DEF Stream
    <2>10. Emit(DiscoveryPort, {"finder"}, p, "claim", <<>>)
        BY <1>3, Listeners DEF Broadcast, p
    <2> QED
        BY <2>9, <2>10, Unimplied DEF Sends
<1> QED
    BY <1>1, <1>2, <1>3 DEF SendClaim

\* Keep-alives of a mixer, of an Opus Quad, which is told as four players, and of an XDJ-AZ
LEMMA AnnounceDeviceSound == ASSUME AnnounceDevice PROVE Sends
<1>1. CASE Broadcast(DiscoveryPort, BuildKeepAlive(CommandName, Mixer, MyMac, MyIp, <<"Mixer">>), "found",
                     <<[number |-> Mixer, device_type |-> <<"Mixer">>]>>)
    <2> DEFINE type == <<"Mixer">>
               p == BuildKeepAlive(CommandName, Mixer, MyMac, MyIp, type)
               meant == [number |-> Mixer, device_type |-> type]
    <2>1. CommandName \in Name /\ Mixer \in Byte /\ Cut[CommandName] # OpusQuadName
        <3>1. CommandName \in Name /\ Mixer \in Byte
            BY Given
        <3>2. Cut[CommandName] = CommandName /\ CommandName # OpusQuadName
            BY DatagramsAssumption
        <3> QED
            BY <3>1, <3>2
    <2>2. type \in Values(DeviceType)
        BY DEF Values, DeviceType
    <2>3. Emit(DiscoveryPort, {"finder"}, p, "found", <<meant>>)
        BY <1>1, Listeners DEF Broadcast
    <2> HIDE DEF type
    <2>4. IsPacket(p)
        BY <2>1, <2>2, KeepAliveHeard
    <2>5. PICK e : /\ FinderStream(p) = <<"found", ExpandOpusQuad(e)>>
                   /\ Announces(e, CommandName, Mixer, type)
        BY <2>1, <2>2, KeepAliveHeard
    <2>6. Agrees(e, meant)
        BY <2>5 DEF Agrees, Announces
    <2>7. FinderStream(p) = <<"found", <<e>> >> /\ ~e.opus_quad
        BY <2>1, <2>5 DEF Announces, ExpandOpusQuad
    <2> HIDE DEF p, meant
    <2>8. Sound({"finder"}, p, "found", <<meant>>)
        BY <2>4, <2>6, <2>7, HeardOne, Outcomes, Owners DEF Stream
    <2> QED
        BY <2>3, <2>7, <2>8, FoundImplies DEF Sends
<1>2. CASE \E raw \in OpusRaw :
              Broadcast(DiscoveryPort, BuildKeepAlive(OpusQuadName, raw, MyMac, MyIp, <<"Cdj">>), "found",
                        [i \in 1..4 |-> [number |-> i, name |-> OpusQuadName]])
    <2>0. PICK raw \in OpusRaw :
              Broadcast(DiscoveryPort, BuildKeepAlive(OpusQuadName, raw, MyMac, MyIp, <<"Cdj">>), "found",
                        [i \in 1..4 |-> [number |-> i, name |-> OpusQuadName]])
        BY <1>2
    <2> DEFINE type == <<"Cdj">>
               p == BuildKeepAlive(OpusQuadName, raw, MyMac, MyIp, type)
               meant == [i \in 1..4 |-> [number |-> i, name |-> OpusQuadName]]
    <2>1. OpusQuadName \in Name /\ raw \in Byte /\ Cut[OpusQuadName] = OpusQuadName
        BY Given, DatagramsAssumption
    <2>2. type \in Values(DeviceType)
        BY DEF Values, DeviceType
    <2>3. Emit(DiscoveryPort, {"finder"}, p, "found", meant)
        BY <2>0, Listeners DEF Broadcast
    <2> HIDE DEF type
    <2>4. IsPacket(p) /\ At(p, \h24) = raw
        BY <2>1, <2>2, KeepAliveHeard
    <2>5. PICK e : /\ FinderStream(p) = <<"found", ExpandOpusQuad(e)>>
                   /\ Announces(e, OpusQuadName, raw, type)
        BY <2>1, <2>2, KeepAliveHeard
    <2> DEFINE told == [i \in 1..4 |-> [e EXCEPT !.number = i]]
    <2>6. FinderStream(p) = <<"found", told>>
        BY <2>1, <2>5 DEF Announces, ExpandOpusQuad
    <2>7. ASSUME NEW i \in 1..4 PROVE Agrees(told[i], meant[i])
        <3> DEFINE x == [e EXCEPT !.number = i]
                   y == [number |-> i, name |-> OpusQuadName]
        <3>1. DOMAIN x = DOMAIN e /\ x.number = i /\ x.name = e.name
            BY <2>5 DEF Announces
        <3>2. DOMAIN y = {"number", "name"} /\ y.number = i /\ y.name = OpusQuadName
            OBVIOUS
        <3>3. told[i] = x /\ meant[i] = y
            OBVIOUS
        <3> HIDE DEF x, y
        <3>4. Agrees(x, y)
            BY <2>1, <2>5, <3>1, <3>2 DEF Announces, Agrees
        <3> QED
            BY <3>3, <3>4
    <2>8. told \in Seq({told[i] : i \in 1..4}) /\ meant \in Seq({meant[i] : i \in 1..4})
        OBVIOUS
    <2>9. Len(told) = 4 /\ Len(meant) = 4 /\ meant # <<>>
        OBVIOUS
    <2> HIDE DEF p, meant, told
    <2>10. IsSequence(told) /\ IsSequence(meant)
        BY <2>8 DEF IsSequence
    <2>11. Tells("finder", p, "found", meant)
        BY <2>6, <2>7, <2>9, <2>10, Outcomes DEF Tells
    <2>12. Sound({"finder"}, p, "found", meant)
        BY <2>4, <2>9, <2>10, <2>11, Owners DEF Sound, Meant, Stream
    <2>13. FourDecks(p, meant)
        BY <2>4 DEF FourDecks, meant
    <2>14. Implied(p, "found", meant)
        BY <2>13 DEF Implied
    <2> QED
        BY <2>3, <2>12, <2>14 DEF Sends
<1> QED
    BY <1>1, <1>2 DEF AnnounceDevice

-----------------------------------------------------------------------------
(* Packets of the beat port *)

\* Packets whose cells are a number and a name or two.
LEMMA Commanded ==
    ASSUME NEW type \in Byte, NEW source \in Byte, NEW length \in TwoByte, NEW cells,
           Beyond(cells), Apart(cells)
    PROVE  /\ IsPacket(Command(type, source, length, cells))
           /\ Reads(Command(type, source, length, cells), \h24 + length, type, cells)
           /\ At(Command(type, source, length, cells), \h21) = source
<1> DEFINE c0 == Cells(\h0a, <<type>>)
           c1 == Cells(\h0c, <<CommandName>>)
           c2 == Cells(\h20, <<1, source>>)
           c3 == Cells(\h22, Bytes(length, 2))
           all == {c1, c2, c3} \union cells
           p == Command(type, source, length, cells)
           size == \h24 + length
<1>1. One(c0, \h0a, type)
    BY OneIs
<1>2. One(c1, \h0c, CommandName)
    BY NameIs, Given
<1>3. Two(c2, \h20, 1, source) /\ Two(c3, \h22, High(length), Low(length))
    BY TwoIs, TwoNumber, Literals
<1>4. p = Packet(size, type, all)
    BY DEF Command
<1>5. size \in Nat /\ size >= \h24
    BY Numbers
<1> HIDE DEF c0, c1, c2, c3, size, p
<1>6. Apart({c1, c2, c3} \union {c0})
    BY <1>1, <1>2, <1>3 DEF Apart, One, Two
<1>7. \A c \in {c1, c2, c3, c0} : \A i \in DOMAIN c : i < \h24
    BY <1>1, <1>2, <1>3 DEF One, Two
<1>8. Apart(all \union {c0})
    BY <1>6, <1>7 DEF Apart, Beyond
<1>9. \A c \in all : GoodCell(c)
    BY <1>1, <1>2, <1>3 DEF One, Two, Beyond
<1>10. IsPacket(p) /\ Reads(p, size, type, all)
    BY <1>4, <1>5, <1>8, <1>9, Built DEF c0
<1>11. Reads(p, size, type, cells)
    BY <1>10 DEF Reads
<1>12. At(p, \h21) = c2[\h21]
    <2>1. c2 \in all /\ \h21 \in DOMAIN c2 /\ \h21 \in Nat /\ \h21 < size
        BY <1>3, <1>5 DEF Two
    <2> QED
        BY <1>10, <2>1 DEF Reads
<1>13. c2[\h21] = source
    BY <1>3 DEF Two
<1> QED
    BY <1>10, <1>11, <1>12, <1>13 DEF p, size

\* What listeners take a packet for, from its type byte.
LEMMA HeaderOf ==
    ASSUME NEW p, NEW size \in Nat, size > \h0a, NEW type, NEW cells, Reads(p, size, type, cells), NEW port
    PROVE  ParseHeader(p) = PacketType(type) /\ ParseHeaderOnPort(p, port) = PacketTypeOnPort(type, port)
BY DEF Reads, ParseHeader, ParseHeaderOnPort, MinPacketSize

\* A packet of the beat port is what its type byte says, but for a fader start.
LEMMA BeatTypes ==
    /\ PacketTypeOnPort(\h03, BeatPort) = "OnAir" /\ PacketTypeOnPort(\h0b, BeatPort) = "PrecisePosition"
    /\ PacketTypeOnPort(\h2a, BeatPort) = "SyncControl" /\ PacketTypeOnPort(\h26, BeatPort) = "MasterHandoff"
    /\ PacketTypeOnPort(\h02, BeatPort) = "FaderStart" /\ PacketTypeOnPort(\h28, BeatPort) = "Beat"
BY Types DEF PacketTypeOnPort, BeatPort, StatusPort

\* It is sound to send what the beat finder tells as it was meant.
LEMMA BeatPortSends ==
    ASSUME NEW p, NEW stream \in Stream, Owner(stream) = "beats", NEW e, NEW meant, IsPacket(p),
           BeatStream(p) = <<stream, <<e>> >>, Agrees(e, meant),
           Broadcast(BeatPort, p, stream, <<meant>>)
    PROVE  Sends
<1>1. Sound({"beats"}, p, stream, <<meant>>)
    BY HeardOne, Outcomes
<1>2. Emit(BeatPort, {"beats"}, p, stream, <<meant>>)
    BY Listeners DEF Broadcast
<1> QED
    BY <1>1, <1>2, Owners, Unimplied DEF Sends

\* set_sync
LEMMA SetSyncSound == ASSUME SetSync PROVE Sends
<1>1. PICK enable \in BOOLEAN :
         Broadcast(BeatPort, BuildSyncCommand(Me, Player, enable), "sync",
                   <<[device_number |-> Me, sync_enabled |-> enable]>>)
    BY DEF SetSync
<1> DEFINE flag == IF enable THEN \h10 ELSE \h20
           c == Cells(\h24, <<Player, 0, Me>>)
           d == Cells(\h2c, <<Me>>)
           f == Cells(\h30, <<flag>>)
           cells == {c, d, f}
           p == BuildSyncCommand(Me, Player, enable)
           meant == [device_number |-> Me, sync_enabled |-> enable]
<1>2. Me \in Byte /\ Player \in Byte /\ 0 \in Byte /\ \h2a \in Byte
    BY Given, Literals
<1>3. flag \in Byte /\ (flag = \h10 <=> enable)
    BY DEF Byte
<1>4. p = Command(\h2a, Me, \h0d, cells)
    BY DEF BuildSyncCommand
<1> HIDE DEF flag, p
<1>5. Three(c, \h24, Player, 0, Me) /\ One(d, \h2c, Me) /\ One(f, \h30, flag)
    BY <1>2, <1>3, ThreeIs, OneIs
<1> HIDE DEF c, d, f
<1>6. Beyond(cells) /\ Apart(cells)
    BY <1>5 DEF Beyond, Apart, One, Three
<1>7. \h0d \in TwoByte
    BY DEF TwoByte
<1>8. IsPacket(p) /\ Reads(p, \h24 + \h0d, \h2a, cells) /\ At(p, \h21) = Me
    <2> HIDE DEF cells
    <2> QED
        BY <1>2, <1>4, <1>6, <1>7, Commanded
<1>9. p.size = \h31 /\ At(p, \h30) = flag
    BY <1>5, <1>8 DEF Reads, One
<1>10. ParseHeader(p) = "SyncControl" /\ ParseHeaderOnPort(p, BeatPort) = "SyncControl"
    BY <1>8, HeaderOf, Types, BeatTypes
<1> DEFINE e == [device_number |-> At(p, \h21), sync_enabled |-> Equals(At(p, \h30), \h10)]
<1>11. BeatStream(p) = <<"sync", <<e>> >>
    BY <1>9, <1>10 DEF BeatStream, ParseSync, SyncMinLength, DeviceNumberOffset
<1>12. Equals(At(p, \h30), \h10) = enable
    BY <1>3, <1>9, NoBytePanics DEF Equals
<1>13. Agrees(e, meant)
    BY <1>8, <1>12 DEF Agrees
<1>14. Broadcast(BeatPort, p, "sync", <<meant>>)
    BY <1>1 DEF p
<1> HIDE DEF e, meant
<1> QED
    BY <1>8, <1>11, <1>13, <1>14, BeatPortSends, Owners DEF Stream

\* become_master
LEMMA BecomeMasterSound == ASSUME BecomeMaster PROVE Sends
<1> DEFINE c == Cells(\h26, <<Me>>)
           d == Cells(\h2c, <<Me>>)
           cells == {c, d}
           p == BuildMasterCommand(Me)
           meant == [device_number |-> Me]
<1>1. Me \in Byte /\ \h26 \in Byte
    BY Given, Literals
<1>2. p = Command(\h26, Me, \h09, cells)
    BY DEF BuildMasterCommand
<1> HIDE DEF p
<1>3. One(c, \h26, Me) /\ One(d, \h2c, Me)
    BY <1>1, OneIs
<1> HIDE DEF c, d
<1>4. Beyond(cells) /\ Apart(cells)
    BY <1>3 DEF Beyond, Apart, One
<1>5. \h09 \in TwoByte
    BY DEF TwoByte
<1>6. IsPacket(p) /\ Reads(p, \h24 + \h09, \h26, cells) /\ At(p, \h21) = Me
    <2> HIDE DEF cells
    <2> QED
        BY <1>1, <1>2, <1>4, <1>5, Commanded
<1>7. p.size = \h2d
    BY <1>6 DEF Reads
<1>8. ParseHeader(p) = "MasterHandoff" /\ ParseHeaderOnPort(p, BeatPort) = "MasterHandoff"
    BY <1>6, HeaderOf, Types, BeatTypes
<1> DEFINE e == [device_number |-> At(p, \h21), target_device |-> At(p, \h26)]
<1>9. BeatStream(p) = <<"handoff", <<e>> >>
    BY <1>7, <1>8 DEF BeatStream, ParseMasterHandoff, MasterHandoffMinLength, DeviceNumberOffset
<1>10. Agrees(e, meant)
    BY <1>6 DEF Agrees
<1>11. Broadcast(BeatPort, p, "handoff", <<meant>>)
    BY DEF BecomeMaster, p
<1> HIDE DEF e, meant
<1> QED
    BY <1>6, <1>9, <1>10, <1>11, BeatPortSends, Owners DEF Stream

\* send_on_air_command
LEMMA SendOnAirCommandSound == ASSUME SendOnAirCommand PROVE Sends
<1>1. PICK on \in SUBSET (1..4) :
         LET channels == [i \in 1..4 |-> i \in on]
         IN  Broadcast(BeatPort, BuildOnAir(CommandName, Me, channels), "on_air",
                       <<[device_number |-> Me, channels |-> channels]>>)
    BY DEF SendOnAirCommand
<1> DEFINE channels == [i \in 1..4 |-> i \in on]
           s == [i \in 1..4 |-> IF channels[i] THEN 1 ELSE 0]
           c0 == Cells(\h0a, <<\h03>>)
           c1 == Cells(\h0b, <<Cut[CommandName]>>)
           c2 == Cells(\h1f, <<1>>)
           c3 == Cells(\h21, <<Me, 0, 4>>)
           c4 == Cells(\h24, s)
           cells == {c1, c2, c3, c4}
           p == BuildOnAir(CommandName, Me, channels)
           meant == [device_number |-> Me, channels |-> channels]
<1>2. Broadcast(BeatPort, p, "on_air", <<meant>>)
    BY <1>1
<1>3. p = Packet(\h28, \h03, cells)
    BY DEF BuildOnAir, NameOffset, DeviceNumberOffset
<1>4. Len(s) = 4 /\ DOMAIN s = 1..4 /\ \A k \in 1..4 : s[k] = IF k \in on THEN 1 ELSE 0
    <2>1. Len(s) = 4 /\ DOMAIN s = 1..4
        OBVIOUS
    <2>2. \A k \in 1..4 : channels[k] <=> k \in on
        BY Zenon
    <2>3. \A k \in 1..4 : s[k] = IF channels[k] THEN 1 ELSE 0
        BY Zenon
    <2>4. \A k \in 1..4 : s[k] = IF k \in on THEN 1 ELSE 0
        <3> HIDE DEF channels, s
        <3> QED
            BY <2>2, <2>3, Zenon
    <2> QED
        BY <2>1, <2>4
<1> HIDE DEF p, s
<1>5. Me \in Byte /\ 0 \in Byte /\ 1 \in Byte /\ 3 \in Byte /\ 4 \in Byte /\ CommandName \in Name /\ Cut[CommandName] \in Name
    BY Given, Literals
<1>6. One(c0, \h0a, \h03) /\ One(c1, \h0b, Cut[CommandName]) /\ One(c2, \h1f, 1)
    BY <1>5, OneIs, NameIs
<1>7. Three(c3, \h21, Me, 0, 4)
    BY <1>5, ThreeIs
<1>8. Four(c4, \h24, s)
    <2>1. \A k \in 1..4 : s[k] \in Byte
        BY <1>4, <1>5
    <2> QED
        BY <1>4, <2>1, FourIs
<1> HIDE DEF c0, c1, c2, c3, c4
<1>9. Apart(cells \union {c0})
    BY <1>6, <1>7, <1>8 DEF Apart, One, Three, Four
<1>10. \A c \in cells : GoodCell(c)
    BY <1>6, <1>7, <1>8 DEF One, Three, Four
<1>11. IsPacket(p) /\ Reads(p, \h28, \h03, cells)
    BY <1>3, <1>5, <1>9, <1>10, Built DEF c0
<1>12. p.size = \h28 /\ At(p, \h21) = Me
    BY <1>7, <1>11 DEF Reads, Three
<1>13. At(p, \h24) = s[1] /\ At(p, \h25) = s[2] /\ At(p, \h26) = s[3] /\ At(p, \h27) = s[4]
    BY <1>8, <1>11 DEF Reads, Four
<1>14. ParseHeader(p) = "OnAir" /\ ParseHeaderOnPort(p, BeatPort) = "OnAir"
    BY <1>11, HeaderOf, Types, BeatTypes
<1> DEFINE told == [i \in 1..ChannelFlags(p) |-> NonZero(At(p, \h24 + i - 1))]
           e == [name |-> ReadDeviceName(p, \h0b), device_number |-> At(p, \h21), channels |-> told]
<1>15. BeatStream(p) = <<"on_air", <<e>> >>
    <2>1. ~(p.size < \h28)
        BY <1>12
    <2>2. ParseChannelsOnAir(p) = <<e>>
        BY <1>14, <2>1, Zenon DEF ParseChannelsOnAir, ChannelsOnAirMinLength, DeviceNumberOffset, NameOffset
    <2> HIDE DEF e
    <2> QED
        BY <1>14, <2>2 DEF BeatStream
<1>16. told = channels
    <2>1. ChannelFlags(p) = 4
        BY <1>12 DEF ChannelFlags
    <2>2. ASSUME NEW i \in 1..4 PROVE NonZero(At(p, \h24 + i - 1)) = (i \in on)
        <3>1. At(p, \h24 + i - 1) = s[i]
            <4>1. i = 1 \/ i = 2 \/ i = 3 \/ i = 4
                OBVIOUS
            <4>2. \h24 + 1 - 1 = \h24 /\ \h24 + 2 - 1 = \h25 /\ \h24 + 3 - 1 = \h26 /\ \h24 + 4 - 1 = \h27
                OBVIOUS
            <4> QED
                BY <1>13, <4>1, <4>2
        <3>2. s[i] \in Byte /\ (s[i] # 0 <=> i \in on)
            BY <1>4, <1>5
        <3> QED
            BY <3>1, <3>2, NoBytePanics DEF NonZero
    <2> QED
        BY <2>1, <2>2
<1> HIDE DEF told
<1>17. Agrees(e, meant)
    BY <1>12, <1>16 DEF Agrees
<1> HIDE DEF e, meant
<1> QED
    BY <1>2, <1>11, <1>15, <1>17, BeatPortSends, Owners DEF Stream

\* A mixer of six channels
LEMMA SixChannelsOnAirSound == ASSUME SixChannelsOnAir PROVE Sends
<1>1. PICK on \in {{}, {1, 6}} :
         Broadcast(BeatPort,
            Packet(\h2a, \h03,
               {Cells(NameOffset, <<CommandName>>), Cells(DeviceNumberOffset, <<Mixer>>),
                Cells(\h24, [i \in 1..6 |-> IF i \in on THEN 1 ELSE 0])}),
            "on_air", <<[device_number |-> Mixer, channels |-> [i \in 1..6 |-> i \in on]]>>)
    BY DEF SixChannelsOnAir
<1> DEFINE s == [i \in 1..6 |-> IF i \in on THEN 1 ELSE 0]
           n == 6
           c0 == Cells(\h0a, <<\h03>>)
           c1 == Cells(\h0b, <<CommandName>>)
           c3 == Cells(\h21, <<Mixer>>)
           c4 == Cells(\h24, s)
           cells == {c1, c3, c4}
           p == Packet(\h2a, \h03, cells)
           meant == [device_number |-> Mixer, channels |-> [i \in 1..6 |-> i \in on]]
<1>2. Broadcast(BeatPort, p, "on_air", <<meant>>)
    BY <1>1 DEF NameOffset, DeviceNumberOffset
<1>5. Mixer \in Byte /\ 0 \in Byte /\ 1 \in Byte /\ 3 \in Byte /\ CommandName \in Name
    BY Given, Literals
<1>4. s \in [1..6 -> Byte] /\ \A k \in 1..6 : (s[k] # 0 <=> k \in on)
    BY <1>5
<1> HIDE DEF s
<1>6. One(c0, \h0a, \h03) /\ One(c1, \h0b, CommandName) /\ One(c3, \h21, Mixer)
    BY <1>5, OneIs, NameIs
<1>8. Many(c4, \h24, s, 6)
    <2>1. n \in Nat /\ s \in [1..n -> Byte]
        BY <1>4
    <2> HIDE DEF n
    <2>2. Many(c4, \h24, s, n)
        BY <2>1, ManyIs
    <2> QED
        BY <2>2 DEF n
<1> HIDE DEF c0, c1, c3, c4
<1>9. Apart(cells \union {c0})
    BY <1>6, <1>8 DEF Apart, One, Many
<1>10. \A c \in cells : GoodCell(c)
    BY <1>6, <1>8 DEF One, Many
<1>11. IsPacket(p) /\ Reads(p, \h2a, \h03, cells)
    BY <1>5, <1>9, <1>10, Built DEF c0
<1> HIDE DEF p
<1>12. p.size = \h2a /\ At(p, \h21) = Mixer
    BY <1>6, <1>11 DEF Reads, One
<1>13. \A k \in 1..6 : At(p, \h24 + k - 1) = s[k]
    BY <1>8, <1>11 DEF Reads, Many
<1>14. ParseHeader(p) = "OnAir" /\ ParseHeaderOnPort(p, BeatPort) = "OnAir"
    BY <1>11, HeaderOf, Types, BeatTypes
<1> DEFINE told == [i \in 1..ChannelFlags(p) |-> NonZero(At(p, \h24 + i - 1))]
           e == [name |-> ReadDeviceName(p, \h0b), device_number |-> At(p, \h21), channels |-> told]
<1>15. BeatStream(p) = <<"on_air", <<e>> >>
    <2>1. ~(p.size < \h28)
        BY <1>12
    <2>2. ParseChannelsOnAir(p) = <<e>>
        BY <1>14, <2>1, Zenon DEF ParseChannelsOnAir, ChannelsOnAirMinLength, DeviceNumberOffset, NameOffset
    <2> HIDE DEF e
    <2> QED
        BY <1>14, <2>2 DEF BeatStream
<1>16. told = [i \in 1..6 |-> i \in on]
    <2>1. ChannelFlags(p) = 6
        BY <1>12 DEF ChannelFlags
    <2>2. ASSUME NEW i \in 1..6 PROVE NonZero(At(p, \h24 + i - 1)) = (i \in on)
        BY <1>4, <1>13, NoBytePanics DEF NonZero
    <2> QED
        BY <2>1, <2>2
<1> HIDE DEF told
<1>17. Agrees(e, meant)
    BY <1>12, <1>16 DEF Agrees
<1> HIDE DEF e, meant
<1> QED
    BY <1>2, <1>11, <1>15, <1>17, BeatPortSends, Owners DEF Stream

\* The bytes of fader starts.
LEMMA FaderTrip ==
    \A a \in {"Start", "Stop", "NoChange"} : FaderByte(a) \in Byte /\ FaderAction(FaderByte(a)) = a
<1>1. FaderByte("Start") = 0 /\ FaderByte("Stop") = 1 /\ FaderByte("NoChange") = 2
    BY DEF FaderByte
<1>2. 0 # Panic /\ 1 # Panic /\ 2 # Panic
    BY NoBytePanics, Literals
<1>3. FaderAction(0) = "Start" /\ FaderAction(1) = "Stop" /\ FaderAction(2) = "NoChange"
    BY <1>2 DEF FaderAction
<1> QED
    BY <1>1, <1>3, Literals

Faders(p) == [i \in 1..4 |-> FaderAction(At(p, \h24 + i - 1))]

\* Four fader actions that were written are read back.
LEMMA FadersRead ==
    ASSUME NEW source \in Byte, NEW channels \in [1..4 -> {"Start", "Stop", "NoChange"}]
    PROVE  /\ IsPacket(BuildFaderStart(source, channels))
           /\ BuildFaderStart(source, channels).size = \h2c /\ BuildFaderStart(source, channels).magic = TRUE
           /\ At(BuildFaderStart(source, channels), \h0a) = \h02
           /\ At(BuildFaderStart(source, channels), \h21) = source
           /\ Faders(BuildFaderStart(source, channels)) = channels
<1> DEFINE s == [i \in 1..4 |-> FaderByte(channels[i])]
           c == Cells(\h24, s)
           p == BuildFaderStart(source, channels)
<1>1. p = Command(\h02, source, \h08, {c})
    BY DEF BuildFaderStart
<1>2. Len(s) = 4 /\ DOMAIN s = 1..4 /\ \A k \in 1..4 : s[k] \in Byte /\ FaderAction(s[k]) = channels[k]
    BY FaderTrip
<1> HIDE DEF p, s
<1>3. Four(c, \h24, s)
    <2>1. \A k \in 1..4 : s[k] \in Byte
        BY <1>2
    <2> QED
        BY <1>2, <2>1, FourIs
<1> HIDE DEF c
<1>4. Beyond({c}) /\ Apart({c})
    BY <1>3 DEF Beyond, Apart, Four
<1>5. \h08 \in TwoByte /\ \h02 \in Byte
    BY Literals DEF TwoByte
<1>6. IsPacket(p) /\ Reads(p, \h24 + \h08, \h02, {c}) /\ At(p, \h21) = source
    BY <1>1, <1>4, <1>5, Commanded
<1>7. p.size = \h2c /\ p.magic = TRUE /\ At(p, \h0a) = \h02
    BY <1>6 DEF Reads
<1>8. At(p, \h24) = s[1] /\ At(p, \h25) = s[2] /\ At(p, \h26) = s[3] /\ At(p, \h27) = s[4]
    BY <1>3, <1>6 DEF Reads, Four
<1>9. ASSUME NEW i \in 1..4 PROVE FaderAction(At(p, \h24 + i - 1)) = channels[i]
    <2>1. i = 1 \/ i = 2 \/ i = 3 \/ i = 4
        OBVIOUS
    <2>2. \h24 + 1 - 1 = \h24 /\ \h24 + 2 - 1 = \h25 /\ \h24 + 3 - 1 = \h26 /\ \h24 + 4 - 1 = \h27
        OBVIOUS
    <2>3. At(p, \h24 + i - 1) = s[i]
        BY <1>8, <2>1, <2>2
    <2> QED
        BY <1>2, <2>3
<1>10. Faders(p) = channels
    BY <1>9 DEF Faders
<1> QED
    BY <1>6, <1>7, <1>10 DEF p

\* A mixer's fader start
LEMMA MixerFaderStartSound == ASSUME MixerFaderStart PROVE Sends
<1> DEFINE channels == <<"Start", "Stop", "NoChange", "Stop">>
           p == BuildFaderStart(Mixer, channels)
           meant == [device_number |-> Mixer, channels |-> channels]
           told == Faders(p)
           e == [device_number |-> At(p, \h21), channels |-> told]
<1>1. Broadcast(BeatPort, p, "fader_start", <<meant>>)
    BY DEF MixerFaderStart
<1>2. channels \in [1..4 -> {"Start", "Stop", "NoChange"}] /\ Mixer \in Byte
    BY Given
<1> HIDE DEF channels
<1>3. /\ IsPacket(p) /\ p.size = \h2c /\ p.magic = TRUE /\ At(p, \h0a) = \h02
      /\ At(p, \h21) = Mixer /\ told = channels
    BY <1>2, FadersRead, Zenon
<1> HIDE DEF p
<1>4. ParseHeaderOnPort(p, BeatPort) = "FaderStart"
    BY <1>3, BeatTypes DEF ParseHeaderOnPort, MinPacketSize
<1>5. BeatStream(p) = <<"fader_start", <<e>> >>
    BY <1>3, <1>4 DEF BeatStream, ParseFaderStart, Faders, FaderStartMinLength, DeviceNumberOffset
<1> HIDE DEF told
<1>6. Agrees(e, meant)
    BY <1>3 DEF Agrees
<1> HIDE DEF e, meant
<1> QED
    BY <1>1, <1>3, <1>5, <1>6, BeatPortSends, Owners DEF Stream

\* The beat of an XDJ
LEMMA XdjBeatSound == ASSUME XdjBeat PROVE Sends
<1>1. PICK name \in XdjNames :
         Broadcast(BeatPort, BuildBeat(name, Player, 12800, PitchNormal, 1), "beat",
                   <<[name |-> name, device_number |-> Player, bpm |-> 12800]>>)
    BY DEF XdjBeat
<1> DEFINE bpm == 12800
           p == BuildBeat(name, Player, bpm, PitchNormal, 1)
           meant == [name |-> name, device_number |-> Player, bpm |-> bpm]
<1>2. Broadcast(BeatPort, p, "beat", <<meant>>)
    BY <1>1
<1>3. name \in Name /\ Cut[name] = name /\ Player \in Byte /\ PitchNormal \in ThreeByte /\ 1 \in Byte
    BY Given, Literals, DatagramsAssumption
<1>4. bpm \in TwoByte
    BY SMT DEF TwoByte
<1> HIDE DEF bpm
<1>5. PICK e : /\ BeatStream(p) = <<"beat", <<e>> >>
               /\ DOMAIN e = {"name", "device_number", "device_type", "pitch", "bpm",
                              "beat_within_bar", "timing"}
               /\ e.name = Cut[name] /\ e.device_number = Player /\ e.bpm = bpm
               /\ e.pitch = PitchNormal /\ e.beat_within_bar = 1 /\ e.timing = [i \in 1..6 |-> None]
    BY <1>3, <1>4, BeatHeard
<1>6. IsPacket(p)
    BY <1>3, <1>4, BeatHeard
<1>7. Agrees(e, meant)
    BY <1>3, <1>5 DEF Agrees
<1> HIDE DEF p, meant
<1> QED
    BY <1>2, <1>5, <1>6, <1>7, BeatPortSends, Owners DEF Stream

\* A number of four bytes is its bytes' sum.
LEMMA FourNumber ==
    ASSUME NEW p, p.size \in Nat, NEW o \in Nat, o + 4 <= p.size, NEW a \in Byte, NEW b \in Byte,
           At(p, o) = 0, At(p, o + 1) = 0, At(p, o + 2) = a, At(p, o + 3) = b
    PROVE  BytesToNumber(p, o, 4) = 256 * a + b
<1> DEFINE low(i) == IF i <= 4 THEN At(p, o + 4 - i) ELSE 0
<1>1. BytesToNumber(p, o, 4) = low(1) + 256 * low(2) + 65536 * low(3) + 16777216 * low(4)
    BY SMT DEF BytesToNumber
<1>2. low(1) = b /\ low(2) = a /\ low(3) = 0 /\ low(4) = 0
    <2>1. o + 4 - 1 = o + 3 /\ o + 4 - 2 = o + 2 /\ o + 4 - 3 = o + 1 /\ o + 4 - 4 = o
          /\ 1 <= 4 /\ 2 <= 4 /\ 3 <= 4 /\ 4 <= 4
        OBVIOUS
    <2> QED
        BY <2>1
<1> HIDE DEF low
<1>3. a \in Nat /\ b \in Nat
    BY DEF Byte
<1>4. low(1) + 256 * low(2) + 65536 * low(3) + 16777216 * low(4) = 256 * a + b
    BY <1>2, <1>3, SMT
<1> QED
    BY <1>1, <1>4

\* Pitches of precise positions, from hundredths of a percent.
LEMMA PitchRead ==
    ASSUME NEW p, p.size \in Nat, p.size >= \h30,
           NEW s \in Percentages, BytesAt(p, \h2c, 4) = s
    PROVE  PitchFromPercentage(SignedAt(p, \h2c)) = PitchMeant(s)
<1>1. s # Panic
    <2>1. s \in [1..4 -> Byte]
        BY DEF Percentages, Byte
    <2> DEFINE n == 4
    <2>2. n \in Nat /\ s \in [1..n -> Datum]
        <3>1. Byte \subseteq Datum
            BY NoBytePanics
        <3> QED
            BY <2>1, <3>1
    <2> HIDE DEF n
    <2>3. s \in Value
        BY <2>2, FlagsValue
    <2> QED
        BY <2>3, PanicAssumption
<1>2. SignedAt(p, \h2c) = (IF s[1] >= 128 THEN s[1] - 256 ELSE s[1]) * 16777216
                            + s[2] * 65536 + s[3] * 256 + s[4]
    BY <1>1, SMT DEF SignedAt
<1>3. CASE s = <<0, 0, 0, 0>>
    <2>1. s[1] = 0 /\ s[2] = 0 /\ s[3] = 0 /\ s[4] = 0
        BY <1>3
    <2>2. SignedAt(p, \h2c) = 0
        BY <1>2, <2>1, SMT
    <2> QED
        BY <2>1, <2>2, SMT DEF PitchFromPercentage, PitchMeant, PitchNormal
<1>4. CASE s = <<0, 0, 2, 113>>
    <2>1. s[1] = 0 /\ s[2] = 0 /\ s[3] = 2 /\ s[4] = 113
        BY <1>4
    <2>2. SignedAt(p, \h2c) = 625
        BY <1>2, <2>1, SMT
    <2> QED
        BY <2>1, <2>2, SMT DEF PitchFromPercentage, PitchMeant, PitchNormal
<1>5. CASE s = <<255, 255, 253, 143>>
    <2>1. s[1] = 255 /\ s[2] = 255 /\ s[3] = 253 /\ s[4] = 143
        BY <1>5
    <2>2. SignedAt(p, \h2c) = -625
        BY <1>2, <2>1, SMT
    <2> QED
        BY <2>1, <2>2, SMT DEF PitchFromPercentage, PitchMeant, PitchNormal
<1> QED
    BY <1>3, <1>4, <1>5 DEF Percentages

\* A player's precise position
LEMMA SendPrecisePositionSound == ASSUME SendPrecisePosition PROVE Sends
<1>1. PICK s \in Percentages :
         Broadcast(BeatPort, PositionPacket(s), "precise",
                   <<[device_number |-> Player, position_ms |-> <<0, 0, 3, 232>>,
                      effective_bpm |-> 12800, pitch |-> PitchMeant(s)]>>)
    BY DEF SendPrecisePosition
<1> DEFINE length == <<0, 0, 1, 44>>
           position == <<0, 0, 3, 232>>
           tempo == <<0, 0, 5, 0>>
           pitch == PitchMeant(s)
           c0 == Cells(\h0a, <<\h0b>>)
           c1 == Cells(\h0b, <<CommandName>>)
           c2 == Cells(\h21, <<Player>>)
           c3 == Cells(\h24, length)
           c4 == Cells(\h28, position)
           c5 == Cells(\h2c, s)
           c6 == Cells(\h38, tempo)
           cells == {c1, c2, c3, c4, c5, c6}
           p == PositionPacket(s)
           bpm == 12800
           meant == [device_number |-> Player, position_ms |-> position, effective_bpm |-> bpm,
                     pitch |-> pitch]
<1>2. Broadcast(BeatPort, p, "precise", <<meant>>)
    BY <1>1
<1>0. p = Packet(\h3c, \h0b, cells)
    BY DEF PositionPacket, NameOffset, DeviceNumberOffset, PrecisePositionLength
<1> HIDE DEF p
<1>3. /\ Len(length) = 4 /\ DOMAIN length = 1..4 /\ \A k \in 1..4 : length[k] \in Byte
      /\ Len(position) = 4 /\ DOMAIN position = 1..4 /\ \A k \in 1..4 : position[k] \in Byte
      /\ Len(tempo) = 4 /\ DOMAIN tempo = 1..4 /\ \A k \in 1..4 : tempo[k] \in Byte
    BY DEF Byte
<1>4. Len(s) = 4 /\ DOMAIN s = 1..4 /\ \A k \in 1..4 : s[k] \in Byte
    BY DEF Percentages, Byte
<1>5. position = [i \in 1..4 |-> position[i]]
    OBVIOUS
<1>6. s = [i \in 1..4 |-> s[i]]
    BY DEF Percentages
<1>7. tempo[1] = 0 /\ tempo[2] = 0 /\ tempo[3] = 5 /\ tempo[4] = 0
    OBVIOUS
<1> HIDE DEF length, position, tempo, pitch, bpm
<1>8. Four(c3, \h24, length) /\ Four(c4, \h28, position) /\ Four(c5, \h2c, s) /\ Four(c6, \h38, tempo)
    BY <1>3, <1>4, FourIs
<1>9. One(c0, \h0a, \h0b) /\ One(c1, \h0b, CommandName) /\ One(c2, \h21, Player)
    BY Given, Literals, OneIs, NameIs
<1> HIDE DEF c0, c1, c2, c3, c4, c5, c6
<1>10. Apart(cells \union {c0})
    BY <1>8, <1>9 DEF Apart, One, Four
<1>11. \A c \in cells : GoodCell(c)
    BY <1>8, <1>9 DEF One, Four
<1>12. IsPacket(p) /\ Reads(p, \h3c, \h0b, cells)
    BY <1>0, <1>10, <1>11, Built, Literals DEF c0
<1>13. p.size = \h3c /\ At(p, \h21) = Player
    BY <1>9, <1>12 DEF Reads, One
<1>14. BytesAt(p, \h28, 4) = position
    <2>1. At(p, \h28) = position[1] /\ At(p, \h29) = position[2] /\ At(p, \h2a) = position[3] /\ At(p, \h2b) = position[4]
        BY <1>8, <1>12 DEF Reads, Four
    <2> QED
        BY <1>5, <1>13, <2>1, ReadFour
<1>15. BytesAt(p, \h2c, 4) = s
    <2>1. At(p, \h2c) = s[1] /\ At(p, \h2d) = s[2] /\ At(p, \h2e) = s[3] /\ At(p, \h2f) = s[4]
        BY <1>8, <1>12 DEF Reads, Four
    <2> QED
        BY <1>6, <1>13, <2>1, ReadFour
<1>16. 10 * BytesToNumber(p, \h38, 4) = bpm
    <2>1. At(p, \h38) = 0 /\ At(p, \h39) = 0 /\ At(p, \h3a) = 5 /\ At(p, \h3b) = 0
        BY <1>7, <1>8, <1>12 DEF Reads, Four
    <2>2. BytesToNumber(p, \h38, 4) = 256 * 5 + 0
        <3>1. 5 \in Byte /\ 0 \in Byte
            BY Literals
        <3> QED
            BY <1>13, <2>1, <3>1, FourNumber
    <2> QED
        BY <2>2, SMT DEF bpm
<1>17. PitchFromPercentage(SignedAt(p, \h2c)) = pitch
    BY <1>13, <1>15, PitchRead DEF pitch
<1>18. ParseHeader(p) = "PrecisePosition" /\ ParseHeaderOnPort(p, BeatPort) = "PrecisePosition"
    BY <1>12, HeaderOf, Types, BeatTypes
<1> DEFINE e == ParsePrecisePosition(p)[1]
<1>19. /\ ParsePrecisePosition(p) = <<e>>
       /\ DOMAIN e = {"name", "device_number", "track_length", "position_ms", "pitch", "effective_bpm"}
       /\ e.device_number = At(p, \h21) /\ e.position_ms = BytesAt(p, \h28, 4)
       /\ e.pitch = PitchFromPercentage(SignedAt(p, \h2c)) /\ e.effective_bpm = 10 * BytesToNumber(p, \h38, 4)
    BY <1>13, <1>18 DEF ParsePrecisePosition, PrecisePositionLength, DeviceNumberOffset
<1> HIDE DEF e
<1>20. BeatStream(p) = <<"precise", <<e>> >>
    BY <1>18, <1>19 DEF BeatStream
<1>21. Agrees(e, meant)
    BY <1>13, <1>14, <1>16, <1>17, <1>19 DEF Agrees
<1> HIDE DEF meant
<1> QED
    BY <1>2, <1>12, <1>20, <1>21, BeatPortSends, Owners DEF Stream

-----------------------------------------------------------------------------
(* Commands and settings on the status port *)

\* On the status port two listeners get each packet: which of them it is not for.
LEMMA StatusTypes ==
    /\ PacketTypeOnPort(\h02, StatusPort) = "DeviceClaimStage2" /\ PacketTypeOnPort(\h19, StatusPort) = "Unknown"
    /\ PacketTypeOnPort(\h34, StatusPort) = "Unknown" /\ PacketTypeOnPort(\h05, StatusPort) = "Unknown"
    /\ PacketTypeOnPort(\h0a, StatusPort) = "CdjStatus" /\ PacketTypeOnPort(\h29, StatusPort) = "MixerStatus"
BY Types DEF PacketTypeOnPort, BeatPort, StatusPort

\* A packet of another type is no status,
LEMMA NoStatus ==
    ASSUME NEW p, NEW size \in Nat, size > \h0a, NEW type \in {\h02, \h19, \h34, \h05}, NEW cells,
           Reads(p, size, type, cells)
    PROVE  Silent("status", p)
<1>1. ParseHeaderOnPort(p, StatusPort) = PacketTypeOnPort(type, StatusPort)
    BY HeaderOf
<1>2. ParseHeaderOnPort(p, StatusPort) \in {"DeviceClaimStage2", "Unknown"}
    BY <1>1, StatusTypes
<1>3. ParseStatus(p) = <<>>
    BY <1>2 DEF ParseStatus
<1>4. Outcome("status", p) = <<"status", <<>> >>
    BY <1>3, Outcomes
<1> QED
    BY <1>4 DEF Silent

\* and no command.
LEMMA NoCommand ==
    ASSUME NEW p, NEW size \in Nat, size > \h0a, NEW type, type # \h02, type # \h19, NEW cells,
           Reads(p, size, type, cells)
    PROVE  Silent("commands", p)
<1>1. TryParseCommand(p) = <<>>
    BY DEF Reads, TryParseCommand, MinPacketSize
<1>2. Outcome("commands", p) = <<"command", <<>> >>
    BY <1>1, Outcomes
<1> QED
    BY <1>2 DEF Silent

\* The media query, which nobody answers to
LEMMA MediaQuerySound == ASSUME MediaQuery PROVE Sends
<1>1. PICK slot \in Values(TrackSourceSlot) :
         Broadcast(StatusPort, BuildMediaQuery(Me, Player, slot), "media", <<>>)
    BY DEF MediaQuery
<1> DEFINE byte == ToByte(TrackSourceSlot, slot)
           c0 == Cells(\h0a, <<\h05>>)
           c == Cells(\h0c, <<CommandName>>)
           d == Cells(\h21, <<Me, Player, byte>>)
           p == BuildMediaQuery(Me, Player, slot)
<1>2. byte \in Byte
    BY Tables, TableTrip
<1>3. p = Packet(\h24, \h05, {c, d})
    BY DEF BuildMediaQuery
<1> HIDE DEF byte, p
<1>4. One(c0, \h0a, \h05) /\ One(c, \h0c, CommandName) /\ Three(d, \h21, Me, Player, byte)
    BY <1>2, Given, Literals, OneIs, NameIs, ThreeIs
<1> HIDE DEF c0, c, d
<1>5. Apart({c, d} \union {c0})
    BY <1>4 DEF Apart, One, Three
<1>6. \A x \in {c, d} : GoodCell(x)
    BY <1>4 DEF One, Three
<1>7. IsPacket(p) /\ Reads(p, \h24, \h05, {c, d})
    BY <1>3, <1>5, <1>6, Built, Literals DEF c0
<1>8. Silent("status", p) /\ Silent("commands", p)
    BY <1>7, NoStatus, NoCommand
<1>9. Sound({"status", "commands"}, p, "media", <<>>)
    BY <1>7, <1>8, Unheard DEF Stream
<1>10. Emit(StatusPort, {"status", "commands"}, p, "media", <<>>)
    BY <1>1, Listeners DEF Broadcast, p
<1>11. Implied(p, "media", <<>>)
    <2>1. p.size < MinMediaDetailsSize
        BY <1>7 DEF Reads, MinMediaDetailsSize
    <2>2. ParseMediaDetails(p) = <<>>
        BY <2>1 DEF ParseMediaDetails
    <2> QED
        BY <2>2 DEF Implied
<1> QED
    BY <1>9, <1>10, <1>11 DEF Sends

\* It is sound to send a command that the command listener tells as it was meant.
LEMMA CommandSends ==
    ASSUME NEW p, NEW e, NEW meant, NEW size \in Nat, size > \h0a, NEW type \in {\h02, \h19}, NEW cells,
           IsPacket(p), Reads(p, size, type, cells), TryParseCommand(p) = <<e>>, Agrees(e, meant),
           Broadcast(StatusPort, p, "command", <<meant>>)
    PROVE  Sends
<1>1. Silent("status", p)
    BY NoStatus
<1>2. Outcome("commands", p) = <<"command", <<e>> >> /\ Owner("command") = "commands"
    BY Outcomes, Owners
<1>3. Sound({"status", "commands"}, p, "command", <<meant>>)
    BY <1>1, <1>2, HeardOne DEF Stream
<1>4. Emit(StatusPort, {"status", "commands"}, p, "command", <<meant>>)
    BY Listeners DEF Broadcast
<1> QED
    BY <1>3, <1>4, Unimplied DEF Sends

\* fader_start
LEMMA FaderStartSound == ASSUME FaderStart PROVE Sends
<1>1. PICK target \in {1, Player, Me}, start \in BOOLEAN :
         Broadcast(StatusPort, BuildFaderStartSingle(Me, target, start), "command",
            <<[kind |-> "FaderStart", source_device |-> Me,
               channels |-> [i \in 1..4 |-> CASE i # SingleChannel(target) -> "NoChange"
                               [] i = SingleChannel(target) /\ start -> "Start"
                               [] OTHER -> "Stop"]]>>)
    BY DEF FaderStart
<1> DEFINE one == SingleChannel(target)
           action == IF start THEN "Start" ELSE "Stop"
           channels == [[i \in 1..4 |-> "NoChange"] EXCEPT ![one] = action]
           said == [i \in 1..4 |-> CASE i # one -> "NoChange"
                               [] i = one /\ start -> "Start" [] OTHER -> "Stop"]
           p == BuildFaderStart(Me, channels)
           meant == [kind |-> "FaderStart", source_device |-> Me, channels |-> said]
           e == [kind |-> "FaderStart", source_device |-> At(p, \h21), channels |-> Faders(p)]
<1>2. Broadcast(StatusPort, p, "command", <<meant>>)
    BY <1>1 DEF BuildFaderStartSingle
<1>3. one \in 1..4 /\ Me \in Byte
    <2>1. target \in Byte /\ Me \in Byte
        BY Given, Literals
    <2> QED
        BY <2>1 DEF SingleChannel, Byte
<1> HIDE DEF one
<1>4. channels \in [1..4 -> {"Start", "Stop", "NoChange"}]
    BY <1>3
<1>5. channels = said
    BY <1>3
<1> HIDE DEF channels, said
<1>6. /\ IsPacket(p) /\ p.size = \h2c /\ p.magic = TRUE /\ At(p, \h0a) = \h02
      /\ At(p, \h21) = Me /\ Faders(p) = channels
    BY <1>3, <1>4, FadersRead, Zenon
<1> HIDE DEF p
<1>7. Reads(p, \h2c, \h02, {})
    BY <1>6 DEF Reads
<1>8. ParseIncomingFaderStart(p) = <<e>>
    BY <1>6 DEF ParseIncomingFaderStart, Faders
<1> HIDE DEF e
<1>9. TryParseCommand(p) = <<e>>
    BY <1>6, <1>8 DEF TryParseCommand, MinPacketSize
<1>10. Agrees(e, meant)
    BY <1>5, <1>6 DEF e, Agrees
<1> HIDE DEF meant
<1> QED
    BY <1>2, <1>6, <1>7, <1>9, <1>10, CommandSends

\* load_track
LEMMA LoadTrackSound == ASSUME LoadTrack PROVE Sends
<1>1. PICK slot \in Values(TrackSourceSlot), type \in Values(TrackType) :
         Broadcast(StatusPort, BuildLoadTrack(Me, Player, Player, slot, type, <<0, 0, 1, 2>>), "command",
            <<[kind |-> "LoadTrack", source_device |-> Me, source_player |-> Player,
               source_slot |-> slot, track_type |-> type, rekordbox_id |-> <<0, 0, 1, 2>>]>>)
    BY DEF LoadTrack
<1> DEFINE id == <<0, 0, 1, 2>>
           a == ToByte(TrackSourceSlot, slot)
           b == ToByte(TrackType, type)
           deck == IF Player = 0 THEN 0 ELSE Player - 1
           c1 == Cells(\h24, <<Me>>)
           c2 == Cells(\h28, <<Player, a, b>>)
           c3 == Cells(\h2c, id)
           c4 == Cells(\h38, <<\h32>>)
           c5 == Cells(\h40, <<deck>>)
           cells == {c1, c2, c3, c4, c5}
           p == BuildLoadTrack(Me, Player, Player, slot, type, id)
           meant == [kind |-> "LoadTrack", source_device |-> Me, source_player |-> Player,
                     source_slot |-> slot, track_type |-> type, rekordbox_id |-> id]
<1>2. Broadcast(StatusPort, p, "command", <<meant>>)
    BY <1>1
<1>3. /\ a \in Byte /\ FromByte(TrackSourceSlot, a) = slot
      /\ b \in Byte /\ FromByte(TrackType, b) = type
    BY Tables, TableTrip
<1>4. Me \in Byte /\ Player \in Byte /\ deck \in Byte /\ \h32 \in Byte /\ \h19 \in Byte
    BY Given, Literals DEF Byte
<1>5. p = Command(\h19, Me, \h34, cells)
    BY DEF BuildLoadTrack
<1>6. Len(id) = 4 /\ DOMAIN id = 1..4 /\ (\A k \in 1..4 : id[k] \in Byte) /\ id = [i \in 1..4 |-> id[i]]
    BY DEF Byte
<1> HIDE DEF a, b, deck, id, p
<1>7. One(c1, \h24, Me) /\ Three(c2, \h28, Player, a, b) /\ One(c4, \h38, \h32) /\ One(c5, \h40, deck)
    BY <1>3, <1>4, OneIs, ThreeIs
<1>8. Four(c3, \h2c, id)
    BY <1>6, FourIs
<1> HIDE DEF c1, c2, c3, c4, c5
<1>9. Beyond(cells) /\ Apart(cells)
    BY <1>7, <1>8 DEF Beyond, Apart, One, Three, Four
<1>10. \h34 \in TwoByte
    BY DEF TwoByte
<1>11. IsPacket(p) /\ Reads(p, \h24 + \h34, \h19, cells) /\ At(p, \h21) = Me
    <2> HIDE DEF cells
    <2> QED
        BY <1>4, <1>5, <1>9, <1>10, Commanded
<1>12. p.size = \h58 /\ p.magic = TRUE /\ At(p, \h0a) = \h19
    BY <1>11 DEF Reads
<1>13. At(p, \h28) = Player /\ At(p, \h29) = a /\ At(p, \h2a) = b
    BY <1>7, <1>11 DEF Reads, Three
<1>14. BytesAt(p, \h2c, 4) = id
    <2>1. At(p, \h2c) = id[1] /\ At(p, \h2d) = id[2] /\ At(p, \h2e) = id[3] /\ At(p, \h2f) = id[4]
        BY <1>8, <1>11 DEF Reads, Four
    <2> QED
        BY <1>6, <1>12, <2>1, ReadFour
<1> DEFINE e == ParseIncomingLoadTrack(p)[1]
<1>15. /\ ParseIncomingLoadTrack(p) = <<e>>
       /\ DOMAIN e = {"kind", "source_device", "source_player", "source_slot", "track_type", "rekordbox_id"}
       /\ e.kind = "LoadTrack" /\ e.source_device = At(p, \h21) /\ e.source_player = At(p, \h28)
       /\ e.source_slot = FromByte(TrackSourceSlot, At(p, \h29))
       /\ e.track_type = FromByte(TrackType, At(p, \h2a)) /\ e.rekordbox_id = BytesAt(p, \h2c, 4)
    BY <1>12 DEF ParseIncomingLoadTrack
<1> HIDE DEF e
<1>16. TryParseCommand(p) = <<e>>
    BY <1>12, <1>15 DEF TryParseCommand, MinPacketSize
<1>17. Agrees(e, meant)
    BY <1>3, <1>11, <1>13, <1>14, <1>15 DEF Agrees
<1> HIDE DEF meant
<1>18. \h24 + \h34 \in Nat /\ \h24 + \h34 > \h0a
    OBVIOUS
<1> QED
    BY <1>2, <1>11, <1>16, <1>17, <1>18, CommandSends

\* The settings of a player, each a byte.
GoodSetting(s) ==
    /\ s.first \in {\h80, \h81} /\ \E n \in 1..18 : DOMAIN s.names = 1..n
    /\ \E i \in DOMAIN s.names : s.names[i] = s.default

\* The settings' cells are good.
LEMMA GoodSettings == \A o \in DOMAIN SettingAt : GoodSetting(SettingAt[o])
<1>1. GoodSetting(LcdBrightness)
    BY DEF GoodSetting, LcdBrightness, Setting
<1>2. GoodSetting(JogMode)
    BY DEF GoodSetting, JogMode, Setting
<1>3. GoodSetting(AutoCueLevel)
    BY DEF GoodSetting, AutoCueLevel, Setting
<1>4. GoodSetting(TempoRange)
    BY DEF GoodSetting, TempoRange, Setting
<1>5. GoodSetting(Language)
    BY DEF GoodSetting, Language, Setting
<1>6. GoodSetting(TimeDisplayMode)
    BY DEF GoodSetting, TimeDisplayMode, Setting
<1>7. GoodSetting(PlayMode)
    BY DEF GoodSetting, PlayMode, Setting
<1>8. GoodSetting(QuantizeMode)
    BY DEF GoodSetting, QuantizeMode, Setting
<1> QED
    BY <1>1, <1>2, <1>3, <1>4, <1>5, <1>6, <1>7, <1>8 DEF SettingAt

\* A setting written as its byte is read back.
LEMMA SettingTrip ==
    ASSUME NEW s, GoodSetting(s), NEW name, \E i \in DOMAIN s.names : s.names[i] = name
    PROVE  SettingByte(s, name) \in Byte /\ SettingFrom(s, SettingByte(s, name)) = name
<1> DEFINE j == CHOOSE i \in DOMAIN s.names : s.names[i] = name
           first == s.first
           byte == first - 1 + j
<1>1. j \in DOMAIN s.names /\ s.names[j] = name
    OBVIOUS
<1>2. SettingByte(s, name) = byte
    BY DEF SettingByte
<1> HIDE DEF j
<1>3. PICK n \in 1..18 : DOMAIN s.names = 1..n
    BY DEF GoodSetting
<1>4. j \in 1..18 /\ first \in {\h80, \h81}
    <2>1. j \in 1..n
        BY <1>1, <1>3
    <2>2. first \in {\h80, \h81}
        BY DEF GoodSetting
    <2> QED
        BY <2>1, <2>2
<1>5. byte \in Byte /\ byte - first + 1 = j
    <2> HIDE DEF first
    <2> QED
        BY <1>4 DEF Byte
<1> HIDE DEF byte
<1>6. SettingFrom(s, byte) = name
    BY <1>1, <1>5 DEF SettingFrom
<1> QED
    BY <1>2, <1>5, <1>6

\* Where settings are.
LEMMA SettingOffsets == DOMAIN SettingAt = {\h24, \h25, \h26, \h27, \h28, \h2c, \h30, \h31}
BY DEF SettingAt

\* send_load_settings_command
LEMMA SendLoadSettingsSound == ASSUME SendLoadSettings PROVE Sends
<1>1. PICK o \in DOMAIN SettingAt : \E i \in DOMAIN SettingAt[o].names :
         LET settings == [DefaultSettings EXCEPT ![o] = SettingAt[o].names[i]]
         IN  Emit(StatusPort, Listens(StatusPort) \union {"player"}, BuildSettings(settings, Me, Player),
                  "settings", <<[target |-> Player, settings |-> settings]>>)
    BY DEF SendLoadSettings
<1>2. PICK i \in DOMAIN SettingAt[o].names :
         LET settings == [DefaultSettings EXCEPT ![o] = SettingAt[o].names[i]]
         IN  Emit(StatusPort, Listens(StatusPort) \union {"player"}, BuildSettings(settings, Me, Player),
                  "settings", <<[target |-> Player, settings |-> settings]>>)
    BY <1>1
<1> DEFINE settings == [DefaultSettings EXCEPT ![o] = SettingAt[o].names[i]]
           to == {"status", "commands", "player"}
           c == [x \in DOMAIN SettingAt |-> SettingByte(SettingAt[x], settings[x])]
           d == Cells(\h37, <<Player>>)
           cells == {c, d}
           p == BuildSettings(settings, Me, Player)
           meant == [target |-> Player, settings |-> settings]
<1>3. Emit(StatusPort, to, p, "settings", <<meant>>)
    <2>1. Listens(StatusPort) \union {"player"} = to
        BY Listeners
    <2> QED
        BY <1>2, <2>1
<1>4. DOMAIN settings = DOMAIN SettingAt /\ settings = [x \in DOMAIN SettingAt |-> settings[x]]
    BY DEF DefaultSettings
<1>5. ASSUME NEW x \in DOMAIN SettingAt PROVE \E j \in DOMAIN SettingAt[x].names : SettingAt[x].names[j] = settings[x]
    <2>1. CASE x = o
        BY <2>1 DEF DefaultSettings
    <2>2. CASE x # o
        <3>1. settings[x] = SettingAt[x].default
            BY <2>2 DEF DefaultSettings
        <3> QED
            BY <3>1, GoodSettings DEF GoodSetting
    <2> QED
        BY <2>1, <2>2
<1>6. p = Command(\h34, Me, \h14, cells)
    BY DEF BuildSettings
<1> HIDE DEF p, settings
<1>7. DOMAIN c = DOMAIN SettingAt /\ \A x \in DOMAIN SettingAt :
         c[x] = SettingByte(SettingAt[x], settings[x]) /\ c[x] \in Byte /\ SettingFrom(SettingAt[x], c[x]) = settings[x]
    <2>1. ASSUME NEW x \in DOMAIN SettingAt
          PROVE  /\ SettingByte(SettingAt[x], settings[x]) \in Byte
                 /\ SettingFrom(SettingAt[x], SettingByte(SettingAt[x], settings[x])) = settings[x]
        <3>1. GoodSetting(SettingAt[x])
            BY GoodSettings
        <3>2. \E j \in DOMAIN SettingAt[x].names : SettingAt[x].names[j] = settings[x]
            BY <1>5
        <3> QED
            BY <3>1, <3>2, SettingTrip
    <2> QED
        BY <2>1
<1>8. One(d, \h37, Player)
    BY Given, OneIs
<1> HIDE DEF c, d
<1>9. GoodCell(c)
    BY <1>7, SettingOffsets DEF GoodCell, IsCell
<1>10. Beyond(cells) /\ Apart(cells)
    BY <1>7, <1>8, <1>9, SettingOffsets DEF Beyond, Apart, One
<1>11. \h14 \in TwoByte /\ \h34 \in Byte /\ Me \in Byte
    BY Given, Literals DEF TwoByte
<1>12. IsPacket(p) /\ Reads(p, \h24 + \h14, \h34, cells) /\ p.size > \h37
    <2> HIDE DEF cells
    <2>1. IsPacket(p) /\ Reads(p, \h24 + \h14, \h34, cells)
        BY <1>6, <1>10, <1>11, Commanded
    <2> QED
        BY <2>1 DEF Reads
<1>13. At(p, \h37) = Player /\ \A x \in DOMAIN SettingAt : At(p, x) = c[x]
    BY <1>7, <1>8, <1>12, SettingOffsets DEF Reads, One
<1> DEFINE told == [x \in DOMAIN SettingAt |-> SettingFrom(SettingAt[x], At(p, x))]
           e == [target |-> At(p, \h37), settings |-> told]
<1>14. told = settings
    BY <1>4, <1>7, <1>13
<1>15. ReadSettings(p) = <<e>>
    BY DEF ReadSettings
<1> HIDE DEF told
<1>16. Agrees(e, meant)
    BY <1>13, <1>14 DEF Agrees
<1> HIDE DEF e, meant
<1>17. Silent("status", p) /\ Silent("commands", p)
    <2>1. \h24 + \h14 \in Nat /\ \h24 + \h14 > \h0a
        OBVIOUS
    <2> QED
        BY <1>12, <2>1, NoStatus, NoCommand
<1>18. Outcome("player", p) = <<"settings", <<e>> >> /\ Owner("settings") = "player"
    BY <1>15, Outcomes, Owners
<1>19. Sound(to, p, "settings", <<meant>>)
    BY <1>12, <1>16, <1>17, <1>18, HeardOne DEF Stream
<1> QED
    BY <1>3, <1>19, Unimplied DEF Sends

-----------------------------------------------------------------------------
(* The status the virtual CDJ broadcasts *)

\* What cells are read as.
LEMMA OneAt ==
    ASSUME NEW p, NEW size \in Nat, NEW type, NEW cells, Reads(p, size, type, cells), NEW c \in cells,
           NEW o \in Nat, o < size, NEW a, One(c, o, a)
    PROVE  At(p, o) = a
BY DEF Reads, One

\* Two,
LEMMA TwoAt ==
    ASSUME NEW p, NEW size \in Nat, NEW type, NEW cells, Reads(p, size, type, cells), NEW c \in cells,
           NEW o \in Nat, o + 2 <= size, NEW n \in TwoByte, Two(c, o, High(n), Low(n))
    PROVE  BytesToNumber(p, o, 2) = n
<1>1. At(p, o) = High(n) /\ At(p, o + 1) = Low(n)
    BY DEF Reads, Two
<1>2. p.size \in Nat /\ o + 2 <= p.size
    BY DEF Reads
<1> QED
    BY <1>1, <1>2, ReadTwo

\* three
LEMMA ThreeAt ==
    ASSUME NEW p, NEW size \in Nat, NEW type, NEW cells, Reads(p, size, type, cells), NEW c \in cells,
           NEW o \in Nat, o + 3 <= size, NEW n \in ThreeByte, Three(c, o, Top(n), High(n), Low(n))
    PROVE  BytesToNumber(p, o, 3) = n
<1>1. At(p, o) = Top(n) /\ At(p, o + 1) = High(n) /\ At(p, o + 2) = Low(n)
    BY DEF Reads, Three
<1>2. p.size \in Nat /\ o + 3 <= p.size
    BY DEF Reads
<1> QED
    BY <1>1, <1>2, ReadThree

\* and four of them.
LEMMA FourAt ==
    ASSUME NEW p, NEW size \in Nat, NEW type, NEW cells, Reads(p, size, type, cells), NEW c \in cells,
           NEW o \in Nat, o + 4 <= size, NEW s, s = [i \in 1..4 |-> s[i]], Four(c, o, s)
    PROVE  BytesAt(p, o, 4) = s
<1>1. At(p, o) = s[1] /\ At(p, o + 1) = s[2] /\ At(p, o + 2) = s[3] /\ At(p, o + 3) = s[4]
    BY DEF Reads, Four
<1>2. p.size \in Nat /\ o + 4 <= p.size
    BY DEF Reads
<1> QED
    BY <1>1, <1>2, ReadFour

\* A number of two bytes where it was written.
LEMMA PairAt ==
    ASSUME NEW p, NEW size \in Nat, NEW type, NEW cells, Reads(p, size, type, cells), NEW c \in cells,
           NEW o \in Nat, o + 2 <= size, NEW a \in Byte, NEW b \in Byte, Two(c, o, a, b)
    PROVE  BytesToNumber(p, o, 2) = 256 * a + b
<1> DEFINE low(i) == IF i <= 2 THEN At(p, o + 2 - i) ELSE 0
<1>0. p.size \in Nat /\ o + 2 <= p.size
    BY DEF Reads
<1>1. BytesToNumber(p, o, 2) = low(1) + 256 * low(2) + 65536 * low(3) + 16777216 * low(4)
    BY <1>0, SMT DEF BytesToNumber
<1>2. low(1) = b /\ low(2) = a /\ low(3) = 0 /\ low(4) = 0
    <2>1. o + 2 - 1 = o + 1 /\ o + 2 - 2 = o /\ 1 <= 2 /\ 2 <= 2 /\ ~(3 <= 2) /\ ~(4 <= 2)
        OBVIOUS
    <2>2. At(p, o) = a /\ At(p, o + 1) = b
        BY DEF Reads, Two
    <2> QED
        BY <2>1, <2>2
<1> HIDE DEF low
<1>3. a \in Nat /\ b \in Nat
    BY DEF Byte
<1>4. low(1) + 256 * low(2) + 65536 * low(3) + 16777216 * low(4) = 256 * a + b
    BY <1>2, <1>3, SMT
<1> QED
    BY <1>1, <1>4

\* Four blank bytes.
LEMMA FourZeroes ==
    ASSUME NEW a \in Byte, NEW b \in Byte
    PROVE  /\ Len(<<0, 0, a, b>>) = 4 /\ DOMAIN <<0, 0, a, b>> = 1..4
           /\ \A k \in 1..4 : <<0, 0, a, b>>[k] \in Byte
           /\ <<0, 0, a, b>> = [i \in 1..4 |-> <<0, 0, a, b>>[i]]
BY DEF Byte

\* The flags of a status.
FlagsSum(playing, master, synced) ==
    (IF playing THEN 64 ELSE 0) + (IF master THEN 32 ELSE 0) + (IF synced THEN 16 ELSE 0) + 8

FlagsTold(n, playing, master, synced) ==
    /\ n \in Byte
    /\ HasBit(n, \h40) = playing /\ HasBit(n, \h20) = master /\ HasBit(n, \h10) = synced
    /\ HasBit(n, \h08) = TRUE /\ HasBit(n, \h02) = FALSE

\* Each flag of a status is told from the byte that holds all five.
LEMMA FlagsTrip ==
    ASSUME NEW playing \in BOOLEAN, NEW master \in BOOLEAN, NEW synced \in BOOLEAN
    PROVE  FlagsTold(FlagsSum(playing, master, synced), playing, master, synced)
<1> DEFINE n == FlagsSum(playing, master, synced)
<1>0. n = (IF playing THEN 64 ELSE 0) + (IF master THEN 32 ELSE 0) + (IF synced THEN 16 ELSE 0) + 8
    BY Zenon DEF FlagsSum
<1> HIDE DEF n
<1>1. n \in {8, 24, 40, 56, 72, 88, 104, 120}
    BY <1>0
<1>2. n \in Byte /\ n # Panic
    <2>1. n \in Byte
        BY <1>1 DEF Byte
    <2> QED
        BY <2>1, NoBytePanics
<1>3. \A k : HasBit(n, k) = ((n \div k) % 2 = 1)
    BY <1>2 DEF HasBit
<1>4. ((n \div 64) % 2 = 1) = playing
    BY <1>0, <1>1
<1>5. ((n \div 32) % 2 = 1) = master
    BY <1>0, <1>1
<1>6. ((n \div 16) % 2 = 1) = synced
    BY <1>0, <1>1
<1>7. ((n \div 8) % 2 = 1) = TRUE /\ ((n \div 2) % 2 = 1) = FALSE
    BY <1>0, <1>1
<1>8. HasBit(n, \h40) = playing
    BY <1>3, <1>4, Zenon
<1>9. HasBit(n, \h20) = master
    BY <1>3, <1>5, Zenon
<1>10. HasBit(n, \h10) = synced
    BY <1>3, <1>6, Zenon
<1>11. HasBit(n, \h08) = TRUE /\ HasBit(n, \h02) = FALSE
    BY <1>3, <1>7, Zenon
<1>12. FlagsTold(n, playing, master, synced)
    BY <1>2, <1>8, <1>9, <1>10, <1>11 DEF FlagsTold
<1> QED
    BY <1>12 DEF n

\* The cells of build_cdj_status,
LEMMA CdjFields ==
    ASSUME NEW p
    PROVE  /\ {"kind", "device_number", "device_type", "track_source_player", "track_source_slot",
               "track_type", "rekordbox_id", "play_state", "is_playing_flag", "is_master", "is_synced",
               "is_bpm_synced", "is_on_air", "firmware_version", "sync_number", "bpm", "pitch",
               "beat_number", "beat_within_bar", "master_hand_off", "loop_start", "loop_end",
               "loop_beats", "is_busy", "track_number", "cue_countdown", "packet_number",
               "local_usb_state", "local_sd_state", "link_media_available", "local_disc_state",
               "disc_track_count"} \subseteq DOMAIN CdjStatus(p)
           /\ CdjStatus(p).kind = "Cdj" /\ CdjStatus(p).device_number = At(p, \h21)
           /\ CdjStatus(p).device_type = FromByte(DeviceType, At(p, \h23))
           /\ CdjStatus(p).track_source_player = At(p, \h28)
           /\ CdjStatus(p).track_source_slot = FromByte(TrackSourceSlot, At(p, \h29))
           /\ CdjStatus(p).track_type = FromByte(TrackType, At(p, \h2a))
           /\ CdjStatus(p).rekordbox_id = BytesAt(p, \h2c, 4)
           /\ CdjStatus(p).play_state = FromByte(PlayState, At(p, \h7b))
           /\ CdjStatus(p).firmware_version = ReadDeviceName(p, \h7c)
           /\ CdjStatus(p).sync_number = BytesAt(p, \h84, 4)
           /\ CdjStatus(p).bpm = BytesToNumber(p, \h92, 2) /\ CdjStatus(p).pitch = BytesToNumber(p, \h8d, 3)
           /\ CdjStatus(p).beat_number = Unless(FourBytes, BytesAt(p, \ha0, 4))
           /\ CdjStatus(p).beat_within_bar = At(p, \ha6)
           /\ CdjStatus(p).master_hand_off = Unless(NoHandOff, At(p, \h9f))
           /\ CdjStatus(p).loop_start = IF p.size >= LoopThreshold THEN LoopPosition(p, \h1b6) ELSE None
           /\ CdjStatus(p).loop_end = IF p.size >= LoopThreshold THEN LoopPosition(p, \h1be) ELSE None
           /\ CdjStatus(p).loop_beats = IF p.size >= LoopThreshold THEN BytesToNumber(p, \h1c8, 2) ELSE None
           /\ CdjStatus(p).is_busy = NonZero(At(p, \h27)) /\ CdjStatus(p).track_number = BytesToNumber(p, \h32, 2)
           /\ CdjStatus(p).cue_countdown = Unless(\h01ff, BytesToNumber(p, \ha4, 2))
           /\ CdjStatus(p).packet_number = IF p.size >= \hc8 + 4 THEN BytesAt(p, \hc8, 4) ELSE <<0, 0, 0, 0>>
           /\ CdjStatus(p).local_usb_state = At(p, \h6f) /\ CdjStatus(p).local_sd_state = At(p, \h73)
           /\ CdjStatus(p).link_media_available = NonZero(At(p, \h75))
           /\ CdjStatus(p).local_disc_state = At(p, \h37)
           /\ CdjStatus(p).disc_track_count = BytesToNumber(p, \h46, 2)
<1>0. {"kind", "device_number", "device_type", "track_source_player", "track_source_slot", "track_type", "rekordbox_id", "play_state", "is_playing_flag", "is_master", "is_synced", "is_bpm_synced", "is_on_air", "firmware_version", "sync_number", "bpm", "pitch", "beat_number", "beat_within_bar", "master_hand_off", "loop_start", "loop_end", "loop_beats", "is_busy", "track_number", "cue_countdown", "packet_number", "local_usb_state", "local_sd_state", "link_media_available", "local_disc_state", "disc_track_count"} \subseteq DOMAIN CdjStatus(p)
    BY DEF CdjStatus
<1>1. CdjStatus(p).kind = "Cdj" /\ CdjStatus(p).device_number = At(p, \h21) /\ CdjStatus(p).device_type = FromByte(DeviceType, At(p, \h23))
    BY DEF CdjStatus, DeviceNumberOffset, DeviceTypeOffset
<1>2. CdjStatus(p).track_source_player = At(p, \h28) /\ CdjStatus(p).track_source_slot = FromByte(TrackSourceSlot, At(p, \h29)) /\ CdjStatus(p).track_type = FromByte(TrackType, At(p, \h2a))
    BY DEF CdjStatus, DeviceNumberOffset, DeviceTypeOffset
<1>3. CdjStatus(p).rekordbox_id = BytesAt(p, \h2c, 4) /\ CdjStatus(p).play_state = FromByte(PlayState, At(p, \h7b)) /\ CdjStatus(p).firmware_version = ReadDeviceName(p, \h7c)
    BY DEF CdjStatus, DeviceNumberOffset, DeviceTypeOffset
<1>4. CdjStatus(p).sync_number = BytesAt(p, \h84, 4) /\ CdjStatus(p).bpm = BytesToNumber(p, \h92, 2) /\ CdjStatus(p).pitch = BytesToNumber(p, \h8d, 3)
    BY DEF CdjStatus, DeviceNumberOffset, DeviceTypeOffset
<1>5. CdjStatus(p).beat_number = Unless(FourBytes, BytesAt(p, \ha0, 4)) /\ CdjStatus(p).beat_within_bar = At(p, \ha6) /\ CdjStatus(p).master_hand_off = Unless(NoHandOff, At(p, \h9f))
    BY DEF CdjStatus, DeviceNumberOffset, DeviceTypeOffset
<1>6. (CdjStatus(p).loop_start = IF p.size >= LoopThreshold THEN LoopPosition(p, \h1b6) ELSE None) /\ (CdjStatus(p).loop_end = IF p.size >= LoopThreshold THEN LoopPosition(p, \h1be) ELSE None) /\ (CdjStatus(p).loop_beats = IF p.size >= LoopThreshold THEN BytesToNumber(p, \h1c8, 2) ELSE None)
    BY DEF CdjStatus, DeviceNumberOffset, DeviceTypeOffset
<1>7. CdjStatus(p).is_busy = NonZero(At(p, \h27)) /\ CdjStatus(p).track_number = BytesToNumber(p, \h32, 2) /\ CdjStatus(p).cue_countdown = Unless(\h01ff, BytesToNumber(p, \ha4, 2))
    BY DEF CdjStatus, DeviceNumberOffset, DeviceTypeOffset
<1>8. (CdjStatus(p).packet_number = IF p.size >= \hc8 + 4 THEN BytesAt(p, \hc8, 4) ELSE <<0, 0, 0, 0>>) /\ CdjStatus(p).local_usb_state = At(p, \h6f) /\ CdjStatus(p).local_sd_state = At(p, \h73)
    BY DEF CdjStatus, DeviceNumberOffset, DeviceTypeOffset
<1>9. CdjStatus(p).link_media_available = NonZero(At(p, \h75)) /\ CdjStatus(p).local_disc_state = At(p, \h37) /\ CdjStatus(p).disc_track_count = BytesToNumber(p, \h46, 2)
    BY DEF CdjStatus, DeviceNumberOffset, DeviceTypeOffset
<1> QED
    BY <1>0, <1>1, <1>2, <1>3, <1>4, <1>5, <1>6, <1>7, <1>8, <1>9

\* The row of a table a byte is in.
LEMMA FromRow ==
    ASSUME NEW table, Table(table), NEW r \in table
    PROVE  FromByte(table, r[1]) = <<r[2]>>
<1>1. r[1] \in Byte /\ r[1] # Panic
    BY NoBytePanics DEF Table
<1>2. IsIn(table, r[1]) /\ NameFor(table, r[1]) = r[2]
    BY NameForRow DEF Table
<1> QED
    BY <1>1, <1>2 DEF FromByte

\* The rows of the bytes of a player's status.
LEMMA PlayerRows ==
    /\ FromByte(TrackSourceSlot, 3) = <<"UsbSlot">> /\ FromByte(TrackType, 1) = <<"Rekordbox">>
    /\ FromByte(PlayState, 3) = <<"Playing">> /\ FromByte(PlayState, 5) = <<"Paused">>
<1>1. Table(PlayState)
    BY DEF Table, PlayState, Byte
<1>2. \A table : Table(table) => \A r \in table : FromByte(table, r[1]) = <<r[2]>>
    BY FromRow
<1>3. ASSUME NEW table, NEW b, NEW name, Table(table), <<b, name>> \in table
      PROVE  FromByte(table, b) = <<name>>
    <2> DEFINE r == <<b, name>>
    <2>1. r[1] = b /\ r[2] = name
        OBVIOUS
    <2> HIDE DEF r
    <2>2. r \in table
        BY <1>3 DEF r
    <2>3. FromByte(table, r[1]) = <<r[2]>>
        BY <1>2, <1>3, <2>2
    <2> QED
        BY <2>1, <2>3
<1>4. <<3, "UsbSlot">> \in TrackSourceSlot /\ <<1, "Rekordbox">> \in TrackType
      /\ <<3, "Playing">> \in PlayState /\ <<5, "Paused">> \in PlayState
    BY DEF TrackSourceSlot, TrackType, PlayState
<1> QED
    BY <1>1, <1>3, <1>4, Tables

\* The play states of a player that plays, and of one that does not.
LEMMA StateRows ==
    /\ FromByte(PlayState2, \h6a) = <<"Moving">> /\ FromByte(PlayState2, \h7a) = <<"Moving">>
    /\ FromByte(PlayState2, \h6e) = <<"Stopped">> /\ FromByte(PlayState2, \h7e) = <<"Stopped">>
    /\ FromByte(PlayState3, \h0d) = <<"ForwardCdj">> /\ FromByte(PlayState3, \h09) = <<"ForwardVinyl">>
<1>1. Table(PlayState2) /\ Table(PlayState3)
    BY DEF Table, PlayState2, PlayState3, Byte
<1>2. \A table : Table(table) => \A r \in table : FromByte(table, r[1]) = <<r[2]>>
    BY FromRow
<1>3. ASSUME NEW table, NEW b, NEW name, Table(table), <<b, name>> \in table
      PROVE  FromByte(table, b) = <<name>>
    <2> DEFINE r == <<b, name>>
    <2>1. r[1] = b /\ r[2] = name
        OBVIOUS
    <2> HIDE DEF r
    <2>2. r \in table
        BY <1>3 DEF r
    <2>3. FromByte(table, r[1]) = <<r[2]>>
        BY <1>2, <1>3, <2>2
    <2> QED
        BY <2>1, <2>3
<1>4. /\ <<\h6a, "Moving">> \in PlayState2 /\ <<\h7a, "Moving">> \in PlayState2
      /\ <<\h6e, "Stopped">> \in PlayState2 /\ <<\h7e, "Stopped">> \in PlayState2
      /\ <<\h0d, "ForwardCdj">> \in PlayState3 /\ <<\h09, "ForwardVinyl">> \in PlayState3
    BY DEF PlayState2, PlayState3
<1> QED
    BY <1>1, <1>3, <1>4

\* What a status says of playing, read from its packet.
LEMMA CdjPlaying ==
    ASSUME NEW p
    PROVE  /\ {"play_state", "play_state_2", "play_state_3", "is_playing_flag", "packet_length"} \subseteq DOMAIN CdjStatus(p)
           /\ CdjStatus(p) = [f \in DOMAIN CdjStatus(p) |-> CdjStatus(p)[f]]
           /\ CdjStatus(p).play_state = FromByte(PlayState, At(p, \h7b))
           /\ CdjStatus(p).play_state_2 = FromByte(PlayState2, At(p, \h8b))
           /\ CdjStatus(p).play_state_3 = FromByte(PlayState3, At(p, \h9d))
           /\ CdjStatus(p).packet_length = p.size
BY DEF CdjStatus

\* The play states and the flag agree when all are those of a player that plays, or of one
\* that is paused; packets too short for the flag do not matter.
LEMMA PlayingIs ==
    ASSUME NEW s, NEW playing \in BOOLEAN, s = [f \in DOMAIN s |-> s[f]],
           {"play_state", "play_state_2", "play_state_3", "is_playing_flag", "packet_length"} \subseteq DOMAIN s,
           s.packet_length >= NexusLen => s.is_playing_flag = playing,
           s.play_state = IF playing THEN <<"Playing">> ELSE <<"Paused">>,
           s.play_state_2 = IF playing THEN <<"Moving">> ELSE <<"Stopped">>,
           playing => s.play_state_3 # <<"PausedOrReverse">>
    PROVE  PlayingAgrees(s)
<1> DEFINE t == [s EXCEPT !.packet_length = MinCdjStatusLen]
<1>1. /\ t.packet_length = MinCdjStatusLen /\ t.play_state = s.play_state /\ t.play_state_2 = s.play_state_2
      /\ ~(MinCdjStatusLen >= NexusLen)
    BY DEF MinCdjStatusLen, NexusLen
<1> HIDE DEF t
<1>2. /\ <<"Playing">> # <<"Paused">> /\ <<"Looping">> # <<"Paused">> /\ <<"Searching">> # <<"Paused">>
      /\ <<"Moving">> # <<"Stopped">>
    OBVIOUS
<1>3. (s.play_state \in {<<"Playing">>, <<"Looping">>, <<"Searching">>} /\ IsMoving(s.play_state_2)) = playing
    BY <1>2 DEF IsMoving
<1>4. IsPlaying(s) = playing
    BY <1>3, Zenon DEF IsPlaying
<1>5. IsPlaying(t) = playing
    <2>1. ~(t.packet_length >= NexusLen)
        BY <1>1
    <2>2. (t.play_state \in {<<"Playing">>, <<"Looping">>, <<"Searching">>} /\ IsMoving(t.play_state_2)) = playing
        BY <1>1, <1>3, Zenon
    <2> QED
        BY <2>1, <2>2, Zenon DEF IsPlaying
<1>6. IsPlayingForwards(s) = playing /\ ~IsPlayingBackwards(s)
    BY <1>2 DEF IsPlayingForwards, IsPlayingBackwards
<1>7. (s.play_state = <<"Playing">>) = playing
    BY <1>2
<1> QED
    BY <1>4, <1>5, <1>6, <1>7, Zenon DEF PlayingAgrees, t

\* and what its flags read as.
LEMMA CdjFlags ==
    ASSUME NEW p
    PROVE  /\ CdjStatus(p).is_playing_flag = HasBit(At(p, \h89), \h40)
           /\ CdjStatus(p).is_master = HasBit(At(p, \h89), \h20)
           /\ CdjStatus(p).is_synced = HasBit(At(p, \h89), \h10)
           /\ CdjStatus(p).is_on_air = HasBit(At(p, \h89), \h08)
           /\ CdjStatus(p).is_bpm_synced = HasBit(At(p, \h89), \h02)
<1> DEFINE flags == FlagsFromByte(At(p, \h89))
<1>1. /\ CdjStatus(p).is_playing_flag = flags.playing /\ CdjStatus(p).is_master = flags.master
      /\ CdjStatus(p).is_synced = flags.synced /\ CdjStatus(p).is_on_air = flags.on_air
      /\ CdjStatus(p).is_bpm_synced = flags.bpm_sync
    BY DEF CdjStatus
<1>2. \A f \in {"playing", "master", "synced", "bpm_sync", "on_air"} :
         flags[f] = HasBit(At(p, \h89), FlagBit[f])
    BY DEF FlagsFromByte, FlagBit
<1>3. /\ FlagBit["playing"] = \h40 /\ FlagBit["master"] = \h20 /\ FlagBit["synced"] = \h10
      /\ FlagBit["on_air"] = \h08 /\ FlagBit["bpm_sync"] = \h02
    BY DEF FlagBit
<1> HIDE DEF flags
<1> QED
    BY <1>1, <1>2, <1>3

\* It is sound to send a status that the status listener tells as it was meant.
LEMMA StatusSends ==
    ASSUME NEW p, NEW e, NEW meant, NEW size \in Nat, size > \h0a, NEW type \in {\h0a, \h29}, NEW cells,
           IsPacket(p), Reads(p, size, type, cells), ParseStatus(p) = <<e>>, Agrees(e, meant),
           PlayingAgrees(e), Broadcast(StatusPort, p, "status", <<meant>>)
    PROVE  Sends
<1>1. Silent("commands", p)
    BY NoCommand
<1>2. Outcome("status", p) = <<"status", <<e>> >> /\ Owner("status") = "status"
    BY Outcomes, Owners
<1>3. Sound({"status", "commands"}, p, "status", <<meant>>)
    BY <1>1, <1>2, HeardOne DEF Stream
<1>4. Emit(StatusPort, {"status", "commands"}, p, "status", <<meant>>)
    BY Listeners DEF Broadcast
<1> QED
    BY <1>3, <1>4, StatusImplies DEF Sends

\* The tempo that is sent is at most one hundredth below the one that is meant.
LEMMA CutTempo ==
    ASSUME NEW bpm \in Tempo
    PROVE  CutBpm(bpm) \in TwoByte /\ (CutBpm(bpm) = bpm \/ bpm - CutBpm(bpm) = 1)
<1>1. bpm \in Nat /\ bpm < 65536
    <2>1. Tempo \subseteq Nat /\ \A b \in Tempo : b < 65536
        <3>1. \A b \in Tempo : b < 65536
            BY DatagramsAssumption, SMT
        <3>2. Tempo \subseteq Nat
            BY DatagramsAssumption
        <3> QED
            BY <3>1, <3>2
    <2> QED
        BY <2>1
<1>2. CASE bpm \in Inexact
    <2>1. CutBpm(bpm) = bpm - 1 /\ bpm # 0
        BY <1>2, InexactAssumption DEF CutBpm
    <2>2. bpm - 1 \in TwoByte /\ bpm - (bpm - 1) = 1
        BY <1>1, <2>1, SMT DEF TwoByte
    <2> QED
        BY <2>1, <2>2
<1>3. CASE bpm \notin Inexact
    <2>1. bpm \in TwoByte
        BY <1>1, SMT DEF TwoByte
    <2> QED
        BY <1>3, <2>1 DEF CutBpm
<1> QED
    BY <1>2, <1>3

\* The device the role goes to, as a byte.
LEMMA HandTrip ==
    ASSUME NEW device, device = None \/ device \in Byte \ {NoHandOff}
    PROVE  OrNone(NoHandOff, device) \in Byte /\ Unless(NoHandOff, OrNone(NoHandOff, device)) = device
<1>1. NoHandOff \in Byte
    BY Given
<1>2. \A b \in Byte : b # None
    BY NoBytePanics
<1> QED
    BY <1>1, <1>2 DEF OrNone, Unless

\* The virtual CDJ's status is parsed as a CDJ's.
LEMMA CdjType == FromByte(DeviceType, 1) = <<"Cdj">>
<1>1. <<1, "Cdj">> \in DeviceType /\ \A q \in DeviceType : q[1] = 1 => q = <<1, "Cdj">>
    BY DEF DeviceType
<1>2. 1 # Panic
    BY Literals, NoBytePanics
<1>3. IsIn(DeviceType, 1) /\ NameFor(DeviceType, 1) = "Cdj"
    <2> DEFINE row == CHOOSE q \in DeviceType : q[1] = 1
    <2>1. <<1, "Cdj">>[1] = 1 /\ <<1, "Cdj">>[2] = "Cdj"
        OBVIOUS
    <2>2. row \in DeviceType /\ row[1] = 1
        BY <1>1, <2>1
    <2>3. row = <<1, "Cdj">> /\ NameFor(DeviceType, 1) = row[2]
        BY <1>1, <2>2 DEF NameFor
    <2> QED
        BY <1>1, <2>1, <2>3 DEF IsIn
<1> QED
    BY <1>2, <1>3 DEF FromByte

\* The status loop's packet
LEMMA SendStatusSound == ASSUME SendStatus PROVE Sends
<1>1. PICK playing \in BOOLEAN, synced \in BOOLEAN, bpm \in Tempo,
           role \in {<<FALSE, None>>, <<TRUE, None>>, <<TRUE, Player>>} :
       Broadcast(StatusPort,
          BuildCdjStatus([device_name |-> CommandName, device_number |-> Me, bpm |-> bpm,
             flags |-> [playing |-> playing, master |-> role[1], synced |-> synced,
                        on_air |-> TRUE, bpm_sync |-> FALSE],
             pitch |-> PitchNormal, beat_number |-> None, beat_within_bar |-> 1,
             master_hand_off |-> role[2], sync_number |-> <<0, 0, 0, 1>>,
             packet_number |-> <<0, 0, 1, 0>>]),
          "status",
          <<[kind |-> "Cdj", device_number |-> Me, device_type |-> <<"Cdj">>,
             is_playing_flag |-> playing, is_master |-> role[1], is_synced |-> synced,
             is_on_air |-> TRUE, is_bpm_synced |-> FALSE, bpm |-> bpm, pitch |-> PitchNormal,
             beat_number |-> None, beat_within_bar |-> 1, master_hand_off |-> role[2],
             sync_number |-> <<0, 0, 0, 1>>, packet_number |-> <<0, 0, 1, 0>>,
             cue_countdown |-> None, loop_beats |-> None]>>)
    BY DEF SendStatus
<1> DEFINE master == role[1]
           device == role[2]
           sync == <<0, 0, 0, 1>>
           number == <<0, 0, 1, 0>>
           flags == [playing |-> playing, master |-> master, synced |-> synced, on_air |-> TRUE, bpm_sync |-> FALSE]
           status == [device_name |-> CommandName, device_number |-> Me, bpm |-> bpm, flags |-> flags,
                      pitch |-> PitchNormal, beat_number |-> None, beat_within_bar |-> 1,
                      master_hand_off |-> device, sync_number |-> sync, packet_number |-> number]
           p == BuildCdjStatus(status)
           meant == [kind |-> "Cdj", device_number |-> Me, device_type |-> <<"Cdj">>,
                     is_playing_flag |-> playing, is_master |-> master, is_synced |-> synced,
                     is_on_air |-> TRUE, is_bpm_synced |-> FALSE, bpm |-> bpm, pitch |-> PitchNormal,
                     beat_number |-> None, beat_within_bar |-> 1, master_hand_off |-> device,
                     sync_number |-> sync, packet_number |-> number,
                     cue_countdown |-> None, loop_beats |-> None]
           byte == FlagsToByte(flags)
           cut == CutBpm(bpm)
           hand == OrNone(NoHandOff, device)
           s1 == IF playing THEN \h03 ELSE \h05
           s2 == IF playing THEN \h6a ELSE \h6e
           s3 == IF playing THEN \h0d ELSE \h01
           c0 == Cells(\h0a, <<\h0a>>)
           c1 == Cells(\h0b, <<Cut[CommandName]>>)
           c2 == Cells(\h21, <<Me, 0, 1>>)
           c3 == Cells(\h89, <<byte>>)
           c4 == Cells(\h92, Bytes(cut, 2))
           c5 == Cells(\h8d, Bytes(PitchNormal, 3))
           c6 == Cells(\ha0, FourBytes)
           c7 == Cells(\ha6, <<1>>)
           c8 == Cells(\h9f, <<hand>>)
           c9 == Cells(\h84, sync)
           c10 == Cells(\h7b, <<s1>>)
           c11 == Cells(\h8b, <<s2>>)
           c12 == Cells(\h9d, <<s3>>)
           c13 == Cells(\ha4, <<1, 255>>)
           c14 == Cells(\hc8, number)
           cells == {c1, c2, c3, c4, c5, c6, c7, c8, c9, c10, c11, c12, c13, c14}
<1>2. Broadcast(StatusPort, p, "status", <<meant>>)
    BY <1>1
<1>3. master \in BOOLEAN /\ (device = None \/ device \in Byte \ {NoHandOff})
    <2>1. Player \in Byte \ {NoHandOff}
        BY DatagramsAssumption
    <2>2. CASE role = <<FALSE, None>>
        BY <2>1, <2>2
    <2>3. CASE role = <<TRUE, None>>
        BY <2>1, <2>3
    <2>4. CASE role = <<TRUE, Player>>
        BY <2>1, <2>4
    <2> QED
        BY <2>2, <2>3, <2>4
<1>4. /\ Len(sync) = 4 /\ DOMAIN sync = 1..4 /\ (\A k \in 1..4 : sync[k] \in Byte) /\ sync = [i \in 1..4 |-> sync[i]]
      /\ Len(number) = 4 /\ DOMAIN number = 1..4 /\ (\A k \in 1..4 : number[k] \in Byte) /\ number = [i \in 1..4 |-> number[i]]
    BY DEF Byte
<1>5. /\ Len(FourBytes) = 4 /\ DOMAIN FourBytes = 1..4 /\ \A k \in 1..4 : FourBytes[k] \in Byte
    BY DEF FourBytes, Byte
<1>6. byte = (IF playing THEN 64 ELSE 0) + (IF master THEN 32 ELSE 0) + (IF synced THEN 16 ELSE 0) + 8
    BY <1>3 DEF FlagsToByte, FlagBit
<1>7. p = Packet(\hd4, \h0a, cells)
    <2>1. /\ status.device_name = CommandName /\ status.device_number = Me /\ status.flags = flags
          /\ status.bpm = bpm /\ status.pitch = PitchNormal /\ status.beat_number = None
          /\ status.beat_within_bar = 1 /\ status.master_hand_off = device
          /\ status.sync_number = sync /\ status.packet_number = number /\ flags.playing = playing
        OBVIOUS
    <2>2. OrNone(FourBytes, None) = FourBytes
        BY DEF OrNone
    <2> HIDE DEF status, flags, sync, number
    <2> QED
        BY <2>1, <2>2, SMTT(60) DEF BuildCdjStatus, NexusLen, NameOffset, DeviceNumberOffset
<1> HIDE DEF p, master, device, sync, number, flags, status
<1>8. hand \in Byte /\ Unless(NoHandOff, hand) = device
    BY <1>3, HandTrip
<1>9. cut \in TwoByte /\ (cut = bpm \/ bpm - cut = 1)
    BY CutTempo
<1>10. /\ byte \in Byte
       /\ HasBit(byte, \h40) = playing /\ HasBit(byte, \h20) = master /\ HasBit(byte, \h10) = synced
       /\ HasBit(byte, \h08) = TRUE /\ HasBit(byte, \h02) = FALSE
    <2>1. playing \in BOOLEAN /\ master \in BOOLEAN /\ synced \in BOOLEAN
        BY <1>1, <1>3
    <2> HIDE DEF byte
    <2>2. byte = FlagsSum(playing, master, synced)
        BY <1>6, Zenon DEF FlagsSum
    <2>3. FlagsTold(byte, playing, master, synced)
        BY <2>1, <2>2, FlagsTrip, Zenon
    <2> QED
        BY <2>3, Zenon DEF FlagsTold
<1>11. /\ s1 \in Byte /\ s2 \in Byte /\ s3 \in Byte
       /\ playing => s1 = 3 /\ s2 = \h6a /\ s3 = \h0d
       /\ ~playing => s1 = 5 /\ s2 = \h6e
    BY DEF Byte
<1> HIDE DEF byte, cut, hand, s1, s2, s3
<1>12. One(c0, \h0a, \h0a) /\ One(c3, \h89, byte) /\ One(c7, \ha6, 1) /\ One(c8, \h9f, hand)
    BY <1>8, <1>10, Literals, OneIs
<1>13. One(c10, \h7b, s1) /\ One(c11, \h8b, s2) /\ One(c12, \h9d, s3)
    BY <1>11, OneIs
<1>14. One(c1, \h0b, Cut[CommandName])
    BY Given, NameIs
<1>15. Three(c2, \h21, Me, 0, 1) /\ Two(c13, \ha4, 1, 255)
    BY Given, Literals, ThreeIs, TwoIs
<1>16. Two(c4, \h92, High(cut), Low(cut))
    BY <1>9, TwoNumber
<1>17. Three(c5, \h8d, Top(PitchNormal), High(PitchNormal), Low(PitchNormal))
    BY Given, ThreeNumber
<1>18. Four(c6, \ha0, FourBytes) /\ Four(c9, \h84, sync) /\ Four(c14, \hc8, number)
    BY <1>4, <1>5, FourIs
<1> HIDE DEF c0, c1, c2, c3, c4, c5, c6, c7, c8, c9, c10, c11, c12, c13, c14
<1>19. Apart(cells \union {c0})
    BY <1>12, <1>13, <1>14, <1>15, <1>16, <1>17, <1>18 DEF Apart, One, Two, Three, Four
<1>20. \A c \in cells : GoodCell(c)
    BY <1>12, <1>13, <1>14, <1>15, <1>16, <1>17, <1>18 DEF One, Two, Three, Four
<1>21. \hd4 \in Nat /\ \hd4 > \h0a /\ \h0a \in Byte
    BY Literals
<1>22. IsPacket(p) /\ Reads(p, \hd4, \h0a, cells)
    BY <1>7, <1>19, <1>20, <1>21, Built DEF c0
<1>23. c3 \in cells /\ c4 \in cells /\ c5 \in cells /\ c6 \in cells /\ c7 \in cells /\ c8 \in cells
       /\ c9 \in cells /\ c10 \in cells /\ c11 \in cells /\ c12 \in cells /\ c13 \in cells /\ c14 \in cells
    OBVIOUS
<1>24. At(p, \h21) = Me /\ At(p, \h23) = 1
    BY <1>15, <1>22 DEF Reads, Three
<1> HIDE DEF cells
<1>25. At(p, \h89) = byte /\ At(p, \ha6) = 1 /\ At(p, \h9f) = hand
    BY <1>12, <1>21, <1>22, <1>23, OneAt
<1>25a. At(p, \h7b) = s1 /\ At(p, \h8b) = s2 /\ At(p, \h9d) = s3
    BY <1>13, <1>21, <1>22, <1>23, OneAt
<1>26. BytesToNumber(p, \h92, 2) = cut
    BY <1>9, <1>16, <1>21, <1>22, <1>23, TwoAt
<1>27. BytesToNumber(p, \h8d, 3) = PitchNormal
    BY <1>17, <1>21, <1>22, <1>23, ThreeAt, Given
<1>28. BytesAt(p, \ha0, 4) = FourBytes /\ BytesAt(p, \h84, 4) = sync /\ BytesAt(p, \hc8, 4) = number
    BY <1>4, <1>18, <1>21, <1>22, <1>23, FourBytesAre, FourAt
<1>29. BytesToNumber(p, \ha4, 2) = \h01ff
    <2>1. BytesToNumber(p, \ha4, 2) = 256 * 1 + 255
        <3>1. 1 \in Byte /\ 255 \in Byte
            BY Literals
        <3> QED
            BY <1>15, <1>21, <1>22, <1>23, <3>1, PairAt
    <2> QED
        BY <2>1
<1>30. p.size = \hd4 /\ ParseHeaderOnPort(p, StatusPort) = "CdjStatus"
    <2>1. ParseHeaderOnPort(p, StatusPort) = PacketTypeOnPort(\h0a, StatusPort)
        BY <1>21, <1>22, HeaderOf
    <2> QED
        BY <1>22, <2>1, StatusTypes DEF Reads
<1> DEFINE e == CdjStatus(p)
<1>31. ParseStatus(p) = <<e>>
    BY <1>30 DEF ParseStatus, ParseCdjStatus, MinCdjStatusLen
<1>32. /\ e.kind = "Cdj" /\ e.device_number = Me /\ e.device_type = <<"Cdj">>
       /\ e.sync_number = sync /\ e.bpm = cut /\ e.pitch = PitchNormal /\ e.beat_within_bar = 1
    BY <1>24, <1>25, <1>26, <1>27, <1>28, CdjFields, CdjType
<1>33. e.beat_number = None /\ e.master_hand_off = device /\ e.cue_countdown = None
    BY <1>8, <1>25, <1>28, <1>29, CdjFields DEF Unless
<1>34. e.loop_beats = None /\ e.packet_number = number
    BY <1>28, <1>30, CdjFields DEF LoopThreshold
<1>35. /\ e.is_playing_flag = playing /\ e.is_master = master /\ e.is_synced = synced
       /\ e.is_on_air = TRUE /\ e.is_bpm_synced = FALSE
    <2>2. /\ e.is_playing_flag = HasBit(byte, \h40) /\ e.is_master = HasBit(byte, \h20)
          /\ e.is_synced = HasBit(byte, \h10) /\ e.is_on_air = HasBit(byte, \h08)
          /\ e.is_bpm_synced = HasBit(byte, \h02)
        BY <1>25, CdjFlags
    <2> HIDE DEF e
    <2> QED
        BY <1>10, <2>2, Zenon
<1>35a. PlayingAgrees(e)
    <2>1. /\ {"play_state", "play_state_2", "play_state_3", "is_playing_flag", "packet_length"} \subseteq DOMAIN e
          /\ e = [f \in DOMAIN e |-> e[f]] /\ e.play_state = FromByte(PlayState, s1)
          /\ e.play_state_2 = FromByte(PlayState2, s2) /\ e.play_state_3 = FromByte(PlayState3, s3)
        BY <1>25a, CdjPlaying
    <2>2. <<"ForwardCdj">> # <<"PausedOrReverse">>
        OBVIOUS
    <2> HIDE DEF e
    <2>3. e.play_state = IF playing THEN <<"Playing">> ELSE <<"Paused">>
        BY <1>11, <2>1, PlayerRows
    <2>4. e.play_state_2 = IF playing THEN <<"Moving">> ELSE <<"Stopped">>
        BY <1>11, <2>1, StateRows
    <2>5. playing => e.play_state_3 # <<"PausedOrReverse">>
        BY <1>11, <2>1, <2>2, StateRows
    <2> QED
        BY <1>1, <1>35, <2>1, <2>3, <2>4, <2>5, PlayingIs, Zenon
<1>36. {"kind", "device_number", "device_type", "is_playing_flag", "is_master", "is_synced",
        "is_on_air", "is_bpm_synced", "bpm", "pitch", "beat_number", "beat_within_bar",
        "master_hand_off", "sync_number", "packet_number", "cue_countdown", "loop_beats"} \subseteq DOMAIN e
    BY CdjFields
<1>37. /\ DOMAIN meant = {"kind", "device_number", "device_type", "is_playing_flag", "is_master",
              "is_synced", "is_on_air", "is_bpm_synced", "bpm", "pitch", "beat_number", "beat_within_bar",
              "master_hand_off", "sync_number", "packet_number", "cue_countdown", "loop_beats"}
       /\ meant.kind = "Cdj" /\ meant.device_number = Me /\ meant.device_type = <<"Cdj">>
       /\ meant.is_playing_flag = playing /\ meant.is_master = master /\ meant.is_synced = synced
    OBVIOUS
<1>38. /\ meant.is_on_air = TRUE /\ meant.is_bpm_synced = FALSE /\ meant.bpm = bpm
       /\ meant.pitch = PitchNormal /\ meant.beat_number = None /\ meant.beat_within_bar = 1
       /\ meant.master_hand_off = device /\ meant.sync_number = sync /\ meant.packet_number = number
       /\ meant.cue_countdown = None /\ meant.loop_beats = None
    OBVIOUS
<1> HIDE DEF e, meant
<1>39. \A f \in DOMAIN meant : f = "bpm" \/ e[f] = meant[f]
    <2>1. /\ e["is_playing_flag"] = meant["is_playing_flag"] /\ e["is_master"] = meant["is_master"]
          /\ e["is_synced"] = meant["is_synced"] /\ e["is_on_air"] = meant["is_on_air"]
          /\ e["is_bpm_synced"] = meant["is_bpm_synced"]
        BY <1>35, <1>37, <1>38, Zenon
    <2>2. /\ e["kind"] = meant["kind"] /\ e["device_number"] = meant["device_number"]
          /\ e["device_type"] = meant["device_type"] /\ e["sync_number"] = meant["sync_number"]
          /\ e["pitch"] = meant["pitch"] /\ e["beat_within_bar"] = meant["beat_within_bar"]
        BY <1>32, <1>37, <1>38, Zenon
    <2>3. /\ e["beat_number"] = meant["beat_number"] /\ e["master_hand_off"] = meant["master_hand_off"]
          /\ e["cue_countdown"] = meant["cue_countdown"] /\ e["loop_beats"] = meant["loop_beats"]
          /\ e["packet_number"] = meant["packet_number"]
        BY <1>33, <1>34, <1>38, Zenon
    <2>4. \A f \in DOMAIN meant : f \in {"kind", "device_number", "device_type", "is_playing_flag", "is_master",
              "is_synced", "is_on_air", "is_bpm_synced", "bpm", "pitch", "beat_number", "beat_within_bar",
              "master_hand_off", "sync_number", "packet_number", "cue_countdown", "loop_beats"}
        BY <1>37
    <2> QED
        <3> TAKE f \in DOMAIN meant
        <3>1. CASE f \in {"is_playing_flag", "is_master", "is_synced", "is_on_air", "is_bpm_synced"}
            BY <2>1, <3>1, Zenon
        <3>2. CASE f \in {"kind", "device_number", "device_type", "sync_number", "pitch", "beat_within_bar"}
            BY <2>2, <3>2, Zenon
        <3>3. CASE f \in {"beat_number", "master_hand_off", "cue_countdown", "loop_beats", "packet_number"}
            BY <2>3, <3>3, Zenon
        <3> QED
            BY <2>4, <3>1, <3>2, <3>3, Zenon
<1>40. e["bpm"] = meant["bpm"] \/ meant["bpm"] - e["bpm"] = 1
    BY <1>9, <1>32, <1>38
<1>41. Agrees(e, meant)
    BY <1>36, <1>37, <1>39, <1>40 DEF Agrees
<1> QED
    BY <1>2, <1>21, <1>22, <1>31, <1>35a, <1>41, StatusSends

-----------------------------------------------------------------------------
(* The status of a mixer *)

\* The two flags of a mixer, and what the parser makes of their byte.
MixerSum(master, synced) == (IF master THEN 32 ELSE 0) + (IF synced THEN 16 ELSE 0)

MixerTold(n, master, synced) == n \in Byte /\ HasBit(n, \h20) = master /\ HasBit(n, \h10) = synced

\* The flags of a mixer's status.
LEMMA MixerFlags ==
    ASSUME NEW master \in BOOLEAN, NEW synced \in BOOLEAN
    PROVE  MixerTold(MixerSum(master, synced), master, synced)
<1> DEFINE n == MixerSum(master, synced)
<1>0. n = (IF master THEN 32 ELSE 0) + (IF synced THEN 16 ELSE 0)
    BY Zenon DEF MixerSum
<1> HIDE DEF n
<1>1. n \in {0, 16, 32, 48}
    BY <1>0
<1>2. n \in Byte /\ n # Panic
    <2>1. n \in Byte
        BY <1>1 DEF Byte
    <2> QED
        BY <2>1, NoBytePanics
<1>3. \A k : HasBit(n, k) = ((n \div k) % 2 = 1)
    BY <1>2 DEF HasBit
<1>4. ((n \div 32) % 2 = 1) = master
    BY <1>0, <1>1
<1>5. ((n \div 16) % 2 = 1) = synced
    BY <1>0, <1>1
<1>6. HasBit(n, \h20) = master
    BY <1>3, <1>4, Zenon
<1>7. HasBit(n, \h10) = synced
    BY <1>3, <1>5, Zenon
<1>8. MixerTold(n, master, synced)
    BY <1>2, <1>6, <1>7 DEF MixerTold
<1> QED
    BY <1>8 DEF n

\* Four bytes of which the first is zero are the number of the other three.
LEMMA ThreeOfFour ==
    ASSUME NEW p, p.size \in Nat, NEW o \in Nat, o + 4 <= p.size, NEW n \in ThreeByte,
           At(p, o) = 0, At(p, o + 1) = Top(n), At(p, o + 2) = High(n), At(p, o + 3) = Low(n)
    PROVE  BytesToNumber(p, o, 4) = n
<1> DEFINE low(i) == IF i <= 4 THEN At(p, o + 4 - i) ELSE 0
<1>1. BytesToNumber(p, o, 4) = low(1) + 256 * low(2) + 65536 * low(3) + 16777216 * low(4)
    BY SMT DEF BytesToNumber
<1>2. low(1) = Low(n) /\ low(2) = High(n) /\ low(3) = Top(n) /\ low(4) = 0
    <2>1. o + 4 - 1 = o + 3 /\ o + 4 - 2 = o + 2 /\ o + 4 - 3 = o + 1 /\ o + 4 - 4 = o
        OBVIOUS
    <2>2. 1 <= 4 /\ 2 <= 4 /\ 3 <= 4 /\ 4 <= 4
        OBVIOUS
    <2> QED
        BY <2>1, <2>2
<1>3. n = Low(n) + 256 * High(n) + 65536 * Top(n)
    BY SMT DEF Low, High, Top, ThreeByte
<1> HIDE DEF low
<1>4. Low(n) \in Int /\ High(n) \in Int /\ Top(n) \in Int
    BY SMT DEF Low, High, Top, ThreeByte
<1> QED
    BY <1>1, <1>2, <1>3, <1>4, SMT

\* The cells of build_mixer_status.
LEMMA MixerFields ==
    ASSUME NEW p, ~(p.size < MinMixerStatusLen)
    PROVE  \E e : /\ ParseMixerStatus(p) = <<e>>
                  /\ DOMAIN e = {"kind", "name", "device_number", "bpm", "pitch", "beat_within_bar",
                                 "is_master", "is_synced", "master_hand_off"}
                  /\ e.kind = "Mixer" /\ e.device_number = At(p, \h21)
                  /\ e.bpm = BytesToNumber(p, \h2e, 2) /\ e.pitch = BytesToNumber(p, \h28, 4)
                  /\ e.beat_within_bar = At(p, \h37)
                  /\ e.is_master = HasBit(At(p, \h27), \h20) /\ e.is_synced = HasBit(At(p, \h27), \h10)
                  /\ e.master_hand_off = Unless(NoHandOff, At(p, \h36))
<1> DEFINE e == [kind            |-> "Mixer",
                 name            |-> ReadDeviceName(p, NameOffset),
                 device_number   |-> At(p, DeviceNumberOffset),
                 bpm             |-> BytesToNumber(p, \h2e, 2),
                 pitch           |-> BytesToNumber(p, \h28, 4),
                 beat_within_bar |-> At(p, \h37),
                 is_master       |-> HasBit(At(p, \h27), FlagBit.master),
                 is_synced       |-> HasBit(At(p, \h27), FlagBit.synced),
                 master_hand_off |-> Unless(NoHandOff, At(p, \h36))]
<1>1. ParseMixerStatus(p) = <<e>>
    BY DEF ParseMixerStatus
<1>2. FlagBit.master = \h20 /\ FlagBit.synced = \h10
    BY DEF FlagBit
<1>3. DOMAIN e = {"kind", "name", "device_number", "bpm", "pitch", "beat_within_bar",
                  "is_master", "is_synced", "master_hand_off"}
    OBVIOUS
<1>4. /\ e.kind = "Mixer" /\ e.device_number = At(p, \h21)
      /\ e.bpm = BytesToNumber(p, \h2e, 2) /\ e.pitch = BytesToNumber(p, \h28, 4)
      /\ e.beat_within_bar = At(p, \h37) /\ e.master_hand_off = Unless(NoHandOff, At(p, \h36))
    BY DEF DeviceNumberOffset
<1>5. /\ e.is_master = HasBit(At(p, \h27), FlagBit.master)
      /\ e.is_synced = HasBit(At(p, \h27), FlagBit.synced)
    OBVIOUS
<1> HIDE DEF e
<1>6. e.is_master = HasBit(At(p, \h27), \h20) /\ e.is_synced = HasBit(At(p, \h27), \h10)
    BY <1>2, <1>5, Zenon
<1> QED
    BY <1>1, <1>3, <1>4, <1>6, Zenon

\* A mixer's status
LEMMA MixerStatusSound == ASSUME MixerStatus PROVE Sends
<1>1. PICK role \in {<<FALSE, None>>, <<TRUE, None>>, <<TRUE, Me>>}, synced \in BOOLEAN, bpm \in Tempo :
       Broadcast(StatusPort,
          BuildMixerStatus([device_name |-> CommandName, device_number |-> Mixer, bpm |-> bpm,
             pitch |-> PitchNormal, beat_within_bar |-> 2, is_master |-> role[1],
             is_synced |-> synced, master_hand_off |-> role[2]]),
          "status",
          <<[kind |-> "Mixer", device_number |-> Mixer, bpm |-> bpm, pitch |-> PitchNormal,
             beat_within_bar |-> 2, is_master |-> role[1], is_synced |-> synced,
             master_hand_off |-> role[2]]>>)
    BY DEF MixerStatus
<1> DEFINE master == role[1]
           device == role[2]
           status == [device_name |-> CommandName, device_number |-> Mixer, bpm |-> bpm,
                      pitch |-> PitchNormal, beat_within_bar |-> 2, is_master |-> master,
                      is_synced |-> synced, master_hand_off |-> device]
           p == BuildMixerStatus(status)
           meant == [kind |-> "Mixer", device_number |-> Mixer, bpm |-> bpm, pitch |-> PitchNormal,
                     beat_within_bar |-> 2, is_master |-> master, is_synced |-> synced,
                     master_hand_off |-> device]
           byte == (IF master THEN FlagBit.master ELSE 0) + (IF synced THEN FlagBit.synced ELSE 0)
           cut == CutBpm(bpm)
           hand == OrNone(NoHandOff, device)
           c0 == Cells(\h0a, <<\h29>>)
           c1 == Cells(\h0b, <<Cut[CommandName]>>)
           c2 == Cells(\h21, <<Mixer>>)
           c3 == Cells(\h27, <<byte>>)
           c4 == Cells(\h28, <<0>>)
           c5 == Cells(\h29, Bytes(PitchNormal, 3))
           c6 == Cells(\h2e, Bytes(cut, 2))
           c7 == Cells(\h36, <<hand, 2>>)
           cells == {c1, c2, c3, c4, c5, c6, c7}
<1>2. Broadcast(StatusPort, p, "status", <<meant>>)
    BY <1>1
<1>3. master \in BOOLEAN /\ synced \in BOOLEAN /\ (device = None \/ device \in Byte \ {NoHandOff})
    <2>1. Me \in Byte \ {NoHandOff}
        BY DatagramsAssumption
    <2>2. CASE role = <<FALSE, None>>
        BY <1>1, <2>1, <2>2
    <2>3. CASE role = <<TRUE, None>>
        BY <1>1, <2>1, <2>3
    <2>4. CASE role = <<TRUE, Me>>
        BY <1>1, <2>1, <2>4
    <2> QED
        BY <2>2, <2>3, <2>4
<1>4. byte = (IF master THEN 32 ELSE 0) + (IF synced THEN 16 ELSE 0)
    BY <1>3 DEF FlagBit
<1>5. p = Packet(\h38, \h29, cells)
    <2>1. /\ status.device_name = CommandName /\ status.device_number = Mixer /\ status.is_master = master
          /\ status.is_synced = synced /\ status.bpm = bpm /\ status.pitch = PitchNormal
          /\ status.beat_within_bar = 2 /\ status.master_hand_off = device
        OBVIOUS
    <2> HIDE DEF status
    <2> QED
        BY <2>1, Zenon DEF BuildMixerStatus, MinMixerStatusLen, NameOffset, DeviceNumberOffset
<1> HIDE DEF p, master, device, status
<1>6. MixerTold(byte, master, synced)
    <2> HIDE DEF byte
    <2>1. byte = MixerSum(master, synced)
        BY <1>4, Zenon DEF MixerSum
    <2> QED
        BY <1>3, <2>1, MixerFlags, Zenon
<1>7. byte \in Byte /\ HasBit(byte, \h20) = master /\ HasBit(byte, \h10) = synced
    BY <1>6, Zenon DEF MixerTold
<1>8. hand \in Byte /\ Unless(NoHandOff, hand) = device
    BY <1>3, HandTrip
<1>9. cut \in TwoByte /\ (cut = bpm \/ bpm - cut = 1)
    BY CutTempo
<1> HIDE DEF byte, cut, hand
<1>11. \h29 \in Byte /\ 0 \in Byte /\ 2 \in Byte
    BY Literals
<1>12. One(c0, \h0a, \h29) /\ One(c2, \h21, Mixer) /\ One(c3, \h27, byte) /\ One(c4, \h28, 0)
    BY <1>7, <1>11, Given, OneIs
<1>13. One(c1, \h0b, Cut[CommandName])
    BY Given, NameIs
<1>14. Three(c5, \h29, Top(PitchNormal), High(PitchNormal), Low(PitchNormal))
    BY Given, ThreeNumber
<1>15. Two(c6, \h2e, High(cut), Low(cut))
    BY <1>9, TwoNumber
<1>16. Two(c7, \h36, hand, 2)
    BY <1>8, <1>11, TwoIs
<1> HIDE DEF c0, c1, c2, c3, c4, c5, c6, c7
<1>17. Apart(cells \union {c0})
    BY <1>12, <1>13, <1>14, <1>15, <1>16 DEF Apart, One, Two, Three
<1>18. \A c \in cells : GoodCell(c)
    BY <1>12, <1>13, <1>14, <1>15, <1>16 DEF One, Two, Three
<1>19. \h38 \in Nat /\ \h38 > \h0a
    OBVIOUS
<1>20. IsPacket(p) /\ Reads(p, \h38, \h29, cells)
    BY <1>5, <1>11, <1>17, <1>18, <1>19, Built DEF c0
<1>21. c2 \in cells /\ c3 \in cells /\ c4 \in cells /\ c5 \in cells /\ c6 \in cells /\ c7 \in cells
    OBVIOUS
<1> HIDE DEF cells
<1>22. At(p, \h21) = Mixer /\ At(p, \h27) = byte /\ At(p, \h28) = 0
    BY <1>12, <1>19, <1>20, <1>21, OneAt
<1>23. At(p, \h36) = hand /\ At(p, \h37) = 2
    BY <1>16, <1>20, <1>21 DEF Reads, Two
<1>24. BytesToNumber(p, \h2e, 2) = cut
    BY <1>9, <1>15, <1>19, <1>20, <1>21, TwoAt
<1>25. BytesToNumber(p, \h28, 4) = PitchNormal
    <2>1. At(p, \h29) = Top(PitchNormal) /\ At(p, \h2a) = High(PitchNormal) /\ At(p, \h2b) = Low(PitchNormal)
        BY <1>14, <1>20, <1>21 DEF Reads, Three
    <2>2. PitchNormal \in ThreeByte
        BY Given
    <2>3. p.size = \h38
        BY <1>20 DEF Reads
    <2> QED
        BY <1>22, <2>1, <2>2, <2>3, ThreeOfFour
<1>26. p.size = \h38 /\ ParseHeaderOnPort(p, StatusPort) = "MixerStatus"
    <2>1. ParseHeaderOnPort(p, StatusPort) = PacketTypeOnPort(\h29, StatusPort)
        BY <1>19, <1>20, HeaderOf
    <2> QED
        BY <1>20, <2>1, StatusTypes DEF Reads
<1>27. ~(p.size < MinMixerStatusLen)
    BY <1>26 DEF MinMixerStatusLen
<1>28. PICK e : /\ ParseMixerStatus(p) = <<e>>
                /\ DOMAIN e = {"kind", "name", "device_number", "bpm", "pitch", "beat_within_bar",
                               "is_master", "is_synced", "master_hand_off"}
                /\ e.kind = "Mixer" /\ e.device_number = At(p, \h21)
                /\ e.bpm = BytesToNumber(p, \h2e, 2) /\ e.pitch = BytesToNumber(p, \h28, 4)
                /\ e.beat_within_bar = At(p, \h37)
                /\ e.is_master = HasBit(At(p, \h27), \h20) /\ e.is_synced = HasBit(At(p, \h27), \h10)
                /\ e.master_hand_off = Unless(NoHandOff, At(p, \h36))
    BY <1>27, MixerFields, Zenon
<1>29. ParseStatus(p) = <<e>>
    BY <1>26, <1>28 DEF ParseStatus
<1>30. /\ e.kind = "Mixer" /\ e.device_number = Mixer /\ e.bpm = cut /\ e.pitch = PitchNormal
       /\ e.beat_within_bar = 2 /\ e.master_hand_off = device
    BY <1>8, <1>22, <1>23, <1>24, <1>25, <1>28
<1>31. e.is_master = master /\ e.is_synced = synced
    BY <1>7, <1>22, <1>28, Zenon
<1>32. /\ DOMAIN meant = {"kind", "device_number", "bpm", "pitch", "beat_within_bar",
                          "is_master", "is_synced", "master_hand_off"}
       /\ meant.kind = "Mixer" /\ meant.device_number = Mixer /\ meant.bpm = bpm
       /\ meant.pitch = PitchNormal /\ meant.beat_within_bar = 2 /\ meant.master_hand_off = device
    OBVIOUS
<1>33. meant.is_master = master /\ meant.is_synced = synced
    OBVIOUS
<1> HIDE DEF meant
<1>34. \A f \in DOMAIN meant : f \in DOMAIN e /\ (f = "bpm" \/ e[f] = meant[f])
    <2> TAKE f \in DOMAIN meant
    <2>1. CASE f \in {"is_master", "is_synced"}
        BY <1>28, <1>31, <1>33, <2>1, Zenon
    <2>2. CASE f \in {"kind", "device_number", "bpm", "pitch", "beat_within_bar", "master_hand_off"}
        BY <1>28, <1>30, <1>32, <2>2, Zenon
    <2>3. f \in {"kind", "device_number", "bpm", "pitch", "beat_within_bar",
                 "is_master", "is_synced", "master_hand_off"}
        BY <1>32
    <2> QED
        BY <2>1, <2>2, <2>3, Zenon
<1>35. e["bpm"] = meant["bpm"] \/ meant["bpm"] - e["bpm"] = 1
    BY <1>9, <1>30, <1>32
<1>36. Agrees(e, meant)
    BY <1>32, <1>34, <1>35 DEF Agrees
<1>37. PlayingAgrees(e)
    BY <1>28 DEF PlayingAgrees
<1> QED
    BY <1>2, <1>11, <1>19, <1>20, <1>29, <1>36, <1>37, StatusSends

-----------------------------------------------------------------------------
(* The status of a player, of any size *)

\* A packet that ends at its size reads as it did.
Shortened(p, q) ==
    /\ p.size = q.size /\ p.magic = TRUE
    /\ \A i \in Nat : At(p, i) = At(q, i)
    /\ IsPacket(q) => IsPacket(p)

\* A packet cut at its size reads the same up to there.
LEMMA ShortReads ==
    ASSUME NEW size \in Nat, NEW type, NEW cells
    PROVE  Shortened(Short(Packet(size, type, cells)), Packet(size, type, cells))
<1> DEFINE q == Packet(size, type, cells)
           p == Short(q)
           kept == {i \in DOMAIN q.at : i < q.size}
<1>1. q.size = size /\ q.magic = TRUE
    BY DEF Packet
<1>2. p.size = q.size /\ p.magic = q.magic /\ p.at = [o \in kept |-> q.at[o]]
    BY DEF Short, Packet
<1> HIDE DEF p, q
<1>3. \A i \in Nat : At(p, i) = At(q, i)
    <2> TAKE i \in Nat
    <2>1. CASE i >= size
        BY <1>1, <1>2, <2>1 DEF At
    <2>2. CASE i < size
        <3>1. i \in DOMAIN p.at <=> i \in DOMAIN q.at
            BY <1>1, <1>2, <2>2
        <3>2. i \in DOMAIN p.at => p.at[i] = q.at[i]
            BY <1>2
        <3>3. ~(i >= size)
            BY <2>2
        <3> QED
            BY <1>1, <1>2, <2>2, <3>1, <3>2, <3>3 DEF At
    <2> QED
        BY <2>1, <2>2
<1>4. IsPacket(q) => IsPacket(p)
    BY <1>1, <1>2 DEF IsPacket
<1>5. p.size = q.size /\ p.magic = TRUE
    BY <1>1, <1>2
<1>6. Shortened(p, q)
    BY <1>3, <1>4, <1>5 DEF Shortened
<1> QED
    BY <1>6 DEF p, q

\* Cells below an offset are apart from those from it on.
LEMMA ApartUnion ==
    ASSUME NEW A, NEW B, Apart(A), Apart(B), NEW bound \in Nat,
           \A c \in A : \A i \in DOMAIN c : i \in Nat /\ i < bound,
           \A c \in B : \A i \in DOMAIN c : i \in Nat /\ i >= bound
    PROVE  Apart(A \union B)
BY DEF Apart

\* The cells of a loop, in the packets that are long enough.
Loops(size) == IF size < LoopThreshold THEN {} ELSE LoopCells

\* The cells of the front of a player's status lie apart,
LEMMA FrontApart ==
    /\ Apart(FrontCells \union {Cells(\h0a, <<\h0a>>)}) /\ \A c \in FrontCells : GoodCell(c)
    /\ \A c \in FrontCells \union {Cells(\h0a, <<\h0a>>)} : \A i \in DOMAIN c : i \in Nat /\ i < \h7b
<1> DEFINE id == <<0, 0, 7, 8>>
           media == <<1, Player, 3, 1>>
           c0 == Cells(\h0a, <<\h0a>>)
           c1 == Cells(\h0b, <<CommandName>>)
           c2 == Cells(\h21, <<Player, 0, 1>>)
           c3 == Cells(\h27, media)
           c4 == Cells(\h2c, id)
           c5 == Cells(\h32, <<0, 9>>)
           c6 == Cells(\h37, <<\h1e>>)
           c7 == Cells(\h46, <<1, 0>>)
           c8 == Cells(\h6f, <<4>>)
           c9 == Cells(\h73, <<0>>)
           c10 == Cells(\h75, <<1>>)
<1>1. FrontCells = {c1, c2, c3, c4, c5, c6, c7, c8, c9, c10}
    BY DEF FrontCells, NameOffset, DeviceNumberOffset
<1>2. \h0a \in Byte /\ \h1e \in Byte /\ 4 \in Byte /\ 0 \in Byte /\ 1 \in Byte /\ 9 \in Byte /\ Player \in Byte
    BY Literals, Given DEF Byte
<1>3. One(c0, \h0a, \h0a) /\ One(c6, \h37, \h1e) /\ One(c8, \h6f, 4) /\ One(c9, \h73, 0) /\ One(c10, \h75, 1)
    BY <1>2, OneIs
<1>4. One(c1, \h0b, CommandName)
    BY Given, NameIs
<1>5. Three(c2, \h21, Player, 0, 1)
    BY <1>2, ThreeIs
<1>6. Two(c5, \h32, 0, 9) /\ Two(c7, \h46, 1, 0)
    BY <1>2, TwoIs
<1>7. Four(c3, \h27, media) /\ Four(c4, \h2c, id)
    <2>1. /\ Len(media) = 4 /\ DOMAIN media = 1..4 /\ (\A k \in 1..4 : media[k] \in Byte)
          /\ Len(id) = 4 /\ DOMAIN id = 1..4 /\ (\A k \in 1..4 : id[k] \in Byte)
        BY <1>2 DEF Byte
    <2> QED
        BY <2>1, FourIs
<1> HIDE DEF c0, c1, c2, c3, c4, c5, c6, c7, c8, c9, c10
<1>8. Apart({c0, c1, c2, c3, c4, c5, c6, c7, c8, c9, c10})
    BY <1>3, <1>4, <1>5, <1>6, <1>7 DEF Apart, One, Two, Three, Four
<1>9. /\ \A c \in {c1, c2, c3, c4, c5, c6, c7, c8, c9, c10} : GoodCell(c)
      /\ \A c \in {c0, c1, c2, c3, c4, c5, c6, c7, c8, c9, c10} : \A i \in DOMAIN c : i \in Nat /\ i < \h7b
    BY <1>3, <1>4, <1>5, <1>6, <1>7 DEF One, Two, Three, Four
<1>10. FrontCells \union {c0} = {c0, c1, c2, c3, c4, c5, c6, c7, c8, c9, c10}
    BY <1>1
<1> QED
    BY <1>1, <1>8, <1>9, <1>10 DEF c0

\* so do those of its back,
LEMMA BackApart ==
    ASSUME NEW playing \in BOOLEAN, NEW flags \in Byte
    PROVE  /\ Apart(BackCells(playing, flags)) /\ \A c \in BackCells(playing, flags) : GoodCell(c)
           /\ \A c \in BackCells(playing, flags) : \A i \in DOMAIN c : i \in Nat /\ i >= \h7b /\ i < \hcc
<1> DEFINE sync == <<0, 0, 0, 2>>
           beat == <<0, 0, 0, 5>>
           number == <<0, 0, 0, 3>>
           s1 == IF playing THEN \h03 ELSE \h05
           s2 == IF playing THEN \h7a ELSE \h7e
           s3 == IF playing THEN \h09 ELSE 1
           tempo == 12800
           c1 == Cells(\h7b, <<s1>>)
           c2 == Cells(\h7c, <<Firmware>>)
           c3 == Cells(\h84, sync)
           c4 == Cells(\h89, <<flags>>)
           c5 == Cells(\h8b, <<s2>>)
           c6 == Cells(\h8d, Bytes(PitchNormal, 3))
           c7 == Cells(\h92, Bytes(tempo, 2))
           c8 == Cells(\h9d, <<s3>>)
           c9 == Cells(\h9f, <<NoHandOff>>)
           c10 == Cells(\ha0, beat)
           c11 == Cells(\ha4, <<0, 6>>)
           c12 == Cells(\ha6, <<1>>)
           c13 == Cells(\hc8, number)
<1>1. BackCells(playing, flags) = {c1, c2, c3, c4, c5, c6, c7, c8, c9, c10, c11, c12, c13}
    BY DEF BackCells
<1>2. s1 \in Byte /\ s2 \in Byte /\ s3 \in Byte /\ 0 \in Byte /\ 1 \in Byte /\ 6 \in Byte
    BY DEF Byte
<1>3. tempo \in TwoByte
    BY SMT DEF TwoByte
<1>4. /\ Len(sync) = 4 /\ DOMAIN sync = 1..4 /\ (\A k \in 1..4 : sync[k] \in Byte)
      /\ Len(beat) = 4 /\ DOMAIN beat = 1..4 /\ (\A k \in 1..4 : beat[k] \in Byte)
      /\ Len(number) = 4 /\ DOMAIN number = 1..4 /\ (\A k \in 1..4 : number[k] \in Byte)
    BY DEF Byte
<1> HIDE DEF s1, s2, s3, tempo, sync, beat, number
<1>5. One(c1, \h7b, s1) /\ One(c4, \h89, flags) /\ One(c5, \h8b, s2) /\ One(c8, \h9d, s3)
      /\ One(c9, \h9f, NoHandOff) /\ One(c12, \ha6, 1)
    BY <1>2, Given, OneIs
<1>6. One(c2, \h7c, Firmware)
    BY NameIs
<1>7. Four(c3, \h84, sync) /\ Four(c10, \ha0, beat) /\ Four(c13, \hc8, number)
    BY <1>4, FourIs
<1>8. Three(c6, \h8d, Top(PitchNormal), High(PitchNormal), Low(PitchNormal))
    BY Given, ThreeNumber
<1>9. Two(c7, \h92, High(tempo), Low(tempo))
    BY <1>3, TwoNumber
<1>10. Two(c11, \ha4, 0, 6)
    BY <1>2, TwoIs
<1> HIDE DEF c1, c2, c3, c4, c5, c6, c7, c8, c9, c10, c11, c12, c13
<1>11. Apart({c1, c2, c3, c4, c5, c6, c7, c8, c9, c10, c11, c12, c13})
    BY <1>5, <1>6, <1>7, <1>8, <1>9, <1>10 DEF Apart, One, Two, Three, Four
<1>12. /\ \A c \in {c1, c2, c3, c4, c5, c6, c7, c8, c9, c10, c11, c12, c13} : GoodCell(c)
       /\ \A c \in {c1, c2, c3, c4, c5, c6, c7, c8, c9, c10, c11, c12, c13} :
             \A i \in DOMAIN c : i \in Nat /\ i >= \h7b /\ i < \hcc
    BY <1>5, <1>6, <1>7, <1>8, <1>9, <1>10 DEF One, Two, Three, Four
<1> QED
    BY <1>1, <1>11, <1>12

\* and those of its loop.
LEMMA LoopApart ==
    /\ Apart(LoopCells) /\ \A c \in LoopCells : GoodCell(c)
    /\ \A c \in LoopCells : \A i \in DOMAIN c : i \in Nat /\ i >= \hcc
<1> DEFINE start == <<0, 0, 3, 232>>
           end == <<0, 0, 7, 208>>
           c1 == Cells(\h1b6, start)
           c2 == Cells(\h1be, end)
           c3 == Cells(\h1c8, <<0, 4>>)
<1>1. Four(c1, \h1b6, start) /\ Four(c2, \h1be, end)
    <2>1. /\ Len(start) = 4 /\ DOMAIN start = 1..4 /\ (\A k \in 1..4 : start[k] \in Byte)
          /\ Len(end) = 4 /\ DOMAIN end = 1..4 /\ (\A k \in 1..4 : end[k] \in Byte)
        BY DEF Byte
    <2> QED
        BY <2>1, FourIs
<1>2. Two(c3, \h1c8, 0, 4)
    BY Literals, TwoIs
<1>3. LoopCells = {c1, c2, c3}
    BY DEF LoopCells
<1> HIDE DEF c1, c2, c3
<1>4. Apart({c1, c2, c3})
    BY <1>1, <1>2 DEF Apart, Two, Four
<1>5. /\ \A c \in {c1, c2, c3} : GoodCell(c)
      /\ \A c \in {c1, c2, c3} : \A i \in DOMAIN c : i \in Nat /\ i >= \hcc
    BY <1>1, <1>2 DEF Two, Four
<1> QED
    BY <1>3, <1>4, <1>5

PlayerFlags(size, playing) == IF size >= NexusLen /\ playing THEN \h40 ELSE 0

\* A player's packet is a packet, and what cells it is made of.
LEMMA PlayerPacketIs ==
    ASSUME NEW size \in Nat, NEW playing \in BOOLEAN
    PROVE  /\ IsPacket(PlayerPacket(size, playing)) /\ PlayerPacket(size, playing).size = size
           /\ size > \h0a => Reads(PlayerPacket(size, playing), size, \h0a, PlayerCells(size, playing))
<1> DEFINE p == PlayerPacket(size, playing)
           flags == PlayerFlags(size, playing)
           front == FrontCells
           back == BackCells(playing, flags)
           loops == Loops(size)
           type == Cells(\h0a, <<\h0a>>)
           cells == front \union back \union loops
           q == Packet(size, \h0a, cells)
<1>1. flags \in Byte
    BY DEF PlayerFlags, Byte
<1>2. cells = PlayerCells(size, playing) /\ p = Short(q)
    BY DEF PlayerPacket, PlayerCells, Loops, PlayerFlags
<1>3. Apart(loops) /\ (\A c \in loops : GoodCell(c)) /\ \A c \in loops : \A i \in DOMAIN c : i \in Nat /\ i >= \hcc
    BY LoopApart DEF Loops, Apart
<1>4. /\ Apart(back) /\ (\A c \in back : GoodCell(c))
      /\ \A c \in back : \A i \in DOMAIN c : i \in Nat /\ i >= \h7b /\ i < \hcc
    BY <1>1, BackApart
<1>5. /\ Apart(front \union {type}) /\ (\A c \in front : GoodCell(c))
      /\ \A c \in front \union {type} : \A i \in DOMAIN c : i \in Nat /\ i < \h7b
    BY FrontApart
<1> HIDE DEF front, back, loops, type
<1>6. Apart(back \union loops) /\ \A c \in back \union loops : \A i \in DOMAIN c : i \in Nat /\ i >= \h7b
    <2>1. \hcc \in Nat
        OBVIOUS
    <2>2. Apart(back \union loops)
        BY <1>3, <1>4, <2>1, ApartUnion
    <2> QED
        BY <1>3, <1>4, <2>2
<1>7. Apart((front \union {type}) \union (back \union loops))
    <2>1. \h7b \in Nat
        OBVIOUS
    <2> QED
        BY <1>5, <1>6, <2>1, ApartUnion
<1>8. cells \union {type} = (front \union {type}) \union (back \union loops)
    OBVIOUS
<1>9. Apart(cells \union {Cells(\h0a, <<\h0a>>)}) /\ \A c \in cells : GoodCell(c)
    BY <1>3, <1>4, <1>5, <1>7, <1>8 DEF type
<1> HIDE DEF cells, p
<1>10. \h0a \in Byte
    BY Literals
<1>11. IsPacket(q)
    BY <1>9, <1>10, PacketIs DEF GoodCell
<1>12. /\ p.size = size /\ p.magic = TRUE /\ (\A i \in Nat : At(p, i) = At(q, i)) /\ IsPacket(p)
    <2>1. Shortened(Short(q), q)
        BY ShortReads
    <2>2. q.size = size
        BY DEF Packet
    <2> HIDE DEF q
    <2> QED
        BY <1>2, <1>11, <2>1, <2>2 DEF Shortened
<1>13. ASSUME size > \h0a PROVE Reads(p, size, \h0a, cells)
    <2>1. Reads(q, size, \h0a, cells)
        BY <1>9, <1>10, <1>13, Built
    <2> HIDE DEF q
    <2>2. \h0a \in Nat
        OBVIOUS
    <2> QED
        BY <1>12, <2>1, <2>2 DEF Reads
<1> QED
    BY <1>2, <1>12, <1>13 DEF p

\* What the cells of a player's packet read as.
LEMMA FrontReads ==
    ASSUME NEW p, NEW size \in Nat, size >= \hcc, NEW cells, Reads(p, size, \h0a, cells), FrontCells \subseteq cells
    PROVE  /\ At(p, \h21) = Player /\ At(p, \h27) = 1 /\ At(p, \h28) = Player /\ At(p, \h29) = 3 /\ At(p, \h2a) = 1
           /\ BytesAt(p, \h2c, 4) = <<0, 0, 7, 8>> /\ BytesToNumber(p, \h32, 2) = 9
           /\ At(p, \h37) = \h1e /\ BytesToNumber(p, \h46, 2) = 256
           /\ At(p, \h6f) = 4 /\ At(p, \h73) = 0 /\ At(p, \h75) = 1
<1> DEFINE id == <<0, 0, 7, 8>>
           media == <<1, Player, 3, 1>>
           c2 == Cells(\h21, <<Player, 0, 1>>)
           c3 == Cells(\h27, media)
           c4 == Cells(\h2c, id)
           c5 == Cells(\h32, <<0, 9>>)
           c6 == Cells(\h37, <<\h1e>>)
           c7 == Cells(\h46, <<1, 0>>)
           c8 == Cells(\h6f, <<4>>)
           c9 == Cells(\h73, <<0>>)
           c10 == Cells(\h75, <<1>>)
<1>1. {c2, c3, c4, c5, c6, c7, c8, c9, c10} \subseteq cells
    BY DEF FrontCells, NameOffset, DeviceNumberOffset
<1>2. \h1e \in Byte /\ 4 \in Byte /\ 0 \in Byte /\ 1 \in Byte /\ 9 \in Byte /\ Player \in Byte
    BY Literals, Given DEF Byte
<1>3. One(c6, \h37, \h1e) /\ One(c8, \h6f, 4) /\ One(c9, \h73, 0) /\ One(c10, \h75, 1)
    BY <1>2, OneIs
<1>4. Three(c2, \h21, Player, 0, 1)
    BY <1>2, ThreeIs
<1>5. Two(c5, \h32, 0, 9) /\ Two(c7, \h46, 1, 0)
    BY <1>2, TwoIs
<1>6. Four(c3, \h27, media) /\ Four(c4, \h2c, id) /\ id = [i \in 1..4 |-> id[i]]
    <2>1. /\ Len(media) = 4 /\ DOMAIN media = 1..4 /\ (\A k \in 1..4 : media[k] \in Byte)
          /\ Len(id) = 4 /\ DOMAIN id = 1..4 /\ (\A k \in 1..4 : id[k] \in Byte) /\ id = [i \in 1..4 |-> id[i]]
        BY <1>2 DEF Byte
    <2> QED
        BY <2>1, FourIs
<1>7. media[1] = 1 /\ media[2] = Player /\ media[3] = 3 /\ media[4] = 1
    OBVIOUS
<1> HIDE DEF c2, c3, c4, c5, c6, c7, c8, c9, c10, media, id
<1>8. At(p, \h21) = Player
    BY <1>1, <1>4 DEF Reads, Three
<1>9. At(p, \h27) = 1 /\ At(p, \h28) = Player /\ At(p, \h29) = 3 /\ At(p, \h2a) = 1
    BY <1>1, <1>6, <1>7 DEF Reads, Four
<1>10. BytesAt(p, \h2c, 4) = id
    BY <1>1, <1>6, FourAt
<1>11. BytesToNumber(p, \h32, 2) = 9 /\ BytesToNumber(p, \h46, 2) = 256
    <2>1. BytesToNumber(p, \h32, 2) = 256 * 0 + 9
        BY <1>1, <1>2, <1>5, PairAt
    <2>2. BytesToNumber(p, \h46, 2) = 256 * 1 + 0
        BY <1>1, <1>2, <1>5, PairAt
    <2> QED
        BY <2>1, <2>2
<1>12. At(p, \h37) = \h1e /\ At(p, \h6f) = 4 /\ At(p, \h73) = 0 /\ At(p, \h75) = 1
    BY <1>1, <1>3, OneAt
<1> QED
    BY <1>8, <1>9, <1>10, <1>11, <1>12 DEF id

BackTold(p, playing) ==
    /\ At(p, \h7b) = (IF playing THEN 3 ELSE 5) /\ At(p, \h7c) = Firmware
    /\ BytesToNumber(p, \h92, 2) = 12800 /\ At(p, \h9f) = NoHandOff
    /\ BytesAt(p, \ha0, 4) = <<0, 0, 0, 5>> /\ BytesToNumber(p, \ha4, 2) = 6
    /\ BytesAt(p, \hc8, 4) = <<0, 0, 0, 3>>

\* and of its playing, of which the flag is set where packets are long enough for it.
MovingTold(p, playing, flags) ==
    /\ At(p, \h8b) = (IF playing THEN \h7a ELSE \h7e) /\ At(p, \h9d) = (IF playing THEN \h09 ELSE 1)
    /\ At(p, \h89) = flags

\* The two bytes of a player's packet that say whether it moves.
LEMMA MovingReads ==
    ASSUME NEW p, NEW size \in Nat, size >= \hcc, NEW playing \in BOOLEAN, NEW flags \in Byte,
           NEW cells, Reads(p, size, \h0a, cells), BackCells(playing, flags) \subseteq cells
    PROVE  MovingTold(p, playing, flags)
<1> DEFINE s2 == IF playing THEN \h7a ELSE \h7e
           s3 == IF playing THEN \h09 ELSE 1
           c4 == Cells(\h89, <<flags>>)
           c5 == Cells(\h8b, <<s2>>)
           c8 == Cells(\h9d, <<s3>>)
<1>1. {c4, c5, c8} \subseteq cells
    BY DEF BackCells
<1>2. s2 \in Byte /\ s3 \in Byte
    BY DEF Byte
<1> HIDE DEF s2, s3
<1>3. One(c4, \h89, flags) /\ One(c5, \h8b, s2) /\ One(c8, \h9d, s3)
    BY <1>2, OneIs
<1> HIDE DEF c4, c5, c8
<1>4. At(p, \h89) = flags /\ At(p, \h8b) = s2 /\ At(p, \h9d) = s3
    BY <1>1, <1>3, OneAt
<1> QED
    BY <1>4 DEF MovingTold, s2, s3

\* What the back of a player's status reads as,
LEMMA BackReads ==
    ASSUME NEW p, NEW size \in Nat, size >= \hcc, NEW playing \in BOOLEAN, NEW flags \in Byte,
           NEW cells, Reads(p, size, \h0a, cells), BackCells(playing, flags) \subseteq cells
    PROVE  BackTold(p, playing)
<1> DEFINE beat == <<0, 0, 0, 5>>
           number == <<0, 0, 0, 3>>
           s1 == IF playing THEN \h03 ELSE \h05
           tempo == 12800
           c1 == Cells(\h7b, <<s1>>)
           c2 == Cells(\h7c, <<Firmware>>)
           c7 == Cells(\h92, Bytes(tempo, 2))
           c9 == Cells(\h9f, <<NoHandOff>>)
           c10 == Cells(\ha0, beat)
           c11 == Cells(\ha4, <<0, 6>>)
           c13 == Cells(\hc8, number)
<1>1. {c1, c2, c7, c9, c10, c11, c13} \subseteq cells
    BY DEF BackCells
<1>2. s1 \in Byte /\ 0 \in Byte /\ 6 \in Byte /\ s1 = (IF playing THEN 3 ELSE 5)
    BY DEF Byte
<1>3. tempo \in TwoByte
    BY SMT DEF TwoByte
<1>4. /\ Len(beat) = 4 /\ DOMAIN beat = 1..4 /\ (\A k \in 1..4 : beat[k] \in Byte) /\ beat = [i \in 1..4 |-> beat[i]]
      /\ Len(number) = 4 /\ DOMAIN number = 1..4 /\ (\A k \in 1..4 : number[k] \in Byte) /\ number = [i \in 1..4 |-> number[i]]
    BY DEF Byte
<1> HIDE DEF s1, tempo, beat, number
<1>5. One(c1, \h7b, s1) /\ One(c9, \h9f, NoHandOff)
    BY <1>2, Given, OneIs
<1>6. One(c2, \h7c, Firmware)
    BY NameIs
<1>7. Four(c10, \ha0, beat) /\ Four(c13, \hc8, number)
    BY <1>4, FourIs
<1>8. Two(c7, \h92, High(tempo), Low(tempo))
    BY <1>3, TwoNumber
<1>9. Two(c11, \ha4, 0, 6)
    BY <1>2, TwoIs
<1> HIDE DEF c1, c2, c7, c9, c10, c11, c13
<1>10. At(p, \h7b) = s1 /\ At(p, \h7c) = Firmware /\ At(p, \h9f) = NoHandOff
    BY <1>1, <1>5, <1>6, OneAt
<1>11. BytesAt(p, \ha0, 4) = beat /\ BytesAt(p, \hc8, 4) = number
    BY <1>1, <1>4, <1>7, FourAt
<1>12. BytesToNumber(p, \h92, 2) = tempo
    BY <1>1, <1>3, <1>8, TwoAt
<1>13. BytesToNumber(p, \ha4, 2) = 256 * 0 + 6
    BY <1>1, <1>2, <1>9, PairAt
<1>14. BytesToNumber(p, \ha4, 2) = 6
    BY <1>13
<1> QED
    BY <1>2, <1>10, <1>11, <1>12, <1>14 DEF beat, number, tempo, BackTold

\* and its loop, in the packets that are long enough.
LEMMA LoopReads ==
    ASSUME NEW p, NEW size \in Nat, size >= \h1ca, NEW cells, Reads(p, size, \h0a, cells), LoopCells \subseteq cells
    PROVE  /\ LoopPosition(p, \h1b6) = 65536 /\ LoopPosition(p, \h1be) = 131072
           /\ BytesToNumber(p, \h1c8, 2) = 4
<1> DEFINE start == <<0, 0, 3, 232>>
           end == <<0, 0, 7, 208>>
           c1 == Cells(\h1b6, start)
           c2 == Cells(\h1be, end)
           c3 == Cells(\h1c8, <<0, 4>>)
<1>1. Four(c1, \h1b6, start) /\ Four(c2, \h1be, end)
    <2>1. /\ Len(start) = 4 /\ DOMAIN start = 1..4 /\ (\A k \in 1..4 : start[k] \in Byte)
          /\ Len(end) = 4 /\ DOMAIN end = 1..4 /\ (\A k \in 1..4 : end[k] \in Byte)
        BY DEF Byte
    <2> QED
        BY <2>1, FourIs
<1>2. Two(c3, \h1c8, 0, 4) /\ 0 \in Byte /\ 4 \in Byte
    BY Literals, TwoIs
<1>3. c1 \in cells /\ c2 \in cells /\ c3 \in cells
    BY DEF LoopCells
<1>4. /\ start[1] = 0 /\ start[2] = 0 /\ start[3] = 3 /\ start[4] = 232
      /\ end[1] = 0 /\ end[2] = 0 /\ end[3] = 7 /\ end[4] = 208
    OBVIOUS
<1> HIDE DEF c1, c2, c3, start, end
<1>5. /\ At(p, \h1b6) = 0 /\ At(p, \h1b6 + 1) = 0 /\ At(p, \h1b6 + 2) = 3 /\ At(p, \h1b6 + 3) = 232
    BY <1>1, <1>3, <1>4 DEF Reads, Four
<1>6. /\ At(p, \h1be) = 0 /\ At(p, \h1be + 1) = 0 /\ At(p, \h1be + 2) = 7 /\ At(p, \h1be + 3) = 208
    BY <1>1, <1>3, <1>4 DEF Reads, Four
<1>7. p.size \in Nat /\ \h1b6 + 4 <= p.size /\ \h1be + 4 <= p.size /\ 3 \in Byte /\ 232 \in Byte /\ 7 \in Byte /\ 208 \in Byte
    BY DEF Reads, Byte
<1>8. BytesToNumber(p, \h1b6, 4) = 256 * 3 + 232
    <2> DEFINE o == \h1b6
    <2>1. o \in Nat /\ o + 4 <= p.size /\ At(p, o) = 0 /\ At(p, o + 1) = 0 /\ At(p, o + 2) = 3 /\ At(p, o + 3) = 232
        BY <1>5, <1>7
    <2> HIDE DEF o
    <2>2. BytesToNumber(p, o, 4) = 256 * 3 + 232
        BY <1>7, <2>1, FourNumber
    <2> QED
        BY <2>2 DEF o
<1>9. BytesToNumber(p, \h1be, 4) = 256 * 7 + 208
    <2> DEFINE o == \h1be
    <2>1. o \in Nat /\ o + 4 <= p.size /\ At(p, o) = 0 /\ At(p, o + 1) = 0 /\ At(p, o + 2) = 7 /\ At(p, o + 3) = 208
        BY <1>6, <1>7
    <2> HIDE DEF o
    <2>2. BytesToNumber(p, o, 4) = 256 * 7 + 208
        BY <1>7, <2>1, FourNumber
    <2> QED
        BY <2>2 DEF o
<1>10. BytesToNumber(p, \h1c8, 2) = 256 * 0 + 4
    BY <1>2, <1>3, PairAt
<1>11. BytesToNumber(p, \h1b6, 4) = 1000 /\ BytesToNumber(p, \h1be, 4) = 2000 /\ BytesToNumber(p, \h1c8, 2) = 4
    BY <1>8, <1>9, <1>10
<1>12. \A o : LoopPosition(p, o) = (BytesToNumber(p, o, 4) * 65536) \div 1000
    BY SMT DEF LoopPosition
<1>13. LoopPosition(p, \h1b6) = 65536 /\ LoopPosition(p, \h1be) = 131072
    BY <1>11, <1>12, SMT
<1> QED
    BY <1>11, <1>13

\* What a player's packet tells.
PlayerMeant(size, playing) ==
    [kind |-> "Cdj", device_number |-> Player, track_source_player |-> Player,
     track_source_slot |-> <<"UsbSlot">>, track_type |-> <<"Rekordbox">>,
     rekordbox_id |-> <<0, 0, 7, 8>>, firmware_version |-> Firmware, bpm |-> 12800,
     beat_number |-> <<0, 0, 0, 5>>, cue_countdown |-> 6, master_hand_off |-> None,
     packet_number |-> <<0, 0, 0, 3>>, is_busy |-> TRUE, track_number |-> 9,
     local_usb_state |-> 4, local_sd_state |-> 0, link_media_available |-> TRUE,
     local_disc_state |-> \h1e, disc_track_count |-> 256,
     play_state |-> IF playing THEN <<"Playing">> ELSE <<"Paused">>,
     loop_start |-> IF size >= LoopThreshold THEN 65536 ELSE None,
     loop_end   |-> IF size >= LoopThreshold THEN 131072 ELSE None,
     loop_beats |-> IF size >= LoopThreshold THEN 4 ELSE None]

\* What a player's status tells, in one record.
LEMMA PlayerEventsAre ==
    ASSUME NEW size, NEW playing
    PROVE  PlayerEvents(size, playing) =
              IF size < MinCdjStatusLen THEN <<>> ELSE <<PlayerMeant(size, playing)>>
BY DEF PlayerEvents, PlayerMeant

\* A player's status is told as it was sent, when it is as long as a status;
LEMMA PlayerTold ==
    ASSUME NEW size \in Nat, size >= \hcc, NEW playing \in BOOLEAN
    PROVE  \E e : /\ ParseStatus(PlayerPacket(size, playing)) = <<e>>
                  /\ Agrees(e, PlayerMeant(size, playing)) /\ PlayingAgrees(e)
<1> DEFINE p == PlayerPacket(size, playing)
           cells == PlayerCells(size, playing)
           flags == PlayerFlags(size, playing)
           meant == PlayerMeant(size, playing)
           e == CdjStatus(p)
           beat == <<0, 0, 0, 5>>
           state == IF playing THEN <<"Playing">> ELSE <<"Paused">>
           start == IF size >= LoopThreshold THEN 65536 ELSE None
           end == IF size >= LoopThreshold THEN 131072 ELSE None
           beats == IF size >= LoopThreshold THEN 4 ELSE None
<1>1. IsPacket(p) /\ p.size = size /\ Reads(p, size, \h0a, cells)
    BY PlayerPacketIs
<1>2. FrontCells \subseteq cells /\ BackCells(playing, flags) \subseteq cells /\ flags \in Byte
    BY DEF PlayerCells, PlayerFlags, Byte
<1>2a. size >= NexusLen => flags = IF playing THEN 64 ELSE 0
    BY DEF PlayerFlags
<1>3. size >= LoopThreshold => LoopCells \subseteq cells /\ size >= \h1ca
    BY DEF PlayerCells, Loops, LoopThreshold
<1> HIDE DEF p, cells, flags
<1>4. /\ At(p, \h21) = Player /\ At(p, \h27) = 1 /\ At(p, \h28) = Player /\ At(p, \h29) = 3 /\ At(p, \h2a) = 1
      /\ BytesAt(p, \h2c, 4) = <<0, 0, 7, 8>> /\ BytesToNumber(p, \h32, 2) = 9
      /\ At(p, \h37) = \h1e /\ BytesToNumber(p, \h46, 2) = 256
      /\ At(p, \h6f) = 4 /\ At(p, \h73) = 0 /\ At(p, \h75) = 1
    BY <1>1, <1>2, FrontReads
<1>5. /\ At(p, \h7b) = (IF playing THEN 3 ELSE 5) /\ At(p, \h7c) = Firmware
      /\ BytesToNumber(p, \h92, 2) = 12800 /\ At(p, \h9f) = NoHandOff
      /\ BytesAt(p, \ha0, 4) = <<0, 0, 0, 5>> /\ BytesToNumber(p, \ha4, 2) = 6
      /\ BytesAt(p, \hc8, 4) = <<0, 0, 0, 3>>
    <2>1. BackTold(p, playing)
        BY <1>1, <1>2, BackReads, Zenon
    <2> QED
        BY <2>1 DEF BackTold
<1>6. size >= LoopThreshold => /\ LoopPosition(p, \h1b6) = 65536 /\ LoopPosition(p, \h1be) = 131072
                               /\ BytesToNumber(p, \h1c8, 2) = 4
    BY <1>1, <1>3, LoopReads
<1>7. ParseStatus(p) = <<e>>
    <2>1. ParseHeaderOnPort(p, StatusPort) = PacketTypeOnPort(\h0a, StatusPort)
        <3>1. size > \h0a
            OBVIOUS
        <3> QED
            BY <1>1, <3>1, HeaderOf
    <2>2. ~(p.size < MinCdjStatusLen)
        BY <1>1 DEF MinCdjStatusLen
    <2> QED
        BY <2>1, <2>2, StatusTypes DEF ParseStatus, ParseCdjStatus
<1>8. /\ e.kind = "Cdj" /\ e.device_number = Player /\ e.track_source_player = Player
      /\ e.track_source_slot = <<"UsbSlot">> /\ e.track_type = <<"Rekordbox">>
      /\ e.rekordbox_id = <<0, 0, 7, 8>> /\ e.bpm = 12800
    BY <1>4, <1>5, CdjFields, PlayerRows
<1>9. e.firmware_version = Firmware
    <2>1. ReadDeviceName(p, \h7c) = At(p, \h7c)
        BY <1>1 DEF ReadDeviceName
    <2> QED
        BY <1>5, <2>1, CdjFields
<1>10. e.beat_number = <<0, 0, 0, 5>> /\ e.cue_countdown = 6 /\ e.master_hand_off = None
    <2>1. Unless(FourBytes, <<0, 0, 0, 5>>) = <<0, 0, 0, 5>>
        BY DEF Unless, FourBytes
    <2>2. Unless(\h01ff, 6) = 6 /\ Unless(NoHandOff, NoHandOff) = None
        BY DEF Unless
    <2> QED
        BY <1>5, <2>1, <2>2, CdjFields
<1>11. e.packet_number = <<0, 0, 0, 3>>
    <2>1. p.size >= \hc8 + 4
        BY <1>1
    <2> QED
        BY <1>5, <2>1, CdjFields
<1>12. e.is_busy = TRUE /\ e.link_media_available = TRUE
    <2>1. NonZero(1) = TRUE
        <3>1. 1 # Panic
            BY Literals, NoBytePanics
        <3> QED
            BY <3>1 DEF NonZero
    <2> QED
        BY <1>4, <2>1, CdjFields
<1>13. e.track_number = 9 /\ e.local_usb_state = 4 /\ e.local_sd_state = 0 /\ e.local_disc_state = \h1e
       /\ e.disc_track_count = 256
    BY <1>4, CdjFields
<1>14. e.play_state = state
    <2>1. e.play_state = FromByte(PlayState, IF playing THEN 3 ELSE 5)
        BY <1>5, CdjFields
    <2> QED
        BY <2>1, PlayerRows
<1>15. e.loop_start = start /\ e.loop_end = end /\ e.loop_beats = beats
    <2>1. /\ e.loop_start = IF size >= LoopThreshold THEN LoopPosition(p, \h1b6) ELSE None
          /\ e.loop_end = IF size >= LoopThreshold THEN LoopPosition(p, \h1be) ELSE None
          /\ e.loop_beats = IF size >= LoopThreshold THEN BytesToNumber(p, \h1c8, 2) ELSE None
        BY <1>1, CdjFields
    <2> HIDE DEF e
    <2>2. CASE size >= LoopThreshold
        BY <1>6, <2>1, <2>2
    <2>3. CASE ~(size >= LoopThreshold)
        BY <2>1, <2>3
    <2> QED
        BY <2>2, <2>3
<1>15a. PlayingAgrees(e)
    <2>1. MovingTold(p, playing, flags)
        BY <1>1, <1>2, MovingReads, Zenon
    <2>2. /\ {"play_state", "play_state_2", "play_state_3", "is_playing_flag", "packet_length"} \subseteq DOMAIN e
          /\ e = [f \in DOMAIN e |-> e[f]] /\ e.packet_length = size
          /\ e.play_state_2 = FromByte(PlayState2, At(p, \h8b)) /\ e.play_state_3 = FromByte(PlayState3, At(p, \h9d))
          /\ e.is_playing_flag = HasBit(At(p, \h89), \h40)
        BY <1>1, CdjPlaying, CdjFlags
    <2>3. <<"ForwardVinyl">> # <<"PausedOrReverse">>
        OBVIOUS
    <2> HIDE DEF e
    <2>4. e.play_state_2 = IF playing THEN <<"Moving">> ELSE <<"Stopped">>
        BY <2>1, <2>2, StateRows DEF MovingTold
    <2>5. playing => e.play_state_3 # <<"PausedOrReverse">>
        BY <2>1, <2>2, <2>3, StateRows DEF MovingTold
    <2>6. ASSUME size >= NexusLen PROVE e.is_playing_flag = playing
        <3>1. HasBit(64, \h40) = TRUE /\ HasBit(0, \h40) = FALSE
            <4>1. 64 # Panic /\ 0 # Panic
                <5>1. 64 \in Byte /\ 0 \in Byte
                    BY DEF Byte
                <5> QED
                    BY <5>1, NoBytePanics
            <4>2. (64 \div \h40) % 2 = 1 /\ (0 \div \h40) % 2 # 1
                OBVIOUS
            <4> QED
                BY <4>1, <4>2 DEF HasBit
        <3>2. e.is_playing_flag = HasBit(flags, \h40)
            BY <2>1, <2>2 DEF MovingTold
        <3>3. CASE playing
            <4>1. flags = 64
                BY <1>2a, <2>6, <3>3
            <4> QED
                BY <3>1, <3>2, <3>3, <4>1, Zenon
        <3>4. CASE ~playing
            <4>1. flags = 0
                BY <1>2a, <2>6, <3>4
            <4> QED
                BY <3>1, <3>2, <3>4, <4>1, Zenon
        <3> QED
            BY <3>3, <3>4
    <2>7. e.packet_length >= NexusLen => e.is_playing_flag = playing
        BY <2>2, <2>6
    <2> QED
        BY <1>14, <2>2, <2>4, <2>5, <2>7, PlayingIs, Zenon DEF state
<1> DEFINE fields == {"kind", "device_number", "track_source_player", "track_source_slot", "track_type",
              "rekordbox_id", "firmware_version", "bpm", "beat_number", "cue_countdown", "master_hand_off",
              "packet_number", "is_busy", "track_number", "local_usb_state", "local_sd_state",
              "link_media_available", "local_disc_state", "disc_track_count", "play_state",
              "loop_start", "loop_end", "loop_beats"}
<1>16. fields \subseteq DOMAIN e
    BY CdjFields
<1> HIDE DEF e
<1>17. DOMAIN meant = fields
    BY DEF PlayerMeant
<1>18. /\ meant.kind = "Cdj" /\ meant.device_number = Player /\ meant.track_source_player = Player
       /\ meant.track_source_slot = <<"UsbSlot">> /\ meant.track_type = <<"Rekordbox">>
       /\ meant.rekordbox_id = <<0, 0, 7, 8>> /\ meant.bpm = 12800 /\ meant.firmware_version = Firmware
    BY DEF PlayerMeant
<1>19. /\ meant.beat_number = <<0, 0, 0, 5>> /\ meant.cue_countdown = 6 /\ meant.master_hand_off = None
       /\ meant.packet_number = <<0, 0, 0, 3>> /\ meant.is_busy = TRUE /\ meant.link_media_available = TRUE
    BY DEF PlayerMeant
<1>20. /\ meant.track_number = 9 /\ meant.local_usb_state = 4 /\ meant.local_sd_state = 0
       /\ meant.local_disc_state = \h1e /\ meant.disc_track_count = 256
    BY DEF PlayerMeant
<1>21. /\ meant.play_state = state /\ meant.loop_start = start /\ meant.loop_end = end /\ meant.loop_beats = beats
    BY DEF PlayerMeant
<1> HIDE DEF meant, state, start, end, beats
<1>22. \A f \in DOMAIN meant : e[f] = meant[f]
    <2> TAKE f \in DOMAIN meant
    <2>1. CASE f \in {"kind", "device_number", "track_source_player", "track_source_slot", "track_type",
                      "rekordbox_id", "bpm", "firmware_version"}
        BY <1>8, <1>9, <1>18, <2>1
    <2>2. CASE f \in {"beat_number", "cue_countdown", "master_hand_off", "packet_number", "is_busy",
                      "link_media_available"}
        BY <1>10, <1>11, <1>12, <1>19, <2>2, Zenon
    <2>3. CASE f \in {"track_number", "local_usb_state", "local_sd_state", "local_disc_state", "disc_track_count"}
        BY <1>13, <1>20, <2>3
    <2>4. CASE f \in {"play_state", "loop_start", "loop_end", "loop_beats"}
        BY <1>14, <1>15, <1>21, <2>4, Zenon
    <2>5. f \in fields
        BY <1>17
    <2> QED
        BY <2>1, <2>2, <2>3, <2>4, <2>5, Zenon
<1> HIDE DEF fields
<1>23. Agrees(e, meant)
    BY <1>16, <1>17, <1>22 DEF Agrees
<1> QED
    BY <1>7, <1>15a, <1>23 DEF p, meant

\* a shorter one tells nothing.
LEMMA PlayerSilent ==
    ASSUME NEW size \in Nat, NEW playing \in BOOLEAN
    PROVE  /\ Silent("commands", PlayerPacket(size, playing))
           /\ size < \hcc => Silent("status", PlayerPacket(size, playing))
<1> DEFINE p == PlayerPacket(size, playing)
<1>1. IsPacket(p) /\ p.size = size /\ size > \h0a => Reads(p, size, \h0a, PlayerCells(size, playing))
    BY PlayerPacketIs
<1>2. p.size = size
    BY PlayerPacketIs
<1>3. size > \h0a => Reads(p, size, \h0a, PlayerCells(size, playing))
    BY PlayerPacketIs
<1> HIDE DEF p
<1>4. Silent("commands", p)
    <2>1. CASE size > \h0a
        <3>1. \h0a # \h02 /\ \h0a # \h19
            OBVIOUS
        <3> QED
            BY <1>3, <2>1, <3>1, NoCommand
    <2>2. CASE ~(size > \h0a)
        <3>1. p.size < MinPacketSize
            BY <1>2, <2>2 DEF MinPacketSize
        <3>2. TryParseCommand(p) = <<>>
            BY <1>2, <3>1 DEF TryParseCommand, MinPacketSize
        <3>3. Outcome("commands", p) = <<"command", <<>> >>
            BY <3>2, Outcomes
        <3> QED
            BY <3>3 DEF Silent
    <2> QED
        BY <2>1, <2>2
<1>5. ASSUME size < \hcc PROVE ParseStatus(p) = <<>>
    <2>1. CASE size > \h0a
        <3>1. ParseHeaderOnPort(p, StatusPort) = PacketTypeOnPort(\h0a, StatusPort)
            BY <1>3, <2>1, HeaderOf
        <3>2. p.size < MinCdjStatusLen
            BY <1>2, <1>5 DEF MinCdjStatusLen
        <3> QED
            BY <3>1, <3>2, StatusTypes DEF ParseStatus, ParseCdjStatus
    <2>2. CASE ~(size > \h0a)
        <3>1. p.size < MinPacketSize
            BY <1>2, <2>2 DEF MinPacketSize
        <3>2. ParseHeaderOnPort(p, StatusPort) = "Error"
            BY <3>1 DEF ParseHeaderOnPort
        <3> QED
            BY <3>2 DEF ParseStatus
    <2> QED
        BY <2>1, <2>2
<1>6. size < \hcc => Silent("status", p)
    <2>1. ParseStatus(p) = <<>> => Outcome("status", p)[2] = <<>>
        BY Outcomes
    <2> QED
        BY <1>5, <2>1 DEF Silent
<1> QED
    BY <1>4, <1>6 DEF p

\* So it is for the packets of any size.
LEMMA PlayerSound ==
    ASSUME NEW size \in Nat, NEW playing \in BOOLEAN, NEW to \in SUBSET {"status", "commands"}, "status" \in to
    PROVE  /\ Sound(to, PlayerPacket(size, playing), "status", PlayerEvents(size, playing))
           /\ \A told : Implied(PlayerPacket(size, playing), "status", told)
<1> DEFINE p == PlayerPacket(size, playing)
           events == PlayerEvents(size, playing)
           meant == PlayerMeant(size, playing)
<1>1. IsPacket(p)
    BY PlayerPacketIs
<1>2. Silent("commands", p) /\ (size < \hcc => Silent("status", p))
    BY PlayerSilent
<1>3. events = IF size < MinCdjStatusLen THEN <<>> ELSE <<meant>>
    BY PlayerEventsAre
<1>4. to \intersect {"app", "player"} = {} /\ "status" \in Stream /\ Owner("status") = "status"
    BY Owners DEF Stream
<1>5. size >= \hcc => \E e : ParseStatus(p) = <<e>> /\ Agrees(e, meant) /\ PlayingAgrees(e)
    BY PlayerTold
<1> HIDE DEF p, events, meant
<1>6. CASE size < \hcc
    <2>1. events = <<>>
        BY <1>3, <1>6 DEF MinCdjStatusLen
    <2>2. \A l \in to : Silent(l, p)
        BY <1>2, <1>6
    <2>3. Sound(to, p, "status", <<>>)
        BY <1>1, <1>4, <2>2, Unheard
    <2>4. ParseStatus(p) = <<>>
        <3>1. Silent("status", p)
            BY <1>2, <1>6
        <3> QED
            BY <3>1, Outcomes DEF Silent
    <2>5. \A told : Implied(p, "status", told)
        BY <2>4, StatusImplies
    <2> QED
        BY <2>1, <2>3, <2>5 DEF p, events
<1>7. CASE size >= \hcc
    <2>1. events = <<meant>>
        BY <1>3, <1>7 DEF MinCdjStatusLen
    <2>2. PICK e : ParseStatus(p) = <<e>> /\ Agrees(e, meant) /\ PlayingAgrees(e)
        BY <1>5, <1>7
    <2>3. Outcome("status", p) = <<"status", <<e>> >>
        BY <2>2, Outcomes
    <2>4. \A l \in to : l = "status" \/ Silent(l, p)
        BY <1>2
    <2>5. Sound(to, p, "status", <<meant>>)
        BY <1>1, <1>4, <2>2, <2>3, <2>4, HeardOne
    <2>6. \A told : Implied(p, "status", told)
        BY <2>2, StatusImplies
    <2> QED
        BY <2>1, <2>5, <2>6 DEF p, events
<1> QED
    BY <1>6, <1>7

\* A player's status, to everyone or to one listener
LEMMA PlayerStatusSound == ASSUME PlayerStatus PROVE Sends
<1>1. PICK size \in Sizes, playing \in BOOLEAN :
         \/ Broadcast(StatusPort, PlayerPacket(size, playing), "status", PlayerEvents(size, playing))
         \/ \E l \in Listens(StatusPort) :
               Emit(StatusPort, {l}, PlayerPacket(size, playing), "status",
                    IF l = "status" THEN PlayerEvents(size, playing) ELSE <<>>)
    BY DEF PlayerStatus
<1>2. size \in Nat
    <2>1. Sizes \subseteq Nat
        BY DatagramsAssumption
    <2> QED
        BY <1>1, <2>1
<1> DEFINE p == PlayerPacket(size, playing)
           events == PlayerEvents(size, playing)
<1>3. \A to \in SUBSET {"status", "commands"} : "status" \in to => Sound(to, p, "status", events)
    BY <1>2, PlayerSound
<1>3a. \A told : Implied(p, "status", told)
    BY <1>2, PlayerSound
<1>4. Silent("commands", p) /\ IsPacket(p)
    BY <1>2, PlayerSilent, PlayerPacketIs
<1>5. \/ Broadcast(StatusPort, p, "status", events)
      \/ \E l \in Listens(StatusPort) : Emit(StatusPort, {l}, p, "status", IF l = "status" THEN events ELSE <<>>)
    BY <1>1
<1> HIDE DEF p, events
<1>6. CASE Broadcast(StatusPort, p, "status", events)
    <2>1. Emit(StatusPort, {"status", "commands"}, p, "status", events)
        BY <1>6, Listeners DEF Broadcast
    <2> QED
        BY <1>3, <1>3a, <2>1 DEF Sends
<1>7. CASE \E l \in Listens(StatusPort) : Emit(StatusPort, {l}, p, "status", IF l = "status" THEN events ELSE <<>>)
    <2>1. PICK l \in {"status", "commands"} : Emit(StatusPort, {l}, p, "status", IF l = "status" THEN events ELSE <<>>)
        BY <1>7, Listeners
    <2>2. CASE l = "status"
        <3>1. Emit(StatusPort, {"status"}, p, "status", events)
            BY <2>1, <2>2
        <3> QED
            BY <1>3, <1>3a, <3>1 DEF Sends
    <2>3. CASE l = "commands"
        <3>1. Emit(StatusPort, {"commands"}, p, "status", <<>>)
            BY <2>1, <2>3
        <3>2. {"commands"} \intersect {"app", "player"} = {} /\ "status" \in Stream /\ \A k \in {"commands"} : Silent(k, p)
            BY <1>4 DEF Stream
        <3>3. Sound({"commands"}, p, "status", <<>>)
            BY <1>4, <3>2, Unheard
        <3> QED
            BY <1>3a, <3>1, <3>3 DEF Sends
    <2> QED
        BY <2>1, <2>2, <2>3
<1> QED
    BY <1>5, <1>6, <1>7

-----------------------------------------------------------------------------
(* The answer to a media query *)

\* The name in an answer: two units before the first zero.
LEMMA NameRead ==
    ASSUME NEW p, p.size \in Nat, p.size >= \h84, At(p, \h2c) = 0, At(p, \h2d) = 77, At(p, \h2e) = 0,
           At(p, \h2f) = 88, At(p, \h30) = 0, At(p, \h31) = 0
    PROVE  ReadUtf16(p, \h2c, \h40) = <<77, 88>>
<1> DEFINE o        == \h2c
           maxBytes == \h40
           end    == IF o + maxBytes > p.size THEN p.size ELSE o + maxBytes
           n      == (end - o) \div 2
           unit   == [i \in 1..n |-> BytesToNumber(p, o + 2 * (i - 1), 2)]
           zeroes == {i \in DOMAIN unit : unit[i] = 0}
           first  == CHOOSE i \in zeroes : \A j \in zeroes : i <= j
<1>0. ReadUtf16(p, o, maxBytes) = IF zeroes = {} THEN unit ELSE SubSeq(unit, 1, first - 1)
    <2> HIDE DEF o, maxBytes
    <2> QED
        BY DEF ReadUtf16
<1>a. n = 32
    OBVIOUS
<1>b. unit = [i \in 1..32 |-> BytesToNumber(p, \h2c + 2 * (i - 1), 2)]
    <2> HIDE DEF n
    <2> QED
        BY <1>a
<1> HIDE DEF n, unit
<1>1. ASSUME NEW k \in Nat, k + 2 <= p.size, NEW b \in Nat, At(p, k) = 0, At(p, k + 1) = b
      PROVE  BytesToNumber(p, k, 2) = b
    <2> DEFINE low(i) == IF i <= 2 THEN At(p, k + 2 - i) ELSE 0
    <2>1. BytesToNumber(p, k, 2) = low(1) + 256 * low(2) + 65536 * low(3) + 16777216 * low(4)
        BY <1>1, SMT DEF BytesToNumber
    <2>2. low(1) = b /\ low(2) = 0 /\ low(3) = 0 /\ low(4) = 0
        <3>1. k + 2 - 1 = k + 1 /\ k + 2 - 2 = k /\ 1 <= 2 /\ 2 <= 2 /\ ~(3 <= 2) /\ ~(4 <= 2)
            OBVIOUS
        <3> QED
            BY <1>1, <3>1
    <2> HIDE DEF low
    <2> QED
        BY <1>1, <2>1, <2>2, SMT
<1>2. unit[1] = 77
    <2>1. BytesToNumber(p, \h2c, 2) = 77
        BY <1>1
    <2>2. unit[1] = BytesToNumber(p, \h2c + 2 * (1 - 1), 2) /\ \h2c + 2 * (1 - 1) = \h2c
        BY <1>b
    <2> QED
        BY <2>1, <2>2
<1>3. unit[2] = 88
    <2>1. BytesToNumber(p, \h2e, 2) = 88
        BY <1>1
    <2>2. unit[2] = BytesToNumber(p, \h2c + 2 * (2 - 1), 2) /\ \h2c + 2 * (2 - 1) = \h2e
        BY <1>b
    <2> QED
        BY <2>1, <2>2
<1>4. unit[3] = 0
    <2>1. BytesToNumber(p, \h30, 2) = 0
        BY <1>1
    <2>2. unit[3] = BytesToNumber(p, \h2c + 2 * (3 - 1), 2) /\ \h2c + 2 * (3 - 1) = \h30
        BY <1>b
    <2> QED
        BY <2>1, <2>2
<1>5. DOMAIN unit = 1..32
    BY <1>b
<1>7. 3 \in zeroes /\ 1 \notin zeroes /\ 2 \notin zeroes /\ zeroes \subseteq 1..32
    BY <1>2, <1>3, <1>4, <1>5
<1> HIDE DEF zeroes
<1>8. 3 \in zeroes /\ \A j \in zeroes : 3 <= j
    BY <1>7
<1>9. first \in zeroes /\ \A j \in zeroes : first <= j
    BY <1>8
<1> HIDE DEF first
<1>10. first = 3
    BY <1>7, <1>8, <1>9
<1>11. SubSeq(unit, 1, 2) = <<77, 88>>
    <2> DEFINE two == 2
    <2>1. two \in Int /\ two = 2 /\ \A i \in 1..two : unit[i] \in Int
        BY <1>2, <1>3
    <2> HIDE DEF two
    <2>2. /\ SubSeq(unit, 1, two) \in Seq(Int)
          /\ Len(SubSeq(unit, 1, two)) = IF 1 <= two THEN two - 1 + 1 ELSE 0
          /\ \A i \in 1..(two - 1 + 1) : SubSeq(unit, 1, two)[i] = unit[1 + i - 1]
        BY <2>1, SubSeqProperties
    <2>3. /\ Len(SubSeq(unit, 1, 2)) = 2 /\ SubSeq(unit, 1, 2) \in Seq(Int)
          /\ SubSeq(unit, 1, 2)[1] = 77 /\ SubSeq(unit, 1, 2)[2] = 88
        <3>1. 1 \in 1..(two - 1 + 1) /\ 2 \in 1..(two - 1 + 1) /\ 1 + 1 - 1 = 1 /\ 1 + 2 - 1 = 2
            BY <2>1
        <3> QED
            BY <1>2, <1>3, <2>1, <2>2, <3>1
    <2> DEFINE s == SubSeq(unit, 1, 2)
    <2> HIDE DEF s
    <2>4. s \in Seq(Int) /\ Len(s) = 2 /\ s[1] = 77 /\ s[2] = 88
        BY <2>3 DEF s
    <2>5. s = <<77, 88>>
        BY <2>4
    <2> QED
        BY <2>5 DEF s
<1>12. first - 1 = 2 /\ zeroes # {}
    BY <1>7, <1>10
<1>13. ReadUtf16(p, \h2c, \h40) = SubSeq(unit, 1, 2)
    BY <1>0, <1>12
<1> QED
    BY <1>11, <1>13

AnswerSizes == {\h84, \hac, \hc8}

Counts(tracks) == <<0, 0, 0, tracks, 0, 1, 5, 1, 0, 0, 0, 1, 0, 0, 0, 0>>
SizeLeast == <<0, 0, 0, 0, 0, 0, 0, 9>>

AnswerCells(size, tracks) ==
    {Cells(\h21, <<Player>>), Cells(\h27, <<3, 3>>), Cells(\h2c, <<0, 77, 0, 88>>),
     Cells(\h6c, Counts(tracks))}
    \union (IF size > \hab THEN {Cells(\hab, <<1>>)} ELSE {})
    \union (IF size = \hc8 THEN {Cells(\hc0, SizeLeast)} ELSE {})

AnswerMeant(size, tracks) ==
    [player |-> Player, slot |-> <<"UsbSlot">>, media_type |-> <<"Usb">>, name |-> <<77, 88>>,
     track_count |-> <<0, 0, 0, tracks>>, playlist_count |-> 1, color |-> 5,
     is_rekordbox |-> TRUE, total_size |-> <<0, 0, 0, 1, 0, 0, 0, 0>>,
     has_my_settings |-> IF size > \hab THEN TRUE ELSE None,
     min_size |-> IF size = \hc8 THEN SizeLeast ELSE None]

\* The least of two small numbers,
LEMMA CountsAre ==
    ASSUME NEW tracks \in Byte
    PROVE  /\ Len(Counts(tracks)) = 16 /\ DOMAIN Counts(tracks) = 1..16
           /\ \A k \in 1..16 : Counts(tracks)[k] \in Byte
           /\ Counts(tracks)[1] = 0 /\ Counts(tracks)[2] = 0 /\ Counts(tracks)[3] = 0 /\ Counts(tracks)[4] = tracks
           /\ Counts(tracks)[5] = 0 /\ Counts(tracks)[6] = 1 /\ Counts(tracks)[7] = 5 /\ Counts(tracks)[8] = 1
           /\ Counts(tracks)[9] = 0 /\ Counts(tracks)[10] = 0 /\ Counts(tracks)[11] = 0 /\ Counts(tracks)[12] = 1
           /\ Counts(tracks)[13] = 0 /\ Counts(tracks)[14] = 0 /\ Counts(tracks)[15] = 0 /\ Counts(tracks)[16] = 0
<1>1. Len(Counts(tracks)) = 16 /\ DOMAIN Counts(tracks) = 1..16
    BY DEF Counts
<1>2. /\ Counts(tracks)[1] = 0 /\ Counts(tracks)[2] = 0 /\ Counts(tracks)[3] = 0 /\ Counts(tracks)[4] = tracks
      /\ Counts(tracks)[5] = 0 /\ Counts(tracks)[6] = 1 /\ Counts(tracks)[7] = 5 /\ Counts(tracks)[8] = 1
      /\ Counts(tracks)[9] = 0 /\ Counts(tracks)[10] = 0 /\ Counts(tracks)[11] = 0 /\ Counts(tracks)[12] = 1
      /\ Counts(tracks)[13] = 0 /\ Counts(tracks)[14] = 0 /\ Counts(tracks)[15] = 0 /\ Counts(tracks)[16] = 0
    BY DEF Counts
<1>3. \A k \in 1..16 : Counts(tracks)[k] \in Byte
    <2>1. 0 \in Byte /\ 1 \in Byte /\ 5 \in Byte
        BY Literals
    <2>2. \A k \in 1..16 : k \in {1, 2, 3, 4, 5, 6, 7, 8, 9, 10, 11, 12, 13, 14, 15, 16}
        OBVIOUS
    <2> QED
        BY <1>2, <2>1, <2>2
<1> QED
    BY <1>1, <1>2, <1>3

\* of any two.
LEMMA LeastIs ==
    /\ Len(SizeLeast) = 8 /\ DOMAIN SizeLeast = 1..8 /\ \A k \in 1..8 : SizeLeast[k] \in Byte
BY DEF SizeLeast, Byte

\* A long cell.
LEMMA LongIs ==
    ASSUME NEW offset \in Nat, NEW n \in Nat, NEW s, Len(s) = n, DOMAIN s = 1..n, \A k \in 1..n : s[k] \in Byte
    PROVE  /\ GoodCell(Cells(offset, s)) /\ Spans(Cells(offset, s), offset, n)
           /\ \A k \in 1..n : Cells(offset, s)[offset + k - 1] = s[k]
BY CellsOf, GoodMany

AnswerPacket(size, tracks) == Packet(size, \h06, AnswerCells(size, tracks))

\* An answer is a packet whose cells read as they were written.
LEMMA AnswerPacketIs ==
    ASSUME NEW size \in AnswerSizes, NEW tracks \in Byte
    PROVE  /\ IsPacket(AnswerPacket(size, tracks))
           /\ Reads(AnswerPacket(size, tracks), size, \h06, AnswerCells(size, tracks))
           /\ At(AnswerPacket(size, tracks), \h30) = 0 /\ At(AnswerPacket(size, tracks), \h31) = 0
           /\ \h7c \notin DOMAIN AnswerPacket(size, tracks).at
           /\ \A i \in \h7c..\h83 : At(AnswerPacket(size, tracks), i) = 0
<1> DEFINE name == <<0, 77, 0, 88>>
           sixteen == 16
           eight == 8
           c0 == Cells(\h0a, <<\h06>>)
           c1 == Cells(\h21, <<Player>>)
           c2 == Cells(\h27, <<3, 3>>)
           c3 == Cells(\h2c, name)
           c4 == Cells(\h6c, Counts(tracks))
           c5 == Cells(\hab, <<1>>)
           c6 == Cells(\hc0, SizeLeast)
           cells == AnswerCells(size, tracks)
           all == {c1, c2, c3, c4, c5, c6}
<1>1. cells \subseteq all
    BY DEF AnswerCells
<1>2. \h06 \in Byte /\ Player \in Byte /\ 1 \in Byte /\ 3 \in Byte
    BY Literals, Given DEF Byte
<1>3. One(c0, \h0a, \h06) /\ One(c1, \h21, Player) /\ One(c5, \hab, 1)
    BY <1>2, OneIs
<1>4. Two(c2, \h27, 3, 3)
    BY <1>2, TwoIs
<1>5. Four(c3, \h2c, name)
    <2>1. Len(name) = 4 /\ DOMAIN name = 1..4 /\ \A k \in 1..4 : name[k] \in Byte
        BY DEF Byte
    <2> QED
        BY <2>1, FourIs
<1>6. sixteen \in Nat /\ Len(Counts(tracks)) = sixteen /\ DOMAIN Counts(tracks) = 1..sixteen
      /\ \A k \in 1..sixteen : Counts(tracks)[k] \in Byte
    BY CountsAre
<1>7. eight \in Nat /\ Len(SizeLeast) = eight /\ DOMAIN SizeLeast = 1..eight
      /\ \A k \in 1..eight : SizeLeast[k] \in Byte
    BY LeastIs
<1> HIDE DEF sixteen, eight
<1>8. GoodCell(c4) /\ Spans(c4, \h6c, sixteen)
    BY <1>6, LongIs
<1>9. GoodCell(c6) /\ Spans(c6, \hc0, eight)
    BY <1>7, LongIs
<1> HIDE DEF c0, c1, c2, c3, c4, c5, c6, cells
<1>10. DOMAIN c4 = \h6c..\h7b /\ DOMAIN c6 = \hc0..\hc7
    BY <1>8, <1>9 DEF sixteen, eight, Spans
<1>11. Apart({c0, c1, c2, c3, c4, c5, c6})
    BY <1>3, <1>4, <1>5, <1>10 DEF Apart, One, Two, Four
<1>12. \A c \in all : GoodCell(c)
    BY <1>3, <1>4, <1>5, <1>8, <1>9 DEF One, Two, Four
<1>13. \A c \in all \union {c0} : \h30 \notin DOMAIN c /\ \h31 \notin DOMAIN c /\ \h7c \notin DOMAIN c
    BY <1>3, <1>4, <1>5, <1>10 DEF One, Two, Four
<1> HIDE DEF all
<1>13a. \A c \in all \union {c0} : \A i \in \h7c..\h83 : i \notin DOMAIN c
    BY <1>3, <1>4, <1>5, <1>10 DEF all, One, Two, Four
<1>14. Apart(cells \union {c0})
    BY <1>1, <1>11 DEF Apart, all
<1>15. \A c \in cells : GoodCell(c)
    BY <1>1, <1>12
<1>16. \A c \in cells \union {c0} : \h30 \notin DOMAIN c /\ \h31 \notin DOMAIN c /\ \h7c \notin DOMAIN c
    BY <1>1, <1>13
<1>17. size \in Nat /\ size > \h0a /\ \h30 < size /\ \h31 < size
    BY DEF AnswerSizes
<1>18. IsPacket(Packet(size, \h06, cells)) /\ Reads(Packet(size, \h06, cells), size, \h06, cells)
    BY <1>2, <1>14, <1>15, <1>17, Built DEF c0
<1>19. At(Packet(size, \h06, cells), \h30) = 0 /\ At(Packet(size, \h06, cells), \h31) = 0
    BY <1>16, <1>17, AtBlank DEF c0
<1>20. \h7c \notin DOMAIN Packet(size, \h06, cells).at
    <2>1. DOMAIN Packet(size, \h06, cells).at = UNION {DOMAIN c : c \in cells \union {c0}}
        BY DEF Packet, c0
    <2> QED
        BY <1>16, <2>1
<1>21. ASSUME NEW i \in \h7c..\h83 PROVE At(Packet(size, \h06, cells), i) = 0
    <2>1. i \in Nat /\ i < size
        BY DEF AnswerSizes
    <2>2. \A c \in cells \union {c0} : i \notin DOMAIN c
        BY <1>1, <1>13a
    <2> QED
        BY <1>17, <2>1, <2>2, AtBlank DEF c0
<1> QED
    BY <1>18, <1>19, <1>20, <1>21 DEF AnswerPacket, cells

\* What the answer reads as.
LEMMA AnswerReads ==
    ASSUME NEW size \in AnswerSizes, NEW tracks \in Byte, NEW p, IsPacket(p),
           Reads(p, size, \h06, AnswerCells(size, tracks)), At(p, \h30) = 0, At(p, \h31) = 0
    PROVE  /\ At(p, \h21) = Player /\ At(p, \h27) = 3 /\ At(p, \h28) = 3
           /\ ReadUtf16(p, \h2c, \h40) = <<77, 88>>
           /\ BytesAt(p, \h6c, 4) = <<0, 0, 0, tracks>> /\ BytesToNumber(p, \h70, 2) = 1
           /\ At(p, \h72) = 5 /\ At(p, \h73) = 1 /\ BytesAt(p, \h74, 8) = <<0, 0, 0, 1, 0, 0, 0, 0>>
           /\ size > \hab => At(p, \hab) = 1
           /\ size = \hc8 => BytesAt(p, \hc0, 8) = SizeLeast
<1> DEFINE name == <<0, 77, 0, 88>>
           counts == Counts(tracks)
           sixteen == 16
           eight == 8
           c1 == Cells(\h21, <<Player>>)
           c2 == Cells(\h27, <<3, 3>>)
           c3 == Cells(\h2c, name)
           c4 == Cells(\h6c, counts)
           c5 == Cells(\hab, <<1>>)
           c6 == Cells(\hc0, SizeLeast)
           cells == AnswerCells(size, tracks)
<1>1a. c1 \in cells /\ c2 \in cells /\ c3 \in cells /\ c4 \in cells
    BY DEF AnswerCells
<1>1b. size > \hab => c5 \in cells
    BY DEF AnswerCells
<1>1c. size = \hc8 => c6 \in cells
    BY DEF AnswerCells
<1>2. Player \in Byte /\ 1 \in Byte /\ 3 \in Byte /\ 0 \in Byte
    BY Literals, Given DEF Byte
<1>3. One(c1, \h21, Player) /\ One(c5, \hab, 1)
    BY <1>2, OneIs
<1>4. Two(c2, \h27, 3, 3)
    BY <1>2, TwoIs
<1>5. Four(c3, \h2c, name)
    <2>1. Len(name) = 4 /\ DOMAIN name = 1..4 /\ \A k \in 1..4 : name[k] \in Byte
        BY DEF Byte
    <2> QED
        BY <2>1, FourIs
<1>6. sixteen \in Nat /\ Len(counts) = sixteen /\ DOMAIN counts = 1..sixteen
      /\ \A k \in 1..sixteen : counts[k] \in Byte
    BY CountsAre
<1>7. eight \in Nat /\ Len(SizeLeast) = eight /\ DOMAIN SizeLeast = 1..eight
      /\ \A k \in 1..eight : SizeLeast[k] \in Byte
    BY LeastIs
<1>8. /\ counts[1] = 0 /\ counts[2] = 0 /\ counts[3] = 0 /\ counts[4] = tracks
      /\ counts[5] = 0 /\ counts[6] = 1 /\ counts[7] = 5 /\ counts[8] = 1
      /\ counts[9] = 0 /\ counts[10] = 0 /\ counts[11] = 0 /\ counts[12] = 1
      /\ counts[13] = 0 /\ counts[14] = 0 /\ counts[15] = 0 /\ counts[16] = 0
    BY CountsAre
<1> HIDE DEF sixteen, eight, counts
<1>9. Spans(c4, \h6c, sixteen) /\ \A k \in 1..sixteen : c4[\h6c + k - 1] = counts[k]
    BY <1>6, LongIs
<1>10. Spans(c6, \hc0, eight) /\ \A k \in 1..eight : c6[\hc0 + k - 1] = SizeLeast[k]
    BY <1>7, LongIs
<1> HIDE DEF c1, c2, c3, c4, c5, c6, cells
<1>11. p.size = size /\ size \in Nat /\ size >= \h84 /\ Reads(p, size, \h06, cells)
    BY DEF Reads, AnswerSizes, cells
<1>12. At(p, \h21) = Player /\ (size > \hab => At(p, \hab) = 1)
    BY <1>1a, <1>1b, <1>3, <1>11 DEF Reads, One
<1>13. At(p, \h27) = 3 /\ At(p, \h28) = 3
    BY <1>1a, <1>4, <1>11 DEF Reads, Two
<1>14. At(p, \h2c) = 0 /\ At(p, \h2d) = 77 /\ At(p, \h2e) = 0 /\ At(p, \h2f) = 88
    <2>1. name[1] = 0 /\ name[2] = 77 /\ name[3] = 0 /\ name[4] = 88
        OBVIOUS
    <2> HIDE DEF name
    <2> QED
        BY <1>1a, <1>5, <1>11, <2>1 DEF Reads, Four
<1>15. \A k \in 1..16 : At(p, \h6c + k - 1) = counts[k]
    <2>1. \A k \in 1..16 : \h6c + k - 1 \in DOMAIN c4 /\ \h6c + k - 1 \in Nat /\ \h6c + k - 1 < size
        BY <1>9, <1>11 DEF Spans, sixteen
    <2>2. \A k \in 1..16 : c4[\h6c + k - 1] = counts[k]
        BY <1>9 DEF sixteen
    <2>3. \A i \in DOMAIN c4 : i \in Nat /\ i < size => At(p, i) = c4[i]
        BY <1>1a, <1>11 DEF Reads
    <2> QED
        BY <2>1, <2>2, <2>3
<1>16. size = \hc8 => \A k \in 1..8 : At(p, \hc0 + k - 1) = SizeLeast[k]
    <2> SUFFICES ASSUME size = \hc8 PROVE \A k \in 1..8 : At(p, \hc0 + k - 1) = SizeLeast[k]
        OBVIOUS
    <2>1. \A k \in 1..8 : \hc0 + k - 1 \in DOMAIN c6 /\ \hc0 + k - 1 \in Nat /\ \hc0 + k - 1 < size
        BY <1>10 DEF Spans, eight
    <2>2. \A k \in 1..8 : c6[\hc0 + k - 1] = SizeLeast[k]
        BY <1>10 DEF eight
    <2>3. \A i \in DOMAIN c6 : i \in Nat /\ i < size => At(p, i) = c6[i]
        BY <1>1c, <1>11 DEF Reads
    <2> QED
        BY <2>1, <2>2, <2>3
<1>17. /\ At(p, \h6c) = 0 /\ At(p, \h6d) = 0 /\ At(p, \h6e) = 0 /\ At(p, \h6f) = tracks
       /\ At(p, \h70) = 0 /\ At(p, \h71) = 1 /\ At(p, \h72) = 5 /\ At(p, \h73) = 1
    <2>1. \h6c + 1 - 1 = \h6c /\ \h6c + 2 - 1 = \h6d /\ \h6c + 3 - 1 = \h6e /\ \h6c + 4 - 1 = \h6f
          /\ \h6c + 5 - 1 = \h70 /\ \h6c + 6 - 1 = \h71 /\ \h6c + 7 - 1 = \h72 /\ \h6c + 8 - 1 = \h73
        OBVIOUS
    <2> QED
        BY <1>8, <1>15, <2>1
<1>18. BytesAt(p, \h6c, 4) = <<0, 0, 0, tracks>>
    <2> DEFINE s == <<0, 0, 0, tracks>>
               o == \h6c
    <2>1. s = [i \in 1..4 |-> s[i]] /\ s[1] = 0 /\ s[2] = 0 /\ s[3] = 0 /\ s[4] = tracks
        OBVIOUS
    <2>2. o \in Nat /\ o + 4 <= p.size /\ o + 1 = \h6d /\ o + 2 = \h6e /\ o + 3 = \h6f /\ o = \h6c /\ p.size \in Nat
        BY <1>11
    <2> HIDE DEF s, o
    <2>3. BytesAt(p, o, 4) = s
        BY <1>17, <2>1, <2>2, ReadFour
    <2> QED
        BY <2>3 DEF s, o
<1>19. BytesToNumber(p, \h70, 2) = 1
    <2> DEFINE low(i) == IF i <= 2 THEN At(p, \h70 + 2 - i) ELSE 0
    <2>1. BytesToNumber(p, \h70, 2) = low(1) + 256 * low(2) + 65536 * low(3) + 16777216 * low(4)
        BY <1>11, SMT DEF BytesToNumber
    <2>2. low(1) = 1 /\ low(2) = 0 /\ low(3) = 0 /\ low(4) = 0
        <3>1. \h70 + 2 - 1 = \h71 /\ \h70 + 2 - 2 = \h70 /\ 1 <= 2 /\ 2 <= 2 /\ ~(3 <= 2) /\ ~(4 <= 2)
            OBVIOUS
        <3> QED
            BY <1>17, <3>1
    <2> HIDE DEF low
    <2> QED
        BY <2>1, <2>2, SMT
<1>20. BytesAt(p, \h74, 8) = <<0, 0, 0, 1, 0, 0, 0, 0>>
    <2> DEFINE s == <<0, 0, 0, 1, 0, 0, 0, 0>>
    <2>1. /\ s = [i \in 1..8 |-> s[i]] /\ s[1] = 0 /\ s[2] = 0 /\ s[3] = 0 /\ s[4] = 1
          /\ s[5] = 0 /\ s[6] = 0 /\ s[7] = 0 /\ s[8] = 0
        OBVIOUS
    <2> HIDE DEF s
    <2>2. BytesAt(p, \h74, 8) = [i \in 1..8 |-> At(p, \h74 + i - 1)]
        BY <1>11 DEF BytesAt
    <2>3. \A i \in 1..8 : At(p, \h74 + i - 1) = counts[i + 8]
        <3> TAKE i \in 1..8
        <3>1. i + 8 \in 1..16 /\ \h6c + (i + 8) - 1 = \h74 + i - 1
            OBVIOUS
        <3> QED
            BY <1>15, <3>1
    <2>4. \A i \in 1..8 : counts[i + 8] = s[i]
        <3> TAKE i \in 1..8
        <3>1. i = 1 \/ i = 2 \/ i = 3 \/ i = 4 \/ i = 5 \/ i = 6 \/ i = 7 \/ i = 8
            OBVIOUS
        <3>2. 1 + 8 = 9 /\ 2 + 8 = 10 /\ 3 + 8 = 11 /\ 4 + 8 = 12 /\ 5 + 8 = 13 /\ 6 + 8 = 14 /\ 7 + 8 = 15 /\ 8 + 8 = 16
            OBVIOUS
        <3> QED
            BY <1>8, <2>1, <3>1, <3>2
    <2>5. BytesAt(p, \h74, 8) = s
        BY <2>1, <2>2, <2>3, <2>4
    <2> QED
        BY <2>5 DEF s
<1>21. size = \hc8 => BytesAt(p, \hc0, 8) = SizeLeast
    <2> SUFFICES ASSUME size = \hc8 PROVE BytesAt(p, \hc0, 8) = SizeLeast
        OBVIOUS
    <2>1. SizeLeast = [i \in 1..8 |-> SizeLeast[i]]
        BY DEF SizeLeast
    <2>2. BytesAt(p, \hc0, 8) = [i \in 1..8 |-> At(p, \hc0 + i - 1)]
        BY <1>11 DEF BytesAt
    <2> QED
        BY <1>16, <2>1, <2>2
<1>22. ReadUtf16(p, \h2c, \h40) = <<77, 88>>
    BY <1>11, <1>14, NameRead
<1> QED
    BY <1>12, <1>13, <1>17, <1>18, <1>19, <1>20, <1>21, <1>22

\* The fields a media answer is meant to have.
LEMMA AnswerFields ==
    ASSUME NEW p
    PROVE  /\ DOMAIN MediaDetails(p) = {"player", "slot", "media_type", "name", "track_count", "playlist_count",
                  "color", "is_rekordbox", "total_size", "free_space", "creation_date", "has_my_settings", "min_size"}
           /\ MediaDetails(p).player = At(p, \h21) /\ MediaDetails(p).slot = FromByte(TrackSourceSlot, At(p, \h27))
           /\ MediaDetails(p).media_type = FromByte(MediaType, At(p, \h28))
           /\ MediaDetails(p).name = ReadUtf16(p, \h2c, \h40) /\ MediaDetails(p).track_count = BytesAt(p, \h6c, 4)
           /\ MediaDetails(p).playlist_count = BytesToNumber(p, \h70, 2) /\ MediaDetails(p).color = At(p, \h72)
           /\ MediaDetails(p).is_rekordbox = NonZero(At(p, \h73))
           /\ MediaDetails(p).total_size = BytesAt(p, \h74, 8) /\ MediaDetails(p).free_space = BytesAt(p, \h7c, 8)
           /\ MediaDetails(p).has_my_settings = IF p.size > \hab THEN NonZero(At(p, \hab)) ELSE None
           /\ MediaDetails(p).min_size = IF p.size >= \hc0 + 8 THEN BytesAt(p, \hc0, 8) ELSE None
BY DEF MediaDetails

\* A media answer tells them.
LEMMA AnswerTold ==
    ASSUME NEW size \in AnswerSizes, NEW tracks \in Byte
    PROVE  /\ ParseMediaDetails(AnswerPacket(size, tracks)) = <<MediaDetails(AnswerPacket(size, tracks))>>
           /\ Agrees(MediaDetails(AnswerPacket(size, tracks)), AnswerMeant(size, tracks))
           /\ HashKey(MediaDetails(AnswerPacket(size, tracks))) = KeyOf(<<0, 0, 0, tracks>>)
<1> DEFINE p == AnswerPacket(size, tracks)
           e == MediaDetails(p)
           meant == AnswerMeant(size, tracks)
           mine == IF size > \hab THEN TRUE ELSE None
           least == IF size = \hc8 THEN SizeLeast ELSE None
<1>1. /\ IsPacket(p) /\ Reads(p, size, \h06, AnswerCells(size, tracks))
      /\ At(p, \h30) = 0 /\ At(p, \h31) = 0
      /\ \A i \in \h7c..\h83 : At(p, i) = 0
    BY AnswerPacketIs
<1> HIDE DEF p
<1>2. /\ At(p, \h21) = Player /\ At(p, \h27) = 3 /\ At(p, \h28) = 3
      /\ ReadUtf16(p, \h2c, \h40) = <<77, 88>>
      /\ BytesAt(p, \h6c, 4) = <<0, 0, 0, tracks>> /\ BytesToNumber(p, \h70, 2) = 1
      /\ At(p, \h72) = 5 /\ At(p, \h73) = 1 /\ BytesAt(p, \h74, 8) = <<0, 0, 0, 1, 0, 0, 0, 0>>
      /\ (size > \hab => At(p, \hab) = 1)
      /\ (size = \hc8 => BytesAt(p, \hc0, 8) = SizeLeast)
    BY <1>1, AnswerReads
<1>3. p.size = size /\ p.magic = TRUE /\ size \in Nat /\ size \in {\h84, \hac, \hc8}
    BY <1>1 DEF Reads, AnswerSizes
<1>4. ParseMediaDetails(p) = <<e>>
    <2>1. ~(p.size < MinMediaDetailsSize)
        BY <1>3 DEF MinMediaDetailsSize
    <2> QED
        BY <1>3, <2>1 DEF ParseMediaDetails
<1>5. NonZero(1) = TRUE
    <2>1. 1 # Panic
        BY Literals, NoBytePanics
    <2> QED
        BY <2>1 DEF NonZero
<1>6. FromByte(TrackSourceSlot, 3) = <<"UsbSlot">> /\ FromByte(MediaType, 3) = <<"Usb">>
    <2>1. 3 # Panic
        BY Literals, NoBytePanics
    <2>2. <<3, "Usb">> \in MediaType /\ <<3, "Usb">>[1] = 3 /\ <<3, "Usb">>[2] = "Usb"
        BY DEF MediaType
    <2> DEFINE r == <<3, "Usb">>
    <2>3. \A q \in MediaType : q[1] = 3 => q = r
        BY DEF MediaType
    <2>4. r \in MediaType /\ r[1] = 3 /\ r[2] = "Usb"
        BY <2>2
    <2> HIDE DEF r
    <2>5. IsIn(MediaType, 3) /\ NameFor(MediaType, 3) = "Usb"
        BY <2>3, <2>4, NameForRow
    <2> QED
        BY <2>1, <2>5, PlayerRows DEF FromByte
<1>7. /\ e.player = Player /\ e.slot = <<"UsbSlot">> /\ e.media_type = <<"Usb">> /\ e.name = <<77, 88>>
      /\ e.track_count = <<0, 0, 0, tracks>> /\ e.playlist_count = 1 /\ e.color = 5
      /\ e.total_size = <<0, 0, 0, 1, 0, 0, 0, 0>>
    BY <1>2, <1>6, AnswerFields
<1>8. e.is_rekordbox = TRUE
    BY <1>2, <1>5, AnswerFields
<1>9. e.has_my_settings = mine
    <2>1. e.has_my_settings = IF size > \hab THEN NonZero(At(p, \hab)) ELSE None
        BY <1>3, AnswerFields
    <2> HIDE DEF e
    <2>2. CASE size > \hab
        BY <1>2, <1>5, <2>1, <2>2, Zenon
    <2>3. CASE ~(size > \hab)
        BY <2>1, <2>3, Zenon
    <2> QED
        BY <2>2, <2>3
<1>10. e.min_size = least
    <2>1. e.min_size = IF size >= \hc0 + 8 THEN BytesAt(p, \hc0, 8) ELSE None
        BY <1>3, AnswerFields
    <2>2. size >= \hc0 + 8 <=> size = \hc8
        BY <1>3
    <2> HIDE DEF e
    <2> QED
        BY <1>2, <2>1, <2>2
<1>11. {"player", "slot", "media_type", "name", "track_count", "playlist_count", "color", "is_rekordbox",
        "total_size", "has_my_settings", "min_size"} \subseteq DOMAIN e
    BY AnswerFields
<1> HIDE DEF e
<1>12. DOMAIN meant = {"player", "slot", "media_type", "name", "track_count", "playlist_count", "color",
                       "is_rekordbox", "total_size", "has_my_settings", "min_size"}
    BY DEF AnswerMeant
<1>13. /\ meant.player = Player /\ meant.slot = <<"UsbSlot">> /\ meant.media_type = <<"Usb">> /\ meant.name = <<77, 88>>
       /\ meant.track_count = <<0, 0, 0, tracks>> /\ meant.playlist_count = 1 /\ meant.color = 5
       /\ meant.total_size = <<0, 0, 0, 1, 0, 0, 0, 0>>
    BY DEF AnswerMeant
<1>14. meant.is_rekordbox = TRUE /\ meant.min_size = least
    BY DEF AnswerMeant
<1>15. meant.has_my_settings = mine
    BY DEF AnswerMeant
<1> HIDE DEF meant, mine, least
<1>16. \A f \in DOMAIN meant : e[f] = meant[f]
    <2> TAKE f \in DOMAIN meant
    <2>1. CASE f \in {"player", "slot", "media_type", "name", "track_count", "playlist_count", "color", "total_size"}
        BY <1>7, <1>13, <2>1, Zenon
    <2>2. CASE f \in {"is_rekordbox", "has_my_settings", "min_size"}
        BY <1>8, <1>9, <1>10, <1>14, <1>15, <2>2, Zenon
    <2> QED
        BY <1>12, <2>1, <2>2
<1>17. Agrees(e, meant)
    BY <1>11, <1>12, <1>16 DEF Agrees
<1>18. e.free_space = <<0, 0, 0, 0, 0, 0, 0, 0>>
    <2> DEFINE s == <<0, 0, 0, 0, 0, 0, 0, 0>>
    <2>1. s = [i \in 1..8 |-> 0]
        OBVIOUS
    <2> HIDE DEF s
    <2>2. BytesAt(p, \h7c, 8) = [i \in 1..8 |-> At(p, \h7c + i - 1)]
        BY <1>3 DEF BytesAt
    <2>3. \A i \in 1..8 : \h7c + i - 1 \in \h7c..\h83
        OBVIOUS
    <2>4. BytesAt(p, \h7c, 8) = s
        BY <1>1, <2>1, <2>2, <2>3
    <2> QED
        BY <2>4, AnswerFields DEF e, s
<1>19. HashKey(e) = KeyOf(<<0, 0, 0, tracks>>)
    BY <1>7, <1>18, Zenon DEF HashKey, KeyOf
<1> QED
    BY <1>4, <1>17, <1>19 DEF p, e, meant

\* A player's answer to a media query
LEMMA MediaAnswerSound == ASSUME MediaAnswer PROVE Sends
<1>1. PICK size \in AnswerSizes, tracks \in {0, 3} :
         Emit(StatusPort, {"app"}, AnswerPacket(size, tracks), "media", <<AnswerMeant(size, tracks)>>)
    BY DEF MediaAnswer, AnswerSizes, AnswerPacket, AnswerCells, AnswerMeant, Counts, SizeLeast
<1>2. tracks \in Byte
    BY <1>1, Literals
<1> DEFINE p == AnswerPacket(size, tracks)
           e == MediaDetails(p)
           meant == AnswerMeant(size, tracks)
<1>3. IsPacket(p) /\ \h7c \notin DOMAIN p.at
    BY <1>2, AnswerPacketIs
<1>4. ParseMediaDetails(p) = <<e>> /\ Agrees(e, meant)
    BY <1>2, AnswerTold
<1>4a. HashKey(e) = KeyOf(meant.track_count)
    <2>1. meant.track_count = <<0, 0, 0, tracks>>
        BY DEF AnswerMeant
    <2> HIDE DEF p, e, meant
    <2>2. HashKey(e) = KeyOf(<<0, 0, 0, tracks>>)
        BY <1>2, AnswerTold DEF p, e
    <2> QED
        BY <2>1, <2>2
<1>5. Emit(StatusPort, {"app"}, p, "media", <<meant>>)
    BY <1>1
<1> HIDE DEF p, e, meant
<1>6. Outcome("app", p) = <<"media", <<e>> >> /\ Owner("media") = "app" /\ "media" \in Stream
    BY <1>4, Outcomes, Owners DEF Stream
<1>7. Tells("app", p, "media", <<meant>>) /\ IsSequence(<<meant>>)
    BY <1>4, <1>6, TellsOne
<1>8. Sound({"app"}, p, "media", <<meant>>)
    BY <1>3, <1>6, <1>7 DEF Sound, Meant
<1>9. Implied(p, "media", <<meant>>)
    <2> DEFINE told == <<e>>
               ought == <<meant>>
    <2>1. DOMAIN told = {1} /\ told[1] = e /\ ought[1] = meant
        OBVIOUS
    <2> HIDE DEF told, ought
    <2>2. ParseMediaDetails(p) = told
        BY <1>4 DEF told
    <2>3. Implied(p, "media", ought)
        BY <1>4a, <2>1, <2>2 DEF Implied
    <2> QED
        BY <2>3 DEF ought
<1> QED
    BY <1>5, <1>8, <1>9 DEF Sends

-----------------------------------------------------------------------------
(* Every operation *)

\* Whatever an operation of the virtual CDJ or a device sends is sound.
LEMMA AllSends == ASSUME Operation \/ Device PROVE Sends
<1>1. CASE SendKeepAlive \/ SendHello \/ SendClaim \/ SendDefense
    BY <1>1, SendKeepAliveSound, SendHelloSound, SendClaimSound, SendDefenseSound
<1>2. CASE SendOnAirCommand \/ FaderStart \/ LoadTrack \/ SetSync \/ BecomeMaster \/ SendLoadSettings \/ SendStatus
    BY <1>2, SendOnAirCommandSound, FaderStartSound, LoadTrackSound, SetSyncSound, BecomeMasterSound,
       SendLoadSettingsSound, SendStatusSound
<1>3. CASE SendBeat
    BY <1>3, SendBeatSound
<1>4. CASE AnnounceDevice \/ PlayerStatus \/ MixerStatus \/ MixerFaderStart \/ SixChannelsOnAir
    BY <1>4, AnnounceDeviceSound, PlayerStatusSound, MixerStatusSound, MixerFaderStartSound, SixChannelsOnAirSound
<1>5. CASE SendPrecisePosition \/ XdjBeat \/ MediaAnswer \/ MediaQuery
    BY <1>5, SendPrecisePositionSound, XdjBeatSound, MediaAnswerSound, MediaQuerySound
<1> QED
    BY <1>1, <1>2, <1>3, <1>4, <1>5 DEF Operation, Device

\* What is heard when the events of packet i are told on a stream.
Entries(i, stream, events) ==
    [k \in DOMAIN events |-> [id |-> i, stream |-> stream, event |-> events[k]]]

-----------------------------------------------------------------------------
(* Sequences *)

\* Concatenation of sequences, element by element.
LEMMA Concatenated ==
    ASSUME NEW s, NEW t, IsSequence(s), IsSequence(t)
    PROVE  /\ IsSequence(s \o t) /\ Len(s) \in Nat /\ Len(t) \in Nat
           /\ DOMAIN s = 1..Len(s) /\ DOMAIN (s \o t) = 1..(Len(s) + Len(t))
           /\ \A k \in 1..Len(s) : (s \o t)[k] = s[k]
           /\ \A k \in (Len(s) + 1)..(Len(s) + Len(t)) : (s \o t)[k] = t[k - Len(s)]
<1>1. PICK S : s \in Seq(S)
    BY DEF IsSequence
<1>2. PICK T : t \in Seq(T)
    BY DEF IsSequence
<1>3. s \in Seq(S \union T) /\ t \in Seq(S \union T)
    BY <1>1, <1>2
<1>4. s \o t \in Seq(S \union T) /\ Len(s \o t) = Len(s) + Len(t)
    BY <1>3
<1> QED
    BY <1>3, <1>4 DEF IsSequence

\* The entries of a sequence of events are a sequence.
LEMMA EntriesSequence ==
    ASSUME NEW i, NEW stream, NEW events, IsSequence(events)
    PROVE  /\ IsSequence(Entries(i, stream, events))
           /\ Len(Entries(i, stream, events)) = Len(events) /\ Len(events) \in Nat
           /\ \A k \in 1..Len(events) :
                  Entries(i, stream, events)[k] = [id |-> i, stream |-> stream, event |-> events[k]]
<1>1. PICK S : events \in Seq(S)
    BY DEF IsSequence
<1> DEFINE R == [id : {i}, stream : {stream}, event : S]
           n == Len(events)
<1>2. n \in Nat /\ DOMAIN events = 1..n /\ \A k \in 1..n : events[k] \in S
    BY <1>1
<1>3. \A k \in 1..n : [id |-> i, stream |-> stream, event |-> events[k]] \in R
    BY <1>2
<1>4. Entries(i, stream, events) = [k \in 1..n |-> [id |-> i, stream |-> stream, event |-> events[k]]]
    BY <1>2 DEF Entries
<1> HIDE DEF R, n
<1>5. Entries(i, stream, events) \in [1..n -> R]
    BY <1>3, <1>4
<1>6. Entries(i, stream, events) \in Seq(R) /\ Len(Entries(i, stream, events)) = n
    BY <1>2, <1>5
<1> QED
    BY <1>2, <1>4, <1>6 DEF IsSequence, n

\* A parser gives nothing or one event.
AtMostOne(s) == s = <<>> \/ \E e : s = <<e>>

\* A parser gives at most one event.
LEMMA AtMostOneSequence == ASSUME NEW s, AtMostOne(s) PROVE IsSequence(s)
<1>1. CASE s = <<>>
    <2>1. s \in Seq({})
        BY <1>1
    <2> QED
        BY <2>1 DEF IsSequence
<1>2. CASE \E e : s = <<e>>
    <2>1. PICK e : s = <<e>>
        BY <1>2
    <2>2. s \in Seq({e})
        BY <2>1
    <2> QED
        BY <2>2 DEF IsSequence
<1> QED
    BY <1>1, <1>2 DEF AtMostOne

\* Every parser does.
LEMMA ParsersGive ==
    ASSUME NEW p
    PROVE  /\ AtMostOne(ParseKeepAlive(p)) /\ AtMostOne(ParseBeat(p)) /\ AtMostOne(ParsePrecisePosition(p))
           /\ AtMostOne(ParseChannelsOnAir(p)) /\ AtMostOne(ParseSync(p)) /\ AtMostOne(ParseMasterHandoff(p))
           /\ AtMostOne(ParseFaderStart(p)) /\ AtMostOne(TryParseCommand(p)) /\ AtMostOne(ParseStatus(p))
           /\ AtMostOne(ParseMediaDetails(p)) /\ AtMostOne(ReadSettings(p))
<1>1. AtMostOne(ParseKeepAlive(p))
    BY DEF AtMostOne, ParseKeepAlive
<1>2. AtMostOne(ParseBeat(p)) /\ AtMostOne(ParsePrecisePosition(p))
    BY DEF AtMostOne, ParseBeat, ParsePrecisePosition
<1>3. AtMostOne(ParseChannelsOnAir(p)) /\ AtMostOne(ParseSync(p)) /\ AtMostOne(ParseMasterHandoff(p))
    BY DEF AtMostOne, ParseChannelsOnAir, ParseSync, ParseMasterHandoff
<1>4. AtMostOne(ParseFaderStart(p))
    BY DEF AtMostOne, ParseFaderStart
<1>5. AtMostOne(TryParseCommand(p))
    <2>1. AtMostOne(ParseIncomingFaderStart(p)) /\ AtMostOne(ParseIncomingLoadTrack(p))
        BY DEF AtMostOne, ParseIncomingFaderStart, ParseIncomingLoadTrack
    <2>2. AtMostOne(<<>>)
        BY DEF AtMostOne
    <2> DEFINE big == p.size >= MinPacketSize
               small == p.size < MinPacketSize
               type == At(p, \h0a)
    <2>3. TryParseCommand(p) = CASE small \/ ~p.magic -> <<>>
                                 [] big /\ p.magic /\ type = \h02 -> ParseIncomingFaderStart(p)
                                 [] big /\ p.magic /\ type = \h19 -> ParseIncomingLoadTrack(p)
                                 [] OTHER -> <<>>
        BY DEF TryParseCommand
    <2> HIDE DEF big, small, type
    <2>4. TryParseCommand(p) \in {<<>>, ParseIncomingFaderStart(p), ParseIncomingLoadTrack(p)}
        BY <2>3
    <2> QED
        BY <2>1, <2>2, <2>4
<1>6. AtMostOne(ParseStatus(p))
    <2>1. AtMostOne(ParseCdjStatus(p)) /\ AtMostOne(ParseMixerStatus(p)) /\ AtMostOne(<<>>)
        BY DEF AtMostOne, ParseCdjStatus, ParseMixerStatus
    <2>2. ParseStatus(p) \in {<<>>, ParseCdjStatus(p), ParseMixerStatus(p)}
        BY DEF ParseStatus
    <2> QED
        BY <2>1, <2>2
<1>7. AtMostOne(ParseMediaDetails(p))
    BY DEF AtMostOne, ParseMediaDetails
<1>8. AtMostOne(ReadSettings(p))
    BY DEF AtMostOne, ReadSettings
<1> QED
    BY <1>1, <1>2, <1>3, <1>4, <1>5, <1>6, <1>7, <1>8

\* A listener tells a sequence of events, of a status only when it is the status listener.
LEMMA OutcomeSequence ==
    ASSUME NEW p, NEW l
    PROVE  /\ l \in {"finder", "beats", "commands", "app", "player", "status"} => IsSequence(Outcome(l, p)[2])
           /\ l \in {"finder", "beats", "commands", "app", "player"} => Outcome(l, p)[1] # "status"
<1>1. /\ IsSequence(ParseKeepAlive(p)) /\ IsSequence(ParseBeat(p)) /\ IsSequence(ParsePrecisePosition(p))
      /\ IsSequence(ParseChannelsOnAir(p)) /\ IsSequence(ParseSync(p)) /\ IsSequence(ParseMasterHandoff(p))
      /\ IsSequence(ParseFaderStart(p)) /\ IsSequence(TryParseCommand(p)) /\ IsSequence(ParseStatus(p))
      /\ IsSequence(ParseMediaDetails(p)) /\ IsSequence(ReadSettings(p))
    BY ParsersGive, AtMostOneSequence
<1>2. IsSequence(<<>>) /\ \A e : IsSequence(<<e>>)
    <2>1. AtMostOne(<<>>) /\ \A e : AtMostOne(<<e>>)
        BY DEF AtMostOne
    <2> QED
        BY <2>1, AtMostOneSequence
<1>3. IsSequence(BeatStream(p)[2]) /\ BeatStream(p)[1] # "status"
    <2>1. BeatStream(p) \in {<<"beat", ParseBeat(p)>>, <<"precise", ParsePrecisePosition(p)>>,
             <<"on_air", ParseChannelsOnAir(p)>>, <<"sync", ParseSync(p)>>, <<"handoff", ParseMasterHandoff(p)>>,
             <<"fader_start", ParseFaderStart(p)>>, <<"beat", <<>> >>}
        BY DEF BeatStream
    <2> QED
        BY <1>1, <1>2, <2>1
<1>4. IsSequence(FinderStream(p)[2]) /\ FinderStream(p)[1] # "status"
    <2>1. ASSUME NEW ann PROVE IsSequence(ExpandOpusQuad(ann))
        <3> DEFINE four == [i \in 1..4 |-> [ann EXCEPT !.number = i]]
        <3>1. four \in Seq({[ann EXCEPT !.number = i] : i \in 1..4})
            OBVIOUS
        <3>2. IsSequence(four)
            BY <3>1 DEF IsSequence
        <3> HIDE DEF four
        <3>3. ExpandOpusQuad(ann) \in {<<ann>>, four}
            BY DEF ExpandOpusQuad, four
        <3> QED
            BY <1>2, <3>2, <3>3
    <2> DEFINE kept == IF ParseKeepAlive(p) = <<>> THEN <<>> ELSE ExpandOpusQuad(ParseKeepAlive(p)[1])
               defended == IF ExtractDefenseDeviceNumber(p) = None THEN <<>>
                           ELSE <<[device_number |-> ExtractDefenseDeviceNumber(p)]>>
               claimed == IF ExtractClaimStage2DeviceNumber(p) = None THEN <<>>
                          ELSE <<[device_number |-> ExtractClaimStage2DeviceNumber(p)]>>
    <2>2. IsSequence(kept) /\ IsSequence(defended) /\ IsSequence(claimed)
        BY <1>2, <2>1
    <2>3. FinderStream(p) \in {<<"found", kept>>, <<"defense", defended>>, <<"claim", claimed>>, <<"found", <<>> >>}
        BY DEF FinderStream
    <2> HIDE DEF kept, defended, claimed
    <2> QED
        BY <1>2, <2>2, <2>3
<1> QED
    BY <1>1, <1>3, <1>4, Outcomes

-----------------------------------------------------------------------------
(* No event panics *)

\* A setting that was read is a word.
LEMMA SettingWord ==
    ASSUME NEW s, GoodSetting(s), Range(s.names) \subseteq Word, NEW byte
    PROVE  SettingFrom(s, byte) \in Word
<1>1. \A i \in DOMAIN s.names : s.names[i] \in Word
    BY DEF Range
<1>2. s.default \in Word
    BY <1>1 DEF GoodSetting
<1> QED
    BY <1>1, <1>2, Zenon DEF SettingFrom

\* Whatever a listener tells of a packet is made of values.
LEMMA OutcomeValued ==
    ASSUME NEW p, IsPacket(p), NEW l \in {"finder", "beats", "commands", "app", "player", "status"},
           l = "app" /\ \h7c \in DOMAIN p.at => p.at[\h7c] \in Byte,
           l = "player" => p.size > \h37
    PROVE  \A k \in DOMAIN Outcome(l, p)[2] : Valued(Outcome(l, p)[2][k])
<1>1. ASSUME NEW s, s = <<>> \/ \E e : s = <<e>> /\ Valued(e)
      PROVE  \A k \in DOMAIN s : Valued(s[k])
    <2>1. CASE s = <<>>
        BY <2>1
    <2>2. CASE \E e : s = <<e>> /\ Valued(e)
        <3>1. PICK e : s = <<e>> /\ Valued(e)
            BY <2>2
        <3>2. DOMAIN s = {1} /\ s[1] = e
            BY <3>1
        <3> QED
            BY <3>1, <3>2
    <2> QED
        BY <1>1, <2>1, <2>2
<1>2. p.size \in Nat
    BY DEF IsPacket
<1>3. ASSUME NEW n \in Value PROVE Valued([device_number |-> n])
    BY <1>3 DEF Valued
<1>4. CASE l = "beats"
    <2>1. BeatStream(p) \in {<<"beat", ParseBeat(p)>>, <<"precise", ParsePrecisePosition(p)>>,
             <<"on_air", ParseChannelsOnAir(p)>>, <<"sync", ParseSync(p)>>, <<"handoff", ParseMasterHandoff(p)>>,
             <<"fader_start", ParseFaderStart(p)>>, <<"beat", <<>> >>}
        BY DEF BeatStream
    <2>2. \A s \in {ParseBeat(p), ParsePrecisePosition(p), ParseChannelsOnAir(p), ParseSync(p),
                    ParseMasterHandoff(p), ParseFaderStart(p), <<>>} :
              s = <<>> \/ \E e : s = <<e>> /\ Valued(e)
        BY BeatValued, PrecisePositionValued, ChannelsOnAirValued, SyncValued, MasterHandoffValued,
           FaderStartValued
    <2>3. BeatStream(p)[2] = <<>> \/ \E e : BeatStream(p)[2] = <<e>> /\ Valued(e)
        BY <2>1, <2>2
    <2> QED
        BY <1>1, <1>4, <2>3, Outcomes
<1>5. CASE l = "commands"
    BY <1>1, <1>5, CommandValued, Outcomes
<1>6. CASE l = "app"
    <2>1. \h7c \in DOMAIN p.at => p.at[\h7c] \in Byte
        BY <1>6
    <2>2. ParseMediaDetails(p) = <<>> \/ \E e : ParseMediaDetails(p) = <<e>> /\ Valued(e)
        BY <2>1, MediaDetailsValued
    <2> QED
        BY <1>1, <1>6, <2>2, Outcomes
<1>7. CASE l = "status"
    <2>1. ParseStatus(p) \in {<<>>, ParseCdjStatus(p), ParseMixerStatus(p)}
        BY DEF ParseStatus
    <2>2. ParseStatus(p) = <<>> \/ \E e : ParseStatus(p) = <<e>> /\ Valued(e)
        BY <2>1, CdjStatusValued, MixerStatusValued
    <2> QED
        BY <1>1, <1>7, <2>2, Outcomes
<1>8. CASE l = "player"
    <2> DEFINE told == [o \in DOMAIN SettingAt |-> SettingFrom(SettingAt[o], At(p, o))]
               e == [target |-> At(p, \h37), settings |-> told]
    <2>1. At(p, \h37) \in Value
        BY <1>2, <1>8, ByteField
    <2>2. ASSUME NEW o \in DOMAIN SettingAt PROVE SettingFrom(SettingAt[o], At(p, o)) \in Word
        <3>1. GoodSetting(SettingAt[o])
            BY GoodSettings
        <3>2. Range(SettingAt[o].names) \subseteq Word
            BY DEF Word
        <3> QED
            BY <3>1, <3>2, SettingWord
    <2>3. told \in Value
        <3>1. told \in [DOMAIN SettingAt -> Word]
            BY <2>2
        <3> HIDE DEF told
        <3> QED
            BY <3>1 DEF Value
    <2>4. ReadSettings(p) = <<e>>
        BY DEF ReadSettings
    <2> HIDE DEF told
    <2>5. Valued(e)
        BY <2>1, <2>3 DEF Valued
    <2> HIDE DEF e
    <2> QED
        BY <1>1, <1>8, <2>4, <2>5, Outcomes
<1>9. CASE l = "finder"
    <2> DEFINE kept == IF ParseKeepAlive(p) = <<>> THEN <<>> ELSE ExpandOpusQuad(ParseKeepAlive(p)[1])
               defended == IF ExtractDefenseDeviceNumber(p) = None THEN <<>>
                           ELSE <<[device_number |-> ExtractDefenseDeviceNumber(p)]>>
               claimed == IF ExtractClaimStage2DeviceNumber(p) = None THEN <<>>
                          ELSE <<[device_number |-> ExtractClaimStage2DeviceNumber(p)]>>
    <2>1. \A k \in DOMAIN kept : Valued(kept[k])
        <3>1. CASE ParseKeepAlive(p) = <<>>
            BY <3>1
        <3>2. CASE ParseKeepAlive(p) # <<>>
            <4>1. PICK e : /\ ParseKeepAlive(p) = <<e>> /\ Valued(e)
                           /\ \A i \in Nat : Valued([e EXCEPT !.number = i])
                BY <3>2, KeepAliveValued
            <4>2. kept = ExpandOpusQuad(e)
                BY <3>2, <4>1
            <4>3. CASE ~e.opus_quad
                BY <1>1, <4>1, <4>2, <4>3 DEF ExpandOpusQuad
            <4>4. CASE e.opus_quad
                <5>1. kept = [i \in 1..4 |-> [e EXCEPT !.number = i]]
                    BY <4>2, <4>4 DEF ExpandOpusQuad
                <5> QED
                    BY <4>1, <5>1
            <4> QED
                BY <4>3, <4>4
        <3> QED
            BY <3>1, <3>2
    <2>2. ExtractDefenseDeviceNumber(p) \in Value /\ ExtractClaimStage2DeviceNumber(p) \in Value
        BY <1>2, ByteField, Plain DEF ExtractDefenseDeviceNumber, ExtractClaimStage2DeviceNumber
    <2>3. \A s \in {defended, claimed, <<>>} : s = <<>> \/ \E e : s = <<e>> /\ Valued(e)
        BY <1>3, <2>2
    <2>4. \A s \in {defended, claimed, <<>>} : \A k \in DOMAIN s : Valued(s[k])
        BY <1>1, <2>3
    <2>5. FinderStream(p) \in {<<"found", kept>>, <<"defense", defended>>, <<"claim", claimed>>, <<"found", <<>> >>}
        BY DEF FinderStream
    <2> HIDE DEF kept, defended, claimed
    <2>6. FinderStream(p)[2] \in {kept, defended, claimed, <<>>}
        BY <2>5
    <2>7. \A k \in DOMAIN FinderStream(p)[2] : Valued(FinderStream(p)[2][k])
        BY <2>1, <2>4, <2>6
    <2> QED
        BY <1>9, <2>7, Outcomes
<1> QED
    BY <1>4, <1>5, <1>6, <1>7, <1>8, <1>9

-----------------------------------------------------------------------------
(***************************************************************************)
(* The invariant: a packet is not heard of yet and its owner has it to     *)
(* come, or its status is in the cache and about to be sent, or its events *)
(* are in what was heard, one after the other and nothing else of it.      *)
(***************************************************************************)
NoneHeard(i) == \A k \in DOMAIN heard : heard[k].id # i

Inserting(i) == inserting # <<>> /\ inserting[1].id = i

Waits(i) ==
    /\ NoneHeard(i) /\ ~Inserting(i)
    /\ sent[i].events = <<>> \/ i \in lost \/ Owner(sent[i].stream) \in pending[i]

Arrives(i) ==
    /\ NoneHeard(i) /\ Inserting(i)
    /\ sent[i].stream = "status" /\ "status" \notin pending[i]
    /\ Len(sent[i].events) = 1 /\ Agrees(inserting[1].event, sent[i].events[1])

\* All that is heard of packet i is its events, after the first entries heard.
After(i, before) ==
    /\ \A k \in DOMAIN heard : heard[k].id = i =>
          /\ k - before \in DOMAIN sent[i].events /\ heard[k].stream = sent[i].stream
          /\ Agrees(heard[k].event, sent[i].events[k - before])
    /\ \A k \in DOMAIN sent[i].events : before + k \in DOMAIN heard /\ heard[before + k].id = i

Finished(i) ==
    /\ ~Inserting(i) /\ Owner(sent[i].stream) \notin pending[i]
    /\ \E before \in 0..Len(heard) : After(i, before)

\* What is still to come of a packet is as its sender meant it.
SoundSent == \A i \in DOMAIN sent : Meant(pending[i], sent[i].packet, sent[i].stream, sent[i].events)

Progress == \A i \in DOMAIN sent : Waits(i) \/ Arrives(i) \/ Finished(i)

Shape ==
    /\ IsSequence(sent) /\ Len(sent) <= MaxSent /\ DOMAIN pending = Ids
    /\ IsSequence(heard) /\ \A k \in DOMAIN heard : heard[k].id \in DOMAIN sent /\ Valued(heard[k].event)
    /\ inserting # <<>> => /\ DOMAIN inserting = {1} /\ inserting[1].id \in DOMAIN sent
                           /\ Valued(inserting[1].event)

HearInv == Shape /\ SoundSent /\ Progress

\* Sent packets have ids.
LEMMA SentDomain ==
    ASSUME Shape
    PROVE  /\ Len(sent) \in Nat /\ DOMAIN sent = 1..Len(sent) /\ DOMAIN sent \subseteq DOMAIN pending
           /\ Len(heard) \in Nat /\ DOMAIN heard = 1..Len(heard)
<1>1. Len(sent) \in Nat /\ DOMAIN sent = 1..Len(sent) /\ MaxSent \in Nat
    <2>1. PICK S : sent \in Seq(S)
        BY DEF Shape, IsSequence
    <2> QED
        BY <2>1, DatagramsAssumption
<1>2. Len(heard) \in Nat /\ DOMAIN heard = 1..Len(heard)
    <2>1. PICK S : heard \in Seq(S)
        BY DEF Shape, IsSequence
    <2> QED
        BY <2>1
<1> QED
    BY <1>1, <1>2 DEF Shape, Ids

\* Receiving takes one listener away, of one packet.
LEMMA PendingFalls ==
    ASSUME Shape, NEW i \in DOMAIN sent, NEW l, Receives(l, i), UNCHANGED sent
    PROVE  /\ l \in pending[i] /\ pending'[i] = pending[i] \ {l} /\ DOMAIN pending' = Ids
           /\ \A j \in DOMAIN sent : j # i => pending'[j] = pending[j]
           /\ \A j \in DOMAIN sent : pending'[j] \subseteq pending[j]
           /\ SoundSent => SoundSent'
<1>1. i \in DOMAIN pending /\ DOMAIN sent \subseteq DOMAIN pending
    BY SentDomain
<1>2. /\ l \in pending[i] /\ pending'[i] = pending[i] \ {l} /\ DOMAIN pending' = Ids
      /\ \A j \in DOMAIN sent : j # i => pending'[j] = pending[j]
    BY <1>1 DEF Receives, Shape
<1>3. ASSUME NEW j \in DOMAIN sent PROVE pending'[j] \subseteq pending[j]
    BY <1>2
<1>4. ASSUME SoundSent, NEW j \in DOMAIN sent
      PROVE  Meant(pending'[j], sent[j].packet, sent[j].stream, sent[j].events)
    <2>1. Meant(pending[j], sent[j].packet, sent[j].stream, sent[j].events)
        BY <1>4 DEF SoundSent
    <2> QED
        BY <1>3, <2>1 DEF Meant
<1> QED
    BY <1>2, <1>3, <1>4 DEF SoundSent

\* What is heard is appended.
LEMMA HeardGrows ==
    ASSUME Shape, NEW i, NEW stream, NEW events, IsSequence(events), Hear(i, stream, events)
    PROVE  /\ IsSequence(heard') /\ Len(events) \in Nat /\ DOMAIN events = 1..Len(events)
           /\ DOMAIN heard' = 1..(Len(heard) + Len(events)) /\ Len(heard') = Len(heard) + Len(events)
           /\ \A k \in DOMAIN heard : heard'[k] = heard[k]
           /\ \A k \in 1..Len(events) :
                 heard'[Len(heard) + k] = [id |-> i, stream |-> stream, event |-> events[k]]
<1> DEFINE e == Entries(i, stream, events)
<1>1. /\ IsSequence(e) /\ Len(e) = Len(events) /\ Len(events) \in Nat
      /\ \A k \in 1..Len(events) : e[k] = [id |-> i, stream |-> stream, event |-> events[k]]
    BY EntriesSequence
<1>2. heard' = heard \o e /\ IsSequence(heard)
    BY DEF Hear, Entries, Shape
<1>3. DOMAIN events = 1..Len(events)
    <2>1. PICK S : events \in Seq(S)
        BY DEF IsSequence
    <2> QED
        BY <2>1
<1> HIDE DEF e
<1>4. /\ IsSequence(heard') /\ Len(heard) \in Nat
      /\ DOMAIN heard = 1..Len(heard) /\ DOMAIN heard' = 1..(Len(heard) + Len(e))
      /\ \A k \in 1..Len(heard) : heard'[k] = heard[k]
      /\ \A k \in (Len(heard) + 1)..(Len(heard) + Len(e)) : heard'[k] = e[k - Len(heard)]
    BY <1>1, <1>2, Concatenated
<1>5. Len(heard') = Len(heard) + Len(events)
    <2>1. PICK S : heard' \in Seq(S)
        BY <1>4 DEF IsSequence
    <2>2. Len(heard') \in Nat /\ DOMAIN heard' = 1..Len(heard')
        BY <2>1
    <2>3. \A a, b \in Nat : 1..a = 1..b => a = b
        OBVIOUS
    <2> QED
        BY <1>1, <1>4, <2>2, <2>3
<1>6. ASSUME NEW k \in 1..Len(events)
      PROVE  heard'[Len(heard) + k] = [id |-> i, stream |-> stream, event |-> events[k]]
    <2>1. \A a, b \in Nat : \A c \in 1..b : a + c \in (a + 1)..(a + b) /\ (a + c) - a = c
        OBVIOUS
    <2>2. Len(heard) + k \in (Len(heard) + 1)..(Len(heard) + Len(e)) /\ (Len(heard) + k) - Len(heard) = k
        BY <1>1, <1>4, <2>1
    <2>3. heard'[Len(heard) + k] = e[k]
        BY <1>4, <2>2
    <2> QED
        BY <1>1, <2>3
<1> QED
    BY <1>1, <1>3, <1>4, <1>5, <1>6

\* What is heard of one packet is nothing to the others.
LEMMA OthersKept ==
    ASSUME Shape, NEW i, NEW stream, NEW events, IsSequence(events), Hear(i, stream, events),
           UNCHANGED sent, NEW j \in DOMAIN sent, j # i
    PROVE  /\ NoneHeard(j) => NoneHeard(j)'
           /\ (\E before \in 0..Len(heard) : After(j, before))
              => (\E before \in 0..Len(heard) : After(j, before))'
<1>1. /\ Len(events) \in Nat /\ Len(heard) \in Nat /\ DOMAIN heard = 1..Len(heard)
      /\ DOMAIN heard' = 1..(Len(heard) + Len(events)) /\ Len(heard') = Len(heard) + Len(events)
      /\ \A k \in DOMAIN heard : heard'[k] = heard[k]
      /\ \A k \in 1..Len(events) :
            heard'[Len(heard) + k] = [id |-> i, stream |-> stream, event |-> events[k]]
    BY HeardGrows, SentDomain
<1>2. ASSUME NEW k \in DOMAIN heard', heard'[k].id = j
      PROVE  k \in DOMAIN heard /\ heard'[k] = heard[k]
    <2>1. CASE k \in DOMAIN heard
        BY <1>1, <2>1
    <2>2. CASE k \notin DOMAIN heard
        <3>1. \A a, b \in Nat : \A c \in 1..(a + b) : c \notin 1..a => c - a \in 1..b /\ a + (c - a) = c
            OBVIOUS
        <3>2. k - Len(heard) \in 1..Len(events) /\ Len(heard) + (k - Len(heard)) = k
            BY <1>1, <2>2, <3>1
        <3>3. heard'[k] = [id |-> i, stream |-> stream, event |-> events[k - Len(heard)]]
            BY <1>1, <3>2
        <3>4. heard'[k].id = i
            BY <3>3
        <3> QED
            BY <1>2, <3>4
    <2> QED
        BY <2>1, <2>2
<1>3. DOMAIN heard \subseteq DOMAIN heard'
    BY <1>1
<1>4. NoneHeard(j) => NoneHeard(j)'
    BY <1>2 DEF NoneHeard
<1>5. ASSUME NEW before \in 0..Len(heard), After(j, before)
      PROVE  before \in 0..Len(heard') /\ After(j, before)'
    <2>1. before \in 0..Len(heard')
        BY <1>1
    <2>2. ASSUME NEW k \in DOMAIN heard', heard'[k].id = j
          PROVE  /\ k - before \in DOMAIN sent[j].events /\ heard'[k].stream = sent[j].stream
                 /\ Agrees(heard'[k].event, sent[j].events[k - before])
        <3>1. k \in DOMAIN heard /\ heard'[k] = heard[k]
            BY <1>2, <2>2
        <3> QED
            BY <1>5, <2>2, <3>1 DEF After
    <2>3. ASSUME NEW k \in DOMAIN sent[j].events
          PROVE  before + k \in DOMAIN heard' /\ heard'[before + k].id = j
        <3>1. before + k \in DOMAIN heard /\ heard[before + k].id = j
            BY <1>5 DEF After
        <3> QED
            BY <1>1, <1>3, <3>1
    <2>4. sent' = sent
        OBVIOUS
    <2> QED
        BY <2>1, <2>2, <2>3, <2>4 DEF After
<1> QED
    BY <1>4, <1>5

\* What is heard of a packet that was not heard of, and as it was meant, is all of it.
LEMMA OwnHeard ==
    ASSUME Shape, NEW i \in DOMAIN sent, NEW stream, NEW events, IsSequence(events),
           Hear(i, stream, events), UNCHANGED sent, NoneHeard(i), IsSequence(sent[i].events),
           stream = sent[i].stream, Len(events) = Len(sent[i].events),
           \A k \in 1..Len(events) : Agrees(events[k], sent[i].events[k])
    PROVE  (\E before \in 0..Len(heard) : After(i, before))'
<1>1. /\ Len(events) \in Nat /\ Len(heard) \in Nat /\ DOMAIN heard = 1..Len(heard)
      /\ DOMAIN heard' = 1..(Len(heard) + Len(events)) /\ Len(heard') = Len(heard) + Len(events)
      /\ \A k \in DOMAIN heard : heard'[k] = heard[k]
      /\ \A k \in 1..Len(events) :
            heard'[Len(heard) + k] = [id |-> i, stream |-> stream, event |-> events[k]]
    BY HeardGrows, SentDomain
<1>2. DOMAIN sent[i].events = 1..Len(events)
    <2>1. PICK S : sent[i].events \in Seq(S)
        BY DEF IsSequence
    <2> QED
        BY <2>1
<1> DEFINE before == Len(heard)
<1>3. before \in 0..Len(heard')
    BY <1>1
<1>4. ASSUME NEW k \in DOMAIN heard', heard'[k].id = i
      PROVE  /\ k - before \in DOMAIN sent[i].events /\ heard'[k].stream = sent[i].stream
             /\ Agrees(heard'[k].event, sent[i].events[k - before])
    <2>1. k \notin DOMAIN heard
        BY <1>1, <1>4 DEF NoneHeard
    <2>2. \A a, b \in Nat : \A c \in 1..(a + b) : c \notin 1..a => c - a \in 1..b /\ a + (c - a) = c
        OBVIOUS
    <2>3. k - before \in 1..Len(events) /\ before + (k - before) = k
        BY <1>1, <2>1, <2>2
    <2>4. heard'[k] = [id |-> i, stream |-> stream, event |-> events[k - before]]
        BY <1>1, <2>3
    <2>5. heard'[k].stream = stream /\ heard'[k].event = events[k - before]
        BY <2>4
    <2> HIDE DEF before
    <2> QED
        BY <1>2, <2>3, <2>5
<1>5. ASSUME NEW k \in DOMAIN sent[i].events
      PROVE  before + k \in DOMAIN heard' /\ heard'[before + k].id = i
    <2>1. heard'[before + k] = [id |-> i, stream |-> stream, event |-> events[k]]
        BY <1>1, <1>2
    <2>2. before + k \in DOMAIN heard'
        BY <1>1, <1>2
    <2> QED
        BY <2>1, <2>2
<1> HIDE DEF before
<1>6. ASSUME NEW b, b = before PROVE After(i, b)'
    BY <1>4, <1>5, <1>6 DEF After
<1> QED
    BY <1>3, <1>6

\* Nothing heard changes nothing.
LEMMA NothingHeard ==
    ASSUME Shape, NEW i, NEW stream, Hear(i, stream, <<>>)
    PROVE  heard' = heard
<1>1. PICK S : heard \in Seq(S)
    BY DEF Shape, IsSequence
<1>2. heard' = heard \o <<>>
    BY DEF Hear
<1> QED
    BY <1>1, <1>2

\* The shape of the state when entries are added to what was heard.
LEMMA ShapeGrows ==
    ASSUME Shape, NEW i \in DOMAIN sent, NEW stream, NEW events, IsSequence(events),
           Hear(i, stream, events), \A k \in DOMAIN events : Valued(events[k])
    PROVE  IsSequence(heard') /\ \A k \in DOMAIN heard' : heard'[k].id \in DOMAIN sent /\ Valued(heard'[k].event)
<1>1. /\ Len(events) \in Nat /\ Len(heard) \in Nat /\ DOMAIN heard = 1..Len(heard) /\ IsSequence(heard')
      /\ DOMAIN events = 1..Len(events)
      /\ DOMAIN heard' = 1..(Len(heard) + Len(events)) /\ Len(heard') = Len(heard) + Len(events)
      /\ \A k \in DOMAIN heard : heard'[k] = heard[k]
      /\ \A k \in 1..Len(events) :
            heard'[Len(heard) + k] = [id |-> i, stream |-> stream, event |-> events[k]]
    BY HeardGrows, SentDomain
<1>2. ASSUME NEW k \in DOMAIN heard' PROVE heard'[k].id \in DOMAIN sent /\ Valued(heard'[k].event)
    <2>1. CASE k \in DOMAIN heard
        BY <1>1, <2>1 DEF Shape
    <2>2. CASE k \notin DOMAIN heard
        <3>1. \A a, b \in Nat : \A c \in 1..(a + b) : c \notin 1..a => c - a \in 1..b /\ a + (c - a) = c
            OBVIOUS
        <3>2. k - Len(heard) \in 1..Len(events) /\ Len(heard) + (k - Len(heard)) = k
            BY <1>1, <2>2, <3>1
        <3>3. heard'[k] = [id |-> i, stream |-> stream, event |-> events[k - Len(heard)]]
            BY <1>1, <3>2
        <3>4. heard'[k].id = i /\ heard'[k].event = events[k - Len(heard)]
            BY <3>3
        <3> QED
            BY <1>1, <3>2, <3>4
    <2> QED
        BY <2>1, <2>2
<1> QED
    BY <1>1, <1>2

\* Nothing else moves: a packet whose listeners to come are the same stays as it is.
LEMMA ProgressKept ==
    ASSUME NEW i \in DOMAIN sent, UNCHANGED <<heard, inserting>>, sent'[i] = sent[i], i \in lost => i \in lost',
           \/ pending'[i] = pending[i]
           \/ \E l : pending'[i] = pending[i] \ {l} /\ (l # Owner(sent[i].stream) \/ i \in lost')
           \/ sent[i].events = <<>> /\ pending'[i] \subseteq pending[i],
           Waits(i) \/ Arrives(i) \/ Finished(i)
    PROVE  (Waits(i) \/ Arrives(i) \/ Finished(i))'
<1>1. CASE Waits(i)
    <2>1. sent[i].events = <<>> \/ i \in lost' \/ Owner(sent[i].stream) \in pending'[i]
        BY <1>1 DEF Waits
    <2>2. Waits(i)'
        BY <1>1, <2>1 DEF Waits, NoneHeard, Inserting
    <2> QED
        BY <2>2
<1>2. pending'[i] \subseteq pending[i]
    OBVIOUS
<1>3. CASE Arrives(i)
    <2>1. Arrives(i)'
        BY <1>2, <1>3 DEF Arrives, NoneHeard, Inserting
    <2> QED
        BY <2>1
<1>4. CASE Finished(i)
    <2>1. Finished(i)'
        BY <1>2, <1>4 DEF Finished, After, Inserting
    <2> QED
        BY <2>1
<1> QED
    BY <1>1, <1>3, <1>4

\* A listener that tells at once what it receives.
LEMMA Hearing ==
    ASSUME HearInv, NEW i \in DOMAIN sent, NEW l \in {"finder", "beats", "commands", "app", "player"},
           Receives(l, i), Hear(i, Outcome(l, sent[i].packet)[1], Outcome(l, sent[i].packet)[2]),
           UNCHANGED <<sent, lost, inserting>>
    PROVE  HearInv'
<1> DEFINE p == sent[i].packet
           stream == sent[i].stream
           meant == sent[i].events
           kind == Outcome(l, p)[1]
           told == Outcome(l, p)[2]
<1>1. /\ l \in pending[i] /\ pending'[i] = pending[i] \ {l} /\ DOMAIN pending' = Ids
      /\ \A j \in DOMAIN sent : j # i => pending'[j] = pending[j]
      /\ SoundSent'
    BY PendingFalls DEF HearInv
<1>2. Meant(pending[i], p, stream, meant)
    BY DEF HearInv, SoundSent
<1>3. IsSequence(told) /\ kind # "status"
    BY OutcomeSequence
<1>4. \A k \in DOMAIN told : Valued(told[k])
    BY <1>1, <1>2, OutcomeValued DEF Meant
<1>5. Shape /\ Hear(i, kind, told)
    BY DEF HearInv
<1>6. Shape'
    <2>1. IsSequence(heard') /\ \A k \in DOMAIN heard' : heard'[k].id \in DOMAIN sent /\ Valued(heard'[k].event)
        <3> HIDE DEF told, kind
        <3> QED
            BY <1>3, <1>4, <1>5, ShapeGrows
    <2> QED
        BY <1>1, <1>5, <2>1 DEF Shape, Ids
<1> HIDE DEF told, kind
<1>7. ASSUME NEW j \in DOMAIN sent, j # i
      PROVE  (Waits(j) \/ Arrives(j) \/ Finished(j))'
    <2>1. /\ NoneHeard(j) => NoneHeard(j)'
          /\ (\E before \in 0..Len(heard) : After(j, before)) => (\E before \in 0..Len(heard) : After(j, before))'
        BY <1>3, <1>5, <1>7, OthersKept
    <2>2. pending'[j] = pending[j] /\ UNCHANGED <<sent, lost, inserting>>
        BY <1>1, <1>7
    <2>3. Waits(j) \/ Arrives(j) \/ Finished(j)
        BY DEF HearInv, Progress
    <2>4. CASE Waits(j)
        BY <2>1, <2>2, <2>4 DEF Waits, Inserting
    <2>5. CASE Arrives(j)
        BY <2>1, <2>2, <2>5 DEF Arrives, Inserting
    <2>6. CASE Finished(j)
        <3>1. Finished(j)'
            BY <2>1, <2>2, <2>6 DEF Finished, Inserting
        <3> QED
            BY <3>1
    <2> QED
        BY <2>3, <2>4, <2>5, <2>6
<1>8. (Waits(i) \/ Arrives(i) \/ Finished(i))'
    <2>1. Waits(i) \/ Arrives(i) \/ Finished(i)
        BY DEF HearInv, Progress
    <2>2. CASE told = <<>>
        <3>1. heard' = heard
            BY <1>5, <2>2, NothingHeard
        <3>2. l # Owner(stream) \/ meant = <<>>
            <4>1. ASSUME l = Owner(stream), meant # <<>> PROVE FALSE
                <5>1. Len(told) = Len(meant) /\ IsSequence(meant)
                    BY <1>1, <1>2, <4>1 DEF Meant, Tells, told
                <5>2. PICK S : meant \in Seq(S)
                    BY <5>1 DEF IsSequence
                <5>3. Len(told) = 0
                    BY <2>2
                <5>4. meant # <<>> /\ Len(meant) = 0
                    BY <4>1, <5>1, <5>3
                <5> HIDE DEF meant
                <5> QED
                    BY <5>2, <5>4, EmptySeq
            <4> QED
                BY <4>1
        <3> QED
            BY <1>1, <2>1, <3>1, <3>2, ProgressKept
    <2>3. CASE told # <<>>
        <3>1. l = Owner(stream) /\ Tells(l, p, stream, meant) /\ meant # <<>> /\ IsSequence(meant)
            BY <1>1, <1>2, <2>3 DEF Meant, Tells, Silent, told
        <3>2. /\ kind = stream /\ Len(told) = Len(meant)
              /\ \A k \in 1..Len(told) : Agrees(told[k], meant[k])
            BY <3>1 DEF Tells, told, kind
        <3>3. ~Finished(i) /\ ~Arrives(i)
            BY <1>1, <1>3, <3>1, <3>2 DEF Finished, Arrives
        <3>4. Waits(i)
            BY <2>1, <3>3
        <3>5. (\E before \in 0..Len(heard) : After(i, before))'
            BY <1>3, <1>5, <3>1, <3>2, <3>4, OwnHeard DEF Waits
        <3>6. Owner(sent[i].stream) \notin pending'[i]
            BY <1>1, <3>1
        <3>7. Finished(i)'
            BY <3>4, <3>5, <3>6 DEF Finished, Waits, Inserting
        <3> QED
            BY <3>7
    <2> QED
        BY <2>2, <2>3
<1>9. Progress'
    BY <1>7, <1>8 DEF Progress
<1> QED
    BY <1>1, <1>6, <1>9 DEF HearInv

\* The status listener, up to its send.
LEMMA StatusHearing ==
    ASSUME HearInv, NEW i \in DOMAIN sent, StatusReceives(i)
    PROVE  HearInv'
<1> DEFINE p == sent[i].packet
           stream == sent[i].stream
           meant == sent[i].events
           status == ParseStatus(p)
<1>1. Receives("status", i) /\ inserting = <<>> /\ UNCHANGED <<sent, lost, heard>>
    BY DEF StatusReceives
<1>2. /\ "status" \in pending[i] /\ pending'[i] = pending[i] \ {"status"} /\ DOMAIN pending' = Ids
      /\ \A j \in DOMAIN sent : j # i => pending'[j] = pending[j]
      /\ SoundSent'
    BY <1>1, PendingFalls DEF HearInv
<1>3. Meant(pending[i], p, stream, meant)
    BY DEF HearInv, SoundSent
<1>4. Outcome("status", p) = <<"status", status>>
    BY Outcomes
<1>5. /\ Shape /\ \A j \in DOMAIN sent : Waits(j) \/ Arrives(j) \/ Finished(j)
      /\ \A j \in DOMAIN sent : ~Arrives(j)
    BY <1>1 DEF HearInv, Progress, Arrives, Inserting
<1>6. CASE status = <<>>
    <2>1. inserting' = inserting
        BY <1>6 DEF StatusReceives
    <2>2. Shape'
        BY <1>1, <1>2, <1>5, <2>1 DEF Shape, Ids
    <2>3. "status" # Owner(stream) \/ meant = <<>>
        <3>1. ASSUME "status" = Owner(stream), meant # <<>> PROVE FALSE
            <4>1. Len(status) = Len(meant) /\ IsSequence(meant)
                BY <1>2, <1>3, <1>4, <3>1 DEF Meant, Tells
            <4>2. PICK S : meant \in Seq(S)
                BY <4>1 DEF IsSequence
            <4>3. Len(status) = 0
                BY <1>6
            <4>4. meant # <<>> /\ Len(meant) = 0
                BY <3>1, <4>1, <4>3
            <4> HIDE DEF meant
            <4> QED
                BY <4>2, <4>4, EmptySeq
        <3> QED
            BY <3>1
    <2>4. ASSUME NEW j \in DOMAIN sent PROVE (Waits(j) \/ Arrives(j) \/ Finished(j))'
        <3>1. CASE j = i
            BY <1>1, <1>2, <1>5, <2>1, <2>3, <3>1, ProgressKept
        <3>2. CASE j # i
            BY <1>1, <1>2, <1>5, <2>1, <3>2, ProgressKept
        <3> QED
            BY <3>1, <3>2
    <2>5. Progress'
        BY <1>1, <2>4 DEF Progress
    <2> QED
        BY <1>2, <2>2, <2>5 DEF HearInv
<1>7. CASE status # <<>>
    <2>1. inserting' = <<[id |-> i, event |-> status[1]]>>
        BY <1>7 DEF StatusReceives
    <2>2. inserting' # <<>> /\ DOMAIN inserting' = {1} /\ inserting'[1].id = i /\ inserting'[1].event = status[1]
        BY <2>1
    <2>3. Valued(status[1]) /\ Len(status) = 1
        <3>1. PICK e : status = <<e>>
            BY <1>7, ParsersGive DEF AtMostOne
        <3>2. \A k \in DOMAIN status : Valued(status[k])
            <4>1. IsPacket(p)
                BY <1>3 DEF Meant
            <4>2. \A k \in DOMAIN Outcome("status", p)[2] : Valued(Outcome("status", p)[2][k])
                BY <4>1, OutcomeValued
            <4> QED
                BY <1>4, <4>2
        <3>3. Len(status) = 1 /\ 1 \in DOMAIN status
            BY <3>1
        <3> HIDE DEF status
        <3> QED
            BY <3>2, <3>3
    <2>4. Shape'
        BY <1>1, <1>2, <1>5, <2>2, <2>3 DEF Shape, Ids
    <2>5. "status" = Owner(stream) /\ Tells("status", p, stream, meant) /\ meant # <<>>
        BY <1>2, <1>3, <1>4, <1>7 DEF Meant, Tells, Silent
    <2>6. /\ stream = "status" /\ Len(meant) = 1 /\ Agrees(status[1], meant[1])
        <3>1. /\ Outcome("status", p)[1] = stream /\ Len(Outcome("status", p)[2]) = Len(meant)
              /\ \A k \in 1..Len(meant) : Agrees(Outcome("status", p)[2][k], meant[k])
            BY <2>5 DEF Tells
        <3>2. Len(meant) = 1 /\ stream = "status"
            BY <1>4, <2>3, <3>1
        <3>3. 1 \in 1..Len(meant)
            BY <3>2
        <3> HIDE DEF status, meant, stream
        <3> QED
            BY <1>4, <3>1, <3>2, <3>3
    <2>7. Waits(i)
        BY <1>2, <1>5, <2>5 DEF Finished
    <2>8. Arrives(i)'
        <3>1. NoneHeard(i)' /\ Inserting(i)'
            BY <1>1, <2>2, <2>7 DEF Waits, NoneHeard, Inserting
        <3> QED
            BY <1>1, <1>2, <2>2, <2>6, <3>1 DEF Arrives
    <2>9. ASSUME NEW j \in DOMAIN sent, j # i PROVE Waits(j)' \/ Finished(j)'
        <3>1. ~Inserting(j)'
            BY <2>2, <2>9 DEF Inserting
        <3>2. pending'[j] = pending[j]
            BY <1>2, <2>9
        <3>3. CASE Waits(j)
            BY <1>1, <3>1, <3>2, <3>3 DEF Waits, NoneHeard
        <3>4. CASE Finished(j)
            BY <1>1, <3>1, <3>2, <3>4 DEF Finished, After
        <3> QED
            BY <1>5, <3>3, <3>4
    <2>10. Progress'
        BY <1>1, <2>8, <2>9 DEF Progress
    <2> QED
        BY <1>2, <2>4, <2>10 DEF HearInv
<1> QED
    BY <1>6, <1>7

\* The status in the cache is sent.
LEMMA StatusTold == ASSUME HearInv, StatusSent PROVE HearInv'
<1>0. PICK i, event : i = inserting[1].id /\ event = inserting[1].event
    OBVIOUS
<1> DEFINE told == <<event>>
<1>1. /\ inserting # <<>> /\ inserting' = <<>> /\ Hear(i, "status", told)
      /\ UNCHANGED <<sent, pending, lost>>
    BY <1>0 DEF StatusSent
<1>3. IsSequence(told) /\ Len(told) = 1 /\ DOMAIN told = {1} /\ told[1] = event
    <2>1. AtMostOne(told)
        BY DEF AtMostOne
    <2> QED
        BY <2>1, AtMostOneSequence
<1>4. Shape /\ i \in DOMAIN sent /\ Valued(event) /\ Arrives(i)
    <2>1. Inserting(i)
        BY <1>0, <1>1 DEF Inserting
    <2>2. Shape /\ i \in DOMAIN sent /\ Valued(event)
        BY <1>0, <1>1 DEF HearInv, Shape
    <2>3. Waits(i) \/ Arrives(i) \/ Finished(i)
        BY <2>2 DEF HearInv, Progress
    <2> QED
        BY <2>1, <2>2, <2>3 DEF Waits, Finished
<1> HIDE DEF told
<1>5. \A k \in DOMAIN told : Valued(told[k])
    BY <1>3, <1>4
<1>6. Arrives(i) => /\ NoneHeard(i) /\ sent[i].stream = "status" /\ "status" \notin pending[i]
                    /\ Len(sent[i].events) = 1 /\ Agrees(event, sent[i].events[1])
    BY <1>0 DEF Arrives
<1>7. Shape'
    <2>1. IsSequence(heard') /\ \A k \in DOMAIN heard' : heard'[k].id \in DOMAIN sent /\ Valued(heard'[k].event)
        BY <1>1, <1>3, <1>4, <1>5, ShapeGrows
    <2> QED
        BY <1>1, <1>4, <2>1 DEF Shape, Ids
<1>8. Finished(i)'
    <2>1. IsSequence(sent[i].events)
        BY <1>4 DEF HearInv, SoundSent, Meant
    <2>2. \A k \in 1..Len(told) : Agrees(told[k], sent[i].events[k])
        <3>1. \A k \in 1..Len(told) : k = 1
            BY <1>3
        <3> QED
            BY <1>3, <1>4, <1>6, <3>1
    <2>3. (\E before \in 0..Len(heard) : After(i, before))'
        <3>1. Len(told) = Len(sent[i].events) /\ "status" = sent[i].stream /\ NoneHeard(i)
            BY <1>3, <1>4, <1>6
        <3> QED
            BY <1>1, <1>3, <1>4, <2>1, <2>2, <3>1, OwnHeard
    <2>4. Owner(sent[i].stream) \notin pending[i]
        BY <1>4, <1>6, Owners
    <2> QED
        BY <1>1, <2>3, <2>4 DEF Finished, Inserting
<1>9. ASSUME NEW j \in DOMAIN sent, j # i PROVE Waits(j)' \/ Finished(j)'
    <2>1. /\ NoneHeard(j) => NoneHeard(j)'
          /\ (\E before \in 0..Len(heard) : After(j, before)) => (\E before \in 0..Len(heard) : After(j, before))'
        BY <1>1, <1>3, <1>4, <1>9, OthersKept
    <2>2. ~Arrives(j)
        BY <1>0, <1>9 DEF Arrives, Inserting
    <2>3. Waits(j) \/ Finished(j)
        BY <2>2 DEF HearInv, Progress
    <2>4. ~Inserting(j)'
        BY <1>1 DEF Inserting
    <2>5. CASE Waits(j)
        BY <1>1, <2>1, <2>4, <2>5 DEF Waits
    <2>6. CASE Finished(j)
        BY <1>1, <2>1, <2>4, <2>6 DEF Finished
    <2> QED
        BY <2>3, <2>5, <2>6
<1>10. Progress' /\ SoundSent'
    <2>1. SoundSent'
        BY <1>1 DEF HearInv, SoundSent
    <2>2. Progress'
        BY <1>1, <1>8, <1>9 DEF Progress
    <2> QED
        BY <2>1, <2>2
<1> QED
    BY <1>7, <1>10 DEF HearInv

\* A listener that misses a packet.
LEMMA Losing == ASSUME HearInv, NEW i \in DOMAIN sent, NEW l \in Listener, Lose(l, i) PROVE HearInv'
<1>1. Receives(l, i) /\ lost' = lost \union {i} /\ UNCHANGED <<sent, heard, inserting>>
    BY DEF Lose
<1>2. /\ pending'[i] = pending[i] \ {l} /\ DOMAIN pending' = Ids
      /\ \A j \in DOMAIN sent : j # i => pending'[j] = pending[j]
      /\ SoundSent'
    BY <1>1, PendingFalls DEF HearInv
<1>3. Shape'
    BY <1>1, <1>2 DEF HearInv, Shape, Ids
<1>4. ASSUME NEW j \in DOMAIN sent PROVE (Waits(j) \/ Arrives(j) \/ Finished(j))'
    <2>1. Waits(j) \/ Arrives(j) \/ Finished(j)
        BY DEF HearInv, Progress
    <2>2. CASE j = i
        BY <1>1, <1>2, <2>1, <2>2, ProgressKept
    <2>3. CASE j # i
        BY <1>1, <1>2, <2>1, <2>3, ProgressKept
    <2> QED
        BY <2>2, <2>3
<1>5. Progress'
    BY <1>1, <1>4 DEF Progress
<1> QED
    BY <1>2, <1>3, <1>5 DEF HearInv

\* A packet that is sent is the last.
LEMMA SentGrows ==
    ASSUME Shape, NEW port, NEW to, NEW p, NEW stream, NEW events, Emit(port, to, p, stream, events)
    PROVE  /\ IsSequence(sent') /\ Len(sent') = Len(sent) + 1 /\ DOMAIN sent' = DOMAIN sent \union {Len(sent) + 1}
           /\ sent'[Len(sent) + 1] = [port |-> port, packet |-> p, stream |-> stream, events |-> events]
           /\ \A j \in DOMAIN sent : sent'[j] = sent[j]
<1> DEFINE packet == [port |-> port, packet |-> p, stream |-> stream, events |-> events]
           n == Len(sent) + 1
<1>1. sent' = Append(sent, packet)
    BY DEF Emit
<1>2. Len(sent) \in Nat /\ DOMAIN sent = 1..Len(sent)
    BY SentDomain
<1>3. PICK S : sent \in Seq(S)
    BY DEF Shape, IsSequence
<1> DEFINE T == S \union {packet}
<1> HIDE DEF packet
<1>4. sent \in Seq(T) /\ packet \in T
    BY <1>3
<1> HIDE DEF T
<1>5. sent' \in Seq(T) /\ Len(sent') = n
    BY <1>1, <1>4
<1>6. sent'[n] = packet /\ \A j \in 1..Len(sent) : sent'[j] = sent[j]
    BY <1>1, <1>4
<1>7. DOMAIN sent' = 1..n
    BY <1>5
<1>8. 1..n = 1..Len(sent) \union {n}
    BY <1>2
<1> QED
    BY <1>2, <1>5, <1>6, <1>7, <1>8 DEF IsSequence, packet

\* A packet is sent.
LEMMA Sending ==
    ASSUME HearInv, NEW port, NEW to, NEW p, NEW stream, NEW events,
           Emit(port, to, p, stream, events), Sound(to, p, stream, events)
    PROVE  HearInv'
<1>0. PICK n : n = Len(sent) + 1
    OBVIOUS
<1> DEFINE packet == [port |-> port, packet |-> p, stream |-> stream, events |-> events]
<1>1. /\ Len(sent) < MaxSent /\ sent' = Append(sent, packet)
      /\ pending' = [pending EXCEPT ![n] = to] /\ UNCHANGED <<lost, heard, latest, inserting>>
    BY <1>0 DEF Emit
<1>2. Shape /\ MaxSent \in Nat /\ Len(sent) \in Nat /\ DOMAIN sent = 1..Len(sent) /\ DOMAIN pending = Ids
    BY SentDomain, DatagramsAssumption DEF HearInv, Shape
<1>3. n \in Ids /\ n \notin DOMAIN sent /\ DOMAIN sent \subseteq Ids
    BY <1>0, <1>1, <1>2 DEF Ids
<1>4. /\ IsSequence(sent') /\ Len(sent') = n /\ DOMAIN sent' = DOMAIN sent \union {n}
      /\ sent'[n] = packet /\ \A j \in DOMAIN sent : sent'[j] = sent[j]
    <2>1. /\ IsSequence(sent') /\ Len(sent') = Len(sent) + 1 /\ DOMAIN sent' = DOMAIN sent \union {Len(sent) + 1}
          /\ sent'[Len(sent) + 1] = packet /\ \A j \in DOMAIN sent : sent'[j] = sent[j]
        <3>1. Shape
            BY <1>2
        <3> QED
            BY <3>1, SentGrows, Zenon
    <2> HIDE DEF packet
    <2> QED
        BY <1>0, <2>1
<1>5. packet.packet = p /\ packet.stream = stream /\ packet.events = events
    OBVIOUS
<1> HIDE DEF packet
<1>6. pending'[n] = to /\ DOMAIN pending' = Ids /\ \A j \in DOMAIN sent : pending'[j] = pending[j]
    BY <1>1, <1>2, <1>3
<1>7. Shape'
    <2>1. n <= MaxSent
        BY <1>3, <1>2 DEF Ids
    <2> QED
        BY <1>1, <1>2, <1>4, <1>6, <2>1 DEF Shape, Ids
<1>8. SoundSent'
    <2>1. Meant(pending'[n], sent'[n].packet, sent'[n].stream, sent'[n].events)
        BY <1>4, <1>5, <1>6 DEF Sound
    <2> QED
        BY <1>4, <1>6, <2>1 DEF HearInv, SoundSent
<1>9. Waits(n)'
    <2>1. \A k \in DOMAIN heard : heard[k].id # n
        BY <1>2, <1>3 DEF Shape
    <2>2. ~(inserting # <<>> /\ inserting[1].id = n)
        BY <1>2, <1>3 DEF Shape
    <2>3. sent'[n].events = <<>> \/ Owner(sent'[n].stream) \in pending'[n]
        BY <1>4, <1>5, <1>6 DEF Sound
    <2> QED
        BY <1>1, <2>1, <2>2, <2>3 DEF Waits, NoneHeard, Inserting
<1>10. ASSUME NEW j \in DOMAIN sent PROVE (Waits(j) \/ Arrives(j) \/ Finished(j))'
    <2>1. Waits(j) \/ Arrives(j) \/ Finished(j)
        BY DEF HearInv, Progress
    <2> QED
        BY <1>1, <1>4, <1>6, <2>1, ProgressKept
<1>11. Progress'
    BY <1>4, <1>9, <1>10 DEF Progress
<1> QED
    BY <1>7, <1>8, <1>11 DEF HearInv

-----------------------------------------------------------------------------
(* Every step *)

\* The listeners that tell at once what they receive tell nothing of the status stream,
\* and leave the cache of statuses alone.
LEMMA Tellers ==
    ASSUME NEW i,
           FinderReceives(i) \/ BeatsReceive(i) \/ CommandReceives(i) \/ AppReceives(i) \/ PlayerReceives(i)
    PROVE  /\ UNCHANGED <<sent, lost, latest, inserting>>
           /\ \E l \in {"finder", "beats", "commands", "app", "player"} :
                 /\ Receives(l, i)
                 /\ Hear(i, Outcome(l, sent[i].packet)[1], Outcome(l, sent[i].packet)[2])
<1> DEFINE p == sent[i].packet
<1>1. /\ Outcome("finder", p) = FinderStream(p) /\ Outcome("beats", p) = BeatStream(p)
      /\ Outcome("commands", p)[1] = "command" /\ Outcome("commands", p)[2] = TryParseCommand(p)
      /\ Outcome("app", p)[1] = "media" /\ Outcome("app", p)[2] = ParseMediaDetails(p)
      /\ Outcome("player", p)[1] = "settings" /\ Outcome("player", p)[2] = ReadSettings(p)
    BY Outcomes
<1>2. CASE FinderReceives(i)
    BY <1>1, <1>2 DEF FinderReceives
<1>3. CASE BeatsReceive(i)
    BY <1>1, <1>3 DEF BeatsReceive
<1>4. CASE CommandReceives(i)
    BY <1>1, <1>4 DEF CommandReceives
<1>5. CASE AppReceives(i)
    BY <1>1, <1>5 DEF AppReceives
<1>6. CASE PlayerReceives(i)
    BY <1>1, <1>6 DEF PlayerReceives
<1> QED
    BY <1>2, <1>3, <1>4, <1>5, <1>6

\* Every step keeps the invariant,
LEMMA HearingNext == HearInv /\ [Next]_vars => HearInv'
<1> SUFFICES ASSUME HearInv, [Next]_vars PROVE HearInv'
    OBVIOUS
<1>1. CASE Operation \/ Device
    <2>1. PICK port, to, p, stream, events :
              /\ Emit(port, to, p, stream, events) /\ Sound(to, p, stream, events)
              /\ Implied(p, stream, events)
        BY <1>1, AllSends DEF Sends
    <2> QED
        BY <2>1, Sending
<1>2. ASSUME NEW i \in DOMAIN sent,
             FinderReceives(i) \/ BeatsReceive(i) \/ CommandReceives(i) \/ AppReceives(i) \/ PlayerReceives(i)
      PROVE  HearInv'
    BY <1>2, Tellers, Hearing
<1>3. CASE XdjWindowEnds \/ UNCHANGED vars
    <2>1. UNCHANGED <<sent, pending, lost, heard, inserting>>
        BY <1>3 DEF XdjWindowEnds, vars
    <2>2. Shape' /\ SoundSent'
        BY <2>1 DEF HearInv, Shape, SoundSent, Ids
    <2>3. ASSUME NEW i \in DOMAIN sent PROVE (Waits(i) \/ Arrives(i) \/ Finished(i))'
        BY <2>1, ProgressKept DEF HearInv, Progress
    <2>4. Progress'
        BY <2>1, <2>3 DEF Progress
    <2> QED
        BY <2>2, <2>4 DEF HearInv
<1> QED
    BY <1>1, <1>2, <1>3, StatusHearing, StatusTold, Losing DEF Next, Task

\* and the initial state has it.
LEMMA HearingFirst == Init => HearInv
<1> SUFFICES ASSUME Init PROVE HearInv
    OBVIOUS
<1>1. sent = <<>> /\ heard = <<>> /\ inserting = <<>> /\ DOMAIN pending = Ids
    BY DEF Init
<1>2. <<>> \in Seq({}) /\ Len(<<>>) = 0 /\ DOMAIN <<>> = {}
    OBVIOUS
<1>3. Shape
    BY <1>1, <1>2, DatagramsAssumption DEF Shape, IsSequence
<1> QED
    BY <1>1, <1>2, <1>3 DEF HearInv, SoundSent, Progress

\* Whatever an operation of the virtual CDJ or a device sends is heard as it was meant, by
\* the subscribers it is for and by no others, once and in order, whatever packets are
\* lost and in whatever order they are handled: the builders and parsers of
\* protocol/ and the dispatch by port and type byte of the three listening tasks.
THEOREM DatagramsHeardAsMeant == Spec => []HeardAsMeant
<1>1. HearInv => HeardAsMeant
    <2> SUFFICES ASSUME HearInv, NEW i \in DOMAIN sent
                 PROVE  \E before \in 0..Len(heard) : \A k \in DOMAIN heard : heard[k].id = i =>
                           /\ k - before \in DOMAIN sent[i].events /\ heard[k].stream = sent[i].stream
                           /\ Agrees(heard[k].event, sent[i].events[k - before])
        BY DEF HeardAsMeant
    <2>1. CASE NoneHeard(i)
        <3>1. 0 \in 0..Len(heard)
            BY SentDomain DEF HearInv
        <3> QED
            BY <2>1, <3>1 DEF NoneHeard
    <2>2. CASE Finished(i)
        BY <2>2 DEF Finished, After
    <2> QED
        BY <2>1, <2>2 DEF HearInv, Progress, Waits, Arrives
<1> QED
    BY <1>1, HearingFirst, HearingNext, PTL DEF Spec

\* Nothing that reaches its listener is dropped by it: when every listener has handled a
\* packet and none has missed it, all its events have been heard.
THEOREM DatagramsNothingMissed == Spec => []NothingMissed
<1>1. HearInv => NothingMissed
    <2> SUFFICES ASSUME HearInv, NEW i \in DOMAIN sent, pending[i] = {}, i \notin lost,
                        inserting = <<>> \/ inserting[1].id # i
                 PROVE  \E before \in 0..Len(heard) : \A k \in DOMAIN sent[i].events :
                           before + k \in DOMAIN heard /\ heard[before + k].id = i
        BY DEF NothingMissed
    <2>1. CASE Waits(i)
        <3>1. sent[i].events = <<>>
            BY <2>1 DEF Waits
        <3>2. 0 \in 0..Len(heard)
            BY SentDomain DEF HearInv
        <3> QED
            BY <3>1, <3>2
    <2>2. CASE Finished(i)
        BY <2>2 DEF Finished, After
    <2> QED
        BY <2>1, <2>2 DEF HearInv, Progress, Arrives, Inserting
<1> QED
    BY <1>1, HearingFirst, HearingNext, PTL DEF Spec

\* No listener reads past the end of a packet, whatever its size.
THEOREM DatagramsNoPanic == Spec => []NoPanic
<1>1. HearInv => NoPanic
    <2> SUFFICES ASSUME HearInv, NEW k \in DOMAIN heard, NEW f \in DOMAIN heard[k].event
                 PROVE  /\ heard[k].event[f] # Panic
                        /\ f = "channels" => \A c \in DOMAIN heard[k].event[f] : heard[k].event[f][c] # Panic
        BY DEF NoPanic
    <2>1. Valued(heard[k].event)
        BY DEF HearInv, Shape
    <2> QED
        BY <2>1, PanicAssumption DEF Valued
<1> QED
    BY <1>1, HearingFirst, HearingNext, PTL DEF Spec

-----------------------------------------------------------------------------
(***************************************************************************)
(* The invariant: LatestIsLastHeard of any device number.                  *)
(***************************************************************************)
LatestOf(n) ==
    IF inserting # <<>> /\ inserting[1].event.device_number = n
    THEN n \in DOMAIN latest /\ latest[n] = inserting[1].id
    ELSE IF StatusesOf(n) = {} THEN n \notin DOMAIN latest
    ELSE n \in DOMAIN latest /\ \E k \in StatusesOf(n) :
            latest[n] = heard[k].id /\ \A j \in StatusesOf(n) : j <= k

CacheInv == IsSequence(heard) /\ \A n : LatestOf(n)

\* What is heard on other streams leaves the statuses heard as they were.
LEMMA OthersHeard ==
    ASSUME CacheInv, NEW i, NEW stream, NEW events, IsSequence(events), stream # "status",
           Hear(i, stream, events), UNCHANGED <<latest, inserting>>
    PROVE  CacheInv'
<1>1. heard' = heard \o Entries(i, stream, events)
    BY DEF Hear, Entries
<1>2. /\ IsSequence(heard) /\ IsSequence(heard')
      /\ Len(heard) \in Nat /\ Len(events) \in Nat /\ DOMAIN heard = 1..Len(heard)
      /\ DOMAIN heard' = 1..(Len(heard) + Len(events))
      /\ \A k \in 1..Len(heard) : heard'[k] = heard[k]
      /\ \A k \in (Len(heard) + 1)..(Len(heard) + Len(events)) : heard'[k].stream = stream
    <2> DEFINE e == Entries(i, stream, events)
    <2>1. /\ IsSequence(e) /\ Len(e) = Len(events) /\ Len(events) \in Nat
          /\ \A k \in 1..Len(events) : e[k] = [id |-> i, stream |-> stream, event |-> events[k]]
        BY EntriesSequence
    <2>2. IsSequence(heard) /\ heard' = heard \o e
        BY <1>1 DEF CacheInv
    <2> HIDE DEF e
    <2>3. ASSUME NEW k \in 1..Len(events) PROVE e[k].stream = stream
        <3>1. e[k] = [id |-> i, stream |-> stream, event |-> events[k]]
            BY <2>1
        <3> QED
            BY <3>1
    <2>4. /\ IsSequence(heard \o e) /\ Len(heard) \in Nat
          /\ DOMAIN heard = 1..Len(heard) /\ DOMAIN (heard \o e) = 1..(Len(heard) + Len(e))
          /\ \A k \in 1..Len(heard) : (heard \o e)[k] = heard[k]
          /\ \A k \in (Len(heard) + 1)..(Len(heard) + Len(e)) : (heard \o e)[k] = e[k - Len(heard)]
        BY <2>1, <2>2, Concatenated
    <2>5. ASSUME NEW k \in (Len(heard) + 1)..(Len(heard) + Len(events))
          PROVE  heard'[k].stream = stream
        <3>4. \A a, b \in Nat : \A j \in (a + 1)..(a + b) : j - a \in 1..b
            OBVIOUS
        <3>1. k - Len(heard) \in 1..Len(events)
            BY <2>1, <2>4, <3>4
        <3>2. heard'[k] = e[k - Len(heard)]
            BY <2>1, <2>2, <2>4
        <3> QED
            BY <2>3, <3>1, <3>2
    <2> QED
        BY <2>1, <2>2, <2>4, <2>5
<1>3. ASSUME NEW n PROVE StatusesOf(n)' = StatusesOf(n)
    BY <1>2 DEF StatusesOf
<1>4. ASSUME NEW n PROVE LatestOf(n)'
    <2>1. LatestOf(n) /\ \A k \in StatusesOf(n) : heard'[k] = heard[k]
        BY <1>2 DEF CacheInv, StatusesOf
    <2>2. StatusesOf(n)' = StatusesOf(n)
        BY <1>3
    <2> QED
        BY <2>1, <2>2 DEF LatestOf
<1> QED
    BY <1>2, <1>4 DEF CacheInv

\* The cache is written.
LEMMA StatusCached ==
    ASSUME CacheInv, NEW i, StatusReceives(i)
    PROVE  CacheInv'
<1> DEFINE status == ParseStatus(sent[i].packet)
           n == status[1].device_number
<1>1. CASE status = <<>>
    <2>1. UNCHANGED <<heard, latest, inserting>>
        BY <1>1 DEF StatusReceives
    <2> QED
        BY <2>1 DEF CacheInv, LatestOf, StatusesOf
<1>2. CASE status # <<>>
    <2>1. /\ inserting = <<>> /\ inserting' = <<[id |-> i, event |-> status[1]]>>
          /\ latest' = Cached(n, i) /\ heard' = heard
        BY <1>2 DEF StatusReceives
    <2>2. /\ inserting' # <<>> /\ inserting'[1].id = i
          /\ inserting'[1].event.device_number = n
        BY <2>1
    <2>3. /\ n \in DOMAIN latest' /\ latest'[n] = i
          /\ \A m : m # n => (m \in DOMAIN latest' <=> m \in DOMAIN latest)
          /\ \A m \in DOMAIN latest : m # n => latest'[m] = latest[m]
        BY <2>1 DEF Cached
    <2> HIDE DEF n
    <2>4. ASSUME NEW m PROVE LatestOf(m)'
        <3>1. LatestOf(m) /\ StatusesOf(m)' = StatusesOf(m)
            BY <2>1 DEF CacheInv, StatusesOf
        <3>2. CASE m = n
            BY <2>2, <2>3, <3>2 DEF LatestOf
        <3>3. CASE m # n /\ StatusesOf(m) = {}
            BY <2>1, <2>2, <2>3, <3>1, <3>3 DEF LatestOf
        <3>4. CASE m # n /\ StatusesOf(m) # {}
            BY <2>1, <2>2, <2>3, <3>1, <3>4 DEF LatestOf
        <3> QED
            BY <3>2, <3>3, <3>4
    <2> QED
        BY <2>1, <2>4 DEF CacheInv
<1> QED
    BY <1>1, <1>2

\* The status is sent, and is the last heard of its device.
LEMMA CachedIsSent ==
    ASSUME CacheInv, StatusSent
    PROVE  CacheInv'
<1> DEFINE last == Len(heard) + 1
           n == inserting[1].event.device_number
<1>1. /\ inserting # <<>> /\ inserting' = <<>> /\ latest' = latest
      /\ heard' = heard \o Entries(inserting[1].id, "status", <<inserting[1].event>>)
    BY DEF StatusSent, Hear, Entries
<1>2. IsSequence(heard) /\ \A m : LatestOf(m)
    BY DEF CacheInv
<1>3. /\ IsSequence(heard') /\ Len(heard) \in Nat
      /\ DOMAIN heard = 1..Len(heard) /\ DOMAIN heard' = 1..last
      /\ \A k \in 1..Len(heard) : heard'[k] = heard[k]
      /\ heard'[last].id = inserting[1].id /\ heard'[last].stream = "status"
      /\ heard'[last].event = inserting[1].event
    <2> DEFINE event == inserting[1].event
               e == Entries(inserting[1].id, "status", <<event>>)
    <2>1. IsSequence(<<event>>) /\ Len(<<event>>) = 1 /\ <<event>>[1] = event
        <3>1. <<event>> \in Seq({event})
            OBVIOUS
        <3> QED
            BY <3>1 DEF IsSequence
    <2> HIDE DEF event
    <2>2. /\ IsSequence(e) /\ Len(e) = 1
          /\ e[1] = [id |-> inserting[1].id, stream |-> "status", event |-> event]
        BY <2>1, EntriesSequence
    <2> HIDE DEF e
    <2>3. /\ IsSequence(heard \o e) /\ Len(heard) \in Nat
          /\ DOMAIN heard = 1..Len(heard) /\ DOMAIN (heard \o e) = 1..(Len(heard) + Len(e))
          /\ \A k \in 1..Len(heard) : (heard \o e)[k] = heard[k]
          /\ \A k \in (Len(heard) + 1)..(Len(heard) + Len(e)) : (heard \o e)[k] = e[k - Len(heard)]
        BY <1>2, <2>2, Concatenated
    <2>4. heard' = heard \o e
        BY <1>1 DEF e, event
    <2>5. heard'[last] = e[1]
        <3>1. last \in (Len(heard) + 1)..(Len(heard) + Len(e)) /\ last - Len(heard) = 1
            BY <2>2, <2>3
        <3> QED
            BY <2>3, <2>4, <3>1
    <2> QED
        BY <2>2, <2>3, <2>4, <2>5 DEF event
<1> HIDE DEF n, last
<1>4. last = Len(heard) + 1 /\ n = inserting[1].event.device_number
    BY DEF last, n
<1>5. ASSUME NEW m PROVE LatestOf(m)'
    <2>1. CASE m = n
        <3>1. m \in DOMAIN latest /\ latest[m] = inserting[1].id
            BY <1>1, <1>2, <1>4, <2>1 DEF LatestOf
        <3>2. last \in StatusesOf(m)' /\ \A j \in StatusesOf(m)' : j <= last
            BY <1>3, <1>4, <2>1 DEF StatusesOf
        <3> QED
            BY <1>1, <1>3, <3>1, <3>2 DEF LatestOf
    <2>2. CASE m # n
        <3>1. StatusesOf(m)' = StatusesOf(m) /\ \A k \in StatusesOf(m) : heard'[k] = heard[k]
            BY <1>3, <1>4, <2>2 DEF StatusesOf
        <3>2. /\ inserting # <<>> /\ inserting[1].event.device_number # m
              /\ inserting' = <<>> /\ latest' = latest /\ LatestOf(m)
            BY <1>1, <1>2, <1>4, <2>2
        <3>3. CASE StatusesOf(m) = {}
            BY <3>1, <3>2, <3>3 DEF LatestOf
        <3>4. CASE StatusesOf(m) # {}
            BY <3>1, <3>2, <3>4 DEF LatestOf
        <3> QED
            BY <3>3, <3>4
    <2> QED
        BY <2>1, <2>2
<1> QED
    BY <1>3, <1>5 DEF CacheInv

\* Every step keeps the invariant of the cache.
LEMMA CacheNext == CacheInv /\ [Next]_vars => CacheInv'
<1> SUFFICES ASSUME CacheInv, [Next]_vars PROVE CacheInv'
    OBVIOUS
<1>1. CASE UNCHANGED <<heard, latest, inserting>>
    BY <1>1 DEF CacheInv, LatestOf, StatusesOf
<1>2. CASE Operation \/ Device
    <2>1. PICK port, to, p, stream, events : Emit(port, to, p, stream, events)
        BY <1>2, AllSends DEF Sends
    <2> QED
        BY <1>1, <2>1 DEF Emit
<1>3. ASSUME NEW i \in DOMAIN sent,
             FinderReceives(i) \/ BeatsReceive(i) \/ CommandReceives(i) \/ AppReceives(i) \/ PlayerReceives(i)
      PROVE  CacheInv'
    <2>1. PICK l \in {"finder", "beats", "commands", "app", "player"} :
              Hear(i, Outcome(l, sent[i].packet)[1], Outcome(l, sent[i].packet)[2])
        BY <1>3, Tellers
    <2>2. UNCHANGED <<latest, inserting>>
        BY <1>3, Tellers
    <2>3. Outcome(l, sent[i].packet)[1] # "status" /\ IsSequence(Outcome(l, sent[i].packet)[2])
        BY OutcomeSequence
    <2> QED
        BY <2>1, <2>2, <2>3, OthersHeard
<1>4. CASE \/ \E i \in DOMAIN sent, l \in Listener : Lose(l, i)
           \/ XdjWindowEnds
           \/ UNCHANGED vars
    BY <1>1, <1>4 DEF Lose, XdjWindowEnds, vars
<1> QED
    BY <1>2, <1>3, <1>4, StatusCached, CachedIsSent DEF Next, Task

-----------------------------------------------------------------------------
\* The cache of the latest statuses is never behind what subscribers have heard, and
\* ahead only by the status that is about to be sent, whatever packets are lost and in
\* whatever order they and those of other ports are handled (StatusListener's loop).
THEOREM DatagramsLatestIsLastHeard == Spec => []LatestIsLastHeard
<1>1. Init => CacheInv
    <2>1. Init => \A n : StatusesOf(n) = {} /\ n \notin DOMAIN latest
        BY DEF Init, StatusesOf
    <2>2. <<>> \in Seq({})
        OBVIOUS
    <2> QED
        BY <2>1, <2>2 DEF Init, CacheInv, LatestOf, IsSequence
<1>2. CacheInv => LatestIsLastHeard
    BY DEF CacheInv, LatestOf, LatestIsLastHeard
<1> QED
    BY <1>1, <1>2, CacheNext, PTL DEF Spec

-----------------------------------------------------------------------------
(***************************************************************************)
(* The invariant: what is heard comes from the packet it is heard of, and  *)
(* what is worked out of that packet is right.                             *)
(***************************************************************************)
FromPacket(p, stream, event) ==
    \E k \in DOMAIN Outcome(Owner(stream), p)[2] : event = Outcome(Owner(stream), p)[2][k]

FromPackets ==
    /\ \A k \in DOMAIN heard : FromPacket(sent[heard[k].id].packet, heard[k].stream, heard[k].event)
    /\ inserting # <<>> => FromPacket(sent[inserting[1].id].packet, "status", inserting[1].event)

SentImplied == \A i \in DOMAIN sent : Implied(sent[i].packet, sent[i].stream, sent[i].events)

TellInv == HearInv /\ FromPackets /\ SentImplied

\* A listener owns the stream it tells on.
LEMMA OwnStream ==
    ASSUME NEW p, NEW l \in {"finder", "beats", "commands", "app", "player"}
    PROVE  Owner(Outcome(l, p)[1]) = l
<1>1. BeatStream(p)[1] \in {"beat", "precise", "on_air", "sync", "handoff", "fader_start"}
    BY DEF BeatStream
<1>2. FinderStream(p)[1] \in {"found", "defense", "claim"}
    BY DEF FinderStream
<1> QED
    BY <1>1, <1>2, Owners, Outcomes

\* What is newly heard.
LEMMA NewlyHeard ==
    ASSUME Shape, NEW i, NEW stream, NEW events, IsSequence(events), Hear(i, stream, events)
    PROVE  \A k \in DOMAIN heard' :
              \/ k \in DOMAIN heard /\ heard'[k] = heard[k]
              \/ \E m \in DOMAIN events : /\ heard'[k].id = i /\ heard'[k].stream = stream
                                          /\ heard'[k].event = events[m]
<1>1. /\ Len(events) \in Nat /\ Len(heard) \in Nat /\ DOMAIN heard = 1..Len(heard)
      /\ DOMAIN events = 1..Len(events)
      /\ DOMAIN heard' = 1..(Len(heard) + Len(events)) /\ Len(heard') = Len(heard) + Len(events)
      /\ \A k \in DOMAIN heard : heard'[k] = heard[k]
      /\ \A k \in 1..Len(events) :
            heard'[Len(heard) + k] = [id |-> i, stream |-> stream, event |-> events[k]]
    BY HeardGrows, SentDomain
<1>2. ASSUME NEW k \in DOMAIN heard', k \notin DOMAIN heard
      PROVE  \E m \in DOMAIN events : /\ heard'[k].id = i /\ heard'[k].stream = stream
                                      /\ heard'[k].event = events[m]
    <2>1. \A a, b \in Nat : \A c \in 1..(a + b) : c \notin 1..a => c - a \in 1..b /\ a + (c - a) = c
        OBVIOUS
    <2>2. k - Len(heard) \in 1..Len(events) /\ Len(heard) + (k - Len(heard)) = k
        BY <1>1, <1>2, <2>1
    <2>3. heard'[k] = [id |-> i, stream |-> stream, event |-> events[k - Len(heard)]]
        BY <1>1, <2>2
    <2>4. heard'[k].id = i /\ heard'[k].stream = stream /\ heard'[k].event = events[k - Len(heard)]
        BY <2>3
    <2> QED
        BY <1>1, <2>2, <2>4
<1> QED
    BY <1>1, <1>2

\* A listener that tells at once what it receives tells what comes from the packet.
LEMMA FromHearing ==
    ASSUME Shape, FromPackets, NEW i, NEW l \in {"finder", "beats", "commands", "app", "player"},
           Hear(i, Outcome(l, sent[i].packet)[1], Outcome(l, sent[i].packet)[2]), UNCHANGED <<sent, inserting>>
    PROVE  FromPackets'
<1>0. PICK p, kind, told : p = sent[i].packet /\ kind = Outcome(l, p)[1] /\ told = Outcome(l, p)[2]
    OBVIOUS
<1>1. IsSequence(told) /\ Owner(kind) = l
    BY <1>0, OutcomeSequence, OwnStream
<1>2. \A m \in DOMAIN told : FromPacket(p, kind, told[m])
    BY <1>0, <1>1 DEF FromPacket
<1>3. Hear(i, kind, told)
    BY <1>0
<1>4. ASSUME NEW k \in DOMAIN heard' PROVE FromPacket(sent[heard'[k].id].packet, heard'[k].stream, heard'[k].event)
    <2>1. \/ k \in DOMAIN heard /\ heard'[k] = heard[k]
          \/ \E m \in DOMAIN told : /\ heard'[k].id = i /\ heard'[k].stream = kind
                                    /\ heard'[k].event = told[m]
        BY <1>1, <1>3, NewlyHeard
    <2>2. CASE k \in DOMAIN heard /\ heard'[k] = heard[k]
        BY <2>2 DEF FromPackets
    <2>3. CASE \E m \in DOMAIN told : heard'[k].id = i /\ heard'[k].stream = kind /\ heard'[k].event = told[m]
        BY <1>0, <1>2, <2>3
    <2> QED
        BY <2>1, <2>2, <2>3
<1> QED
    BY <1>4 DEF FromPackets

\* The status listener, up to its send.
LEMMA FromStatus ==
    ASSUME FromPackets, NEW i \in DOMAIN sent, StatusReceives(i)
    PROVE  FromPackets'
<1>0. PICK status : status = ParseStatus(sent[i].packet)
    OBVIOUS
<1>1. UNCHANGED <<sent, heard>>
    BY DEF StatusReceives
<1>2. CASE status = <<>>
    BY <1>0, <1>1, <1>2 DEF StatusReceives, FromPackets
<1>3. CASE status # <<>>
    <2>1. inserting' = <<[id |-> i, event |-> status[1]]>>
        BY <1>0, <1>3 DEF StatusReceives
    <2>2. inserting'[1].id = i /\ inserting'[1].event = status[1]
        BY <2>1
    <2>3. 1 \in DOMAIN status
        <3>1. PICK e : status = <<e>>
            BY <1>0, <1>3, ParsersGive DEF AtMostOne
        <3> QED
            BY <3>1
    <2>4. Outcome(Owner("status"), sent[i].packet)[2] = status
        BY <1>0, Outcomes, Owners
    <2>5. FromPacket(sent[i].packet, "status", status[1])
        BY <2>3, <2>4 DEF FromPacket
    <2> QED
        BY <1>1, <2>2, <2>5 DEF FromPackets
<1> QED
    BY <1>2, <1>3

\* The status in the cache is sent.
LEMMA FromTold ==
    ASSUME Shape, FromPackets, StatusSent
    PROVE  FromPackets'
<1>0. PICK i, event : i = inserting[1].id /\ event = inserting[1].event
    OBVIOUS
<1> DEFINE told == <<event>>
<1>1. inserting # <<>> /\ inserting' = <<>> /\ Hear(i, "status", told) /\ UNCHANGED sent
    BY <1>0 DEF StatusSent
<1>2. IsSequence(told) /\ DOMAIN told = {1} /\ told[1] = event
    <2>1. AtMostOne(told)
        BY DEF AtMostOne
    <2> QED
        BY <2>1, AtMostOneSequence
<1> HIDE DEF told
<1>3. FromPacket(sent[i].packet, "status", event)
    BY <1>0, <1>1 DEF FromPackets
<1>4. ASSUME NEW k \in DOMAIN heard' PROVE FromPacket(sent[heard'[k].id].packet, heard'[k].stream, heard'[k].event)
    <2>1. \/ k \in DOMAIN heard /\ heard'[k] = heard[k]
          \/ \E m \in DOMAIN told : /\ heard'[k].id = i /\ heard'[k].stream = "status"
                                    /\ heard'[k].event = told[m]
        BY <1>1, <1>2, NewlyHeard
    <2>2. CASE k \in DOMAIN heard /\ heard'[k] = heard[k]
        BY <2>2 DEF FromPackets
    <2>3. CASE \E m \in DOMAIN told : heard'[k].id = i /\ heard'[k].stream = "status" /\ heard'[k].event = told[m]
        BY <1>2, <1>3, <2>3
    <2> QED
        BY <2>1, <2>2, <2>3
<1> QED
    BY <1>1, <1>4 DEF FromPackets

\* A packet that is sent changes nothing of what was heard.
LEMMA FromSending ==
    ASSUME Shape, FromPackets, SentImplied, NEW port, NEW to, NEW p, NEW stream, NEW events,
           Emit(port, to, p, stream, events), Implied(p, stream, events)
    PROVE  FromPackets' /\ SentImplied'
<1>0. PICK n : n = Len(sent) + 1
    OBVIOUS
<1> DEFINE packet == [port |-> port, packet |-> p, stream |-> stream, events |-> events]
<1>1. /\ DOMAIN sent' = DOMAIN sent \union {n} /\ sent'[n] = packet
      /\ \A j \in DOMAIN sent : sent'[j] = sent[j]
    <2>1. /\ IsSequence(sent') /\ Len(sent') = Len(sent) + 1 /\ DOMAIN sent' = DOMAIN sent \union {Len(sent) + 1}
          /\ sent'[Len(sent) + 1] = packet /\ \A j \in DOMAIN sent : sent'[j] = sent[j]
        BY SentGrows, Zenon
    <2> HIDE DEF packet
    <2> QED
        BY <1>0, <2>1
<1>2. packet.packet = p /\ packet.stream = stream /\ packet.events = events
    OBVIOUS
<1> HIDE DEF packet
<1>3. UNCHANGED <<heard, inserting>>
    BY DEF Emit
<1>4. FromPackets'
    <2>1. \A k \in DOMAIN heard : heard[k].id \in DOMAIN sent
        BY DEF Shape
    <2>2. inserting # <<>> => inserting[1].id \in DOMAIN sent
        BY DEF Shape
    <2> QED
        BY <1>1, <1>3, <2>1, <2>2 DEF FromPackets
<1>5. SentImplied'
    BY <1>1, <1>2 DEF SentImplied
<1> QED
    BY <1>4, <1>5

\* Every step keeps the invariant.
LEMMA TellNext == TellInv /\ [Next]_vars => TellInv'
<1> SUFFICES ASSUME TellInv, [Next]_vars PROVE TellInv'
    OBVIOUS
<1>1. HearInv' /\ Shape /\ FromPackets /\ SentImplied
    BY HearingNext DEF TellInv, HearInv
<1>2. CASE Operation \/ Device
    <2>1. PICK port, to, p, stream, events :
              Emit(port, to, p, stream, events) /\ Implied(p, stream, events)
        BY <1>2, AllSends DEF Sends
    <2> QED
        BY <1>1, <2>1, FromSending DEF TellInv
<1>3. ASSUME NEW i \in DOMAIN sent,
             FinderReceives(i) \/ BeatsReceive(i) \/ CommandReceives(i) \/ AppReceives(i) \/ PlayerReceives(i)
      PROVE  TellInv'
    <2>1. UNCHANGED <<sent, inserting>> /\ FromPackets'
        BY <1>1, <1>3, Tellers, FromHearing
    <2> QED
        BY <1>1, <2>1 DEF TellInv, SentImplied
<1>4. ASSUME NEW i \in DOMAIN sent, StatusReceives(i) PROVE TellInv'
    <2>1. FromPackets' /\ UNCHANGED sent
        BY <1>1, <1>4, FromStatus DEF StatusReceives
    <2> QED
        BY <1>1, <2>1 DEF TellInv, SentImplied
<1>5. CASE StatusSent
    <2>1. FromPackets' /\ UNCHANGED sent
        BY <1>1, <1>5, FromTold DEF StatusSent
    <2> QED
        BY <1>1, <2>1 DEF TellInv, SentImplied
<1>6. ASSUME UNCHANGED <<sent, heard, inserting>> PROVE TellInv'
    BY <1>1, <1>6 DEF TellInv, FromPackets, SentImplied
<1>7. CASE XdjWindowEnds \/ UNCHANGED vars
    BY <1>6, <1>7 DEF XdjWindowEnds, vars
<1>8. ASSUME NEW i \in DOMAIN sent, NEW l \in Listener, Lose(l, i) PROVE TellInv'
    BY <1>6, <1>8 DEF Lose
<1> QED
    BY <1>2, <1>3, <1>4, <1>5, <1>7, <1>8 DEF Next, Task

\* It holds in the initial states, where nothing was sent.
LEMMA TellFirst == Init => TellInv
<1> SUFFICES ASSUME Init PROVE TellInv
    OBVIOUS
<1>1. sent = <<>> /\ heard = <<>> /\ inserting = <<>> /\ DOMAIN <<>> = {}
    BY DEF Init
<1> QED
    BY <1>1, HearingFirst DEF TellInv, FromPackets, SentImplied

\* What is heard of a packet is all of it.
LEMMA AllHeard ==
    ASSUME HearInv, NEW k \in DOMAIN heard
    PROVE  /\ heard[k].id \in DOMAIN sent /\ heard[k].stream = sent[heard[k].id].stream
           /\ \A m \in DOMAIN sent[heard[k].id].events : \E l \in DOMAIN heard :
                 heard[l].id = heard[k].id /\ Agrees(heard[l].event, sent[heard[k].id].events[m])
<1>0. PICK i : i = heard[k].id
    OBVIOUS
<1>1. i \in DOMAIN sent
    BY <1>0 DEF HearInv, Shape
<1>2. ~NoneHeard(i)
    BY <1>0 DEF NoneHeard
<1>3. Finished(i)
    BY <1>1, <1>2 DEF HearInv, Progress, Waits, Arrives
<1>4. PICK before \in 0..Len(heard) : After(i, before)
    BY <1>3 DEF Finished
<1>5. heard[k].stream = sent[i].stream
    BY <1>0, <1>4 DEF After
<1>6. ASSUME NEW m \in DOMAIN sent[i].events
      PROVE  \E l \in DOMAIN heard : heard[l].id = i /\ Agrees(heard[l].event, sent[i].events[m])
    <2>1. before + m \in DOMAIN heard /\ heard[before + m].id = i
        BY <1>4 DEF After
    <2>2. (before + m) - before = m
        <3>1. IsSequence(sent[i].events)
            BY <1>1 DEF HearInv, SoundSent, Meant
        <3>2. PICK S : sent[i].events \in Seq(S)
            BY <3>1 DEF IsSequence
        <3>3. m \in Nat
            BY <3>2
        <3>4. before \in Nat
            BY SentDomain DEF HearInv
        <3> QED
            BY <3>3, <3>4
    <2>3. Agrees(heard[before + m].event, sent[i].events[(before + m) - before])
        BY <1>4, <2>1 DEF After
    <2> QED
        BY <2>1, <2>2, <2>3
<1> QED
    BY <1>0, <1>1, <1>5, <1>6

\* An event comes from its packet and is of the stream the packet is of.
LEMMA ToldFrom ==
    ASSUME TellInv, NEW k \in DOMAIN heard
    PROVE  /\ heard[k].stream = sent[heard[k].id].stream
           /\ Implied(sent[heard[k].id].packet, heard[k].stream, sent[heard[k].id].events)
           /\ \E m \in DOMAIN Outcome(Owner(heard[k].stream), sent[heard[k].id].packet)[2] :
                 heard[k].event = Outcome(Owner(heard[k].stream), sent[heard[k].id].packet)[2][m]
<1>1. heard[k].id \in DOMAIN sent /\ heard[k].stream = sent[heard[k].id].stream
    BY AllHeard DEF TellInv
<1> QED
    BY <1>1 DEF TellInv, SentImplied, FromPackets, FromPacket

\* The decks of an Opus Quad are numbered in its two modes from their bases on.
LEMMA DeckNumbers ==
    ASSUME NEW raw \in OpusRaw
    PROVE  RemapOpusQuad(raw) \in 1..4 /\ UnmapOpusQuad(RemapOpusQuad(raw), raw >= OpusLightingBase) = raw
<1>1. raw \in 9..12 \/ raw \in 17..20
    BY OpusAssumption DEF OpusNormalBase, OpusLightingBase
<1>2. CASE raw \in 9..12
    <2>1. RemapOpusQuad(raw) = raw - 9 + 1
        BY <1>2 DEF RemapOpusQuad, OpusNormalBase, OpusLightingBase
    <2>2. raw - 9 + 1 \in 1..4 /\ (raw - 9 + 1) - 1 + 9 = raw /\ ~(raw >= 17)
        BY <1>2
    <2> QED
        BY <2>1, <2>2 DEF UnmapOpusQuad, OpusNormalBase, OpusLightingBase
<1>3. CASE raw \in 17..20
    <2>1. RemapOpusQuad(raw) = raw - 17 + 1
        BY <1>3 DEF RemapOpusQuad, OpusNormalBase, OpusLightingBase
    <2>2. raw - 17 + 1 \in 1..4 /\ (raw - 17 + 1) - 1 + 17 = raw /\ raw >= 17
        BY <1>3
    <2> QED
        BY <2>1, <2>2 DEF UnmapOpusQuad, OpusNormalBase, OpusLightingBase
<1> QED
    BY <1>1, <1>2, <1>3

\* What the crate works out of the events it sends is right: the three ways to ask a
\* status whether its player plays agree (status.rs), the numbers of an Opus Quad's decks
\* lead back to its own (types.rs), and media with other contents have another hash key
\* (media.rs).
THEOREM DatagramsDerivedRight == Spec => []DerivedRight
<1>1. TellInv => PlayingTold
    <2> SUFFICES ASSUME TellInv, NEW k \in DOMAIN heard, heard[k].stream = "status"
                 PROVE  PlayingAgrees(heard[k].event)
        BY DEF PlayingTold, PlayingAgrees
    <2>1. PICK p : p = sent[heard[k].id].packet
        OBVIOUS
    <2>2. Outcome(Owner("status"), p)[2] = ParseStatus(p)
        BY Outcomes, Owners
    <2>3. \E m \in DOMAIN ParseStatus(p) : heard[k].event = ParseStatus(p)[m]
        BY <2>1, <2>2, ToldFrom
    <2>4. Implied(p, "status", sent[heard[k].id].events)
        BY <2>1, ToldFrom
    <2> QED
        BY <2>3, <2>4 DEF Implied
<1>2. TellInv => OpusDecks
    <2> SUFFICES ASSUME TellInv, NEW k \in DOMAIN heard, heard[k].stream = "found", heard[k].event.opus_quad,
                        NEW raw, raw = At(sent[heard[k].id].packet, \h24)
                 PROVE  /\ \E l \in DOMAIN heard : /\ heard[l].id = heard[k].id
                                                   /\ heard[l].event.number = RemapOpusQuad(raw)
                        /\ UnmapOpusQuad(RemapOpusQuad(raw), raw >= OpusLightingBase) = raw
        BY DEF OpusDecks
    <2>1. PICK p, events : p = sent[heard[k].id].packet /\ events = sent[heard[k].id].events
        OBVIOUS
    <2>2. Outcome(Owner("found"), p)[2] = FinderStream(p)[2]
        BY Outcomes, Owners
    <2>3. \E m \in DOMAIN FinderStream(p)[2] : heard[k].event = FinderStream(p)[2][m]
        BY <2>1, <2>2, ToldFrom
    <2>4. Implied(p, "found", events)
        BY <2>1, ToldFrom
    <2>5. raw \in OpusRaw /\ events = [i \in 1..4 |-> [number |-> i, name |-> OpusQuadName]]
        BY <2>1, <2>3, <2>4 DEF Implied, FourDecks
    <2>6. RemapOpusQuad(raw) \in 1..4 /\ UnmapOpusQuad(RemapOpusQuad(raw), raw >= OpusLightingBase) = raw
        BY <2>5, DeckNumbers
    <2>7. PICK m : m = RemapOpusQuad(raw)
        OBVIOUS
    <2>8. m \in DOMAIN events /\ events[m] = [number |-> m, name |-> OpusQuadName]
        BY <2>5, <2>6, <2>7
    <2>9. PICK l \in DOMAIN heard : heard[l].id = heard[k].id /\ Agrees(heard[l].event, events[m])
        BY <2>1, <2>8, AllHeard DEF TellInv
    <2>10. "number" \in DOMAIN events[m] /\ events[m]["number"] = m
        BY <2>8
    <2>11. heard[l].event["number"] = m
        BY <2>9, <2>10 DEF Agrees
    <2> QED
        BY <2>6, <2>7, <2>9, <2>11
<1>3. TellInv => MediaSwapSeen
    <2> SUFFICES ASSUME TellInv, NEW k \in DOMAIN heard, NEW l \in DOMAIN heard,
                        heard[k].stream = "media", heard[l].stream = "media"
                 PROVE  HasChanged(heard[k].event, heard[l].event)
                        <=> sent[heard[k].id].events[1].track_count # sent[heard[l].id].events[1].track_count
        BY DEF MediaSwapSeen
    <2>1. ASSUME NEW j \in DOMAIN heard, heard[j].stream = "media"
          PROVE  HashKey(heard[j].event) = KeyOf(sent[heard[j].id].events[1].track_count)
        <3>1. PICK p : p = sent[heard[j].id].packet
            OBVIOUS
        <3>2. Outcome(Owner("media"), p)[2] = ParseMediaDetails(p)
            BY Outcomes, Owners
        <3>3. \E m \in DOMAIN ParseMediaDetails(p) : heard[j].event = ParseMediaDetails(p)[m]
            BY <2>1, <3>1, <3>2, ToldFrom
        <3>4. Implied(p, "media", sent[heard[j].id].events)
            BY <2>1, <3>1, ToldFrom
        <3> QED
            BY <3>3, <3>4 DEF Implied
    <2>2. ASSUME NEW a, NEW b, KeyOf(a) = KeyOf(b) PROVE a = b
        <3>1. KeyOf(a)[2] = a /\ KeyOf(b)[2] = b
            BY DEF KeyOf
        <3> QED
            BY <2>2, <3>1
    <2> QED
        BY <2>1, <2>2 DEF HasChanged
<1>4. TellInv => DerivedRight
    BY <1>1, <1>2, <1>3 DEF DerivedRight
<1> QED
    BY <1>4, TellFirst, TellNext, PTL DEF Spec
=============================================================================
