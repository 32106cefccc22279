------------------------------- MODULE Bytes -------------------------------
(***************************************************************************)
(* The bytes of a DJ Link packet (protocol/header.rs, util.rs).            *)
(*                                                                         *)
(* A packet has a size, the magic header or not, and cells at offsets; an  *)
(* offset where nothing was written holds zero.  A cell is a byte, or a    *)
(* whole name at the offset where the name begins.  Reading past the end   *)
(* panics in the code and gives Panic here.                                *)
(*                                                                         *)
(* Numbers of one to three bytes are integers.  Numbers of four and eight  *)
(* bytes, of which the code only tells 0xFFFFFFFF apart, are the sequence  *)
(* of their bytes, as TLC's integers have 31 bits.                         *)
(***************************************************************************)
EXTENDS Integers, Sequences

CONSTANTS
    None,       \* Option::None
    Panic,      \* what an index out of bounds gives
    Name,       \* device names
    Cut,        \* Cut[n]: the first 20 bytes of the name n
    CommandName,    \* "prodjlink-rs"
    OpusQuadName,   \* "OPUS-QUAD"
    OpusQuadLike,   \* the names that contain it
    XdjNames        \* "XDJ-XZ" and "XDJ-AZ"

ASSUME BytesAssumption ==
    /\ None # Panic /\ None \notin Int
    /\ {CommandName, OpusQuadName} \union OpusQuadLike \union XdjNames \subseteq Name
    /\ Cut \in [Name -> Name] /\ \A n \in Name : Cut[Cut[n]] = Cut[n]

Byte == 0..255
FourBytes == <<255, 255, 255, 255>>     \* 0xFFFFFFFF

-----------------------------------------------------------------------------
\* Writing.

\* number_to_bytes for at most four bytes: the low bytes of the number.
Bytes(n, len) ==
    LET low == <<n % 256, (n \div 256) % 256, (n \div 65536) % 256, (n \div 16777216) % 256>>
    IN  [i \in 1..len |-> low[len - i + 1]]

Cells(offset, bytes) ==
    [i \in offset..(offset + Len(bytes) - 1) |-> bytes[i - offset + 1]]

\* No two cells of a packet overlap.
Packet(size, type, cells) ==
    LET all == cells \union {Cells(\h0a, <<type>>)}
    IN  [size |-> size, magic |-> TRUE,
         at |-> [i \in UNION {DOMAIN c : c \in all} |-> (CHOOSE c \in all : i \in DOMAIN c)[i]]]

-----------------------------------------------------------------------------
\* Reading.

At(p, i) == CASE i >= p.size -> Panic
              [] i < p.size /\ i \in DOMAIN p.at -> p.at[i]
              [] OTHER -> 0

BytesAt(p, offset, len) ==
    IF offset + len > p.size THEN Panic
    ELSE [i \in 1..len |-> At(p, offset + i - 1)]

\* bytes_to_number for at most four bytes.
BytesToNumber(p, offset, len) ==
    IF offset + len > p.size THEN Panic
    ELSE LET low(i) == IF i <= len THEN At(p, offset + len - i) ELSE 0
         IN  low(1) + 256 * low(2) + 65536 * low(3) + 16777216 * low(4)

\* i32::from_be_bytes
SignedAt(p, offset) ==
    LET b == BytesAt(p, offset, 4)
    IN  IF b = Panic THEN Panic
        ELSE (IF b[1] >= 128 THEN b[1] - 256 ELSE b[1]) * 16777216
             + b[2] * 65536 + b[3] * 256 + b[4]

\* read_device_name: the slice begins at the offset.
ReadDeviceName(p, offset) == IF offset > p.size THEN Panic ELSE At(p, offset)

HasBit(byte, bit) == IF byte = Panic THEN Panic ELSE (byte \div bit) % 2 = 1

NonZero(byte) == IF byte = Panic THEN Panic ELSE byte # 0

Equals(byte, n) == IF byte = Panic THEN Panic ELSE byte = n

\* A byte or a number that stands for None when it is the sentinel.
Unless(sentinel, value) == IF value = sentinel THEN None ELSE value

-----------------------------------------------------------------------------
\* Headers.

DiscoveryPort == 50000
BeatPort      == 50001
StatusPort    == 50002

MinPacketSize == 11

\* PacketType: what each type byte stands for (From<u8>).
PacketTypes ==
    {<<\h00, "DeviceClaimStage1">>, <<\h02, "DeviceClaimStage2">>, <<\h04, "DeviceClaimStage3">>,
     <<\h06, "DeviceKeepAlive">>, <<\h08, "DeviceDefense">>, <<\h0a, "DeviceHello">>,
     <<\h0b, "PrecisePosition">>, <<\h03, "OnAir">>, <<\h26, "MasterHandoff">>,
     <<\h28, "Beat">>, <<\h29, "MixerStatus">>, <<\h2a, "SyncControl">>}

\* The name that a table of <<byte, name>> gives a byte, and the byte it gives a name.
NameFor(table, byte) == (CHOOSE row \in table : row[1] = byte)[2]
ByteFor(table, name) == (CHOOSE row \in table : row[2] = name)[1]
IsIn(table, byte)   == \E row \in table : row[1] = byte

PacketType(byte) == IF IsIn(PacketTypes, byte) THEN NameFor(PacketTypes, byte) ELSE "Unknown"

\* Fault: the port is not asked.
TypeAnywhere(byte, port) == PacketType(byte)

PacketTypeOnPort(byte, port) ==
    CASE byte = \h0a /\ port = StatusPort -> "CdjStatus"
      [] byte = \h02 /\ port = BeatPort   -> "FaderStart"
      [] OTHER                            -> PacketType(byte)

\* parse_header and parse_header_on_port; "Error" stands for their errors.
ParseHeader(p) ==
    IF p.size < MinPacketSize \/ ~p.magic THEN "Error" ELSE PacketType(At(p, \h0a))

ParseHeaderOnPort(p, port) ==
    IF p.size < MinPacketSize \/ ~p.magic THEN "Error"
    ELSE PacketTypeOnPort(At(p, \h0a), port)
=============================================================================
