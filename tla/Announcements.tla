--------------------------- MODULE Announcements ---------------------------
(***************************************************************************)
(* The packets of the discovery port (protocol/announce.rs): keep-alives,  *)
(* the hello and the three stages of a claim, and defenses.  Addresses are *)
(* sequences of four bytes, MAC addresses of six.                          *)
(***************************************************************************)
EXTENDS DeviceTypes

CONSTANT XdjAzName     \* "XDJ-AZ"

KeepAliveMinSize       == \h36
AnnouncedNameOffset    == \h0c
DeviceLibraryPlusOffset == \h36

\* What every packet of this port begins with: the name, the structure marker and
\* the packet's length.
Prefix(name, structure, size) ==
    {Cells(AnnouncedNameOffset, <<Cut[name]>>), Cells(\h20, <<1, structure>>),
     Cells(\h22, Bytes(size, 2))}

\* build_keep_alive_typed; build_keep_alive is the CDJ's.
BuildKeepAlive(name, number, mac, ip, type) ==
    LET byte == ToByte(DeviceType, type)
    IN  Packet(\h36, \h06,
           Prefix(name, 2, \h36) \union
           {Cells(\h24, <<number, byte>>), Cells(\h26, mac), Cells(\h2c, ip),
            Cells(\h34, <<byte, \h64>>)})

BuildDeviceHello(name) ==
    Packet(\h26, \h0a, Prefix(name, 4, \h26) \union {Cells(\h24, <<1, \h40>>)})

BuildClaimStage1(name, mac, counter) ==
    Packet(\h2c, \h00, Prefix(name, 3, \h2c) \union {Cells(\h24, <<counter, 1>>), Cells(\h26, mac)})

BuildClaimStage2(name, mac, ip, number, counter, auto) ==
    Packet(\h32, \h02,
       Prefix(name, 3, \h32) \union
       {Cells(\h24, ip), Cells(\h28, mac),
        Cells(\h2e, <<number, counter, 1, IF auto THEN 1 ELSE 2>>)})

BuildClaimStage3(name, number, counter) ==
    Packet(\h26, \h04, Prefix(name, 3, \h26) \union {Cells(\h24, <<number, counter>>)})

BuildDefense(name, number, ip) ==
    Packet(\h29, \h08, Prefix(name, 2, \h29) \union {Cells(\h24, <<number>>), Cells(\h25, ip)})

\* parse_keep_alive
ParseKeepAlive(p) ==
    IF ParseHeader(p) # "DeviceKeepAlive" \/ p.size < KeepAliveMinSize THEN <<>>
    ELSE LET name == ReadDeviceName(p, AnnouncedNameOffset)
         IN  <<[name        |-> name,
                number      |-> At(p, \h24),
                device_type |-> FromByte(DeviceType, At(p, \h25)),
                mac_address |-> BytesAt(p, \h26, 6),
                ip_address  |-> BytesAt(p, \h2c, 4),
                peer_count  |-> At(p, \h30),
                opus_quad   |-> name = OpusQuadName,
                xdj_az      |-> name = XdjAzName,
                library_plus |-> p.size > DeviceLibraryPlusOffset
                                 /\ NonZero(At(p, DeviceLibraryPlusOffset))]>>

ExtractDefenseDeviceNumber(p) == IF p.size > \h24 THEN At(p, \h24) ELSE None

\* Fault: the number is read where a defense has it.
ExtractStage2Early(p) == ExtractDefenseDeviceNumber(p)

ExtractClaimStage2DeviceNumber(p) == IF p.size > \h2e THEN At(p, \h2e) ELSE None

\* expand_opus_quad_announcement: the announcements that go into the map.
ExpandOpusQuad(ann) ==
    IF ~ann.opus_quad THEN <<ann>> ELSE [i \in 1..4 |-> [ann EXCEPT !.number = i]]
=============================================================================
