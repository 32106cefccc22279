------------------------------ MODULE Messages ------------------------------
(***************************************************************************)
(* The messages of a player's database server and their typed fields       *)
(* (dbserver/message.rs, dbserver/field.rs).                               *)
(*                                                                         *)
(* On the wire a message is a sequence of bytes; a text is a sequence of   *)
(* UTF-16 code units.  Parsing begins at an index of the sequence and      *)
(* gives what was parsed and the index that comes next, or Failed: the     *)
(* client cannot tell a message of which bytes are missing from a bad one. *)
(* Numbers are kept below 2^31, as TLC's integers have 31 bits; a          *)
(* transaction is the sequence of its four bytes.                          *)
(***************************************************************************)
EXTENDS DeviceTypes, SequencesExt

CONSTANT Failed     \* Err of the parsers

-----------------------------------------------------------------------------
\* Fields.

Number(value, size) == [kind |-> "Number", value |-> value, size |-> size]
Binary(data)        == [kind |-> "Binary", data |-> data]
String(text)        == [kind |-> "String", text |-> text]

\* Field::number: the smallest size.
FieldNumber(value) ==
    Number(value, IF value < 256 THEN 1 ELSE IF value < 65536 THEN 2 ELSE 4)

ArgType(f) == [Number |-> \h06, Binary |-> \h03, String |-> \h02][f.kind]

\* Wire tags.
WireNumber == \h0f :> 1 @@ \h10 :> 2 @@ \h11 :> 4
WireBinary == \h14
WireString == \h26

\* Fault: the terminator of a text is not counted.
SerializeUncounted(f) ==
    <<WireString>> \o Bytes(Len(f.text), 4) \o FlattenSeq([i \in DOMAIN f.text |-> Bytes(f.text[i], 2)])
       \o <<0, 0>>

SerializeString(f) ==
    <<WireString>> \o Bytes(Len(f.text) + 1, 4)
       \o FlattenSeq([i \in DOMAIN f.text |-> Bytes(f.text[i], 2)]) \o <<0, 0>>

\* A number whose size is neither 1 nor 2 is written with four bytes.
SerializeField(f) ==
    CASE f.kind = "Number" ->
           LET size == IF f.size \in {1, 2} THEN f.size ELSE 4
           IN  <<CHOOSE tag \in DOMAIN WireNumber : WireNumber[tag] = size>> \o Bytes(f.value, size)
      [] f.kind = "Binary" -> <<WireBinary>> \o Bytes(Len(f.data), 4) \o f.data
      [] f.kind = "String" -> SerializeString(f)

\* Whether n bytes are there, and the number they are.
Has(b, at, n) == at + n - 1 <= Len(b)
NumberAt(b, at, n) ==
    LET upTo[k \in 0..n] == IF k = 0 THEN 0 ELSE 256 * upTo[k - 1] + b[at + k - 1] IN upTo[n]

\* The code units of a text: the last one is dropped if it is zero.
TextAt(b, at, units) ==
    LET text == [i \in 1..units |-> NumberAt(b, at + 2 * (i - 1), 2)]
    IN  IF text # <<>> /\ Last(text) = 0 THEN Front(text) ELSE text

\* String::from_utf16 accepts a text if every surrogate is half of a pair: a high one
\* and then a low one.
High(unit) == unit \in 55296..56319
Low(unit)  == unit \in 56320..57343
ValidUtf16(text) ==
    \A i \in DOMAIN text : /\ High(text[i]) => i < Len(text) /\ Low(text[i + 1])
                           /\ Low(text[i])  => i > 1 /\ High(text[i - 1])

\* Field::parse
ParseNumber(b, at, size) ==
    IF ~Has(b, at, size) THEN Failed
    ELSE [value |-> Number(NumberAt(b, at, size), size), next |-> at + size]

\* n bytes of a binary, or n code units of a text.  That a text is no UTF-16 is an error
\* like any other, although the whole message is there.
SizedValue(b, at, n, unit) ==
    IF unit = 1 THEN Binary(SubSeq(b, at, at + n - 1))
    ELSE IF ValidUtf16(TextAt(b, at, n)) THEN String(TextAt(b, at, n)) ELSE Failed

Sized(value, next) == IF value = Failed THEN Failed ELSE [value |-> value, next |-> next]

\* The length of a binary is in bytes, that of a text in code units.
\* Fault: one byte more is awaited.
ParseSizedLate(b, at, unit) ==
    IF ~Has(b, at, 4) \/ ~Has(b, at + 4, NumberAt(b, at, 4) * unit + 1) THEN Failed
    ELSE LET n == NumberAt(b, at, 4)
         IN  Sized(SizedValue(b, at + 4, n, unit), at + 4 + n * unit)

\* Fault: that the data has arrived is not asked.
ParseSizedAtOnce(b, at, unit) ==
    IF ~Has(b, at, 4) THEN Failed
    ELSE LET n == IF Has(b, at + 4, NumberAt(b, at, 4) * unit) THEN NumberAt(b, at, 4)
                  ELSE (Len(b) - at - 3) \div unit
         IN  Sized(SizedValue(b, at + 4, n, unit), at + 4 + n * unit)

ParseSized(b, at, unit) ==
    IF ~Has(b, at, 4) \/ ~Has(b, at + 4, NumberAt(b, at, 4) * unit) THEN Failed
    ELSE LET n == NumberAt(b, at, 4)
         IN  Sized(SizedValue(b, at + 4, n, unit), at + 4 + n * unit)

ParseField(b, at) ==
    CASE ~Has(b, at, 1) -> Failed
      [] Has(b, at, 1) /\ b[at] \in DOMAIN WireNumber -> ParseNumber(b, at + 1, WireNumber[b[at]])
      [] Has(b, at, 1) /\ b[at] = WireBinary -> ParseSized(b, at + 1, 1)
      [] Has(b, at, 1) /\ b[at] = WireString -> ParseSized(b, at + 1, 2)
      [] OTHER -> Failed

-----------------------------------------------------------------------------
\* Messages.  MessageType and MenuItemType with their codes; a code that is none of
\* them stays as it is.

MessageCode ==
    [SetupReq |-> \h0000, InvalidData |-> \h0001, TeardownReq |-> \h0100, RootMenuReq |-> \h1000,
     GenreMenuReq |-> \h1001, ArtistMenuReq |-> \h1002, AlbumMenuReq |-> \h1003,
     TrackMenuReq |-> \h1004, BpmMenuReq |-> \h1006, RatingMenuReq |-> \h1007,
     YearMenuReq |-> \h1008, LabelMenuReq |-> \h100a, ColorMenuReq |-> \h100d,
     TimeMenuReq |-> \h1010, BitRateMenuReq |-> \h1011, HistoryMenuReq |-> \h1012,
     FilenameMenuReq |-> \h1013, KeyMenuReq |-> \h1014, ArtistMenuForGenreReq |-> \h1101,
     AlbumMenuForArtistReq |-> \h1102, TrackMenuForAlbumReq |-> \h1103, PlaylistReq |-> \h1105,
     BpmRangeReq |-> \h1106, TrackMenuForRatingReq |-> \h1107, YearMenuForDecadeReq |-> \h1108,
     ArtistMenuForLabelReq |-> \h110a, TrackMenuForColorReq |-> \h110d,
     TrackMenuForTimeReq |-> \h1110, TrackMenuForBitRateReq |-> \h1111,
     TrackMenuForHistoryReq |-> \h1112, NeighborMenuForKeyReq |-> \h1114,
     AlbumMenuForGenreAndArtistReq |-> \h1201, TrackMenuForArtistAndAlbumReq |-> \h1202,
     TrackMenuForBpmAndDistanceReq |-> \h1206, TrackMenuForDecadeAndYearReq |-> \h1208,
     AlbumMenuForLabelAndArtistReq |-> \h120a, TrackMenuForKeyAndDistanceReq |-> \h1214,
     SearchMenuReq |-> \h1300, TrackMenuForGenreArtistAndAlbumReq |-> \h1301,
     OriginalArtistMenuReq |-> \h1302, TrackMenuForLabelArtistAndAlbumReq |-> \h130a,
     AlbumMenuForOriginalArtistReq |-> \h1402, TrackMenuForOriginalArtistAndAlbumReq |-> \h1502,
     RemixerMenuReq |-> \h1602, AlbumMenuForRemixerReq |-> \h1702,
     TrackMenuForRemixerAndAlbumReq |-> \h1802, MetadataReq |-> \h2002, AlbumArtReq |-> \h2003,
     WaveformPreviewReq |-> \h2004, FolderMenuReq |-> \h2006, CueListReq |-> \h2104,
     UnanalyzedMetadataReq |-> \h2202, BeatGridReq |-> \h2204, WaveformDetailReq |-> \h2904,
     CueListExtReq |-> \h2b04, AnlzTagReq |-> \h2c04, RenderMenuReq |-> \h3000,
     MenuAvailable |-> \h4000, MenuHeader |-> \h4001, AlbumArtResponse |-> \h4002,
     Unavailable |-> \h4003, MenuItem |-> \h4101, MenuFooter |-> \h4201,
     WaveformPreviewResponse |-> \h4402, BeatGridResponse |-> \h4602, CueListResponse |-> \h4702,
     WaveformDetailResponse |-> \h4a02, CueListExtResponse |-> \h4e02, AnlzTagResponse |-> \h4f02]

MenuItemCode ==
    [Folder |-> \h0001, AlbumTitle |-> \h0002, Disc |-> \h0003, TrackTitle |-> \h0004,
     Genre |-> \h0006, Artist |-> \h0007, Playlist |-> \h0008, Rating |-> \h000a,
     Duration |-> \h000b, Tempo |-> \h000d, Label |-> \h000e, Key |-> \h000f, BitRate |-> \h0010,
     Year |-> \h0011, ColorNone |-> \h0013, ColorPink |-> \h0014, ColorRed |-> \h0015,
     ColorOrange |-> \h0016, ColorYellow |-> \h0017, ColorGreen |-> \h0018, ColorAqua |-> \h0019,
     ColorBlue |-> \h001a, ColorPurple |-> \h001b, Comment |-> \h0023,
     HistoryPlaylist |-> \h0024, OriginalArtist |-> \h0028, Remixer |-> \h0029,
     DateAdded |-> \h002e, GenreMenu |-> \h0080, ArtistMenu |-> \h0081, AlbumMenu |-> \h0082,
     TrackMenu |-> \h0083, PlaylistMenu |-> \h0084, BpmMenu |-> \h0085, RatingMenu |-> \h0086,
     YearMenu |-> \h0087, RemixerMenu |-> \h0088, LabelMenu |-> \h0089,
     OriginalArtistMenu |-> \h008a, KeyMenu |-> \h008b, DateAddedMenu |-> \h008c,
     ColorMenu |-> \h008e, FolderMenu |-> \h0090, SearchMenu |-> \h0091, TimeMenu |-> \h0092,
     BitRateMenu |-> \h0093, FilenameMenu |-> \h0094, HistoryMenu |-> \h0095,
     HotCueBankMenu |-> \h0098, All |-> \h00a0, TrackTitleAndAlbum |-> \h0204,
     TrackTitleAndGenre |-> \h0604, TrackTitleAndArtist |-> \h0704,
     TrackTitleAndRating |-> \h0a04, TrackTitleAndDuration |-> \h0b04,
     TrackTitleAndBpm |-> \h0d04, TrackTitleAndLabel |-> \h0e04, TrackTitleAndKey |-> \h0f04,
     TrackTitleAndBitRate |-> \h1004, TrackTitleAndColor |-> \h1a04,
     TrackTitleAndComment |-> \h2304, TrackTitleAndOriginalArtist |-> \h2804,
     TrackTitleAndRemixer |-> \h2904, TrackTitleAndDjPlayCount |-> \h2a04,
     TrackTitleAndDateAdded |-> \h2e04]

\* From<u16> and the way back.
TypeOf(codes, code) ==
    LET named == {name \in DOMAIN codes : codes[name] = code}
    IN  IF named = {} THEN <<"Unknown", code>> ELSE <<CHOOSE name \in named : TRUE>>
CodeOf(codes, type) == IF type[1] = "Unknown" THEN type[2] ELSE codes[type[1]]

MESSAGE_START == <<135, 35, 73, 174>>   \* 0x872349ae
MAX_ARGS      == 12
HeaderSize    == 11

Message(transaction, kind, args) == [transaction |-> transaction, kind |-> kind, args |-> args]

\* Message::serialize
Serialize(m) ==
    MESSAGE_START \o m.transaction \o Bytes(CodeOf(MessageCode, m.kind), 2)
       \o <<Len(m.args)>> \o [i \in DOMAIN m.args |-> ArgType(m.args[i])]
       \o FlattenSeq([i \in DOMAIN m.args |-> SerializeField(m.args[i])])

\* The arguments, one after the other.
ParseArgs(b, at, count) ==
    LET after[k \in 0..count] ==
          IF k = 0 THEN [value |-> <<>>, next |-> at]
          ELSE LET done == after[k - 1]
                   arg  == IF done = Failed THEN Failed ELSE ParseField(b, done.next)
               IN  IF arg = Failed THEN Failed
                   ELSE [value |-> Append(done.value, arg.value), next |-> arg.next]
    IN  after[count]

\* Message::parse.  The list of the arguments' types is skipped.
Parse(b) ==
    IF ~Has(b, 1, HeaderSize) \/ SubSeq(b, 1, 4) # MESSAGE_START
       \/ b[HeaderSize] > MAX_ARGS \/ ~Has(b, HeaderSize + 1, b[HeaderSize])
    THEN Failed
    ELSE LET args == ParseArgs(b, HeaderSize + 1 + b[HeaderSize], b[HeaderSize])
         IN  IF args = Failed THEN Failed
             ELSE [value |-> Message(SubSeq(b, 5, 8),
                                     TypeOf(MessageCode, NumberAt(b, 9, 2)), args.value),
                   next  |-> args.next]

\* The argument at a (zero-based) index, if it is of the kind asked for: args.get(i)
\* with as_number, as_string and as_binary.
Arg(m, i, kind) ==
    IF i >= Len(m.args) THEN None
    ELSE LET f == m.args[i + 1]
         IN  CASE f.kind # kind -> None
               [] f.kind = kind /\ kind = "Number" -> f.value
               [] f.kind = kind /\ kind = "Binary" -> f.data
               [] f.kind = kind /\ kind = "String" -> f.text

Default(default, value) == IF value = None THEN default ELSE value

ArgNumber(m, i) == Arg(m, i, "Number")
ArgText(m, i)   == Default(<<>>, Arg(m, i, "String"))
ItemType(m) == IF ArgNumber(m, 6) = None THEN None
               ELSE TypeOf(MenuItemCode, ArgNumber(m, 6) % 65536)
=============================================================================
