------------------------------ MODULE Library ------------------------------
(***************************************************************************)
(* A client of a player's database server and the library it browses, down *)
(* to the bytes (dbserver/client.rs, data/fetch.rs, network_provider.rs,   *)
(* menu.rs).                                                               *)
(*                                                                         *)
(* The client connects, and then makes one call after the other.  A call   *)
(* writes a request; the player, which is external, reads it and answers   *)
(* from its library.  TCP hands the answer over in pieces of any size, and *)
(* the client parses what it has until that fails.  Besides, the           *)
(* application decodes files of a track that it has read elsewhere.        *)
(*                                                                         *)
(* The pool of connections, calls that are dropped and connections that    *)
(* are closed are in Database.                                             *)
(***************************************************************************)
EXTENDS TrackData

CONSTANTS
    Track,      \* the player's library: records, see Stored
    Art,        \* artworks: their data, by number
    Files,      \* analysis files: sequences of their tags
    Blobs,      \* data that is decoded as a waveform of every style
    Times,      \* times that are looked up
    TrackIds,   \* numbers of tracks that are asked for
    Ids,        \* numbers by which menus are filtered
    Queries,    \* texts that are searched for
    Slots,      \* slots that are asked for
    Sorts,      \* sort orders that are asked for
    Me,         \* the device number of the virtual CDJ
    Pieces,     \* bound: sizes in which bytes arrive, besides all at once
    MaxCalls    \* bound: calls on a connection

VARIABLES
    conn,       \* "closed", "greeting", "setup" or "open"
    call,       \* the call in progress, or None
    request,    \* bytes the player has not read
    wire,       \* bytes the player has sent
    buf,        \* read_buf
    items,      \* the messages a menu request has collected
    nextTxn,    \* next_transaction
    result,     \* the last call that ended and what it gave
    page        \* the player's: the tracks of the last search it has not sent

vars == <<conn, call, request, wire, buf, items, nextTxn, result, page>>

\* The variables have their types; a call is in progress only on an open connection.
TypeOK ==
    /\ conn \in {"closed", "greeting", "setup", "open"}
    /\ \A bytes \in {request, wire, buf} : \A i \in DOMAIN bytes : bytes[i] \in Byte
    /\ call # None => conn = "open" /\ result = None
    /\ \A i \in DOMAIN items : items[i].kind \notin {<<"MenuHeader">>, <<"MenuFooter">>}
    /\ nextTxn \in 1..(MaxCalls + 1)

Init ==
    /\ conn = "closed" /\ call = None /\ request = <<>> /\ wire = <<>> /\ buf = <<>>
    /\ items = <<>> /\ nextTxn = 1 /\ result = None /\ page = <<>>

-----------------------------------------------------------------------------
\* The menus of MenuLoader: the request, what the menu lists and by what it is
\* filtered, in the order of the function's parameters.

Menu(kind, of, by) == [kind |-> kind, of |-> of, by |-> by]

RootMenus ==
    [root_menu    |-> Menu("RootMenuReq", "Root", <<>>),
     track_menu   |-> Menu("TrackMenuReq", "Track", <<>>),
     artist_menu  |-> Menu("ArtistMenuReq", "Artist", <<>>),
     genre_menu   |-> Menu("GenreMenuReq", "Genre", <<>>),
     album_menu   |-> Menu("AlbumMenuReq", "Album", <<>>),
     key_menu     |-> Menu("KeyMenuReq", "Key", <<>>),
     bpm_menu     |-> Menu("BpmMenuReq", "Bpm", <<>>),
     rating_menu  |-> Menu("RatingMenuReq", "Rating", <<>>),
     color_menu   |-> Menu("ColorMenuReq", "Color", <<>>),
     label_menu   |-> Menu("LabelMenuReq", "Label", <<>>),
     original_artist_menu |-> Menu("OriginalArtistMenuReq", "OriginalArtist", <<>>),
     remixer_menu |-> Menu("RemixerMenuReq", "Remixer", <<>>),
     history_menu |-> Menu("HistoryMenuReq", "History", <<>>),
     time_menu    |-> Menu("TimeMenuReq", "Time", <<>>),
     bit_rate_menu |-> Menu("BitRateMenuReq", "BitRate", <<>>),
     filename_menu |-> Menu("FilenameMenuReq", "Filename", <<>>),
     year_menu    |-> Menu("YearMenuReq", "Decade", <<>>)]

MenusByOne ==
    [artist_album_menu |-> Menu("AlbumMenuForArtistReq", "Album", <<"Artist">>),
     genre_artist_menu |-> Menu("ArtistMenuForGenreReq", "Artist", <<"Genre">>),
     key_neighbor_menu |-> Menu("NeighborMenuForKeyReq", "Track", <<"Key">>),
     album_track_menu  |-> Menu("TrackMenuForAlbumReq", "Track", <<"Album">>),
     playlist_menu     |-> Menu("PlaylistReq", "Track", <<"Playlist">>),
     folder_menu       |-> Menu("FolderMenuReq", "Track", <<"Folder">>),
     history_playlist_menu |-> Menu("TrackMenuForHistoryReq", "Track", <<"History">>),
     original_artist_album_menu |->
        Menu("AlbumMenuForOriginalArtistReq", "Album", <<"OriginalArtist">>),
     remixer_album_menu |-> Menu("AlbumMenuForRemixerReq", "Album", <<"Remixer">>),
     label_artist_menu  |-> Menu("ArtistMenuForLabelReq", "Artist", <<"Label">>),
     bpm_range_menu     |-> Menu("BpmRangeReq", "Track", <<"Bpm">>),
     rating_track_menu  |-> Menu("TrackMenuForRatingReq", "Track", <<"Rating">>),
     color_track_menu   |-> Menu("TrackMenuForColorReq", "Track", <<"Color">>),
     time_track_menu    |-> Menu("TrackMenuForTimeReq", "Track", <<"Time">>),
     bit_rate_track_menu |-> Menu("TrackMenuForBitRateReq", "Track", <<"BitRate">>),
     decade_year_menu   |-> Menu("YearMenuForDecadeReq", "Year", <<"Decade">>)]

MenusByTwo ==
    [genre_artist_album_menu |-> Menu("AlbumMenuForGenreAndArtistReq", "Album", <<"Genre", "Artist">>),
     artist_album_track_menu |-> Menu("TrackMenuForArtistAndAlbumReq", "Track", <<"Artist", "Album">>),
     original_artist_album_track_menu |->
        Menu("TrackMenuForOriginalArtistAndAlbumReq", "Track", <<"OriginalArtist", "Album">>),
     remixer_album_track_menu |->
        Menu("TrackMenuForRemixerAndAlbumReq", "Track", <<"Remixer", "Album">>),
     label_artist_album_menu |-> Menu("AlbumMenuForLabelAndArtistReq", "Album", <<"Label", "Artist">>),
     year_track_menu |-> Menu("TrackMenuForDecadeAndYearReq", "Track", <<"Decade", "Year">>)]

MenusByThree ==
    [genre_artist_album_track_menu |->
        Menu("TrackMenuForGenreArtistAndAlbumReq", "Track", <<"Genre", "Artist", "Album">>),
     label_artist_album_track_menu |->
        Menu("TrackMenuForLabelArtistAndAlbumReq", "Track", <<"Label", "Artist", "Album">>)]

Menus == RootMenus @@ MenusByOne @@ MenusByTwo @@ MenusByThree

SortOrder == [Default |-> 0, Album |-> 1, Artist |-> 2, Bpm |-> 3, Genre |-> 4, Key |-> 5,
              Rating |-> 6, Color |-> 7, Duration |-> 8, DateAdded |-> 9, Name |-> 10, Bitrate |-> 11]

\* root_args and filtered_args_1 to _3.
\* Fault: the filters in the order in which a player lists them.
ArgsReversed(slot, sort, ids) ==
    [i \in 1..(2 + Len(ids)) |->
        Number(CASE i = 1 -> ToByte(TrackSourceSlot, slot) [] i = 2 -> SortOrder[sort]
                 [] OTHER -> ids[Len(ids) + 3 - i], 4)]

FilteredArgs(slot, sort, ids) ==
    [i \in 1..(2 + Len(ids)) |->
        Number(CASE i = 1 -> ToByte(TrackSourceSlot, slot) [] i = 2 -> SortOrder[sort]
                 [] OTHER -> ids[i - 2], 4)]

\* What data/fetch.rs and data/network_provider.rs ask for.
Fetches ==
    [fetch_metadata |-> "MetadataReq", fetch_cue_list |-> "CueListExtReq",
     fetch_artwork |-> "AlbumArtReq", fetch_beatgrid |-> "BeatGridReq",
     fetch_waveform_preview |-> "WaveformPreviewReq", fetch_waveform_detail |-> "WaveformDetailReq"]

Gets ==
    [get_metadata |-> "MetadataReq", get_cue_list |-> "CueListExtReq", get_artwork |-> "AlbumArtReq",
     get_beatgrid |-> "BeatGridReq", get_waveform_preview |-> "WaveformPreviewReq",
     get_waveform_detail |-> "WaveformDetailReq"]

\* Those of which the answer is one message.
SimpleKinds == {"AlbumArtReq", "BeatGridReq", "WaveformPreviewReq", "WaveformDetailReq"}

MENU_ID_DATA == 8

\* The arguments of a fetch, whose numbers take as many bytes as they need.  Art has no slot.
FetchArgs(kind, slot, id) ==
    <<FieldNumber(MENU_ID_DATA),
      FieldNumber(IF kind = "AlbumArtReq" THEN 0 ELSE ToByte(TrackSourceSlot, slot)),
      FieldNumber(id)>>

-----------------------------------------------------------------------------
\* The player (external).

LabelOf(id) == <<64 + id>>

\* What a library lists: the tracks of a slot that have all the attributes asked for,
\* or the values of another attribute on these.
Matching(slot, by, ids) ==
    {t \in Track : t.slot = slot /\ \A k \in DOMAIN by : t.attr[by[k]] = ids[k]}

Sorted(tracks, sort) ==
    SetToSortSeq(tracks, LAMBDA t, u : IF sort = "Bpm" /\ t.tempo # u.tempo THEN t.tempo < u.tempo
                                       ELSE t.id < u.id)

Row(type, id, label) == [item_type |-> <<type>>, id |-> id, label1 |-> label, label2 |-> <<>>]

RowType == [Artist |-> "Artist", Genre |-> "Genre", Album |-> "AlbumTitle", Key |-> "Key",
            Bpm |-> "Tempo", Rating |-> "Rating", Color |-> "ColorPink", Label |-> "Label",
            OriginalArtist |-> "OriginalArtist", Remixer |-> "Remixer", Time |-> "Duration",
            History |-> "HistoryPlaylist", BitRate |-> "BitRate", Filename |-> "TrackTitle",
            Decade |-> "Year", Year |-> "Year"]

TrackRows(tracks) == [i \in DOMAIN tracks |-> Row("TrackTitle", tracks[i].id, tracks[i].title)]

Rows(slot, of, by, ids, sort) ==
    CASE of = "Root"  -> <<Row("GenreMenu", 1, <<71>>), Row("HotCueBankMenu", 2, <<72>>)>>
      [] of = "Track" -> TrackRows(Sorted(Matching(slot, by, ids), sort))
      [] OTHER -> LET values == SetToSortSeq({t.attr[of] : t \in Matching(slot, by, ids)}, <)
                  IN  [i \in DOMAIN values |-> Row(RowType[of], values[i], LabelOf(values[i]))]

SearchHits(slot, query, sort) ==
    Sorted({t \in Matching(slot, <<>>, <<>>) : IsPrefix(query, t.title)}, sort)

\* A page of hits is one track.
FirstPage(hits) == IF hits = <<>> THEN <<>> ELSE <<Head(hits)>>

\* What a player takes the kinds of request to mean: what is listed and, after it, by
\* what it is filtered.
Meaning ==
    [RootMenuReq |-> <<"Root">>, TrackMenuReq |-> <<"Track">>, ArtistMenuReq |-> <<"Artist">>,
     GenreMenuReq |-> <<"Genre">>, AlbumMenuReq |-> <<"Album">>, KeyMenuReq |-> <<"Key">>,
     BpmMenuReq |-> <<"Bpm">>, RatingMenuReq |-> <<"Rating">>, ColorMenuReq |-> <<"Color">>,
     LabelMenuReq |-> <<"Label">>, OriginalArtistMenuReq |-> <<"OriginalArtist">>,
     RemixerMenuReq |-> <<"Remixer">>, HistoryMenuReq |-> <<"History">>, TimeMenuReq |-> <<"Time">>,
     BitRateMenuReq |-> <<"BitRate">>, FilenameMenuReq |-> <<"Filename">>, YearMenuReq |-> <<"Decade">>,
     AlbumMenuForArtistReq |-> <<"Album", "Artist">>, ArtistMenuForGenreReq |-> <<"Artist", "Genre">>,
     NeighborMenuForKeyReq |-> <<"Track", "Key">>, TrackMenuForAlbumReq |-> <<"Track", "Album">>,
     PlaylistReq |-> <<"Track", "Playlist">>, FolderMenuReq |-> <<"Track", "Folder">>,
     TrackMenuForHistoryReq |-> <<"Track", "History">>,
     AlbumMenuForOriginalArtistReq |-> <<"Album", "OriginalArtist">>,
     AlbumMenuForRemixerReq |-> <<"Album", "Remixer">>, ArtistMenuForLabelReq |-> <<"Artist", "Label">>,
     BpmRangeReq |-> <<"Track", "Bpm">>, TrackMenuForRatingReq |-> <<"Track", "Rating">>,
     TrackMenuForColorReq |-> <<"Track", "Color">>, TrackMenuForTimeReq |-> <<"Track", "Time">>,
     TrackMenuForBitRateReq |-> <<"Track", "BitRate">>, YearMenuForDecadeReq |-> <<"Year", "Decade">>,
     AlbumMenuForGenreAndArtistReq |-> <<"Album", "Genre", "Artist">>,
     TrackMenuForArtistAndAlbumReq |-> <<"Track", "Artist", "Album">>,
     TrackMenuForOriginalArtistAndAlbumReq |-> <<"Track", "OriginalArtist", "Album">>,
     TrackMenuForRemixerAndAlbumReq |-> <<"Track", "Remixer", "Album">>,
     AlbumMenuForLabelAndArtistReq |-> <<"Album", "Label", "Artist">>,
     TrackMenuForDecadeAndYearReq |-> <<"Track", "Decade", "Year">>,
     TrackMenuForGenreArtistAndAlbumReq |-> <<"Track", "Genre", "Artist", "Album">>,
     TrackMenuForLabelArtistAndAlbumReq |-> <<"Track", "Label", "Artist", "Album">>]

N(value) == Number(value, 4)
Reply(m, kind, args) == Message(m.transaction, <<kind>>, args)

ItemMessage(m, row, art) ==
    Reply(m, "MenuItem",
       <<N(0), N(row.id), N(0), String(row.label1), N(0), String(row.label2),
         N(CodeOf(MenuItemCode, row.item_type)), N(0), N(art)>>)

MenuReply(m, messages) ==
    <<Reply(m, "MenuHeader", <<N(1), N(0)>>)>> \o messages \o <<Reply(m, "MenuFooter", <<>>)>>

RowsReply(m, rows) == MenuReply(m, [i \in DOMAIN rows |-> ItemMessage(m, rows[i], 0)])

MetadataReply(m, t) ==
    LET row(type, id, label) == ItemMessage(m, Row(type, id, label), t.artwork)
        attr(type, a)        == row(type, t.attr[a], LabelOf(t.attr[a]))
    IN  MenuReply(m,
          <<row("TrackTitle", t.id, t.title), attr("Artist", "Artist"), attr("AlbumTitle", "Album"),
            row("Duration", t.duration, <<>>), row("Tempo", t.tempo, <<>>),
            row("Comment", 0, t.comment), attr("Key", "Key"), row("Rating", t.rating, <<>>),
            row(t.color, 0, <<>>), attr("Genre", "Genre"), row("DateAdded", 0, t.date_added),
            attr("Label", "Label"), attr("Remixer", "Remixer"),
            attr("OriginalArtist", "OriginalArtist"), row("BitRate", t.bit_rate, <<>>),
            row("Year", t.year, <<>>)>>)

\* The position of a cue is kept in half frames.
CueReply(m, cues) ==
    MenuReply(m, [i \in DOMAIN cues |->
       Reply(m, "MenuItem",
          <<N(0), N(cues[i].hot), N(0), N(HalfFrameToTime(cues[i].at)),
            N(IF cues[i].end = None THEN 0 ELSE HalfFrameToTime(cues[i].end)),
            String(cues[i].comment)>>)])

DataReply(m, kind, data) == <<Reply(m, kind, <<N(0), N(0), N(Len(data)), Binary(data)>>)>>

\* Data as a player sends it, with the headers that the client skips.
Zeros(n) == [i \in 1..n |-> 0]
GridData(grid) ==
    Zeros(GridHeaderSize)
    \o FlattenSeq([i \in DOMAIN grid |-> Little(grid[i].beat_within_bar, 2)
                       \o Little(grid[i].tempo, 2) \o Little(grid[i].time_ms, 4) \o Zeros(8)])
WaveByte(segment) == segment.height + 32 * segment.color
PreviewData(wave) == FlattenSeq([i \in DOMAIN wave |-> <<WaveByte(wave[i]), 0>>])
DetailData(wave)  == Zeros(19) \o [i \in DOMAIN wave |-> WaveByte(wave[i])]

SlotOf(byte) == FromByte(TrackSourceSlot, byte)
SortOf(byte) == CHOOSE s \in DOMAIN SortOrder : SortOrder[s] = byte

TrackReply(m, t) ==
    CASE m.kind = <<"MetadataReq">>        -> MetadataReply(m, t)
      [] m.kind = <<"CueListExtReq">>      -> CueReply(m, t.cues)
      [] m.kind = <<"BeatGridReq">>        -> DataReply(m, "BeatGridResponse", GridData(t.grid))
      [] m.kind = <<"WaveformPreviewReq">> ->
            DataReply(m, "WaveformPreviewResponse", PreviewData(t.wave))
      [] m.kind = <<"WaveformDetailReq">>  -> DataReply(m, "WaveformDetailResponse", DetailData(t.wave))

\* The messages a player answers a request with, and the hits it has not sent then.
Answer(m) ==
    LET n(i)  == ArgNumber(m, i)
        hits  == CASE m.kind = <<"SearchMenuReq">> -> SearchHits(SlotOf(n(0)), ArgText(m, 2), SortOf(n(1)))
                   [] m.kind = <<"RenderMenuReq">> -> page
                   [] OTHER -> <<>>
        asked == {t \in Track : <<t.slot, t.id>> = <<SlotOf(n(1)), n(2)>>}
    IN  CASE m.kind \in {<<"SearchMenuReq">>, <<"RenderMenuReq">>} ->
               [messages |-> RowsReply(m, TrackRows(FirstPage(hits))), page |-> SubSeq(hits, 2, Len(hits))]
          [] m.kind = <<"AlbumArtReq">> ->
               [messages |-> IF n(2) \in DOMAIN Art THEN DataReply(m, "AlbumArtResponse", Art[n(2)])
                             ELSE <<Reply(m, "Unavailable", <<>>)>>,
                page |-> page]
          [] m.kind[1] \in {Fetches[op] : op \in DOMAIN Fetches} \ {"AlbumArtReq"} ->
               [messages |-> IF asked = {} THEN <<Reply(m, "Unavailable", <<>>)>>
                             ELSE TrackReply(m, CHOOSE t \in asked : TRUE),
                page |-> page]
          [] OTHER ->
               [messages |-> RowsReply(m, Rows(SlotOf(n(0)), Head(Meaning[m.kind[1]]),
                                          Tail(Meaning[m.kind[1]]),
                                          [i \in 1..(Len(m.args) - 2) |-> n(i + 1)], SortOf(n(1)))),
                page |-> page]

\* The player reads what was written, answers, and the bytes are on their way.
PlayerReads ==
    /\ request # <<>> /\ request' = <<>>
    /\ IF conn = "greeting"
       THEN wire' = wire \o SerializeField(Number(1, 4)) /\ UNCHANGED page
       ELSE /\ Parse(request) # Failed
            /\ LET m == Parse(request).value
                   a == IF conn = "setup"
                        THEN [messages |-> <<Reply(m, "MenuAvailable", <<N(0), N(Me)>>)>>, page |-> page]
                        ELSE Answer(m)
               IN  /\ wire' = wire \o FlattenSeq([i \in DOMAIN a.messages |-> Serialize(a.messages[i])])
                   /\ page' = a.page
    /\ UNCHANGED <<conn, call, buf, items, nextTxn, result>>

\* The player closes the connection, and read returns nothing: an error.
PlayerCloses ==
    /\ conn \in {"greeting", "setup"} \/ call # None
    /\ conn' = "closed" /\ call' = None /\ request' = <<>> /\ wire' = <<>> /\ buf' = <<>>
    /\ items' = <<>> /\ nextTxn' = 1 /\ page' = <<>>
    /\ result' = IF call = None THEN None ELSE [op |-> call.op, given |-> call, got |-> None]

-----------------------------------------------------------------------------
\* Client::connect

Greet ==
    /\ conn = "closed" /\ conn' = "greeting"
    /\ request' = SerializeField(Number(1, 4)) /\ result' = None
    /\ UNCHANGED <<call, wire, buf, items, nextTxn, page>>

\* How many bytes a read may return, of at most max.
Chunks(max) == {MinOf({n, Len(wire)}) : n \in Pieces \union {max}} \ {0}
Rest(bytes, n) == SubSeq(bytes, n + 1, Len(bytes))

\* The greeting is read at once: the connection fails if it arrives in pieces.
ReadGreeting(n) ==
    /\ conn = "greeting"
    /\ LET answer == ParseField(SubSeq(wire, 1, n), 1)
       IN  IF answer # Failed /\ answer.value.kind = "Number" /\ answer.value.value = 1
           THEN /\ conn' = "setup" /\ wire' = Rest(wire, n)
                /\ request' = Serialize(Message(<<255, 255, 255, 254>>, <<"SetupReq">>,
                                                <<FieldNumber(Me)>>))
           ELSE conn' = "closed" /\ wire' = <<>> /\ UNCHANGED request
    /\ UNCHANGED <<call, buf, items, nextTxn, result, page>>

ReadMore(n) ==
    /\ buf' = buf \o SubSeq(wire, 1, n) /\ wire' = Rest(wire, n)
    /\ UNCHANGED <<conn, call, request, items, nextTxn, result, page>>

\* read_message: as long as the buffer does not begin with a message, more is read.
Receive ==
    /\ conn = "setup" \/ call # None
    /\ wire # <<>> /\ Parse(buf) = Failed
    /\ \E n \in Chunks(4096) : ReadMore(n)

NextMessage == Parse(buf).value
Consumed    == Rest(buf, Parse(buf).next - 1)

SetUp ==
    /\ conn = "setup" /\ Parse(buf) # Failed
    /\ conn' = (IF NextMessage.kind = <<"MenuAvailable">> THEN "open" ELSE "closed")
    /\ buf' = Consumed
    /\ UNCHANGED <<call, request, wire, items, nextTxn, result, page>>

-----------------------------------------------------------------------------
\* Calls.  with: what is asked for besides the slot: numbers, or the text of a search.

StartCall(op, kind, slot, sort, with, args) ==
    /\ conn = "open" /\ call = None /\ nextTxn <= MaxCalls
    /\ call' = [op |-> op, kind |-> kind, slot |-> slot, sort |-> sort, with |-> with,
                page |-> page, txn |-> nextTxn]
    /\ request' = Serialize(Message(Bytes(nextTxn, 4), <<kind>>, args))
    /\ nextTxn' = nextTxn + 1 /\ result' = None
    /\ UNCHANGED <<conn, wire, buf, items, page>>

MenuCall(op, slot, sort, ids) ==
    StartCall(op, Menus[op].kind, slot, sort, ids, FilteredArgs(slot, sort, ids))

Search(slot, sort, query) ==
    StartCall("search", "SearchMenuReq", slot, sort, query,
              FilteredArgs(slot, sort, <<>>) \o <<String(query)>>)

MoreSearchResults(slot, sort) ==
    StartCall("more_search_results", "RenderMenuReq", slot, sort, <<>>,
              FilteredArgs(slot, sort, <<>>))

Fetch(op, slot, id) ==
    StartCall(op, Fetches[op], slot, None, <<id>>, FetchArgs(Fetches[op], slot, id))

\* The provider asks the device finder where the player is.
Get(op, slot, id) ==
    StartCall(op, Gets[op], slot, None, <<id>>, FetchArgs(Gets[op], slot, id))

\* resolve_ip: a player the finder does not know is an error before anything is sent.
UnknownPlayer(op, slot, id) ==
    /\ call = None
    /\ result' = [op |-> op, given |-> [op |-> op, slot |-> slot, with |-> <<id>>], got |-> None]
    /\ UNCHANGED <<conn, call, request, wire, buf, items, nextTxn, page>>

\* Fault: the items are kept.
EndsKeeping(got) ==
    /\ result' = [op |-> call.op, given |-> call, got |-> got]
    /\ call' = None /\ buf' = Consumed
    /\ UNCHANGED <<conn, items, request, wire, nextTxn, page>>

Ends(got) ==
    /\ result' = [op |-> call.op, given |-> call, got |-> got]
    /\ call' = None /\ items' = <<>> /\ buf' = Consumed
    /\ UNCHANGED <<conn, request, wire, nextTxn, page>>

\* simple_request and what do_beatgrid and the others make of the response.
FromResponse(kind, data) ==
    CASE data = None -> Failed
      [] data # None /\ kind = "AlbumArtReq" -> data
      [] data # None /\ kind = "BeatGridReq" -> GridFrom(data)
      [] data # None /\ kind = "WaveformPreviewReq" -> WaveformFrom(data, "preview", "Blue")
      [] data # None /\ kind = "WaveformDetailReq"  -> WaveformFrom(data, "detail", "Blue")

SimpleResponse ==
    /\ call # None /\ call.kind \in SimpleKinds /\ Parse(buf) # Failed
    /\ Ends(IF NextMessage.transaction # Bytes(call.txn, 4) THEN Failed
            ELSE FromResponse(call.kind, Arg(NextMessage, 3, "Binary")))

\* menu_request: between header and footer the items are collected.
FromItems(c, messages) ==
    CASE c.kind = "MetadataReq"   -> MetadataFrom(<<c.slot, c.with[1]>>, messages)
      [] c.kind = "CueListExtReq" -> CuesFromMenu(messages)
      [] OTHER                    -> ParseMenuItems(messages)

Collects(messages) ==
    /\ items' = messages /\ buf' = Consumed
    /\ UNCHANGED <<conn, call, request, wire, nextTxn, result, page>>

MenuMessage ==
    /\ call # None /\ call.kind \notin SimpleKinds /\ Parse(buf) # Failed
    /\ CASE NextMessage.kind = <<"MenuHeader">> -> Collects(items)
         [] NextMessage.kind = <<"MenuItem">>   -> Collects(Append(items, NextMessage))
         [] NextMessage.kind = <<"MenuFooter">> -> Ends(FromItems(call, items))
         [] OTHER -> Ends(FromItems(call, Append(items, NextMessage)))

-----------------------------------------------------------------------------
\* The application decodes files of a track.  The files are external.

NexusFile(cues) ==
    FlattenSeq([i \in DOMAIN cues |->
        <<IF cues[i].end = None THEN 0 ELSE 1, 1, cues[i].hot>> \o Zeros(9) \o Little(cues[i].at, 4)
        \o Little(Default(0, cues[i].end), 4) \o Zeros(16)]) \o Zeros(NexusEntrySize)

Nxs2File(cues) ==
    LET text(c) == IF c.comment = <<>> THEN <<>>
                   ELSE FlattenSeq([i \in DOMAIN c.comment |-> Little(c.comment[i], 2)]) \o <<0, 0>>
        size(c) == ColorOffset + 4 + Len(text(c))
        end(c)  == IF c.end = None THEN 0 ELSE HalfFrameToTime(c.end)
    IN  FlattenSeq([i \in DOMAIN cues |->
           LET c == cues[i]
           IN  Little(size(c), 4) \o <<c.hot, 0, IF c.end = None THEN 1 ELSE 2, 0, 0, 0, 0, 0>>
               \o Little(HalfFrameToTime(c.at), 4) \o Little(end(c), 4) \o Zeros(14) \o <<c.code>>
               \o Zeros(37) \o Little(Len(text(c)), 2) \o text(c) \o Zeros(4) \o <<c.code>> \o c.rgb])

AnlzHeaderSize == 28
AnlzTag(tag) == tag.tag_type \o Bytes(12, 4) \o Bytes(12 + Len(tag.content), 4) \o tag.content
AnlzFile(tags) ==
    <<80, 77, 65, 73>> \o Bytes(AnlzHeaderSize, 4) \o Zeros(AnlzHeaderSize - 8)
    \o FlattenSeq([i \in DOMAIN tags |-> AnlzTag(tags[i])])

\* In the model it does so only before it connects: what it finds does not depend on the
\* connection.
Decodes(op, given, got) ==
    /\ result' = [op |-> op, given |-> given, got |-> got]
    /\ UNCHANGED <<conn, call, request, wire, buf, items, nextTxn, page>>

AppDecodes ==
    /\ conn = "closed" /\ result = None
    /\ \/ \E t \in Track :
            \/ Decodes("parse_nexus_entries", t.cues, ParseNexusEntries(NexusFile(t.cues)))
            \/ Decodes("parse_nxs2_entries", t.cues, ParseNxs2Entries(Nxs2File(t.cues)))
       \/ \E tags \in Files : Decodes("parse_anlz_tags", tags, ParseAnlzTags(AnlzFile(tags)))
       \/ \E data \in Blobs, what \in {"preview", "detail"}, style \in {"Blue", "Rgb", "ThreeBand"} :
            Decodes("from_bytes", data, WaveformFrom(data, what, style))

-----------------------------------------------------------------------------
Next ==
    \/ PlayerReads \/ PlayerCloses \/ Greet \/ SetUp \/ Receive
    \/ \E n \in Chunks(16) : ReadGreeting(n)
    \/ SimpleResponse \/ MenuMessage
    \/ \E op \in DOMAIN Menus, slot \in Slots, sort \in Sorts :
          \E ids \in [DOMAIN Menus[op].by -> Ids] : MenuCall(op, slot, sort, ids)
    \/ \E slot \in Slots, sort \in Sorts :
          \/ \E query \in Queries : Search(slot, sort, query)
          \/ MoreSearchResults(slot, sort)
    \/ \E slot \in Slots, id \in TrackIds :
          \/ \E op \in DOMAIN Fetches : Fetch(op, slot, id)
          \/ \E op \in DOMAIN Gets : Get(op, slot, id) \/ UnknownPlayer(op, slot, id)
    \/ AppDecodes

\* Weak fairness: the player answers, what it has sent arrives, and the runtime polls a task
\* that is ready.  ENABLED is written out, as TLC takes too long to find it.
Asked    == request # <<>> /\ (conn # "greeting" => Parse(request) # Failed)
Awaiting == call # None /\ wire # <<>> /\ Parse(buf) = Failed
Arrived  == call # None /\ Parse(buf) # Failed

Fairness ==
    /\ WF_vars(SetUp)
    /\ <>[]Asked    => []<><<PlayerReads>>_vars
    /\ <>[]Awaiting => []<><<Receive>>_vars
    /\ <>[]Arrived  => []<><<SimpleResponse \/ MenuMessage>>_vars

Spec == Init /\ [][Next]_vars /\ Fairness

-----------------------------------------------------------------------------
DecodingOps == {"parse_nexus_entries", "parse_nxs2_entries", "parse_anlz_tags", "from_bytes"}

\* The result of one of these operations, if it was answered.
Answered(ops) == result # None /\ result.op \in ops /\ result.got # None

KindIs(kind) == {op \in DOMAIN Fetches : Fetches[op] = kind} \union {op \in DOMAIN Gets : Gets[op] = kind}

\* The track a fetch asked for, if the player has it.
AskedTrack == {t \in Track : <<t.slot, t.id>> = <<result.given.slot, result.given.with[1]>>}

ItemOf(t, attribute) == SearchableItem(t.attr[attribute], LabelOf(t.attr[attribute]))

MetadataOf(t) ==
    [data_ref |-> <<t.slot, t.id>>, title |-> t.title, artist |-> ItemOf(t, "Artist"),
     album |-> ItemOf(t, "Album"), genre |-> ItemOf(t, "Genre"), key |-> ItemOf(t, "Key"),
     label |-> ItemOf(t, "Label"), original_artist |-> ItemOf(t, "OriginalArtist"),
     remixer |-> ItemOf(t, "Remixer"), comment |-> t.comment, duration |-> t.duration,
     tempo |-> t.tempo, rating |-> t.rating, color |-> t.color, date_added |-> t.date_added,
     artwork_id |-> t.artwork, year |-> t.year, bit_rate |-> t.bit_rate]

\* The tracks whose texts the answer to a call holds, and which of these are no UTF-16.
Told(c) ==
    CASE c.op \in DOMAIN Menus /\ Menus[c.op].of = "Track" -> Matching(c.slot, Menus[c.op].by, c.with)
      [] c.op = "search"              -> Range(FirstPage(SearchHits(c.slot, c.with, c.sort)))
      [] c.op = "more_search_results" -> Range(FirstPage(c.page))
      [] c.kind \in {"MetadataReq", "CueListExtReq"} ->
            {t \in Track : <<t.slot, t.id>> = <<c.slot, c.with[1]>>}
      [] OTHER -> {}

TextsOf(c, t) ==
    CASE c.kind = "MetadataReq"   -> {t.title, t.comment, t.date_added}
      [] c.kind = "CueListExtReq" -> {t.cues[i].comment : i \in DOMAIN t.cues}
      [] OTHER                    -> {t.title}

BadText(c) == \E t \in Told(c) : \E text \in TextsOf(c, t) : ~ValidUtf16(text)

\* A cue as the player and the files have it.  colored: with its color.
CueOf(c, commented, colored) ==
    [cue_type |-> IF c.end # None THEN "Loop" ELSE IF c.hot = 0 THEN "MemoryPoint" ELSE "HotCue",
     hot_cue_number |-> Unless(0, c.hot),
     position_ms |-> HalfFrameToTime(c.at),
     loop_end_ms |-> IF c.end = None THEN None ELSE HalfFrameToTime(c.end),
     comment     |-> IF commented THEN Unless(<<>>, c.comment) ELSE None,
     color_id    |-> IF colored THEN Unless(0, c.code) ELSE None,
     color_rgb   |-> IF colored /\ c.hot # 0 THEN Unless(<<0, 0, 0>>, c.rgb) ELSE None]

\* The answer to a call, through the bytes and however they arrive, is what the library
\* of the player holds for its arguments: the menu that the function is named for, the
\* page of the search, the track's metadata, cues and artwork (JPEGs) (data/menu.rs, fetch.rs,
\* network_provider.rs over dbserver/client.rs, message.rs, field.rs).  An artwork, a grid
\* or a waveform that does not exist is an error; of a track that the player does not have
\* the metadata is empty and the cue list is one memory point at 0, as menu_request takes
\* the player's message that there is none for an item (client.rs:188).  A text that is no
\* UTF-16 is never returned.
AnsweredAsStored ==
    /\ Answered(DOMAIN Menus) =>
         LET c == result.given
         IN  result.got = Rows(c.slot, Menus[c.op].of, Menus[c.op].by, c.with, c.sort)
    /\ Answered({"search"}) =>
         LET c == result.given
         IN  result.got = TrackRows(FirstPage(SearchHits(c.slot, c.with, c.sort)))
    /\ Answered({"more_search_results"}) => result.got = TrackRows(FirstPage(result.given.page))
    /\ Answered(KindIs("MetadataReq")) => \A t \in AskedTrack :
         result.got = [MetadataOf(t) EXCEPT !.color = ColorOf[@]]
         /\ t.color = "Color" \o (IF result.got.color = None THEN "None" ELSE ColorName(result.got.color))
    /\ Answered(KindIs("CueListExtReq")) => \A t \in AskedTrack :
         result.got = [i \in DOMAIN t.cues |-> CueOf(t.cues[i], TRUE, FALSE)]
    /\ Answered(KindIs("MetadataReq")) /\ AskedTrack = {} =>
         result.got = NewMetadata(<<result.given.slot, result.given.with[1]>>)
    /\ Answered(KindIs("CueListExtReq")) /\ AskedTrack = {} =>
         result.got = <<CueEntry(0, FALSE, 0, None, None, None, None)>>
    /\ \A kind \in SimpleKinds \ {"AlbumArtReq"} :
         Answered(KindIs(kind)) /\ AskedTrack = {} => result.got = Failed
    /\ result # None /\ result.got # None /\ result.op \notin DecodingOps => ~BadText(result.given)
    /\ Answered(KindIs("AlbumArtReq")) =>
         LET id == result.given.with[1]
         IN  IF id \in DOMAIN Art THEN result.got = Art[id] /\ ImageFormat(result.got) = "Jpeg"
             ELSE result.got = Failed

\* When no call is in progress, nothing of an answer is left on an open connection, in
\* the buffer, on its way or among the items, that the next call would take for its own:
\* read_message consumes exactly the messages, and menu_request ends with the last of them.
StreamClean ==
    call = None => /\ items = <<>>
                   /\ conn = "open" => request = <<>> /\ buf = <<>> /\ wire = <<>>

\* Every call ends: a complete answer is never taken for one of which bytes are missing,
\* for which read_message would wait without end (client.rs:138), unless it holds a text
\* that is no UTF-16 (field.rs:146).
CallsEnd == call # None /\ ~BadText(call) ~> call = None

\* find_beat_at_time gives the last time at or before the one asked for, beat_at_time one
\* that is not farther than any other, and a bar number never decreases and is that of
\* the bars begun (data/beatgrid.rs).
BeatsFound ==
    Answered(KindIs("BeatGridReq")) => \A t \in AskedTrack :
      /\ result.got = t.grid
      /\ LET grid   == result.got
             at(i)  == ByteOf(grid, i).time_ms
             beats  == 0..(Len(grid) - 1)
             dist(i, ms) == IF at(i) < ms THEN ms - at(i) ELSE at(i) - ms
         IN  /\ \A ms \in Times :
                  /\ (FindBeatAtTime(grid, ms) = {}) = (\A i \in beats : ms < at(i))
                  /\ \A i \in FindBeatAtTime(grid, ms) :
                       at(i) <= ms /\ \A j \in beats : at(j) <= ms => at(j) <= at(i)
                  /\ (BeatAtTime(grid, ms) = {}) = (grid = <<>>)
                  /\ \A i \in BeatAtTime(grid, ms), j \in beats : dist(i, ms) <= dist(j, ms)
             /\ \A i \in beats : BarNumber(grid, i) = 1 + Cardinality(
                     {j \in 1..i : ByteOf(grid, j).beat_within_bar = 1})

\* raw_data of a grid is a grid of as many beats at the same times, whose tempos are at
\* most one hundredth slower; that loss happens once, so that the signature of a track does
\* not depend on how often its grid was read and written (data/beatgrid.rs, signature.rs).
GridKept ==
    Answered(KindIs("BeatGridReq")) /\ result.got # Failed =>
      LET again == GridFrom(RawData(result.got))
      IN  /\ Len(again) = Len(result.got)
          /\ \A i \in DOMAIN again :
               /\ again[i].beat_within_bar = result.got[i].beat_within_bar
               /\ again[i].time_ms = result.got[i].time_ms
               /\ result.got[i].tempo - again[i].tempo \in 0..1
          /\ \A t \in AskedTrack :
               SignatureOf(MetadataOf(t), None, again) = SignatureOf(MetadataOf(t), None, result.got)

\* entry_before and entry_after split the cues at a position: no entry lies between the
\* two that they give, and of several at one position entry_before gives the last and
\* entry_after the first; every cue is a hot cue, a memory point or a loop, and a button
\* finds its cue (data/cue.rs).
CueSearch ==
    Answered(KindIs("CueListExtReq")) =>
      LET cues   == result.got
          at(i)  == cues[i].position_ms
      IN  /\ \A ms \in Times :
               LET before == EntryBefore(cues, ms)
                   after  == EntryAfter(cues, ms)
               IN  /\ \A i \in DOMAIN cues :
                        /\ at(i) < ms  => before # None /\ (at(i) < at(before) \/ (at(i) = at(before) /\ i <= before))
                        /\ at(i) >= ms => after # None /\ (at(i) > at(after) \/ (at(i) = at(after) /\ i >= after))
                   /\ before # None => at(before) < ms
                   /\ after # None  => at(after) >= ms
          /\ Len(cues) = Len(OfType(cues, "HotCue")) + Len(OfType(cues, "MemoryPoint"))
                           + Len(OfType(cues, "Loop"))
          /\ \A i \in DOMAIN cues : cues[i].hot_cue_number # None =>
               HotCue(cues, cues[i].hot_cue_number).hot_cue_number = cues[i].hot_cue_number

\* The cues of a file are those that were written to it, each with its own comment and
\* its own color, wherever the one before it ends; their times lead back to the half frames
\* they were read from, however these are rounded (data/cue.rs, util.rs).  One comment that
\* is no UTF-16 fails the whole file.
CueFilesRead ==
    /\ Answered({"parse_nexus_entries"}) =>
         /\ result.got = [i \in DOMAIN result.given |-> CueOf(result.given[i], FALSE, FALSE)]
         /\ \A i \in DOMAIN result.got :
              {TimeToHalfFrame(result.got[i].position_ms),
               TimeToHalfFrameRounded(result.got[i].position_ms)} = {result.given[i].at}
    /\ Answered({"parse_nxs2_entries"}) =>
         result.got = IF \E i \in DOMAIN result.given : ~ValidUtf16(result.given[i].comment) THEN Failed
                      ELSE [i \in DOMAIN result.given |-> CueOf(result.given[i], TRUE, TRUE)]

\* The waveforms of a track show the heights the player has; of any data, in every style,
\* all whole segments are shown, heights of five bits stay below 32, and a frame of the
\* detail lasts as long as a half frame of a cue (data/waveform.rs).
WaveShown ==
    /\ Answered(KindIs("WaveformPreviewReq") \union KindIs("WaveformDetailReq")) =>
         \A t \in AskedTrack :
           /\ result.got # Failed /\ result.got.count = Len(t.wave)
           /\ \A i \in DOMAIN t.wave : Height(result.got, i - 1) = t.wave[i].height
    /\ Answered({"from_bytes"}) /\ result.got # Failed =>
         LET w == result.got
         IN  /\ Len(w.data) - w.count * SegmentBytes[w.what][w.style] \in 0..(SegmentBytes[w.what][w.style] - 1)
             /\ Height(w, w.count) = None
             /\ TotalTimeMs(w) = HalfFrameToTime(w.count)
             /\ MaxHeight(w) < (IF w.style = "ThreeBand" THEN 256 ELSE 32)
             /\ \A i \in 0..(w.count - 1) :
                  /\ Height(w, i) \in 0..MaxHeight(w)
                  /\ (Color(w, i) = None) = (w.style = "Blue")

\* The tags of an analysis file are found one after the other, each with all its bytes:
\* none is skipped and nothing within a tag is taken for another (data/analysis.rs).
TagsTile ==
    Answered({"parse_anlz_tags"}) =>
      result.got = [i \in DOMAIN result.given |->
                      [tag_type |-> result.given[i].tag_type, data |-> AnlzTag(result.given[i])]]

\* The searches in a grid and in cues find what they are named for.
SearchesFind == BeatsFound /\ CueSearch

\* What is decoded from a file or from data of a track is what was stored there.
FilesRead == GridKept /\ CueFilesRead /\ WaveShown /\ TagsTile
=============================================================================
