----------------------------- MODULE TrackData -----------------------------
(***************************************************************************)
(* What is made of the data of a track (data/metadata.rs, menu.rs, cue.rs, *)
(* beatgrid.rs, waveform.rs, artwork.rs, analysis.rs, color.rs,            *)
(* signature.rs).  Offsets and indices count from zero, as in the source.  *)
(***************************************************************************)
EXTENDS Messages

CONSTANT Inexact    \* hundredths of BPM, not two in a row, that the product with 100.0 falls short of

ByteOf(data, o) == data[o + 1]
Slice(data, from, to) == SubSeq(data, from + 1, to)

\* from_le_bytes, and from_be_bytes.
LittleAt(data, o, n) == NumberAt(Reverse(Slice(data, o, o + n)), 1, n)
BigAt(data, o, n)    == NumberAt(data, o + 1, n)

Little(v, n) == Reverse(Bytes(v, n))

MaxOf(S) == CHOOSE x \in S : \A y \in S : y <= x
MinOf(S) == CHOOSE x \in S : \A y \in S : x <= y

-----------------------------------------------------------------------------
\* Metadata.

TypeName(m) == IF ItemType(m) = None THEN None ELSE ItemType(m)[1]

\* parse_menu_items: an item without a type is left out.
ParseMenuItems(messages) ==
    LET item(m) == [item_type |-> ItemType(m), id |-> Default(0, ArgNumber(m, 1)),
                    label1 |-> ArgText(m, 3), label2 |-> ArgText(m, 5)]
    IN  [i \in DOMAIN SelectSeq(messages, LAMBDA m : ItemType(m) # None) |->
            item(SelectSeq(messages, LAMBDA m : ItemType(m) # None)[i])]

SearchableItem(id, label) == [id |-> id, label |-> label]

NewMetadata(ref) ==
    LET none == SearchableItem(0, <<>>)
    IN  [data_ref |-> ref, title |-> <<>>, artist |-> none, album |-> none, genre |-> none,
         key |-> none, label |-> none, original_artist |-> none, remixer |-> none,
         comment |-> <<>>, duration |-> 0, tempo |-> 0, rating |-> 0, color |-> None,
         date_added |-> <<>>, artwork_id |-> 0, year |-> 0, bit_rate |-> 0]

\* The field of each type of item.
SearchableField ==
    [Artist |-> "artist", AlbumTitle |-> "album", Genre |-> "genre", Key |-> "key",
     Label |-> "label", OriginalArtist |-> "original_artist", Remixer |-> "remixer"]
TextField   == [Comment |-> "comment", DateAdded |-> "date_added"]
NumberField == [Duration |-> "duration", BitRate |-> "bit_rate", Tempo |-> "tempo",
                Rating |-> "rating", Year |-> "year"]
NumberWidth == [Duration |-> 4, BitRate |-> 4, Tempo |-> 4, Rating |-> 1, Year |-> 2]
ColorOf     == [ColorNone |-> None, ColorPink |-> 1, ColorRed |-> 2, ColorOrange |-> 3,
                ColorYellow |-> 4, ColorGreen |-> 5, ColorAqua |-> 6, ColorBlue |-> 7,
                ColorPurple |-> 8]

\* One item of from_menu_items: its text is argument 3, its number argument 1.
WithItem(meta, item) ==
    LET type   == TypeName(item)
        text   == ArgText(item, 3)
        number == Default(0, ArgNumber(item, 1))
    IN  CASE type = "TrackTitle" ->
               [meta EXCEPT !.title = text, !.artwork_id = Default(@, ArgNumber(item, 8))]
          [] type \in DOMAIN SearchableField ->
               [meta EXCEPT ![SearchableField[type]] = SearchableItem(number, text)]
          [] type \in DOMAIN TextField   -> [meta EXCEPT ![TextField[type]] = text]
          [] type \in DOMAIN NumberField ->
               [meta EXCEPT ![NumberField[type]] =
                   IF NumberWidth[type] = 4 THEN number ELSE number % 256 ^ NumberWidth[type]]
          [] type \in DOMAIN ColorOf     -> [meta EXCEPT !.color = ColorOf[type]]
          [] OTHER                       -> meta

\* from_menu_items
MetadataFrom(ref, items) == FoldLeft(WithItem, NewMetadata(ref), items)

\* ColorItem::color_name_for_id
ColorName(id) ==
    IF id \in 0..8
    THEN <<"No Color", "Pink", "Red", "Orange", "Yellow", "Green", "Aqua", "Blue", "Purple">>[id + 1]
    ELSE None

\* AlbumArt::format
Png == <<137, 80, 78, 71, 13, 10, 26, 10>>
ImageFormat(data) ==
    CASE IsPrefix(<<255, 216>>, data) -> "Jpeg"
      [] IsPrefix(Png, data)          -> "Png"
      [] OTHER                        -> "Unknown"

-----------------------------------------------------------------------------
\* Cues.

\* A loop stays a loop on a hot cue button.
CueType(isLoop, isHotCue) == IF isLoop THEN "Loop" ELSE IF isHotCue THEN "HotCue" ELSE "MemoryPoint"

CueEntry(hot, isLoop, position, end, comment, colorId, rgb) ==
    [cue_type       |-> CueType(isLoop, hot # 0),
     hot_cue_number |-> IF hot # 0 THEN hot ELSE None,
     position_ms    |-> position,
     loop_end_ms    |-> IF isLoop THEN end ELSE None,
     comment        |-> comment,
     color_id       |-> colorId,
     color_rgb      |-> rgb]

\* CueList::from_menu_items.  The button's number is cut to a byte.
CueFromItem(m) ==
    LET hot == Default(0, ArgNumber(m, 1))
        end == Default(0, ArgNumber(m, 4))
    IN  [CueEntry(hot, end # 0, Default(0, ArgNumber(m, 3)), end,
                  Unless(<<>>, ArgText(m, 5)), None, None)
           EXCEPT !.hot_cue_number = IF @ = None THEN None ELSE @ % 256]

CuesFromMenu(items) == [i \in DOMAIN items |-> CueFromItem(items[i])]

\* parse_nexus_entries: 36 bytes each, positions in half frames.
NexusEntrySize == 36

NexusEntry(data, o) ==
    LET isLoop == ByteOf(data, o) # 0
        hot    == ByteOf(data, o + 2)
    IN  IF ByteOf(data, o + 1) = 0 /\ hot = 0 THEN <<>>
        ELSE <<CueEntry(hot, isLoop, HalfFrameToTime(LittleAt(data, o + 12, 4)),
                        HalfFrameToTime(LittleAt(data, o + 16, 4)), None, None, None)>>

ParseNexusEntries(data) ==
    FlattenSeq([i \in 1..(Len(data) \div NexusEntrySize) |->
                   NexusEntry(data, NexusEntrySize * (i - 1))])

\* parse_nxs2_entries: each entry begins with its size.
CommentSizeOffset == \h48
CommentOffset     == \h4a
ColorOffset       == \h4e
MemoryColorOffset == \h22
Space == 32

Trim(text) ==
    LET kept == {i \in DOMAIN text : text[i] # Space}
    IN  IF kept = {} THEN <<>> ELSE SubSeq(text, MinOf(kept), MaxOf(kept))

CommentSize(data, o, size) ==
    IF size > CommentSizeOffset + 1 THEN LittleAt(data, o + CommentSizeOffset, 2) ELSE 0

\* The comment without its terminator; it must lie within the data.  A comment that is
\* no UTF-16 is an error.
Nxs2Comment(data, o, commentSize) ==
    LET text == [i \in 1..((commentSize - 2) \div 2) |->
                    LittleAt(data, o + CommentOffset + 2 * (i - 1), 2)]
    IN  CASE commentSize <= 2 \/ o + CommentOffset + commentSize - 2 > Len(data) -> None
          [] commentSize > 2 /\ o + CommentOffset + commentSize - 2 <= Len(data)
               -> IF ValidUtf16(text) THEN Unless(<<>>, Trim(text)) ELSE Failed

\* Fault: the length of the comment is left out.
SafelyFetchFixed(data, o, commentSize, i) ==
    IF o + ColorOffset + i < Len(data) THEN ByteOf(data, o + ColorOffset + i) ELSE 0

\* safely_fetch_byte for the color of a hot cue, which follows the comment.
SafelyFetch(data, o, commentSize, i) ==
    IF o + commentSize + ColorOffset + i < Len(data)
    THEN ByteOf(data, o + commentSize + ColorOffset + i) ELSE 0

Nxs2Entry(data, o, size) ==
    LET hot         == ByteOf(data, o + 4)
        flag        == ByteOf(data, o + 6)
        commentSize == CommentSize(data, o, size)
        color       == [i \in 0..3 |-> SafelyFetch(data, o, commentSize, i)]
        memoryColor == IF o + MemoryColorOffset < Len(data) THEN ByteOf(data, o + MemoryColorOffset)
                       ELSE 0
        comment     == Nxs2Comment(data, o, commentSize)
    IN  IF size < 20 \/ (flag = 0 /\ hot = 0) THEN <<>>
        ELSE IF comment = Failed THEN Failed
        ELSE <<CueEntry(hot, flag = 2, LittleAt(data, o + 12, 4), LittleAt(data, o + 16, 4),
                        comment,
                        Unless(0, IF hot # 0 THEN color[0] ELSE memoryColor),
                        IF hot # 0 THEN Unless(<<0, 0, 0>>, <<color[1], color[2], color[3]>>)
                        ELSE None)>>

\* An error of one entry is the error of the list.
ParseNxs2Entries(data) ==
    LET from[o \in 0..Len(data)] ==
          IF o + 4 > Len(data) THEN <<>>
          ELSE LET size == LittleAt(data, o, 4)
               IN  IF size = 0 \/ o + size > Len(data) THEN <<>>
                   ELSE IF Failed \in {Nxs2Entry(data, o, size), from[o + size]} THEN Failed
                   ELSE Nxs2Entry(data, o, size) \o from[o + size]
    IN  from[0]

\* Fault: of several entries as late, the first is taken.
EntryBeforeFirst(entries, position) ==
    LET before == {i \in DOMAIN entries : entries[i].position_ms <= position}
    IN  IF before = {} THEN None
        ELSE MinOf({i \in before : \A j \in before : entries[j].position_ms <= entries[i].position_ms})

\* entry_before and entry_after, as indices: max_by_key takes the last of several,
\* min_by_key the first.
EntryBefore(entries, position) ==
    LET before == {i \in DOMAIN entries : entries[i].position_ms < position}
    IN  IF before = {} THEN None
        ELSE MaxOf({i \in before : \A j \in before : entries[j].position_ms <= entries[i].position_ms})

EntryAfter(entries, position) ==
    LET after == {i \in DOMAIN entries : entries[i].position_ms >= position}
    IN  IF after = {} THEN None
        ELSE MinOf({i \in after : \A j \in after : entries[i].position_ms <= entries[j].position_ms})

\* hot_cues, memory_points, loops, and hot_cue.
OfType(entries, type) == SelectSeq(entries, LAMBDA e : e.cue_type = type)
HotCue(entries, number) ==
    LET found == {i \in DOMAIN entries : entries[i].hot_cue_number = number}
    IN  IF found = {} THEN None ELSE entries[MinOf(found)]

-----------------------------------------------------------------------------
\* Beat grids: a header of 20 bytes, entries of 16.  Tempos are in hundredths.

GridHeaderSize == 20
GridEntrySize  == 16

GridFrom(data) ==
    IF Len(data) < GridHeaderSize THEN Failed
    ELSE [i \in 1..((Len(data) - GridHeaderSize) \div GridEntrySize) |->
            LET o == GridHeaderSize + GridEntrySize * (i - 1)
            IN  [beat_within_bar |-> LittleAt(data, o, 2), tempo |-> LittleAt(data, o + 2, 2),
                 time_ms |-> LittleAt(data, o + 4, 4)]]

\* binary_search_by_key: any index of a match or, without one, where it would go.
Matches(grid, time)   == {i \in 0..(Len(grid) - 1) : ByteOf(grid, i).time_ms = time}
Insertion(grid, time) == Cardinality({i \in DOMAIN grid : grid[i].time_ms < time})

\* Fault: the beat at the insertion point is the one that is playing.
FindBeatAfter(grid, time) ==
    IF Matches(grid, time) # {} THEN Matches(grid, time)
    ELSE IF Insertion(grid, time) = Len(grid) THEN {} ELSE {Insertion(grid, time)}

\* find_beat_at_time and beat_at_time: the indices they may return.
FindBeatAtTime(grid, time) ==
    IF Matches(grid, time) # {} THEN Matches(grid, time)
    ELSE IF Insertion(grid, time) = 0 THEN {} ELSE {Insertion(grid, time) - 1}

BeatAtTime(grid, time) ==
    LET i == Insertion(grid, time)
    IN  CASE grid = <<>> -> {}
          [] grid # <<>> /\ Matches(grid, time) # {} -> Matches(grid, time)
          [] OTHER -> IF i = 0 THEN {0}
                      ELSE IF i = Len(grid) THEN {i - 1}
                      ELSE IF time - ByteOf(grid, i - 1).time_ms <= ByteOf(grid, i).time_ms - time
                      THEN {i - 1} ELSE {i}

\* bar_number of a beat: one more than the beats up to it that begin a bar.
BarNumber(grid, beat) ==
    1 + Cardinality({i \in 1..beat :
                       ByteOf(grid, i).beat_within_bar <= ByteOf(grid, i - 1).beat_within_bar})

\* Fault: the tempo is written in BPM.
RawTempoWhole(tempo) == tempo \div 100

\* raw_data: the product with 100.0 is cut off.
RawTempo(tempo) == IF tempo \in Inexact THEN tempo - 1 ELSE tempo

RawData(grid) ==
    [i \in 1..GridHeaderSize |-> 0]
    \o FlattenSeq([i \in DOMAIN grid |->
          Little(grid[i].beat_within_bar, 2) \o Little(RawTempo(grid[i].tempo), 2)
          \o Little(grid[i].time_ms, 4) \o [k \in 1..8 |-> 0]])

-----------------------------------------------------------------------------
\* Waveforms: WaveformPreview and WaveformDetail.

Skip == [preview |-> [Blue |-> 0,  Rgb |-> 28, ThreeBand |-> 28],
         detail  |-> [Blue |-> 19, Rgb |-> 28, ThreeBand |-> 28]]
SegmentBytes == [preview |-> [Blue |-> 2, Rgb |-> 6, ThreeBand |-> 3],
                 detail  |-> [Blue |-> 1, Rgb |-> 2, ThreeBand |-> 3]]

WaveformFrom(data, what, style) ==
    IF Len(data) < Skip[what][style] THEN Failed
    ELSE LET payload == Slice(data, Skip[what][style], Len(data))
         IN  [what |-> what, style |-> style, data |-> payload,
              count |-> Len(payload) \div SegmentBytes[what][style]]

\* The bytes of a segment that hold heights, in their low five bits or, for the
\* three bands, whole.
HeightAt == [preview |-> [Blue |-> {0}, Rgb |-> {0, 2, 4}, ThreeBand |-> {0, 1, 2}],
             detail  |-> [Blue |-> {0}, Rgb |-> {0, 1},    ThreeBand |-> {0, 1, 2}]]

\* Fault: the color bits are left in.
UnmaskedHeightOf(w, byte) == byte
HeightOf(w, byte) == IF w.style = "ThreeBand" THEN byte ELSE byte % 32

\* segment_height and frame_height
Height(w, i) ==
    IF i >= w.count THEN None
    ELSE MaxOf({HeightOf(w, ByteOf(w.data, i * SegmentBytes[w.what][w.style] + k)) :
                  k \in HeightAt[w.what][w.style]})

\* color_segment and color_frame
Color(w, i) ==
    LET at(k) == ByteOf(w.data, i * SegmentBytes[w.what][w.style] + k)
    IN  CASE i >= w.count \/ w.style = "Blue" -> None
          [] i < w.count /\ w.style = "ThreeBand" -> <<at(0), at(1), at(2)>>
          [] i < w.count /\ w.style = "Rgb" /\ w.what = "preview" -> <<at(1), at(3), at(5)>>
          [] OTHER -> <<((at(0) \div 32) * 255) \div 7, ((at(1) \div 32) * 255) \div 7, 0>>

\* max_height and total_time_ms
MaxHeight(w) == MaxOf({0} \union {Height(w, i) : i \in 0..(w.count - 1)})
TotalTimeMs(w) == (w.count * 1000) \div 150

-----------------------------------------------------------------------------
\* Analysis files and signatures.

\* Fault: the length of a tag's header is taken for the length of the tag.
TagHeaderLength(data, o) == BigAt(data, o + 4, 4)

TagLength(data, o) == BigAt(data, o + 8, 4)

\* parse_anlz_tags, each tag with its type (four bytes) and its data.
ParseAnlzTags(data) ==
    LET from[o \in 0..Len(data)] ==
          IF o + 12 > Len(data) \/ TagLength(data, o) = 0 \/ o + TagLength(data, o) > Len(data)
          THEN <<>>
          ELSE <<[tag_type |-> Slice(data, o, o + 4),
                  data     |-> Slice(data, o, o + TagLength(data, o))]>>
               \o from[o + TagLength(data, o)]
    IN  IF Len(data) < 8 \/ BigAt(data, 4, 4) > Len(data) THEN <<>> ELSE from[BigAt(data, 4, 4)]

\* TrackSignature::compute: the bytes that are hashed.  duration is its digits.
Digits(n) == LET of[k \in 0..n] == IF k < 10 THEN <<48 + k>> ELSE of[k \div 10] \o <<48 + (k % 10)>>
             IN  of[n]

SignatureOf(meta, waveform, grid) ==
    meta.title \o meta.artist.label \o Digits(meta.duration)
    \o (IF waveform = None THEN <<>> ELSE waveform.data)
    \o (IF grid = None THEN <<>> ELSE RawData(grid))
=============================================================================
