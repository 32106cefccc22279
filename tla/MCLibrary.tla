----------------------------- MODULE MCLibrary -----------------------------
(* A library of four tracks that differ in what menus filter by, browsed     *)
(* with one or two calls on a connection.  Some characters take two code     *)
(* units, and the texts of one track were cut within such a character.       *)
EXTENDS Library

Names == {"name", "prodjlink-rs", "OPUS-QUAD", "XDJ-XZ"}
CutNames == [n \in Names |-> n]
OpusNames == {"OPUS-QUAD"}
Xz == {"XDJ-XZ"}

FirstOf == {"Genre", "Label", "OriginalArtist", "Key", "History", "Decade", "Time", "Folder", "Rating"}
Attributes == FirstOf \union {"Artist", "Album", "Remixer", "Bpm", "Color", "BitRate", "Filename",
                              "Year", "Playlist"}

Beat(n, tempo, ms) == [beat_within_bar |-> n, tempo |-> tempo, time_ms |-> ms]
Cue(hot, at, end, comment, code, rgb) ==
    [hot |-> hot, at |-> at, end |-> end, comment |-> comment, code |-> code, rgb |-> rgb]
Bar(height, color) == [height |-> height, color |-> color]

Smile == <<55357, 56842>>
CutSmile == <<65, 55357>>

\* A mixed track: a grid that begins within a bar, all kinds of cues, two of them at one position.
First ==
    [slot |-> <<"UsbSlot">>, id |-> 1, title |-> <<65, 300>>, comment |-> Smile,
     date_added |-> <<50, 48>>, artwork |-> 7, duration |-> 300, tempo |-> 12805, rating |-> 5,
     color |-> "ColorGreen", year |-> 2024, bit_rate |-> 320, attr |-> [a \in Attributes |-> 1],
     grid |-> <<Beat(3, 8007, 100), Beat(4, 8007, 600), Beat(1, 12800, 1100), Beat(2, 12800, 1569)>>,
     cues |-> <<Cue(0, 150, None, <<>>, 3, <<0, 0, 0>>), Cue(2, 75, 225, <<72>>, 0, <<0, 0, 0>>),
                Cue(1, 150, None, <<330>> \o Smile, 42, <<230, 40, 40>>)>>,
     wave |-> <<Bar(31, 7), Bar(0, 0), Bar(9, 3)>>]

\* An empty one, slower, and a track of another slot with the same number.
Second ==
    [First EXCEPT !.id = 300, !.title = <<65, 65>>, !.comment = <<>>, !.artwork = 0, !.tempo = 9000,
                  !.color = "ColorNone", !.attr = [a \in Attributes |-> IF a \in FirstOf THEN 1 ELSE 2],
                  !.grid = <<>>, !.cues = <<>>, !.wave = <<>>]
Third ==
    [Second EXCEPT !.slot = <<"SdSlot">>, !.id = 1, !.attr = [a \in Attributes |-> IF a \in FirstOf THEN 2 ELSE 1],
                   !.wave = <<Bar(4, 1)>>, !.grid = <<Beat(1, 9000, 0)>>]

\* One whose texts are no UTF-16, next to the third; two of its beats are at one time.
Fourth ==
    [Third EXCEPT !.id = 300, !.title = CutSmile, !.tempo = 9100, !.attr = [a \in Attributes |-> 3],
                  !.grid = <<Beat(1, 9000, 100), Beat(2, 9000, 100), Beat(3, 9000, 600)>>,
                  !.cues = <<Cue(1, 150, None, <<67>>, 0, <<0, 0, 0>>),
                             Cue(0, 75, None, CutSmile, 0, <<0, 0, 0>>)>>]

Tracks  == {First, Second, Third, Fourth}
Artwork == 7 :> <<255, 216, 1>>
Tag(type, content) == [tag_type |-> <<80, 65, 65, type>>, content |-> content]
TagFiles == {<<>>, <<Tag(1, <<1, 2, 3>>)>>, <<Tag(1, <<>>), Tag(2, <<0, 0, 0, 0, 0, 0, 0, 12, 0>>), Tag(3, <<9>>)>>}
Data(n)  == [i \in 1..n |-> (i * 67) % 256]
BlobSet  == {Data(n) : n \in {0, 19, 28, 30, 34, 41}}
TimeSet  == {0, 100, 350, 600, 1000, 1334, 2000}
TwoIds   == {1, 2}
AskedIds == {1, 7, 300}
Texts    == {<<65>>, <<65, 300>>}
TwoSlots == {<<"UsbSlot">>, <<"SdSlot">>}
TwoSorts == {"Default", "Bpm"}
Sizes    == {3}
InexactTempos == {8007}
=============================================================================
