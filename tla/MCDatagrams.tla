---------------------------- MODULE MCDatagrams ----------------------------
(***************************************************************************)
(* Datagrams for TLC: a virtual CDJ with number 5, a player, a mixer and   *)
(* an Opus Quad, and every size of status packet the players have, besides *)
(* one that is too short.                                                  *)
(***************************************************************************)
EXTENDS Datagrams

LongName == "a name of more than twenty bytes"
Names    == {"prodjlink-rs", "OPUS-QUAD", "XDJ-XZ", "XDJ-AZ", LongName, "a name of more than "}
CutNames == [n \in Names |-> IF n = LongName THEN "a name of more than " ELSE n]
OwnNames == {"prodjlink-rs", LongName}
XdjPair  == {"XDJ-XZ", "XDJ-AZ"}
Opus     == {"OPUS-QUAD"}

Address    == <<192, 168, 1, 5>>
MacAddress == <<2, 0, 0, 0, 0, 5>>

\* 64.07 * 100.0 is 6406.999..., 128.00 * 100.0 is 12800.
Tempos     == {6407, 12800}
InexactBpm == {6407}

PacketSizes == {\hc0, \hcc, \hd0, \hd4, \h124, \h200}
OpusNumbers == {9, 12, 17, 20}

\* The statuses, of which the cache keeps the latest, and the media that are compared.
MixedStreams == {"status", "media"}
=============================================================================
