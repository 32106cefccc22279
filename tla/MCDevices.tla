----------------------------- MODULE MCDevices -----------------------------
(***************************************************************************)
(* Devices for TLC: a player with number 1 and an Opus Quad that stands    *)
(* for the players 1 and 2.                                                *)
(***************************************************************************)
EXTENDS Devices

CONSTANTS player, opus

Sources   == {player, opus}
Quads     == {opus}
Numbers   == [s \in Sources |-> IF s = player THEN 1 ELSE 9]
OpusPlays == {1, 2}
=============================================================================
