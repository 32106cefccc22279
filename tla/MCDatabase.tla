----------------------------- MODULE MCDatabase -----------------------------
(* Database with one or two callers of a player.                            *)
EXTENDS Database, TLC

CONSTANTS c1, c2, p1

OneCaller == {c1}
TwoCallers == {c1, c2}
OnePlayer == {p1}
=============================================================================
