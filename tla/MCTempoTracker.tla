--------------------------- MODULE MCTempoTracker ---------------------------
(* TempoTracker with us and two players, no tempo and two tempos.           *)
EXTENDS TempoTracker

CONSTANTS us, p1, p2

MCDevice == {us, p1, p2}
MCTempo == {0, 1, 2}
MCTask == {"status", "beat", "app"}
=============================================================================
