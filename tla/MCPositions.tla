---------------------------- MODULE MCPositions ----------------------------
(***************************************************************************)
(* Positions for TLC: players at normal speed, at double speed and at the  *)
(* lower end of the slider, with and without precise positions and beat    *)
(* numbers.                                                                *)
(***************************************************************************)
EXTENDS Positions

Speeds == {0, 1, 2}
=============================================================================
