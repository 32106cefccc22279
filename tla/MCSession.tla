----------------------------- MODULE MCSession -----------------------------
(* Session with two callers and three broadcast loops.                      *)
EXTENDS Session

CONSTANTS c1, c2, l1, l2, l3

TwoCallers == {c1, c2}
ThreeLoops == {l1, l2, l3}
=============================================================================
