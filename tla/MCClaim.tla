------------------------------ MODULE MCClaim ------------------------------
(* Claim with a few hosts and numbers.                                      *)
EXTENDS Claim, TLC

CONSTANTS h1, h2, h3

TwoHosts == {h1, h2}
ThreeHosts == {h1, h2, h3}
=============================================================================
