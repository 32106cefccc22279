----------------------------- MODULE MCHandoff -----------------------------
(* Handoff with two devices and a few calls of the applications.   *)
EXTENDS HandoffRole, TLC

CONSTANTS d1, d2

TwoDevices == {d1, d2}

Symmetry2 == Permutations(TwoDevices)

Calls4(f, y, r, a) == [m \in Method |-> CASE m = "force"   -> f
                                          [] m = "yield"   -> y
                                          [] m = "request" -> r
                                          [] m = "auto"    -> a]
OneClaimOneRequest  == Calls4(1, 0, 1, 0)
OneClaimTwoRequests == Calls4(1, 0, 2, 0)
EveryCall           == Calls4(1, 1, 2, 1)
=============================================================================
