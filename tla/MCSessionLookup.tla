--------------------------- MODULE MCSessionLookup ---------------------------
(***************************************************************************)
(* Two browsers that send a few requests in all, over a clock in which     *)
(* sessions end while others live.                                         *)
(***************************************************************************)
EXTENDS SessionLookup, TLC

CONSTANTS b1, b2, r1, r2, r3, k1, k2, k3, foreign

MCBrowser == {b1, b2}
MCRequest == {r1, r2, r3}
MCKey == {k1, k2, k3, foreign}
MCSymmetry == Permutations(MCBrowser) \cup Permutations(MCRequest)
                \cup Permutations({k1, k2, k3}) \cup Permutations(IntKey)
=============================================================================
