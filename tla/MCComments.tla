----------------------------- MODULE MCComments -----------------------------
(***************************************************************************)
(* Two workers; a user and a manager who comment on two movies.            *)
(***************************************************************************)
EXTENDS Comments, TLC

CONSTANTS w1, w2, u1, u2, m1, m2

MCWorker == {w1, w2}
MCUser == {u1, u2}
MCManager == {u2}
MCMovie == {m1, m2}
MCSymmetry == Permutations(MCWorker) \cup Permutations(MCMovie)
MCTable == {"comments", "movies"}
=============================================================================
