----------------------------- MODULE MCAccounts -----------------------------
(***************************************************************************)
(* Two workers; a manager and somebody who is not registered yet, who may  *)
(* both log into either of two sessions.                                   *)
(***************************************************************************)
EXTENDS Accounts, TLC

CONSTANTS w1, w2, u1, u2, s1, s2

MCWorker == {w1, w2}
MCUser == {u1, u2}
MCFounder == [u \in {u1} |-> "manager"]
MCSession == {s1, s2}
MCRoal == {"", "user", "manager"}
MCSymmetry == Permutations(MCWorker) \cup Permutations(MCSession)
=============================================================================
