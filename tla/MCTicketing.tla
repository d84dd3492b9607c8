----------------------------- MODULE MCTicketing -----------------------------
(***************************************************************************)
(* Two workers, two users and one screening whose price may change.        *)
(***************************************************************************)
EXTENDS Ticketing, TLC

CONSTANTS w1, w2, u1, u2, s1, scr, mov

MCWorker == {w1, w2}
MCUser == {u1, u2}
MCSeat == {s1}
MCScreening == {scr}
MCMovie == {mov}
MCScreeningOf == [s \in Seat |-> scr]
MCMovieOf == [c \in Screening |-> mov]
MCTable == {"auth_user", "seats", "tickets", "movies", "screenings"}
MCFund == {2, -2}
MCSymmetry == Permutations(MCWorker) \cup Permutations(MCUser)
=============================================================================
