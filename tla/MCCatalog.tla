----------------------------- MODULE MCCatalog -----------------------------
(***************************************************************************)
(* Two workers and two names, and a database that is empty to start with   *)
(* and is given up to four movies, rooms and screenings in any mixture.    *)
(* Beside them, the pages on which movies, users and rooms are listed, for *)
(* lists of up to twelve pages.                                            *)
(***************************************************************************)
EXTENDS Catalog, Pagination, TLC

CONSTANTS w1, w2, a, b

MCWorker == {w1, w2}
MCTable == {"movies", "screening_rooms", "screenings", "seats"}
MCName == {a, b}
MCCapacity == {0, 2}
MCRooms == NoRows
MCMovies == NoRows
MCSymmetry == Permutations(MCWorker) \cup Permutations(MCName)

\* TLC evaluates the properties of pages, which have no state.
ASSUME PagesAreRight == PagesCoverRows /\ WindowIsRight
=============================================================================
