-------------------------- MODULE MCConnectionPool --------------------------
(***************************************************************************)
(* More requests than connections, so that the pool runs empty with        *)
(* several requests blocked and several connections on their way back.     *)
(***************************************************************************)
EXTENDS ConnectionPool

CONSTANTS r1, r2, r3, r4

MCRequest == {r1, r2, r3, r4}
=============================================================================
