---------------------------- MODULE MCHttpServer ----------------------------
(***************************************************************************)
(* Two connections, one or two threads and one database connection, for    *)
(* which two threads compete; two requests in a row on one connection.     *)
(***************************************************************************)
EXTENDS HttpServer

CONSTANTS p1, p2, db1

MCPeer == {p1, p2}
MCMaxRequests == [c \in MCPeer |-> IF c = p1 THEN 2 ELSE 1]
MCDbConnection == {db1}
=============================================================================
