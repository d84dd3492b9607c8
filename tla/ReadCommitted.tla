---------------------------- MODULE ReadCommitted ----------------------------
(***************************************************************************)
(* The PostgreSQL transactions behind bserv::db_transaction, at the        *)
(* isolation level the program leaves them at, READ COMMITTED.  This is    *)
(* not code of the repository: it is modelled from how src/WebApp uses it. *)
(*                                                                         *)
(* A statement sees the rows committed when it runs, overlaid with what    *)
(* its own transaction wrote.  A write locks its row until the transaction *)
(* ends; another writer waits for that, and then works on the row as       *)
(* committed.  A reader never waits.                                       *)
(***************************************************************************)
CONSTANTS Worker,  \* the threads of the server, one request and one connection each
          Table    \* the names of the tables

VARIABLES db,      \* the committed rows: db[table][key]
          writes   \* the uncommitted ones of each transaction: writes[worker][table][key]

NoRows == [k \in {} |-> 0]
NoWrites == [t \in Table |-> NoRows]

\* The rows of g, with those of f before them.
Over(f, g) == [k \in DOMAIN f \cup DOMAIN g |-> IF k \in DOMAIN f THEN f[k] ELSE g[k]]

\* Table t as a statement of w sees it.
View(w, t) == Over(writes[w][t], db[t])

\* No other transaction has written the row and not ended.
Unlocked(w, t, k) == \A v \in Worker \ {w} : k \notin DOMAIN writes[v][t]

Begun == writes = [w \in Worker |-> NoWrites]

\* update ... where <key>, and insert.
Write(w, t, k, row) ==
  /\ Unlocked(w, t, k)
  /\ writes' = [writes EXCEPT ![w][t] = Over([j \in {k} |-> row], @)]
  /\ UNCHANGED db

Commit(w) == /\ db' = [t \in Table |-> View(w, t)]
             /\ writes' = [writes EXCEPT ![w] = NoWrites]

Rollback(w) == /\ writes' = [writes EXCEPT ![w] = NoWrites]
               /\ UNCHANGED db
=============================================================================
