---------------------------- MODULE BoundedPool ----------------------------
(***************************************************************************)
(* What bserv's connection pool promises its callers, in the words of      *)
(* bserv/include/bserv/database.hpp:103-105: get_or_block() blocks while   *)
(* no connection is available and otherwise returns one, and a             *)
(* db_connection puts itself back when it is destroyed.                    *)
(*                                                                         *)
(* Locks, the order of the queue and the steps of the two functions are    *)
(* all absent: ConnectionPool has them and implements this module.         *)
(***************************************************************************)
CONSTANTS Request,      \* the requests that may be in flight
          Connection,   \* the connections the constructor opened
          NoConnection  \* "this request holds no connection"

VARIABLES available,    \* the connections nobody holds
          waiting,      \* the requests inside get_or_block()
          holds         \* the connection each request holds

vars == <<available, waiting, holds>>

Init == /\ available = Connection
        /\ waiting = {}
        /\ holds = [r \in Request |-> NoConnection]

\* A request that holds nothing calls get_or_block().
Call(r) == /\ r \notin waiting
           /\ holds[r] = NoConnection
           /\ waiting' = waiting \cup {r}
           /\ UNCHANGED <<available, holds>>

\* The pool hands an available connection to a waiting request.
Grant(r) == /\ r \in waiting
            /\ \E c \in available :
                 /\ available' = available \ {c}
                 /\ holds' = [holds EXCEPT ![r] = c]
            /\ waiting' = waiting \ {r}

\* The db_connection of a request is destroyed.
PutBack(r) == /\ holds[r] # NoConnection
              /\ available' = available \cup {holds[r]}
              /\ holds' = [holds EXCEPT ![r] = NoConnection]
              /\ UNCHANGED waiting

Next == \E r \in Request : Call(r) \/ Grant(r) \/ PutBack(r)

Spec == Init /\ [][Next]_vars

\* Blocking ends: connections do not sit idle beside requests that wait.  Which
\* waiting request is served is left open, as std::mutex leaves it open.
FairSpec == Spec /\ WF_vars(\E r \in Request : Grant(r))
=============================================================================
