----------------------------- MODULE HttpServer -----------------------------
(***************************************************************************)
(* The listener, the sessions of its connections and the threads that run  *)
(* them (bserv/bserv.cpp), with the pool that handlers take a database     *)
(* connection from.  A callback runs to its end on one thread and is an    *)
(* action; a handler occupies its thread while it waits for the pool and   *)
(* while it works.                                                         *)
(*                                                                         *)
(* What a handler does is left to other modules.  An exception in it       *)
(* becomes an answer like any other (bserv.cpp:82-96).                     *)
(***************************************************************************)
EXTENDS Naturals, Sequences, FiniteSets

CONSTANTS Peer,         \* the TCP connections that clients may make
          NumThreads,   \* the threads that a configuration may ask for, at most
          DbConnection, \* the connections of the pool
          NoConnection, \* not one of them
          MaxRequests   \* bound: requests that each client sends on its connection

ASSUME NumThreadsAssumption == NumThreads \in Nat \ {0}
ASSUME PoolAssumption == NoConnection \notin DbConnection
ASSUME MaxRequestsAssumption == MaxRequests \in [Peer -> Nat]

VARIABLES threads,  \* the threads that run the io_context
          server,   \* "up", "stopping" or "down"
          peer,     \* what each client does: "open", "shut", "gone"
          wire,     \* the requests it has sent
          work,     \* what its session has under way: I/O, callbacks, handlers
          expired,  \* whether the timer of its stream has run out
          response, \* the request whose answer res_ keeps alive, 0 for none
          served,   \* the requests that handlers have been run for
          replies,  \* the requests whose answers have reached the client
          available, waiting, holds  \* the pool

client == <<peer, wire>>
session == <<work, expired, response, served, replies>>
pool == <<available, waiting, holds>>
vars == <<threads, server, client, session, pool>>

Pool == INSTANCE BoundedPool WITH Request <- Peer, Connection <- DbConnection

\* "close" stands for whatever makes the answer one that needs the end of the connection.
Request == {"keep", "close", "upgrade"}

\* An accepted connection has one thing under way: an operation on the socket ("reading",
\* "writing"), a coroutine ("handle" when it is ready to run, "running" when
\* it has a thread) or a websocket ("socket"); [n] is the number of the request.
Label == {"backlog", "reading", "handle", "running", "writing", "socket"}
Work(c) == [at : Label, n : 0 .. MaxRequests[c] + 1]

At(c, label) == {w \in work[c] : w.at = label}
Running == {c \in Peer : At(c, "running") # {}}

\* A thread is free to run a callback, or to start a handler.
Free == server = "up" /\ Cardinality(Running) < threads

TypeOK ==
  /\ threads \in 1 .. NumThreads
  /\ server \in {"up", "stopping", "down"}
  /\ peer \in [Peer -> {"open", "shut", "gone"}]
  /\ \A c \in Peer : wire[c] \in Seq(Request) /\ Len(wire[c]) <= MaxRequests[c]
  /\ \A c \in Peer : work[c] \subseteq Work(c)
  /\ expired \in [Peer -> BOOLEAN]
  /\ response \in [Peer -> Nat]
  /\ served \in [Peer -> Nat]
  /\ \A c \in Peer : replies[c] \in Seq(Nat)
  /\ available \subseteq DbConnection
  /\ waiting \subseteq Running
  /\ holds \in [Peer -> DbConnection \cup {NoConnection}]

-----------------------------------------------------------------------------
Init ==
  /\ threads \in 1 .. NumThreads
  /\ server = "up"
  /\ peer = [c \in Peer |-> "open"]
  /\ wire = [c \in Peer |-> <<>>]
  /\ work = [c \in Peer |-> {[at |-> "backlog", n |-> 0]}]
  /\ expired = [c \in Peer |-> FALSE]
  /\ response = [c \in Peer |-> 0]
  /\ served = [c \in Peer |-> 0]
  /\ replies = [c \in Peer |-> <<>>]
  /\ Pool!Init

-----------------------------------------------------------------------------
(* Clients.  They may send before they are answered, stop sending while    *)
(* they still listen, or be gone at any time.  What they do once the       *)
(* session has ended is nobody's concern.                                  *)

Ask(c, r) == /\ work[c] # {}
             /\ peer[c] = "open"
             /\ Len(wire[c]) < MaxRequests[c]
             /\ wire' = [wire EXCEPT ![c] = Append(@, r)]
             /\ UNCHANGED <<threads, server, peer, session, pool>>

Shut(c) == /\ work[c] # {}
           /\ peer[c] = "open"
           /\ peer' = [peer EXCEPT ![c] = "shut"]
           /\ UNCHANGED <<threads, server, wire, session, pool>>

Leave(c) == /\ work[c] # {}
            /\ peer[c] \in {"open", "shut"}
            /\ peer' = [peer EXCEPT ![c] = "gone"]
            /\ UNCHANGED <<threads, server, wire, session, pool>>

-----------------------------------------------------------------------------
(* Sessions *)

\* w is done, and what follows it is under way.  Nothing follows when the session ends.
Becomes(c, w, next) == work' = [work EXCEPT ![c] = (@ \ {w}) \cup next]

\* Request n is read, which restarts the timer.
do_read(c, w, n) == /\ Becomes(c, w, {[at |-> "reading", n |-> n]})
                    /\ expired' = [expired EXCEPT ![c] = FALSE]

\* The end of a session that has got all it was promised.
do_close(c, w) == Becomes(c, w, {}) /\ UNCHANGED expired

listener_on_accept(c) ==
  /\ Free
  /\ \E w \in At(c, "backlog") : do_read(c, w, 1)
  /\ UNCHANGED <<threads, server, client, response, served, replies, pool>>

\* Faulty: the next request is read while this one is handled.
OnReadReadsOn(c) ==
  /\ Free
  /\ \E w \in At(c, "reading") :
       /\ w.n <= Len(wire[c])
       /\ Becomes(c, w, {[at |-> "handle", n |-> w.n], [at |-> "reading", n |-> w.n + 1]})
  /\ UNCHANGED <<threads, server, client, expired, response, served, replies, pool>>

\* A request has come: a coroutine is spawned for it, or the socket handed to a websocket.
on_read(c) ==
  /\ Free
  /\ \E w \in At(c, "reading") :
       /\ w.n <= Len(wire[c])
       /\ LET label == IF wire[c][w.n] = "upgrade" THEN "socket" ELSE "handle"
          IN Becomes(c, w, {[at |-> label, n |-> w.n]})
  /\ UNCHANGED <<threads, server, client, expired, response, served, replies, pool>>

\* The client has said that it sends no more, has gone, or has taken too long, or what it has
\* sent cannot be parsed or is longer than PAYLOAD_LIMIT: the session ends.  A client that is
\* gone may take with it what it has sent.
ReadFails(c, n) == \/ n <= Len(wire[c])
                   \/ peer[c] = "shut"
                   \/ peer[c] = "gone"
                   \/ expired[c]

\* Faulty: no timeout.
OnReadErrorWaits(c) ==
  /\ Free
  /\ peer[c] \in {"shut", "gone"}
  /\ \E w \in At(c, "reading") : ReadFails(c, w.n) /\ Becomes(c, w, {})
  /\ UNCHANGED <<threads, server, client, expired, response, served, replies, pool>>

on_read_error(c) ==
  /\ Free
  /\ \E w \in At(c, "reading") : ReadFails(c, w.n) /\ do_close(c, w)
  /\ UNCHANGED <<threads, server, client, response, served, replies, pool>>

\* 30 seconds after do_read.  The timer runs on while the request is handled.
Expire(c) ==
  /\ \E w \in work[c] : w.at \notin {"backlog", "socket"}
  /\ ~expired[c]
  /\ expired' = [expired EXCEPT ![c] = TRUE]
  /\ UNCHANGED <<threads, server, client, work, response, served, replies, pool>>

-----------------------------------------------------------------------------
(* Handlers *)

\* The path of the request is matched and the parameters of its handler evaluated; one of
\* them may be a database connection.
handle_http_request(c) ==
  /\ Free
  /\ \E w \in At(c, "handle") : Becomes(c, w, {[at |-> "running", n |-> w.n]})
  /\ Pool!Call(c) \/ UNCHANGED pool
  /\ UNCHANGED <<threads, server, client, expired, response, served, replies>>

get_or_block(c) == /\ Pool!Grant(c)
                   /\ UNCHANGED <<threads, server, client, session>>

\* Faulty: a connection whose handler has failed is not put back.
Lose(c) == \/ IF holds[c] = NoConnection THEN UNCHANGED pool ELSE Pool!PutBack(c)
           \/ holds' = [holds EXCEPT ![c] = NoConnection] /\ UNCHANGED <<available, waiting>>

Release(c) == IF holds[c] = NoConnection THEN UNCHANGED pool ELSE Pool!PutBack(c)

\* Faulty: the handler runs without the connection that it waits for.
ServeUnblocked(c) ==
  /\ \E w \in At(c, "running") :
       /\ served' = [served EXCEPT ![c] = w.n]
       /\ response' = [response EXCEPT ![c] = w.n]
       /\ Becomes(c, w, {[at |-> "writing", n |-> w.n]})
  /\ Release(c)
  /\ UNCHANGED <<threads, server, client, expired, replies>>

\* Faulty: an exception leaves the coroutine.
ServeMayThrow(c) ==
  /\ c \notin waiting
  /\ \E w \in At(c, "running") :
       /\ served' = [served EXCEPT ![c] = w.n]
       /\ \/ /\ response' = [response EXCEPT ![c] = w.n]
             /\ Becomes(c, w, {[at |-> "writing", n |-> w.n]})
          \/ Becomes(c, w, {}) /\ UNCHANGED response
  /\ Release(c)
  /\ UNCHANGED <<threads, server, client, expired, replies>>

\* res_ keeps the answer, and it is written.
send(c, w) == /\ response' = [response EXCEPT ![c] = w.n]
              /\ Becomes(c, w, {[at |-> "writing", n |-> w.n]})

\* The handler is done, its parameters are destroyed and its answer is written.
Serve(c) ==
  /\ c \notin waiting
  /\ \E w \in At(c, "running") :
       /\ served' = [served EXCEPT ![c] = w.n]
       /\ send(c, w)
  /\ Release(c)
  /\ UNCHANGED <<threads, server, client, expired, replies>>

\* Faulty: the connection is kept whatever the client has asked for.
OnWriteReadsOn(c) ==
  /\ Free
  /\ \E w \in At(c, "writing") : /\ replies' = [replies EXCEPT ![c] = Append(@, w.n)]
                                 /\ do_read(c, w, w.n + 1)
  /\ response' = [response EXCEPT ![c] = 0]
  /\ UNCHANGED <<threads, server, client, served, pool>>

on_write(c) ==
  /\ Free
  /\ \E w \in At(c, "writing") :
       /\ replies' = [replies EXCEPT ![c] = Append(@, w.n)]
       /\ IF wire[c][w.n] = "close" THEN do_close(c, w) ELSE do_read(c, w, w.n + 1)
  /\ response' = [response EXCEPT ![c] = 0]
  /\ UNCHANGED <<threads, server, client, served, pool>>

\* When the time is up, or was before the write began, it may fail or still succeed.
on_write_error(c) ==
  /\ Free
  /\ expired[c] \/ peer[c] = "gone"
  /\ \E w \in At(c, "writing") : Becomes(c, w, {})
  /\ response' = [response EXCEPT ![c] = 0]
  /\ UNCHANGED <<threads, server, client, expired, served, replies, pool>>

\* The coroutine of a websocket ends when its client closes it.
handle_websocket_request(c) ==
  /\ Free
  /\ peer[c] \in {"shut", "gone"}
  /\ \E w \in At(c, "socket") : Becomes(c, w, {})
  /\ UNCHANGED <<threads, server, client, expired, response, served, replies, pool>>

-----------------------------------------------------------------------------
(* The server *)

\* SIGINT or SIGTERM: callbacks that run are finished, no other is begun.
Stop == /\ server = "up"
        /\ server' = "stopping"
        /\ UNCHANGED <<threads, client, session, pool>>

Terminate == /\ server' = "down"
             /\ work' = [c \in Peer |-> {}]
             /\ response' = [c \in Peer |-> 0]
             /\ available' = DbConnection
             /\ waiting' = {}
             /\ holds' = [c \in Peer |-> NoConnection]
             /\ UNCHANGED <<threads, client, expired, served, replies>>

Exit == /\ server = "stopping"
        /\ Running = {}
        /\ Terminate

\* get_address asks a socket for its remote end, when it is accepted and again when it is
\* handed to a websocket, and throws when the client is gone already, in a callback, where
\* nothing catches: the program terminates.
get_address(c) == /\ Free
                  /\ \/ At(c, "backlog") # {}
                     \/ \E w \in At(c, "reading") :
                          w.n <= Len(wire[c]) /\ wire[c][w.n] = "upgrade"
                  /\ peer[c] = "gone"
                  /\ Terminate

-----------------------------------------------------------------------------
Client(c) == (\E r \in Request : Ask(c, r)) \/ Shut(c) \/ Leave(c)

Session(c) == \/ listener_on_accept(c) \/ on_read(c) \/ on_read_error(c)
              \/ handle_http_request(c) \/ get_or_block(c) \/ Serve(c)
              \/ on_write(c) \/ on_write_error(c)

Next == \/ \E c \in Peer : \/ Client(c) \/ Session(c) \/ Expire(c)
                           \/ handle_websocket_request(c) \/ get_address(c)
        \/ Stop
        \/ Exit

Spec == Init /\ [][Next]_vars

\* The threads go on running what is ready, handlers end and time passes.  With the finitely
\* many requests of an instance this reaches every session.
FairSpec == Spec /\ WF_vars(Exit \/ \E c \in Peer : Session(c) \/ Expire(c))

-----------------------------------------------------------------------------
\* A session has one thing under way, so that no two threads work on it, and res_ keeps the
\* answer alive for exactly as long as it is being written.
OneThingAtATime ==
  \A c \in Peer : /\ Cardinality(work[c]) <= 1
                  /\ \A w \in work[c] :
                       response[c] = IF w.at = "writing" THEN w.n ELSE 0

\* A client that is still there and whose request was served in time gets its answer: only
\* the timer (which counts the time of the handler), a client that is gone or the end of the
\* server leaves a request that has had its effect without one.
LostAnswersAreExplained ==
  \A c \in Peer : work[c] = {} /\ Len(replies[c]) < served[c] =>
                    expired[c] \/ peer[c] = "gone" \/ server # "up"

\* With as many connections as threads no thread ever waits for the pool, and with fewer at
\* most the difference do: handlers return their connection whatever becomes of the answer.
ThreadsWaitInTurn ==
  available = {} => Cardinality(waiting) + Cardinality(DbConnection) <= threads

\* No session lasts for ever, even if its client says nothing more, the pool is empty or the
\* server is told to stop meanwhile: it ends, unless it has become a websocket.
SessionsEnd == \A c \in Peer : work[c] # {} ~> work[c] = {} \/ At(c, "socket") # {}

\* HTTP's promise to each client.
Conversation == INSTANCE Dialogue
ImplementsDialogue == Conversation!Spec
=============================================================================
