------------------------- MODULE HttpServer_proofs -------------------------
(***************************************************************************)
(* Proofs about requests from the socket to the handler: about HttpServer, *)
(* for any number of clients, requests, threads and database connections;  *)
(* and about Router, with Params and Statement, for any requests, numbers  *)
(* and odd names: the routes, the statement, the parameters.               *)
(***************************************************************************)
EXTENDS HttpServer, Router, Sums_proofs, FiniteSetTheorems, FunctionTheorems, TLAPS

\* The one thing a session has under way, and what it says of the requests that were
\* served and answered.
Sole(c, w) ==
  /\ work[c] = {w}
  /\ w.at = "backlog" => w.n = 0 /\ served[c] = 0
  /\ w.at \in {"reading", "handle", "running", "socket"} => w.n = served[c] + 1
  /\ w.at = "writing" => w.n = served[c] /\ w.n # 0
  /\ w.at \in {"handle", "running", "writing"} =>
       w.n <= Len(wire[c]) /\ wire[c][w.n] # "upgrade"
  /\ Len(replies[c]) = IF w.at = "writing" THEN w.n - 1 ELSE served[c]
  /\ response[c] = IF w.at = "writing" THEN w.n ELSE 0
  /\ \A n \in 1 .. Len(replies[c]) : wire[c][n] = "keep"

Ended(c) == work[c] = {} /\ Len(replies[c]) < served[c] =>
              expired[c] \/ peer[c] = "gone" \/ server # "up"

PeerInv(c) == (\A w \in work[c] : Sole(c, w)) /\ served[c] <= Len(wire[c]) /\ Ended(c)

\* A connection that is not in the pool is with a handler, and those run on a thread each.
PoolInv == /\ \A c \in Peer : holds[c] # NoConnection => c \in Running /\ c \notin waiting
           /\ \A x \in DbConnection \ available : \E c \in Peer : holds[c] = x
           /\ IsFiniteSet(Running) /\ Cardinality(Running) <= threads

Domains == DOMAIN wire = Peer /\ DOMAIN work = Peer /\ DOMAIN replies = Peer

\* The inductive invariant.
HInv == TypeOK /\ Domains /\ PoolInv /\ \A c \in Peer : PeerInv(c)

-----------------------------------------------------------------------------
LEMMA SeqFacts ==
  ASSUME NEW S, NEW q \in Seq(S), NEW e \in S
  PROVE  /\ Append(q, e) \in Seq(S) /\ Len(Append(q, e)) = Len(q) + 1 /\ Len(q) \in Nat
         /\ \A i \in 1 .. Len(q) : Append(q, e)[i] = q[i]
         /\ Append(q, e)[Len(q) + 1] = e
  OBVIOUS

LEMMA InitHInv == Init => HInv
  <1> SUFFICES ASSUME Init PROVE HInv
    OBVIOUS
  <1> USE NumThreadsAssumption, PoolAssumption, MaxRequestsAssumption DEF Init, Pool!Init
  <1>1. Running = {}
    BY DEF Running, At
  <1>2. IsFiniteSet(Running) /\ Cardinality(Running) = 0
    BY <1>1, FS_EmptySet
  <1>3. <<>> \in Seq(Request) /\ <<>> \in Seq(Nat) /\ Len(<<>>) = 0
    OBVIOUS
  <1>4. TypeOK
    BY <1>3 DEF TypeOK, Work, Label
  <1>5. \A c \in Peer : PeerInv(c)
    BY <1>3 DEF PeerInv, Sole, Ended
  <1>6. PoolInv
    <2>1. 0 <= threads
      OBVIOUS
    <2> QED BY <1>2, <2>1 DEF PoolInv
  <1>7. Domains
    BY DEF Domains
  <1> QED BY <1>4, <1>5, <1>6, <1>7 DEF HInv

\* Nothing of what concerns d changes.
Same(d) == /\ work'[d] = work[d] /\ wire'[d] = wire[d] /\ replies'[d] = replies[d]
           /\ served'[d] = served[d] /\ response'[d] = response[d]
           /\ expired'[d] = expired[d] /\ peer'[d] = peer[d]

LEMMA SamePeer ==
  ASSUME NEW d, PeerInv(d), Same(d), server # "up" => server' # "up"
  PROVE  PeerInv(d)'
  <1>1. Ended(d)'
    BY DEF PeerInv, Ended, Same
  <1>2. \A w \in work'[d] : Sole(d, w)'
    BY DEF PeerInv, Sole, Same
  <1>3. (served[d] <= Len(wire[d]))'
    BY DEF PeerInv, Same
  <1> QED BY <1>1, <1>2, <1>3 DEF PeerInv

\* What the work of a session says of it.
LEMMA WorkFacts ==
  ASSUME HInv, NEW c \in Peer, NEW w \in work[c]
  PROVE  /\ work[c] = {w} /\ Sole(c, w) /\ w.at \in Label /\ w.n \in 0 .. MaxRequests[c] + 1
         /\ w = [at |-> w.at, n |-> w.n]
         /\ MaxRequests[c] \in Nat /\ served[c] \in Nat /\ Len(wire[c]) \in Nat
         /\ Len(replies[c]) \in Nat /\ Len(wire[c]) <= MaxRequests[c]
         /\ served[c] <= Len(wire[c])
         /\ \A n \in 1 .. Len(wire[c]) : wire[c][n] \in Request
  <1>1. w \in Work(c) /\ Sole(c, w) /\ served[c] <= Len(wire[c])
    BY DEF HInv, TypeOK, PeerInv
  <1>2. w \in [at : Label, n : 0 .. MaxRequests[c] + 1]
    BY <1>1 DEF Work
  <1>3. /\ MaxRequests[c] \in Nat /\ served[c] \in Nat
        /\ Len(wire[c]) <= MaxRequests[c] /\ wire[c] \in Seq(Request) /\ replies[c] \in Seq(Nat)
    BY MaxRequestsAssumption DEF HInv, TypeOK
  <1>4. /\ Len(wire[c]) \in Nat /\ Len(replies[c]) \in Nat
        /\ \A n \in 1 .. Len(wire[c]) : wire[c][n] \in Request
    BY <1>3
  <1> QED BY <1>1, <1>2, <1>3, <1>4 DEF Sole

\* The threads that are occupied, when one session goes on to something else.
LEMMA RunningFacts ==
  ASSUME HInv, NEW c \in Peer, NEW w \in work[c], NEW later, Becomes(c, w, later)
  PROVE  /\ work' = [work EXCEPT ![c] = later] /\ DOMAIN work' = Peer
         /\ work'[c] = later /\ \A d \in Peer : d # c => work'[d] = work[d]
         /\ (\E x \in later : x.at = "running") => Running' = Running \cup {c}
         /\ (\A x \in later : x.at # "running") => Running' = Running \ {c}
  <1>1. work' = [work EXCEPT ![c] = later]
    BY WorkFacts DEF Becomes
  <1>2. /\ work'[c] = later /\ \A d \in Peer : d # c => work'[d] = work[d]
        /\ DOMAIN work' = Peer
    BY <1>1 DEF HInv, Domains
  <1>3. ASSUME \E x \in later : x.at = "running" PROVE Running' = Running \cup {c}
    BY <1>2, <1>3 DEF Running, At
  <1>4. ASSUME \A x \in later : x.at # "running" PROVE Running' = Running \ {c}
    BY <1>2, <1>4 DEF Running, At
  <1> QED BY <1>1, <1>2, <1>3, <1>4

\* The pool is not touched, and no thread that waits or has a connection goes on.
LEMMA SamePool ==
  ASSUME HInv, UNCHANGED <<pool, threads>>, Running' = Running
  PROVE  PoolInv' /\ waiting' \subseteq Running'
  BY DEF HInv, TypeOK, PoolInv, pool

\* A session goes on: what it leaves alone keeps its types, and what it does is good.
LEMMA GoesOn ==
  ASSUME HInv, NEW c \in Peer, NEW w \in work[c], NEW later \in SUBSET Work(c), Becomes(c, w, later),
         UNCHANGED <<threads, server, client>>,
         expired' \in [Peer -> BOOLEAN], response' \in [Peer -> Nat], served' \in [Peer -> Nat],
         DOMAIN replies' = Peer, replies'[c] \in Seq(Nat),
         \A d \in Peer : d # c => /\ expired'[d] = expired[d] /\ response'[d] = response[d]
                                 /\ served'[d] = served[d] /\ replies'[d] = replies[d],
         PeerInv(c)', PoolInv', waiting' \subseteq Running',
         available' \subseteq DbConnection, holds' \in [Peer -> DbConnection \cup {NoConnection}]
  PROVE  HInv'
  <1>1. /\ DOMAIN work' = Peer /\ work'[c] = later
        /\ \A d \in Peer : d # c => work'[d] = work[d]
    BY RunningFacts
  <1>2. \A d \in Peer : d # c => Same(d)
    BY <1>1 DEF Same, client
  <1>3. \A d \in Peer : PeerInv(d)'
    BY <1>2, SamePeer DEF HInv
  <1>4. TypeOK'
    <2>1. \A d \in Peer : work'[d] \subseteq Work(d)
      BY <1>1 DEF HInv, TypeOK
    <2>2. \A d \in Peer : replies'[d] \in Seq(Nat)
      BY DEF HInv, TypeOK
    <2>3. /\ threads' \in 1 .. NumThreads /\ server' \in {"up", "stopping", "down"}
          /\ peer' \in [Peer -> {"open", "shut", "gone"}]
          /\ \A d \in Peer : wire'[d] \in Seq(Request) /\ Len(wire'[d]) <= MaxRequests[d]
      BY DEF HInv, TypeOK, client
    <2> QED BY <2>1, <2>2, <2>3 DEF TypeOK, Work
  <1>5. Domains'
    BY <1>1 DEF HInv, Domains, client
  <1> QED BY <1>3, <1>4, <1>5 DEF HInv

\* Callbacks of operations on the socket have no thread before or after.
LEMMA Callback ==
  ASSUME HInv, NEW c \in Peer, NEW w \in work[c], NEW later, Becomes(c, w, later),
         w.at # "running", \A x \in later : x.at # "running", UNCHANGED <<threads, pool>>
  PROVE  /\ PoolInv' /\ waiting' \subseteq Running' /\ available' \subseteq DbConnection
         /\ holds' \in [Peer -> DbConnection \cup {NoConnection}]
  <1>1. c \notin Running
    BY WorkFacts DEF Running, At
  <1>2. Running' = Running \ {c}
    BY RunningFacts
  <1>3. PoolInv' /\ waiting' \subseteq Running'
    <2>1. Running' = Running
      BY <1>1, <1>2
    <2> QED BY <2>1, SamePool
  <1> QED BY <1>3 DEF HInv, TypeOK, pool

LEMMA AcceptStep ==
  ASSUME HInv, NEW c \in Peer, listener_on_accept(c)
  PROVE  HInv'
  <1> DEFINE new == [at |-> "reading", n |-> 1]
  <1>1. PICK w \in At(c, "backlog") : do_read(c, w, 1)
    BY DEF listener_on_accept
  <1>2. /\ w \in work[c] /\ w.at = "backlog" /\ Becomes(c, w, {new})
        /\ expired' = [expired EXCEPT ![c] = FALSE]
        /\ UNCHANGED <<threads, server, client, response, served, replies, pool>>
    BY <1>1 DEF At, do_read, listener_on_accept
  <1>3. MaxRequests[c] \in Nat /\ served[c] = 0 /\ Len(replies[c]) = 0 /\ response[c] = 0
    BY <1>2, WorkFacts DEF Sole
  <1>4. {new} \in SUBSET Work(c)
    BY <1>3 DEF Work, Label
  <1>5. work'[c] = {new}
    BY <1>2, RunningFacts
  <1>6. PeerInv(c)'
    BY <1>2, <1>3, <1>5 DEF PeerInv, Sole, Ended, client, HInv
  <1>7. /\ expired' \in [Peer -> BOOLEAN] /\ response' \in [Peer -> Nat]
        /\ served' \in [Peer -> Nat] /\ DOMAIN replies' = Peer /\ replies'[c] \in Seq(Nat)
        /\ \A d \in Peer : d # c => expired'[d] = expired[d]
    BY <1>2 DEF HInv, TypeOK, Domains
  <1>8. /\ PoolInv' /\ waiting' \subseteq Running' /\ available' \subseteq DbConnection
        /\ holds' \in [Peer -> DbConnection \cup {NoConnection}]
    BY <1>2, Callback
  <1> QED BY <1>2, <1>4, <1>6, <1>7, <1>8, GoesOn

LEMMA ReadStep ==
  ASSUME HInv, NEW c \in Peer, on_read(c)
  PROVE  HInv'
  <1>1. PICK w \in At(c, "reading") :
          /\ w.n <= Len(wire[c])
          /\ LET label == IF wire[c][w.n] = "upgrade" THEN "socket" ELSE "handle"
             IN Becomes(c, w, {[at |-> label, n |-> w.n]})
    BY DEF on_read
  <1> DEFINE label == IF wire[c][w.n] = "upgrade" THEN "socket" ELSE "handle"
             new == [at |-> label, n |-> w.n]
  <1>2. /\ w \in work[c] /\ w.at = "reading" /\ Becomes(c, w, {new})
        /\ UNCHANGED <<threads, server, client, expired, response, served, replies, pool>>
    BY <1>1 DEF At, on_read
  <1>3. /\ new.at \in {"handle", "socket"} /\ new.n = w.n
        /\ new.at = "handle" => wire[c][w.n] # "upgrade"
        /\ w.n \in 0 .. MaxRequests[c] + 1 /\ new \in Work(c)
    BY <1>2, WorkFacts DEF Work, Label
  <1>4. Sole(c, w) /\ served[c] <= Len(wire[c])
    BY <1>2, WorkFacts
  <1> HIDE DEF new
  <1>5. work'[c] = {new}
    BY <1>2, RunningFacts
  <1>6. PeerInv(c)'
    BY <1>1, <1>2, <1>3, <1>4, <1>5 DEF PeerInv, Sole, Ended, client
  <1>7. /\ expired' \in [Peer -> BOOLEAN] /\ response' \in [Peer -> Nat]
        /\ served' \in [Peer -> Nat] /\ DOMAIN replies' = Peer /\ replies'[c] \in Seq(Nat)
    BY <1>2 DEF HInv, TypeOK, Domains
  <1> QED BY <1>2, <1>3, <1>6, <1>7, Callback, GoesOn

\* A session ends in the middle of an operation.
LEMMA EndStep ==
  ASSUME HInv, NEW c \in Peer, NEW w \in work[c], w.at # "running", Becomes(c, w, {}),
         Len(replies[c]) < served[c] => expired[c] \/ peer[c] = "gone",
         UNCHANGED <<threads, server, client, expired, served, replies, pool>>,
         response' = response \/ response' = [response EXCEPT ![c] = 0]
  PROVE  HInv'
  <1>1. work'[c] = {}
    BY RunningFacts
  <1>2. PeerInv(c)'
    BY <1>1, WorkFacts DEF PeerInv, Ended, client
  <1>3. /\ expired' \in [Peer -> BOOLEAN] /\ response' \in [Peer -> Nat]
        /\ served' \in [Peer -> Nat] /\ DOMAIN replies' = Peer /\ replies'[c] \in Seq(Nat)
        /\ \A d \in Peer : d # c => response'[d] = response[d]
    <2>1. response \in [Peer -> Nat] /\ [response EXCEPT ![c] = 0] \in [Peer -> Nat]
      BY DEF HInv, TypeOK
    <2>2. \A d \in Peer : d # c => response'[d] = response[d]
      BY <2>1
    <2>3. /\ expired' \in [Peer -> BOOLEAN]
          /\ served' \in [Peer -> Nat] /\ DOMAIN replies' = Peer /\ replies'[c] \in Seq(Nat)
      BY DEF HInv, TypeOK, Domains
    <2> QED BY <2>1, <2>2, <2>3
  <1>4. /\ PoolInv' /\ waiting' \subseteq Running' /\ available' \subseteq DbConnection
        /\ holds' \in [Peer -> DbConnection \cup {NoConnection}]
    BY Callback
  <1> QED BY <1>2, <1>3, <1>4, GoesOn

LEMMA EndsStep ==
  ASSUME HInv, NEW c \in Peer,
         on_read_error(c) \/ on_write_error(c) \/ handle_websocket_request(c)
  PROVE  HInv'
  <1>1. CASE on_read_error(c)
    <2>1. PICK w \in At(c, "reading") : do_close(c, w)
      BY <1>1 DEF on_read_error
    <2>2. /\ w \in work[c] /\ w.at = "reading" /\ Becomes(c, w, {})
          /\ UNCHANGED <<threads, server, client, expired, response, served, replies, pool>>
      BY <1>1, <2>1 DEF At, do_close, on_read_error
    <2>3. ~(Len(replies[c]) < served[c])
      BY <2>2, WorkFacts DEF Sole
    <2> QED BY <2>2, <2>3, EndStep
  <1>2. CASE on_write_error(c)
    <2>1. PICK w \in At(c, "writing") : Becomes(c, w, {})
      BY <1>2 DEF on_write_error
    <2>2. /\ w \in work[c] /\ w.at = "writing"
          /\ response' = [response EXCEPT ![c] = 0]
          /\ UNCHANGED <<threads, server, client, expired, served, replies, pool>>
      BY <1>2, <2>1 DEF At, on_write_error
    <2>3. expired[c] \/ peer[c] = "gone"
      BY <1>2 DEF on_write_error
    <2> QED BY <2>1, <2>2, <2>3, EndStep
  <1>3. CASE handle_websocket_request(c)
    <2>1. PICK w \in At(c, "socket") : Becomes(c, w, {})
      BY <1>3 DEF handle_websocket_request
    <2>2. /\ w \in work[c] /\ w.at = "socket"
          /\ UNCHANGED <<threads, server, client, expired, response, served, replies, pool>>
      BY <1>3, <2>1 DEF At, handle_websocket_request
    <2>3. ~(Len(replies[c]) < served[c])
      BY <2>2, WorkFacts DEF Sole
    <2> QED BY <2>1, <2>2, <2>3, EndStep
  <1> QED BY <1>1, <1>2, <1>3

LEMMA WriteStep ==
  ASSUME HInv, NEW c \in Peer, on_write(c)
  PROVE  HInv'
  <1>1. PICK w \in At(c, "writing") :
          /\ replies' = [replies EXCEPT ![c] = Append(@, w.n)]
          /\ IF wire[c][w.n] = "close" THEN do_close(c, w) ELSE do_read(c, w, w.n + 1)
    BY DEF on_write
  <1>2. /\ w \in work[c] /\ w.at = "writing" /\ response' = [response EXCEPT ![c] = 0]
        /\ UNCHANGED <<threads, server, client, served, pool>>
    BY <1>1 DEF At, on_write
  <1>3. /\ w.n = served[c] /\ w.n \in Nat \ {0} /\ w.n <= Len(wire[c]) /\ Len(replies[c]) = w.n - 1
        /\ wire[c][w.n] # "upgrade" /\ wire[c][w.n] \in Request
        /\ \A n \in 1 .. Len(replies[c]) : wire[c][n] = "keep"
        /\ Len(wire[c]) \in Nat /\ Len(wire[c]) <= MaxRequests[c] /\ MaxRequests[c] \in Nat
    BY <1>2, WorkFacts DEF Sole
  <1>4. /\ replies'[c] \in Seq(Nat) /\ Len(replies'[c]) = w.n /\ DOMAIN replies' = Peer
        /\ \A d \in Peer : d # c => replies'[d] = replies[d]
    BY <1>1, <1>3, SeqFacts DEF HInv, TypeOK, Domains
  <1>5. /\ response' \in [Peer -> Nat] /\ response'[c] = 0
        /\ served' \in [Peer -> Nat]
        /\ \A d \in Peer : d # c => response'[d] = response[d]
    BY <1>2 DEF HInv, TypeOK
  <1>6. CASE wire[c][w.n] = "close"
    <2>1. Becomes(c, w, {}) /\ UNCHANGED expired
      BY <1>1, <1>6 DEF do_close
    <2>2. work'[c] = {}
      BY <1>2, <2>1, RunningFacts
    <2>3. PeerInv(c)'
      BY <1>2, <1>3, <1>4, <2>2 DEF PeerInv, Ended, client
    <2>4. expired' \in [Peer -> BOOLEAN]
      BY <2>1 DEF HInv, TypeOK
    <2>5. /\ PoolInv' /\ waiting' \subseteq Running' /\ available' \subseteq DbConnection
          /\ holds' \in [Peer -> DbConnection \cup {NoConnection}]
      BY <1>2, <2>1, Callback
    <2> QED BY <1>2, <1>4, <1>5, <2>1, <2>3, <2>4, <2>5, GoesOn
  <1>7. CASE wire[c][w.n] # "close"
    <2> DEFINE new == [at |-> "reading", n |-> w.n + 1]
    <2>1. Becomes(c, w, {new}) /\ expired' = [expired EXCEPT ![c] = FALSE]
      BY <1>1, <1>7 DEF do_read
    <2>2. new.at = "reading" /\ new.n = w.n + 1 /\ new \in Work(c)
      BY <1>3, SMTT(30) DEF Work, Label
    <2> HIDE DEF new
    <2>3. work'[c] = {new}
      BY <1>2, <2>1, RunningFacts
    <2>4. wire[c][w.n] = "keep"
      BY <1>3, <1>7 DEF Request
    <2>5. \A n \in 1 .. w.n : wire[c][n] = "keep"
      <3>1. \A n \in 1 .. w.n : n \in 1 .. Len(replies[c]) \/ n = w.n
        BY <1>3
      <3> QED BY <1>3, <2>4, <3>1
    <2>6. PeerInv(c)'
      BY <1>2, <1>3, <1>4, <1>5, <2>2, <2>3, <2>5 DEF PeerInv, Sole, Ended, client
    <2>7. expired' \in [Peer -> BOOLEAN] /\ \A d \in Peer : d # c => expired'[d] = expired[d]
      BY <2>1 DEF HInv, TypeOK
    <2>8. /\ PoolInv' /\ waiting' \subseteq Running' /\ available' \subseteq DbConnection
          /\ holds' \in [Peer -> DbConnection \cup {NoConnection}]
      BY <1>2, <2>1, <2>2, Callback
    <2> QED BY <1>2, <1>4, <1>5, <2>1, <2>2, <2>6, <2>7, <2>8, GoesOn, ZenonT(40)
  <1> QED BY <1>6, <1>7

-----------------------------------------------------------------------------
(* Clients, timers and the server *)

LEMMA AskStep ==
  ASSUME HInv, NEW c \in Peer, NEW r \in Request, Ask(c, r)
  PROVE  HInv'
  <1>1. /\ Len(wire[c]) < MaxRequests[c] /\ wire' = [wire EXCEPT ![c] = Append(@, r)]
        /\ UNCHANGED <<threads, server, peer, session, pool>>
    BY DEF Ask
  <1>2. wire[c] \in Seq(Request) /\ MaxRequests[c] \in Nat /\ DOMAIN wire = Peer
    BY MaxRequestsAssumption DEF HInv, TypeOK, Domains
  <1>3. /\ wire'[c] \in Seq(Request) /\ Len(wire[c]) \in Nat /\ Len(wire'[c]) = Len(wire[c]) + 1
        /\ \A n \in 1 .. Len(wire[c]) : wire'[c][n] = wire[c][n]
        /\ \A d \in Peer : d # c => wire'[d] = wire[d]
        /\ DOMAIN wire' = Peer
    BY <1>1, <1>2, SeqFacts
  <1>4. Running' = Running
    BY <1>1 DEF Running, At, session
  <1>5. PoolInv' /\ waiting' \subseteq Running'
    BY <1>1, <1>4, SamePool
  <1>6. TypeOK'
    <2>1. \A d \in Peer : wire'[d] \in Seq(Request) /\ Len(wire'[d]) <= MaxRequests[d]
      BY <1>1, <1>2, <1>3 DEF HInv, TypeOK
    <2> QED BY <1>1, <1>5, <2>1 DEF HInv, TypeOK, session, pool, Work
  <1>7. PeerInv(c)'
    <2>1. served[c] \in Nat /\ served[c] <= Len(wire[c]) /\ Ended(c)
      BY DEF HInv, TypeOK, PeerInv
    <2>2. served'[c] <= Len(wire'[c])
      BY <1>1, <1>3, <2>1 DEF session
    <2>3. ASSUME NEW w \in work[c] PROVE Sole(c, w)'
      <3>1. /\ Sole(c, w) /\ w.n \in Nat /\ Len(replies[c]) \in Nat /\ w.at \in Label
        BY WorkFacts
      <3>2. w.at \in {"handle", "running", "writing"} =>
              w.n <= Len(wire'[c]) /\ wire'[c][w.n] # "upgrade"
        <4> SUFFICES ASSUME w.at \in {"handle", "running", "writing"}
                     PROVE  w.n <= Len(wire'[c]) /\ wire'[c][w.n] # "upgrade"
          OBVIOUS
        <4>1. w.n <= Len(wire[c]) /\ wire[c][w.n] # "upgrade" /\ w.n # 0
          BY <3>1, <2>1 DEF Sole
        <4>2. w.n \in 1 .. Len(wire[c])
          BY <1>3, <3>1, <4>1
        <4> QED BY <1>3, <3>1, <4>1, <4>2
      <3>3. \A n \in 1 .. Len(replies[c]) : wire'[c][n] = "keep"
        <4>1. Len(replies[c]) <= served[c]
          BY <2>1, <3>1 DEF Sole
        <4>2. \A n \in 1 .. Len(replies[c]) : n \in 1 .. Len(wire[c])
          BY <1>3, <2>1, <3>1, <4>1
        <4> QED BY <1>3, <3>1, <4>2 DEF Sole
      <3> QED BY <1>1, <3>1, <3>2, <3>3 DEF Sole, session
    <2>4. Ended(c)'
      BY <1>1, <2>1 DEF Ended, session
    <2> QED BY <1>1, <2>2, <2>3, <2>4 DEF PeerInv, session
  <1>8. \A d \in Peer : d # c => PeerInv(d)'
    BY <1>1, <1>3, SamePeer DEF HInv, Same, session
  <1>9. Domains'
    BY <1>1, <1>3 DEF HInv, Domains, session
  <1> QED BY <1>5, <1>6, <1>7, <1>8, <1>9 DEF HInv

\* A client goes, the timer of a session runs out or the server is told to stop: what is
\* under way is the same.
LEMMA OutsideStep ==
  ASSUME HInv,
         \/ \E c \in Peer : Shut(c) \/ Leave(c) \/ Expire(c)
         \/ Stop
         \/ UNCHANGED vars
  PROVE  HInv'
  <1>1. UNCHANGED <<threads, wire, work, response, served, replies, pool>>
    BY DEF Shut, Leave, Expire, Stop, vars, client, session
  <1> DEFINE Later == /\ server' \in {"up", "stopping", "down"} /\ (server # "up" => server' # "up")
                      /\ expired' \in [Peer -> BOOLEAN] /\ peer' \in [Peer -> {"open", "shut", "gone"}]
                      /\ \A d \in Peer : expired[d] => expired'[d]
                      /\ \A d \in Peer : peer[d] = "gone" => peer'[d] = "gone"
  <1>2. Later
    <2> USE DEF HInv, TypeOK
    <2>1. CASE UNCHANGED vars
      BY <2>1 DEF vars, client, session
    <2>2. CASE Stop
      BY <2>2 DEF Stop, client, session
    <2>3. ASSUME NEW c \in Peer, Shut(c) \/ Leave(c) PROVE Later
      BY <2>3 DEF Shut, Leave, session
    <2>4. ASSUME NEW c \in Peer, Expire(c) PROVE Later
      BY <2>4 DEF Expire, client
    <2> QED BY <2>1, <2>2, <2>3, <2>4
  <1>3. Running' = Running
    BY <1>1 DEF Running, At
  <1>4. PoolInv' /\ waiting' \subseteq Running'
    BY <1>1, <1>3, SamePool
  <1>5. TypeOK'
    BY <1>1, <1>2, <1>4 DEF HInv, TypeOK, pool, Work
  <1>6. \A d \in Peer : PeerInv(d)'
    BY <1>1, <1>2 DEF HInv, PeerInv, Sole, Ended
  <1>7. Domains'
    BY <1>1 DEF HInv, Domains
  <1> QED BY <1>4, <1>5, <1>6, <1>7 DEF HInv

LEMMA TerminateStep ==
  ASSUME HInv, Terminate
  PROVE  HInv'
  <1> USE DEF Terminate, client
  <1>1. Running' = {}
    BY DEF Running, At
  <1>2. IsFiniteSet(Running') /\ Cardinality(Running') = 0
    BY <1>1, FS_EmptySet
  <1>3. TypeOK'
    BY <1>1 DEF HInv, TypeOK
  <1>4. PoolInv'
    <2>1. 0 <= threads
      BY DEF HInv, TypeOK
    <2> QED BY <1>2, <2>1 DEF PoolInv
  <1>5. \A d \in Peer : PeerInv(d)'
    BY DEF HInv, PeerInv, Ended
  <1>6. Domains'
    BY DEF HInv, Domains
  <1> QED BY <1>3, <1>4, <1>5, <1>6 DEF HInv

-----------------------------------------------------------------------------
(* Handlers *)

LEMMA HandleStep ==
  ASSUME HInv, NEW c \in Peer, handle_http_request(c)
  PROVE  HInv'
  <1>1. PICK w \in At(c, "handle") : Becomes(c, w, {[at |-> "running", n |-> w.n]})
    BY DEF handle_http_request
  <1> DEFINE new == [at |-> "running", n |-> w.n]
  <1>2. /\ w \in work[c] /\ w.at = "handle" /\ Cardinality(Running) < threads
        /\ UNCHANGED <<threads, server, client, expired, response, served, replies>>
        /\ \/ c \notin waiting /\ waiting' = waiting \cup {c} /\ UNCHANGED <<available, holds>>
           \/ UNCHANGED <<available, waiting, holds>>
    BY <1>1 DEF At, handle_http_request, Free, Pool!Call, pool
  <1>3. new.at = "running" /\ new.n = w.n /\ new \in Work(c)
    BY <1>2, WorkFacts DEF Work, Label
  <1>4. Sole(c, w) /\ served[c] <= Len(wire[c])
    BY <1>2, WorkFacts
  <1> HIDE DEF new
  <1>5. work'[c] = {new} /\ Running' = Running \cup {c}
    BY <1>1, <1>2, <1>3, RunningFacts DEF new
  <1>6. c \notin Running
    BY <1>2, <1>4 DEF Sole, Running, At
  <1>7. PeerInv(c)'
    BY <1>2, <1>3, <1>4, <1>5 DEF PeerInv, Sole, Ended, client
  <1>8. PoolInv' /\ waiting' \subseteq Running'
    <2>1. IsFiniteSet(Running') /\ Cardinality(Running') = Cardinality(Running) + 1
      BY <1>5, <1>6, FS_AddElement DEF HInv, PoolInv
    <2>2. Cardinality(Running) \in Nat /\ threads \in Nat
      BY FS_CardinalityType DEF HInv, PoolInv, TypeOK
    <2>3. Cardinality(Running') <= threads'
      BY <1>2, <2>1, <2>2
    <2>4. \A d \in Peer : holds[d] # NoConnection => d \in Running' /\ d \notin waiting'
      BY <1>2, <1>5, <1>6 DEF HInv, PoolInv
    <2> QED BY <1>2, <1>5, <2>1, <2>3, <2>4 DEF HInv, PoolInv, TypeOK
  <1>9. /\ expired' \in [Peer -> BOOLEAN] /\ response' \in [Peer -> Nat]
        /\ served' \in [Peer -> Nat] /\ DOMAIN replies' = Peer /\ replies'[c] \in Seq(Nat)
        /\ available' \subseteq DbConnection /\ holds' \in [Peer -> DbConnection \cup {NoConnection}]
    BY <1>2 DEF HInv, TypeOK, Domains
  <1>10. Becomes(c, w, {new}) /\ {new} \in SUBSET Work(c)
    BY <1>1, <1>3 DEF new
  <1> QED BY <1>2, <1>7, <1>8, <1>9, <1>10, GoesOn

LEMMA GrantStep ==
  ASSUME HInv, NEW c \in Peer, get_or_block(c)
  PROVE  HInv'
  <1>1. PICK x \in available :
          /\ c \in waiting /\ available' = available \ {x} /\ holds' = [holds EXCEPT ![c] = x]
          /\ waiting' = waiting \ {c} /\ UNCHANGED <<threads, server, client, session>>
    BY DEF get_or_block, Pool!Grant
  <1>2. Running' = Running
    BY <1>1 DEF Running, At, session
  <1>3. x \in DbConnection /\ x # NoConnection /\ c \in Running /\ holds \in [Peer -> DbConnection \cup {NoConnection}]
    BY <1>1, PoolAssumption DEF HInv, TypeOK
  <1>4. holds[c] = NoConnection
    BY <1>1 DEF HInv, PoolInv
  <1>5. PoolInv'
    <2>1. \A d \in Peer : holds'[d] # NoConnection => d \in Running' /\ d \notin waiting'
      BY <1>1, <1>2, <1>3 DEF HInv, PoolInv
    <2>2. ASSUME NEW y \in DbConnection \ available' PROVE \E d \in Peer : holds'[d] = y
      <3>1. CASE y = x
        BY <1>1, <1>3, <3>1
      <3>2. CASE y # x
        <4>1. PICK d \in Peer : holds[d] = y
          BY <1>1, <3>2 DEF HInv, PoolInv
        <4>2. d # c
          BY <1>4, <4>1, PoolAssumption
        <4> QED BY <1>1, <1>3, <4>1, <4>2
      <3> QED BY <3>1, <3>2
    <2> QED BY <1>1, <1>2, <2>1, <2>2 DEF HInv, PoolInv
  <1>6. TypeOK'
    BY <1>1, <1>2, <1>3 DEF HInv, TypeOK, client, session, Work
  <1>7. \A d \in Peer : PeerInv(d)'
    BY <1>1 DEF HInv, PeerInv, Sole, Ended, client, session
  <1>8. Domains'
    BY <1>1 DEF HInv, Domains, client, session
  <1> QED BY <1>5, <1>6, <1>7, <1>8 DEF HInv

LEMMA ServeStep ==
  ASSUME HInv, NEW c \in Peer, Serve(c)
  PROVE  HInv'
  <1>1. PICK w \in At(c, "running") : served' = [served EXCEPT ![c] = w.n] /\ send(c, w)
    BY DEF Serve
  <1> DEFINE new == [at |-> "writing", n |-> w.n]
  <1>2. /\ w \in work[c] /\ w.at = "running" /\ c \notin waiting /\ Becomes(c, w, {new})
        /\ response' = [response EXCEPT ![c] = w.n] /\ served' = [served EXCEPT ![c] = w.n]
        /\ UNCHANGED <<threads, server, client, expired, replies>>
    BY <1>1 DEF At, Serve, send
  <1>3. new.at = "writing" /\ new.n = w.n /\ new \in Work(c)
    BY <1>2, WorkFacts DEF Work, Label
  <1>4. /\ Sole(c, w) /\ w.n = served[c] + 1 /\ w.n \in Nat \ {0} /\ w.n <= Len(wire[c])
        /\ Len(replies[c]) = w.n - 1
    BY <1>2, WorkFacts DEF Sole
  <1> HIDE DEF new
  <1>5. work'[c] = {new} /\ Running' = Running \ {c}
    BY <1>2, <1>3, RunningFacts
  <1>6. /\ response' \in [Peer -> Nat] /\ served' \in [Peer -> Nat]
        /\ response'[c] = w.n /\ served'[c] = w.n
        /\ \A d \in Peer : d # c => response'[d] = response[d] /\ served'[d] = served[d]
    BY <1>2, <1>4 DEF HInv, TypeOK
  <1>7. PeerInv(c)'
    BY <1>2, <1>3, <1>4, <1>5, <1>6 DEF PeerInv, Sole, Ended, client
  <1>8. /\ waiting' = waiting /\ waiting' \subseteq Running'
        /\ holds' \in [Peer -> DbConnection \cup {NoConnection}]
        /\ \A d \in Peer : holds'[d] = IF d = c THEN NoConnection ELSE holds[d]
        /\ available' = available \cup ({holds[c]} \ {NoConnection})
    <2>1. Release(c)
      BY DEF Serve
    <2>2. holds \in [Peer -> DbConnection \cup {NoConnection}] /\ waiting \subseteq Running
      BY DEF HInv, TypeOK
    <2>3. CASE holds[c] = NoConnection
      <3>1. UNCHANGED <<available, waiting, holds>>
        BY <2>1, <2>3 DEF Release, pool
      <3> QED BY <1>2, <1>5, <2>2, <2>3, <3>1
    <2>4. CASE holds[c] # NoConnection
      <3>1. /\ available' = available \cup {holds[c]} /\ waiting' = waiting
            /\ holds' = [holds EXCEPT ![c] = NoConnection]
        BY <2>1, <2>4 DEF Release, Pool!PutBack
      <3> QED BY <1>2, <1>5, <2>2, <2>4, <3>1
    <2> QED BY <2>3, <2>4
  <1>9. PoolInv'
    <2>1. IsFiniteSet(Running') /\ Cardinality(Running') <= Cardinality(Running)
      BY <1>5, FS_Subset DEF HInv, PoolInv
    <2>2. /\ Cardinality(Running) \in Nat /\ Cardinality(Running') \in Nat
          /\ threads \in Nat /\ Cardinality(Running) <= threads
      BY <2>1, FS_CardinalityType DEF HInv, PoolInv, TypeOK
    <2>3. Cardinality(Running') <= threads'
      BY <1>2, <2>1, <2>2
    <2>4. \A d \in Peer : holds'[d] # NoConnection => d \in Running' /\ d \notin waiting'
      BY <1>5, <1>8 DEF HInv, PoolInv
    <2>5. ASSUME NEW y \in DbConnection \ available' PROVE \E d \in Peer : holds'[d] = y
      <3>1. PICK d \in Peer : holds[d] = y
        BY <1>8 DEF HInv, PoolInv
      <3>2. d # c
        BY <1>8, <2>5, <3>1, PoolAssumption
      <3> QED BY <1>8, <3>1, <3>2
    <2> QED BY <2>1, <2>3, <2>4, <2>5 DEF PoolInv
  <1>10. /\ available' \subseteq DbConnection /\ expired' \in [Peer -> BOOLEAN]
         /\ DOMAIN replies' = Peer /\ replies'[c] \in Seq(Nat)
    BY <1>2, <1>8 DEF HInv, TypeOK, Domains
  <1> QED BY <1>2, <1>3, <1>6, <1>7, <1>8, <1>9, <1>10, GoesOn, ZenonT(40)

-----------------------------------------------------------------------------
LEMMA HStep == HInv /\ [Next]_vars => HInv'
  <1> SUFFICES ASSUME HInv, [Next]_vars PROVE HInv'
    OBVIOUS
  <1>1. ASSUME NEW c \in Peer, Client(c) \/ Expire(c) PROVE HInv'
    BY <1>1, AskStep, OutsideStep DEF Client
  <1>2. ASSUME NEW c \in Peer, Session(c) \/ handle_websocket_request(c) PROVE HInv'
    BY <1>2, AcceptStep, ReadStep, EndsStep, HandleStep, GrantStep, ServeStep, WriteStep DEF Session
  <1>3. ASSUME NEW c \in Peer, get_address(c) PROVE HInv'
    BY <1>3, TerminateStep DEF get_address
  <1>4. CASE Exit
    BY <1>4, TerminateStep DEF Exit
  <1>5. CASE Stop \/ UNCHANGED vars
    BY <1>5, OutsideStep
  <1> QED BY <1>1, <1>2, <1>3, <1>4, <1>5 DEF Next

\* HInv holds in every reachable state.
THEOREM Invariance == Spec => []HInv
  <1> QED BY InitHInv, HStep, PTL DEF Spec

\* The variables of the server, its sessions and the pool keep their types.
THEOREM TypeCorrect == Spec => []TypeOK
  <1>1. HInv => TypeOK
    BY DEF HInv
  <1> QED BY <1>1, Invariance, PTL

\* Whatever callbacks, handlers and timers run on however many threads: a session has one
\* thing under way, and res_ lives exactly while it is written.
THEOREM OneThingAlways == Spec => []OneThingAtATime
  <1>1. HInv => OneThingAtATime
    <2> SUFFICES ASSUME HInv, NEW c \in Peer
                 PROVE  /\ Cardinality(work[c]) <= 1
                        /\ \A w \in work[c] :
                             response[c] = IF w.at = "writing" THEN w.n ELSE 0
      BY DEF OneThingAtATime
    <2>1. \A w \in work[c] : Sole(c, w)
      BY DEF HInv, PeerInv
    <2>2. Cardinality(work[c]) = 0 \/ Cardinality(work[c]) = 1
      <3>1. CASE work[c] = {}
        BY <3>1, FS_EmptySet
      <3>2. ASSUME NEW w \in work[c] PROVE Cardinality(work[c]) = 1
        <4>1. work[c] = {w}
          BY <2>1 DEF Sole
        <4> QED BY <4>1, FS_Singleton
      <3> QED BY <3>1, <3>2
    <2>3. Cardinality(work[c]) <= 1
      BY <2>2
    <2> QED BY <2>1, <2>3 DEF Sole
  <1> QED BY <1>1, Invariance, PTL

\* A request that was served and not answered is one whose time was up, whose client has
\* gone or that the end of the server cut off.
THEOREM LostAnswersAlwaysExplained == Spec => []LostAnswersAreExplained
  <1>1. HInv => LostAnswersAreExplained
    BY DEF HInv, PeerInv, Ended, LostAnswersAreExplained
  <1> QED BY <1>1, Invariance, PTL

\* Handlers hold a connection of the pool or wait for one, and never both, and each has a
\* thread: no more of them wait than there are threads beyond the connections.
THEOREM ThreadsAlwaysWaitInTurn == Spec => []ThreadsWaitInTurn
  <1>1. HInv => ThreadsWaitInTurn
    <2> SUFFICES ASSUME HInv, available = {}
                 PROVE  Cardinality(waiting) + Cardinality(DbConnection) <= threads
      BY DEF ThreadsWaitInTurn
    <2> DEFINE holders == {c \in Peer : holds[c] \in DbConnection}
               f == [c \in holders |-> holds[c]]
    <2>1. IsFiniteSet(Running) /\ Cardinality(Running) <= threads /\ threads \in Nat
      BY DEF HInv, PoolInv, TypeOK
    <2>2. holders \subseteq Running /\ holders \cap waiting = {} /\ waiting \subseteq Running
      BY PoolAssumption DEF HInv, PoolInv, TypeOK
    <2>3. IsFiniteSet(holders) /\ IsFiniteSet(waiting)
      BY <2>1, <2>2, FS_Subset
    <2>4. f \in Surjection(holders, DbConnection)
      <3>1. \A x \in DbConnection : \E c \in holders : f[c] = x
        BY DEF HInv, PoolInv
      <3> QED BY <3>1 DEF Surjection
    <2>5. Cardinality(DbConnection) <= Cardinality(holders) /\ IsFiniteSet(DbConnection)
      BY <2>3, <2>4, FS_Surjection
    <2>6. Cardinality(holders \cup waiting) = Cardinality(holders) + Cardinality(waiting)
      <3>1. Cardinality(holders \cap waiting) = 0
        BY <2>2, FS_EmptySet
      <3>2. Cardinality(holders) \in Nat /\ Cardinality(waiting) \in Nat
        BY <2>3, FS_CardinalityType
      <3>3. Cardinality(holders \cup waiting)
              = Cardinality(holders) + Cardinality(waiting) - Cardinality(holders \cap waiting)
        BY <2>3, FS_Union
      <3> QED BY <3>1, <3>2, <3>3
    <2>7. Cardinality(holders \cup waiting) <= Cardinality(Running)
      BY <2>1, <2>2, FS_Subset
    <2>8. /\ Cardinality(holders) \in Nat /\ Cardinality(waiting) \in Nat
          /\ Cardinality(DbConnection) \in Nat /\ Cardinality(Running) \in Nat
      BY <2>1, <2>3, <2>5, FS_CardinalityType
    <2> HIDE DEF holders
    <2> QED BY <2>1, <2>5, <2>6, <2>7, <2>8
  <1> QED BY <1>1, Invariance, PTL

-----------------------------------------------------------------------------
(* HttpServer implements Dialogue *)

LEMMA ServeConverses ==
  ASSUME HInv, NEW c \in Peer, Serve(c)
  PROVE  Conversation!Serve(c)
  <1>1. PICK w \in At(c, "running") : served' = [served EXCEPT ![c] = w.n]
    BY DEF Serve
  <1>2. /\ w.n = served[c] + 1 /\ Len(replies[c]) = served[c] /\ w.n <= Len(wire[c])
        /\ served[c] \in Nat /\ Len(wire[c]) \in Nat
        /\ \A n \in 1 .. Len(replies[c]) : wire[c][n] = "keep"
    BY <1>1, WorkFacts DEF At, Sole
  <1>3. served[c] < Len(wire[c])
    BY <1>2
  <1>4. served' = [served EXCEPT ![c] = @ + 1] /\ UNCHANGED <<wire, replies>>
    BY <1>1, <1>2 DEF Serve, client
  <1> QED BY <1>2, <1>3, <1>4 DEF Conversation!Serve

LEMMA AnswerConverses ==
  ASSUME HInv, NEW c \in Peer, on_write(c)
  PROVE  Conversation!Answer(c)
  <1>1. PICK w \in At(c, "writing") : replies' = [replies EXCEPT ![c] = Append(@, w.n)]
    BY DEF on_write
  <1>2. w.n = served[c] /\ Len(replies[c]) = w.n - 1 /\ served[c] \in Nat
    BY <1>1, WorkFacts DEF At, Sole
  <1>3. Len(replies[c]) < served[c]
    BY <1>2
  <1>4. UNCHANGED <<wire, served>>
    BY DEF on_write, client
  <1> QED BY <1>1, <1>2, <1>3, <1>4 DEF Conversation!Answer

LEMMA StepConverses == HInv /\ [Next]_vars => [Conversation!Next]_(Conversation!vars)
  <1> SUFFICES ASSUME HInv, [Next]_vars PROVE [Conversation!Next]_(Conversation!vars)
    OBVIOUS
  <1> USE DEF Conversation!vars
  <1>1. ASSUME NEW c \in Peer, NEW r \in Request, Ask(c, r) PROVE Conversation!Next
    BY <1>1 DEF Ask, session, Conversation!Ask, Conversation!Next
  <1>2. ASSUME NEW c \in Peer, Serve(c) \/ on_write(c) PROVE Conversation!Next
    BY <1>2, ServeConverses, AnswerConverses DEF Conversation!Next
  <1>3. ASSUME NEW c \in Peer,
               \/ Shut(c) \/ Leave(c) \/ Expire(c) \/ get_address(c)
               \/ listener_on_accept(c) \/ on_read(c) \/ on_read_error(c)
               \/ handle_http_request(c) \/ get_or_block(c) \/ on_write_error(c)
               \/ handle_websocket_request(c)
        PROVE  UNCHANGED Conversation!vars
    BY <1>3 DEF Shut, Leave, Expire, get_address, Terminate, listener_on_accept, on_read,
         on_read_error, handle_http_request, get_or_block, on_write_error,
         handle_websocket_request, client, session
  <1>4. CASE Stop \/ Exit \/ UNCHANGED vars
    BY <1>4 DEF Stop, Exit, Terminate, vars, client, session
  <1> QED BY <1>1, <1>2, <1>3, <1>4 DEF Next, Client, Session

\* However threads, callbacks, timers and the pool interleave, each client is served its
\* requests in order, each once, none before the answer to the last has been delivered and
\* none after one that asked for the connection to be closed.
THEOREM ServerConverses == Spec => ImplementsDialogue
  <1>1. Init => Conversation!Init
    BY DEF Init, Conversation!Init
  <1> QED BY <1>1, StepConverses, Invariance, PTL DEF Spec, ImplementsDialogue, Conversation!Spec

-----------------------------------------------------------------------------
(* The table of paths *)

\* The route of a path, by its first piece and its length.
SiteIndex(w, n) ==
  CASE w = "statics" -> 1 [] w = Nothing -> 2 [] w = "form_login" -> 3 [] w = "form_logout" -> 4
    [] w = "users" -> 4 + n [] w = "form_add_user" -> 7 [] w = "form_register" -> 8
    [] w = "form_modify_user" -> 9 [] OTHER -> 0

MovieIndex(w, n) ==
  CASE w = "movie_register" -> 10 [] w = "findmovie" -> 11 [] w = "movies" -> 11 + n
    [] w = "form_add_movie" -> 14 [] w = "form_modify_movie" -> 15
    [] w = "announcement_update" -> 16 [] w = "add_balance" -> 17 [] w = "buyticket" -> 18
    [] w = "form_buy_ticket" -> 19 [] w = "form_refund_ticket" -> 20
    [] w = "managemovie" -> 21 [] w = "form_add_screening" -> 22
    [] w = "form_modify_screening" -> 23 [] OTHER -> 0

RoomIndex(w, n) ==
  CASE w = "room_register" -> 24 [] w = "findroom" -> 25 [] w = "screening_rooms" -> 25 + n
    [] w = "form_add_room" -> 28 [] w = "form_modify_room" -> 29
    [] w = "managecomments" -> 30 [] w = "form_add_comment" -> 31
    [] w = "form_modify_comment" -> 32 [] w = "form_review" -> 33 [] w = "mycenter" -> 34
    [] OTHER -> 0

IndexOf(w, n) == SiteIndex(w, n) + MovieIndex(w, n) + RoomIndex(w, n)

\* The body is read after the session, which is evaluated first if it stands behind.
BodyLast(parameters) ==
  /\ Len(parameters) \in 1 .. 6 /\ DOMAIN parameters = 1 .. Len(parameters)
  /\ \A m, n \in DOMAIN parameters :
       parameters[m] = "json" /\ parameters[n] = "session" => m < n

Uses(parameters) == \E m \in DOMAIN parameters : parameters[m] = "_1"

Groups == {"<int>", "<str>", "<path>"}

\* What the proofs need of a route: its first piece is a word; it has at most one group,
\* which is the last piece, and has one if the handler wants it.
Sound(i, r) ==
  /\ Len(r.pattern) \in {1, 2} /\ r.pattern[1] \notin Groups
  /\ r.pattern[Len(r.pattern)] = "<path>" => r.pattern[1] = "statics"
  /\ IndexOf(r.pattern[1], Len(r.pattern)) = i
  /\ BodyLast(r.parameters)
  /\ Uses(r.parameters) => r.pattern[Len(r.pattern)] \in Groups

\* Route i is a word, or a word and a group.
Word(i, r, w, l) == /\ r.parameters = l /\ Len(r.pattern) = 1 /\ r.pattern[1] = w
                    /\ IndexOf(w, 1) = i

Group(i, r, w, g, l) == /\ r.parameters = l /\ Len(r.pattern) = 2
                        /\ r.pattern[1] = w /\ r.pattern[2] = g
                        /\ IndexOf(w, 2) = i

LEMMA Lists ==
  /\ BodyLast(Form) /\ ~Uses(Form)
  /\ BodyLast(FormOn)
  /\ BodyLast(Api) /\ ~Uses(Api)
  /\ BodyLast(ListPage) /\ BodyLast(First(ListPage)) /\ ~Uses(First(ListPage))
  /\ BodyLast(Page) /\ BodyLast(First(Page)) /\ ~Uses(First(Page))
  <1> USE DEF BodyLast, Uses
  <1>1. BodyLast(Form) /\ ~Uses(Form)
    BY DEF Form
  <1>2. BodyLast(FormOn)
    BY DEF FormOn, Form
  <1>3. BodyLast(Api) /\ ~Uses(Api)
    BY DEF Api
  <1>4. BodyLast(ListPage) /\ BodyLast(First(ListPage)) /\ ~Uses(First(ListPage))
    BY DEF ListPage, First
  <1>5. BodyLast(Page) /\ BodyLast(First(Page)) /\ ~Uses(First(Page))
    BY DEF Page, First
  <1> HIDE DEF BodyLast, Uses
  <1> QED BY <1>1, <1>2, <1>3, <1>4, <1>5

LEMMA WordIsSound ==
  ASSUME NEW i, NEW r, NEW w, NEW l, Word(i, r, w, l), w \notin Groups,
         BodyLast(l), ~Uses(l)
  PROVE  Sound(i, r)
  BY DEF Word, Sound, Groups

LEMMA GroupIsSound ==
  ASSUME NEW i, NEW r, NEW w, NEW g, NEW l, Group(i, r, w, g, l), w \notin Groups,
         g \in Groups, g = "<path>" => w = "statics", BodyLast(l)
  PROVE  Sound(i, r)
  BY DEF Group, Sound

\* The first pieces, but for the empty one.
Firsts == {"statics", "form_login", "form_logout", "users", "form_add_user", "form_register",
          "form_modify_user", "movie_register", "findmovie", "movies", "form_add_movie",
          "form_modify_movie", "announcement_update", "add_balance", "buyticket",
          "form_buy_ticket", "form_refund_ticket", "managemovie", "form_add_screening",
          "form_modify_screening", "room_register", "findroom", "screening_rooms",
          "form_add_room", "form_modify_room", "managecomments", "form_add_comment",
          "form_modify_comment", "form_review", "mycenter"}

LEMMA NothingIsNoWord == Nothing \notin Firsts \cup Groups
  BY DEF Nothing, Firsts, Groups

LEMMA SiteIsSound == \A i \in 1 .. 9 : Sound(i, SiteAndUsers[i])
  <1> DEFINE L == SiteAndUsers
  <1>1. /\ L[1] = Route(<<"statics", "<path>">>, "serve_static_files", <<"response", "_1">>)
        /\ L[2] = Route(<<Nothing>>, "view_movies", First(ListPage))
        /\ L[3] = Route(<<"form_login">>, "form_login", Form)
        /\ L[4] = Route(<<"form_logout">>, "form_logout", <<"db", "json", "session", "response">>)
        /\ L[5] = Route(<<"users">>, "view_users", First(Page))
        /\ L[6] = Route(<<"users", "<int>">>, "view_users", Page)
        /\ L[7] = Route(<<"form_add_user">>, "form_add_user", Form)
        /\ L[8] = Route(<<"form_register">>, "form_register", Form)
        /\ L[9] = Route(<<"form_modify_user", "<int>">>, "form_modify_user", FormOn)
    BY DEF SiteAndUsers
  <1> HIDE DEF L
  <1> USE NothingIsNoWord DEF Firsts, Groups, Route, IndexOf, SiteIndex, MovieIndex, RoomIndex
  <1>2. /\ Group(1, L[1], "statics", "<path>", <<"response", "_1">>)
        /\ Group(6, L[6], "users", "<int>", Page)
        /\ Group(9, L[9], "form_modify_user", "<int>", FormOn)
    BY <1>1 DEF Group
  <1>3. /\ Word(2, L[2], Nothing, First(ListPage))
        /\ Word(3, L[3], "form_login", Form)
        /\ Word(4, L[4], "form_logout", <<"db", "json", "session", "response">>)
        /\ Word(5, L[5], "users", First(Page))
        /\ Word(7, L[7], "form_add_user", Form)
        /\ Word(8, L[8], "form_register", Form)
    BY <1>1 DEF Word
  <1>4. /\ BodyLast(<<"response", "_1">>)
        /\ BodyLast(<<"db", "json", "session", "response">>)
        /\ ~Uses(<<"db", "json", "session", "response">>)
    BY DEF BodyLast, Uses
  <1> HIDE DEF Firsts, Route, IndexOf, SiteIndex, MovieIndex, RoomIndex
  <1>5. /\ Sound(1, L[1])
        /\ Sound(6, L[6])
        /\ Sound(9, L[9])
    BY <1>2, <1>4, Lists, GroupIsSound
  <1>6. /\ Sound(2, L[2])
        /\ Sound(3, L[3])
        /\ Sound(4, L[4])
        /\ Sound(5, L[5])
        /\ Sound(7, L[7])
        /\ Sound(8, L[8])
    BY <1>3, <1>4, Lists, WordIsSound
  <1> QED BY <1>5, <1>6 DEF L

LEMMA MoviesAreSound == \A i \in 1 .. 14 : Sound(9 + i, MoviesAndTickets[i])
  <1> DEFINE L == MoviesAndTickets
  <1>1. /\ L[1] = Route(<<"movie_register">>, "movie_register", Api)
        /\ L[2] = Route(<<"findmovie", "<str>">>, "find_movie", <<"db", "session", "_1">>)
        /\ L[3] = Route(<<"movies">>, "view_movies", First(ListPage))
        /\ L[4] = Route(<<"movies", "<int>">>, "view_movies", ListPage)
        /\ L[5] = Route(<<"form_add_movie">>, "form_add_movie", Form)
        /\ L[6] = Route(<<"form_modify_movie", "<int>">>, "form_modify_movie", FormOn)
        /\ L[7] = Route(<<"announcement_update">>, "form_modify_announcement", Form)
        /\ L[8] = Route(<<"add_balance">>, "form_add_funds", Form)
        /\ L[9] = Route(<<"buyticket", "<int>">>, "buy_ticket_page", FormOn)
        /\ L[10] = Route(<<"form_buy_ticket">>, "form_buy_ticket", Form)
        /\ L[11] = Route(<<"form_refund_ticket", "<int>">>, "form_refund_ticket", FormOn)
        /\ L[12] = Route(<<"managemovie", "<int>">>, "manage_movie_page", FormOn)
        /\ L[13] = Route(<<"form_add_screening", "<int>">>, "form_add_screening", FormOn)
        /\ L[14] = Route(<<"form_modify_screening", "<int>">>, "form_modify_screening", FormOn)
    BY DEF MoviesAndTickets
  <1> HIDE DEF L
  <1> USE NothingIsNoWord DEF Firsts, Groups, Route, IndexOf, SiteIndex, MovieIndex, RoomIndex
  <1>2. /\ Group(11, L[2], "findmovie", "<str>", <<"db", "session", "_1">>)
        /\ Group(13, L[4], "movies", "<int>", ListPage)
        /\ Group(15, L[6], "form_modify_movie", "<int>", FormOn)
        /\ Group(18, L[9], "buyticket", "<int>", FormOn)
        /\ Group(20, L[11], "form_refund_ticket", "<int>", FormOn)
        /\ Group(21, L[12], "managemovie", "<int>", FormOn)
        /\ Group(22, L[13], "form_add_screening", "<int>", FormOn)
        /\ Group(23, L[14], "form_modify_screening", "<int>", FormOn)
    BY <1>1 DEF Group
  <1>3. /\ Word(10, L[1], "movie_register", Api)
        /\ Word(12, L[3], "movies", First(ListPage))
        /\ Word(14, L[5], "form_add_movie", Form)
        /\ Word(16, L[7], "announcement_update", Form)
        /\ Word(17, L[8], "add_balance", Form)
        /\ Word(19, L[10], "form_buy_ticket", Form)
    BY <1>1 DEF Word
  <1>4. /\ BodyLast(<<"db", "session", "_1">>)
    BY DEF BodyLast, Uses
  <1> HIDE DEF Firsts, Route, IndexOf, SiteIndex, MovieIndex, RoomIndex
  <1>5. /\ Sound(11, L[2])
        /\ Sound(13, L[4])
        /\ Sound(15, L[6])
        /\ Sound(18, L[9])
        /\ Sound(20, L[11])
        /\ Sound(21, L[12])
        /\ Sound(22, L[13])
        /\ Sound(23, L[14])
    BY <1>2, <1>4, Lists, GroupIsSound
  <1>6. /\ Sound(10, L[1])
        /\ Sound(12, L[3])
        /\ Sound(14, L[5])
        /\ Sound(16, L[7])
        /\ Sound(17, L[8])
        /\ Sound(19, L[10])
    BY <1>3, <1>4, Lists, WordIsSound
  <1> QED BY <1>5, <1>6 DEF L

LEMMA RoomsAreSound == \A i \in 1 .. 11 : Sound(23 + i, RoomsAndComments[i])
  <1> DEFINE L == RoomsAndComments
  <1>1. /\ L[1] = Route(<<"room_register">>, "room_register", Api)
        /\ L[2] = Route(<<"findroom", "<str>">>, "find_room", <<"db", "session", "_1">>)
        /\ L[3] = Route(<<"screening_rooms">>, "view_rooms", First(Page))
        /\ L[4] = Route(<<"screening_rooms", "<int>">>, "view_rooms", Page)
        /\ L[5] = Route(<<"form_add_room">>, "form_add_room", Form)
        /\ L[6] = Route(<<"form_modify_room", "<int>">>, "form_modify_room", FormOn)
        /\ L[7] = Route(<<"managecomments", "<int>">>, "view_comments", Page)
        /\ L[8] = Route(<<"form_add_comment", "<int>">>, "form_add_comment", FormOn)
        /\ L[9] = Route(<<"form_modify_comment", "<int>">>, "form_modify_comment", FormOn)
        /\ L[10] = Route(<<"form_review">>, "form_review", Form)
        /\ L[11] = Route(<<"mycenter">>, "view_mycenter", <<"db", "session", "response">>)
    BY DEF RoomsAndComments
  <1> HIDE DEF L
  <1> USE NothingIsNoWord DEF Firsts, Groups, Route, IndexOf, SiteIndex, MovieIndex, RoomIndex
  <1>2. /\ Group(25, L[2], "findroom", "<str>", <<"db", "session", "_1">>)
        /\ Group(27, L[4], "screening_rooms", "<int>", Page)
        /\ Group(29, L[6], "form_modify_room", "<int>", FormOn)
        /\ Group(30, L[7], "managecomments", "<int>", Page)
        /\ Group(31, L[8], "form_add_comment", "<int>", FormOn)
        /\ Group(32, L[9], "form_modify_comment", "<int>", FormOn)
    BY <1>1 DEF Group
  <1>3. /\ Word(24, L[1], "room_register", Api)
        /\ Word(26, L[3], "screening_rooms", First(Page))
        /\ Word(28, L[5], "form_add_room", Form)
        /\ Word(33, L[10], "form_review", Form)
        /\ Word(34, L[11], "mycenter", <<"db", "session", "response">>)
    BY <1>1 DEF Word
  <1>4. /\ BodyLast(<<"db", "session", "_1">>)
        /\ BodyLast(<<"db", "session", "response">>)
        /\ ~Uses(<<"db", "session", "response">>)
    BY DEF BodyLast, Uses
  <1> HIDE DEF Firsts, Route, IndexOf, SiteIndex, MovieIndex, RoomIndex
  <1>5. /\ Sound(25, L[2])
        /\ Sound(27, L[4])
        /\ Sound(29, L[6])
        /\ Sound(30, L[7])
        /\ Sound(31, L[8])
        /\ Sound(32, L[9])
    BY <1>2, <1>4, Lists, GroupIsSound
  <1>6. /\ Sound(24, L[1])
        /\ Sound(26, L[3])
        /\ Sound(28, L[5])
        /\ Sound(33, L[10])
        /\ Sound(34, L[11])
    BY <1>3, <1>4, Lists, WordIsSound
  <1> QED BY <1>5, <1>6 DEF L

\* The table of paths is its three parts, one behind the other.
LEMMA TableRows ==
  /\ Len(paths_) = 34 /\ DOMAIN paths_ = 1 .. 34
  /\ \A i \in 1 .. 9 : paths_[i] = SiteAndUsers[i]
  /\ \A i \in 1 .. 14 : paths_[9 + i] = MoviesAndTickets[i]
  /\ \A i \in 1 .. 11 : paths_[23 + i] = RoomsAndComments[i]
  <1> DEFINE A == SiteAndUsers
             B == MoviesAndTickets
             C == RoomsAndComments
  <1>1. A \in Seq({A[i] : i \in 1 .. 9}) /\ Len(A) = 9
    <2>1. Len(A) = 9 /\ DOMAIN A = 1 .. 9
      BY DEF SiteAndUsers
    <2>2. A = [i \in 1 .. 9 |-> A[i]]
      BY DEF SiteAndUsers
    <2> HIDE DEF A
    <2> QED BY <2>1, <2>2
  <1>2. B \in Seq({B[i] : i \in 1 .. 14}) /\ Len(B) = 14
    <2>1. Len(B) = 14 /\ DOMAIN B = 1 .. 14
      BY DEF MoviesAndTickets
    <2>2. B = [i \in 1 .. 14 |-> B[i]]
      BY DEF MoviesAndTickets
    <2> HIDE DEF B
    <2> QED BY <2>1, <2>2
  <1>3. C \in Seq({C[i] : i \in 1 .. 11}) /\ Len(C) = 11
    <2>1. Len(C) = 11 /\ DOMAIN C = 1 .. 11
      BY DEF RoomsAndComments
    <2>2. C = [i \in 1 .. 11 |-> C[i]]
      BY DEF RoomsAndComments
    <2> HIDE DEF C
    <2> QED BY <2>1, <2>2
  <1>4. paths_ = A \o B \o C
    BY DEF paths_
  <1> HIDE DEF A, B, C
  <1>5. ASSUME NEW R, NEW S, NEW T, NEW r \in Seq(R), NEW s \in Seq(S), NEW t \in Seq(T)
        PROVE  /\ Len(r \o s \o t) = Len(r) + Len(s) + Len(t)
               /\ DOMAIN (r \o s \o t) = 1 .. Len(r) + Len(s) + Len(t)
               /\ \A i \in 1 .. Len(r) : (r \o s \o t)[i] = r[i]
               /\ \A i \in 1 .. Len(s) : (r \o s \o t)[Len(r) + i] = s[i]
               /\ \A i \in 1 .. Len(t) : (r \o s \o t)[Len(r) + Len(s) + i] = t[i]
    <2> r \in Seq(R \cup S \cup T) /\ s \in Seq(R \cup S \cup T) /\ t \in Seq(R \cup S \cup T)
      OBVIOUS
    <2>1. r \o s \in Seq(R \cup S \cup T) /\ Len(r \o s) = Len(r) + Len(s)
      OBVIOUS
    <2>2. \A i \in 1 .. Len(r) : (r \o s)[i] = r[i]
      OBVIOUS
    <2>3. \A i \in 1 .. Len(s) : (r \o s)[Len(r) + i] = s[i]
      OBVIOUS
    <2> QED BY <2>1, <2>2, <2>3
  <1>6. /\ Len(paths_) = 9 + 14 + 11
        /\ \A i \in 1 .. 9 : paths_[i] = A[i]
        /\ \A i \in 1 .. 14 : paths_[9 + i] = B[i]
        /\ \A i \in 1 .. 11 : paths_[9 + 14 + i] = C[i]
        /\ DOMAIN paths_ = 1 .. 9 + 14 + 11
    <2>1. PICK R, S, T : A \in Seq(R) /\ B \in Seq(S) /\ C \in Seq(T)
      BY <1>1, <1>2, <1>3
    <2>2. /\ Len(A \o B \o C) = Len(A) + Len(B) + Len(C)
          /\ DOMAIN (A \o B \o C) = 1 .. Len(A) + Len(B) + Len(C)
          /\ \A i \in 1 .. Len(A) : (A \o B \o C)[i] = A[i]
          /\ \A i \in 1 .. Len(B) : (A \o B \o C)[Len(A) + i] = B[i]
          /\ \A i \in 1 .. Len(C) : (A \o B \o C)[Len(A) + Len(B) + i] = C[i]
      BY <1>5, <2>1
    <2>3. Len(A) = 9 /\ Len(B) = 14 /\ Len(C) = 11
      BY <1>1, <1>2, <1>3
    <2> QED BY <1>4, <2>2, <2>3
  <1> QED BY <1>6 DEF A, B, C

\* The table of paths is sound.
LEMMA TableIsSound == /\ Len(paths_) = 34 /\ \A i \in 1 .. 34 : i \in DOMAIN paths_
                      /\ \A i \in DOMAIN paths_ : i \in 1 .. 34 /\ Sound(i, paths_[i])
  <1>1. /\ \A i \in 1 .. 9 : Sound(i, SiteAndUsers[i])
        /\ \A i \in 1 .. 14 : Sound(9 + i, MoviesAndTickets[i])
        /\ \A i \in 1 .. 11 : Sound(23 + i, RoomsAndComments[i])
    BY SiteIsSound, MoviesAreSound, RoomsAreSound
  <1>2. ASSUME NEW i \in 1 .. 34
        PROVE  Sound(i, paths_[i])
    <2>1. CASE i \in 1 .. 9
      BY <1>1, <2>1, TableRows
    <2>2. CASE i \in 10 .. 23
      <3>1. i - 9 \in 1 .. 14 /\ 9 + (i - 9) = i
        BY <2>2
      <3> QED BY <1>1, <3>1, TableRows
    <2>3. CASE i \in 24 .. 34
      <3>1. i - 23 \in 1 .. 11 /\ 23 + (i - 23) = i
        BY <2>3
      <3> QED BY <1>1, <3>1, TableRows
    <2> QED BY <2>1, <2>2, <2>3
  <1> QED BY <1>2, TableRows

\* What matches a path is given by its first piece and its length.
LEMMA MatchIsIndexed ==
  ASSUME NEW p \in Seq(STRING), NEW i \in DOMAIN paths_, Matches(i, p)
  PROVE  i = IndexOf(p[1], Len(p))
  <1> DEFINE r == paths_[i]
             n == Len(r.pattern)
             open == r.pattern[n] = "<path>"
  <1>1. Sound(i, r) /\ Len(p) \in Nat /\ DOMAIN p = 1 .. Len(p)
    BY TableIsSound
  <1>2. /\ IF open THEN Len(p) >= n /\ SubSeq(p, n, Len(p)) # <<Nothing>> ELSE Len(p) = n
        /\ \A m \in DOMAIN p : IF open /\ m >= n THEN p[m] \notin Odd
                                                 ELSE Accepts(r.pattern[m], p[m])
    BY DEF Matches
  <1>3. /\ n \in {1, 2} /\ r.pattern[1] \notin Groups
        /\ open => r.pattern[1] = "statics"
        /\ IndexOf(r.pattern[1], n) = i
    BY <1>1 DEF Sound
  <1> HIDE DEF r
  <1>4. CASE open
    <2>1. n = 2
      BY <1>3, <1>4 DEF Groups
    <2>2. Len(p) >= 2 /\ 1 \in DOMAIN p /\ Accepts(r.pattern[1], p[1])
      <3>1. Len(p) >= 2
        BY <1>2, <1>4, <2>1
      <3> QED BY <1>1, <1>2, <2>1, <3>1
    <2>3. p[1] = "statics"
      BY <1>3, <1>4, <2>2 DEF Accepts
    <2>4. \A k : IndexOf("statics", k) = IndexOf("statics", 2)
      BY DEF IndexOf, SiteIndex, MovieIndex, RoomIndex
    <2> QED BY <1>3, <1>4, <2>1, <2>3, <2>4
  <1>5. CASE ~open
    <2>1. Len(p) = n /\ 1 \in DOMAIN p
      BY <1>1, <1>2, <1>3, <1>5
    <2>2. Accepts(r.pattern[1], p[1])
      BY <1>2, <1>5, <2>1
    <2>3. p[1] = r.pattern[1]
      BY <1>3, <2>2 DEF Accepts, Groups
    <2> QED BY <1>3, <2>1, <2>3
  <1> QED BY <1>4, <1>5

-----------------------------------------------------------------------------
(* The request on its way to the handler *)

Found == next \in DOMAIN paths_ /\ Matches(next, path) /\ url_params = Submatches(next)

NoneBefore(n) == \A i \in DOMAIN paths_ : i < n => ~Matches(i, path)

\* Where the search for a path stands, and what was evaluated.
RoutingInv ==
  /\ path \in Seq(STRING) /\ next \in 1 .. 35
  /\ status \in {"routing", "evaluating", "running", "200", "400", "404", "500"}
  /\ IF status = "routing" THEN url_params = <<>> /\ left = 0 /\ NoneBefore(next)
     ELSE Found \/ (url_params = <<>> /\ left = 0 /\ status = "404" /\ NoneBefore(35))
  /\ left \in Nat /\ (left > 0 => Found /\ left <= Len(paths_[next].parameters))
  /\ got \subseteq {"session", "db"} /\ (got # {} => status \in {"evaluating", "running"})
  /\ status = "evaluating" =>
       \A m \in DOMAIN paths_[next].parameters :
         m > left /\ paths_[next].parameters[m] = "session" => "session" \in got

\* A step that is not a step of the router's own variables.
LEMMA RoutingInit == RouterInit => RoutingInv
  <1> SUFFICES ASSUME RouterInit PROVE RoutingInv
    OBVIOUS
  <1>1. path \in Seq(STRING)
    BY RequestsAssumption DEF RouterInit
  <1>2. NoneBefore(1)
    BY TableIsSound DEF NoneBefore
  <1> QED BY <1>1, <1>2 DEF RouterInit, RoutingInv

LEMMA RoutingStep == RoutingInv /\ [RouterNext]_routerVars => RoutingInv'
  <1> SUFFICES ASSUME RoutingInv, [RouterNext]_routerVars PROVE RoutingInv'
    OBVIOUS
  <1> USE DEF RoutingInv
  <1>0. next \in 1 .. 35
    OBVIOUS
  <1>1. CASE TryPath
    <2>0. /\ InTable(next) => next \in 1 .. 34 /\ next \in DOMAIN paths_ /\ next + 1 \in 1 .. 35
          /\ ~InTable(next) => next = 35
          /\ \A i \in DOMAIN paths_ : i \in Int /\ i < 35
          /\ InTable(next) => BodyLast(paths_[next].parameters)
      <3> HIDE DEF RoutingInv
      <3>1. Len(paths_) = 34
        BY TableIsSound
      <3>2. InTable(next) => next \in 1 .. 34 /\ next + 1 \in 1 .. 35
        BY <1>0, <3>1 DEF InTable
      <3>3. ~InTable(next) => next = 35
        BY <1>0, <3>1 DEF InTable
      <3>4. \A i \in 1 .. 34 : i \in DOMAIN paths_ /\ BodyLast(paths_[i].parameters)
        BY TableIsSound DEF Sound
      <3>5. \A i \in DOMAIN paths_ : i \in Int /\ i < 35
        BY TableIsSound
      <3> QED BY <3>2, <3>3, <3>4, <3>5
    <2> USE <1>1 DEF TryPath
    <2>1. UNCHANGED <<path, got>> /\ got = {} /\ status = "routing" /\ left = 0
      OBVIOUS
    <2>2. CASE InTable(next) /\ Matches(next, path) /\ status' = "evaluating"
      <3>1. /\ url_params' = Submatches(next) /\ next' = next
            /\ left' = Len(paths_[next].parameters)
        BY <2>2
      <3>2. /\ next \in DOMAIN paths_ /\ BodyLast(paths_[next].parameters)
        BY <2>0, <2>2
      <3>3. Found'
        BY <2>1, <2>2, <3>1, <3>2 DEF Found, Matches, Submatches, GroupsOnly
      <3>4. /\ left' \in Nat /\ left' <= Len(paths_[next].parameters)
            /\ \A m \in DOMAIN paths_[next].parameters : ~(m > left')
        BY <3>1, <3>2 DEF BodyLast
      <3> QED BY <2>1, <2>2, <3>1, <3>3, <3>4
    <2>3. CASE InTable(next) /\ ~Matches(next, path) /\ next' = next + 1
      <3>1. UNCHANGED <<status, url_params, left>>
        BY <2>3
      <3>2. next + 1 \in 1 .. 35
        BY <2>0, <2>3
      <3>3. NoneBefore(next + 1)
        BY <2>0, <2>1, <2>3 DEF NoneBefore
      <3>4. NoneBefore(next)'
        BY <2>1, <2>3, <3>3 DEF NoneBefore, Matches
      <3> QED BY <2>1, <2>3, <3>1, <3>2, <3>4
    <2>4. CASE ~InTable(next) /\ status' = "404"
      <3>1. UNCHANGED <<next, url_params, left>>
        BY <2>4
      <3>2. NoneBefore(35)
        BY <2>0, <2>1, <2>4 DEF NoneBefore
      <3>3. NoneBefore(35)'
        BY <2>1, <3>2 DEF NoneBefore, Matches
      <3> QED BY <2>1, <2>4, <3>1, <3>3
    <2> QED BY <2>2, <2>3, <2>4
  <1>2. ASSUME UNCHANGED <<path, next, url_params>>
        PROVE  (Found' = Found) /\ (\A n : NoneBefore(n)' = NoneBefore(n))
    BY <1>2 DEF Found, NoneBefore, Matches, Submatches, GroupsOnly
  <1>3. CASE Pass
    BY <1>2, <1>3 DEF Pass, Evaluating, Turn
  <1>4. CASE GetSession
    BY <1>2, <1>4 DEF GetSession, Evaluating, Turn
  <1>5. CASE GetConnection
    BY <1>2, <1>5 DEF GetConnection, Evaluating, Turn
  <1>6. CASE JsonParams
    <2>1. Evaluating({"json"}) /\ UNCHANGED <<path, next, url_params>>
      BY <1>6 DEF JsonParams
    <2>2. \/ UNCHANGED <<left, status, got>>
          \/ left' = left - 1 /\ UNCHANGED <<status, got>>
          \/ status' \in {"400", "500"} /\ got' = {} /\ UNCHANGED left
      BY <1>6 DEF JsonParams
    <2>3. Evaluating({"json"}) => /\ status = "evaluating" /\ left > 0
                                  /\ paths_[next].parameters[left] # "session"
      BY DEF Evaluating, Turn
    <2>4. CASE UNCHANGED <<left, status, got>>
      BY <1>2, <2>1, <2>4
    <2>5. CASE left' = left - 1 /\ UNCHANGED <<status, got>>
      BY <1>2, <2>1, <2>3, <2>5
    <2>6. CASE status' \in {"400", "500"} /\ got' = {} /\ UNCHANGED left
      BY <1>2, <2>1, <2>3, <2>6
    <2> QED BY <2>2, <2>4, <2>5, <2>6
  <1>7. CASE Invoke
    BY <1>2, <1>7 DEF Invoke
  <1>8. CASE Run
    BY <1>2, <1>8 DEF Run
  <1>9. CASE Return
    BY <1>2, <1>9 DEF Return, Threw
  <1>10. CASE UNCHANGED routerVars
    BY <1>2, <1>10 DEF routerVars
  <1> QED BY <1>1, <1>3, <1>4, <1>5, <1>6, <1>7, <1>8, <1>9, <1>10 DEF RouterNext

\* No request matches two routes.
LEMMA OneMatches == RoutingInv => OneRouteMatches
  <1> SUFFICES ASSUME RoutingInv, status # "routing", NEW i \in DOMAIN paths_, Matches(i, path)
               PROVE  i = next /\ Routed
    BY DEF OneRouteMatches
  <1>1. path \in Seq(STRING) /\ (Found \/ NoneBefore(35))
    BY DEF RoutingInv
  <1>2. i \in Int /\ i < 35
    BY TableIsSound
  <1>3. Found
    BY <1>1, <1>2 DEF NoneBefore
  <1>4. i = next
    BY <1>1, <1>3, MatchIsIndexed DEF Found
  <1>5. url_params # <<>>
    BY <1>3 DEF Found, Submatches, GroupsOnly
  <1> QED BY <1>3, <1>4, <1>5 DEF Found, Routed

\* What is evaluated is one of the parameters of the route that was found.
LEMMA TurnIsOne ==
  ASSUME RoutingInv, NEW kinds, Evaluating(kinds)
  PROVE  /\ Found /\ Sound(next, paths_[next]) /\ left \in DOMAIN paths_[next].parameters
         /\ paths_[next].parameters[left] \in kinds
  <1>1. Found /\ left \in Nat /\ left > 0 /\ left <= Len(paths_[next].parameters)
    BY DEF RoutingInv, Evaluating
  <1>2. Sound(next, paths_[next])
    BY <1>1, TableIsSound DEF Found
  <1> QED BY <1>1, <1>2 DEF Sound, BodyLast, Evaluating, Turn

LEMMA UrlParams == RoutingInv => UrlParamsExist
  <1> SUFFICES ASSUME RoutingInv, Evaluating({"_1"})
               PROVE  Len(url_params) > 1
    BY DEF UrlParamsExist
  <1>1. /\ Found /\ Sound(next, paths_[next]) /\ left \in DOMAIN paths_[next].parameters
        /\ paths_[next].parameters[left] = "_1"
    BY TurnIsOne
  <1>2. paths_[next].pattern[Len(paths_[next].pattern)] \in Groups
    BY <1>1 DEF Sound, Uses
  <1>3. GroupsOnly(next) = <<Len(paths_[next].pattern)>>
    BY <1>2 DEF GroupsOnly, Groups
  <1>4. Len(<<0>> \o GroupsOnly(next)) = 2
    BY <1>3
  <1> QED BY <1>1, <1>4 DEF Found, Submatches

LEMMA SessionFirst == RoutingInv => SessionBeforeBody
  <1> SUFFICES ASSUME RoutingInv, Evaluating({"json"}),
                      NEW i \in DOMAIN paths_[next].parameters,
                      paths_[next].parameters[i] = "session"
               PROVE  "session" \in got
    BY DEF SessionBeforeBody
  <1>1. /\ Found /\ Sound(next, paths_[next]) /\ left \in DOMAIN paths_[next].parameters
        /\ paths_[next].parameters[left] = "json"
    BY TurnIsOne
  <1>2. left < i
    BY <1>1 DEF Sound, BodyLast
  <1>3. left \in Nat /\ i \in Nat
    BY <1>1 DEF Sound, BodyLast
  <1> QED BY <1>2, <1>3 DEF RoutingInv, Evaluating

LEMMA RoutingInvariance == RouterSpec => []RoutingInv
  BY RoutingInit, RoutingStep, PTL DEF RouterSpec

\* router.hpp:433-453: no request matches two paths of the table, whatever numbers and odd
\* names are, so that their order decides nothing.
THEOREM OneRouteOnly == RouterSpec => []OneRouteMatches
  BY RoutingInvariance, OneMatches, PTL

\* Row r of the table has this pattern and this handler.
Leads(r, pattern, handler) == r.pattern = pattern /\ r.handler = handler

\* A path that is a word of the table, or such a word and a number, matches its row.
LEMMA WordMatches ==
  ASSUME NEW i \in DOMAIN paths_, NEW w, w \notin Groups, path = <<w>>,
         paths_[i].pattern = <<w>>
  PROVE  Matches(i, path)
  BY DEF Matches, Accepts, Groups

LEMMA NumberMatches ==
  ASSUME NEW i \in DOMAIN paths_, NEW w, w \notin Groups, NEW n \in Number,
         path = <<w, n>>, paths_[i].pattern = <<w, "<int>">>
  PROVE  Matches(i, path)
  BY DEF Matches, Accepts, Groups

LEMMA LinkRows ==
  /\ \A l \in Links : \E i \in DOMAIN paths_ : Leads(paths_[i], <<l[1]>>, l[2])
  /\ \A l \in NumberLinks : \E i \in DOMAIN paths_ : Leads(paths_[i], <<l[1], "<int>">>, l[2])
  <1>1. /\ Leads(SiteAndUsers[2], <<Nothing>>, "view_movies")
        /\ Leads(SiteAndUsers[3], <<"form_login">>, "form_login")
        /\ Leads(SiteAndUsers[4], <<"form_logout">>, "form_logout")
        /\ Leads(SiteAndUsers[5], <<"users">>, "view_users")
        /\ Leads(SiteAndUsers[6], <<"users", "<int>">>, "view_users")
        /\ Leads(SiteAndUsers[7], <<"form_add_user">>, "form_add_user")
        /\ Leads(SiteAndUsers[8], <<"form_register">>, "form_register")
        /\ Leads(SiteAndUsers[9], <<"form_modify_user", "<int>">>, "form_modify_user")
    BY DEF Leads, Route, SiteAndUsers
  <1>2. /\ Leads(MoviesAndTickets[4], <<"movies", "<int>">>, "view_movies")
        /\ Leads(MoviesAndTickets[5], <<"form_add_movie">>, "form_add_movie")
        /\ Leads(MoviesAndTickets[6], <<"form_modify_movie", "<int>">>, "form_modify_movie")
        /\ Leads(MoviesAndTickets[7], <<"announcement_update">>, "form_modify_announcement")
        /\ Leads(MoviesAndTickets[8], <<"add_balance">>, "form_add_funds")
        /\ Leads(MoviesAndTickets[9], <<"buyticket", "<int>">>, "buy_ticket_page")
        /\ Leads(MoviesAndTickets[10], <<"form_buy_ticket">>, "form_buy_ticket")
        /\ Leads(MoviesAndTickets[11], <<"form_refund_ticket", "<int>">>, "form_refund_ticket")
        /\ Leads(MoviesAndTickets[12], <<"managemovie", "<int>">>, "manage_movie_page")
        /\ Leads(MoviesAndTickets[13], <<"form_add_screening", "<int>">>, "form_add_screening")
        /\ Leads(MoviesAndTickets[14], <<"form_modify_screening", "<int>">>, "form_modify_screening")
    BY DEF Leads, Route, MoviesAndTickets
  <1>3. /\ Leads(RoomsAndComments[3], <<"screening_rooms">>, "view_rooms")
        /\ Leads(RoomsAndComments[5], <<"form_add_room">>, "form_add_room")
        /\ Leads(RoomsAndComments[6], <<"form_modify_room", "<int>">>, "form_modify_room")
        /\ Leads(RoomsAndComments[7], <<"managecomments", "<int>">>, "view_comments")
        /\ Leads(RoomsAndComments[8], <<"form_add_comment", "<int>">>, "form_add_comment")
        /\ Leads(RoomsAndComments[9], <<"form_modify_comment", "<int>">>, "form_modify_comment")
        /\ Leads(RoomsAndComments[10], <<"form_review">>, "form_review")
        /\ Leads(RoomsAndComments[11], <<"mycenter">>, "view_mycenter")
    BY DEF Leads, Route, RoomsAndComments
  <1>4. /\ \A i \in 1 .. 9 : paths_[i] = SiteAndUsers[i]
        /\ \A i \in 1 .. 14 : paths_[9 + i] = MoviesAndTickets[i]
        /\ \A i \in 1 .. 11 : paths_[23 + i] = RoomsAndComments[i]
        /\ DOMAIN paths_ = 1 .. 34
    BY TableRows
  <1> DEFINE InRow(p, h) == \E i \in DOMAIN paths_ : Leads(paths_[i], p, h)
  <1>5. /\ InRow(<<Nothing>>, "view_movies")
        /\ InRow(<<"form_login">>, "form_login")
        /\ InRow(<<"form_logout">>, "form_logout")
        /\ InRow(<<"users">>, "view_users")
        /\ InRow(<<"form_add_user">>, "form_add_user")
        /\ InRow(<<"form_register">>, "form_register")
        /\ InRow(<<"form_add_movie">>, "form_add_movie")
        /\ InRow(<<"announcement_update">>, "form_modify_announcement")
        /\ InRow(<<"add_balance">>, "form_add_funds")
        /\ InRow(<<"form_buy_ticket">>, "form_buy_ticket")
        /\ InRow(<<"screening_rooms">>, "view_rooms")
        /\ InRow(<<"form_add_room">>, "form_add_room")
        /\ InRow(<<"form_review">>, "form_review")
        /\ InRow(<<"mycenter">>, "view_mycenter")
    <2>1. InRow(<<Nothing>>, "view_movies")
      <3>1. paths_[2] = SiteAndUsers[2]
        BY <1>4
      <3> QED BY <1>4, <1>1, <3>1
    <2>2. InRow(<<"form_login">>, "form_login")
      <3>1. paths_[3] = SiteAndUsers[3]
        BY <1>4
      <3> QED BY <1>4, <1>1, <3>1
    <2>3. InRow(<<"form_logout">>, "form_logout")
      <3>1. paths_[4] = SiteAndUsers[4]
        BY <1>4
      <3> QED BY <1>4, <1>1, <3>1
    <2>4. InRow(<<"users">>, "view_users")
      <3>1. paths_[5] = SiteAndUsers[5]
        BY <1>4
      <3> QED BY <1>4, <1>1, <3>1
    <2>5. InRow(<<"form_add_user">>, "form_add_user")
      <3>1. paths_[7] = SiteAndUsers[7]
        BY <1>4
      <3> QED BY <1>4, <1>1, <3>1
    <2>6. InRow(<<"form_register">>, "form_register")
      <3>1. paths_[8] = SiteAndUsers[8]
        BY <1>4
      <3> QED BY <1>4, <1>1, <3>1
    <2>7. InRow(<<"form_add_movie">>, "form_add_movie")
      <3>1. paths_[9 + 5] = MoviesAndTickets[5]
        BY <1>4
      <3> QED BY <1>4, <1>2, <3>1
    <2>8. InRow(<<"announcement_update">>, "form_modify_announcement")
      <3>1. paths_[9 + 7] = MoviesAndTickets[7]
        BY <1>4
      <3> QED BY <1>4, <1>2, <3>1
    <2>9. InRow(<<"add_balance">>, "form_add_funds")
      <3>1. paths_[9 + 8] = MoviesAndTickets[8]
        BY <1>4
      <3> QED BY <1>4, <1>2, <3>1
    <2>10. InRow(<<"form_buy_ticket">>, "form_buy_ticket")
      <3>1. paths_[9 + 10] = MoviesAndTickets[10]
        BY <1>4
      <3> QED BY <1>4, <1>2, <3>1
    <2>11. InRow(<<"screening_rooms">>, "view_rooms")
      <3>1. paths_[23 + 3] = RoomsAndComments[3]
        BY <1>4
      <3> QED BY <1>4, <1>3, <3>1
    <2>12. InRow(<<"form_add_room">>, "form_add_room")
      <3>1. paths_[23 + 5] = RoomsAndComments[5]
        BY <1>4
      <3> QED BY <1>4, <1>3, <3>1
    <2>13. InRow(<<"form_review">>, "form_review")
      <3>1. paths_[23 + 10] = RoomsAndComments[10]
        BY <1>4
      <3> QED BY <1>4, <1>3, <3>1
    <2>14. InRow(<<"mycenter">>, "view_mycenter")
      <3>1. paths_[23 + 11] = RoomsAndComments[11]
        BY <1>4
      <3> QED BY <1>4, <1>3, <3>1
    <2> QED BY <2>1, <2>2, <2>3, <2>4, <2>5, <2>6, <2>7, <2>8, <2>9, <2>10, <2>11, <2>12, <2>13, <2>14
  <1>6. /\ InRow(<<"users", "<int>">>, "view_users")
        /\ InRow(<<"form_modify_user", "<int>">>, "form_modify_user")
        /\ InRow(<<"movies", "<int>">>, "view_movies")
        /\ InRow(<<"form_modify_movie", "<int>">>, "form_modify_movie")
        /\ InRow(<<"buyticket", "<int>">>, "buy_ticket_page")
        /\ InRow(<<"form_refund_ticket", "<int>">>, "form_refund_ticket")
        /\ InRow(<<"managemovie", "<int>">>, "manage_movie_page")
        /\ InRow(<<"form_add_screening", "<int>">>, "form_add_screening")
        /\ InRow(<<"form_modify_screening", "<int>">>, "form_modify_screening")
        /\ InRow(<<"form_modify_room", "<int>">>, "form_modify_room")
        /\ InRow(<<"managecomments", "<int>">>, "view_comments")
        /\ InRow(<<"form_add_comment", "<int>">>, "form_add_comment")
        /\ InRow(<<"form_modify_comment", "<int>">>, "form_modify_comment")
    <2>1. InRow(<<"users", "<int>">>, "view_users")
      <3>1. paths_[6] = SiteAndUsers[6]
        BY <1>4
      <3> QED BY <1>4, <1>1, <3>1
    <2>2. InRow(<<"form_modify_user", "<int>">>, "form_modify_user")
      <3>1. paths_[9] = SiteAndUsers[9]
        BY <1>4
      <3> QED BY <1>4, <1>1, <3>1
    <2>3. InRow(<<"movies", "<int>">>, "view_movies")
      <3>1. paths_[9 + 4] = MoviesAndTickets[4]
        BY <1>4
      <3> QED BY <1>4, <1>2, <3>1
    <2>4. InRow(<<"form_modify_movie", "<int>">>, "form_modify_movie")
      <3>1. paths_[9 + 6] = MoviesAndTickets[6]
        BY <1>4
      <3> QED BY <1>4, <1>2, <3>1
    <2>5. InRow(<<"buyticket", "<int>">>, "buy_ticket_page")
      <3>1. paths_[9 + 9] = MoviesAndTickets[9]
        BY <1>4
      <3> QED BY <1>4, <1>2, <3>1
    <2>6. InRow(<<"form_refund_ticket", "<int>">>, "form_refund_ticket")
      <3>1. paths_[9 + 11] = MoviesAndTickets[11]
        BY <1>4
      <3> QED BY <1>4, <1>2, <3>1
    <2>7. InRow(<<"managemovie", "<int>">>, "manage_movie_page")
      <3>1. paths_[9 + 12] = MoviesAndTickets[12]
        BY <1>4
      <3> QED BY <1>4, <1>2, <3>1
    <2>8. InRow(<<"form_add_screening", "<int>">>, "form_add_screening")
      <3>1. paths_[9 + 13] = MoviesAndTickets[13]
        BY <1>4
      <3> QED BY <1>4, <1>2, <3>1
    <2>9. InRow(<<"form_modify_screening", "<int>">>, "form_modify_screening")
      <3>1. paths_[9 + 14] = MoviesAndTickets[14]
        BY <1>4
      <3> QED BY <1>4, <1>2, <3>1
    <2>10. InRow(<<"form_modify_room", "<int>">>, "form_modify_room")
      <3>1. paths_[23 + 6] = RoomsAndComments[6]
        BY <1>4
      <3> QED BY <1>4, <1>3, <3>1
    <2>11. InRow(<<"managecomments", "<int>">>, "view_comments")
      <3>1. paths_[23 + 7] = RoomsAndComments[7]
        BY <1>4
      <3> QED BY <1>4, <1>3, <3>1
    <2>12. InRow(<<"form_add_comment", "<int>">>, "form_add_comment")
      <3>1. paths_[23 + 8] = RoomsAndComments[8]
        BY <1>4
      <3> QED BY <1>4, <1>3, <3>1
    <2>13. InRow(<<"form_modify_comment", "<int>">>, "form_modify_comment")
      <3>1. paths_[23 + 9] = RoomsAndComments[9]
        BY <1>4
      <3> QED BY <1>4, <1>3, <3>1
    <2> QED BY <2>1, <2>2, <2>3, <2>4, <2>5, <2>6, <2>7, <2>8, <2>9, <2>10, <2>11, <2>12, <2>13
  <1> HIDE DEF InRow
  <1>7. \A l \in Links : InRow(<<l[1]>>, l[2])
    BY <1>5 DEF Links
  <1>8. \A l \in NumberLinks : InRow(<<l[1], "<int>">>, l[2])
    BY <1>6 DEF NumberLinks
  <1> QED BY <1>7, <1>8 DEF InRow

\* None of the words that no route has is taken for one.
LEMMA DeadMatchNothing ==
  ASSUME NEW d \in DeadLinks, NEW n, NEW p \in Seq(STRING), p = <<d, n>>,
         NEW i \in DOMAIN paths_, Matches(i, p)
  PROVE  FALSE
  <1>1. Nothing \notin DeadLinks
    BY DEF Nothing, DeadLinks
  <1>2. IndexOf(d, 2) = 0
    BY <1>1 DEF IndexOf, SiteIndex, MovieIndex, RoomIndex, DeadLinks
  <1>3. Len(p) = 2 /\ p[1] = d
    OBVIOUS
  <1>4. i = IndexOf(d, 2)
    BY <1>3, MatchIsIndexed
  <1> QED BY <1>2, <1>4, TableRows

LEMMA LinksRight == RoutingInv => LinksLandButDeadOnes
  <1> SUFFICES ASSUME RoutingInv, status # "routing" PROVE LinksLandButDeadOnes
    BY DEF LinksLandButDeadOnes
  <1>1. ASSUME NEW i \in DOMAIN paths_, NEW h, Matches(i, path), paths_[i].handler = h
        PROVE  LeadsTo(h)
    BY <1>1, OneMatches DEF OneRouteMatches, LeadsTo
  <1>2. ASSUME NEW l \in Links, path = <<l[1]>> PROVE LeadsTo(l[2])
    <2>1. l[1] \notin Groups
      BY NothingIsNoWord DEF Links, Groups
    <2> QED BY <1>1, <1>2, <2>1, LinkRows, WordMatches DEF Leads
  <1>3. ASSUME NEW n \in Number, NEW l \in NumberLinks, path = <<l[1], n>> PROVE LeadsTo(l[2])
    <2>1. l[1] \notin Groups
      BY DEF NumberLinks, Groups
    <2> QED BY <1>1, <1>3, <2>1, LinkRows, NumberMatches DEF Leads
  <1>4. ASSUME NEW n \in Number, NEW d \in DeadLinks, path = <<d, n>> PROVE status = "404"
    <2>1. path \in Seq(STRING)
      BY DEF RoutingInv
    <2>2. ~Found
      BY <1>4, <2>1, DeadMatchNothing DEF Found
    <2> QED BY <2>2 DEF RoutingInv
  <1> QED BY <1>2, <1>3, <1>4 DEF LinksLandButDeadOnes

\* router.hpp:428-455 with the table of WebApp.cpp and the paths in the templates: every link
\* and form of a page leads to the handler it is meant for, whatever the number in it, except
\* those to /moviess, /rooms and /roomss, which always get a 404.
THEOREM LinksAlwaysLand == RouterSpec => []LinksLandButDeadOnes
  BY RoutingInvariance, LinksRight, PTL

\* router.hpp:154: url_params[1] is there whenever a handler is given it.
THEOREM UrlParamsAlwaysExist == RouterSpec => []UrlParamsExist
  BY RoutingInvariance, UrlParams, PTL

\* router.hpp:287-332 with the lists of WebApp.cpp:95-299: in every handler that wants both,
\* the request has its session before its body is looked at.
THEOREM SessionsComeFirst == RouterSpec => []SessionBeforeBody
  BY RoutingInvariance, SessionFirst, PTL

-----------------------------------------------------------------------------
(* Sequences of sequences, joined *)

\* The function that FlattenSeq chooses, of what the first i sequences are when joined.
IsFlat(g, q, D) == g = [i \in D |-> IF i = 1 THEN q[i] ELSE g[i - 1] \o q[i]]

LEMMA FlatExists ==
  ASSUME NEW S, NEW q \in Seq(Seq(S))
  PROVE  \E g \in [1 .. Len(q) -> Seq(S)] : IsFlat(g, q, 1 .. Len(q))
  <1> DEFINE Step(g, i) == IF i = 1 THEN q[i] ELSE g[i - 1] \o q[i]
             UpTo(g, n) == \A i \in 1 .. Len(q) : i <= n => g[i] = Step(g, i)
             Failing == {n \in Nat : ~ \E g \in [1 .. Len(q) -> Seq(S)] : UpTo(g, n)}
  <1>0. Len(q) \in Nat /\ \A i \in 1 .. Len(q) : q[i] \in Seq(S)
    OBVIOUS
  <1>1. ASSUME NEW g \in [1 .. Len(q) -> Seq(S)]
        PROVE  [i \in 1 .. Len(q) |-> Step(g, i)] \in [1 .. Len(q) -> Seq(S)]
    <2>1. ASSUME NEW i \in 1 .. Len(q)
          PROVE  Step(g, i) \in Seq(S)
      <3>1. q[i] \in Seq(S)
        BY <1>0
      <3>2. CASE i = 1
        BY <3>1, <3>2
      <3>3. CASE i # 1
        <4>1. i - 1 \in 1 .. Len(q)
          BY <1>0, <3>3
        <4>2. g[i - 1] \in Seq(S)
          BY <4>1
        <4> QED BY <3>1, <3>3, <4>2
      <3> QED BY <3>2, <3>3
    <2> HIDE DEF Step
    <2> QED BY <2>1
  <1>2. ASSUME NEW n \in Nat, NEW g \in [1 .. Len(q) -> Seq(S)], UpTo(g, n)
        PROVE  UpTo([i \in 1 .. Len(q) |-> Step(g, i)], n + 1)
    <2> DEFINE h == [i \in 1 .. Len(q) |-> Step(g, i)]
    <2> SUFFICES ASSUME NEW i \in 1 .. Len(q), i <= n + 1
                 PROVE  h[i] = Step(h, i)
      OBVIOUS
    <2>1. CASE i = 1
      BY <2>1
    <2>2. CASE i # 1
      <3>1. i - 1 \in 1 .. Len(q) /\ i - 1 <= n
        BY <1>0, <2>2
      <3>2. h[i - 1] = g[i - 1]
        BY <1>2, <3>1
      <3>3. h[i] = g[i - 1] \o q[i]
        BY <2>2
      <3> QED BY <2>2, <3>2, <3>3
    <2> QED BY <2>1, <2>2
  <1>3. Failing = {}
    <2> SUFFICES ASSUME Failing # {}
                 PROVE  FALSE
      OBVIOUS
    <2>1. PICK n \in Failing : \A k \in Failing : n <= k
      BY LeastNumber
    <2>2. CASE n = 0
      <3> DEFINE g == [i \in 1 .. Len(q) |-> q[i]]
      <3>1. g \in [1 .. Len(q) -> Seq(S)]
        BY <1>0
      <3>2. UpTo(g, 0)
        BY <1>0
      <3> HIDE DEF g, UpTo
      <3> QED BY <2>1, <2>2, <3>1, <3>2
    <2>3. CASE n # 0
      <3>1. n - 1 \in Nat /\ n - 1 \notin Failing
        <4>1. n \in Nat
          BY <2>1
        <4> HIDE DEF Failing
        <4> QED BY <2>1, <2>3, <4>1
      <3>2. PICK g \in [1 .. Len(q) -> Seq(S)] : UpTo(g, n - 1)
        <4> HIDE DEF UpTo
        <4> QED BY <3>1
      <3>3. UpTo([i \in 1 .. Len(q) |-> Step(g, i)], (n - 1) + 1)
        <4> HIDE DEF UpTo, Step
        <4> QED BY <1>2, <3>1, <3>2
      <3>4. [i \in 1 .. Len(q) |-> Step(g, i)] \in [1 .. Len(q) -> Seq(S)]
        BY <1>1
      <3>5. (n - 1) + 1 = n /\ n \in Nat
        BY <2>1
      <3> HIDE DEF UpTo, Step
      <3> QED BY <2>1, <3>3, <3>4, <3>5
    <2> QED BY <2>2, <2>3
  <1>4. PICK g \in [1 .. Len(q) -> Seq(S)] : UpTo(g, Len(q))
    <2> HIDE DEF UpTo
    <2> QED BY <1>0, <1>3
  <1>5. \A i \in 1 .. Len(q) : g[i] = Step(g, i)
    <2>1. \A i \in 1 .. Len(q) : i <= Len(q)
      BY <1>0
    <2> HIDE DEF Step
    <2> QED BY <1>4, <2>1
  <1>6. g = [i \in 1 .. Len(q) |-> Step(g, i)]
    <2> HIDE DEF Step
    <2> QED BY <1>5
  <1> QED BY <1>6 DEF IsFlat

\* Two functions, or sequences, agree on a set.
Agree(f, g, S) == \A i \in S : f[i] = g[i]

\* It is determined by the sequences that are joined.
LEMMA FlatIsUnique ==
  ASSUME NEW q, NEW r, NEW D, NEW E, \A i \in E : i \in D /\ i \in Nat,
         \A i \in E : i = 1 \/ i - 1 \in E, Agree(q, r, E),
         NEW g, IsFlat(g, q, D), NEW h, IsFlat(h, r, E)
  PROVE  Agree(g, h, E)
  <1> DEFINE Differ == {i \in E : g[i] # h[i]}
  <1> SUFFICES ASSUME Differ # {}
               PROVE  FALSE
    BY DEF Agree
  <1>1. PICK x \in Differ : \A k \in Differ : x <= k
    <2>1. Differ \in SUBSET Nat
      OBVIOUS
    <2> HIDE DEF Differ
    <2> QED BY <2>1, LeastNumber
  <1>2. x \in E /\ x \in D /\ g[x] # h[x] /\ q[x] = r[x]
    BY <1>1 DEF Agree
  <1>3. /\ g[x] = IF x = 1 THEN q[x] ELSE g[x - 1] \o q[x]
        /\ h[x] = IF x = 1 THEN r[x] ELSE h[x - 1] \o r[x]
    BY <1>2 DEF IsFlat
  <1>4. x # 1
    BY <1>2, <1>3
  <1>5. x \in Nat /\ x - 1 \in E /\ ~(x <= x - 1)
    BY <1>2, <1>4
  <1>6. g[x - 1] = h[x - 1]
    BY <1>1, <1>5
  <1> QED BY <1>2, <1>3, <1>4, <1>6

LEMMA FlatIs ==
  ASSUME NEW q, Len(q) \in Nat, Len(q) # 0, NEW g, IsFlat(g, q, 1 .. Len(q))
  PROVE  FlattenSeq(q) = g[Len(q)]
  <1> DEFINE flatten == CHOOSE f : f = [i \in 1 .. Len(q) |->
                                          IF i = 1 THEN q[i] ELSE f[i - 1] \o q[i]]
  <1>1. FlattenSeq(q) = flatten[Len(q)]
    BY SMTT(30) DEF FlattenSeq
  <1>2. IsFlat(flatten, q, 1 .. Len(q))
    BY DEF IsFlat
  <1> HIDE DEF flatten
  <1> DEFINE D == 1 .. Len(q)
  <1>3. Len(q) \in D /\ \A i \in D : i \in D /\ i \in Nat
    OBVIOUS
  <1>4. \A i \in D : i = 1 \/ i - 1 \in D
    OBVIOUS
  <1>5. IsFlat(flatten, q, D) /\ IsFlat(g, q, D)
    BY <1>2
  <1> HIDE DEF D
  <1>6. Agree(q, q, D)
    BY DEF Agree
  <1>7. Agree(flatten, g, D)
    BY <1>6, <1>3, <1>4, <1>5, FlatIsUnique
  <1> QED BY <1>1, <1>3, <1>7 DEF Agree

\* One sequence more is joined at the end.
LEMMA FlatGrows ==
  ASSUME NEW S, NEW q \in Seq(Seq(S)), NEW e \in Seq(S)
  PROVE  /\ FlattenSeq(Append(q, e)) = FlattenSeq(q) \o e
         /\ FlattenSeq(q) \in Seq(S)
  <1> DEFINE r == Append(q, e)
  <1>1. /\ r \in Seq(Seq(S)) /\ Len(q) \in Nat /\ Len(r) = Len(q) + 1 /\ Len(r) # 0
        /\ \A i \in 1 .. Len(q) : r[i] = q[i]
        /\ r[Len(r)] = e
    OBVIOUS
  <1> HIDE DEF r
  <1>2. PICK g : g \in [1 .. Len(q) -> Seq(S)] /\ IsFlat(g, q, 1 .. Len(q))
    BY FlatExists
  <1>3. PICK h : h \in [1 .. Len(r) -> Seq(S)] /\ IsFlat(h, r, 1 .. Len(r))
    BY <1>1, FlatExists
  <1>4. FlattenSeq(r) = h[Len(r)]
    BY <1>1, <1>3, FlatIs
  <1>5. h[Len(r)] = IF Len(r) = 1 THEN r[Len(r)] ELSE h[Len(r) - 1] \o r[Len(r)]
    <2>1. Len(r) \in 1 .. Len(r)
      BY <1>1
    <2>2. h = [i \in 1 .. Len(r) |-> IF i = 1 THEN r[i] ELSE h[i - 1] \o r[i]]
      BY <1>3 DEF IsFlat
    <2> QED BY <2>1, <2>2
  <1>6. CASE Len(q) = 0
    <2>1. FlattenSeq(q) = q /\ q = <<>>
      BY <1>6 DEF FlattenSeq
    <2>2. FlattenSeq(r) = e
      BY <1>1, <1>4, <1>5, <1>6
    <2>3. <<>> \o e = e /\ <<>> \in Seq(S)
      OBVIOUS
    <2> QED BY <2>1, <2>2, <2>3 DEF r
  <1>7. CASE Len(q) # 0
    <2>1. FlattenSeq(q) = g[Len(q)] /\ Len(q) \in 1 .. Len(q)
      BY <1>1, <1>2, <1>7, FlatIs
    <2>2. g[Len(q)] = h[Len(q)]
      <3>1. \A i \in 1 .. Len(q) : h[i] = g[i]
        <4> DEFINE D == 1 .. Len(r)
                   E == 1 .. Len(q)
        <4>1. \A i \in E : i \in D /\ i \in Nat
          BY <1>1
        <4>3. \A i \in E : i = 1 \/ i - 1 \in E
          BY <1>1
        <4>4. Agree(r, q, E)
          BY <1>1 DEF Agree
        <4>5. IsFlat(h, r, D)
          BY <1>3
        <4>6. IsFlat(g, q, E)
          BY <1>2
        <4> HIDE DEF D, E
        <4>7. Agree(h, g, E)
          BY <4>1, <4>3, <4>4, <4>5, <4>6, FlatIsUnique
        <4> QED BY <4>7 DEF E, Agree
      <3> QED BY <2>1, <3>1
    <2>3. FlattenSeq(r) = h[Len(q)] \o e
      <3>1. Len(r) # 1 /\ Len(r) - 1 = Len(q)
        BY <1>1, <1>7
      <3>2. h[Len(r)] = h[Len(q)] \o r[Len(r)]
        BY <1>5, <3>1
      <3> QED BY <1>1, <1>4, <3>2
    <2>4. FlattenSeq(q) \in Seq(S)
      BY <1>2, <2>1
    <2> QED BY <2>1, <2>2, <2>3, <2>4 DEF r
  <1> QED BY <1>6, <1>7

-----------------------------------------------------------------------------
(* The places of a statement *)

Texts == /\ stmt.pattern \in Seq(STRING)
         /\ stmt.given \in Seq([kind : STRING, text : Seq(STRING)])

\* What queries are made of.  (A literal is not known to the provers as a string.)
Symbol == STRING \cup {Quote}

Holds(n, i) == (\A j \in i - n .. i - 1 : MarkAt(j)) /\ ~MarkAt(i - n - 1)

LEMMA BeforeIs ==
  ASSUME NEW i \in Nat, NEW n \in 0 .. i - 1, Holds(n, i)
  PROVE  Before(i) = n
  <1>1. ASSUME NEW m \in 0 .. i - 1, Holds(m, i), m < n
        PROVE  FALSE
    <2>1. i - m - 1 \in i - n .. i - 1
      BY <1>1
    <2> HIDE DEF MarkAt
    <2> QED BY <1>1, <2>1 DEF Holds
  <1>2. ASSUME NEW m \in 0 .. i - 1, Holds(m, i), n < m
        PROVE  FALSE
    <2>1. i - n - 1 \in i - m .. i - 1
      BY <1>2
    <2> QED BY <1>2, <2>1 DEF Holds
  <1>3. Before(i) = CHOOSE m \in 0 .. i - 1 : Holds(m, i)
    BY DEF Before, Holds
  <1>4. \A m \in 0 .. i - 1 : Holds(m, i) => m = n
    BY <1>1, <1>2
  <1> QED BY <1>3, <1>4

\* Every place has a number of marks in a row before it, and so has the next.
LEMMA BeforeNext ==
  ASSUME Texts, NEW i \in Nat \ {0}
  PROVE  /\ Before(i) \in 0 .. i - 1
         /\ Before(i + 1) = IF MarkAt(i) THEN Before(i) + 1 ELSE 0
  <1> DEFINE T == {n \in 0 .. i - 1 : ~MarkAt(i - n - 1)}
  <1>1. ~MarkAt(0)
    BY DEF MarkAt, Texts
  <1>2. i - 1 \in T
    <2>1. i - (i - 1) - 1 = 0 /\ i - 1 \in 0 .. i - 1
      OBVIOUS
    <2> QED BY <1>1, <2>1
  <1>3. PICK n \in T : \A k \in T : n <= k
    <2>1. T # {}
      BY <1>2
    <2>2. T \in SUBSET Nat
      <3>1. \A n \in 0 .. i - 1 : n \in Nat
        OBVIOUS
      <3> QED BY <3>1
    <2> HIDE DEF T
    <2> QED BY <2>1, <2>2, LeastNumber
  <1>4. n \in 0 .. i - 1 /\ ~MarkAt(i - n - 1)
    BY <1>3
  <1>5. ASSUME NEW j \in i - n .. i - 1
        PROVE  MarkAt(j)
    <2>1. i - j - 1 \in 0 .. i - 1 /\ ~(n <= i - j - 1) /\ i - (i - j - 1) - 1 = j
      BY <1>4
    <2>2. i - j - 1 \notin T
      BY <1>3, <2>1
    <2> QED BY <2>1, <2>2
  <1>6. Holds(n, i)
    BY <1>4, <1>5 DEF Holds
  <1>7. Before(i) = n
    BY <1>4, <1>6, BeforeIs
  <1>8. CASE MarkAt(i)
    <2>1. Holds(n + 1, i + 1)
      <3>1. \A j \in (i + 1) - (n + 1) .. (i + 1) - 1 : j = i \/ j \in i - n .. i - 1
        BY <1>4
      <3>2. (i + 1) - (n + 1) - 1 = i - n - 1
        BY <1>4
      <3> QED BY <1>4, <1>5, <1>8, <3>1, <3>2 DEF Holds
    <2>2. n + 1 \in 0 .. (i + 1) - 1 /\ i + 1 \in Nat
      BY <1>4
    <2>3. Before(i + 1) = n + 1
      BY <2>1, <2>2, BeforeIs
    <2> QED BY <1>4, <1>7, <1>8, <2>3
  <1>9. CASE ~MarkAt(i)
    <2>1. Holds(0, i + 1)
      <3>1. \A j : j \notin (i + 1) - 0 .. (i + 1) - 1
        OBVIOUS
      <3>2. (i + 1) - 0 - 1 = i
        OBVIOUS
      <3> QED BY <1>9, <3>1, <3>2 DEF Holds
    <2>2. Before(i + 1) = 0
      BY <2>1, BeforeIs
    <2> QED BY <1>4, <1>7, <1>9, <2>2
  <1> QED BY <1>8, <1>9

\* The ranks of places count up by one at every placeholder.
LEMMA RankType ==
  ASSUME NEW i \in Nat
  PROVE  Rank(i) \in Nat /\ IsFiniteSet({j \in 1 .. i : IsPlaceholder(j)})
  <1> DEFINE P == {j \in 1 .. i : IsPlaceholder(j)}
  <1>1. IsFiniteSet(1 .. i)
    BY FS_Interval
  <1>2. P \in SUBSET (1 .. i)
    OBVIOUS
  <1> HIDE DEF P
  <1>3. IsFiniteSet(P)
    BY <1>1, <1>2, FS_Subset
  <1>4. Cardinality(P) \in Nat
    BY <1>3, FS_CardinalityType
  <1> QED BY <1>3, <1>4 DEF P, Rank

LEMMA RankNext ==
  ASSUME NEW i \in Nat
  PROVE  Rank(i + 1) = IF IsPlaceholder(i + 1) THEN Rank(i) + 1 ELSE Rank(i)
  <1> DEFINE P(n) == {j \in 1 .. n : IsPlaceholder(j)}
  <1>1. IsFiniteSet(P(i)) /\ i + 1 \notin P(i)
    BY RankType
  <1>2. CASE IsPlaceholder(i + 1)
    <2>1. P(i + 1) = P(i) \cup {i + 1}
      BY <1>2
    <2> HIDE DEF P
    <2>2. Cardinality(P(i + 1)) = Cardinality(P(i)) + 1
      BY <1>1, <2>1, FS_AddElement
    <2> QED BY <1>2, <2>2 DEF P, Rank
  <1>3. CASE ~IsPlaceholder(i + 1)
    <2>1. P(i + 1) = P(i)
      BY <1>3
    <2> QED BY <1>3, <2>1 DEF Rank
  <1> QED BY <1>2, <1>3

LEMMA RankGrows ==
  ASSUME NEW n \in Nat, NEW m \in 0 .. n
  PROVE  Rank(m) <= Rank(n)
  <1> DEFINE P(k) == {j \in 1 .. k : IsPlaceholder(j)}
  <1>1. P(m) \in SUBSET P(n)
    OBVIOUS
  <1>2. IsFiniteSet(P(n))
    BY RankType
  <1> HIDE DEF P
  <1> QED BY <1>1, <1>2, FS_Subset DEF P, Rank

LEMMA RankZero == Rank(0) = 0
  <1>1. {j \in 1 .. 0 : IsPlaceholder(j)} = {}
    OBVIOUS
  <1> QED BY <1>1, FS_EmptySet DEF Rank

\* What becomes of the first m places.
Meant(m) == FlattenSeq([i \in 1 .. m |-> Piece(i)])

LEMMA Element ==
  ASSUME NEW S, NEW q \in Seq(S), NEW i \in 1 .. Len(q)
  PROVE  q[i] \in S
  OBVIOUS

LEMMA SeqInLarger ==
  ASSUME NEW S, NEW T, S \in SUBSET T, NEW q \in Seq(S)
  PROVE  q \in Seq(T)
  OBVIOUS

LEMMA ValueType ==
  ASSUME NEW p \in [kind : STRING, text : Seq(STRING)]
  PROVE  get_value(p) \in Seq(Symbol)
  <1>1. p.text \in Seq(Symbol) /\ <<Quote>> \in Seq(Symbol)
    <2>1. p.text \in Seq(STRING)
      OBVIOUS
    <2>2. Quote \in Symbol /\ STRING \in SUBSET Symbol
      BY DEF Symbol
    <2>3. p.text \in Seq(Symbol)
      BY <2>1, <2>2, SeqInLarger
    <2> QED BY <2>2, <2>3
  <1>2. <<Quote>> \o p.text \o <<Quote>> \in Seq(Symbol)
    BY <1>1
  <1> QED BY <1>1, <1>2 DEF get_value

LEMMA PieceType ==
  ASSUME Texts, NEW i \in 1 .. Len(stmt.pattern), Rank(i) <= Len(stmt.given)
  PROVE  Piece(i) \in Seq(Symbol)
  <1>1. Rank(i - 1) \in Nat /\ Rank(i) \in Nat
    <2>1. i \in Nat /\ i - 1 \in Nat
      BY DEF Texts
    <2> QED BY <2>1, RankType
  <1>2. CASE IsPlaceholder(i)
    <2>1. Rank(i) = Rank(i - 1) + 1
      <3>1. i - 1 \in Nat /\ (i - 1) + 1 = i
        BY DEF Texts
      <3> HIDE DEF Rank
      <3>2. Rank((i - 1) + 1) = Rank(i - 1) + 1
        BY <1>2, <3>1, RankNext
      <3> QED BY <3>1, <3>2
    <2>2. Rank(i) \in 1 .. Len(stmt.given)
      BY <1>1, <2>1 DEF Texts
    <2>3. stmt.given[Rank(i)] \in [kind : STRING, text : Seq(STRING)]
      <3> DEFINE n == Rank(i)
      <3>1. n \in 1 .. Len(stmt.given)
        BY <2>2 DEF n
      <3> HIDE DEF n
      <3>2. stmt.given[n] \in [kind : STRING, text : Seq(STRING)]
        BY <3>1, Element DEF Texts
      <3> QED BY <3>2 DEF n
    <2>4. get_value(stmt.given[Rank(i)]) \in Seq(Symbol)
      BY <2>3, ValueType
    <2> QED BY <1>2, <2>4 DEF Piece
  <1>3. CASE ~IsPlaceholder(i)
    <2>1. <<>> \in Seq(Symbol) /\ <<stmt.pattern[i]>> \in Seq(Symbol)
      <3>1. stmt.pattern[i] \in STRING
        BY Element DEF Texts
      <3>2. stmt.pattern[i] \in Symbol
        BY <3>1 DEF Symbol
      <3> QED BY <3>2
    <2> QED BY <1>3, <2>1 DEF Piece
  <1> QED BY <1>2, <1>3

LEMMA MeantNext ==
  ASSUME Texts, NEW m \in Nat, m + 1 <= Len(stmt.pattern), Rank(m + 1) <= Len(stmt.given)
  PROVE  Meant(m + 1) = Meant(m) \o Piece(m + 1) /\ Meant(m) \in Seq(Symbol)
  <1> DEFINE q == [i \in 1 .. m |-> Piece(i)]
             r == [i \in 1 .. m + 1 |-> Piece(i)]
  <1>1. ASSUME NEW i \in 1 .. m + 1
        PROVE  Piece(i) \in Seq(Symbol)
    <2>1. i \in 1 .. Len(stmt.pattern) /\ i \in 0 .. m + 1 /\ m + 1 \in Nat
      BY DEF Texts
    <2>2. Rank(i) \in Nat /\ Rank(m + 1) \in Nat /\ Len(stmt.given) \in Nat
      <3>1. i \in Nat /\ m + 1 \in Nat /\ Len(stmt.given) \in Nat
        BY <2>1 DEF Texts
      <3> QED BY <3>1, RankType
    <2>3. Rank(i) <= Rank(m + 1)
      BY <2>1, RankGrows
    <2>4. Rank(i) <= Len(stmt.given)
      BY <2>2, <2>3
    <2> QED BY <2>1, <2>4, PieceType
  <1>2. q \in Seq(Seq(Symbol)) /\ Piece(m + 1) \in Seq(Symbol)
    BY <1>1
  <1>3. r = Append(q, Piece(m + 1))
    OBVIOUS
  <1> HIDE DEF q, r
  <1>4. /\ FlattenSeq(Append(q, Piece(m + 1))) = FlattenSeq(q) \o Piece(m + 1)
        /\ FlattenSeq(q) \in Seq(Symbol)
    BY <1>2, FlatGrows
  <1> QED BY <1>3, <1>4 DEF Meant, q, r

LEMMA MeantZero == Meant(0) = <<>>
  <1>1. [i \in 1 .. 0 |-> Piece(i)] = <<>>
    OBVIOUS
  <1> QED BY <1>1 DEF Meant, FlattenSeq

-----------------------------------------------------------------------------
(* The query that is sent *)

Quoted == [i \in DOMAIN stmt.given |-> get_value(stmt.given[i])]

\* Every place before p was replaced by what it means: i parameters are gone, less one.
ScannedTo(p, i, q) == /\ i = Rank(p - 1) + 1
                      /\ q = Meant(p - 1)
                      /\ MarkAt(p) => Before(p) % 2 = 0
Scanned == ScannedTo(place, idx, query)

StatementInv ==
  /\ Texts
  /\ ran \in {"new", "scanning", "sent", "nullopt", "object"} \cup Threw
  /\ param_vec = IF ran \in {"new", "unsupported json value type"} THEN <<>> ELSE Quoted
  /\ place \in 1 .. Len(stmt.pattern) + 1
  /\ idx \in 1 .. Len(param_vec) + 1
  /\ Scanned
  /\ ran = "too few parameters" => Placeholders > Len(stmt.given)
  /\ ran = "too many parameters" => Placeholders < Len(stmt.given)
  /\ ran \in {"sent", "nullopt", "object", "sql error", "too many objects"} =>
       Placeholders = Len(stmt.given) /\ place = Len(stmt.pattern) + 1

LEMMA ScannedFirst ==
  ASSUME Texts, place = 1, idx = 1, query = <<>>
  PROVE  Scanned
  <1>1. place - 1 = 0
    OBVIOUS
  <1>2. Before(1) \in 0 .. 1 - 1
    BY BeforeNext
  <1>3. Before(place) % 2 = 0
    BY <1>2
  <1> QED BY <1>1, <1>3, RankZero, MeantZero DEF Scanned, ScannedTo

LEMMA ValuesType ==
  ASSUME Texts
  PROVE  Len(Quoted) = Len(stmt.given) /\ \A i \in 1 .. Len(stmt.given) : Quoted[i] = get_value(stmt.given[i])
  <1>1. stmt.given \in Seq([kind : STRING, text : Seq(STRING)])
    BY DEF Texts
  <1>2. DOMAIN stmt.given = 1 .. Len(stmt.given) /\ Len(stmt.given) \in Nat
    BY <1>1
  <1> QED BY <1>2 DEF Quoted

LEMMA StatementStart == RouterInit => StatementInv
  <1> SUFFICES ASSUME RouterInit PROVE StatementInv
    OBVIOUS
  <1>1. PICK r \in Requests : StatementInit({r.stmt})
    BY DEF RouterInit
  <1>2. stmt = r.stmt /\ ran = "new" /\ param_vec = <<>> /\ idx = 1 /\ query = <<>> /\ place = 1
    BY <1>1 DEF StatementInit
  <1>3. Texts
    BY <1>2, RequestsAssumption DEF Texts
  <1>4. Scanned
    BY <1>2, <1>3, ScannedFirst
  <1>5. Len(stmt.pattern) \in Nat
    BY <1>3 DEF Texts
  <1>6. Len(param_vec) = 0
    BY <1>2
  <1> QED BY <1>2, <1>3, <1>4, <1>5, <1>6 DEF StatementInv

\* What the places mean stays as it is.
LEMMA SamePattern ==
  ASSUME UNCHANGED stmt
  PROVE  (Texts' = Texts) /\ (Quoted' = Quoted) /\ (Placeholders' = Placeholders)
  BY DEF Texts, Quoted, Placeholders, Rank, IsPlaceholder, MarkAt, Before

LEMMA StillScanned ==
  ASSUME UNCHANGED stmt, ScannedTo(place', idx', query')
  PROVE  Scanned'
  <1>1. (idx = Rank(place - 1) + 1)'
    BY Zenon DEF ScannedTo, Rank, IsPlaceholder, MarkAt, Before
  <1>2. (query = Meant(place - 1))'
    <2>1. query' = Meant(place' - 1)
      BY DEF ScannedTo
    <2>2. \A i : Piece(i)' = Piece(i)
      BY DEF Piece, Rank, IsPlaceholder, MarkAt, Before
    <2>3. [i \in 1 .. place' - 1 |-> Piece(i)'] = [i \in 1 .. place' - 1 |-> Piece(i)]
      BY <2>2, Zenon
    <2> QED BY <2>1, <2>3, Zenon DEF Meant
  <1>3. (MarkAt(place) => Before(place) % 2 = 0)'
    BY Zenon DEF ScannedTo, MarkAt, Before
  <1> QED BY <1>1, <1>2, <1>3 DEF Scanned, ScannedTo

LEMMA ScanFacts ==
  ASSUME StatementInv, Scanning
  PROVE  /\ param_vec = Quoted /\ Len(param_vec) = Len(stmt.given)
         /\ idx = Rank(place - 1) + 1 /\ query = Meant(place - 1)
         /\ Rank(place - 1) \in Nat /\ Rank(place - 1) <= Len(stmt.given)
         /\ place \in 1 .. Len(stmt.pattern) /\ place \in Nat \ {0} /\ place - 1 \in Nat
         /\ Len(stmt.pattern) \in Nat /\ Len(stmt.given) \in Nat
  <1>1. Texts /\ place \in 1 .. Len(stmt.pattern) + 1 /\ idx \in 1 .. Len(param_vec) + 1
    BY DEF StatementInv
  <1>2. ran = "scanning" /\ place <= Len(stmt.pattern)
    BY DEF Scanning
  <1>3. param_vec = Quoted
    BY <1>2 DEF StatementInv
  <1>4. Len(stmt.pattern) \in Nat /\ Len(stmt.given) \in Nat
    BY <1>1 DEF Texts
  <1>5. Len(Quoted) = Len(stmt.given)
    BY <1>1, ValuesType
  <1>6. place \in 1 .. Len(stmt.pattern) /\ place \in Nat \ {0} /\ place - 1 \in Nat
    BY <1>1, <1>2, <1>4
  <1>7. Rank(place - 1) \in Nat
    BY <1>6, RankType
  <1>8. idx = Rank(place - 1) + 1 /\ query = Meant(place - 1)
    BY DEF StatementInv, Scanned, ScannedTo
  <1>9. Rank(place - 1) <= Len(stmt.given)
    BY <1>1, <1>3, <1>4, <1>5, <1>7, <1>8
  <1> QED BY <1>3, <1>4, <1>5, <1>6, <1>7, <1>8, <1>9

\* What one more place becomes.
LEMMA OnePlace ==
  ASSUME Texts, NEW p \in 1 .. Len(stmt.pattern),
         Rank(p - 1) + (IF IsPlaceholder(p) THEN 1 ELSE 0) <= Len(stmt.given)
  PROVE  /\ Rank(p) = Rank(p - 1) + (IF IsPlaceholder(p) THEN 1 ELSE 0)
         /\ Meant(p) = Meant(p - 1) \o Piece(p) /\ Meant(p - 1) \in Seq(Symbol)
  <1>1. p - 1 \in Nat /\ (p - 1) + 1 = p /\ p <= Len(stmt.pattern)
    BY DEF Texts
  <1>2. Rank((p - 1) + 1) = IF IsPlaceholder((p - 1) + 1) THEN Rank(p - 1) + 1 ELSE Rank(p - 1)
    BY <1>1, RankNext
  <1>3. Rank(p - 1) \in Nat
    BY <1>1, RankType
  <1>4. Rank(p) = Rank(p - 1) + (IF IsPlaceholder(p) THEN 1 ELSE 0)
    BY <1>1, <1>2, <1>3
  <1>5. Rank((p - 1) + 1) <= Len(stmt.given) /\ (p - 1) + 1 <= Len(stmt.pattern)
    BY <1>1, <1>4
  <1>6. Meant((p - 1) + 1) = Meant(p - 1) \o Piece((p - 1) + 1) /\ Meant(p - 1) \in Seq(Symbol)
    BY <1>1, <1>5, MeantNext
  <1> QED BY <1>1, <1>4, <1>6

\* A place that is no mark is copied, and of two marks in a row the first one.
LEMMA ScanLiteral ==
  ASSUME StatementInv, Literal
  PROVE  Scanned' /\ place' \in 1 .. Len(stmt.pattern) + 1
  <1> DEFINE p == place
  <1>1. /\ Scanning /\ (MarkAt(p) => Doubled(p))
        /\ UNCHANGED <<stmt, ran, param_vec, idx>>
        /\ query' = Append(query, stmt.pattern[p])
        /\ place' = p + (IF Doubled(p) THEN 2 ELSE 1)
    BY DEF Literal
  <1>2. Texts
    BY DEF StatementInv
  <1>3. /\ idx = Rank(p - 1) + 1 /\ query = Meant(p - 1)
        /\ Rank(p - 1) \in Nat /\ Rank(p - 1) <= Len(stmt.given)
        /\ p \in 1 .. Len(stmt.pattern) /\ p \in Nat \ {0} /\ p - 1 \in Nat
        /\ Len(stmt.pattern) \in Nat /\ Len(stmt.given) \in Nat
    BY <1>1, ScanFacts
  <1>4. ~IsPlaceholder(p)
    BY <1>1 DEF IsPlaceholder, Doubled
  <1>5. Rank(p) = Rank(p - 1) /\ Meant(p) = Meant(p - 1) \o Piece(p) /\ Meant(p - 1) \in Seq(Symbol)
    <2>1. Rank(p - 1) + (IF IsPlaceholder(p) THEN 1 ELSE 0) <= Len(stmt.given)
      BY <1>3, <1>4
    <2> HIDE DEF p
    <2>2. Rank(p) = Rank(p - 1) + (IF IsPlaceholder(p) THEN 1 ELSE 0)
      BY <1>2, <1>3, <2>1, OnePlace
    <2>3. Meant(p) = Meant(p - 1) \o Piece(p) /\ Meant(p - 1) \in Seq(Symbol)
      BY <1>2, <1>3, <2>1, OnePlace
    <2> QED BY <1>3, <1>4, <2>2, <2>3
  <1>6. MarkAt(p) => Before(p) % 2 = 0
    BY DEF StatementInv, Scanned, ScannedTo
  <1>7. Piece(p) = <<stmt.pattern[p]>>
    BY <1>4, <1>6 DEF Piece
  <1>8. stmt.pattern[p] \in Symbol
    BY <1>2, <1>3, Element DEF Texts, Symbol
  <1>9. query' = Meant(p)
    <2>1. \A q \in Seq(Symbol) : Append(q, stmt.pattern[p]) = q \o <<stmt.pattern[p]>>
      BY <1>8
    <2> QED BY <1>1, <1>3, <1>5, <1>7, <2>1
  <1>10. Before(p) \in 0 .. p - 1 /\ Before(p + 1) = IF MarkAt(p) THEN Before(p) + 1 ELSE 0
    BY <1>2, <1>3, BeforeNext
  <1> HIDE DEF p
  <1>11. CASE ~Doubled(p)
    <2>1. ~MarkAt(p) /\ place' = p + 1 /\ place' - 1 = p
      BY <1>1, <1>3, <1>11
    <2>2. Before(place') % 2 = 0
      BY <1>10, <2>1
    <2>3. idx' = Rank(place' - 1) + 1 /\ query' = Meant(place' - 1)
      BY <1>1, <1>3, <1>5, <1>9, <2>1
    <2>4. ScannedTo(place', idx', query')
      BY <2>2, <2>3 DEF ScannedTo
    <2> QED BY <1>1, <1>3, <2>1, <2>4, StillScanned DEF p
  <1>12. CASE Doubled(p)
    <2>1. /\ place' = p + 2 /\ place' - 1 = p + 1 /\ (p + 1) - 1 = p /\ (p + 1) + 1 = p + 2
          /\ MarkAt(p) /\ MarkAt(p + 1)
      BY <1>1, <1>3, <1>12 DEF Doubled
    <2>2. p + 1 \in 1 .. Len(stmt.pattern) /\ p + 1 \in Nat \ {0}
      <3>1. \A q \in Seq(STRING) : DOMAIN q = 1 .. Len(q)
        OBVIOUS
      <3>2. p + 1 \in DOMAIN stmt.pattern /\ stmt.pattern \in Seq(STRING)
        BY <1>2, <2>1 DEF MarkAt, Texts
      <3> QED BY <1>3, <3>1, <3>2
    <2>3. Before(p + 1) = Before(p) + 1 /\ Before(p) % 2 = 0 /\ Before(p) \in Nat
      BY <1>3, <1>6, <1>10, <2>1
    <2>4. Before(p + 1) % 2 = 1 /\ (Before(p + 1) + 1) % 2 = 0
      BY <2>3
    <2>5. Before(p + 2) % 2 = 0
      <3>1. Before((p + 1) + 1) = Before(p + 1) + 1
        BY <1>2, <2>1, <2>2, BeforeNext
      <3> QED BY <2>1, <2>4, <3>1
    <2>6. ~IsPlaceholder(p + 1) /\ Piece(p + 1) = <<>>
      BY <2>1, <2>4 DEF IsPlaceholder, Piece
    <2>7. /\ Rank(p + 1) = Rank((p + 1) - 1) + 0
          /\ Meant(p + 1) = Meant((p + 1) - 1) \o <<>> /\ Meant((p + 1) - 1) \in Seq(Symbol)
      <3>1. Rank((p + 1) - 1) + (IF IsPlaceholder(p + 1) THEN 1 ELSE 0) <= Len(stmt.given)
        BY <1>3, <1>5, <2>1, <2>6
      <3> QED BY <1>2, <2>2, <2>6, <3>1, OnePlace
    <2>8. Rank(p + 1) = Rank(p - 1) /\ Meant(p + 1) = Meant(p)
      <3>1. \A q \in Seq(Symbol) : q \o <<>> = q
        OBVIOUS
      <3>2. Meant(p) \in Seq(Symbol) /\ Meant(p + 1) = Meant(p) \o <<>>
        BY <2>1, <2>7
      <3>3. Meant(p + 1) = Meant(p)
        BY <3>1, <3>2
      <3>4. Rank(p + 1) = Rank(p) + 0
        BY <2>1, <2>7
      <3> QED BY <1>3, <1>5, <3>3, <3>4, SMTT(30)
    <2>9. ScannedTo(place', idx', query')
      <3>1. idx' = Rank(place' - 1) + 1 /\ query' = Meant(place' - 1)
        BY <1>1, <1>3, <1>9, <2>1, <2>8
      <3> QED BY <2>1, <2>5, <3>1 DEF ScannedTo
    <2> QED BY <1>1, <1>3, <2>1, <2>2, <2>9, StillScanned DEF p
  <1> QED BY <1>11, <1>12

\* A place that stands for a parameter takes the next one, if there is one.
LEMMA ScanSubstitute ==
  ASSUME StatementInv, Substitute
  PROVE  /\ IF idx <= Len(param_vec) THEN idx' \in 1 .. Len(param_vec) + 1 /\ ran' = ran
            ELSE ran' = "too few parameters" /\ Placeholders > Len(stmt.given) /\ idx' = idx
         /\ Scanned' /\ place' \in 1 .. Len(stmt.pattern) + 1
  <1> DEFINE p == place
  <1>1. Scanning /\ MarkAt(p) /\ ~Doubled(p) /\ UNCHANGED <<stmt, param_vec>>
    BY DEF Substitute
  <1>2. Texts /\ Scanned
    BY DEF StatementInv
  <1>3. /\ idx = Rank(p - 1) + 1 /\ query = Meant(p - 1)
        /\ param_vec = Quoted /\ Len(param_vec) = Len(stmt.given)
        /\ Rank(p - 1) \in Nat /\ Rank(p - 1) <= Len(stmt.given)
        /\ p \in 1 .. Len(stmt.pattern) /\ p \in Nat \ {0} /\ p - 1 \in Nat
        /\ Len(stmt.pattern) \in Nat /\ Len(stmt.given) \in Nat
    BY <1>1, ScanFacts
  <1>4. IsPlaceholder(p)
    BY <1>1, <1>2 DEF IsPlaceholder, Doubled, Scanned, ScannedTo
  <1> HIDE DEF p
  <1>5. CASE idx <= Len(param_vec)
    <2>1. query' = query \o param_vec[idx] /\ idx' = idx + 1 /\ place' = p + 1 /\ ran' = ran
      BY <1>5 DEF Substitute, p
    <2>2. Rank(p - 1) + (IF IsPlaceholder(p) THEN 1 ELSE 0) <= Len(stmt.given)
      BY <1>3, <1>4, <1>5
    <2>3. Rank(p) = Rank(p - 1) + (IF IsPlaceholder(p) THEN 1 ELSE 0)
      BY <1>2, <1>3, <2>2, OnePlace
    <2>4. Meant(p) = Meant(p - 1) \o Piece(p)
      BY <1>2, <1>3, <2>2, OnePlace
    <2>5. Rank(p) = idx
      BY <1>3, <1>4, <2>3
    <2>6. Piece(p) = param_vec[idx]
      <3>1. Piece(p) = get_value(stmt.given[idx])
        BY <1>4, <2>5 DEF Piece
      <3>2. idx \in 1 .. Len(stmt.given)
        BY <1>3, <1>5
      <3>3. Quoted[idx] = get_value(stmt.given[idx])
        BY <1>2, <3>2, ValuesType
      <3> QED BY <1>3, <3>1, <3>3
    <2>7. place' - 1 = p
      BY <1>3, <2>1
    <2>8. ~MarkAt(place')
      BY <1>1, <2>1 DEF Doubled
    <2>9. idx' = Rank(place' - 1) + 1 /\ query' = Meant(place' - 1)
      BY <1>3, <2>1, <2>4, <2>5, <2>6, <2>7
    <2>10. ScannedTo(place', idx', query')
      BY <2>8, <2>9 DEF ScannedTo
    <2>11. Scanned'
      BY <1>1, <2>10, StillScanned
    <2>12. idx' \in 1 .. Len(param_vec) + 1 /\ place' \in 1 .. Len(stmt.pattern) + 1
      BY <1>3, <1>5, <2>1
    <2> QED BY <1>5, <2>1, <2>11, <2>12
  <1>6. CASE ~(idx <= Len(param_vec))
    <2>1. ran' = "too few parameters" /\ UNCHANGED <<query, idx, place>>
      BY <1>6 DEF Substitute
    <2>2. Rank((p - 1) + 1) = Rank(p - 1) + 1
      <3>1. IsPlaceholder((p - 1) + 1)
        BY <1>3, <1>4
      <3> QED BY <1>3, <3>1, RankNext
    <2>3. Rank(p) = Rank(p - 1) + 1 /\ p \in 0 .. Len(stmt.pattern)
      <3>1. (p - 1) + 1 = p
        BY <1>3
      <3> QED BY <1>3, <2>2, <3>1
    <2>4. Rank(p) <= Rank(Len(stmt.pattern))
      BY <1>3, <2>3, RankGrows
    <2>5. Rank(Len(stmt.pattern)) \in Nat
      BY <1>3, RankType
    <2>6. Placeholders > Len(stmt.given)
      BY <1>3, <1>6, <2>3, <2>4, <2>5 DEF Placeholders
    <2>7. ScannedTo(place', idx', query')
      BY <1>2, <2>1 DEF Scanned, ScannedTo
    <2>8. Scanned'
      BY <1>1, <2>7, StillScanned
    <2>9. place' \in 1 .. Len(stmt.pattern) + 1
      BY <1>2, <2>1 DEF StatementInv
    <2> QED BY <1>6, <2>1, <2>6, <2>8, <2>9
  <1> QED BY <1>5, <1>6

\* At the end of the pattern every placeholder has had its parameter.
LEMMA ScanFinish ==
  ASSUME StatementInv, Finish
  PROVE  /\ place = Len(stmt.pattern) + 1
         /\ ran' = "sent" => Placeholders = Len(stmt.given)
         /\ ran' = "too many parameters" => Placeholders < Len(stmt.given)
         /\ ran' \in {"sent", "too many parameters"}
  <1>1. ran = "scanning" /\ place > Len(stmt.pattern)
    BY DEF Finish
  <1>2. Texts /\ Scanned /\ place \in 1 .. Len(stmt.pattern) + 1 /\ idx \in 1 .. Len(param_vec) + 1
    BY DEF StatementInv
  <1>3. Len(stmt.pattern) \in Nat /\ Len(stmt.given) \in Nat /\ param_vec = Quoted
    BY <1>1 DEF StatementInv, Texts
  <1>4. place = Len(stmt.pattern) + 1 /\ place - 1 = Len(stmt.pattern)
    BY <1>1, <1>2, <1>3
  <1>5. Len(param_vec) = Len(stmt.given)
    BY <1>2, <1>3, ValuesType
  <1>6. idx = Placeholders + 1 /\ Placeholders \in Nat
    <2>1. Rank(Len(stmt.pattern)) \in Nat
      BY <1>3, RankType
    <2> QED BY <1>2, <1>4, <2>1 DEF Scanned, ScannedTo, Placeholders
  <1>7. AllUsed <=> Placeholders = Len(stmt.given)
    BY <1>3, <1>5, <1>6 DEF AllUsed
  <1>8. Placeholders <= Len(stmt.given)
    BY <1>2, <1>3, <1>5, <1>6
  <1>9. ran' = IF AllUsed THEN "sent" ELSE "too many parameters"
    BY DEF Finish
  <1>10. Placeholders # Len(stmt.given) => Placeholders < Len(stmt.given)
    BY <1>3, <1>6, <1>8
  <1> QED BY <1>4, <1>7, <1>9, <1>10

LEMMA StatementStays == StatementInv /\ UNCHANGED statementVars => StatementInv'
  <1> SUFFICES ASSUME StatementInv, UNCHANGED statementVars PROVE StatementInv'
    OBVIOUS
  <1>1. UNCHANGED <<stmt, ran, param_vec, idx, query, place>>
    BY DEF statementVars
  <1>2. (Texts' = Texts) /\ (Quoted' = Quoted) /\ (Placeholders' = Placeholders)
    BY <1>1, SamePattern
  <1>3. ScannedTo(place', idx', query')
    BY <1>1 DEF StatementInv, Scanned, ScannedTo
  <1>4. Scanned'
    BY <1>1, <1>3, StillScanned
  <1> QED BY <1>1, <1>2, <1>4 DEF StatementInv

LEMMA StatementStep == StatementInv /\ StatementNext => StatementInv'
  <1> SUFFICES ASSUME StatementInv, StatementNext PROVE StatementInv'
    OBVIOUS
  <1>1. UNCHANGED stmt
    BY DEF StatementNext, convert_parameters, Literal, Substitute, Finish, convert_to_optional
  <1>2. (Texts' = Texts) /\ (Quoted' = Quoted) /\ (Placeholders' = Placeholders)
    BY <1>1, SamePattern
  <1>3. Texts
    BY DEF StatementInv
  <1>4. ASSUME UNCHANGED <<idx, query, place>>
        PROVE  Scanned'
    <2>1. ScannedTo(place', idx', query')
      BY <1>4 DEF StatementInv, Scanned, ScannedTo
    <2> QED BY <1>1, <2>1, StillScanned
  <1>5. CASE convert_parameters
    <2>1. ran = "new" /\ UNCHANGED <<stmt, idx, query, place>>
      BY <1>5 DEF convert_parameters
    <2>2. Scanned' /\ Len(Quoted) = Len(stmt.given) /\ Len(stmt.given) \in Nat
      BY <1>3, <1>4, <2>1, ValuesType DEF Texts
    <2>3. param_vec = <<>> /\ Len(param_vec) = 0 /\ idx = 1
      BY <2>1 DEF StatementInv
    <2>4. CASE ran' = "unsupported json value type" /\ UNCHANGED param_vec
      BY <1>1, <1>2, <2>1, <2>2, <2>3, <2>4 DEF StatementInv, Threw
    <2>5. CASE ran' = "scanning" /\ param_vec' = Quoted
      <3>1. idx' \in 1 .. Len(param_vec') + 1
        BY <2>1, <2>2, <2>3, <2>5
      <3> QED BY <1>1, <1>2, <2>1, <2>2, <2>5, <3>1 DEF StatementInv
    <2> QED BY <1>5, <2>4, <2>5 DEF convert_parameters, Quoted
  <1>6. CASE Literal
    <2>1. UNCHANGED <<stmt, ran, param_vec, idx>> /\ ran = "scanning"
      BY <1>6 DEF Literal, Scanning
    <2>2. Scanned' /\ place' \in 1 .. Len(stmt.pattern) + 1
      BY <1>6, ScanLiteral
    <2> QED BY <1>2, <2>1, <2>2 DEF StatementInv
  <1>7. CASE Substitute
    <2>1. UNCHANGED <<stmt, param_vec>> /\ ran = "scanning"
      BY <1>7 DEF Substitute, Scanning
    <2>2. Scanned' /\ place' \in 1 .. Len(stmt.pattern) + 1
      BY <1>7, ScanSubstitute
    <2>3. CASE idx <= Len(param_vec)
      <3>1. idx' \in 1 .. Len(param_vec) + 1 /\ ran' = ran
        BY <1>7, <2>3, ScanSubstitute
      <3> QED BY <1>2, <2>1, <2>2, <3>1 DEF StatementInv
    <2>4. CASE ~(idx <= Len(param_vec))
      <3>1. ran' = "too few parameters" /\ Placeholders > Len(stmt.given) /\ idx' = idx
        BY <1>7, <2>4, ScanSubstitute
      <3> QED BY <1>2, <2>1, <2>2, <3>1 DEF StatementInv, Threw
    <2> QED BY <2>3, <2>4
  <1>8. CASE Finish
    <2>1. UNCHANGED <<stmt, param_vec, idx, query, place>> /\ ran = "scanning"
      BY <1>8 DEF Finish
    <2>2. Scanned'
      BY <1>4, <2>1
    <2>3. /\ place = Len(stmt.pattern) + 1
          /\ ran' = "sent" => Placeholders = Len(stmt.given)
          /\ ran' = "too many parameters" => Placeholders < Len(stmt.given)
          /\ ran' \in {"sent", "too many parameters"}
      BY <1>8, ScanFinish
    <2> QED BY <1>2, <2>1, <2>2, <2>3 DEF StatementInv, Threw
  <1>9. CASE convert_to_optional
    <2>1. /\ UNCHANGED <<stmt, param_vec, idx, query, place>> /\ ran = "sent"
          /\ ran' \in {"sql error", "nullopt", "object", "too many objects"}
      BY <1>9 DEF convert_to_optional
    <2>2. Scanned'
      BY <1>4, <2>1
    <2> QED BY <1>2, <2>1, <2>2 DEF StatementInv, Threw
  <1> QED BY <1>5, <1>6, <1>7, <1>8, <1>9 DEF StatementNext

LEMMA StatementInvariance == RouterSpec => []StatementInv
  <1>1. StatementInv /\ [RouterNext]_routerVars => StatementInv'
    <2>1. RouterNext => StatementNext \/ UNCHANGED statementVars
      BY DEF RouterNext, TryPath, Pass, GetSession, GetConnection, JsonParams, Invoke, Run, Return
    <2>2. UNCHANGED routerVars => UNCHANGED statementVars
      BY DEF routerVars
    <2> QED BY <2>1, <2>2, StatementStep, StatementStays
  <1> QED BY <1>1, StatementStart, PTL DEF RouterSpec

LEMMA MeansIt == StatementInv => QueryIsMeant
  <1> SUFFICES ASSUME StatementInv PROVE QueryIsMeant
    OBVIOUS
  <1>1. CASE ran \in {"sent", "nullopt", "object", "sql error", "too many objects"}
    <2>1. /\ Placeholders = Len(stmt.given) /\ place = Len(stmt.pattern) + 1
          /\ Texts /\ query = Meant(place - 1)
      BY <1>1 DEF StatementInv, Scanned, ScannedTo
    <2>2. Len(stmt.pattern) \in Nat /\ DOMAIN stmt.pattern = 1 .. Len(stmt.pattern)
      BY <2>1 DEF Texts
    <2>3. place - 1 = Len(stmt.pattern)
      BY <2>1, <2>2
    <2>4. query = FlattenSeq([i \in DOMAIN stmt.pattern |-> Piece(i)])
      BY <2>1, <2>2, <2>3 DEF Meant
    <2> QED BY <1>1, <2>1, <2>4 DEF QueryIsMeant
  <1>2. CASE ran \notin {"sent", "nullopt", "object", "sql error", "too many objects"}
    BY <1>2 DEF StatementInv, QueryIsMeant
  <1> QED BY <1>1, <1>2

\* database.hpp:439-474: whatever the statement and its parameters, the query that is sent
\* is the one that was meant, and none is sent if parameters are missing or left.
THEOREM QueryIsAlwaysMeant == RouterSpec => []QueryIsMeant
  BY StatementInvariance, MeansIt, PTL

-----------------------------------------------------------------------------
(* The types of the parameters *)

ParamsInv == /\ input.body \in Seq(Char) /\ input.query \in Seq(Char)
             /\ at = "start" => pos = 1
             /\ ParamsTypeOK

LEMMA Chars == "=" \in Char /\ Blank \in Char /\ "&" \in Char
  BY DEF Char

LEMMA TextType ==
  ASSUME ParamsInv
  PROVE  Text \in Seq(Char) /\ (Reading => Here \in Char)
  <1>1. Text \in Seq(Char)
    BY DEF ParamsInv, Text
  <1>2. ASSUME Reading PROVE Here \in Char
    <2>1. pos \in 1 .. Len(Text) + 2
      BY <1>2 DEF Reading, ParamsInv, ParamsTypeOK
    <2>2. CASE pos <= Len(Text)
      <3>1. pos \in 1 .. Len(Text)
        BY <1>1, <2>1, <2>2
      <3> HIDE DEF Text
      <3>2. Text[pos] \in Char
        BY <1>1, <3>1, Element
      <3> QED BY <2>2, <3>2 DEF Here
    <2>3. CASE ~(pos <= Len(Text))
      BY <2>3, Chars DEF Here
    <2> QED BY <2>2, <2>3
  <1> QED BY <1>1, <1>2

LEMMA TrimBackType ==
  ASSUME NEW s \in Seq(Char)
  PROVE  TrimBack(s) \in Seq(Char)
  <1> DEFINE Blanks(n) == \A i \in n + 1 .. Len(s) : s[i] = Blank
             T == {n \in 0 .. Len(s) : Blanks(n)}
             Good(n) == (n = 0 \/ s[n] # Blank) /\ Blanks(n)
  <1>1. Len(s) \in T /\ Len(s) \in Nat
    OBVIOUS
  <1>2. PICK n \in T : \A k \in T : n <= k
    <2>1. T # {}
      BY <1>1
    <2>2. T \in SUBSET Nat
      OBVIOUS
    <2> HIDE DEF T
    <2> QED BY <2>1, <2>2, LeastNumber
  <1>3. n \in 0 .. Len(s) /\ Blanks(n)
    BY <1>2
  <1>4. n = 0 \/ s[n] # Blank
    <2> SUFFICES ASSUME n # 0, s[n] = Blank PROVE FALSE
      OBVIOUS
    <2>1. n - 1 \in 0 .. Len(s) /\ ~(n <= n - 1)
      BY <1>3
    <2>2. Blanks(n - 1)
      <3> SUFFICES ASSUME NEW i \in (n - 1) + 1 .. Len(s) PROVE s[i] = Blank
        OBVIOUS
      <3>1. i = n \/ i \in n + 1 .. Len(s)
        BY <1>3
      <3> QED BY <1>3, <3>1
    <2> HIDE DEF Blanks
    <2> QED BY <1>2, <2>1, <2>2
  <1>5. \E m \in 0 .. Len(s) : Good(m)
    BY <1>3, <1>4
  <1> DEFINE c == CHOOSE m \in 0 .. Len(s) : Good(m)
  <1>6. c \in 0 .. Len(s)
    <2> HIDE DEF Good
    <2> QED BY <1>5
  <1>7. TrimBack(s) = SubSeq(s, 1, c)
    BY DEF TrimBack
  <1> HIDE DEF c
  <1>8. SubSeq(s, 1, c) \in Seq(Char)
    BY <1>6
  <1> QED BY <1>7, <1>8

LEMMA DecodedType ==
  ASSUME NEW s \in Seq(Char)
  PROVE  Decoded(s) \in Seq(Char)
  <1>1. DOMAIN s = 1 .. Len(s) /\ Len(s) \in Nat
    OBVIOUS
  <1>2. ASSUME NEW i \in 1 .. Len(s)
        PROVE  Decoded(s)[i] \in Char
    <2>1. s[i] \in Char
      BY Element
    <2> QED BY <1>1, <2>1, Chars DEF Decoded
  <1>3. Decoded(s) = [i \in 1 .. Len(s) |-> Decoded(s)[i]]
    BY <1>1 DEF Decoded
  <1> HIDE DEF Decoded
  <1> QED BY <1>1, <1>2, <1>3

DictOK(d) == \A k \in DOMAIN d : k \in Seq(Char) /\ d[k] \in Seq(Char)
ListOK(l) == \A k \in DOMAIN l : k \in Seq(Char) /\ l[k] \in Seq(Seq(Char)) /\ Len(l[k]) >= 2

LEMMA StoreType ==
  ASSUME NEW k \in Seq(Char), NEW v \in Seq(Char), DictOK(dict), ListOK(list), Store(k, v)
  PROVE  DictOK(dict') /\ ListOK(list')
  <1>1. CASE k \in DOMAIN list /\ list' = [list EXCEPT ![k] = Append(@, v)] /\ UNCHANGED dict
    <2>1. /\ DOMAIN list' = DOMAIN list /\ list'[k] = Append(list[k], v)
          /\ \A j \in DOMAIN list : j # k => list'[j] = list[j]
      BY <1>1
    <2>2. list[k] \in Seq(Seq(Char)) /\ Len(list[k]) >= 2 /\ k \in DOMAIN list
      BY <1>1 DEF ListOK
    <2>3. Append(list[k], v) \in Seq(Seq(Char)) /\ Len(Append(list[k], v)) >= 2
      <3> DEFINE q == list[k]
      <3>1. q \in Seq(Seq(Char)) /\ Len(q) >= 2
        BY <2>2
      <3> HIDE DEF q
      <3>2. Append(q, v) \in Seq(Seq(Char)) /\ Len(Append(q, v)) = Len(q) + 1 /\ Len(q) \in Nat
        BY <3>1
      <3>3. Len(Append(q, v)) >= 2
        BY <3>1, <3>2
      <3> QED BY <3>2, <3>3 DEF q
    <2>4. ListOK(list')
      BY <2>1, <2>2, <2>3 DEF ListOK
    <2> QED BY <1>1, <2>4
  <1>2. CASE /\ k \in DOMAIN dict \ DOMAIN list
             /\ list' = With(list, k, <<dict[k], v>>) /\ dict' = Without(dict, k)
    <2>1. DictOK(dict')
      BY <1>2 DEF DictOK, Without
    <2>2. dict[k] \in Seq(Char)
      BY <1>2 DEF DictOK
    <2>3. <<dict[k], v>> \in Seq(Seq(Char)) /\ Len(<<dict[k], v>>) = 2
      BY <2>2
    <2>4. ListOK(list')
      <3> SUFFICES ASSUME NEW j \in DOMAIN list'
                   PROVE  j \in Seq(Char) /\ list'[j] \in Seq(Seq(Char)) /\ Len(list'[j]) >= 2
        BY DEF ListOK
      <3>1. CASE j = k
        <4>1. list'[j] = <<dict[k], v>>
          BY <1>2, <3>1 DEF With
        <4> QED BY <2>3, <3>1, <4>1
      <3>2. CASE j # k
        <4>1. j \in DOMAIN list /\ list'[j] = list[j]
          BY <1>2, <3>2 DEF With
        <4> QED BY <4>1 DEF ListOK
      <3> QED BY <3>1, <3>2
    <2> QED BY <2>1, <2>4
  <1>3. CASE k \notin DOMAIN list \cup DOMAIN dict /\ dict' = With(dict, k, v) /\ UNCHANGED list
    <2>1. DictOK(dict')
      <3> SUFFICES ASSUME NEW j \in DOMAIN dict'
                   PROVE  j \in Seq(Char) /\ dict'[j] \in Seq(Char)
        BY DEF DictOK
      <3>1. CASE j = k
        <4>1. dict'[j] = v
          BY <1>3, <3>1 DEF With
        <4> QED BY <3>1, <4>1
      <3>2. CASE j # k
        <4>1. j \in DOMAIN dict /\ dict'[j] = dict[j]
          BY <1>3, <3>2 DEF With
        <4> QED BY <4>1 DEF DictOK
      <3> QED BY <3>1, <3>2
    <2> QED BY <1>3, <2>1
  <1> QED BY <1>1, <1>2, <1>3 DEF Store

KindsOK(p) == \A k \in DOMAIN p : p[k].kind \in {"string", "array", "json"}

LEMMA ParamsParts == ParamsInv <=>
  /\ input.body \in Seq(Char) /\ input.query \in Seq(Char)
  /\ at = "start" => pos = 1
  /\ at \in {"start", "body", "query", "done", "bad request", "server error"}
  /\ pos \in Nat /\ (at \in {"body", "query"} => pos \in 1 .. Len(Text) + 2)
  /\ key \in Seq(Char) /\ value \in Seq(Char) /\ side \in {"key", "value"}
  /\ DictOK(dict) /\ ListOK(list) /\ KindsOK(params)
  BY DEF ParamsInv, ParamsTypeOK, DictOK, ListOK, KindsOK

LEMMA ParamsPartsNext == ParamsInv' <=>
  /\ (input.body \in Seq(Char) /\ input.query \in Seq(Char))'
  /\ at' = "start" => pos' = 1
  /\ at' \in {"start", "body", "query", "done", "bad request", "server error"}
  /\ pos' \in Nat /\ (at' \in {"body", "query"} => pos' \in 1 .. Len(Text') + 2)
  /\ key' \in Seq(Char) /\ value' \in Seq(Char) /\ side' \in {"key", "value"}
  /\ DictOK(dict') /\ ListOK(list') /\ KindsOK(params')
  BY DEF ParamsInv, ParamsTypeOK, DictOK, ListOK, KindsOK

LEMMA ParamsStart == RouterInit => ParamsInv
  <1> SUFFICES ASSUME RouterInit PROVE ParamsInv
    OBVIOUS
  <1>1. PICK r \in Requests : ParamsInit({r.input})
    BY DEF RouterInit
  <1>2. input = r.input /\ at = "start" /\ Idle /\ params = Empty
    BY <1>1 DEF ParamsInit
  <1>3. input.body \in Seq(Char) /\ input.query \in Seq(Char)
    BY <1>2, RequestsAssumption
  <1>4. \A k : k \notin DOMAIN Empty
    BY DEF Empty
  <1>5. DictOK(dict) /\ ListOK(list) /\ KindsOK(params)
    BY <1>2, <1>4 DEF Idle, DictOK, ListOK, KindsOK
  <1>6. <<>> \in Seq(Char)
    OBVIOUS
  <1> QED BY <1>2, <1>3, <1>5, <1>6, ParamsParts DEF Idle

\* A round of the loop that does not end it.
LEMMA ParamsRound ==
  ASSUME ParamsInv, Reading, pos' = pos + 1, UNCHANGED <<input, at, params>>,
         key' \in Seq(Char), value' \in Seq(Char), side' \in {"key", "value"},
         DictOK(dict'), ListOK(list')
  PROVE  ParamsInv'
  <1>1. Text' = Text /\ Len(Text) \in Nat
    <2>1. Text' = Text
      BY DEF Text
    <2> QED BY <2>1, TextType
  <1>2. at \in {"body", "query"} /\ pos <= Len(Text) + 1
    BY DEF Reading
  <1>3. pos \in 1 .. Len(Text) + 2
    BY <1>2, ParamsParts
  <1>4. pos' \in Nat /\ pos' \in 1 .. Len(Text) + 2
    BY <1>1, <1>2, <1>3
  <1>5. (input.body \in Seq(Char) /\ input.query \in Seq(Char))' /\ KindsOK(params')
    BY ParamsParts
  <1> QED BY <1>1, <1>2, <1>4, <1>5, ParamsPartsNext

LEMMA ParamsStep == ParamsInv /\ [ParamsNext]_paramVars => ParamsInv'
  <1> SUFFICES ASSUME ParamsInv, [ParamsNext]_paramVars PROVE ParamsInv'
    OBVIOUS
  <1>1. /\ input.body \in Seq(Char) /\ input.query \in Seq(Char)
        /\ at \in {"start", "body", "query", "done", "bad request", "server error"}
        /\ at = "start" => pos = 1
        /\ pos \in Nat /\ (at \in {"body", "query"} => pos \in 1 .. Len(Text) + 2)
        /\ key \in Seq(Char) /\ value \in Seq(Char) /\ side \in {"key", "value"}
        /\ DictOK(dict) /\ ListOK(list) /\ KindsOK(params)
    BY ParamsParts
  <1>2. Text \in Seq(Char) /\ Len(Text) \in Nat
    <2>1. Text \in Seq(Char)
      BY TextType
    <2> HIDE DEF Text
    <2> QED BY <2>1
  <1>3. <<>> \in Seq(Char)
    OBVIOUS
  <1>4. CASE Begin
    <2>1. at = "start" /\ at' \in {"body", "query", "bad request"} /\ UNCHANGED <<input, loop>>
      BY <1>4 DEF Begin
    <2>2. KindsOK(params')
      <3>1. CASE UNCHANGED params
        BY <1>1, <3>1
      <3>2. CASE \E ks \in JsonKeys : params' = [k \in ks |-> Json]
        BY <3>2 DEF KindsOK, Json
      <3> QED BY <1>4, <3>1, <3>2 DEF Begin
    <2>3. UNCHANGED <<pos, key, value, side, dict, list>>
      BY <2>1 DEF loop
    <2>4. pos' \in 1 .. Len(Text') + 2
      <3>1. Text' \in Seq(Char)
        BY <1>1, <2>1 DEF Text
      <3>2. Len(Text') \in Nat
        <4> HIDE DEF Text
        <4> QED BY <3>1
      <3>3. pos' = 1
        BY <1>1, <2>1, <2>3
      <3> QED BY <3>2, <3>3
    <2> QED BY <1>1, <2>1, <2>2, <2>3, <2>4, ParamsPartsNext
  <1>5. CASE Swap
    <2>1. /\ Reading /\ pos' = pos + 1 /\ side' \in {"key", "value"}
          /\ UNCHANGED <<input, at, key, value, dict, list, params>>
      BY <1>5 DEF Swap
    <2> QED BY <1>1, <2>1, ParamsRound
  <1>6. CASE EndPair
    <2> DEFINE k == TrimBack(key)
               v == TrimBack(value)
    <2>1. Decoded(k) \in Seq(Char) /\ Decoded(v) \in Seq(Char)
      <3>1. k \in Seq(Char) /\ v \in Seq(Char)
        BY <1>1, TrimBackType
      <3> HIDE DEF k, v
      <3> QED BY <3>1, DecodedType
    <2>2. CASE at' = "server error" /\ UNCHANGED <<loop, input, params>>
      <3>1. UNCHANGED <<pos, key, value, side, dict, list>>
        BY <2>2 DEF loop
      <3> QED BY <1>1, <2>2, <3>1, ParamsPartsNext
    <2>3. CASE /\ IF k = <<>> /\ v = <<>> THEN UNCHANGED <<dict, list>>
                                          ELSE Store(Decoded(k), Decoded(v))
               /\ key' = <<>> /\ value' = <<>> /\ side' = "key" /\ pos' = pos + 1
               /\ UNCHANGED <<at, input, params>>
      <3>1. DictOK(dict') /\ ListOK(list')
        <4>1. CASE UNCHANGED <<dict, list>>
          BY <1>1, <4>1
        <4>2. CASE Store(Decoded(k), Decoded(v))
          BY <1>1, <2>1, <4>2, StoreType
        <4> QED BY <2>3, <4>1, <4>2
      <3>2. Reading
        BY <1>6 DEF EndPair
      <3> QED BY <1>3, <2>3, <3>1, <3>2, ParamsRound
    <2> QED BY <1>6, <2>2, <2>3 DEF EndPair
  <1>7. CASE Skip
    <2>1. /\ Reading /\ pos' = pos + 1
          /\ UNCHANGED <<input, at, key, value, side, dict, list, params>>
      BY <1>7 DEF Skip
    <2> QED BY <1>1, <2>1, ParamsRound
  <1>8. CASE Add
    <2>1. /\ Reading /\ pos' = pos + 1 /\ UNCHANGED <<input, at, side, dict, list, params>>
          /\ key' \in {key, Append(key, Here)} /\ value' \in {value, Append(value, Here)}
      BY <1>8 DEF Add
    <2>2. Here \in Char
      BY <2>1, TextType
    <2>3. Append(key, Here) \in Seq(Char) /\ Append(value, Here) \in Seq(Char)
      <3>1. \A q \in Seq(Char), e \in Char : Append(q, e) \in Seq(Char)
        OBVIOUS
      <3> QED BY <1>1, <2>2, <3>1
    <2>4. key' \in Seq(Char) /\ value' \in Seq(Char)
      BY <1>1, <2>1, <2>3
    <2> QED BY <1>1, <2>1, <2>4, ParamsRound
  <1>9. CASE Merge
    <2>1. at \in {"body", "query"} /\ add_to_body /\ LoopStart /\ UNCHANGED input
          /\ at' \in {"query", "done"}
      BY <1>9 DEF Merge
    <2>2. KindsOK(params')
      BY <1>1, <2>1 DEF KindsOK, add_to_body, Parsed, String, Array
    <2>3. DictOK(dict') /\ ListOK(list')
      BY <2>1 DEF LoopStart, Empty, DictOK, ListOK
    <2>4. pos' = 1 /\ key' = <<>> /\ value' = <<>> /\ side' = "key"
      BY <2>1 DEF LoopStart
    <2>5. pos' \in 1 .. Len(Text') + 2
      <3>1. Text' \in Seq(Char)
        BY <1>1, <2>1 DEF Text
      <3>2. Len(Text') \in Nat
        <4> HIDE DEF Text
        <4> QED BY <3>1
      <3> QED BY <2>4, <3>2
    <2> QED BY <1>1, <1>3, <2>1, <2>2, <2>3, <2>4, <2>5, ParamsPartsNext
  <1>10. CASE UNCHANGED paramVars
    <2>1. UNCHANGED <<input, at, pos, key, value, side, dict, list, params>>
      BY <1>10 DEF paramVars, loop
    <2>2. Text' = Text
      BY <2>1 DEF Text
    <2> QED BY <1>1, <2>1, <2>2, ParamsPartsNext
  <1> QED BY <1>4, <1>5, <1>6, <1>7, <1>8, <1>9, <1>10 DEF ParamsNext

LEMMA ParamsInvariance == RouterSpec => []ParamsInv
  <1>1. [RouterNext]_routerVars => [ParamsNext]_paramVars
    BY DEF RouterNext, TryPath, Pass, GetSession, GetConnection, JsonParams, Invoke, Run,
           Return, routerVars
  <1> QED BY <1>1, ParamsStart, ParamsStep, PTL DEF RouterSpec

LEMMA SubmatchesType ==
  ASSUME NEW i \in DOMAIN paths_
  PROVE  Submatches(i) \in Seq(Nat)
  <1>1. Len(paths_[i].pattern) \in Nat
    BY TableIsSound DEF Sound
  <1>2. GroupsOnly(i) \in Seq(Nat)
    BY <1>1 DEF GroupsOnly
  <1> QED BY <1>2 DEF Submatches

\* The types of Router.tla, which say among other things that a request that was answered
\* holds neither a session nor a connection, for any requests.
THEOREM RouterTypeCorrect == RouterSpec => []RouterTypeOK
  <1>1. ParamsInv => ParamsTypeOK
    BY DEF ParamsInv
  <1>2. StatementInv => StatementTypeOK
    BY DEF StatementInv, StatementTypeOK
  <1>3. RoutingInv => /\ next \in 1 .. Len(paths_) + 1
                      /\ status \in {"routing", "evaluating", "running", "200", "400", "404", "500"}
                      /\ left \in Nat
                      /\ left > 0 => next \in DOMAIN paths_ /\ left <= Len(paths_[next].parameters)
                      /\ got \subseteq {"session", "db"} /\ (got # {} => status \in {"evaluating", "running"})
    <2>1. Len(paths_) + 1 = 35
      BY TableIsSound
    <2> QED BY <2>1 DEF RoutingInv, Found
  <1>4. RoutingInv => url_params \in Seq(Nat)
    <2>1. <<>> \in Seq(Nat)
      OBVIOUS
    <2>2. Found => url_params \in Seq(Nat)
      BY SubmatchesType DEF Found
    <2> QED BY <2>1, <2>2 DEF RoutingInv
  <1>5. ParamsInv /\ StatementInv /\ RoutingInv => RouterTypeOK
    BY <1>1, <1>2, <1>3, <1>4 DEF RouterTypeOK
  <1> QED BY <1>5, ParamsInvariance, StatementInvariance, RoutingInvariance, PTL

-----------------------------------------------------------------------------
(* Elements at given positions *)

\* The place of position i among the positions in I.
UpTo(I, i) == {j \in I : j <= i}
Nth(I, i) == Cardinality(UpTo(I, i))

\* Ranked(I): the positions in I are numbered from 1, in their order and without a gap.
Ranked(I) == /\ IsFiniteSet(I) /\ Cardinality(I) \in Nat
             /\ \A i \in I : Nth(I, i) \in 1 .. Cardinality(I)
             /\ \A i, k \in I : i < k => Nth(I, i) < Nth(I, k)
             /\ \A n \in 1 .. Cardinality(I) : \E i \in I : Nth(I, i) = n

\* Another position behind all others gets the next number.
LEMMA UpToMore ==
  ASSUME NEW I \in SUBSET Nat, NEW m \in Nat, \A i \in I : i < m
  PROVE  /\ \A i \in I : UpTo(I \cup {m}, i) = UpTo(I, i)
         /\ UpTo(I \cup {m}, m) = I \cup {m}
  <1>1. ASSUME NEW i \in I
        PROVE  UpTo(I \cup {m}, i) = UpTo(I, i)
    <2>1. i \in Nat /\ i < m /\ ~(m <= i)
      OBVIOUS
    <2> QED BY <2>1 DEF UpTo
  <1>2. \A j \in I \cup {m} : j <= m
    OBVIOUS
  <1>3. UpTo(I \cup {m}, m) = I \cup {m}
    BY <1>2 DEF UpTo
  <1> QED BY <1>1, <1>3

LEMMA NthMore ==
  ASSUME NEW I \in SUBSET Nat, NEW m \in Nat, \A i \in I : i < m, IsFiniteSet(I)
  PROVE  /\ IsFiniteSet(I \cup {m}) /\ Cardinality(I \cup {m}) = Cardinality(I) + 1
         /\ \A i \in I : Nth(I \cup {m}, i) = Nth(I, i)
         /\ Nth(I \cup {m}, m) = Cardinality(I) + 1
  <1>1. m \notin I
    OBVIOUS
  <1>2. IsFiniteSet(I \cup {m}) /\ Cardinality(I \cup {m}) = Cardinality(I) + 1
    BY <1>1, FS_AddElement
  <1> QED BY <1>2, UpToMore DEF Nth

LEMMA RankedMore ==
  ASSUME NEW I \in SUBSET Nat, NEW m \in Nat, \A i \in I : i < m, Ranked(I)
  PROVE  Ranked(I \cup {m})
  <1> DEFINE J == I \cup {m}
             c == Cardinality(I)
  <1>1. /\ IsFiniteSet(J) /\ Cardinality(J) = c + 1 /\ c \in Nat
        /\ \A i \in I : Nth(J, i) = Nth(I, i)
        /\ Nth(J, m) = c + 1
    BY NthMore DEF Ranked
  <1>2. \A i \in I : Nth(J, i) \in 1 .. c
    BY <1>1 DEF Ranked
  <1>3. \A i \in J : i \in I \/ i = m
    OBVIOUS
  <1> HIDE DEF J, c
  <1>4. ASSUME NEW i \in J
        PROVE  Nth(J, i) \in 1 .. c + 1
    <2>1. CASE i \in I
      <3>1. Nth(J, i) \in 1 .. c
        BY <1>1, <1>2, <2>1
      <3> QED BY <1>1, <3>1
    <2>2. CASE i = m
      BY <1>1, <2>2
    <2> QED BY <1>3, <2>1, <2>2
  <1>5. ASSUME NEW i \in J, NEW k \in J, i < k
        PROVE  Nth(J, i) < Nth(J, k)
    <2>1. i \in I
      <3> SUFFICES ASSUME i = m PROVE FALSE
        BY <1>3
      <3>1. m < k
        BY <1>5
      <3>2. CASE k \in I
        BY <3>1, <3>2
      <3>3. CASE k = m
        BY <3>1, <3>3
      <3> QED BY <1>3, <3>2, <3>3
    <2>2. CASE k \in I
      BY <1>1, <2>1, <2>2, <1>5 DEF Ranked
    <2>3. CASE k = m
      BY <1>1, <1>2, <2>1, <2>3
    <2> QED BY <1>3, <2>2, <2>3
  <1>6. ASSUME NEW n \in 1 .. c + 1
        PROVE  \E i \in J : Nth(J, i) = n
    <2>1. CASE n = c + 1
      BY <1>1, <2>1 DEF J
    <2>2. CASE n # c + 1
      <3>1. n \in 1 .. c
        BY <1>1, <2>2
      <3>2. PICK i \in I : Nth(I, i) = n
        BY <3>1 DEF Ranked, c
      <3> QED BY <1>1, <3>2 DEF J
    <2> QED BY <2>1, <2>2
  <1>7. Cardinality(J) \in Nat
    BY <1>1
  <1>8. Ranked(J)
    BY <1>1, <1>4, <1>5, <1>6, <1>7 DEF Ranked
  <1> QED BY <1>8 DEF J

LEMMA AllRanked ==
  ASSUME NEW L \in Nat, NEW I \in SUBSET (1 .. L)
  PROVE  Ranked(I)
  <1> DEFINE H(n) == I \cap (1 .. n)
             T == {n \in Nat : ~Ranked(H(n))}
  <1>1. Ranked({})
    <2>1. IsFiniteSet({}) /\ Cardinality({}) = 0
      BY FS_EmptySet
    <2> QED BY <2>1 DEF Ranked
  <1>2. H(0) = {}
    OBVIOUS
  <1>3. ASSUME NEW n \in Nat, Ranked(H(n))
        PROVE  Ranked(H(n + 1))
    <2>1. CASE n + 1 \in I
      <3>1. H(n + 1) = H(n) \cup {n + 1}
        BY <2>1
      <3>2. H(n) \in SUBSET Nat /\ \A i \in H(n) : i < n + 1
        OBVIOUS
      <3> HIDE DEF H
      <3> QED BY <1>3, <3>1, <3>2, RankedMore
    <2>2. CASE n + 1 \notin I
      <3>1. H(n + 1) = H(n)
        BY <2>2
      <3> HIDE DEF H
      <3> QED BY <1>3, <3>1
    <2> QED BY <2>1, <2>2
  <1>4. T = {}
    <2> SUFFICES ASSUME T # {} PROVE FALSE
      OBVIOUS
    <2> HIDE DEF H
    <2>1. T \in SUBSET Nat
      OBVIOUS
    <2> HIDE DEF T
    <2>2. PICK n \in T : \A k \in T : n <= k
      BY <2>1, LeastNumber
    <2> USE DEF T
    <2>3. n \in Nat /\ ~Ranked(H(n))
      BY <2>2
    <2>4. n # 0
      BY <1>1, <1>2, <2>3
    <2>5. n - 1 \in Nat /\ ~(n <= n - 1) /\ (n - 1) + 1 = n
      BY <2>3, <2>4
    <2>6. Ranked(H(n - 1))
      BY <2>2, <2>5
    <2> QED BY <1>3, <2>3, <2>5, <2>6
  <1>5. H(L) = I
    OBVIOUS
  <1> HIDE DEF H
  <1> QED BY <1>4, <1>5

LEMMA PickedIs ==
  ASSUME NEW s, NEW L \in Nat, NEW I \in SUBSET (1 .. L)
  PROVE  /\ Picked(s, I) = [n \in 1 .. Cardinality(I) |-> Picked(s, I)[n]]
         /\ DOMAIN Picked(s, I) = 1 .. Cardinality(I)
         /\ \A i \in I : Picked(s, I)[Nth(I, i)] = s[i]
  <1> DEFINE at_(n) == CHOOSE i \in I : Nth(I, i) = n
  <1>1. Picked(s, I) = [n \in 1 .. Cardinality(I) |-> s[at_(n)]]
    BY DEF Picked, Nth, UpTo
  <1>2. Ranked(I)
    BY AllRanked
  <1>3. ASSUME NEW i \in I
        PROVE  at_(Nth(I, i)) = i
    <2>1. at_(Nth(I, i)) \in I /\ Nth(I, at_(Nth(I, i))) = Nth(I, i)
      OBVIOUS
    <2> HIDE DEF at_
    <2>2. at_(Nth(I, i)) \in Nat /\ i \in Nat
      <3>1. \A k \in I : k \in Nat
        OBVIOUS
      <3> QED BY <2>1, <3>1
    <2>3. Nth(I, i) \in Nat
      BY <1>2 DEF Ranked
    <2> QED BY <1>2, <2>1, <2>2, <2>3 DEF Ranked
  <1>4. ASSUME NEW i \in I
        PROVE  Picked(s, I)[Nth(I, i)] = s[i]
    <2>1. Nth(I, i) \in 1 .. Cardinality(I)
      BY <1>2 DEF Ranked
    <2> HIDE DEF at_
    <2>2. Picked(s, I)[Nth(I, i)] = s[at_(Nth(I, i))]
      BY <1>1, <2>1
    <2> QED BY <1>3, <2>2
  <1> HIDE DEF at_
  <1> QED BY <1>1, <1>4

LEMMA PickedType ==
  ASSUME NEW S, NEW s, NEW L \in Nat, NEW I \in SUBSET (1 .. L), \A i \in I : s[i] \in S
  PROVE  /\ Picked(s, I) \in Seq(S) /\ Len(Picked(s, I)) = Cardinality(I)
         /\ Cardinality(I) \in Nat
  <1>1. Ranked(I)
    BY AllRanked
  <1>2. ASSUME NEW n \in 1 .. Cardinality(I)
        PROVE  Picked(s, I)[n] \in S
    <2>1. PICK i \in I : Nth(I, i) = n
      BY <1>1 DEF Ranked
    <2> QED BY <2>1, PickedIs
  <1> DEFINE q == Picked(s, I)
             c == Cardinality(I)
  <1>3. c \in Nat /\ q = [n \in 1 .. c |-> q[n]] /\ \A n \in 1 .. c : q[n] \in S
    BY <1>1, <1>2, PickedIs DEF Ranked
  <1> HIDE DEF q, c
  <1>4. q \in Seq(S) /\ Len(q) = c
    BY <1>3
  <1> QED BY <1>3, <1>4 DEF q, c

LEMMA PickedNone ==
  ASSUME NEW s
  PROVE  Picked(s, {}) = <<>>
  <1>1. Cardinality({}) = 0
    BY FS_EmptySet
  <1>2. 1 .. 0 = {}
    OBVIOUS
  <1> QED BY <1>1, <1>2 DEF Picked

LEMMA PickedMore ==
  ASSUME NEW s, NEW L \in Nat, NEW I \in SUBSET (1 .. L), NEW m \in 1 .. L,
         \A i \in I : i < m
  PROVE  Picked(s, I \cup {m}) = Append(Picked(s, I), s[m])
  <1> DEFINE J == I \cup {m}
             S == {s[i] : i \in J}
             q == Picked(s, I)
             r == Picked(s, J)
             c == Cardinality(I)
  <1>0. s[m] \in S /\ \A i \in J : s[i] \in S
    OBVIOUS
  <1>00. \A i \in I : s[i] \in S
    BY <1>0
  <1> HIDE DEF S
  <1>1. Ranked(I) /\ J \in SUBSET (1 .. L)
    BY AllRanked
  <1>2. /\ Cardinality(J) = c + 1 /\ \A i \in I : Nth(J, i) = Nth(I, i)
        /\ Nth(J, m) = c + 1
    <2>1. I \in SUBSET Nat /\ m \in Nat
      OBVIOUS
    <2> QED BY <1>1, <2>1, NthMore DEF Ranked
  <1>3. q \in Seq(S) /\ Len(q) = c /\ c \in Nat
    BY <1>00, PickedType
  <1>4. r \in Seq(S) /\ Len(r) = c + 1
    <2>1. \A i \in J : s[i] \in S
      BY <1>0
    <2> HIDE DEF J, c
    <2>2. J \in SUBSET (1 .. L)
      BY <1>1
    <2>3. Picked(s, J) \in Seq(S) /\ Len(Picked(s, J)) = Cardinality(J)
      BY <2>1, <2>2, PickedType, ZenonT(60)
    <2> QED BY <1>2, <2>3
  <1>5. r[c + 1] = s[m]
    <2>1. m \in J
      OBVIOUS
    <2> HIDE DEF J
    <2> QED BY <1>1, <1>2, <2>1, PickedIs
  <1>6. ASSUME NEW n \in 1 .. c
        PROVE  r[n] = q[n]
    <2>1. PICK i \in I : Nth(I, i) = n
      BY <1>1 DEF Ranked
    <2>2. i \in J
      OBVIOUS
    <2> HIDE DEF J
    <2>3. r[n] = s[i] /\ q[n] = s[i]
      BY <1>1, <1>2, <2>1, <2>2, PickedIs
    <2> QED BY <2>3
  <1> HIDE DEF J, q, r, c
  <1>7. r = Append(q, s[m])
    BY <1>0, <1>3, <1>4, <1>5, <1>6
  <1> QED BY <1>7 DEF q, r, J

-----------------------------------------------------------------------------
(* Trimming *)

LEMMA TrimBackIs ==
  ASSUME NEW S, NEW s \in Seq(S), NEW n \in 0 .. Len(s), n = 0 \/ s[n] # Blank,
         \A i \in n + 1 .. Len(s) : s[i] = Blank
  PROVE  TrimBack(s) = SubSeq(s, 1, n)
  <1> DEFINE Good(m) == (m = 0 \/ s[m] # Blank) /\ \A i \in m + 1 .. Len(s) : s[i] = Blank
             c == CHOOSE m \in 0 .. Len(s) : Good(m)
  <1>1. c \in 0 .. Len(s) /\ Good(c)
    <2>1. Good(n)
      OBVIOUS
    <2> HIDE DEF Good
    <2> QED BY <2>1
  <1>2. TrimBack(s) = SubSeq(s, 1, c)
    BY DEF TrimBack
  <1> HIDE DEF c
  <1>3. Len(s) \in Nat
    OBVIOUS
  <1>4. ~(c < n)
    <2> SUFFICES ASSUME c < n PROVE FALSE
      OBVIOUS
    <2>1. n \in c + 1 .. Len(s) /\ n # 0
      BY <1>1, <1>3
    <2> QED BY <1>1, <2>1
  <1>5. ~(n < c)
    <2> SUFFICES ASSUME n < c PROVE FALSE
      OBVIOUS
    <2>1. c \in n + 1 .. Len(s) /\ c # 0
      BY <1>1, <1>3
    <2> QED BY <1>1, <2>1
  <1>6. c = n
    BY <1>1, <1>4, <1>5
  <1> QED BY <1>2, <1>6

\* What is left of the positions in I when those behind the last one that is not blank go.
Trimmed(t, I) == {i \in I : \E k \in I : i <= k /\ t[k] # Blank}

LEMMA PickedTrim ==
  ASSUME NEW S, NEW t \in Seq(S), NEW I \in SUBSET (1 .. Len(t))
  PROVE  TrimBack(Picked(t, I)) = Picked(t, Trimmed(t, I))
  <1> DEFINE J == Trimmed(t, I)
             q == Picked(t, I)
             r == Picked(t, J)
             b == Cardinality(I)
             c == Cardinality(J)
  <1>1. /\ Len(t) \in Nat /\ \A i \in I : i \in Nat /\ t[i] \in S
        /\ J \in SUBSET I /\ J \in SUBSET (1 .. Len(t))
    <2>1. \A i \in 1 .. Len(t) : t[i] \in S
      BY Element
    <2>2. Len(t) \in Nat
      OBVIOUS
    <2>3. J \in SUBSET I
      BY DEF Trimmed
    <2> HIDE DEF J
    <2> QED BY <2>1, <2>2, <2>3
  <1>2. Ranked(I) /\ Ranked(J)
    <2> HIDE DEF J
    <2> QED BY <1>1, AllRanked
  <1>3. \A i \in J : UpTo(J, i) = UpTo(I, i)
    <2> SUFFICES ASSUME NEW i \in J, NEW j \in I, j <= i PROVE j \in J
      BY <1>1 DEF UpTo
    <2>1. PICK k \in I : i <= k /\ t[k] # Blank
      BY DEF Trimmed
    <2>2. i \in Nat /\ j \in Nat /\ k \in Nat
      BY <1>1
    <2>3. j <= k
      BY <2>1, <2>2
    <2> QED BY <2>1, <2>3 DEF Trimmed
  <1>4. \A i \in J : Nth(J, i) = Nth(I, i)
    BY <1>3 DEF Nth
  <1>5. /\ q \in Seq(S) /\ Len(q) = b /\ b \in Nat /\ \A i \in I : q[Nth(I, i)] = t[i]
        /\ r \in Seq(S) /\ Len(r) = c /\ c \in Nat /\ \A i \in J : r[Nth(J, i)] = t[i]
    <2>1. \A i \in J : t[i] \in S
      BY <1>1
    <2> HIDE DEF J
    <2>2. q \in Seq(S) /\ Len(q) = b /\ b \in Nat
      BY <1>1, PickedType
    <2>3. r \in Seq(S) /\ Len(r) = c /\ c \in Nat
      BY <1>1, <2>1, PickedType, ZenonT(60)
    <2> QED BY <1>1, <2>2, <2>3, PickedIs
  <1>6. c \in 0 .. b
    <2> HIDE DEF J
    <2>1. c <= b
      BY <1>1, <1>2, FS_Subset DEF Ranked
    <2> QED BY <1>5, <2>1
  <1>7. \A i \in J : Nth(J, i) \in 1 .. c
    BY <1>2 DEF Ranked
  <1>8. c = 0 \/ q[c] # Blank
    <2> SUFFICES ASSUME c # 0 PROVE q[c] # Blank
      OBVIOUS
    <2>1. c \in 1 .. c
      BY <1>5
    <2>2. PICK i \in J : Nth(J, i) = c
      BY <1>2, <2>1 DEF Ranked
    <2>3. PICK k \in I : i <= k /\ t[k] # Blank
      BY DEF Trimmed
    <2>4. i \in Nat /\ k \in Nat /\ i \in I
      BY <1>1
    <2>5. k \in J
      BY <2>3, <2>4 DEF Trimmed
    <2>6. ~(i < k)
      <3> SUFFICES ASSUME i < k PROVE FALSE
        OBVIOUS
      <3> HIDE DEF J, c
      <3>1. Nth(J, i) < Nth(J, k)
        BY <1>2, <2>5 DEF Ranked
      <3> QED BY <1>5, <1>7, <2>2, <2>5, <3>1
    <2>7. k = i
      BY <2>3, <2>4, <2>6
    <2> HIDE DEF J, c, q
    <2>8. q[c] = t[i]
      BY <1>4, <1>5, <2>2, <2>4
    <2> QED BY <2>3, <2>7, <2>8
  <1>9. ASSUME NEW n \in c + 1 .. b
        PROVE  q[n] = Blank
    <2>1. n \in 1 .. b
      BY <1>5
    <2>2. PICK i \in I : Nth(I, i) = n
      BY <1>2, <2>1 DEF Ranked
    <2>3. i \notin J
      <3> SUFFICES ASSUME i \in J PROVE FALSE
        OBVIOUS
      <3> HIDE DEF J, c
      <3>1. n \in 1 .. c
        BY <1>4, <1>7, <2>2
      <3> QED BY <1>5, <3>1
    <2>4. t[i] = Blank
      <3>1. i \in Nat /\ i <= i
        BY <1>1
      <3> QED BY <2>3, <3>1 DEF Trimmed
    <2> HIDE DEF q
    <2> QED BY <1>5, <2>2, <2>4
  <1> HIDE DEF q, r, J, b, c
  <1>10. TrimBack(q) = SubSeq(q, 1, c)
    BY <1>5, <1>6, <1>8, <1>9, TrimBackIs
  <1>11. ASSUME NEW n \in 1 .. c
         PROVE  r[n] = q[n]
    <2>1. PICK i \in J : Nth(J, i) = n
      BY <1>2 DEF Ranked, c
    <2> QED BY <1>1, <1>4, <1>5, <2>1
  <1>12. r = SubSeq(q, 1, c)
    BY <1>5, <1>6, <1>11
  <1> QED BY <1>10, <1>12 DEF q, r, J

-----------------------------------------------------------------------------
(* One pair: what the loop has read of it *)

LEMMA Literals == /\ Blank # "&" /\ Blank # "=" /\ Blank # "%" /\ "=" # "&"
                /\ "%" # "&" /\ "%" # "=" /\ "%3D" # "%" /\ "+" # "%"
  BY DEF Blank

Turns(t, s, i) == {j \in s .. i - 1 : t[j] = "="}

LEMMA SideFirst ==
  ASSUME NEW t, NEW s \in Nat
  PROVE  Side(t, s, s) = "key"
  <1>1. Turns(t, s, s) = {}
    BY DEF Turns
  <1>2. Cardinality(Turns(t, s, s)) = 0
    BY <1>1, FS_EmptySet
  <1>3. 0 % 2 = 0
    OBVIOUS
  <1> QED BY <1>2, <1>3 DEF Side, Turns

LEMMA SideStays ==
  ASSUME NEW t, NEW s \in Nat, NEW p \in Nat, s <= p, t[p] # "="
  PROVE  Side(t, s, p + 1) = Side(t, s, p)
  <1>1. Turns(t, s, p + 1) = Turns(t, s, p)
    BY DEF Turns
  <1>2. \A n \in Nat : Side(t, s, n) = IF Cardinality(Turns(t, s, n)) % 2 = 0 THEN "key"
                                                                              ELSE "value"
    BY DEF Side, Turns
  <1>3. p + 1 \in Nat
    OBVIOUS
  <1> QED BY <1>1, <1>2, <1>3

LEMMA SideTurns ==
  ASSUME NEW t, NEW s \in Nat, NEW p \in Nat, s <= p, t[p] = "="
  PROVE  Side(t, s, p + 1) = IF Side(t, s, p) = "key" THEN "value" ELSE "key"
  <1> DEFINE A == Turns(t, s, p)
             B == Turns(t, s, p + 1)
  <1>1. IsFiniteSet(A) /\ Cardinality(A) \in Nat /\ p \notin A
    <2>1. IsFiniteSet(s .. p - 1)
      BY FS_Interval
    <2>2. A \in SUBSET (s .. p - 1) /\ p \notin A
      BY DEF Turns
    <2> HIDE DEF A
    <2>3. IsFiniteSet(A)
      BY <2>1, <2>2, FS_Subset
    <2> QED BY <2>2, <2>3, FS_CardinalityType
  <1>2. /\ Side(t, s, p) = IF Cardinality(A) % 2 = 0 THEN "key" ELSE "value"
        /\ Side(t, s, p + 1) = IF Cardinality(B) % 2 = 0 THEN "key" ELSE "value"
    BY DEF Side, Turns
  <1>3. B = A \cup {p}
    BY DEF Turns
  <1> HIDE DEF A, B
  <1>4. Cardinality(B) = Cardinality(A) + 1
    BY <1>1, <1>3, FS_AddElement
  <1>5. \A n \in Nat : (n + 1) % 2 = 0 <=> n % 2 # 0
    OBVIOUS
  <1>6. Cardinality(B) % 2 = 0 <=> Cardinality(A) % 2 # 0
    BY <1>1, <1>4, <1>5
  <1> QED BY <1>2, <1>6

\* The positions of one side of the pair at s, before p; and those that the loop adds.
Far(t, s, p, d) == {i \in s .. p - 1 : t[i] # "=" /\ Side(t, s, i) = d}
Read(t, s, p, d) == {i \in Far(t, s, p, d) : \E j \in Far(t, s, p, d) : j <= i /\ t[j] # Blank}

Adds(t, s, p, d) == /\ t[p] # "=" /\ Side(t, s, p) = d
                    /\ t[p] # Blank \/ Read(t, s, p, d) # {}

LEMMA ReadNext ==
  ASSUME NEW t, NEW s \in Nat, NEW p \in Nat, s <= p, NEW d
  PROVE  Read(t, s, p + 1, d) = IF Adds(t, s, p, d) THEN Read(t, s, p, d) \cup {p}
                                                    ELSE Read(t, s, p, d)
  <1> DEFINE A == Far(t, s, p, d)
             B == Far(t, s, p + 1, d)
             on == t[p] # "=" /\ Side(t, s, p) = d
  <1>1. B = IF on THEN A \cup {p} ELSE A
    <2>1. s .. (p + 1) - 1 = (s .. p - 1) \cup {p}
      OBVIOUS
    <2> QED BY <2>1 DEF Far
  <1>2. \A i \in A : i \in Nat /\ i < p /\ i <= i
    BY DEF Far
  <1>3. Read(t, s, p, d) = {i \in A : \E j \in A : j <= i /\ t[j] # Blank}
    BY DEF Read
  <1>4. Read(t, s, p + 1, d) = {i \in B : \E j \in B : j <= i /\ t[j] # Blank}
    BY DEF Read
  <1> HIDE DEF A, B
  <1>5. CASE ~on
    BY <1>1, <1>3, <1>4, <1>5 DEF Adds
  <1>6. CASE on
    <2>1. ASSUME NEW i \in A
          PROVE  i \in Read(t, s, p + 1, d) <=> i \in Read(t, s, p, d)
      <3>1. ~(p <= i)
        BY <1>2
      <3> QED BY <1>1, <1>3, <1>4, <1>6, <3>1
    <2>2. p \in Read(t, s, p + 1, d) <=> t[p] # Blank \/ \E j \in A : t[j] # Blank
      <3>1. p <= p /\ \A j \in A : j <= p
        BY <1>2
      <3> QED BY <1>1, <1>4, <1>6, <3>1
    <2>3. (\E j \in A : t[j] # Blank) <=> Read(t, s, p, d) # {}
      BY <1>2, <1>3
    <2>4. Adds(t, s, p, d) <=> p \in Read(t, s, p + 1, d)
      BY <1>6, <2>2, <2>3 DEF Adds
    <2>5. /\ Read(t, s, p, d) \subseteq A /\ p \notin A
          /\ Read(t, s, p + 1, d) \subseteq A \cup {p}
      BY <1>1, <1>2, <1>3, <1>4, <1>6
    <2>6. CASE p \in Read(t, s, p + 1, d)
      BY <2>1, <2>4, <2>5, <2>6
    <2>7. CASE p \notin Read(t, s, p + 1, d)
      BY <2>1, <2>4, <2>5, <2>7
    <2> QED BY <2>6, <2>7
  <1> QED BY <1>5, <1>6

\* No delimiter stands between s and p.
Clear(t, s, p) == \A j \in s .. p - 1 : j \in 1 .. Len(t) /\ t[j] # "&"

PairIs(t, s, p, sd, k, v) == /\ s \in 1 .. p /\ Clear(t, s, p)
                             /\ sd = Side(t, s, p)
                             /\ k = Picked(t, Read(t, s, p, "key"))
                             /\ v = Picked(t, Read(t, s, p, "value"))

LEMMA PairFirst ==
  ASSUME NEW t, NEW s \in Nat \ {0}
  PROVE  PairIs(t, s, s, "key", <<>>, <<>>)
  <1>1. \A d : Picked(t, Read(t, s, s, d)) = <<>>
    <2>1. \A d : Read(t, s, s, d) = {}
      BY DEF Read, Far
    <2> QED BY <2>1, PickedNone
  <1>2. Side(t, s, s) = "key"
    BY SideFirst
  <1>3. s \in 1 .. s /\ Clear(t, s, s)
    BY DEF Clear
  <1> QED BY <1>1, <1>2, <1>3 DEF PairIs

LEMMA ReadBounds ==
  ASSUME NEW t \in Seq(Char), NEW s \in Nat, NEW p \in Nat, s >= 1, Clear(t, s, p), NEW d
  PROVE  /\ Read(t, s, p, d) \in SUBSET (1 .. Len(t)) /\ Read(t, s, p, d) \in SUBSET (s .. p - 1)
         /\ (Picked(t, Read(t, s, p, d)) = <<>> <=> Read(t, s, p, d) = {})
  <1> DEFINE I == Read(t, s, p, d)
  <1>1. I \in SUBSET (s .. p - 1)
    BY DEF Read, Far
  <1>2. I \in SUBSET (1 .. Len(t))
    BY <1>1 DEF Clear
  <1>3. Len(t) \in Nat /\ \A i \in I : t[i] \in Char
    <2>1. \A i \in 1 .. Len(t) : t[i] \in Char
      BY Element
    <2>2. Len(t) \in Nat
      OBVIOUS
    <2> QED BY <1>2, <2>1, <2>2
  <1> HIDE DEF I
  <1>4. /\ Picked(t, I) \in Seq(Char) /\ Len(Picked(t, I)) = Cardinality(I)
        /\ IsFiniteSet(I)
    BY <1>2, <1>3, PickedType, AllRanked, ZenonT(60) DEF Ranked
  <1>5. Picked(t, I) = <<>> => Cardinality(I) = 0
    BY <1>4
  <1>6. Cardinality(I) = 0 => I = {}
    BY <1>4, FS_EmptySet
  <1> QED BY <1>1, <1>2, <1>5, <1>6, PickedNone DEF I

\* A round of the loop within a pair, at character c.
Round(c, sd, k, v, sd1, k1, v1) ==
  LET read == IF sd = "key" THEN k ELSE v IN
  \/ /\ c = "="
     /\ sd1 = (IF sd = "key" THEN "value" ELSE "key") /\ k1 = k /\ v1 = v
  \/ /\ c = Blank /\ read = <<>>
     /\ sd1 = sd /\ k1 = k /\ v1 = v
  \/ /\ c # "=" /\ (c = Blank => read # <<>>)
     /\ sd1 = sd
     /\ k1 = (IF sd = "key" THEN Append(k, c) ELSE k)
     /\ v1 = (IF sd = "value" THEN Append(v, c) ELSE v)

LEMMA PairNext ==
  ASSUME NEW t \in Seq(Char), NEW s, NEW p \in 1 .. Len(t), NEW sd, NEW k, NEW v,
         PairIs(t, s, p, sd, k, v), t[p] # "&",
         NEW sd1, NEW k1, NEW v1, Round(t[p], sd, k, v, sd1, k1, v1)
  PROVE  PairIs(t, s, p + 1, sd1, k1, v1)
  <1> DEFINE K(n) == Read(t, s, n, "key")
             V(n) == Read(t, s, n, "value")
  <1>1. /\ s \in Nat /\ p \in Nat /\ s >= 1 /\ s <= p /\ p + 1 \in Nat /\ s \in 1 .. p + 1
        /\ Len(t) \in Nat
    BY DEF PairIs
  <1>2. Clear(t, s, p) /\ Clear(t, s, p + 1)
    <2>1. \A j \in s .. (p + 1) - 1 : j = p \/ j \in s .. p - 1
      BY <1>1
    <2> QED BY <2>1 DEF PairIs, Clear
  <1>3. /\ sd = Side(t, s, p) /\ sd \in {"key", "value"}
        /\ k = Picked(t, K(p)) /\ v = Picked(t, V(p))
    BY DEF PairIs, Side
  <1>4. /\ K(p) \in SUBSET (1 .. Len(t)) /\ \A i \in K(p) : i < p
        /\ V(p) \in SUBSET (1 .. Len(t)) /\ \A i \in V(p) : i < p
        /\ k = <<>> <=> K(p) = {}
        /\ v = <<>> <=> V(p) = {}
    <2>1. /\ K(p) \in SUBSET (1 .. Len(t)) /\ K(p) \in SUBSET (s .. p - 1)
          /\ V(p) \in SUBSET (1 .. Len(t)) /\ V(p) \in SUBSET (s .. p - 1)
          /\ k = <<>> <=> K(p) = {}
          /\ v = <<>> <=> V(p) = {}
      BY <1>1, <1>2, <1>3, ReadBounds
    <2>2. \A i \in s .. p - 1 : i < p
      BY <1>1
    <2> QED BY <2>1, <2>2
  <1>6. /\ Picked(t, K(p) \cup {p}) = Append(k, t[p])
        /\ Picked(t, V(p) \cup {p}) = Append(v, t[p])
    <2> HIDE DEF K, V
    <2>1. Picked(t, K(p) \cup {p}) = Append(Picked(t, K(p)), t[p])
      BY <1>1, <1>4, PickedMore
    <2>2. Picked(t, V(p) \cup {p}) = Append(Picked(t, V(p)), t[p])
      BY <1>1, <1>4, PickedMore
    <2> QED BY <1>3, <2>1, <2>2
  <1>7. /\ K(p + 1) = IF Adds(t, s, p, "key") THEN K(p) \cup {p} ELSE K(p)
        /\ V(p + 1) = IF Adds(t, s, p, "value") THEN V(p) \cup {p} ELSE V(p)
    <2>1. s \in Nat /\ p \in Nat /\ s <= p
      BY <1>1
    <2> QED BY ONLY <2>1, ReadNext, ZenonT(60)
  <1>8. /\ Adds(t, s, p, "key") <=> t[p] # "=" /\ sd = "key" /\ (t[p] # Blank \/ k # <<>>)
        /\ Adds(t, s, p, "value") <=> t[p] # "=" /\ sd = "value" /\ (t[p] # Blank \/ v # <<>>)
    BY <1>3, <1>4 DEF Adds
  <1>9. \A x, y, z : x = Side(t, s, p + 1) /\ y = Picked(t, K(p + 1)) /\ z = Picked(t, V(p + 1))
                       => PairIs(t, s, p + 1, x, y, z)
    BY <1>1, <1>2 DEF PairIs
  <1>10. /\ t[p] # "=" => Side(t, s, p + 1) = sd
         /\ t[p] = "=" => Side(t, s, p + 1) = IF sd = "key" THEN "value" ELSE "key"
    <2>1. s \in Nat /\ p \in Nat /\ s <= p
      BY <1>1
    <2>2. t[p] # "=" => Side(t, s, p + 1) = Side(t, s, p)
      BY <2>1, SideStays
    <2>3. t[p] = "=" => Side(t, s, p + 1) = IF Side(t, s, p) = "key" THEN "value" ELSE "key"
      BY <2>1, SideTurns
    <2> QED BY <1>3, <2>2, <2>3
  <1> HIDE DEF K, V
  <1>11. CASE t[p] = "="
    BY <1>3, <1>7, <1>8, <1>9, <1>10, <1>11, Literals DEF Round
  <1>12. CASE t[p] # "=" /\ sd = "key"
    BY <1>3, <1>6, <1>7, <1>8, <1>9, <1>10, <1>12 DEF Round
  <1>13. CASE t[p] # "=" /\ sd = "value"
    BY <1>3, <1>6, <1>7, <1>8, <1>9, <1>10, <1>13 DEF Round
  <1> QED BY <1>3, <1>11, <1>12, <1>13

-----------------------------------------------------------------------------
(* One pair: what has been read of it when it ends *)

\* Here the loop meets a delimiter.
Edge(t, p) == p = Len(t) + 1 \/ (p \in 1 .. Len(t) /\ t[p] = "&")

LEMMA SpanIs ==
  ASSUME NEW t \in Seq(Char), NEW s \in Nat, NEW p \in Nat, s >= 1, s <= p,
         Clear(t, s, p), Edge(t, p)
  PROVE  Span(t, s) = s .. p - 1
  <1>0. Len(t) \in Nat
    OBVIOUS
  <1>1. ASSUME NEW i \in s .. p - 1
        PROVE  i \in Span(t, s)
    <2>1. i \in s .. Len(t)
      BY <1>0 DEF Clear
    <2>2. \A j \in s .. i : j \in s .. p - 1
      OBVIOUS
    <2> QED BY <2>1, <2>2 DEF Span, Clear
  <1>2. ASSUME NEW i \in Span(t, s)
        PROVE  i \in s .. p - 1
    <2>1. i \in s .. Len(t) /\ \A j \in s .. i : t[j] # "&"
      BY DEF Span
    <2>2. ~(p <= i)
      <3> SUFFICES ASSUME p <= i PROVE FALSE
        OBVIOUS
      <3>1. t[p] = "&"
        BY <1>0, <2>1 DEF Edge
      <3>2. ~(s <= p)
        BY <2>1, <3>1
      <3> QED BY <3>2
    <2> QED BY <1>0, <2>1, <2>2
  <1> QED BY <1>1, <1>2

\* The blanks around a part are those before what was read, and those trimmed behind it.
LEMMA InnerIs ==
  ASSUME NEW t, NEW I \in SUBSET Nat
  PROVE  Inner(t, I) = Trimmed(t, {i \in I : \E j \in I : j <= i /\ t[j] # Blank})
  <1> DEFINE R == {i \in I : \E j \in I : j <= i /\ t[j] # Blank}
  <1>1. \A k \in I : t[k] # Blank => k \in R
    <2>1. \A k \in I : k <= k
      OBVIOUS
    <2> QED BY <2>1
  <1>2. Trimmed(t, R) = {i \in R : \E k \in R : i <= k /\ t[k] # Blank}
    BY DEF Trimmed
  <1>3. Inner(t, I) = {i \in I : \E j, k \in I : j <= i /\ i <= k /\ t[j] # Blank /\ t[k] # Blank}
    BY DEF Inner
  <1>4. Inner(t, I) \subseteq Trimmed(t, R)
    BY <1>1, <1>2, <1>3
  <1>5. Trimmed(t, R) \subseteq Inner(t, I)
    BY <1>2, <1>3
  <1> QED BY <1>4, <1>5

\* The positions of a part of the pair, without the blanks around it.
Kept(t, s, d) == Inner(t, Part(t, s, d))

LEMMA KeptIs ==
  ASSUME NEW t \in Seq(Char), NEW s \in Nat, NEW p \in Nat, s >= 1, s <= p,
         Clear(t, s, p), Edge(t, p), NEW d
  PROVE  /\ Part(t, s, d) = Far(t, s, p, d)
         /\ Kept(t, s, d) = Trimmed(t, Read(t, s, p, d))
         /\ TrimBack(Picked(t, Read(t, s, p, d))) = Picked(t, Kept(t, s, d))
         /\ Kept(t, s, d) \in SUBSET (1 .. Len(t))
  <1>1. Part(t, s, d) = Far(t, s, p, d)
    BY SpanIs DEF Part, Far
  <1>2. Kept(t, s, d) = Trimmed(t, Read(t, s, p, d))
    <2> DEFINE I == Far(t, s, p, d)
    <2>1. I \in SUBSET Nat
      BY DEF Far
    <2>2. Read(t, s, p, d) = {i \in I : \E j \in I : j <= i /\ t[j] # Blank}
      BY DEF Read
    <2> HIDE DEF I
    <2>3. Inner(t, I) = Trimmed(t, Read(t, s, p, d))
      BY <2>1, <2>2, InnerIs
    <2> QED BY <1>1, <2>3 DEF Kept, I
  <1>3. Read(t, s, p, d) \in SUBSET (1 .. Len(t))
    BY ReadBounds
  <1>4. TrimBack(Picked(t, Read(t, s, p, d))) = Picked(t, Trimmed(t, Read(t, s, p, d)))
    BY <1>3, PickedTrim
  <1>5. Trimmed(t, Read(t, s, p, d)) \in SUBSET (1 .. Len(t))
    BY <1>3 DEF Trimmed
  <1> QED BY <1>1, <1>2, <1>4, <1>5

\* An escape is kept wherever it stands; and where nothing is kept.
LEMMA KeptEscape ==
  ASSUME NEW t \in Seq(Char), NEW s \in Nat, NEW p \in Nat, s >= 1, s <= p,
         Clear(t, s, p), Edge(t, p)
  PROVE  (\E i \in Kept(t, s, "key") \cup Kept(t, s, "value") : t[i] = "%")
           <=> \E i \in s .. p - 1 : t[i] = "%"
  <1>1. \A i \in s .. p - 1 : i <= i
    OBVIOUS
  <1>2. \A d : Part(t, s, d) = {i \in s .. p - 1 : t[i] # "=" /\ Side(t, s, i) = d}
    BY SpanIs DEF Part
  <1>3. \A d : Kept(t, s, d) \subseteq Part(t, s, d)
    BY DEF Kept, Inner
  <1>4. \A d : \A i \in Part(t, s, d) : t[i] # Blank => i \in Kept(t, s, d)
    BY <1>1, <1>2 DEF Kept, Inner
  <1>5. \A i : Side(t, s, i) \in {"key", "value"}
    BY DEF Side
  <1>6. ASSUME NEW i \in s .. p - 1, t[i] = "%"
        PROVE  i \in Kept(t, s, "key") \cup Kept(t, s, "value")
    <2>1. i \in Part(t, s, "key") \/ i \in Part(t, s, "value")
      BY <1>2, <1>5, <1>6, Literals
    <2> QED BY <1>4, <1>6, <2>1, Literals
  <1>7. ASSUME NEW i \in Kept(t, s, "key") \cup Kept(t, s, "value")
        PROVE  i \in s .. p - 1
    BY <1>2, <1>3
  <1> QED BY <1>6, <1>7

LEMMA KeptNone ==
  ASSUME NEW t \in Seq(Char), NEW s \in Nat, NEW p \in Nat, s >= 1, s <= p,
         Clear(t, s, p), Edge(t, p)
  PROVE  Kept(t, s, "key") = {} /\ Kept(t, s, "value") = {}
           <=> ~\E i \in Span(t, s) : t[i] \notin {"=", Blank}
  <1>1. \A i \in Span(t, s) : i <= i
    BY DEF Span
  <1>2. \A i : Side(t, s, i) \in {"key", "value"}
    BY DEF Side
  <1>3. ASSUME NEW i \in Span(t, s), t[i] \notin {"=", Blank}
        PROVE  i \in Kept(t, s, "key") \cup Kept(t, s, "value")
    BY <1>1, <1>2, <1>3 DEF Kept, Inner, Part
  <1>4. ASSUME NEW d, NEW i \in Kept(t, s, d)
        PROVE  \E j \in Span(t, s) : t[j] \notin {"=", Blank}
    BY DEF Kept, Inner, Part
  <1> QED BY <1>3, <1>4

LEMMA PickedHas ==
  ASSUME NEW t \in Seq(Char), NEW I \in SUBSET (1 .. Len(t))
  PROVE  /\ Malformed(Picked(t, I)) <=> \E i \in I : t[i] = "%"
         /\ Picked(t, I) = <<>> <=> I = {}
         /\ Picked(t, I) \in Seq(Char)
  <1>0. Len(t) \in Nat /\ \A i \in 1 .. Len(t) : t[i] \in Char
    <2>1. \A i \in 1 .. Len(t) : t[i] \in Char
      BY Element
    <2> QED BY <2>1
  <1>1. Ranked(I)
    BY <1>0, AllRanked
  <1>2. DOMAIN Picked(t, I) = 1 .. Cardinality(I) /\ \A i \in I : Picked(t, I)[Nth(I, i)] = t[i]
    BY <1>0, PickedIs
  <1>3. ASSUME NEW i \in I, t[i] = "%"
        PROVE  Malformed(Picked(t, I))
    BY <1>1, <1>2, <1>3 DEF Ranked, Malformed
  <1>4. ASSUME Malformed(Picked(t, I))
        PROVE  \E i \in I : t[i] = "%"
    <2>1. PICK n \in 1 .. Cardinality(I) : Picked(t, I)[n] = "%"
      BY <1>2, <1>4 DEF Malformed
    <2>2. PICK i \in I : Nth(I, i) = n
      BY <1>1 DEF Ranked
    <2> QED BY <1>2, <2>1, <2>2
  <1>5. Picked(t, I) \in Seq(Char) /\ Len(Picked(t, I)) = Cardinality(I)
    <2>1. \A i \in I : t[i] \in Char
      BY <1>0
    <2> QED BY <1>0, <2>1, PickedType, ZenonT(60)
  <1>6. IsFiniteSet(I)
    BY <1>1 DEF Ranked
  <1>7. Picked(t, I) = <<>> => I = {}
    <2>1. Cardinality(I) = 0 => I = {}
      BY <1>6, FS_EmptySet
    <2> QED BY <1>5, <2>1
  <1> QED BY <1>3, <1>4, <1>5, <1>7, PickedNone

\* When the pair ends: what is stored, whether it is, and whether decode_url throws.
LEMMA PairEnds ==
  ASSUME NEW t \in Seq(Char), NEW s, NEW p \in Nat, NEW sd, NEW k, NEW v,
         PairIs(t, s, p, sd, k, v), Edge(t, p)
  PROVE  /\ Decoded(TrimBack(k)) = Declared(t, s, "key")
         /\ Decoded(TrimBack(v)) = Declared(t, s, "value")
         /\ TrimBack(k) = <<>> /\ TrimBack(v) = <<>>
              <=> ~\E i \in Span(t, s) : t[i] \notin {"=", Blank}
         /\ Malformed(TrimBack(k)) \/ Malformed(TrimBack(v)) <=> \E i \in s .. p - 1 : t[i] = "%"
  <1>1. s \in Nat /\ s >= 1 /\ s <= p /\ Clear(t, s, p)
    BY DEF PairIs
  <1>2. TrimBack(k) = Picked(t, Kept(t, s, "key")) /\ Kept(t, s, "key") \in SUBSET (1 .. Len(t))
    BY <1>1, KeptIs DEF PairIs
  <1>3. TrimBack(v) = Picked(t, Kept(t, s, "value")) /\ Kept(t, s, "value") \in SUBSET (1 .. Len(t))
    BY <1>1, KeptIs DEF PairIs
  <1>4. /\ Malformed(TrimBack(k)) <=> \E i \in Kept(t, s, "key") : t[i] = "%"
        /\ TrimBack(k) = <<>> <=> Kept(t, s, "key") = {}
    BY <1>2, PickedHas
  <1>5. /\ Malformed(TrimBack(v)) <=> \E i \in Kept(t, s, "value") : t[i] = "%"
        /\ TrimBack(v) = <<>> <=> Kept(t, s, "value") = {}
    BY <1>3, PickedHas
  <1>6. (\E i \in Kept(t, s, "key") \cup Kept(t, s, "value") : t[i] = "%")
           <=> \E i \in s .. p - 1 : t[i] = "%"
    BY <1>1, KeptEscape
  <1>7. Kept(t, s, "key") = {} /\ Kept(t, s, "value") = {}
           <=> ~\E i \in Span(t, s) : t[i] \notin {"=", Blank}
    BY <1>1, KeptNone
  <1>8. \A d : Declared(t, s, d) = Decoded(Picked(t, Kept(t, s, d)))
    BY DEF Declared, Kept
  <1> QED BY <1>2, <1>3, <1>4, <1>5, <1>6, <1>7, <1>8

-----------------------------------------------------------------------------
(* The pairs in the two maps *)

\* The pairs before position s that name k, and their values.
EarlyOf(t, s, k) == {q \in Named(t, k) : q < s}
Got(t, s, k) == Picked([q \in Starts(t) |-> Declared(t, q, "value")], EarlyOf(t, s, k))

\* A key is in dict_params with its one value, or in list_params with all of them.
StoredIs(t, s, dic, lis) ==
  /\ \A k : k \in DOMAIN dic <=> Len(Got(t, s, k)) = 1
  /\ \A k : k \in DOMAIN lis <=> Len(Got(t, s, k)) >= 2
  /\ \A k \in DOMAIN dic : dic[k] = Got(t, s, k)[1]
  /\ \A k \in DOMAIN lis : lis[k] = Got(t, s, k)

LEMMA EarlyNext ==
  ASSUME NEW t \in Seq(Char), NEW s \in Starts(t), NEW p \in Nat, s <= p, Clear(t, s, p), NEW k
  PROVE  EarlyOf(t, p + 1, k) = IF s \in Named(t, k) THEN EarlyOf(t, s, k) \cup {s}
                                                     ELSE EarlyOf(t, s, k)
  <1>1. s \in Nat /\ s >= 1 /\ Len(t) \in Nat
    BY DEF Starts
  <1>2. ASSUME NEW q \in Starts(t)
        PROVE  q < p + 1 <=> q < s \/ q = s
    <2>1. q \in 1 .. Len(t) + 1 /\ (q = 1 \/ t[q - 1] = "&")
      BY DEF Starts
    <2>2. ~(s < q /\ q <= p)
      <3> SUFFICES ASSUME s < q, q <= p PROVE FALSE
        OBVIOUS
      <3>1. q - 1 \in s .. p - 1 /\ q # 1
        BY <1>1, <2>1
      <3> QED BY <2>1, <3>1 DEF Clear
    <2> QED BY <1>1, <2>1, <2>2
  <1>3. Named(t, k) \subseteq Starts(t)
    BY DEF Named, Pairs
  <1> QED BY <1>2, <1>3 DEF EarlyOf

LEMMA EarlyBounds ==
  ASSUME NEW t \in Seq(Char), NEW s \in Nat, NEW k
  PROVE  /\ EarlyOf(t, s, k) \in SUBSET (1 .. Len(t) + 1) /\ EarlyOf(t, s, k) \in SUBSET Starts(t)
         /\ Starts(t) \in SUBSET (1 .. Len(t) + 1)
         /\ \A q \in EarlyOf(t, s, k) : q < s
         /\ Len(t) + 1 \in Nat
  BY DEF EarlyOf, Named, Pairs, Starts

LEMMA GotType ==
  ASSUME NEW t \in Seq(Char), NEW s \in Nat, NEW k
  PROVE  /\ Got(t, s, k) \in Seq({Declared(t, q, "value") : q \in Starts(t)})
         /\ Len(Got(t, s, k)) = Cardinality(EarlyOf(t, s, k))
         /\ Len(Got(t, s, k)) \in Nat
         /\ Len(Got(t, s, k)) = 0 <=> EarlyOf(t, s, k) = {}
  <1> DEFINE F == [q \in Starts(t) |-> Declared(t, q, "value")]
             S == {Declared(t, q, "value") : q \in Starts(t)}
             I == EarlyOf(t, s, k)
  <1>1. \A i \in Starts(t) : F[i] \in S
    OBVIOUS
  <1>2. I \in SUBSET (1 .. Len(t) + 1) /\ I \in SUBSET Starts(t) /\ Len(t) + 1 \in Nat
    BY EarlyBounds
  <1> HIDE DEF F, S, I
  <1>3. \A i \in I : F[i] \in S
    BY <1>1, <1>2
  <1>4. Picked(F, I) \in Seq(S) /\ Len(Picked(F, I)) = Cardinality(I) /\ Cardinality(I) \in Nat
    BY <1>2, <1>3, PickedType
  <1>5. Ranked(I)
    BY <1>2, AllRanked
  <1>6. Cardinality(I) = 0 <=> I = {}
    BY <1>5, FS_EmptySet DEF Ranked
  <1> QED BY <1>4, <1>6 DEF Got, F, S, I

LEMMA GotMore ==
  ASSUME NEW t \in Seq(Char), NEW s \in Starts(t), NEW p \in Nat, s <= p, Clear(t, s, p),
         s \in Pairs(t)
  PROVE  LET k == Declared(t, s, "key") IN
         Got(t, p + 1, k) = Append(Got(t, s, k), Declared(t, s, "value"))
  <1> DEFINE F == [q \in Starts(t) |-> Declared(t, q, "value")]
             k == Declared(t, s, "key")
             I == EarlyOf(t, s, k)
  <1>1. s \in Named(t, k)
    BY DEF Named
  <1> HIDE DEF k
  <1>2. EarlyOf(t, p + 1, k) = I \cup {s}
    BY <1>1, EarlyNext
  <1>3. s \in Nat /\ s \in 1 .. Len(t) + 1
    BY DEF Starts
  <1>4. I \in SUBSET (1 .. Len(t) + 1) /\ Len(t) + 1 \in Nat /\ \A i \in I : i < s
    BY <1>3, EarlyBounds
  <1>5. F[s] = Declared(t, s, "value")
    OBVIOUS
  <1> HIDE DEF F, I
  <1>6. Picked(F, I \cup {s}) = Append(Picked(F, I), F[s])
    BY <1>3, <1>4, PickedMore
  <1>7. Got(t, p + 1, k) = Append(Got(t, s, k), Declared(t, s, "value"))
    BY <1>2, <1>5, <1>6 DEF Got, F, I
  <1> QED BY <1>7 DEF k

LEMMA GotSame ==
  ASSUME NEW t \in Seq(Char), NEW s \in Starts(t), NEW p \in Nat, s <= p, Clear(t, s, p), NEW k,
         s \notin Pairs(t) \/ k # Declared(t, s, "key")
  PROVE  Got(t, p + 1, k) = Got(t, s, k)
  <1>1. s \notin Named(t, k)
    BY DEF Named
  <1>2. EarlyOf(t, p + 1, k) = EarlyOf(t, s, k)
    BY <1>1, EarlyNext
  <1> QED BY <1>2 DEF Got

LEMMA NothingStored ==
  ASSUME NEW t \in Seq(Char), NEW s \in Starts(t), NEW p \in Nat, s <= p, Clear(t, s, p),
         s \notin Pairs(t), NEW dic, NEW lis, StoredIs(t, s, dic, lis)
  PROVE  StoredIs(t, p + 1, dic, lis)
  <1>1. \A k : Got(t, p + 1, k) = Got(t, s, k)
    BY GotSame
  <1> QED BY <1>1 DEF StoredIs

LEMMA AppendIs ==
  ASSUME NEW S, NEW q \in Seq(S), NEW v \in S, NEW e \in Seq(S), Len(e) = Len(q) + 1,
         e[Len(q) + 1] = v, \A n \in 1 .. Len(q) : e[n] = q[n]
  PROVE  e = Append(q, v)
  OBVIOUS

LEMMA AppendToOne ==
  ASSUME NEW S, NEW q \in Seq(S), NEW v \in S, Len(q) = 1
  PROVE  Append(q, v) = <<q[1], v>>
  <1> DEFINE e == <<q[1], v>>
  <1>1. q[1] \in S
    <2>1. 1 \in 1 .. Len(q)
      OBVIOUS
    <2> QED BY <2>1, Element
  <1>2. e \in Seq(S)
    BY <1>1
  <1>3. Len(e) = 2 /\ e[1] = q[1] /\ e[2] = v
    OBVIOUS
  <1> HIDE DEF e
  <1>4. Len(e) = Len(q) + 1 /\ e[Len(q) + 1] = v /\ \A n \in 1 .. Len(q) : e[n] = q[n]
    BY <1>3
  <1>5. e = Append(q, v)
    BY <1>2, <1>4, AppendIs
  <1> QED BY <1>5 DEF e

\* Store(): the value goes behind those that the key has.
Put(dic, lis, k, v, dic1, lis1) ==
  \/ k \in DOMAIN lis /\ lis1 = [lis EXCEPT ![k] = Append(@, v)] /\ dic1 = dic
  \/ /\ k \in DOMAIN dic \ DOMAIN lis
     /\ lis1 = With(lis, k, <<dic[k], v>>) /\ dic1 = Without(dic, k)
  \/ k \notin DOMAIN lis \cup DOMAIN dic /\ dic1 = With(dic, k, v) /\ lis1 = lis

LEMMA OneStored ==
  ASSUME NEW t \in Seq(Char), NEW s \in Starts(t), NEW p \in Nat, s <= p, Clear(t, s, p),
         s \in Pairs(t), NEW dic, NEW lis, StoredIs(t, s, dic, lis), NEW dic1, NEW lis1,
         NEW k, NEW v,
         k = Declared(t, s, "key"), v = Declared(t, s, "value"),
         Put(dic, lis, k, v, dic1, lis1)
  PROVE  StoredIs(t, p + 1, dic1, lis1)
  <1> DEFINE S == {Declared(t, q, "value") : q \in Starts(t)}
             g == Got(t, s, k)
             h == Got(t, p + 1, k)
  <1>1. g \in Seq(S) /\ v \in S
    <2>1. s \in Nat
      BY DEF Starts
    <2> QED BY <2>1, GotType
  <1>2. h = Append(g, v)
    BY GotMore
  <1>3. \A j : j # k => Got(t, p + 1, j) = Got(t, s, j)
    BY GotSame
  <1>4. /\ k \in DOMAIN dic <=> Len(g) = 1
        /\ k \in DOMAIN lis <=> Len(g) >= 2
        /\ k \in DOMAIN dic => dic[k] = g[1]
        /\ k \in DOMAIN lis => lis[k] = g
    BY DEF StoredIs
  <1>5. \A j : /\ j \in DOMAIN dic <=> Len(Got(t, s, j)) = 1
               /\ j \in DOMAIN lis <=> Len(Got(t, s, j)) >= 2
               /\ j \in DOMAIN dic => dic[j] = Got(t, s, j)[1]
               /\ j \in DOMAIN lis => lis[j] = Got(t, s, j)
    BY DEF StoredIs
  <1> HIDE DEF S
  <1>6. Len(g) \in Nat /\ Len(h) = Len(g) + 1 /\ h[Len(g) + 1] = v
        /\ \A n \in 1 .. Len(g) : h[n] = g[n]
    <2> HIDE DEF g, h
    <2> QED BY <1>1, <1>2
  <1> DEFINE Right(j) == /\ j \in DOMAIN dic1 <=> Len(Got(t, p + 1, j)) = 1
                         /\ j \in DOMAIN lis1 <=> Len(Got(t, p + 1, j)) >= 2
                         /\ j \in DOMAIN dic1 => dic1[j] = Got(t, p + 1, j)[1]
                         /\ j \in DOMAIN lis1 => lis1[j] = Got(t, p + 1, j)
  <1>7. CASE k \in DOMAIN lis /\ lis1 = [lis EXCEPT ![k] = Append(@, v)] /\ dic1 = dic
    <2>1. DOMAIN lis1 = DOMAIN lis /\ lis1[k] = Append(lis[k], v)
          /\ \A j \in DOMAIN lis : j # k => lis1[j] = lis[j]
      BY <1>7
    <2>2. Right(k)
      <3> HIDE DEF g, h
      <3>1. Len(g) >= 2 /\ Len(h) >= 2 /\ Len(h) # 1 /\ k \notin DOMAIN dic1 /\ lis1[k] = h
        BY <1>2, <1>4, <1>6, <1>7, <2>1, SMTT(30)
      <3> QED BY <1>7, <2>1, <3>1 DEF h
    <2>3. \A j : j # k => Right(j)
      BY <1>3, <1>5, <1>7, <2>1
    <2> HIDE DEF g, h
    <2> QED BY <2>2, <2>3 DEF StoredIs
  <1>8. CASE /\ k \in DOMAIN dic \ DOMAIN lis
             /\ lis1 = With(lis, k, <<dic[k], v>>) /\ dic1 = Without(dic, k)
    <2>1. /\ DOMAIN lis1 = DOMAIN lis \cup {k} /\ lis1[k] = <<dic[k], v>>
          /\ \A j \in DOMAIN lis : j # k => lis1[j] = lis[j]
          /\ DOMAIN dic1 = DOMAIN dic \ {k} /\ \A j \in DOMAIN dic1 : dic1[j] = dic[j]
      BY <1>8 DEF With, Without
    <2>2. Right(k)
      <3> HIDE DEF g, h
      <3>1. Len(g) = 1 /\ Len(h) = 2 /\ dic[k] = g[1]
        BY <1>4, <1>6, <1>8
      <3>2. h = <<g[1], v>>
        BY <1>1, <1>2, <3>1, AppendToOne
      <3>3. k \notin DOMAIN dic1 /\ k \in DOMAIN lis1 /\ lis1[k] = h
        BY <2>1, <3>1, <3>2
      <3>4. Len(h) # 1 /\ Len(h) >= 2
        BY <3>1
      <3> QED BY <3>3, <3>4 DEF h
    <2>3. \A j : j # k => Right(j)
      BY <1>3, <1>5, <2>1
    <2> HIDE DEF g, h
    <2> QED BY <2>2, <2>3 DEF StoredIs
  <1>9. CASE k \notin DOMAIN lis \cup DOMAIN dic /\ dic1 = With(dic, k, v) /\ lis1 = lis
    <2>1. /\ DOMAIN dic1 = DOMAIN dic \cup {k} /\ dic1[k] = v
          /\ \A j \in DOMAIN dic : j # k => dic1[j] = dic[j]
      BY <1>9 DEF With
    <2>2. Right(k)
      <3> HIDE DEF g, h
      <3>1. Len(g) # 1 /\ ~(Len(g) >= 2)
        BY <1>4, <1>9
      <3>2. Len(g) = 0
        <4>1. \A n \in Nat : n # 1 /\ ~(n >= 2) => n = 0
          OBVIOUS
        <4>2. Len(g) \in Nat
          BY <1>6
        <4> HIDE DEF g
        <4> QED BY <3>1, <4>1, <4>2
      <3>3. Len(h) = 1 /\ h[1] = v
        BY <1>6, <3>2
      <3>4. k \in DOMAIN dic1 /\ k \notin DOMAIN lis1 /\ dic1[k] = h[1]
        BY <1>9, <2>1, <3>3
      <3>5. Len(h) = 1 /\ ~(Len(h) >= 2)
        BY <3>3
      <3> QED BY <3>4, <3>5 DEF h
    <2>3. \A j : j # k => Right(j)
      BY <1>3, <1>5, <1>9, <2>1
    <2> HIDE DEF g, h
    <2> QED BY <2>2, <2>3 DEF StoredIs
  <1> QED BY <1>7, <1>8, <1>9 DEF Put

-----------------------------------------------------------------------------
(* How far a text is read *)

NoEscape(t, s) == \A i \in 1 .. Len(t) : i < s => t[i] # "%"

\* The loop is at p, in the pair that starts at s, and has stored those before it; after
\* the last one there is no pair left.
Progress(t, p, sd, k, v, dic, lis) ==
  \E s \in 1 .. Len(t) + 2 : /\ s \in Starts(t) \cup {Len(t) + 2}
                             /\ PairIs(t, s, p, sd, k, v)
                             /\ StoredIs(t, s, dic, lis)
                             /\ NoEscape(t, s)

LEMMA ProgressFirst ==
  ASSUME NEW t \in Seq(Char)
  PROVE  Progress(t, 1, "key", <<>>, <<>>, Empty, Empty)
  <1>1. 1 \in 1 .. Len(t) + 2 /\ 1 \in Starts(t) /\ NoEscape(t, 1)
    BY DEF Starts, NoEscape
  <1>2. PairIs(t, 1, 1, "key", <<>>, <<>>)
    BY PairFirst
  <1>3. \A k : Len(Got(t, 1, k)) = 0
    <2> SUFFICES ASSUME NEW k PROVE Len(Got(t, 1, k)) = 0
      OBVIOUS
    <2>1. EarlyOf(t, 1, k) = {}
      BY EarlyBounds DEF EarlyOf, Named, Pairs, Starts
    <2> QED BY <2>1, GotType
  <1>4. DOMAIN Empty = {}
    BY DEF Empty
  <1>5. StoredIs(t, 1, Empty, Empty)
    BY <1>3, <1>4 DEF StoredIs
  <1> QED BY <1>1, <1>2, <1>5 DEF Progress

LEMMA ProgressNext ==
  ASSUME NEW t \in Seq(Char), NEW p \in 1 .. Len(t), t[p] # "&",
         NEW sd, NEW k, NEW v, NEW dic, NEW lis, Progress(t, p, sd, k, v, dic, lis),
         NEW sd1, NEW k1, NEW v1, Round(t[p], sd, k, v, sd1, k1, v1)
  PROVE  Progress(t, p + 1, sd1, k1, v1, dic, lis)
  <1>1. PICK s \in 1 .. Len(t) + 2 : /\ s \in Starts(t) \cup {Len(t) + 2}
                                     /\ PairIs(t, s, p, sd, k, v)
                                     /\ StoredIs(t, s, dic, lis)
                                     /\ NoEscape(t, s)
    BY DEF Progress
  <1>2. PairIs(t, s, p + 1, sd1, k1, v1)
    BY <1>1, PairNext
  <1> QED BY <1>1, <1>2 DEF Progress

\* A pair whose start the loop has reached, before the end of the text, is one of them.
LEMMA ProgressStart ==
  ASSUME NEW t \in Seq(Char), NEW p \in Nat, p <= Len(t) + 1,
         NEW sd, NEW k, NEW v, NEW dic, NEW lis, Progress(t, p, sd, k, v, dic, lis)
  PROVE  \E s \in Starts(t) : /\ s \in Nat /\ s >= 1 /\ s <= p /\ Clear(t, s, p)
                              /\ PairIs(t, s, p, sd, k, v)
                              /\ StoredIs(t, s, dic, lis)
                              /\ NoEscape(t, s)
  <1>1. PICK s \in 1 .. Len(t) + 2 : /\ s \in Starts(t) \cup {Len(t) + 2}
                                     /\ PairIs(t, s, p, sd, k, v)
                                     /\ StoredIs(t, s, dic, lis)
                                     /\ NoEscape(t, s)
    BY DEF Progress
  <1>2. s \in Nat /\ s >= 1 /\ s <= p /\ Clear(t, s, p) /\ Len(t) \in Nat
    BY <1>1 DEF PairIs
  <1>3. s # Len(t) + 2
    BY <1>2
  <1> QED BY <1>1, <1>2, <1>3

\* The loop ends a pair: the next one starts behind the delimiter.
LEMMA ProgressEnd ==
  ASSUME NEW t \in Seq(Char), NEW p \in Nat, Edge(t, p),
         NEW sd, NEW k, NEW v, NEW dic, NEW lis, Progress(t, p, sd, k, v, dic, lis),
         ~Malformed(TrimBack(k)), ~Malformed(TrimBack(v)), NEW dic1, NEW lis1,
         IF TrimBack(k) = <<>> /\ TrimBack(v) = <<>> THEN dic1 = dic /\ lis1 = lis
         ELSE Put(dic, lis, Decoded(TrimBack(k)), Decoded(TrimBack(v)), dic1, lis1)
  PROVE  Progress(t, p + 1, "key", <<>>, <<>>, dic1, lis1)
  <1>0. Len(t) \in Nat /\ p <= Len(t) + 1
    BY DEF Edge
  <1>1. PICK s \in Starts(t) : /\ s \in Nat /\ s >= 1 /\ s <= p /\ Clear(t, s, p)
                               /\ PairIs(t, s, p, sd, k, v)
                               /\ StoredIs(t, s, dic, lis)
                               /\ NoEscape(t, s)
    BY <1>0, ProgressStart
  <1>2. /\ Decoded(TrimBack(k)) = Declared(t, s, "key")
        /\ Decoded(TrimBack(v)) = Declared(t, s, "value")
        /\ (TrimBack(k) = <<>> /\ TrimBack(v) = <<>>) <=> s \notin Pairs(t)
        /\ ~\E i \in s .. p - 1 : t[i] = "%"
    <2>1. /\ Decoded(TrimBack(k)) = Declared(t, s, "key")
          /\ Decoded(TrimBack(v)) = Declared(t, s, "value")
          /\ TrimBack(k) = <<>> /\ TrimBack(v) = <<>>
               <=> ~\E i \in Span(t, s) : t[i] \notin {"=", Blank}
          /\ Malformed(TrimBack(k)) \/ Malformed(TrimBack(v)) <=> \E i \in s .. p - 1 : t[i] = "%"
      BY <1>1, PairEnds
    <2>2. s \in Pairs(t) <=> \E i \in Span(t, s) : t[i] \notin {"=", Blank}
      BY <1>1 DEF Pairs
    <2> QED BY <2>1, <2>2
  <1>3. StoredIs(t, p + 1, dic1, lis1)
    <2>1. CASE s \notin Pairs(t)
      BY <1>1, <1>2, <2>1, NothingStored
    <2>2. CASE s \in Pairs(t)
      <3>1. Put(dic, lis, Declared(t, s, "key"), Declared(t, s, "value"), dic1, lis1)
        BY <1>2, <2>2
      <3> QED BY <1>1, <2>2, <3>1, OneStored
    <2> QED BY <2>1, <2>2
  <1>4. NoEscape(t, p + 1)
    <2> SUFFICES ASSUME NEW i \in 1 .. Len(t), i < p + 1 PROVE t[i] # "%"
      BY DEF NoEscape
    <2>1. CASE i < s
      BY <1>1, <2>1 DEF NoEscape
    <2>2. CASE i \in s .. p - 1
      BY <1>2, <2>2
    <2>3. CASE i = p
      <3>1. t[p] = "&"
        BY <1>0, <2>3 DEF Edge
      <3> QED BY <2>3, <3>1, Literals
    <2> QED BY <1>1, <2>1, <2>2, <2>3
  <1>5. PairIs(t, p + 1, p + 1, "key", <<>>, <<>>)
    <2>1. p + 1 \in Nat \ {0}
      OBVIOUS
    <2> QED BY <2>1, PairFirst
  <1>6. p + 1 \in 1 .. Len(t) + 2 /\ p + 1 \in Starts(t) \cup {Len(t) + 2}
    <2>1. CASE p = Len(t) + 1
      BY <1>0, <2>1
    <2>2. CASE p \in 1 .. Len(t) /\ t[p] = "&"
      <3>1. (p + 1) - 1 = p /\ p + 1 \in 1 .. Len(t) + 1
        BY <1>0, <2>2
      <3> QED BY <1>0, <2>2, <3>1 DEF Starts
    <2> QED BY <2>1, <2>2 DEF Edge
  <1> QED BY <1>3, <1>4, <1>5, <1>6 DEF Progress

\* If decode_url throws, the text has an escape that is malformed.
LEMMA ProgressBad ==
  ASSUME NEW t \in Seq(Char), NEW p \in Nat, Edge(t, p),
         NEW sd, NEW k, NEW v, NEW dic, NEW lis, Progress(t, p, sd, k, v, dic, lis),
         Malformed(TrimBack(k)) \/ Malformed(TrimBack(v))
  PROVE  Malformed(t)
  <1>0. Len(t) \in Nat /\ p <= Len(t) + 1
    BY DEF Edge
  <1>1. PICK s \in Starts(t) : /\ s \in Nat /\ s >= 1 /\ s <= p /\ Clear(t, s, p)
                               /\ PairIs(t, s, p, sd, k, v)
                               /\ StoredIs(t, s, dic, lis)
                               /\ NoEscape(t, s)
    BY <1>0, ProgressStart
  <1>2. \E i \in s .. p - 1 : t[i] = "%"
    BY <1>1, PairEnds
  <1>3. \A i \in s .. p - 1 : i \in 1 .. Len(t)
    BY <1>1 DEF Clear
  <1>4. DOMAIN t = 1 .. Len(t)
    OBVIOUS
  <1> QED BY <1>2, <1>3, <1>4 DEF Malformed

\* When the text is read: every pair is stored, and no escape is malformed.
LEMMA ProgressDone ==
  ASSUME NEW t \in Seq(Char),
         NEW sd, NEW k, NEW v, NEW dic, NEW lis, Progress(t, Len(t) + 2, sd, k, v, dic, lis)
  PROVE  StoredIs(t, Len(t) + 2, dic, lis) /\ ~Malformed(t)
  <1>0. Len(t) \in Nat /\ DOMAIN t = 1 .. Len(t)
    OBVIOUS
  <1>1. PICK s \in 1 .. Len(t) + 2 : /\ s \in Starts(t) \cup {Len(t) + 2}
                                     /\ PairIs(t, s, Len(t) + 2, sd, k, v)
                                     /\ StoredIs(t, s, dic, lis)
                                     /\ NoEscape(t, s)
    BY DEF Progress
  <1>2. s = Len(t) + 2
    <2> SUFFICES ASSUME s # Len(t) + 2 PROVE FALSE
      OBVIOUS
    <2>1. Clear(t, s, Len(t) + 2)
      BY <1>1 DEF PairIs
    <2>2. Len(t) + 1 \in s .. (Len(t) + 2) - 1 /\ Len(t) + 1 \notin 1 .. Len(t)
      BY <1>0
    <2> QED BY <2>1, <2>2 DEF Clear
  <1>3. ~Malformed(t)
    BY <1>0, <1>1, <1>2 DEF Malformed, NoEscape
  <1> QED BY <1>1, <1>2, <1>3

\* What the two maps then hold is what the text declares.
LEMMA AllStored ==
  ASSUME NEW t \in Seq(Char), NEW dic, NEW lis, StoredIs(t, Len(t) + 2, dic, lis)
  PROVE  /\ DOMAIN Given(t) = DOMAIN dic \cup DOMAIN lis
         /\ \A k \in DOMAIN Given(t) :
              Given(t)[k] = IF k \in DOMAIN dic THEN String(dic[k]) ELSE Array(lis[k])
  <1> DEFINE end == Len(t) + 2
  <1>0. Len(t) \in Nat /\ end \in Nat
    OBVIOUS
  <1>1. \A k : EarlyOf(t, end, k) = Named(t, k)
    <2>1. \A q \in Starts(t) : q < end
      BY <1>0 DEF Starts
    <2>2. \A k : Named(t, k) \subseteq Starts(t)
      BY DEF Named, Pairs
    <2> HIDE DEF end
    <2> QED BY <2>1, <2>2 DEF EarlyOf
  <1>2. \A k : Got(t, end, k) = Values(t, k)
    BY <1>1 DEF Got, Values
  <1>3. DOMAIN Given(t) = {Declared(t, s, "key") : s \in Pairs(t)}
    BY DEF Given
  <1>4. \A k : k \in DOMAIN Given(t) <=> Named(t, k) # {}
    BY <1>3 DEF Named
  <1> HIDE DEF end
  <1>5. \A k : Len(Values(t, k)) \in Nat /\ (Len(Values(t, k)) = 0 <=> Named(t, k) = {})
    <2> SUFFICES ASSUME NEW k
                 PROVE  Len(Values(t, k)) \in Nat /\ (Len(Values(t, k)) = 0 <=> Named(t, k) = {})
      OBVIOUS
    <2>1. Len(Got(t, end, k)) \in Nat /\ (Len(Got(t, end, k)) = 0 <=> EarlyOf(t, end, k) = {})
      BY <1>0, GotType
    <2> QED BY <1>1, <1>2, <2>1
  <1>6. /\ \A k : k \in DOMAIN dic <=> Len(Values(t, k)) = 1
        /\ \A k : k \in DOMAIN lis <=> Len(Values(t, k)) >= 2
        /\ \A k \in DOMAIN dic : dic[k] = Values(t, k)[1]
        /\ \A k \in DOMAIN lis : lis[k] = Values(t, k)
    BY <1>2 DEF StoredIs, end
  <1>7. \A n \in Nat : n # 0 <=> n = 1 \/ n >= 2
    OBVIOUS
  <1>8. \A k : k \in DOMAIN Given(t) <=> k \in DOMAIN dic \/ k \in DOMAIN lis
    BY <1>4, <1>5, <1>6, <1>7
  <1>9. \A k \in DOMAIN Given(t) :
          Given(t)[k] = IF Len(Values(t, k)) = 1 THEN String(Values(t, k)[1])
                                                 ELSE Array(Values(t, k))
    BY DEF Given
  <1>10. ASSUME NEW k \in DOMAIN Given(t)
         PROVE  Given(t)[k] = IF k \in DOMAIN dic THEN String(dic[k]) ELSE Array(lis[k])
    BY <1>6, <1>8, <1>9
  <1> QED BY <1>8, <1>10

LEMMA GivenNone == Given(<<>>) = Empty
  <1>1. \A s \in Starts(<<>>) : Span(<<>>, s) = {}
    <2>1. Len(<<>>) = 0
      OBVIOUS
    <2>2. \A s \in Starts(<<>>) : s \in 1 .. 0 + 1
      BY <2>1 DEF Starts
    <2> QED BY <2>1, <2>2 DEF Span
  <1>2. Pairs(<<>>) = {}
    BY <1>1 DEF Pairs
  <1> QED BY <1>2 DEF Given, Empty

LEMMA GivenOver ==
  ASSUME NEW t
  PROVE  Over(Empty, Given(t)) = Given(t)
  <1>1. DOMAIN Empty = {}
    BY DEF Empty
  <1> DEFINE g == Given(t)
  <1>2. g = [k \in DOMAIN g |-> g[k]]
    BY DEF Given
  <1> HIDE DEF g
  <1>3. Over(Empty, g) = g
    BY <1>1, <1>2 DEF Over
  <1> QED BY <1>3 DEF g

-----------------------------------------------------------------------------
(* What the request declares *)

\* The parameters of input q: the text of its form, what its body declares, and the whole.
FormText(q) == IF q.type = "form" THEN q.body ELSE <<>>
AsBody(q, f) == IF q.type = "json" /\ q.body # <<>>
                THEN \E ks \in JsonKeys : f = [k \in ks |-> Json]
                ELSE f = Given(FormText(q))
AsRequest(q, f) == IF q.type = "json" /\ q.body # <<>>
                   THEN \E ks \in JsonKeys : f = Over([k \in ks |-> Json], Given(q.query))
                   ELSE f = Over(Given(FormText(q)), Given(q.query))

DeclaredInv ==
  /\ at = "start" => Idle /\ params = Empty
  /\ at = "body" => /\ input.type = "form" /\ params = Empty
                    /\ Progress(input.body, pos, side, key, value, dict, list)
  /\ at = "query" => /\ AsBody(input, params) /\ ~Malformed(FormText(input))
                     /\ Progress(input.query, pos, side, key, value, dict, list)
  /\ at = "done" => /\ AsRequest(input, params)
                    /\ ~Malformed(FormText(input)) /\ ~Malformed(input.query)
  /\ at = "server error" => Malformed(FormText(input)) \/ Malformed(input.query)

LEMMA MalformedJoin ==
  ASSUME NEW a \in Seq(Char), NEW b \in Seq(Char)
  PROVE  Malformed(a \o b) <=> Malformed(a) \/ Malformed(b)
  <1> DEFINE c == a \o b
  <1>1. /\ Len(a) \in Nat /\ Len(b) \in Nat /\ Len(c) = Len(a) + Len(b)
        /\ DOMAIN a = 1 .. Len(a) /\ DOMAIN b = 1 .. Len(b) /\ DOMAIN c = 1 .. Len(c)
    OBVIOUS
  <1>2. \A i \in 1 .. Len(c) : c[i] = IF i <= Len(a) THEN a[i] ELSE b[i - Len(a)]
    OBVIOUS
  <1> HIDE DEF c
  <1>3. ASSUME NEW i \in DOMAIN a, a[i] = "%"
        PROVE  Malformed(c)
    <2>1. i \in 1 .. Len(c) /\ i <= Len(a)
      BY <1>1
    <2> QED BY <1>1, <1>2, <1>3, <2>1 DEF Malformed
  <1>4. ASSUME NEW i \in DOMAIN b, b[i] = "%"
        PROVE  Malformed(c)
    <2>1. /\ Len(a) + i \in 1 .. Len(c) /\ ~(Len(a) + i <= Len(a)) /\ (Len(a) + i) - Len(a) = i
      BY <1>1
    <2>2. c[Len(a) + i] = b[i]
      BY <1>2, <2>1
    <2> QED BY <1>1, <1>4, <2>1, <2>2 DEF Malformed
  <1>5. ASSUME NEW i \in DOMAIN c, c[i] = "%"
        PROVE  Malformed(a) \/ Malformed(b)
    <2>1. CASE i <= Len(a)
      <3>1. i \in DOMAIN a
        BY <1>1, <2>1
      <3> QED BY <1>1, <1>2, <1>5, <2>1, <3>1 DEF Malformed
    <2>2. CASE ~(i <= Len(a))
      <3>1. i - Len(a) \in DOMAIN b
        BY <1>1, <2>2
      <3> QED BY <1>1, <1>2, <1>5, <2>2, <3>1 DEF Malformed
    <2> QED BY <2>1, <2>2
  <1>6. Malformed(c) <=> Malformed(a) \/ Malformed(b)
    BY <1>3, <1>4, <1>5 DEF Malformed
  <1> QED BY <1>6 DEF c

LEMMA DeclaredStart == RouterInit => DeclaredInv
  <1> SUFFICES ASSUME RouterInit PROVE DeclaredInv
    OBVIOUS
  <1>1. PICK r \in Requests : ParamsInit({r.input})
    BY DEF RouterInit
  <1>2. at = "start" /\ Idle /\ params = Empty
    BY <1>1 DEF ParamsInit
  <1> QED BY <1>2 DEF DeclaredInv

\* What the loop reads, while it reads.
LEMMA TextProgress ==
  ASSUME ParamsInv, DeclaredInv, at \in {"body", "query"}
  PROVE  /\ Text \in Seq(Char) /\ Len(Text) \in Nat /\ pos \in 1 .. Len(Text) + 2
         /\ Progress(Text, pos, side, key, value, dict, list)
         /\ at = "body" => Text = input.body /\ FormText(input) = input.body
         /\ at = "query" => Text = input.query
  <1>1. Text \in Seq(Char)
    BY TextType
  <1>2. pos \in 1 .. Len(Text) + 2
    BY DEF ParamsInv, ParamsTypeOK
  <1>3. /\ at = "body" => Text = input.body /\ FormText(input) = input.body
        /\ at = "query" => Text = input.query
    BY DEF Text, FormText, DeclaredInv
  <1>4. Progress(Text, pos, side, key, value, dict, list)
    BY <1>3 DEF DeclaredInv
  <1>5. Len(Text) \in Nat
    BY <1>1
  <1> QED BY <1>1, <1>2, <1>3, <1>4, <1>5

LEMMA HereIs ==
  ASSUME ParamsInv, DeclaredInv, Reading
  PROVE  IF Here = "&" THEN Edge(Text, pos) ELSE pos \in 1 .. Len(Text) /\ Here = Text[pos]
  <1>1. Len(Text) \in Nat /\ pos \in 1 .. Len(Text) + 2 /\ pos <= Len(Text) + 1
    BY TextProgress DEF Reading
  <1> HIDE DEF Text
  <1>2. CASE pos <= Len(Text)
    BY <1>1, <1>2 DEF Here, Edge
  <1>3. CASE pos = Len(Text) + 1
    BY <1>1, <1>3 DEF Here, Edge
  <1> QED BY <1>1, <1>2, <1>3

\* The text is gone on with.
LEMMA DeclaredSame ==
  ASSUME ParamsInv, DeclaredInv, at \in {"body", "query"}, UNCHANGED <<input, at, params>>,
         Progress(Text, pos', side', key', value', dict', list')
  PROVE  DeclaredInv'
  <1>1. CASE at = "body"
    <2>1. Progress(input.body, pos', side', key', value', dict', list')
      BY <1>1, TextProgress
    <2> QED BY <1>1, <2>1 DEF DeclaredInv
  <1>2. CASE at = "query"
    <2>1. Progress(input.query, pos', side', key', value', dict', list')
      BY <1>2, TextProgress
    <2> QED BY <1>2, <2>1 DEF DeclaredInv
  <1> QED BY <1>1, <1>2

LEMMA DeclaredRound ==
  ASSUME ParamsInv, DeclaredInv, Reading, Here # "&", pos' = pos + 1,
         Round(Here, side, key, value, side', key', value'),
         UNCHANGED <<input, at, dict, list, params>>
  PROVE  DeclaredInv'
  <1>1. at \in {"body", "query"}
    BY DEF Reading
  <1>2. pos \in 1 .. Len(Text) /\ Here = Text[pos]
    BY HereIs
  <1>3. Text \in Seq(Char) /\ Progress(Text, pos, side, key, value, dict, list)
    BY <1>1, TextProgress
  <1> HIDE DEF Text, Here
  <1>4. Progress(Text, pos + 1, side', key', value', dict, list)
    BY <1>2, <1>3, ProgressNext
  <1>5. Progress(Text, pos', side', key', value', dict', list')
    BY <1>4
  <1> QED BY <1>1, <1>5, DeclaredSame

LEMMA DeclaredBegin ==
  ASSUME ParamsInv, DeclaredInv, Begin
  PROVE  DeclaredInv'
  <1>1. /\ Idle' /\ params = Empty
        /\ \A q \in Seq(Char) : Progress(q, pos', side', key', value', dict', list')
    BY ProgressFirst DEF Begin, DeclaredInv, Idle, loop
  <1>2. /\ input' = input /\ input.body \in Seq(Char) /\ input.query \in Seq(Char)
        /\ ~Malformed(<<>>)
    <2>1. DOMAIN <<>> = {}
      OBVIOUS
    <2> QED BY <2>1 DEF Begin, ParamsInv, Malformed
  <1>3. CASE at' = "body" /\ input.type = "form" /\ params' = params
    BY <1>1, <1>2, <1>3 DEF DeclaredInv
  <1>4. CASE at' = "bad request"
    BY <1>4 DEF DeclaredInv
  <1>5. CASE /\ at' = "query" /\ input.type = "json" /\ input.body # <<>>
             /\ \E ks \in JsonKeys : params' = [k \in ks |-> Json]
    BY <1>1, <1>2, <1>5 DEF DeclaredInv, AsBody, FormText
  <1>6. CASE at' = "query" /\ (input.type = "other" \/ input.body = <<>>) /\ params' = params
    <2>1. FormText(input) = <<>>
      BY <1>6 DEF FormText
    <2>2. AsBody(input, params')
      BY <1>1, <1>6, <2>1, GivenNone DEF AsBody
    <2> QED BY <1>1, <1>2, <1>6, <2>1, <2>2 DEF DeclaredInv
  <1> QED BY <1>3, <1>4, <1>5, <1>6 DEF Begin

LEMMA DeclaredEndPair ==
  ASSUME ParamsInv, DeclaredInv, EndPair
  PROVE  DeclaredInv'
  <1>1. at \in {"body", "query"} /\ Reading /\ Here = "&" /\ UNCHANGED <<input, params>>
    BY DEF EndPair, Reading
  <1>2. Edge(Text, pos)
    BY <1>1, HereIs
  <1>3. /\ Text \in Seq(Char) /\ pos \in Nat /\ Progress(Text, pos, side, key, value, dict, list)
        /\ at = "body" => Text = FormText(input)
        /\ at = "query" => Text = input.query
    BY <1>1, TextProgress
  <1> HIDE DEF Text, Here
  <1>4. CASE Malformed(TrimBack(key)) \/ Malformed(TrimBack(value))
    <2>1. at' = "server error"
      BY <1>4 DEF EndPair
    <2>2. Malformed(Text)
      BY <1>2, <1>3, <1>4, ProgressBad
    <2> QED BY <1>1, <1>3, <2>1, <2>2 DEF DeclaredInv
  <1>5. CASE ~Malformed(TrimBack(key)) /\ ~Malformed(TrimBack(value))
    <2>1. /\ key' = <<>> /\ value' = <<>> /\ side' = "key" /\ pos' = pos + 1 /\ at' = at
          /\ IF TrimBack(key) = <<>> /\ TrimBack(value) = <<>>
             THEN dict' = dict /\ list' = list
             ELSE Put(dict, list, Decoded(TrimBack(key)), Decoded(TrimBack(value)), dict', list')
      BY <1>5 DEF EndPair, Store, Put
    <2>2. Progress(Text, pos + 1, "key", <<>>, <<>>, dict', list')
      BY <1>2, <1>3, <1>5, <2>1, ProgressEnd
    <2>3. Progress(Text, pos', side', key', value', dict', list')
      BY <2>1, <2>2
    <2> QED BY <1>1, <2>1, <2>3, DeclaredSame
  <1> QED BY <1>4, <1>5

LEMMA DeclaredMerge ==
  ASSUME ParamsInv, DeclaredInv, Merge
  PROVE  DeclaredInv'
  <1>1. /\ at \in {"body", "query"} /\ pos = Len(Text) + 2 /\ input' = input
        /\ at' = IF at = "body" THEN "query" ELSE "done"
    BY DEF Merge
  <1>2. /\ Text \in Seq(Char) /\ Progress(Text, Len(Text) + 2, side, key, value, dict, list)
        /\ at = "body" => Text = FormText(input)
        /\ at = "query" => Text = input.query
    BY <1>1, TextProgress
  <1> HIDE DEF Text
  <1>3. StoredIs(Text, Len(Text) + 2, dict, list) /\ ~Malformed(Text)
    BY <1>2, ProgressDone
  <1>4. params' = Over(params, Given(Text))
    <2>1. /\ DOMAIN Given(Text) = DOMAIN dict \cup DOMAIN list
          /\ \A k \in DOMAIN Given(Text) : Given(Text)[k] = Parsed(k)
      BY <1>2, <1>3, AllStored, ZenonT(60) DEF Parsed
    <2>2. params' = [k \in DOMAIN params \cup DOMAIN dict \cup DOMAIN list |->
                       IF k \in DOMAIN params THEN params[k] ELSE Parsed(k)]
      BY DEF Merge, add_to_body
    <2> HIDE DEF Parsed
    <2> DEFINE g == Given(Text)
    <2> HIDE DEF g
    <2>3. params' = Over(params, g)
      BY <2>1, <2>2 DEF Over, g
    <2> QED BY <2>3 DEF g
  <1>5. CASE at = "body"
    <2>1. input.type = "form" /\ params = Empty /\ at' = "query"
      BY <1>1, <1>5 DEF DeclaredInv
    <2>2. params' = Given(FormText(input))
      BY <1>2, <1>4, <1>5, <2>1, GivenOver
    <2>3. AsBody(input, params')
      BY <2>1, <2>2 DEF AsBody
    <2>4. Progress(input.query, pos', side', key', value', dict', list')
      BY ProgressFirst DEF Merge, LoopStart, ParamsInv
    <2> QED BY <1>1, <1>2, <1>3, <1>5, <2>1, <2>3, <2>4 DEF DeclaredInv
  <1>6. CASE at = "query"
    <2>1. at' = "done" /\ AsBody(input, params) /\ ~Malformed(FormText(input))
      BY <1>1, <1>6 DEF DeclaredInv
    <2>2. AsRequest(input, params')
      BY <1>2, <1>4, <1>6, <2>1 DEF AsBody, AsRequest
    <2> QED BY <1>1, <1>2, <1>3, <1>6, <2>1, <2>2 DEF DeclaredInv
  <1> QED BY <1>1, <1>5, <1>6

LEMMA DeclaredStep == ParamsInv /\ DeclaredInv /\ [ParamsNext]_paramVars => DeclaredInv'
  <1> SUFFICES ASSUME ParamsInv, DeclaredInv, [ParamsNext]_paramVars PROVE DeclaredInv'
    OBVIOUS
  <1>1. CASE Begin
    BY <1>1, DeclaredBegin
  <1>2. CASE Swap
    <2>1. Here = "=" /\ Here # "&" /\ Reading /\ pos' = pos + 1
      BY <1>2, Literals DEF Swap
    <2>2. Round(Here, side, key, value, side', key', value')
      BY <1>2, <2>1 DEF Swap, Round
    <2> QED BY <1>2, <2>1, <2>2, DeclaredRound DEF Swap
  <1>3. CASE EndPair
    BY <1>3, DeclaredEndPair
  <1>4. CASE Skip
    <2>1. Here = Blank /\ Here # "&" /\ Reading /\ pos' = pos + 1
      BY <1>4, Literals DEF Skip
    <2>2. Round(Here, side, key, value, side', key', value')
      BY <1>4, <2>1 DEF Skip, Round, Current
    <2> QED BY <1>4, <2>1, <2>2, DeclaredRound DEF Skip
  <1>5. CASE Add
    <2>1. Here # "=" /\ Here # "&" /\ Reading /\ pos' = pos + 1
      BY <1>5 DEF Add
    <2>2. Round(Here, side, key, value, side', key', value')
      BY <1>5, <2>1 DEF Add, Round, Current
    <2> QED BY <1>5, <2>1, <2>2, DeclaredRound DEF Add
  <1>6. CASE Merge
    BY <1>6, DeclaredMerge
  <1>7. CASE UNCHANGED paramVars
    BY <1>7 DEF DeclaredInv, paramVars, loop, Idle
  <1> QED BY <1>1, <1>2, <1>3, <1>4, <1>5, <1>6, <1>7 DEF ParamsNext

LEMMA IsDeclared == ParamsInv /\ DeclaredInv => ParamsAsDeclared
  <1> SUFFICES ASSUME ParamsInv, DeclaredInv PROVE ParamsAsDeclared
    OBVIOUS
  <1> DEFINE read == IF input.type = "form" THEN input.body ELSE <<>>
  <1>1. read = FormText(input)
    BY DEF FormText
  <1>2. read \in Seq(Char) /\ input.query \in Seq(Char)
    BY DEF ParamsInv
  <1> HIDE DEF read
  <1>3. Malformed(read \o input.query) <=> Malformed(read) \/ Malformed(input.query)
    BY <1>2, MalformedJoin
  <1>4. at = "done" =>
          IF input.type = "json" /\ input.body # <<>>
          THEN \E ks \in JsonKeys : params = Over([k \in ks |-> Json], Given(input.query))
          ELSE params = Over(Given(read), Given(input.query))
    BY <1>1 DEF DeclaredInv, AsRequest
  <1>5. /\ at = "done" => ~Malformed(read \o input.query)
        /\ at = "server error" => Malformed(read \o input.query)
    BY <1>1, <1>3 DEF DeclaredInv
  <1> QED BY <1>4, <1>5 DEF ParamsAsDeclared, read

\* router.hpp:200-258, utils.cpp:155-214: whatever the body and the URL of a request, it ends
\* with just the parameters that they declare, the body's before the URL's, and fails just if
\* an escape in them is malformed.
THEOREM ParamsAlwaysAsDeclared == RouterSpec => []ParamsAsDeclared
  <1>1. [RouterNext]_routerVars => [ParamsNext]_paramVars
    BY DEF RouterNext, TryPath, Pass, GetSession, GetConnection, JsonParams, Invoke, Run,
           Return, routerVars, loop, paramVars
  <1> QED BY <1>1, ParamsInvariance, DeclaredStart, DeclaredStep, IsDeclared, PTL DEF RouterSpec
==============================================================================
