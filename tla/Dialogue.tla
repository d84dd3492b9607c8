------------------------------ MODULE Dialogue ------------------------------
(***************************************************************************)
(* What an HTTP connection promises its client: requests are served one    *)
(* at a time in the order they were sent, each once, and nothing is served *)
(* before the answer to what was served last has been delivered, nor after *)
(* a request that asked for the connection to be closed.                   *)
(*                                                                         *)
(* Threads, callbacks, timers and the pool are absent: HttpServer has them *)
(* and implements this module.                                             *)
(***************************************************************************)
EXTENDS Naturals, Sequences

CONSTANTS Peer,    \* the connections
          Request  \* what a request says of the connection: "keep" and others

VARIABLES wire,    \* what each peer has sent
          served,  \* how many of its requests a handler has run for
          replies  \* the requests whose answers it has got, in order

vars == <<wire, served, replies>>

Init == /\ wire = [c \in Peer |-> <<>>]
        /\ served = [c \in Peer |-> 0]
        /\ replies = [c \in Peer |-> <<>>]

Ask(c) == /\ \E r \in Request : wire' = [wire EXCEPT ![c] = Append(@, r)]
          /\ UNCHANGED <<served, replies>>

Serve(c) == /\ served[c] < Len(wire[c])
            /\ served[c] = Len(replies[c])
            /\ \A n \in 1 .. served[c] : wire[c][n] = "keep"
            /\ served' = [served EXCEPT ![c] = @ + 1]
            /\ UNCHANGED <<wire, replies>>

Answer(c) == /\ Len(replies[c]) < served[c]
             /\ replies' = [replies EXCEPT ![c] = Append(@, served[c])]
             /\ UNCHANGED <<wire, served>>

Next == \E c \in Peer : Ask(c) \/ Serve(c) \/ Answer(c)

Spec == Init /\ [][Next]_vars
=============================================================================
