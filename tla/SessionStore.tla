---------------------------- MODULE SessionStore ----------------------------
(***************************************************************************)
(* What a session manager promises (session_manager_base, bserv/include/   *)
(* bserv/session.hpp:26-46, with the expiry session.cpp:40-42 states):     *)
(* a key that refers to a session still alive leads to that session and    *)
(* gives it another Ttl; any other key leads to a new session under a new  *)
(* key (get_or_create) or to none (try_get).                               *)
(***************************************************************************)
EXTENDS Integers

CONSTANTS Key,       \* session ids
          NoKey,     \* the empty string: the request carries no session id
          Ttl        \* how long a session lives after its last visit

VARIABLES live,      \* the sessions alive: key -> [obj, expiry]
          made,      \* how many sessions were ever made
          now,       \* the steady clock
          answer     \* what the last call returned

vars == <<live, made, now, answer>>

Refers(k) == k \in DOMAIN live

Set(k, o) == live' = [j \in DOMAIN live \cup {k} |->
                        IF j = k THEN [obj |-> o, expiry |-> now + Ttl] ELSE live[j]]

Init == /\ live = [k \in {} |-> 0]
        /\ made = 0
        /\ now = 0
        /\ answer = [key |-> NoKey, obj |-> 0, fresh |-> FALSE]

\* Both calls find a session that lives: the same one, with a later expiry.
Visit(k) == /\ Refers(k)
            /\ Set(k, live[k].obj)
            /\ answer' = [key |-> k, obj |-> live[k].obj, fresh |-> FALSE]
            /\ UNCHANGED <<made, now>>

\* get_or_create() of any other key: no session is ever handed out twice.
Create(k) == /\ ~Refers(k)
             /\ \E j \in Key : /\ ~Refers(j)
                               /\ Set(j, made + 1)
                               /\ answer' = [key |-> j, obj |-> made + 1, fresh |-> TRUE]
             /\ made' = made + 1
             /\ UNCHANGED now

\* try_get() of any other key.
Miss(k) == /\ ~Refers(k)
           /\ answer' = [key |-> k, obj |-> 0, fresh |-> FALSE]
           /\ UNCHANGED <<live, made, now>>

\* Time passes, and a session not visited for longer than Ttl is gone.
Tick == /\ now' = now + 1
        /\ live' = [k \in {j \in DOMAIN live : live[j].expiry >= now'} |-> live[k]]
        /\ UNCHANGED <<made, answer>>

Next == Tick \/ \E k \in Key \cup {NoKey} : Visit(k) \/ Create(k) \/ Miss(k)

Spec == Init /\ [][Next]_vars
=============================================================================
