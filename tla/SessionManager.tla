--------------------------- MODULE SessionManager ---------------------------
(***************************************************************************)
(* memory_session_manager (bserv/session.cpp, bserv/include/bserv/         *)
(* session.hpp:48-74).  Four maps and a priority queue index the same      *)
(* sessions; both operations run entirely under lock_, so each is one      *)
(* action, and each begins by dropping the sessions that have expired.     *)
(* A session is a shared_ptr: it is modelled by the number of the          *)
(* make_shared call that made it, which a request may keep after expiry.   *)
(***************************************************************************)
EXTENDS Integers

CONSTANTS Key,         \* the strings generate_random_string(32) may return
          IntKey,      \* the values dist_(rng_) may return
          NoKey,       \* the empty string
          Ttl,         \* 20 minutes
          MaxTime,     \* bound on the clock
          MaxMade      \* bound on the number of sessions made

ASSUME TtlAssumption == Ttl \in Nat \ {0}
ASSUME NoKeyAssumption == NoKey \notin Key
ASSUME BoundsAssumption == MaxTime \in Nat /\ MaxMade \in Nat

VARIABLES str_to_int, int_to_str, sessions, expiry, queue, made, now, answer

maps == <<str_to_int, int_to_str, sessions, expiry, queue>>
vars == <<maps, made, now, answer>>

-----------------------------------------------------------------------------
\* std::map: operator[] on an assignment, and erase.
With(f, k, v) == [j \in DOMAIN f \cup {k} |-> IF j = k THEN v ELSE f[j]]
Without(f, S) == [j \in DOMAIN f \ S |-> f[j]]

TypeOK ==
  /\ DOMAIN str_to_int \subseteq Key /\ \A k \in DOMAIN str_to_int : str_to_int[k] \in IntKey
  /\ DOMAIN int_to_str \subseteq IntKey /\ \A i \in DOMAIN int_to_str : int_to_str[i] \in Key
  /\ DOMAIN sessions \subseteq IntKey /\ \A i \in DOMAIN sessions : sessions[i] \in 1 .. made
  /\ DOMAIN expiry \subseteq IntKey /\ \A i \in DOMAIN expiry : expiry[i] \in Nat
  /\ queue \subseteq Nat \X IntKey
  /\ made \in Nat /\ now \in Nat
  /\ answer \in [key : Key \cup {NoKey}, obj : 0 .. made, fresh : BOOLEAN]

Empty == [x \in {} |-> 0]

Init == /\ str_to_int = Empty /\ int_to_str = Empty
        /\ sessions = Empty /\ expiry = Empty /\ queue = {}
        /\ made = 0 /\ now = 0
        /\ answer = [key |-> NoKey, obj |-> 0, fresh |-> FALSE]

\* The entries the loop at the head of both operations removes: it stops at the first
\* one whose expiry is not in the past, and the queue is ordered by expiry.  (Faulty
\* variant: a session expires at its last moment instead of after it.)
OverdueInclusive == {p \in queue : p[1] <= now}
Overdue == {p \in queue : p[1] < now}
Dead == {p[2] : p \in Overdue}
DeadKeys == {int_to_str[i] : i \in Dead}

\* The key is not empty and still known once the expired sessions are gone.
Known(k) == k \in DOMAIN str_to_int /\ k \notin DeadKeys

\* The queue entry of a visited session is replaced by one Ttl from now.  (Faulty
\* variants: the old entry stays; the Ttl is subtracted.)
RequeueKeepsOld(i) == (queue \ Overdue) \cup {<<now + Ttl, i>>}
RequeueInThePast(i) == ((queue \ Overdue) \ {<<expiry[i], i>>}) \cup {<<now - Ttl, i>>}
Requeue(i) == ((queue \ Overdue) \ {<<expiry[i], i>>}) \cup {<<now + Ttl, i>>}

\* A session that exists is visited.
Revisit(k) ==
  LET i == str_to_int[k] IN
  /\ Known(k)
  /\ str_to_int' = Without(str_to_int, DeadKeys)
  /\ int_to_str' = Without(int_to_str, Dead)
  /\ sessions' = Without(sessions, Dead)
  /\ expiry' = With(Without(expiry, Dead), i, now + Ttl)
  /\ queue' = Requeue(i)
  /\ answer' = [key |-> k, obj |-> sessions[i], fresh |-> FALSE]
  /\ UNCHANGED <<made, now>>

\* get_or_create() makes a session under a random key and a random integer that are
\* both unused.
Create(k) ==
  /\ ~Known(k)
  /\ made < MaxMade
  /\ \E j \in Key, i \in IntKey :
       /\ ~Known(j)
       /\ i \notin DOMAIN int_to_str \ Dead
       /\ str_to_int' = With(Without(str_to_int, DeadKeys), j, i)
       /\ int_to_str' = With(Without(int_to_str, Dead), i, j)
       /\ sessions' = With(Without(sessions, Dead), i, made + 1)
       /\ expiry' = With(Without(expiry, Dead), i, now + Ttl)
       /\ queue' = (queue \ Overdue) \cup {<<now + Ttl, i>>}
       /\ answer' = [key |-> j, obj |-> made + 1, fresh |-> TRUE]
  /\ made' = made + 1
  /\ UNCHANGED now

get_or_create(k) == Revisit(k) \/ Create(k)

\* try_get() of a key that is empty or unknown changes nothing but the expired sessions.
Miss(k) ==
  /\ ~Known(k)
  /\ str_to_int' = Without(str_to_int, DeadKeys)
  /\ int_to_str' = Without(int_to_str, Dead)
  /\ sessions' = Without(sessions, Dead)
  /\ expiry' = Without(expiry, Dead)
  /\ queue' = queue \ Overdue
  /\ answer' = [key |-> k, obj |-> 0, fresh |-> FALSE]
  /\ UNCHANGED <<made, now>>

try_get(k) == Revisit(k) \/ Miss(k)

Tick == /\ now < MaxTime
        /\ now' = now + 1
        /\ UNCHANGED <<maps, made, answer>>

Next == Tick \/ \E k \in Key \cup {NoKey} : get_or_create(k) \/ try_get(k)

Spec == Init /\ [][Next]_vars

-----------------------------------------------------------------------------
\* The five containers describe the same sessions: the two key maps are inverse to each
\* other, every session has one expiry and one entry in the queue, under that expiry,
\* and no two keys share a session.  queue_.erase(lower_bound(...)) at lines 36 and 70
\* is defined only because of this.
IndexesAgree ==
  /\ DOMAIN sessions = DOMAIN int_to_str
  /\ DOMAIN expiry = DOMAIN int_to_str
  /\ \A k \in DOMAIN str_to_int : /\ str_to_int[k] \in DOMAIN int_to_str
                                  /\ int_to_str[str_to_int[k]] = k
  /\ \A i \in DOMAIN int_to_str : /\ int_to_str[i] \in DOMAIN str_to_int
                                  /\ str_to_int[int_to_str[i]] = i
  /\ queue = {<<expiry[i], i>> : i \in DOMAIN expiry}
  /\ \A i, j \in DOMAIN sessions : sessions[i] = sessions[j] => i = j

\* The sessions that have not expired, as the caller sees them.
Live == {k \in DOMAIN str_to_int : expiry[str_to_int[k]] >= now}

Store == INSTANCE SessionStore
           WITH live <- [k \in Live |-> [obj |-> sessions[str_to_int[k]],
                                         expiry |-> expiry[str_to_int[k]]]]

\* The manager behaves as session_manager_base says, although it removes expired
\* sessions only when somebody calls it: none is served late, lost early or mixed up.
ImplementsStore == Store!Spec
=============================================================================
