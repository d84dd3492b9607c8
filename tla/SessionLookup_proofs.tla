------------------------ MODULE SessionLookup_proofs ------------------------
(***************************************************************************)
(* Proofs about SessionManager, and about SessionLookup, which uses it,    *)
(* for all sets of keys, integers, browsers and requests and every         *)
(* lifetime, and without any use of the bounds on clock and sessions.      *)
(* First the manager: its two indexes agree, and it implements             *)
(* SessionStore.  Then the lookup: a browser finds its session, shares it  *)
(* with nobody and stays logged in; what the manager does is taken from    *)
(* the first part, through the refinement.                                 *)
(***************************************************************************)
EXTENDS SessionLookup, FiniteSetTheorems, SequenceTheorems, TLAPS

\* The inductive invariant.
IInv == TypeOK /\ IndexesAgree

\* What the purge at the head of both operations drops, seen through the maps: exactly
\* the sessions that are past their expiry, so that Known is Live.
LEMMA PurgeFacts ==
  ASSUME IInv
  PROVE  /\ Dead = {i \in DOMAIN int_to_str : expiry[i] < now}
         /\ DeadKeys = {k \in DOMAIN str_to_int : expiry[str_to_int[k]] < now}
         /\ \A k : Known(k) <=> k \in Live
         /\ Overdue = {<<expiry[i], i>> : i \in Dead}
  <1> USE DEF IInv, TypeOK, IndexesAgree
  <1>1. Dead = {i \in DOMAIN int_to_str : expiry[i] < now}
    <2>1. ASSUME NEW i \in Dead PROVE i \in DOMAIN int_to_str /\ expiry[i] < now
      BY <2>1 DEF Dead, Overdue
    <2>2. ASSUME NEW i \in DOMAIN int_to_str, expiry[i] < now PROVE i \in Dead
      <3>1. <<expiry[i], i>> \in Overdue
        BY <2>2 DEF Overdue
      <3> QED BY <3>1 DEF Dead
    <2> QED BY <2>1, <2>2
  <1>2. DeadKeys = {k \in DOMAIN str_to_int : expiry[str_to_int[k]] < now}
    <2>1. ASSUME NEW k \in DeadKeys PROVE k \in DOMAIN str_to_int /\ expiry[str_to_int[k]] < now
      BY <1>1 DEF DeadKeys
    <2>2. ASSUME NEW k \in DOMAIN str_to_int, expiry[str_to_int[k]] < now PROVE k \in DeadKeys
      BY <1>1, <2>2 DEF DeadKeys
    <2> QED BY <2>1, <2>2
  <1>3. \A k : Known(k) <=> k \in Live
    <2>1. \A k \in DOMAIN str_to_int : expiry[str_to_int[k]] \in Nat /\ now \in Nat
      OBVIOUS
    <2> QED BY <1>2, <2>1 DEF Known, Live
  <1>4. Overdue = {<<expiry[i], i>> : i \in Dead}
    <2>1. ASSUME NEW p \in Overdue PROVE p \in {<<expiry[i], i>> : i \in Dead}
      BY <2>1 DEF Overdue, Dead
    <2>2. ASSUME NEW i \in Dead PROVE <<expiry[i], i>> \in Overdue
      BY <1>1 DEF Overdue
    <2> QED BY <2>1, <2>2
  <1> QED BY <1>1, <1>2, <1>3, <1>4

\* Initially nothing is indexed.
LEMMA InitIInv == Init => IInv
  BY DEF Init, Empty, IInv, TypeOK, IndexesAgree

\* A call that finds nothing leaves the five containers agreeing on who is left.
LEMMA MissStep ==
  ASSUME IInv, NEW k \in Key \cup {NoKey}, Miss(k)
  PROVE  IInv'
  <1> USE DEF IInv, TypeOK, IndexesAgree, Miss, Without
  <1>1. /\ Dead = {i \in DOMAIN int_to_str : expiry[i] < now}
        /\ DeadKeys = {j \in DOMAIN str_to_int : expiry[str_to_int[j]] < now}
        /\ Overdue = {<<expiry[i], i>> : i \in Dead}
    BY PurgeFacts
  <1>2. TypeOK'
    OBVIOUS
  <1>3. queue' = {<<expiry'[i], i>> : i \in DOMAIN expiry'}
    BY <1>1
  <1>4. IndexesAgree'
    BY <1>1, <1>3
  <1> QED BY <1>2, <1>4

\* A visit moves one queue entry and leaves every other session where it was.
LEMMA RevisitStep ==
  ASSUME IInv, NEW k \in Key \cup {NoKey}, Revisit(k)
  PROVE  IInv'
  <1> DEFINE i == str_to_int[k]
  <1> USE TtlAssumption DEF IInv, TypeOK, IndexesAgree, Without, With
  <1>1. /\ Dead = {x \in DOMAIN int_to_str : expiry[x] < now}
        /\ DeadKeys = {j \in DOMAIN str_to_int : expiry[str_to_int[j]] < now}
        /\ Overdue = {<<expiry[x], x>> : x \in Dead}
    BY PurgeFacts
  <1>2. /\ k \in DOMAIN str_to_int /\ i \in DOMAIN int_to_str /\ i \notin Dead
        /\ now + Ttl \in Nat
    BY <1>1 DEF Revisit, Known
  <1>3. /\ str_to_int' = Without(str_to_int, DeadKeys)
        /\ int_to_str' = Without(int_to_str, Dead)
        /\ sessions' = Without(sessions, Dead)
        /\ expiry' = With(Without(expiry, Dead), i, now + Ttl)
        /\ queue' = ((queue \ Overdue) \ {<<expiry[i], i>>}) \cup {<<now + Ttl, i>>}
        /\ answer' = [key |-> k, obj |-> sessions[i], fresh |-> FALSE]
        /\ made' = made /\ now' = now
    BY DEF Revisit, Requeue
  <1>4. DOMAIN expiry' = DOMAIN int_to_str \ Dead
    BY <1>2, <1>3
  <1>5. TypeOK'
    BY <1>2, <1>3, <1>4
  <1>6. queue' = {<<expiry'[x], x>> : x \in DOMAIN expiry'}
    <2>1. ASSUME NEW p \in queue' PROVE p \in {<<expiry'[x], x>> : x \in DOMAIN expiry'}
      BY <1>1, <1>2, <1>3, <1>4
    <2>2. ASSUME NEW x \in DOMAIN expiry' PROVE <<expiry'[x], x>> \in queue'
      <3>1. CASE x = i
        BY <1>2, <1>3, <3>1
      <3>2. CASE x # i
        <4>1. expiry'[x] = expiry[x] /\ x \in DOMAIN int_to_str /\ x \notin Dead
          BY <1>3, <1>4, <3>2
        <4>2. <<expiry[x], x>> \in queue /\ <<expiry[x], x>> \notin Overdue
          BY <1>1, <4>1
        <4> QED BY <1>3, <3>2, <4>1, <4>2
      <3> QED BY <3>1, <3>2
    <2> QED BY <2>1, <2>2
  <1>7. IndexesAgree'
    BY <1>1, <1>2, <1>3, <1>4, <1>6
  <1> QED BY <1>5, <1>7

\* A session is made under a key and an integer that no other session has.
LEMMA CreateStep ==
  ASSUME IInv, NEW k \in Key \cup {NoKey}, Create(k)
  PROVE  IInv'
  <1> USE TtlAssumption DEF IInv, TypeOK, IndexesAgree, Without, With
  <1>1. /\ Dead = {x \in DOMAIN int_to_str : expiry[x] < now}
        /\ DeadKeys = {j \in DOMAIN str_to_int : expiry[str_to_int[j]] < now}
        /\ Overdue = {<<expiry[x], x>> : x \in Dead}
    BY PurgeFacts
  <1>2. PICK j \in Key, i \in IntKey :
          /\ ~Known(j)
          /\ i \notin DOMAIN int_to_str \ Dead
          /\ str_to_int' = With(Without(str_to_int, DeadKeys), j, i)
          /\ int_to_str' = With(Without(int_to_str, Dead), i, j)
          /\ sessions' = With(Without(sessions, Dead), i, made + 1)
          /\ expiry' = With(Without(expiry, Dead), i, now + Ttl)
          /\ queue' = (queue \ Overdue) \cup {<<now + Ttl, i>>}
          /\ answer' = [key |-> j, obj |-> made + 1, fresh |-> TRUE]
    BY DEF Create
  <1>3. made' = made + 1 /\ now' = now /\ now + Ttl \in Nat
    BY DEF Create
  <1>4. /\ DOMAIN int_to_str' = (DOMAIN int_to_str \ Dead) \cup {i}
        /\ DOMAIN str_to_int' = (DOMAIN str_to_int \ DeadKeys) \cup {j}
        /\ DOMAIN sessions' = DOMAIN int_to_str'
        /\ DOMAIN expiry' = DOMAIN int_to_str'
    BY <1>2
  <1>5. TypeOK'
    BY <1>2, <1>3, <1>4
  <1>6. queue' = {<<expiry'[x], x>> : x \in DOMAIN expiry'}
    <2>1. ASSUME NEW p \in queue' PROVE p \in {<<expiry'[x], x>> : x \in DOMAIN expiry'}
      BY <1>1, <1>2, <1>4
    <2>2. ASSUME NEW x \in DOMAIN expiry' PROVE <<expiry'[x], x>> \in queue'
      <3>1. CASE x = i
        BY <1>2, <3>1
      <3>2. CASE x # i
        <4>1. expiry'[x] = expiry[x] /\ x \in DOMAIN int_to_str /\ x \notin Dead
          BY <1>2, <1>4, <3>2
        <4>2. <<expiry[x], x>> \in queue /\ <<expiry[x], x>> \notin Overdue
          BY <1>1, <4>1
        <4> QED BY <1>2, <4>1, <4>2
      <3> QED BY <3>1, <3>2
    <2> QED BY <2>1, <2>2
  <1>7. j \notin DOMAIN str_to_int \ DeadKeys
    BY <1>2 DEF Known
  <1>8. (\A x \in DOMAIN str_to_int : /\ str_to_int[x] \in DOMAIN int_to_str
                                      /\ int_to_str[str_to_int[x]] = x)'
    BY <1>1, <1>2, <1>4, <1>7
  <1>9. (\A x \in DOMAIN int_to_str : /\ int_to_str[x] \in DOMAIN str_to_int
                                      /\ str_to_int[int_to_str[x]] = x)'
    BY <1>1, <1>2, <1>4, <1>7
  <1>10. (\A x, y \in DOMAIN sessions : sessions[x] = sessions[y] => x = y)'
    BY <1>2, <1>4
  <1>11. IndexesAgree'
    BY <1>4, <1>6, <1>8, <1>9, <1>10
  <1> QED BY <1>5, <1>11

LEMMA NextStep == IInv /\ [Next]_vars => IInv'
  <1> SUFFICES ASSUME IInv, [Next]_vars PROVE IInv'
    OBVIOUS
  <1>1. CASE Tick
    BY <1>1 DEF Tick, IInv, TypeOK, IndexesAgree, maps
  <1>2. CASE UNCHANGED vars
    BY <1>2 DEF vars, IInv, TypeOK, IndexesAgree, maps
  <1> QED BY <1>1, <1>2, MissStep, RevisitStep, CreateStep DEF Next, get_or_create, try_get

-----------------------------------------------------------------------------
\* IInv holds in every reachable state.
THEOREM Invariance == Spec => []IInv
  <1> QED BY InitIInv, NextStep, PTL DEF Spec

\* The manager's variables keep their types.
THEOREM TypeCorrect == Spec => []TypeOK
  <1>1. IInv => TypeOK
    BY DEF IInv
  <1> QED BY <1>1, Invariance, PTL

\* The maps and the priority queue never disagree about which sessions exist, so that
\* erasing through lower_bound() always finds the entry it looks for.
THEOREM IndexesAlwaysAgree == Spec => []IndexesAgree
  <1>1. IInv => IndexesAgree
    BY Zenon DEF IInv
  <1> QED BY <1>1, Invariance, PTL

-----------------------------------------------------------------------------
(* SessionManager implements SessionStore *)

\* A visit in the manager is a visit in the store.
LEMMA RevisitRefines ==
  ASSUME IInv, IInv', NEW k \in Key \cup {NoKey}, Revisit(k)
  PROVE  Store!Visit(k)
  <1> DEFINE i == str_to_int[k]
             live == [j \in Live |-> [obj |-> sessions[str_to_int[j]],
                                       expiry |-> expiry[str_to_int[j]]]]
  <1> USE TtlAssumption DEF IInv, TypeOK, IndexesAgree, Without, With
  <1>1. /\ Dead = {x \in DOMAIN int_to_str : expiry[x] < now}
        /\ DeadKeys = {j \in DOMAIN str_to_int : expiry[str_to_int[j]] < now}
        /\ k \in Live
    BY PurgeFacts DEF Revisit
  <1>2. /\ str_to_int' = Without(str_to_int, DeadKeys)
        /\ sessions' = Without(sessions, Dead)
        /\ expiry' = With(Without(expiry, Dead), i, now + Ttl)
        /\ answer' = [key |-> k, obj |-> sessions[i], fresh |-> FALSE]
        /\ made' = made /\ now' = now
    BY DEF Revisit
  <1>3. k \in DOMAIN str_to_int /\ i \in DOMAIN int_to_str /\ i \notin Dead
    BY <1>1 DEF Live
  <1>4. Live = DOMAIN str_to_int \ DeadKeys
    BY <1>1 DEF Live
  <1>5. \A j \in Live : str_to_int'[j] = str_to_int[j] /\ sessions'[str_to_int[j]] = sessions[str_to_int[j]]
    BY <1>1, <1>2, <1>4
  <1>6. \A j \in Live : expiry'[str_to_int[j]] = IF j = k THEN now + Ttl ELSE expiry[str_to_int[j]]
    BY <1>1, <1>2, <1>3, <1>4
  <1>7. Live' = Live
    BY <1>1, <1>2, <1>4, <1>6 DEF Live
  <1>8. live' = [j \in DOMAIN live \cup {k} |->
                   IF j = k THEN [obj |-> live[k].obj, expiry |-> now + Ttl] ELSE live[j]]
    BY <1>1, <1>5, <1>6, <1>7, SMTT(30)
  <1> QED BY <1>1, <1>2, <1>8 DEF Store!Visit, Store!Refers, Store!Set

\* A session made by the manager is a session made by the store.
LEMMA CreateRefines ==
  ASSUME IInv, IInv', NEW k \in Key \cup {NoKey}, Create(k)
  PROVE  Store!Create(k)
  <1> DEFINE live == [j \in Live |-> [obj |-> sessions[str_to_int[j]],
                                       expiry |-> expiry[str_to_int[j]]]]
  <1> USE TtlAssumption DEF IInv, TypeOK, IndexesAgree, Without, With
  <1>1. /\ Dead = {x \in DOMAIN int_to_str : expiry[x] < now}
        /\ DeadKeys = {x \in DOMAIN str_to_int : expiry[str_to_int[x]] < now}
        /\ \A x : Known(x) <=> x \in Live
    BY PurgeFacts
  <1>2. PICK j \in Key, i \in IntKey :
          /\ ~Known(j)
          /\ i \notin DOMAIN int_to_str \ Dead
          /\ str_to_int' = With(Without(str_to_int, DeadKeys), j, i)
          /\ sessions' = With(Without(sessions, Dead), i, made + 1)
          /\ expiry' = With(Without(expiry, Dead), i, now + Ttl)
          /\ answer' = [key |-> j, obj |-> made + 1, fresh |-> TRUE]
    BY DEF Create
  <1>3. made' = made + 1 /\ now' = now /\ now + Ttl \in Nat /\ k \notin Live /\ j \notin Live
    BY <1>1, <1>2 DEF Create
  <1>4. Live = DOMAIN str_to_int \ DeadKeys
    BY <1>1 DEF Live
  <1>5. /\ str_to_int'[j] = i /\ sessions'[i] = made + 1 /\ expiry'[i] = now + Ttl
        /\ DOMAIN str_to_int' = Live \cup {j}
    BY <1>2, <1>4
  <1>6. \A x \in Live : /\ str_to_int'[x] = str_to_int[x]
                        /\ str_to_int[x] \in DOMAIN int_to_str \ Dead
                        /\ str_to_int[x] # i
    BY <1>1, <1>2, <1>3, <1>4
  <1>7. \A x \in Live : /\ sessions'[str_to_int[x]] = sessions[str_to_int[x]]
                        /\ expiry'[str_to_int[x]] = expiry[str_to_int[x]]
    <2>1. ASSUME NEW x \in DOMAIN int_to_str \ Dead, x # i
          PROVE  sessions'[x] = sessions[x] /\ expiry'[x] = expiry[x]
      BY <1>2, <2>1
    <2> QED BY <1>6, <2>1
  <1>8. Live' = Live \cup {j}
    <2>1. expiry'[str_to_int'[j]] >= now'
      BY <1>3, <1>5
    <2>2. \A x \in Live : expiry'[str_to_int'[x]] >= now'
      BY <1>3, <1>6, <1>7 DEF Live
    <2> QED BY <1>5, <2>1, <2>2 DEF Live
  <1>9. live' = [x \in DOMAIN live \cup {j} |->
                   IF x = j THEN [obj |-> made + 1, expiry |-> now + Ttl] ELSE live[x]]
    BY <1>5, <1>6, <1>7, <1>8
  <1> QED BY <1>2, <1>3, <1>9 DEF Store!Create, Store!Refers, Store!Set

\* Dropping sessions that have expired is invisible in the store.
LEMMA MissRefines ==
  ASSUME IInv, IInv', NEW k \in Key \cup {NoKey}, Miss(k)
  PROVE  Store!Miss(k)
  <1> DEFINE live == [j \in Live |-> [obj |-> sessions[str_to_int[j]],
                                       expiry |-> expiry[str_to_int[j]]]]
  <1> USE DEF IInv, TypeOK, IndexesAgree, Without
  <1>1. /\ Dead = {x \in DOMAIN int_to_str : expiry[x] < now}
        /\ DeadKeys = {x \in DOMAIN str_to_int : expiry[str_to_int[x]] < now}
        /\ k \notin Live
    BY PurgeFacts DEF Miss
  <1>2. /\ str_to_int' = Without(str_to_int, DeadKeys)
        /\ sessions' = Without(sessions, Dead)
        /\ expiry' = Without(expiry, Dead)
        /\ answer' = [key |-> k, obj |-> 0, fresh |-> FALSE]
        /\ made' = made /\ now' = now
    BY DEF Miss
  <1>3. Live = DOMAIN str_to_int \ DeadKeys
    BY <1>1 DEF Live
  <1>4. \A x \in Live : /\ str_to_int'[x] = str_to_int[x]
                        /\ sessions'[str_to_int[x]] = sessions[str_to_int[x]]
                        /\ expiry'[str_to_int[x]] = expiry[str_to_int[x]]
    BY <1>1, <1>2, <1>3
  <1>5. Live' = Live
    BY <1>2, <1>3, <1>4 DEF Live
  <1>6. live' = live
    BY <1>4, <1>5
  <1> QED BY <1>1, <1>2, <1>6 DEF Store!Miss, Store!Refers

\* A session leaves the store the moment the clock passes its expiry, although the manager
\* still holds it.
LEMMA TickRefines ==
  ASSUME IInv, Tick
  PROVE  Store!Tick
  <1> DEFINE live == [j \in Live |-> [obj |-> sessions[str_to_int[j]],
                                       expiry |-> expiry[str_to_int[j]]]]
  <1> USE DEF IInv, TypeOK, IndexesAgree
  <1>1. now' = now + 1 /\ UNCHANGED <<str_to_int, int_to_str, sessions, expiry, made, answer>>
    BY DEF Tick, maps
  <1>2. \A x \in DOMAIN str_to_int : expiry[str_to_int[x]] \in Nat /\ now \in Nat
    OBVIOUS
  <1>3. Live' = {j \in Live : expiry[str_to_int[j]] >= now'}
    BY <1>1, <1>2 DEF Live
  <1>4. live' = [j \in {x \in DOMAIN live : live[x].expiry >= now'} |-> live[j]]
    BY <1>1, <1>3
  <1> QED BY <1>1, <1>4 DEF Store!Tick

LEMMA StepRefines == IInv /\ IInv' /\ [Next]_vars => [Store!Next]_(Store!vars)
  <1> SUFFICES ASSUME IInv, IInv', [Next]_vars PROVE [Store!Next]_(Store!vars)
    OBVIOUS
  <1>1. ASSUME NEW k \in Key \cup {NoKey}, get_or_create(k) \/ try_get(k)
        PROVE  Store!Visit(k) \/ Store!Create(k) \/ Store!Miss(k)
    BY <1>1, RevisitRefines, CreateRefines, MissRefines DEF get_or_create, try_get
  <1>2. CASE UNCHANGED vars
    BY <1>2 DEF vars, maps, Store!vars, Live
  <1> QED BY <1>1, <1>2, TickRefines DEF Next, Store!Next

LEMMA InitRefines == Init => Store!Init
  <1> SUFFICES ASSUME Init PROVE Store!Init
    OBVIOUS
  <1>1. Live = {}
    BY DEF Init, Empty, Live
  <1> QED BY <1>1 DEF Init, Store!Init

\* For every caller and at every moment, memory_session_manager behaves as the interface
\* session_manager_base describes, with sessions that end Ttl after their last visit.
THEOREM Refinement == Spec => ImplementsStore
  <1> QED BY InitRefines, StepRefines, Invariance, PTL DEF Spec, Store!Spec, ImplementsStore

-----------------------------------------------------------------------------
(* What a browser meets *)

\* The session object that a living key leads to.
Obj(k) == sessions[str_to_int[k]]

-----------------------------------------------------------------------------
(* What a call of the session manager does, as far as living keys see it *)

LEMMA RevisitFacts ==
  ASSUME IInv, IInv', NEW k \in Key \cup {NoKey}, Revisit(k)
  PROVE  /\ k \in Live /\ Live' = Live /\ made' = made
         /\ \A x \in Live : Obj(x)' = Obj(x)
         /\ answer' = [key |-> k, obj |-> Obj(k), fresh |-> FALSE]
  <1> DEFINE live == [j \in Live |-> [obj |-> Obj(j), expiry |-> expiry[str_to_int[j]]]]
  <1>1. Store!Visit(k)
    BY RevisitRefines
  <1>2. /\ k \in DOMAIN live
        /\ live' = [j \in DOMAIN live \cup {k} |->
                      IF j = k THEN [obj |-> live[k].obj, expiry |-> now + Ttl] ELSE live[j]]
        /\ answer' = [key |-> k, obj |-> live[k].obj, fresh |-> FALSE] /\ made' = made
    BY <1>1 DEF Store!Visit, Store!Refers, Store!Set, Obj
  <1>3. DOMAIN live' = Live' /\ DOMAIN live = Live
    OBVIOUS
  <1>4. Live' = Live
    BY <1>2, <1>3
  <1>5. \A x \in Live : live'[x].obj = live[x].obj
    BY <1>2
  <1>6. \A x \in Live : Obj(x)' = Obj(x)
    BY <1>4, <1>5
  <1> QED BY <1>2, <1>4, <1>6

LEMMA CreateFacts ==
  ASSUME IInv, IInv', NEW k \in Key \cup {NoKey}, Create(k)
  PROVE  \E j \in Key \ Live :
           /\ k \notin Live /\ Live' = Live \cup {j}
           /\ \A x \in Live : Obj(x)' = Obj(x)
           /\ Obj(j)' = made + 1 /\ made' = made + 1 /\ made < MaxMade
           /\ answer' = [key |-> j, obj |-> made + 1, fresh |-> TRUE]
  <1> DEFINE live == [j \in Live |-> [obj |-> Obj(j), expiry |-> expiry[str_to_int[j]]]]
  <1>1. Store!Create(k)
    BY CreateRefines
  <1>2. PICK j \in Key :
          /\ j \notin DOMAIN live
          /\ live' = [x \in DOMAIN live \cup {j} |->
                        IF x = j THEN [obj |-> made + 1, expiry |-> now + Ttl] ELSE live[x]]
          /\ answer' = [key |-> j, obj |-> made + 1, fresh |-> TRUE]
    BY <1>1 DEF Store!Create, Store!Refers, Store!Set, Obj
  <1>3. k \notin DOMAIN live /\ made' = made + 1
    BY <1>1 DEF Store!Create, Store!Refers
  <1>4. DOMAIN live' = Live' /\ DOMAIN live = Live
    OBVIOUS
  <1>5. Live' = Live \cup {j}
    BY <1>2, <1>4
  <1>6. live'[j].obj = made + 1 /\ \A x \in Live : live'[x].obj = live[x].obj
    BY <1>2
  <1>7. Obj(j)' = made + 1 /\ \A x \in Live : Obj(x)' = Obj(x)
    BY <1>5, <1>6
  <1>8. made < MaxMade
    BY DEF Create
  <1> QED BY <1>2, <1>3, <1>5, <1>7, <1>8

LEMMA MissFacts ==
  ASSUME IInv, IInv', NEW k \in Key \cup {NoKey}, Miss(k)
  PROVE  /\ k \notin Live /\ Live' = Live /\ made' = made
         /\ \A x \in Live : Obj(x)' = Obj(x)
         /\ answer' = [key |-> k, obj |-> 0, fresh |-> FALSE]
  <1> DEFINE live == [j \in Live |-> [obj |-> Obj(j), expiry |-> expiry[str_to_int[j]]]]
  <1>1. Store!Miss(k)
    BY MissRefines
  <1>2. /\ k \notin DOMAIN live /\ live' = live /\ made' = made
        /\ answer' = [key |-> k, obj |-> 0, fresh |-> FALSE]
    BY <1>1 DEF Store!Miss, Store!Refers, Obj
  <1>3. DOMAIN live' = Live' /\ DOMAIN live = Live
    OBVIOUS
  <1>4. \A x \in Live : live'[x].obj = live[x].obj
    BY <1>2
  <1> QED BY <1>2, <1>3, <1>4

LEMMA TickFacts ==
  ASSUME IInv, Tick
  PROVE  /\ Live' \subseteq Live /\ made' = made
         /\ \A x \in Live : Obj(x)' = Obj(x)
  <1> USE DEF IInv, TypeOK
  <1>1. now' = now + 1 /\ UNCHANGED <<str_to_int, sessions, expiry, made>>
    BY DEF Tick, maps
  <1>2. \A x \in DOMAIN str_to_int : expiry[str_to_int[x]] \in Nat
    BY DEF IndexesAgree
  <1> QED BY <1>1, <1>2 DEF Live, Obj

\* Two keys do not lead to one session.
LEMMA ObjFacts ==
  ASSUME IInv
  PROVE  /\ \A k \in Live : Obj(k) \in 1 .. made
         /\ \A j, k \in Live : Obj(j) = Obj(k) => j = k
         /\ Live \subseteq Key
  BY DEF IInv, TypeOK, IndexesAgree, Live, Obj

-----------------------------------------------------------------------------
\* Types, with what they say of the cookies that requests carry: all of them were issued.
RequestsTyped ==
  /\ issued \subseteq Key /\ Foreign \in issued /\ Live \subseteq issued \ {Foreign}
  /\ made \in 0 .. MaxMade
  /\ req \in [Request -> [phase : {"unsent", "search", "handle", "answered", "done"},
                          by : Browser \cup {NoBrowser}, cookies : Seq(Key), tried : Nat,
                          obj : Nat, sets : Key \cup {NoKey}, login : BOOLEAN, alone : BOOLEAN]]
  /\ \A r \in Request : \A i \in DOMAIN req[r].cookies : req[r].cookies[i] \in issued
  /\ \A r \in Request : req[r].phase = "search" =>
       req[r].tried <= Len(req[r].cookies) /\ req[r].sets = NoKey
  /\ \A r \in Request : req[r].login => req[r].phase = "answered"

LInv == IInv /\ LookupTypeOK /\ RequestsTyped

\* The cookies of a request are those the browser has from this server, and the foreign one.
LEMMA CookieFacts ==
  ASSUME LInv, NEW b \in Browser, NEW cs \in Cookies(b)
  PROVE  /\ cs \in Seq(Key)
         /\ \A i \in DOMAIN cs : cs[i] \in {Foreign, jar[b]} /\ cs[i] \in issued
         /\ jar[b] # NoKey => \E i \in DOMAIN cs : cs[i] = jar[b]
  <1> USE NoKeyAssumption
  <1>1. /\ jar[b] # NoKey => jar[b] \in issued /\ jar[b] \in Key
        /\ Foreign \in issued /\ Foreign \in Key
    BY DEF LInv, LookupTypeOK, RequestsTyped
  <1>2. ASSUME NEW s \in Seq(Key), NEW t \in Seq(Key)
        PROVE  /\ s \o t \in Seq(Key)
               /\ \A i \in DOMAIN (s \o t) : (\E j \in DOMAIN s : (s \o t)[i] = s[j])
                                           \/ (\E j \in DOMAIN t : (s \o t)[i] = t[j])
               /\ \A j \in DOMAIN s : (s \o t)[j] = s[j] /\ j \in DOMAIN (s \o t)
               /\ \A j \in DOMAIN t : (s \o t)[Len(s) + j] = t[j] /\ Len(s) + j \in DOMAIN (s \o t)
    <2>1. /\ s \o t \in Seq(Key) /\ Len(s \o t) = Len(s) + Len(t)
          /\ DOMAIN (s \o t) = 1 .. Len(s) + Len(t)
          /\ DOMAIN s = 1 .. Len(s) /\ DOMAIN t = 1 .. Len(t) /\ Len(s) \in Nat /\ Len(t) \in Nat
      BY ConcatProperties
    <2>2. \A i \in 1 .. Len(s) + Len(t) :
            (s \o t)[i] = IF i <= Len(s) THEN s[i] ELSE t[i - Len(s)]
      BY ConcatProperties
    <2> DEFINE u == s \o t
    <2> HIDE DEF u
    <2>3. /\ DOMAIN u = 1 .. Len(s) + Len(t)
          /\ \A i \in 1 .. Len(s) + Len(t) : u[i] = IF i <= Len(s) THEN s[i] ELSE t[i - Len(s)]
      BY <2>1, <2>2 DEF u
    <2>4. \A j \in DOMAIN s : u[j] = s[j] /\ j \in DOMAIN u
      BY <2>1, <2>3
    <2>5. \A j \in DOMAIN t : u[Len(s) + j] = t[j] /\ Len(s) + j \in DOMAIN u
      BY <2>1, <2>3
    <2>6. ASSUME NEW i \in DOMAIN u
          PROVE  (\E j \in DOMAIN s : u[i] = s[j]) \/ (\E j \in DOMAIN t : u[i] = t[j])
      <3>1. CASE i <= Len(s)
        BY <2>1, <2>3, <3>1
      <3>2. CASE i > Len(s)
        <4>1. i - Len(s) \in DOMAIN t /\ u[i] = t[i - Len(s)]
          BY <2>1, <2>3, <3>2
        <4> QED BY <4>1
      <3> QED BY <2>1, <2>3, <3>1, <3>2
    <2> QED BY <2>1, <2>4, <2>5, <2>6 DEF u
  <1> DEFINE own == IF jar[b] = NoKey THEN <<>> ELSE <<jar[b]>>
             foreign == <<Foreign>>
  <1>3. /\ own \in Seq(Key) /\ foreign \in Seq(Key)
        /\ \A i \in DOMAIN own : own[i] = jar[b] /\ own[i] \in issued
        /\ \A i \in DOMAIN foreign : foreign[i] = Foreign /\ foreign[i] \in issued
        /\ jar[b] # NoKey => 1 \in DOMAIN own /\ own[1] = jar[b]
    BY <1>1
  <1>4. cs = own \/ cs = own \o foreign \/ cs = foreign \o own
    BY DEF Cookies
  <1> HIDE DEF own, foreign
  <1>5. CASE cs = own
    BY <1>3, <1>5
  <1>6. CASE cs = own \o foreign
    <2>1. /\ cs \in Seq(Key)
          /\ \A i \in DOMAIN cs : (\E j \in DOMAIN own : cs[i] = own[j])
                               \/ (\E j \in DOMAIN foreign : cs[i] = foreign[j])
      BY <1>2, <1>3, <1>6
    <2>2. \A j \in DOMAIN own : cs[j] = own[j] /\ j \in DOMAIN cs
      BY <1>2, <1>3, <1>6
    <2>3. jar[b] # NoKey => \E i \in DOMAIN cs : cs[i] = jar[b]
      BY <1>3, <2>2
    <2>4. \A i \in DOMAIN cs : cs[i] \in {Foreign, jar[b]} /\ cs[i] \in issued
      BY <1>3, <2>1
    <2> QED BY <2>1, <2>3, <2>4
  <1>7. CASE cs = foreign \o own
    <2>1. /\ cs \in Seq(Key)
          /\ \A i \in DOMAIN cs : (\E j \in DOMAIN foreign : cs[i] = foreign[j])
                               \/ (\E j \in DOMAIN own : cs[i] = own[j])
      BY <1>2, <1>3, <1>7
    <2>2. \A j \in DOMAIN own : cs[Len(foreign) + j] = own[j] /\ Len(foreign) + j \in DOMAIN cs
      BY <1>2, <1>3, <1>7
    <2>3. jar[b] # NoKey => \E i \in DOMAIN cs : cs[i] = jar[b]
      BY <1>3, <2>2
    <2>4. \A i \in DOMAIN cs : cs[i] \in {Foreign, jar[b]} /\ cs[i] \in issued
      BY <1>3, <2>1
    <2> QED BY <2>1, <2>3, <2>4
  <1> QED BY <1>4, <1>5, <1>6, <1>7

-----------------------------------------------------------------------------
\* Seen from the session manager, every step of a browser or a request is a call, a tick
\* of the clock or nothing.
LEMMA StepOfManager ==
  ASSUME LInv, [LookupNext]_lookupVars
  PROVE  [Next]_vars
  <1>1. ASSUME NEW r \in Request
        PROVE  /\ \A i \in DOMAIN req[r].cookies : req[r].cookies[i] \in Key
               /\ SessionId(r) \in Key \cup {NoKey}
    BY DEF LInv, RequestsTyped, SessionId
  <1>2. ASSUME NEW r \in Request, Try(r) PROVE Next
    <2>1. req[r].tried + 1 \in DOMAIN req[r].cookies
      BY <1>2 DEF Try, LInv, RequestsTyped
    <2> QED BY <1>1, <1>2, <2>1 DEF Try, Next
  <1>3. ASSUME NEW r \in Request, Lookup(r) PROVE Next
    BY <1>1, <1>3 DEF Lookup, Next
  <1>4. ASSUME NEW r \in Request, NEW b \in Browser, Send(r, b) \/ Handle(r) \/ Deliver(r) \/ Lose(r)
        PROVE  UNCHANGED vars
    BY <1>4 DEF Send, Handle, Deliver, Lose
  <1>5. CASE UNCHANGED lookupVars
    BY <1>5 DEF lookupVars
  <1>6. ASSUME NEW r \in Request, Handle(r) \/ Deliver(r) \/ Lose(r) PROVE UNCHANGED vars
    BY <1>6 DEF Handle, Deliver, Lose
  <1> QED BY <1>2, <1>3, <1>4, <1>5, <1>6 DEF LookupNext, Next

LEMMA InitLInv == LookupInit => LInv
  <1> SUFFICES ASSUME LookupInit PROVE LInv
    OBVIOUS
  <1> USE LookupAssumption, NoKeyAssumption, BoundsAssumption DEF LookupInit, Init
  <1>1. IInv
    BY InitIInv
  <1>2. Live = {}
    BY DEF Live, Empty
  <1>3. <<>> \in Seq(Key) /\ DOMAIN <<>> = {}
    OBVIOUS
  <1>4. RequestsTyped
    BY <1>2, <1>3 DEF RequestsTyped, Unsent
  <1>5. LookupTypeOK
    BY DEF LookupTypeOK, Unsent
  <1> QED BY <1>1, <1>4, <1>5 DEF LInv

\* What r carries is replaced, and nothing of the other requests.
LEMMA SetFacts ==
  ASSUME LInv, NEW r \in Request, NEW new, Set(r, new)
  PROVE  /\ req'[r] = new /\ DOMAIN req' = Request
         /\ \A q \in Request : q # r => req'[q] = req[q]
  BY DEF Set, LInv, RequestsTyped

\* A step that makes no session and only replaces what one request carries keeps the types
\* if what it puts there is typed.
LEMMA SetTypes ==
  ASSUME LInv, IInv', Live' \subseteq Live, made' = made, UNCHANGED issued,
         NEW r \in Request, NEW new, Set(r, new),
         new \in [phase : {"search", "handle", "answered", "done"},
                 by : Browser \cup {NoBrowser}, cookies : Seq(Key), tried : Nat,
                 obj : Nat, sets : (issued \ {Foreign}) \cup {NoKey},
                 login : BOOLEAN, alone : BOOLEAN],
         \A i \in DOMAIN new.cookies : new.cookies[i] \in issued,
         new.phase = "search" => new.tried <= Len(new.cookies) /\ new.sets = NoKey,
         new.login => new.phase = "answered",
         (new.by \in Browser) = (new.phase # "done"),
         new.obj \in (IF new.phase \in {"handle", "answered"} THEN 1 .. made ELSE {0}),
         jar' \in [Browser -> (issued \ {Foreign}) \cup {NoKey}],
         user' \in [1 .. MaxMade -> Browser \cup {NoBrowser}],
         guests' \in [1 .. MaxMade -> SUBSET Browser],
         member' \in [Browser -> BOOLEAN]
  PROVE  LInv'
  <1>1. /\ req'[r] = new /\ DOMAIN req' = Request
        /\ \A q \in Request : q # r => req'[q] = req[q]
    BY SetFacts
  <1>2. req' = [q \in Request |-> IF q = r THEN new ELSE req[q]]
    BY DEF Set, LInv, RequestsTyped
  <1>3. new.sets \in Key \cup {NoKey}
    BY DEF LInv, RequestsTyped
  <1>4. RequestsTyped'
    BY <1>1, <1>2, <1>3 DEF LInv, RequestsTyped
  <1> DEFINE Fine(q) ==
        /\ q.phase \in {"unsent", "search", "handle", "answered", "done"}
        /\ (q.by \in Browser) = (q.phase \in {"search", "handle", "answered"})
        /\ q.obj \in (IF q.phase \in {"handle", "answered"} THEN 1 .. made ELSE {0})
        /\ q.sets \in (issued \ {Foreign}) \cup {NoKey}
  <1>5. Fine(new)
    <2>1. new.phase \in {"search", "handle", "answered"} <=> new.phase # "done"
      OBVIOUS
    <2> QED BY <2>1
  <1>6. \A q \in Request : Fine(req[q])
    BY DEF LInv, LookupTypeOK
  <1> HIDE DEF Fine
  <1>7. \A q \in Request : Fine(req'[q])
    BY <1>1, <1>5, <1>6
  <1>8. LookupTypeOK'
    BY <1>7 DEF LInv, LookupTypeOK, Fine
  <1> QED BY <1>4, <1>8 DEF LInv

\* A request is sent with cookies cs; others of its browser only learn that they are not
\* alone.
Sent(r, b, cs, lonely) ==
  /\ req[r].phase = "unsent"
  /\ req'[r] = [Unsent EXCEPT !.phase = "search", !.by = b, !.cookies = cs, !.alone = lonely]
  /\ lonely => \A q \in Request : req[q].by # b
  /\ \A q \in Request : q # r =>
       \E a \in BOOLEAN : /\ req'[q] = [req[q] EXCEPT !.alone = a]
                          /\ a => req[q].alone /\ req[q].by # b
  /\ UNCHANGED <<vars, jar, user, issued, guests, member>>

LEMMA SendFacts ==
  ASSUME LInv, NEW r \in Request, NEW b \in Browser, Send(r, b)
  PROVE  \E cs \in Cookies(b), lonely \in BOOLEAN : Sent(r, b, cs, lonely)
  <1> DEFINE others == {q \in Request : req[q].by = b}
  <1>1. PICK cs \in Cookies(b) :
          req' = [q \in Request |->
                    IF q = r THEN [Unsent EXCEPT !.phase = "search", !.by = b, !.cookies = cs,
                                                 !.alone = others = {}]
                    ELSE [req[q] EXCEPT !.alone = @ /\ q \notin others]]
    BY DEF Send
  <1>2. (others = {}) \in BOOLEAN /\ ((others = {}) <=> \A q \in Request : req[q].by # b)
    OBVIOUS
  <1>3. req'[r] = [Unsent EXCEPT !.phase = "search", !.by = b, !.cookies = cs,
                                 !.alone = others = {}]
    BY <1>1
  <1>4. ASSUME NEW q \in Request, q # r
        PROVE  \E a \in BOOLEAN : /\ req'[q] = [req[q] EXCEPT !.alone = a]
                                  /\ a => req[q].alone /\ req[q].by # b
    <2> DEFINE a == req[q].alone /\ q \notin others
    <2>1. req'[q] = [req[q] EXCEPT !.alone = a]
      BY <1>1, <1>4
    <2>2. a \in BOOLEAN /\ (a => req[q].alone /\ req[q].by # b)
      OBVIOUS
    <2> QED BY <2>1, <2>2
  <1>5. req[r].phase = "unsent" /\ UNCHANGED <<vars, jar, user, issued, guests, member>>
    BY DEF Send
  <1>6. Sent(r, b, cs, others = {})
    BY <1>2, <1>3, <1>4, <1>5 DEF Sent
  <1> QED BY <1>2, <1>6

-----------------------------------------------------------------------------
(* The three outcomes of a round of the search, in terms of living keys *)

KeepsSessions == \A x \in Live : Obj(x)' = Obj(x)

\* A cookie of the request leads to a session.
Found(r, k) ==
  /\ req[r].phase = "search" /\ k \in Live /\ \E i \in DOMAIN req[r].cookies : req[r].cookies[i] = k
  /\ Live' = Live /\ made' = made /\ KeepsSessions /\ answer'.fresh = FALSE
  /\ Set(r, [req[r] EXCEPT !.phase = "handle", !.obj = Obj(k)])
  /\ guests' = [guests EXCEPT ![Obj(k)] = @ \cup {req[r].by}]
  /\ UNCHANGED <<jar, user, issued, member>>

\* A cookie of the list leads nowhere.
Missed(r) ==
  /\ req[r].phase = "search" /\ req[r].tried < Len(req[r].cookies)
  /\ req[r].cookies[req[r].tried + 1] \notin Live
  /\ Live' = Live /\ made' = made /\ KeepsSessions /\ answer'.fresh = FALSE
  /\ Set(r, [req[r] EXCEPT !.tried = @ + 1])
  /\ UNCHANGED <<jar, user, issued, guests, member>>

\* The search is over, and a session is made under a key that was never in use.
Made(r, j) ==
  /\ req[r].phase = "search" /\ Searched(r) /\ SessionId(r) \notin Live
  /\ j \in Key \ issued /\ Live' = Live \cup {j} /\ KeepsSessions
  /\ Obj(j)' = made + 1 /\ made' = made + 1 /\ made < MaxMade
  /\ Set(r, [req[r] EXCEPT !.phase = "handle", !.obj = made + 1, !.sets = j])
  /\ guests' = [guests EXCEPT ![made + 1] = @ \cup {req[r].by}]
  /\ issued' = issued \cup {j}
  /\ UNCHANGED <<jar, user, member>>

LEMMA TryFacts ==
  ASSUME LInv, IInv', NEW r \in Request, Try(r)
  PROVE  Missed(r) \/ \E k \in Key : Found(r, k)
  <1> DEFINE k == req[r].cookies[req[r].tried + 1]
  <1>1. /\ req[r].tried + 1 \in DOMAIN req[r].cookies /\ req[r].cookies \in Seq(Key)
        /\ req[r].phase = "search" /\ req[r].tried < Len(req[r].cookies)
        /\ try_get(k) /\ UNCHANGED <<jar, user, issued, member>>
    BY DEF Try, LInv, RequestsTyped
  <1>2. k \in Key
    BY <1>1
  <1>3. ASSUME Revisit(k) PROVE Found(r, k)
    <2>1. /\ k \in Live /\ Live' = Live /\ made' = made /\ KeepsSessions
          /\ answer' = [key |-> k, obj |-> Obj(k), fresh |-> FALSE]
      BY <1>2, <1>3, RevisitFacts DEF LInv, KeepsSessions
    <2>2. answer'.obj # 0
      BY <2>1, ObjFacts DEF LInv
    <2>3. /\ Set(r, [req[r] EXCEPT !.phase = "handle", !.obj = answer'.obj])
          /\ Welcome(r, answer'.obj)
      BY <2>2 DEF Try
    <2> QED BY <1>1, <2>1, <2>3 DEF Found, Welcome
  <1>4. ASSUME Miss(k) PROVE Missed(r)
    <2>1. /\ k \notin Live /\ Live' = Live /\ made' = made /\ KeepsSessions
          /\ answer' = [key |-> k, obj |-> 0, fresh |-> FALSE]
      BY <1>2, <1>4, MissFacts DEF LInv, KeepsSessions
    <2>2. Set(r, [req[r] EXCEPT !.tried = @ + 1]) /\ UNCHANGED guests
      BY <2>1 DEF Try
    <2> QED BY <1>1, <2>1, <2>2 DEF Missed
  <1> QED BY <1>1, <1>2, <1>3, <1>4 DEF try_get

LEMMA LookupFacts ==
  ASSUME LInv, IInv', NEW r \in Request, Lookup(r)
  PROVE  \E k \in Key : Found(r, k) \/ Made(r, k)
  <1> DEFINE k == SessionId(r)
  <1>1. /\ req[r].phase = "search" /\ Searched(r) /\ get_or_create(k)
        /\ answer'.fresh => answer'.key \in RandomKeys(r)
        /\ Set(r, [req[r] EXCEPT !.phase = "handle", !.obj = answer'.obj,
                                 !.sets = IF answer'.fresh THEN answer'.key ELSE NoKey])
        /\ Welcome(r, answer'.obj) /\ issued' = issued \cup {answer'.key}
        /\ UNCHANGED <<jar, user, member>>
    BY DEF Lookup
  <1>2. req[r].cookies \in Seq(Key) /\ req[r].sets = NoKey
    BY <1>1 DEF LInv, RequestsTyped
  <1>3. /\ k \in Key \cup {NoKey}
        /\ k \in Key => \E i \in DOMAIN req[r].cookies : req[r].cookies[i] = k
    BY <1>2, NoKeyAssumption DEF SessionId
  <1>4. ASSUME Revisit(k) PROVE k \in Key /\ Found(r, k)
    <2>1. /\ k \in Live /\ Live' = Live /\ made' = made /\ KeepsSessions
          /\ answer' = [key |-> k, obj |-> Obj(k), fresh |-> FALSE]
      BY <1>3, <1>4, RevisitFacts DEF LInv, KeepsSessions
    <2>2. k \in Key /\ issued' = issued
      BY <1>1, <2>1, ObjFacts DEF LInv, RequestsTyped
    <2>3. Set(r, [req[r] EXCEPT !.phase = "handle", !.obj = Obj(k), !.sets = NoKey])
      BY <1>1, <2>1
    <2>4. Set(r, [req[r] EXCEPT !.phase = "handle", !.obj = Obj(k)])
      <3>1. [req[r] EXCEPT !.phase = "handle", !.obj = Obj(k), !.sets = NoKey]
              = [req[r] EXCEPT !.phase = "handle", !.obj = Obj(k)]
        BY <1>2 DEF LInv, RequestsTyped
      <3> QED BY <2>3, <3>1
    <2> QED BY <1>1, <1>3, <2>1, <2>2, <2>4 DEF Found, Welcome
  <1>5. ASSUME Create(k) PROVE \E j \in Key : Made(r, j)
    <2>1. PICK j \in Key \ Live :
            /\ k \notin Live /\ Live' = Live \cup {j} /\ KeepsSessions
            /\ Obj(j)' = made + 1 /\ made' = made + 1 /\ made < MaxMade
            /\ answer' = [key |-> j, obj |-> made + 1, fresh |-> TRUE]
      BY <1>3, <1>5, CreateFacts DEF LInv, KeepsSessions
    <2>2. /\ j \in Key \ issued /\ issued' = issued \cup {j}
          /\ Set(r, [req[r] EXCEPT !.phase = "handle", !.obj = made + 1, !.sets = j])
          /\ Welcome(r, made + 1)
      BY <1>1, <2>1 DEF RandomKeys
    <2> QED BY <1>1, <2>1, <2>2 DEF Made, Welcome
  <1> QED BY <1>1, <1>4, <1>5 DEF get_or_create

-----------------------------------------------------------------------------
(* Types *)

LEMMA FoundTypes ==
  ASSUME LInv, IInv', NEW r \in Request, NEW k \in Key, Found(r, k)
  PROVE  LInv'
  <1> DEFINE new == [req[r] EXCEPT !.phase = "handle", !.obj = Obj(k)]
  <1>1. Obj(k) \in 1 .. made /\ Obj(k) \in Nat
    BY ObjFacts DEF Found, LInv, RequestsTyped
  <1>2. req[r] \in [phase : {"search"}, by : Browser, cookies : Seq(Key), tried : Nat,
                    obj : Nat, sets : (issued \ {Foreign}) \cup {NoKey},
                    login : {FALSE}, alone : BOOLEAN]
    BY DEF Found, LInv, RequestsTyped, LookupTypeOK
  <1>3. \A i \in DOMAIN req[r].cookies : req[r].cookies[i] \in issued
    BY DEF LInv, RequestsTyped
  <1>4. /\ new \in [phase : {"search", "handle", "answered", "done"},
                    by : Browser \cup {NoBrowser}, cookies : Seq(Key), tried : Nat,
                    obj : Nat, sets : (issued \ {Foreign}) \cup {NoKey},
                    login : BOOLEAN, alone : BOOLEAN]
        /\ new.cookies = req[r].cookies /\ new.phase = "handle" /\ new.by \in Browser
        /\ new.obj = Obj(k) /\ ~new.login
    BY <1>1, <1>2
  <1>5. guests' \in [1 .. MaxMade -> SUBSET Browser]
    BY <1>2 DEF Found, LInv, LookupTypeOK
  <1> HIDE DEF new
  <1>6. Set(r, new) /\ Live' = Live /\ made' = made /\ UNCHANGED <<jar, user, issued, member>>
    BY DEF Found, new
  <1>7. /\ jar' \in [Browser -> (issued \ {Foreign}) \cup {NoKey}]
        /\ user' \in [1 .. MaxMade -> Browser \cup {NoBrowser}]
        /\ member' \in [Browser -> BOOLEAN]
    BY <1>6 DEF LInv, LookupTypeOK
  <1> QED BY <1>1, <1>3, <1>4, <1>5, <1>6, <1>7, SetTypes

LEMMA MissedTypes ==
  ASSUME LInv, IInv', NEW r \in Request, Missed(r)
  PROVE  LInv'
  <1> DEFINE new == [req[r] EXCEPT !.tried = @ + 1]
  <1>1. req[r] \in [phase : {"search"}, by : Browser, cookies : Seq(Key), tried : Nat,
                    obj : {0}, sets : {NoKey}, login : {FALSE}, alone : BOOLEAN]
    BY DEF Missed, LInv, RequestsTyped, LookupTypeOK
  <1>2. \A i \in DOMAIN req[r].cookies : req[r].cookies[i] \in issued
    BY DEF LInv, RequestsTyped
  <1> DEFINE old == req[r]
  <1>3. old.tried < Len(old.cookies)
    BY DEF Missed
  <1>4. old \in [phase : {"search"}, by : Browser, cookies : Seq(Key), tried : Nat,
                obj : {0}, sets : {NoKey}, login : {FALSE}, alone : BOOLEAN]
    BY <1>1
  <1>5. new = [old EXCEPT !.tried = old.tried + 1]
    OBVIOUS
  <1> HIDE DEF old, new
  <1>6. old.tried + 1 \in Nat /\ old.tried + 1 <= Len(old.cookies)
    BY <1>3, <1>4
  <1>7. /\ new \in [phase : {"search"}, by : Browser, cookies : Seq(Key), tried : Nat,
                    obj : {0}, sets : {NoKey}, login : {FALSE}, alone : BOOLEAN]
        /\ new.cookies = old.cookies /\ new.tried = old.tried + 1
    BY <1>4, <1>5, <1>6
  <1>8. /\ new.tried <= Len(new.cookies) /\ new.phase = "search" /\ new.by \in Browser
        /\ new.obj = 0 /\ new.sets = NoKey /\ ~new.login /\ new.cookies = req[r].cookies
    BY <1>7, <1>6 DEF old
  <1>9. new \in [phase : {"search", "handle", "answered", "done"},
                 by : Browser \cup {NoBrowser}, cookies : Seq(Key), tried : Nat,
                 obj : Nat, sets : (issued \ {Foreign}) \cup {NoKey},
                 login : BOOLEAN, alone : BOOLEAN]
    <2>1. /\ {"search"} \subseteq {"search", "handle", "answered", "done"}
          /\ Browser \subseteq Browser \cup {NoBrowser} /\ {0} \subseteq Nat
          /\ {NoKey} \subseteq (issued \ {Foreign}) \cup {NoKey} /\ {FALSE} \subseteq BOOLEAN
      OBVIOUS
    <2> QED BY <1>7, <2>1, Zenon
  <1>10. Set(r, new) /\ Live' = Live /\ made' = made
        /\ UNCHANGED <<jar, user, issued, guests, member>>
    BY DEF Missed, new
  <1>11. /\ jar' \in [Browser -> (issued \ {Foreign}) \cup {NoKey}]
        /\ user' \in [1 .. MaxMade -> Browser \cup {NoBrowser}]
        /\ guests' \in [1 .. MaxMade -> SUBSET Browser]
        /\ member' \in [Browser -> BOOLEAN]
    BY <1>10 DEF LInv, LookupTypeOK
  <1> QED BY <1>2, <1>8, <1>9, <1>10, <1>11, SetTypes

LEMMA MadeTypes ==
  ASSUME LInv, IInv', NEW r \in Request, NEW j \in Key, Made(r, j)
  PROVE  LInv'
  <1> DEFINE old == req[r]
             next == made + 1
             new == [old EXCEPT !.phase = "handle", !.obj = next, !.sets = j]
  <1>1. /\ old.phase = "search" /\ j \in Key \ issued /\ Set(r, new) /\ made' = made + 1
        /\ Live' = Live \cup {j} /\ issued' = issued \cup {j} /\ made < MaxMade
        /\ guests' = [guests EXCEPT ![made + 1] = @ \cup {old.by}]
        /\ UNCHANGED <<jar, user, member>>
    BY DEF Made
  <1>2. made \in 0 .. MaxMade /\ Foreign \in issued /\ Live \subseteq issued \ {Foreign}
    BY DEF LInv, RequestsTyped
  <1>3. req' = [q \in Request |-> IF q = r THEN new ELSE req[q]]
    BY <1>1 DEF Set, LInv, RequestsTyped
  <1>4. /\ old \in [phase : {"unsent", "search", "handle", "answered", "done"},
                    by : Browser, cookies : Seq(Key), tried : Nat,
                    obj : Nat, sets : Key \cup {NoKey}, login : {FALSE}, alone : BOOLEAN]
        /\ \A i \in DOMAIN old.cookies : old.cookies[i] \in issued
    BY <1>1 DEF LInv, RequestsTyped, LookupTypeOK
  <1>5. /\ next = made + 1 /\ next \in Nat /\ next \in 1 .. MaxMade /\ next \in 1 .. next
        /\ \A i \in 1 .. made : i \in 1 .. next
    BY <1>1, <1>2, BoundsAssumption
  <1> HIDE DEF next
  <1>6. /\ new \in [phase : {"unsent", "search", "handle", "answered", "done"},
                    by : Browser, cookies : Seq(Key), tried : Nat,
                    obj : Nat, sets : Key \cup {NoKey}, login : {FALSE}, alone : BOOLEAN]
        /\ new.phase = "handle" /\ new.by \in Browser /\ new.obj = next /\ new.sets = j
        /\ new.cookies = old.cookies
    BY <1>1, <1>4, <1>5
  <1>7. old.by \in Browser
    BY <1>4
  <1> HIDE DEF old, new
  <1>8. RequestsTyped'
    <2>1. req' \in [Request -> [phase : {"unsent", "search", "handle", "answered", "done"},
                          by : Browser \cup {NoBrowser}, cookies : Seq(Key), tried : Nat,
                          obj : Nat, sets : Key \cup {NoKey}, login : BOOLEAN, alone : BOOLEAN]]
      BY <1>3, <1>6 DEF LInv, RequestsTyped
    <2>2. ASSUME NEW q \in Request
          PROVE  /\ \A i \in DOMAIN req'[q].cookies : req'[q].cookies[i] \in issued'
                 /\ req'[q].phase = "search" => /\ req'[q].tried <= Len(req'[q].cookies)
                                                /\ req'[q].sets = NoKey
                 /\ req'[q].login => req'[q].phase = "answered"
      BY <1>1, <1>3, <1>4, <1>6 DEF LInv, RequestsTyped
    <2>3. issued' \subseteq Key /\ Foreign \in issued' /\ Live' \subseteq issued' \ {Foreign}
      BY <1>1, <1>2 DEF LInv, RequestsTyped
    <2>4. made' \in 0 .. MaxMade
      BY <1>1, <1>2, BoundsAssumption
    <2> QED BY <2>1, <2>2, <2>3, <2>4 DEF RequestsTyped
  <1>9. LookupTypeOK'
    <2>1. ASSUME NEW q \in Request
          PROVE  /\ req'[q].phase \in {"unsent", "search", "handle", "answered", "done"}
                 /\ (req'[q].by \in Browser)
                        = (req'[q].phase \in {"search", "handle", "answered"})
                 /\ req'[q].obj \in (IF req'[q].phase \in {"handle", "answered"}
                                      THEN 1 .. made' ELSE {0})
                 /\ req'[q].sets \in (issued' \ {Foreign}) \cup {NoKey}
      <3>1. CASE q = r
        BY <1>1, <1>2, <1>3, <1>6, <1>5, <3>1
      <3>2. CASE q # r
        <4>1. /\ req[q].phase \in {"unsent", "search", "handle", "answered", "done"}
              /\ (req[q].by \in Browser)
                        = (req[q].phase \in {"search", "handle", "answered"})
              /\ req[q].obj \in (IF req[q].phase \in {"handle", "answered"}
                                      THEN 1 .. made ELSE {0})
              /\ req[q].sets \in (issued \ {Foreign}) \cup {NoKey}
          BY DEF LInv, LookupTypeOK
        <4>2. req'[q] = req[q]
          BY <1>3, <3>2
        <4> QED BY <1>1, <1>5, <4>1, <4>2
      <3> QED BY <3>1, <3>2
    <2>2. jar' \in [Browser -> (issued' \ {Foreign}) \cup {NoKey}]
      BY <1>1 DEF LInv, LookupTypeOK
    <2>3. guests' \in [1 .. MaxMade -> SUBSET Browser]
      BY <1>1, <1>7, <1>5 DEF LInv, LookupTypeOK
    <2>4. issued' \subseteq Key
      BY <1>1 DEF LInv, LookupTypeOK
    <2>5. user' \in [1 .. MaxMade -> Browser \cup {NoBrowser}] /\ member' \in [Browser -> BOOLEAN]
      BY <1>1 DEF LInv, LookupTypeOK
    <2> QED BY <2>1, <2>2, <2>3, <2>4, <2>5 DEF LookupTypeOK
  <1> QED BY <1>8, <1>9 DEF LInv

LEMMA HandleFacts ==
  ASSUME LInv, NEW r \in Request, Handle(r)
  PROVE  /\ req[r].phase = "handle" /\ req[r].by \in Browser /\ req[r].obj \in 1 .. made
         /\ 1 .. made \subseteq 1 .. MaxMade
         /\ \E new : /\ Set(r, new)
                     /\ new \in [phase : {"answered"}, by : {req[r].by}, cookies : {req[r].cookies},
                                 tried : {req[r].tried}, obj : {req[r].obj},
                                 sets : {req[r].sets, NoKey}, login : BOOLEAN,
                                 alone : {req[r].alone}]
                     /\ new.login => /\ user' = [user EXCEPT ![req[r].obj] = req[r].by]
                                    /\ new.sets = req[r].sets
         /\ \/ user' = [user EXCEPT ![req[r].obj] = req[r].by] /\ member' = member
            \/ user' = user /\ member' = member
            \/ /\ user' = [user EXCEPT ![req[r].obj] = NoBrowser]
               /\ member' = [member EXCEPT ![req[r].by] = FALSE]
         /\ UNCHANGED <<vars, jar, issued, guests>>
  <1> DEFINE old == req[r]
  <1>1. /\ old \in [phase : {"handle"}, by : Browser, cookies : Seq(Key), tried : Nat,
                    obj : 1 .. made, sets : Key \cup {NoKey}, login : {FALSE}, alone : BOOLEAN]
        /\ made \in 0 .. MaxMade
    BY DEF LInv, RequestsTyped, LookupTypeOK, Handle, Visit, Login, Logout, Throw
  <1> DEFINE Good(new) ==
        /\ Set(r, new)
        /\ new \in [phase : {"answered"}, by : {old.by}, cookies : {old.cookies},
                    tried : {old.tried}, obj : {old.obj},
                    sets : {old.sets, NoKey}, login : BOOLEAN,
                    alone : {old.alone}]
        /\ new.login => user' = [user EXCEPT ![old.obj] = old.by] /\ new.sets = old.sets
  <1>2. ASSUME Visit(r) PROVE Good([old EXCEPT !.phase = "answered"])
    BY <1>1, <1>2 DEF Visit
  <1>3. ASSUME Login(r) PROVE Good([old EXCEPT !.phase = "answered", !.login = TRUE])
    BY <1>1, <1>3 DEF Login
  <1>4. ASSUME Logout(r) PROVE Good([old EXCEPT !.phase = "answered"])
    BY <1>1, <1>4 DEF Logout
  <1>5. ASSUME Throw(r) PROVE Good([old EXCEPT !.phase = "answered", !.sets = NoKey])
    BY <1>1, <1>5 DEF Throw
  <1>6. \E new : Good(new)
    BY <1>2, <1>3, <1>4, <1>5 DEF Handle
  <1>7. /\ \/ user' = [user EXCEPT ![req[r].obj] = req[r].by] /\ member' = member
           \/ user' = user /\ member' = member
           \/ /\ user' = [user EXCEPT ![req[r].obj] = NoBrowser]
              /\ member' = [member EXCEPT ![req[r].by] = FALSE]
        /\ UNCHANGED <<vars, jar, issued, guests>>
    BY DEF Handle, Visit, Login, Logout, Throw
  <1>8. old.phase = "handle" /\ old.by \in Browser /\ old.obj \in 1 .. made
    BY <1>1
  <1>9. 1 .. made \subseteq 1 .. MaxMade
    BY <1>1, BoundsAssumption
  <1> QED BY <1>6, <1>7, <1>8, <1>9

LEMMA HandleTypes ==
  ASSUME LInv, IInv', NEW r \in Request, Handle(r)
  PROVE  LInv'
  <1> DEFINE old == req[r]
  <1>1. PICK new :
          /\ Set(r, new)
          /\ new \in [phase : {"answered"}, by : {old.by}, cookies : {old.cookies},
                      tried : {old.tried}, obj : {old.obj},
                      sets : {old.sets, NoKey}, login : BOOLEAN, alone : {old.alone}]
    BY HandleFacts
  <1>2. /\ old \in [phase : {"handle"}, by : Browser, cookies : Seq(Key), tried : Nat,
                    obj : Nat, sets : (issued \ {Foreign}) \cup {NoKey}, login : BOOLEAN,
                    alone : BOOLEAN]
        /\ old.obj \in 1 .. made
        /\ \A i \in DOMAIN old.cookies : old.cookies[i] \in issued
    BY HandleFacts DEF LInv, RequestsTyped, LookupTypeOK
  <1>3. UNCHANGED <<vars, jar, issued, guests>>
    BY HandleFacts
  <1>4. Live' = Live /\ made' = made
    BY <1>3 DEF Live, vars, maps
  <1>5. /\ user' \in [1 .. MaxMade -> Browser \cup {NoBrowser}]
        /\ member' \in [Browser -> BOOLEAN]
    BY HandleFacts, ZenonT(40) DEF LInv, LookupTypeOK
  <1>6. /\ jar' \in [Browser -> (issued \ {Foreign}) \cup {NoKey}]
        /\ guests' \in [1 .. MaxMade -> SUBSET Browser]
    BY <1>3 DEF LInv, LookupTypeOK
  <1> HIDE DEF old
  <1>7. /\ new \in [phase : {"search", "handle", "answered", "done"},
                    by : Browser \cup {NoBrowser}, cookies : Seq(Key), tried : Nat,
                    obj : Nat, sets : (issued \ {Foreign}) \cup {NoKey},
                    login : BOOLEAN, alone : BOOLEAN]
        /\ new.phase = "answered" /\ new.by \in Browser /\ new.obj \in 1 .. made
        /\ new.cookies = old.cookies
    BY <1>1, <1>2
  <1> QED BY <1>1, <1>2, <1>3, <1>4, <1>5, <1>6, <1>7, SetTypes

LEMMA DoneTyped ==
  /\ Done \in [phase : {"done"}, by : Browser \cup {NoBrowser}, cookies : Seq(Key), tried : Nat,
               obj : Nat, sets : (issued \ {Foreign}) \cup {NoKey},
               login : BOOLEAN, alone : BOOLEAN]
  /\ DOMAIN Done.cookies = {} /\ Done.by = NoBrowser /\ Done.obj = 0 /\ Done.sets = NoKey
  /\ Done.phase = "done" /\ ~Done.login
  <1>1. <<>> \in Seq(Key) /\ DOMAIN <<>> = {}
    OBVIOUS
  <1> QED BY <1>1 DEF Done, Unsent

LEMMA DeliverTypes ==
  ASSUME LInv, IInv', NEW r \in Request, Deliver(r)
  PROVE  LInv'
  <1>1. /\ Set(r, Done) /\ UNCHANGED <<vars, user, issued, guests>>
        /\ req[r].phase = "answered"
    BY DEF Deliver
  <1>2. Live' = Live /\ made' = made
    BY <1>1 DEF Live, vars, maps
  <1>3. req[r].by \in Browser /\ req[r].sets \in (issued \ {Foreign}) \cup {NoKey}
    BY <1>1 DEF LInv, LookupTypeOK
  <1>4. req[r].login \in BOOLEAN /\ req[r].alone \in BOOLEAN
    BY DEF LInv, RequestsTyped
  <1>5. /\ jar' \in [Browser -> (issued \ {Foreign}) \cup {NoKey}]
        /\ member' \in [Browser -> BOOLEAN]
    BY <1>3, <1>4 DEF Deliver, LInv, LookupTypeOK
  <1>6. /\ user' \in [1 .. MaxMade -> Browser \cup {NoBrowser}]
        /\ guests' \in [1 .. MaxMade -> SUBSET Browser]
    BY <1>1 DEF LInv, LookupTypeOK
  <1>7. NoBrowser \notin Browser
    BY LookupAssumption
  <1> QED BY <1>1, <1>2, <1>5, <1>6, <1>7, DoneTyped, SetTypes

LEMMA LoseTypes ==
  ASSUME LInv, IInv', NEW r \in Request, Lose(r)
  PROVE  LInv'
  <1>1. Set(r, Done) /\ UNCHANGED <<vars, jar, user, issued, guests, member>>
    BY DEF Lose
  <1>2. Live' = Live /\ made' = made
    BY <1>1 DEF Live, vars, maps
  <1>3. /\ jar' \in [Browser -> (issued \ {Foreign}) \cup {NoKey}]
        /\ user' \in [1 .. MaxMade -> Browser \cup {NoBrowser}]
        /\ guests' \in [1 .. MaxMade -> SUBSET Browser]
        /\ member' \in [Browser -> BOOLEAN]
    BY <1>1 DEF LInv, LookupTypeOK
  <1>4. NoBrowser \notin Browser
    BY LookupAssumption
  <1> QED BY <1>1, <1>2, <1>3, <1>4, DoneTyped, SetTypes

LEMMA SendTypes ==
  ASSUME LInv, IInv', NEW r \in Request, NEW b \in Browser, Send(r, b)
  PROVE  LInv'
  <1>1. PICK cs \in Cookies(b), lonely \in BOOLEAN : Sent(r, b, cs, lonely)
    BY SendFacts
  <1>2. /\ cs \in Seq(Key) /\ Len(cs) \in Nat
        /\ \A i \in DOMAIN cs : cs[i] \in issued
    BY CookieFacts
  <1>3. Live' = Live /\ made' = made
    BY <1>1 DEF Sent, Live, vars, maps
  <1> DEFINE Type == [phase : {"unsent", "search", "handle", "answered", "done"},
                      by : Browser \cup {NoBrowser}, cookies : Seq(Key), tried : Nat,
                      obj : Nat, sets : Key \cup {NoKey}, login : BOOLEAN, alone : BOOLEAN]
             Fine(q) ==
               /\ q \in Type /\ \A i \in DOMAIN q.cookies : q.cookies[i] \in issued
               /\ q.phase = "search" => q.tried <= Len(q.cookies) /\ q.sets = NoKey
               /\ q.login => q.phase = "answered"
               /\ q.phase \in {"unsent", "search", "handle", "answered", "done"}
               /\ (q.by \in Browser) = (q.phase \in {"search", "handle", "answered"})
               /\ q.obj \in (IF q.phase \in {"handle", "answered"} THEN 1 .. made ELSE {0})
               /\ q.sets \in (issued \ {Foreign}) \cup {NoKey}
  <1>4. Fine(req'[r])
    <2>1. req'[r] = [phase |-> "search", by |-> b, cookies |-> cs, tried |-> 0, obj |-> 0,
                     sets |-> NoKey, login |-> FALSE, alone |-> lonely]
      BY <1>1 DEF Unsent, Sent
    <2> QED BY <1>2, <2>1
  <1>5. ASSUME NEW q \in Request, q # r PROVE Fine(req'[q])
    <2>1. Fine(req[q])
      BY DEF LInv, RequestsTyped, LookupTypeOK
    <2>2. PICK a \in BOOLEAN : /\ req'[q] = [req[q] EXCEPT !.alone = a]
                               /\ a => req[q].alone /\ req[q].by # b
      BY <1>1, <1>5 DEF Sent
    <2> DEFINE old == req[q]
    <2>3. old \in Type
      BY <2>1
    <2>4. req'[q] = [old EXCEPT !.alone = a]
      BY <2>2
    <2> HIDE DEF old
    <2>5. /\ req'[q].phase = old.phase /\ req'[q].by = old.by
          /\ req'[q].cookies = old.cookies /\ req'[q].tried = old.tried
          /\ req'[q].obj = old.obj /\ req'[q].sets = old.sets
          /\ req'[q].login = old.login
      BY <2>3, <2>4
    <2>6. req'[q] \in Type
      BY <2>3, <2>4
    <2> HIDE DEF Type
    <2> QED BY <2>1, <2>5, <2>6 DEF old
  <1>6. \A q \in Request : Fine(req'[q])
    BY <1>4, <1>5
  <1>7. req' \in [Request -> Type]
    <2>1. \E f : req' = [q \in Request |-> f[q]]
      BY DEF Send
    <2> QED BY <1>6, <2>1
  <1>8. RequestsTyped'
    BY <1>1, <1>3, <1>6, <1>7 DEF Sent, LInv, RequestsTyped
  <1>9. LookupTypeOK'
    BY <1>1, <1>3, <1>6 DEF Sent, LInv, LookupTypeOK, vars
  <1> QED BY <1>8, <1>9 DEF LInv

LEMMA TickTypes ==
  ASSUME LInv, IInv', Live' \subseteq Live, made' = made, UNCHANGED web
  PROVE  LInv'
  <1> USE DEF LInv, web
  <1>1. RequestsTyped'
    BY DEF RequestsTyped
  <1>2. LookupTypeOK'
    BY DEF LookupTypeOK
  <1> QED BY <1>1, <1>2

\* What can happen, in the words of this module.
LookupStep ==
  \/ Live' \subseteq Live /\ made' = made /\ KeepsSessions /\ UNCHANGED <<web, answer>>
  \/ \E r \in Request, b \in Browser : Send(r, b)
  \/ \E r \in Request, k \in Key : Found(r, k) \/ Made(r, k)
  \/ \E r \in Request : Missed(r) \/ Handle(r) \/ Deliver(r) \/ Lose(r)

LEMMA StepFacts ==
  ASSUME LInv, [LookupNext]_lookupVars
  PROVE  IInv' /\ LookupStep
  <1>1. IInv'
    BY StepOfManager, NextStep DEF LInv
  <1>2. CASE Tick /\ UNCHANGED web
    <2>1. Live' \subseteq Live /\ made' = made /\ KeepsSessions
      BY <1>2, TickFacts DEF LInv, KeepsSessions
    <2> QED BY <1>1, <1>2, <2>1 DEF LookupStep, Tick
  <1>3. CASE UNCHANGED lookupVars
    <2>1. Live' \subseteq Live /\ made' = made /\ KeepsSessions
      BY <1>3 DEF lookupVars, vars, maps, Live, KeepsSessions, Obj
    <2> QED BY <1>1, <1>3, <2>1 DEF LookupStep, lookupVars, vars
  <1>4. ASSUME NEW r \in Request, NEW b \in Browser, Send(r, b) PROVE LookupStep
    BY <1>4 DEF LookupStep
  <1>5. ASSUME NEW r \in Request,
               Try(r) \/ Lookup(r) \/ Handle(r) \/ Deliver(r) \/ Lose(r)
        PROVE  LookupStep
    BY <1>1, <1>5, TryFacts, LookupFacts DEF LookupStep
  <1> QED BY <1>1, <1>2, <1>3, <1>4, <1>5 DEF LookupNext

LEMMA LStep == LInv /\ [LookupNext]_lookupVars => LInv'
  <1> SUFFICES ASSUME LInv, [LookupNext]_lookupVars PROVE LInv'
    OBVIOUS
  <1>1. IInv' /\ LookupStep
    BY StepFacts
  <1> QED BY <1>1, TickTypes, SendTypes, FoundTypes, MadeTypes, MissedTypes, HandleTypes,
             DeliverTypes, LoseTypes DEF LookupStep

-----------------------------------------------------------------------------
\* LInv holds in every reachable state.
THEOREM LookupInvariance == LookupSpec => []LInv
  <1> QED BY InitLInv, LStep, PTL DEF LookupSpec

\* Whatever browsers send, a request that is handled has a session, and all that cookies
\* and responses name are keys that were issued.
THEOREM LookupTypeCorrect == LookupSpec => []LookupTypeOK
  <1>1. LInv => LookupTypeOK
    BY DEF LInv
  <1> QED BY <1>1, LookupInvariance, PTL

\* The requests of browsers use the session manager as its interface allows, so that all
\* that is proved of it holds among them.
THEOREM LookupUsesManager == LookupSpec => Spec /\ ImplementsStore
  <1>1. LookupInit => Init
    BY DEF LookupInit
  <1>2. LookupSpec => Spec
    BY <1>1, StepOfManager, LookupInvariance, PTL DEF LookupSpec, Spec
  <1> QED BY <1>2, Refinement, PTL

-----------------------------------------------------------------------------
(* No session is shared *)

\* The browser has the key, or a request or response of its under way does.
Holds(b, k) == \/ jar[b] = k
               \/ \E r \in Request : /\ req[r].by = b
                                     /\ \/ req[r].sets = k
                                        \/ \E i \in DOMAIN req[r].cookies : req[r].cookies[i] = k

Handled(r) == req[r].phase \in {"handle", "answered"}

KeysHaveOneHolder ==
  \A k \in issued \ {Foreign} : \A a, b \in Browser : Holds(a, k) /\ Holds(b, k) => a = b

GuestsAreAlone == \A o \in 1 .. MaxMade : \A a, b \in guests[o] : a = b

NewOnesAreEmpty == \A o \in 1 .. MaxMade : o > made => guests[o] = {}

HoldersAreGuests == \A k \in Live : \A b \in Browser : Holds(b, k) => guests[Obj(k)] \subseteq {b}

HandledAreGuests == \A r \in Request : Handled(r) => req[r].by \in guests[req[r].obj]

TriedAreDead == \A r \in Request : req[r].phase = "search" =>
                  \A i \in 1 .. req[r].tried : req[r].cookies[i] \notin Live

PInv == /\ KeysHaveOneHolder /\ GuestsAreAlone /\ NewOnesAreEmpty
        /\ HoldersAreGuests /\ HandledAreGuests /\ TriedAreDead

LEMMA InitPInv == LookupInit => PInv
  <1> SUFFICES ASSUME LookupInit PROVE PInv
    OBVIOUS
  <1>1. Live = {} /\ issued = {Foreign} /\ \A r \in Request : req[r] = Unsent
    BY DEF LookupInit, Init, Empty, Live
  <1>2. \A o \in 1 .. MaxMade : guests[o] = {}
    BY DEF LookupInit
  <1> QED BY <1>1, <1>2 DEF PInv, KeysHaveOneHolder, GuestsAreAlone, NewOnesAreEmpty,
             HoldersAreGuests, HandledAreGuests, TriedAreDead, Handled, Unsent

\* A step that makes no session, gives none to a browser and hands no key to another.
LEMMA NothingGiven ==
  ASSUME LInv, PInv, Live' \subseteq Live, made' = made, KeepsSessions, UNCHANGED <<issued, guests>>,
         \A b \in Browser : \A k \in Key \ {Foreign} : Holds(b, k)' => Holds(b, k),
         \A r \in Request : Handled(r)' =>
           Handled(r) /\ req'[r].by = req[r].by /\ req'[r].obj = req[r].obj,
         TriedAreDead'
  PROVE  PInv'
  <1>1. issued \subseteq Key /\ Live \subseteq issued \ {Foreign}
    BY DEF LInv, RequestsTyped
  <1>2. KeysHaveOneHolder'
    BY <1>1 DEF PInv, KeysHaveOneHolder
  <1>3. GuestsAreAlone' /\ NewOnesAreEmpty'
    BY DEF PInv, GuestsAreAlone, NewOnesAreEmpty
  <1>4. HoldersAreGuests'
    BY <1>1 DEF PInv, HoldersAreGuests, KeepsSessions
  <1>5. HandledAreGuests'
    BY DEF PInv, HandledAreGuests
  <1> QED BY <1>2, <1>3, <1>4, <1>5 DEF PInv

\* What r carries is replaced by less.
LEMMA NoNewHolders ==
  ASSUME LInv, NEW r \in Request, NEW new, Set(r, new),
         new.by \in Browser => /\ new.by = req[r].by /\ new.cookies = req[r].cookies
                               /\ new.sets \in {req[r].sets, NoKey},
         jar' = jar \/ (req[r].by \in Browser /\ jar' = [jar EXCEPT ![req[r].by] = req[r].sets])
  PROVE  \A b \in Browser : \A k \in Key \ {Foreign} : Holds(b, k)' => Holds(b, k)
  <1>1. /\ req'[r] = new /\ \A q \in Request : q # r => req'[q] = req[q]
    BY SetFacts
  <1> TAKE b \in Browser
  <1> TAKE k \in Key \ {Foreign}
  <1> HAVE Holds(b, k)'
  <1>2. k # NoKey
    BY NoKeyAssumption
  <1>3. CASE jar'[b] = k
    <2>1. jar[b] = k \/ (req[r].by = b /\ req[r].sets = k)
      BY <1>3 DEF LInv, LookupTypeOK
    <2> QED BY <2>1 DEF Holds
  <1>4. ASSUME NEW q \in Request, req'[q].by = b,
               \/ req'[q].sets = k
               \/ \E i \in DOMAIN req'[q].cookies : req'[q].cookies[i] = k
        PROVE  Holds(b, k)
    <2>1. /\ req[q].by = b
          /\ req[q].sets = k \/ \E i \in DOMAIN req[q].cookies : req[q].cookies[i] = k
      <3>1. CASE q = r
        BY <1>1, <1>2, <1>4, <3>1
      <3>2. CASE q # r
        BY <1>1, <1>4, <3>2
      <3> QED BY <3>1, <3>2
    <2> QED BY <2>1 DEF Holds
  <1> QED BY <1>3, <1>4 DEF Holds

LEMMA TickPrivate ==
  ASSUME LInv, PInv, Live' \subseteq Live, made' = made, KeepsSessions, UNCHANGED web
  PROVE  PInv'
  <1>1. \A b \in Browser : \A k \in Key : Holds(b, k)' => Holds(b, k)
    BY DEF web, Holds
  <1>2. TriedAreDead'
    BY DEF web, PInv, TriedAreDead
  <1>3. \A r \in Request : Handled(r)' =>
          Handled(r) /\ req'[r].by = req[r].by /\ req'[r].obj = req[r].obj
    BY DEF web, Handled
  <1>4. UNCHANGED <<issued, guests>>
    BY DEF web
  <1> QED BY <1>1, <1>2, <1>3, <1>4, NothingGiven

LEMMA MissedPrivate ==
  ASSUME LInv, PInv, NEW r \in Request, Missed(r)
  PROVE  PInv'
  <1> DEFINE new == [req[r] EXCEPT !.tried = @ + 1]
  <1>1. /\ req[r].phase = "search" /\ Set(r, new) /\ Live' = Live /\ made' = made /\ KeepsSessions
        /\ req[r].cookies[req[r].tried + 1] \notin Live /\ UNCHANGED <<jar, issued, guests>>
    BY DEF Missed
  <1>2. req[r].tried \in Nat
    BY DEF LInv, RequestsTyped
  <1>3. /\ new.phase = "search" /\ new.by = req[r].by /\ new.cookies = req[r].cookies
        /\ new.sets = req[r].sets /\ new.tried = req[r].tried + 1
    BY <1>1 DEF LInv, RequestsTyped
  <1> HIDE DEF new
  <1>4. req'[r] = new /\ \A q \in Request : q # r => req'[q] = req[q]
    BY <1>1, SetFacts
  <1>5. \A b \in Browser : \A k \in Key \ {Foreign} : Holds(b, k)' => Holds(b, k)
    BY <1>1, <1>3, NoNewHolders
  <1>6. \A q \in Request : Handled(q)' =>
          Handled(q) /\ req'[q].by = req[q].by /\ req'[q].obj = req[q].obj
    BY <1>3, <1>4 DEF Handled
  <1>7. TriedAreDead'
    <2>1. \A i \in 1 .. req[r].tried + 1 : i \in 1 .. req[r].tried \/ i = req[r].tried + 1
      BY <1>2
    <2>2. \A i \in 1 .. new.tried : new.cookies[i] \notin Live
      BY <1>1, <1>3, <2>1 DEF PInv, TriedAreDead
    <2> QED BY <1>1, <1>4, <2>2 DEF PInv, TriedAreDead
  <1> QED BY <1>1, <1>5, <1>6, <1>7, NothingGiven

LEMMA SendPrivate ==
  ASSUME LInv, PInv, NEW r \in Request, NEW b \in Browser, Send(r, b)
  PROVE  PInv'
  <1>1. PICK cs \in Cookies(b), lonely \in BOOLEAN : Sent(r, b, cs, lonely)
    BY SendFacts
  <1>2. \A i \in DOMAIN cs : cs[i] \in {Foreign, jar[b]}
    BY CookieFacts
  <1>3. /\ req'[r].phase = "search" /\ req'[r].by = b /\ req'[r].cookies = cs
        /\ req'[r].sets = NoKey /\ req'[r].tried = 0
    BY <1>1 DEF Sent, Unsent
  <1>4. ASSUME NEW q \in Request, q # r
        PROVE  /\ req'[q].phase = req[q].phase /\ req'[q].by = req[q].by
               /\ req'[q].cookies = req[q].cookies /\ req'[q].tried = req[q].tried
               /\ req'[q].sets = req[q].sets /\ req'[q].obj = req[q].obj
    <2>1. PICK a \in BOOLEAN : req'[q] = [req[q] EXCEPT !.alone = a]
      BY <1>1, <1>4 DEF Sent
    <2> QED BY <2>1 DEF LInv, RequestsTyped
  <1>5. UNCHANGED <<vars, jar, issued, guests>>
    BY <1>1 DEF Sent
  <1>6. Live' = Live /\ made' = made /\ KeepsSessions
    BY <1>5 DEF vars, maps, Live, KeepsSessions, Obj
  <1>7. ASSUME NEW a \in Browser, NEW k \in Key \ {Foreign}, Holds(a, k)'
        PROVE  Holds(a, k)
    <2>1. k # NoKey
      BY NoKeyAssumption
    <2>2. CASE jar'[a] = k
      BY <1>5, <2>2 DEF Holds
    <2>3. ASSUME NEW q \in Request, req'[q].by = a,
                 \/ req'[q].sets = k
                 \/ \E i \in DOMAIN req'[q].cookies : req'[q].cookies[i] = k
          PROVE  Holds(a, k)
      <3>1. CASE q = r
        BY <1>2, <1>3, <2>1, <2>3, <3>1 DEF Holds
      <3>2. CASE q # r
        BY <1>4, <2>3, <3>2 DEF Holds
      <3> QED BY <3>1, <3>2
    <2> QED BY <1>7, <2>2, <2>3 DEF Holds
  <1>8. \A q \in Request : Handled(q)' =>
          Handled(q) /\ req'[q].by = req[q].by /\ req'[q].obj = req[q].obj
    BY <1>3, <1>4 DEF Handled
  <1>9. TriedAreDead'
    BY <1>3, <1>4, <1>6 DEF PInv, TriedAreDead
  <1> QED BY <1>5, <1>6, <1>7, <1>8, <1>9, NothingGiven

LEMMA HandlePrivate ==
  ASSUME LInv, PInv, NEW r \in Request, Handle(r)
  PROVE  PInv'
  <1>1. PICK new :
          /\ Set(r, new)
          /\ new \in [phase : {"answered"}, by : {req[r].by}, cookies : {req[r].cookies},
                      tried : {req[r].tried}, obj : {req[r].obj},
                      sets : {req[r].sets, NoKey}, login : BOOLEAN, alone : {req[r].alone}]
    BY HandleFacts
  <1>2. /\ new.phase = "answered" /\ new.by = req[r].by /\ new.cookies = req[r].cookies
        /\ new.sets \in {req[r].sets, NoKey} /\ new.obj = req[r].obj
    BY <1>1
  <1>3. req[r].phase = "handle" /\ UNCHANGED <<vars, jar, issued, guests>>
    BY HandleFacts
  <1>4. Live' = Live /\ made' = made /\ KeepsSessions
    BY <1>3 DEF vars, maps, Live, KeepsSessions, Obj
  <1>5. req'[r] = new /\ \A q \in Request : q # r => req'[q] = req[q]
    BY <1>1, SetFacts
  <1>6. \A b \in Browser : \A k \in Key \ {Foreign} : Holds(b, k)' => Holds(b, k)
    BY <1>1, <1>2, <1>3, NoNewHolders
  <1>7. \A q \in Request : Handled(q)' =>
          Handled(q) /\ req'[q].by = req[q].by /\ req'[q].obj = req[q].obj
    BY <1>2, <1>3, <1>5 DEF Handled
  <1>8. TriedAreDead'
    BY <1>2, <1>4, <1>5 DEF PInv, TriedAreDead
  <1> QED BY <1>3, <1>4, <1>6, <1>7, <1>8, NothingGiven

LEMMA EndPrivate ==
  ASSUME LInv, PInv, NEW r \in Request, Deliver(r) \/ Lose(r)
  PROVE  PInv'
  <1>1. Set(r, Done) /\ UNCHANGED <<vars, issued, guests>>
    BY DEF Deliver, Lose
  <1>2. jar' = jar \/ (req[r].by \in Browser /\ jar' = [jar EXCEPT ![req[r].by] = req[r].sets])
    <2>1. CASE Deliver(r)
      <3>1. req[r].by \in Browser
        BY <2>1 DEF Deliver, LInv, LookupTypeOK
      <3> QED BY <2>1, <3>1 DEF Deliver
    <2>2. CASE Lose(r)
      BY <2>2 DEF Lose
    <2> QED BY <2>1, <2>2
  <1>3. Done.by \notin Browser /\ Done.phase = "done"
    BY DoneTyped, LookupAssumption
  <1>4. Live' = Live /\ made' = made /\ KeepsSessions
    BY <1>1 DEF vars, maps, Live, KeepsSessions, Obj
  <1>5. req'[r] = Done /\ \A q \in Request : q # r => req'[q] = req[q]
    BY <1>1, SetFacts
  <1>6. \A b \in Browser : \A k \in Key \ {Foreign} : Holds(b, k)' => Holds(b, k)
    BY <1>1, <1>2, <1>3, NoNewHolders
  <1>7. \A q \in Request : Handled(q)' =>
          Handled(q) /\ req'[q].by = req[q].by /\ req'[q].obj = req[q].obj
    BY <1>3, <1>5 DEF Handled
  <1>8. TriedAreDead'
    BY <1>3, <1>4, <1>5 DEF PInv, TriedAreDead
  <1> QED BY <1>1, <1>4, <1>6, <1>7, <1>8, NothingGiven

LEMMA FoundPrivate ==
  ASSUME LInv, PInv, NEW r \in Request, NEW k \in Key, Found(r, k)
  PROVE  PInv'
  <1> DEFINE b == req[r].by
             o == Obj(k)
             new == [req[r] EXCEPT !.phase = "handle", !.obj = o]
  <1>1. /\ req[r].phase = "search" /\ k \in Live /\ Set(r, new) /\ Live' = Live /\ made' = made
        /\ KeepsSessions /\ guests' = [guests EXCEPT ![o] = @ \cup {b}] /\ UNCHANGED <<jar, issued>>
        /\ \E i \in DOMAIN req[r].cookies : req[r].cookies[i] = k
    BY DEF Found
  <1>2. /\ new.phase = "handle" /\ new.by = b /\ new.cookies = req[r].cookies
        /\ new.sets = req[r].sets /\ new.obj = o
    BY <1>1 DEF LInv, RequestsTyped
  <1>3. b \in Browser
    BY <1>1 DEF LInv, LookupTypeOK
  <1>4. /\ o \in 1 .. made /\ 1 .. made \subseteq 1 .. MaxMade
        /\ \A x \in 1 .. MaxMade : x > made => x # o
    <2>1. made \in 0 .. MaxMade
      BY DEF LInv, RequestsTyped
    <2>2. 1 .. made \subseteq 1 .. MaxMade
      BY <2>1, BoundsAssumption
    <2>3. o \in 1 .. made
      BY <1>1, ObjFacts DEF LInv
    <2>4. \A x \in 1 .. MaxMade : x > made => x # o
      BY <2>1, <2>3
    <2> QED BY <2>2, <2>3, <2>4
  <1>5. \A x \in Live : Obj(x) = o => x = k
    BY <1>1, ObjFacts DEF LInv
  <1>6. Holds(b, k)
    BY <1>1, <1>3 DEF Holds
  <1>7. issued \subseteq Key /\ Live \subseteq issued \ {Foreign}
    BY DEF LInv, RequestsTyped
  <1>8. /\ guests'[o] = {b} /\ \A x \in 1 .. MaxMade : x # o => guests'[x] = guests[x]
    <2>1. guests[o] \subseteq {b}
      BY <1>1, <1>3, <1>6 DEF PInv, HoldersAreGuests
    <2> QED BY <1>1, <1>4, <2>1 DEF LInv, LookupTypeOK
  <1>9. KeepsSessions /\ \A x \in Live : Obj(x)' = Obj(x) /\ Obj(x) \in 1 .. MaxMade
    BY <1>1, <1>4, ObjFacts DEF KeepsSessions, LInv
  <1> HIDE DEF new, o
  <1>10. req'[r] = new /\ \A q \in Request : q # r => req'[q] = req[q]
    BY <1>1, SetFacts
  <1>11. \A a \in Browser : \A x \in Key \ {Foreign} : Holds(a, x)' => Holds(a, x)
    BY <1>1, <1>2, NoNewHolders
  <1>12. KeysHaveOneHolder'
    BY <1>1, <1>7, <1>11 DEF PInv, KeysHaveOneHolder
  <1>13. GuestsAreAlone'
    BY <1>8 DEF PInv, GuestsAreAlone
  <1>14. NewOnesAreEmpty'
    BY <1>1, <1>4, <1>8 DEF PInv, NewOnesAreEmpty
  <1>15. HoldersAreGuests'
    <2>1. ASSUME NEW x \in Live, NEW a \in Browser, Holds(a, x)'
          PROVE  guests'[Obj(x)'] \subseteq {a}
      <3>1. Holds(a, x)
        BY <1>7, <1>11, <2>1
      <3>2. CASE x = k
        <4>1. a = b
          BY <1>1, <1>3, <1>6, <1>7, <3>1, <3>2 DEF PInv, KeysHaveOneHolder
        <4> QED BY <1>8, <1>9, <3>2, <4>1 DEF o
      <3>3. CASE x # k
        <4>1. guests'[Obj(x)'] = guests[Obj(x)]
          BY <1>5, <1>8, <1>9, <3>3
        <4> QED BY <3>1, <4>1 DEF PInv, HoldersAreGuests
      <3> QED BY <3>2, <3>3
    <2> QED BY <1>1, <2>1 DEF HoldersAreGuests
  <1>16. HandledAreGuests'
    <2>1. \A q \in Request : Handled(q) => req[q].obj \in 1 .. MaxMade
      BY <1>4 DEF Handled, LInv, LookupTypeOK
    <2>2. \A x \in 1 .. MaxMade : guests[x] \subseteq guests'[x]
      BY <1>1, <1>4 DEF LInv, LookupTypeOK
    <2> QED BY <1>2, <1>8, <1>10, <2>1, <2>2 DEF PInv, HandledAreGuests, Handled
  <1>17. TriedAreDead'
    BY <1>1, <1>2, <1>10 DEF PInv, TriedAreDead
  <1> QED BY <1>12, <1>13, <1>14, <1>15, <1>16, <1>17 DEF PInv

LEMMA MadePrivate ==
  ASSUME LInv, PInv, NEW r \in Request, NEW j \in Key, Made(r, j)
  PROVE  PInv'
  <1> DEFINE b == req[r].by
             o == made + 1
             new == [req[r] EXCEPT !.phase = "handle", !.obj = o, !.sets = j]
  <1>1. /\ req[r].phase = "search" /\ j \notin issued /\ Set(r, new) /\ Live' = Live \cup {j}
        /\ made' = o /\ made < MaxMade /\ KeepsSessions /\ Obj(j)' = o
        /\ guests' = [guests EXCEPT ![o] = @ \cup {b}] /\ issued' = issued \cup {j}
        /\ UNCHANGED jar
    BY DEF Made
  <1>2. /\ new.phase = "handle" /\ new.by = b /\ new.cookies = req[r].cookies
        /\ new.sets = j /\ new.obj = o
    BY <1>1 DEF LInv, RequestsTyped
  <1>3. b \in Browser
    BY <1>1 DEF LInv, LookupTypeOK
  <1>4. made \in 0 .. MaxMade
    BY DEF LInv, RequestsTyped
  <1>5. /\ o \in 1 .. MaxMade /\ o > made /\ \A x \in 1 .. made : x \in 1 .. MaxMade /\ x # o
        /\ \A x \in 1 .. MaxMade : x > o => x > made /\ x # o
    BY <1>1, <1>4, BoundsAssumption
  <1>6. /\ issued \subseteq Key /\ Live \subseteq issued \ {Foreign} /\ Foreign \in issued
        /\ \A q \in Request : \A i \in DOMAIN req[q].cookies : req[q].cookies[i] \in issued
    BY DEF LInv, RequestsTyped
  <1>7. \A x \in Live : Obj(x)' = Obj(x) /\ Obj(x) \in 1 .. made
    BY <1>1, ObjFacts DEF KeepsSessions, LInv
  <1> HIDE DEF new, o
  <1>8. req'[r] = new /\ \A q \in Request : q # r => req'[q] = req[q]
    BY <1>1, SetFacts
  <1>9. guests'[o] = {b} /\ \A x \in 1 .. MaxMade : x # o => guests'[x] = guests[x]
    <2>1. guests[o] = {}
      BY <1>5 DEF PInv, NewOnesAreEmpty
    <2> QED BY <1>1, <1>5, <2>1 DEF LInv, LookupTypeOK
  <1>10. \A a \in Browser : Holds(a, j)' => a = b
    <2>1. \A a \in Browser : jar[a] # j
      BY <1>1, NoKeyAssumption DEF LInv, LookupTypeOK
    <2>2. \A q \in Request : /\ req[q].sets # j
                            /\ \A i \in DOMAIN req[q].cookies : req[q].cookies[i] # j
      BY <1>1, <1>6, NoKeyAssumption DEF LInv, LookupTypeOK
    <2> QED BY <1>1, <1>2, <1>8, <2>1, <2>2 DEF Holds
  <1>11. ASSUME NEW a \in Browser, NEW x \in Key, x # j, Holds(a, x)'
         PROVE  Holds(a, x)
    BY <1>1, <1>2, <1>8, <1>11 DEF Holds
  <1>12. KeysHaveOneHolder'
    <2>1. ASSUME NEW x \in issued' \ {Foreign}, NEW a \in Browser, NEW c \in Browser,
                 Holds(a, x)', Holds(c, x)'
          PROVE  a = c
      <3>1. CASE x = j
        BY <1>10, <2>1, <3>1
      <3>2. CASE x # j
        <4>1. x \in issued \ {Foreign} /\ x \in Key
          BY <1>1, <1>6, <3>2
        <4> QED BY <1>11, <2>1, <3>2, <4>1 DEF PInv, KeysHaveOneHolder
      <3> QED BY <3>1, <3>2
    <2> QED BY <2>1 DEF KeysHaveOneHolder
  <1>13. GuestsAreAlone'
    BY <1>9 DEF PInv, GuestsAreAlone
  <1>14. NewOnesAreEmpty'
    <2>1. ASSUME NEW x \in 1 .. MaxMade, x > made' PROVE guests'[x] = {}
      <3>1. x > made /\ x # o
        BY <1>1, <1>5, <2>1
      <3> QED BY <1>9, <3>1 DEF PInv, NewOnesAreEmpty
    <2> QED BY <2>1 DEF NewOnesAreEmpty
  <1>15. HoldersAreGuests'
    <2>1. ASSUME NEW x \in Live', NEW a \in Browser, Holds(a, x)'
          PROVE  guests'[Obj(x)'] \subseteq {a}
      <3>1. CASE x = j
        BY <1>1, <1>9, <1>10, <2>1, <3>1
      <3>2. CASE x # j
        <4>1. x \in Live /\ Holds(a, x)
          BY <1>1, <1>6, <1>11, <2>1, <3>2
        <4>2. guests'[Obj(x)'] = guests[Obj(x)]
          BY <1>5, <1>7, <1>9, <4>1
        <4> QED BY <4>1, <4>2 DEF PInv, HoldersAreGuests
      <3> QED BY <3>1, <3>2
    <2> QED BY <2>1 DEF HoldersAreGuests
  <1>16. HandledAreGuests'
    <2>1. \A q \in Request : Handled(q) => req[q].obj \in 1 .. made
      BY DEF Handled, LInv, LookupTypeOK
    <2>2. \A x \in 1 .. made : guests'[x] = guests[x]
      BY <1>5, <1>9
    <2> QED BY <1>2, <1>8, <1>9, <2>1, <2>2 DEF PInv, HandledAreGuests, Handled
  <1>17. TriedAreDead'
    <2>1. ASSUME NEW q \in Request, q # r, req[q].phase = "search", NEW i \in 1 .. req[q].tried
          PROVE  req[q].cookies[i] \notin Live'
      <3>1. /\ req[q].tried \in Nat /\ req[q].tried <= Len(req[q].cookies)
            /\ req[q].cookies \in Seq(Key)
        BY <2>1 DEF LInv, RequestsTyped
      <3>2. i \in DOMAIN req[q].cookies
        BY <3>1
      <3>3. req[q].cookies[i] # j /\ req[q].cookies[i] \notin Live
        BY <1>1, <1>6, <2>1, <3>2 DEF PInv, TriedAreDead
      <3> QED BY <1>1, <3>3
    <2> QED BY <1>2, <1>8, <2>1 DEF TriedAreDead
  <1> QED BY <1>12, <1>13, <1>14, <1>15, <1>16, <1>17 DEF PInv

LEMMA PStep == LInv /\ PInv /\ [LookupNext]_lookupVars => PInv'
  <1> SUFFICES ASSUME LInv, PInv, [LookupNext]_lookupVars PROVE PInv'
    OBVIOUS
  <1>1. LookupStep
    BY StepFacts
  <1> QED BY <1>1, TickPrivate, SendPrivate, FoundPrivate, MadePrivate, MissedPrivate,
             HandlePrivate, EndPrivate DEF LookupStep

\* PInv holds in every reachable state.
THEOREM PrivateInvariance == LookupSpec => []PInv
  <1> QED BY InitPInv, PStep, LookupInvariance, PTL DEF LookupSpec

\* However many browsers there are, whatever cookies of ended sessions they keep, and
\* although a foreign cookie is the same for all: no session is given to two of them.
THEOREM SessionsAreNeverShared == LookupSpec => []NoSessionIsShared
  <1>1. LInv /\ PInv => NoSessionIsShared
    <2> SUFFICES ASSUME LInv, PInv, NEW o \in DOMAIN guests
                 PROVE  Cardinality(guests[o]) <= 1
      BY DEF NoSessionIsShared
    <2>1. \A a, b \in guests[o] : a = b
      BY DEF LInv, LookupTypeOK, PInv, GuestsAreAlone
    <2>2. ASSUME guests[o] = {} PROVE Cardinality(guests[o]) = 0
      BY <2>2, FS_EmptySet
    <2>3. ASSUME NEW b, guests[o] = {b} PROVE Cardinality(guests[o]) = 1
      BY <2>3, FS_Singleton
    <2>4. guests[o] = {} \/ \E b : guests[o] = {b}
      <3>1. ASSUME NEW b \in guests[o] PROVE guests[o] = {b}
        BY <2>1
      <3> QED BY <3>1
    <2>5. Cardinality(guests[o]) = 0 \/ Cardinality(guests[o]) = 1
      BY <2>2, <2>3, <2>4
    <2> QED BY <2>5
  <1> QED BY <1>1, LookupInvariance, PrivateInvariance, PTL

LEMMA CookiesAreDead ==
  ASSUME LInv, PInv, NEW r \in Request, NEW j \in Key, Made(r, j)
  PROVE  \A i \in DOMAIN req[r].cookies : req[r].cookies[i] \notin Live
  <1>1. req[r].cookies \in Seq(Key) /\ req[r].tried \in Nat
    BY DEF LInv, RequestsTyped
  <1>2. SUFFICES ASSUME NEW i \in DOMAIN req[r].cookies PROVE req[r].cookies[i] \notin Live
    OBVIOUS
  <1>3. CASE Listed(r)
    <2>1. i \in 1 .. req[r].tried
      BY <1>1, <1>3 DEF Made, Searched
    <2> QED BY <2>1 DEF Made, PInv, TriedAreDead
  <1>4. CASE ~Listed(r)
    <2> DEFINE n == Len(req[r].cookies)
    <2>1. n \in Nat /\ i \in 1 .. n
      BY <1>1
    <2>2. ~(n > 1)
      BY <1>4 DEF Listed
    <2> HIDE DEF n
    <2>3. n = 1 /\ i = 1
      BY <2>1, <2>2
    <2> QED BY <2>3 DEF n, Made, SessionId
  <1> QED BY <1>3, <1>4

\* Every search looks at all the cookies: a browser is given a new session only when none
\* of those it sent leads to one.
THEOREM SessionsAreAlwaysFound == LookupSpec => SessionsAreFound
  <1> DEFINE Fresh == answer' # answer /\ answer'.fresh
             LeadNowhere(r) == \A i \in DOMAIN req[r].cookies : req[r].cookies[i] \notin Live
             A == Fresh => \A r \in Request :
                             req[r].phase = "search" /\ req'[r].phase = "handle" => LeadNowhere(r)
  <1>1. LInv /\ PInv /\ [LookupNext]_lookupVars => [A]_lookupVars
    <2> SUFFICES ASSUME LInv, PInv, [LookupNext]_lookupVars, Fresh, NEW r \in Request,
                        req[r].phase = "search", req'[r].phase = "handle"
                 PROVE  LeadNowhere(r)
      OBVIOUS
    <2>1. LookupStep
      BY StepFacts, SMTT(30)
    <2>2. ASSUME NEW q \in Request, NEW b \in Browser,
                 Send(q, b) \/ Handle(q) \/ Deliver(q) \/ Lose(q)
          PROVE  FALSE
      BY <2>2 DEF Send, Handle, Deliver, Lose, vars
    <2>3. ASSUME NEW q \in Request, NEW k \in Key, Found(q, k) \/ Missed(q) PROVE FALSE
      BY <2>3 DEF Found, Missed
    <2>4. \E b \in Browser : TRUE
      BY DEF LInv, LookupTypeOK
    <2>5. Key # {}
      BY LookupAssumption
    <2>6. PICK q \in Request, j \in Key : Made(q, j)
      BY <2>1, <2>2, <2>3, <2>4, <2>5 DEF LookupStep
    <2>7. q = r
      <3>1. \A s \in Request : s # q => req'[s] = req[s]
        BY <2>6, SetFacts DEF Made
      <3> QED BY <3>1
    <2> QED BY <2>6, <2>7, CookiesAreDead
  <1> QED BY <1>1, LookupInvariance, PrivateInvariance, PTL DEF LookupSpec, SessionsAreFound

-----------------------------------------------------------------------------
(* Logins stick *)

\* The cookie the browser will have when the response has arrived.
NextCookie(r) == IF req[r].sets = NoKey THEN jar[req[r].by] ELSE req[r].sets

\* No other request of the browser is under way that its requests that are alone know of.
AloneIsAlone == \A r, s \in Request :
                  r # s /\ req[r].by = req[s].by /\ req[r].by \in Browser => ~req[r].alone

\* A request that is alone carries the cookie its browser has, and the session that the
\* handler has or had is the one its browser will have.
AloneFollowsCookie(r) == req[r].alone =>
  /\ req[r].phase = "search" =>
       \A i \in DOMAIN req[r].cookies : req[r].cookies[i] \in {Foreign, jar[req[r].by]}
  /\ (req[r].phase = "handle" \/ req[r].login) /\ NextCookie(r) \in Live =>
       Obj(NextCookie(r)) = req[r].obj
  /\ req[r].login => user[req[r].obj] = req[r].by

\* Of a browser that is logged in, every request carries the cookie, and no response
\* replaces it.
MemberKeepsCookie(r) == member[req[r].by] /\ jar[req[r].by] \in Live =>
  /\ req[r].phase = "search" => \E i \in DOMAIN req[r].cookies : req[r].cookies[i] = jar[req[r].by]
  /\ Handled(r) => req[r].sets = NoKey

Sticky(r) == req[r].by \in Browser => AloneFollowsCookie(r) /\ MemberKeepsCookie(r)

SInv == AloneIsAlone /\ LoginSticks /\ \A r \in Request : Sticky(r)

LEMMA InitSInv == LookupInit => SInv
  <1> SUFFICES ASSUME LookupInit PROVE SInv
    OBVIOUS
  <1>1. /\ \A r \in Request : req[r].by \notin Browser
        /\ \A b \in Browser : ~member[b]
    BY LookupAssumption DEF LookupInit, Unsent
  <1> QED BY <1>1 DEF SInv, AloneIsAlone, LoginSticks, Sticky

\* Keys that were issued come to lead nowhere, but never elsewhere.
OldKeysFade == \A k \in issued : k \in Live' => k \in Live /\ Obj(k)' = Obj(k)

LEMMA FadeFacts ==
  ASSUME LInv, KeepsSessions, Live' \subseteq Live \/ \E j \in Key \ issued : Live' = Live \cup {j}
  PROVE  OldKeysFade
  BY DEF KeepsSessions, OldKeysFade

\* What another request does leaves q as it was.
LEMMA StaysSticky ==
  ASSUME LInv, LInv', SInv, OldKeysFade, NEW q \in Request,
         req'[q].phase = req[q].phase, req'[q].by = req[q].by, req'[q].cookies = req[q].cookies,
         req'[q].obj = req[q].obj, req'[q].sets = req[q].sets, req'[q].login = req[q].login,
         req'[q].alone => req[q].alone,
         req[q].by \in Browser =>
           /\ req[q].alone => jar'[req[q].by] = jar[req[q].by]
           /\ member'[req[q].by] => member[req[q].by] /\ jar'[req[q].by] = jar[req[q].by]
           /\ req[q].alone /\ req[q].login => user'[req[q].obj] = user[req[q].obj]
  PROVE  Sticky(q)'
  <1> DEFINE b == req[q].by
  <1> SUFFICES ASSUME b \in Browser PROVE AloneFollowsCookie(q)' /\ MemberKeepsCookie(q)'
    BY DEF Sticky
  <1>1. AloneFollowsCookie(q) /\ MemberKeepsCookie(q)
    BY DEF SInv, Sticky
  <1>2. /\ jar[b] = NoKey \/ jar[b] \in issued
        /\ req[q].sets = NoKey \/ req[q].sets \in issued
    BY DEF LInv, LookupTypeOK
  <1>3. NoKey \notin Live'
    BY NoKeyAssumption DEF LInv, RequestsTyped
  <1>4. AloneFollowsCookie(q)'
    BY <1>1, <1>2, <1>3 DEF AloneFollowsCookie, NextCookie, OldKeysFade
  <1>5. MemberKeepsCookie(q)'
    BY <1>1, <1>2, <1>3 DEF MemberKeepsCookie, Handled, OldKeysFade
  <1> QED BY <1>4, <1>5

\* A step that changes no cookie, login or membership keeps the logins.
LEMMA LoginsStay ==
  ASSUME LInv, LInv', SInv, OldKeysFade, UNCHANGED <<jar, user>>,
         \A b \in Browser : member'[b] => member[b]
  PROVE  LoginSticks'
  <1> SUFFICES ASSUME NEW b \in Browser, member'[b], jar'[b] \in Live'
               PROVE  user'[Obj(jar[b])'] = b
    BY DEF LoginSticks, Obj
  <1>1. jar[b] \in issued
    BY NoKeyAssumption DEF LInv, LookupTypeOK, RequestsTyped
  <1>2. jar[b] \in Live /\ Obj(jar[b])' = Obj(jar[b])
    BY <1>1 DEF OldKeysFade
  <1>3. user[Obj(jar[b])] = b
    BY <1>2 DEF SInv, LoginSticks, Obj
  <1> QED BY <1>2, <1>3

\* Replacing what one request carries creates no company.
LEMMA SetAlone ==
  ASSUME LInv, SInv, NEW r \in Request, NEW new, Set(r, new),
         new.by \in Browser => new.by = req[r].by /\ new.alone = req[r].alone
  PROVE  AloneIsAlone'
  <1>1. req'[r] = new /\ \A q \in Request : q # r => req'[q] = req[q]
    BY SetFacts
  <1> QED BY <1>1 DEF SInv, AloneIsAlone

LEMMA TickSticky ==
  ASSUME LInv, LInv', SInv, Live' \subseteq Live, KeepsSessions, UNCHANGED web
  PROVE  SInv'
  <1>1. OldKeysFade
    BY FadeFacts
  <1>2. UNCHANGED <<jar, req, user, member>>
    BY DEF web
  <1>3. \A q \in Request : Sticky(q)'
    BY <1>1, <1>2, StaysSticky
  <1>4. LoginSticks'
    BY <1>1, <1>2, LoginsStay
  <1>5. AloneIsAlone'
    BY <1>2 DEF SInv, AloneIsAlone
  <1> QED BY <1>3, <1>4, <1>5 DEF SInv

LEMMA SendSticky ==
  ASSUME LInv, LInv', SInv, NEW r \in Request, NEW b \in Browser, Send(r, b)
  PROVE  SInv'
  <1>1. PICK cs \in Cookies(b), lonely \in BOOLEAN : Sent(r, b, cs, lonely)
    BY SendFacts
  <1>2. UNCHANGED <<vars, jar, user, member>>
    BY <1>1 DEF Sent
  <1>3. OldKeysFade
    BY <1>2 DEF vars, maps, Live, OldKeysFade, Obj
  <1>4. /\ req'[r].phase = "search" /\ req'[r].by = b /\ req'[r].cookies = cs
        /\ req'[r].sets = NoKey /\ ~req'[r].login /\ req'[r].alone = lonely
    BY <1>1 DEF Sent, Unsent
  <1>5. ASSUME NEW q \in Request, q # r
        PROVE  /\ req'[q].phase = req[q].phase /\ req'[q].by = req[q].by
               /\ req'[q].cookies = req[q].cookies /\ req'[q].obj = req[q].obj
               /\ req'[q].sets = req[q].sets /\ req'[q].login = req[q].login
               /\ req'[q].alone => req[q].alone /\ req[q].by # b
    <2>1. PICK a \in BOOLEAN : /\ req'[q] = [req[q] EXCEPT !.alone = a]
                               /\ a => req[q].alone /\ req[q].by # b
      BY <1>1, <1>5 DEF Sent
    <2> QED BY <2>1 DEF LInv, RequestsTyped
  <1>6. AloneIsAlone'
    <2>1. lonely => \A q \in Request : req[q].by # b
      BY <1>1 DEF Sent
    <2> QED BY <1>4, <1>5, <2>1 DEF SInv, AloneIsAlone
  <1>7. LoginSticks'
    BY <1>2, <1>3, LoginsStay
  <1>8. Sticky(r)'
    <2>1. /\ \A i \in DOMAIN cs : cs[i] \in {Foreign, jar[b]}
          /\ jar[b] # NoKey => \E i \in DOMAIN cs : cs[i] = jar[b]
      BY CookieFacts
    <2>2. NoKey \notin Live'
      BY NoKeyAssumption DEF LInv, RequestsTyped
    <2>3. AloneFollowsCookie(r)'
      BY <1>2, <1>4, <2>1 DEF AloneFollowsCookie
    <2>4. MemberKeepsCookie(r)'
      BY <1>2, <1>4, <2>1, <2>2 DEF MemberKeepsCookie, Handled
    <2> QED BY <2>3, <2>4 DEF Sticky
  <1>9. \A q \in Request : q # r => Sticky(q)'
    BY <1>2, <1>3, <1>5, StaysSticky
  <1> QED BY <1>6, <1>7, <1>8, <1>9 DEF SInv

LEMMA FoundSticky ==
  ASSUME LInv, LInv', SInv, NEW r \in Request, NEW k \in Key, Found(r, k)
  PROVE  SInv'
  <1> DEFINE new == [req[r] EXCEPT !.phase = "handle", !.obj = Obj(k)]
             b == req[r].by
  <1>1. /\ req[r].phase = "search" /\ k \in Live /\ Set(r, new) /\ Live' = Live /\ KeepsSessions
        /\ UNCHANGED <<jar, user, issued, member>>
    BY DEF Found
  <1>2. /\ new.phase = "handle" /\ new.by = b /\ new.alone = req[r].alone /\ new.sets = NoKey
        /\ new.obj = Obj(k) /\ ~new.login
    BY <1>1 DEF LInv, RequestsTyped
  <1> HIDE DEF new
  <1>3. req'[r] = new /\ \A q \in Request : q # r => req'[q] = req[q]
    BY <1>1, SetFacts
  <1>4. OldKeysFade
    BY <1>1, FadeFacts
  <1>5. AloneIsAlone'
    BY <1>1, <1>2, SetAlone
  <1>6. LoginSticks'
    BY <1>1, <1>4, LoginsStay
  <1>7. \A q \in Request : q # r => Sticky(q)'
    BY <1>1, <1>3, <1>4, StaysSticky
  <1>8. Sticky(r)'
    <2> SUFFICES ASSUME b \in Browser PROVE AloneFollowsCookie(r)' /\ MemberKeepsCookie(r)'
      BY <1>2, <1>3 DEF Sticky
    <2>1. AloneFollowsCookie(r)'
      <3>1. ASSUME req[r].alone PROVE k = jar[b]
        <4>1. k # Foreign
          BY <1>1 DEF LInv, RequestsTyped
        <4> QED BY <1>1, <3>1, <4>1 DEF Found, SInv, Sticky, AloneFollowsCookie
      <3>2. Obj(k)' = Obj(k)
        BY <1>1 DEF KeepsSessions
      <3> QED BY <1>1, <1>2, <1>3, <3>1, <3>2 DEF AloneFollowsCookie, NextCookie
    <2>2. MemberKeepsCookie(r)'
      BY <1>2, <1>3 DEF MemberKeepsCookie
    <2> QED BY <2>1, <2>2
  <1> QED BY <1>5, <1>6, <1>7, <1>8 DEF SInv

LEMMA MissedSticky ==
  ASSUME LInv, LInv', SInv, NEW r \in Request, Missed(r)
  PROVE  SInv'
  <1> DEFINE new == [req[r] EXCEPT !.tried = @ + 1]
  <1>1. /\ Set(r, new) /\ Live' = Live /\ KeepsSessions /\ UNCHANGED <<jar, user, issued, member>>
    BY DEF Missed
  <1>2. /\ new.phase = req[r].phase /\ new.by = req[r].by /\ new.alone = req[r].alone
        /\ new.cookies = req[r].cookies /\ new.sets = req[r].sets /\ new.obj = req[r].obj
        /\ new.login = req[r].login
    BY <1>1 DEF LInv, RequestsTyped
  <1> HIDE DEF new
  <1>3. req'[r] = new /\ \A q \in Request : q # r => req'[q] = req[q]
    BY <1>1, SetFacts
  <1>4. OldKeysFade
    BY <1>1, FadeFacts
  <1>5. AloneIsAlone'
    BY <1>1, <1>2, SetAlone
  <1>6. LoginSticks'
    BY <1>1, <1>4, LoginsStay
  <1>7. \A q \in Request : Sticky(q)'
    BY <1>1, <1>2, <1>3, <1>4, StaysSticky
  <1> QED BY <1>5, <1>6, <1>7 DEF SInv

LEMMA MadeSticky ==
  ASSUME LInv, LInv', PInv, SInv, NEW r \in Request, NEW j \in Key, Made(r, j)
  PROVE  SInv'
  <1> DEFINE new == [req[r] EXCEPT !.phase = "handle", !.obj = made + 1, !.sets = j]
             b == req[r].by
  <1>1. /\ req[r].phase = "search" /\ Set(r, new) /\ j \notin issued /\ Live' = Live \cup {j}
        /\ KeepsSessions /\ Obj(j)' = made + 1 /\ UNCHANGED <<jar, user, member>>
    BY DEF Made
  <1>2. /\ new.phase = "handle" /\ new.by = b /\ new.alone = req[r].alone /\ new.sets = j
        /\ new.obj = made + 1 /\ ~new.login
    BY <1>1 DEF LInv, RequestsTyped
  <1> HIDE DEF new
  <1>3. req'[r] = new /\ \A q \in Request : q # r => req'[q] = req[q]
    BY <1>1, SetFacts
  <1>4. OldKeysFade
    BY <1>1, FadeFacts
  <1>5. AloneIsAlone'
    BY <1>1, <1>2, SetAlone
  <1>6. LoginSticks'
    BY <1>1, <1>4, LoginsStay
  <1>7. \A q \in Request : q # r => Sticky(q)'
    BY <1>1, <1>3, <1>4, StaysSticky
  <1>8. Sticky(r)'
    <2> SUFFICES ASSUME b \in Browser PROVE AloneFollowsCookie(r)' /\ MemberKeepsCookie(r)'
      BY <1>2, <1>3 DEF Sticky
    <2>1. AloneFollowsCookie(r)'
      <3>1. j # NoKey
        BY NoKeyAssumption
      <3> QED BY <1>1, <1>2, <1>3, <3>1 DEF AloneFollowsCookie, NextCookie
    <2>2. MemberKeepsCookie(r)'
      <3>1. jar[b] \notin Live \/ ~member[b]
        BY <1>1, CookiesAreDead DEF SInv, Sticky, MemberKeepsCookie
      <3>2. jar[b] # j
        BY <1>1, NoKeyAssumption DEF LInv, LookupTypeOK
      <3> QED BY <1>1, <1>2, <1>3, <3>1, <3>2 DEF MemberKeepsCookie
    <2> QED BY <2>1, <2>2
  <1> QED BY <1>5, <1>6, <1>7, <1>8 DEF SInv

LEMMA HandleSticky ==
  ASSUME LInv, LInv', PInv, SInv, NEW r \in Request, Handle(r)
  PROVE  SInv'
  <1> DEFINE b == req[r].by
             o == req[r].obj
  <1>1. PICK new :
          /\ Set(r, new)
          /\ new \in [phase : {"answered"}, by : {b}, cookies : {req[r].cookies},
                      tried : {req[r].tried}, obj : {o},
                      sets : {req[r].sets, NoKey}, login : BOOLEAN, alone : {req[r].alone}]
          /\ new.login => user' = [user EXCEPT ![o] = b] /\ new.sets = req[r].sets
    BY HandleFacts
  <1>2. /\ new.phase = "answered" /\ new.by = b /\ new.sets \in {req[r].sets, NoKey}
        /\ new.obj = o /\ new.alone = req[r].alone
    BY <1>1
  <1>3. /\ req[r].phase = "handle" /\ b \in Browser /\ o \in 1 .. MaxMade
        /\ UNCHANGED <<vars, jar, issued>>
        /\ \/ user' = [user EXCEPT ![o] = b] /\ member' = member
           \/ user' = user /\ member' = member
           \/ user' = [user EXCEPT ![o] = NoBrowser] /\ member' = [member EXCEPT ![b] = FALSE]
    BY HandleFacts
  <1>4. /\ \A x \in 1 .. MaxMade : x # o => user'[x] = user[x]
        /\ user'[o] \in {b, user[o]} \/ ~member'[b]
        /\ \A a \in Browser : member'[a] => member[a]
    BY <1>3 DEF LInv, LookupTypeOK
  <1>5. Live' = Live /\ \A x : Obj(x)' = Obj(x)
    BY <1>3 DEF vars, maps, Live, Obj
  <1>6. OldKeysFade
    BY <1>5 DEF OldKeysFade
  <1>7. req'[r] = new /\ \A q \in Request : q # r => req'[q] = req[q]
    BY <1>1, SetFacts
  <1>8. \A q \in Request : Handled(q) => req[q].obj \in 1 .. MaxMade
    BY HandleFacts DEF Handled, LInv, LookupTypeOK
  <1>9. b \in guests[o]
    BY <1>3 DEF PInv, HandledAreGuests, Handled
  <1>10. AloneIsAlone'
    BY <1>1, <1>2, SetAlone
  <1>11. LoginSticks'
    <2> SUFFICES ASSUME NEW a \in Browser, member'[a], jar[a] \in Live
                 PROVE  user'[Obj(jar[a])] = a
      BY <1>3, <1>5 DEF LoginSticks, Obj
    <2>1. user[Obj(jar[a])] = a
      BY <1>4 DEF SInv, LoginSticks, Obj
    <2>2. Obj(jar[a]) \in 1 .. MaxMade
      BY ObjFacts, HandleFacts DEF LInv
    <2>3. CASE Obj(jar[a]) = o
      <3>1. guests[o] \subseteq {a}
        BY <2>3 DEF PInv, HoldersAreGuests, Holds
      <3>2. a = b
        BY <1>9, <3>1
      <3> QED BY <1>4, <2>1, <2>3, <3>2
    <2>4. CASE Obj(jar[a]) # o
      BY <1>4, <2>1, <2>2, <2>4
    <2> QED BY <2>3, <2>4
  <1>12. ASSUME NEW q \in Request, q # r PROVE Sticky(q)'
    <2>1. ASSUME req[q].by \in Browser, req[q].alone, req[q].login
          PROVE  user'[req[q].obj] = user[req[q].obj]
      <3>1. Handled(q)
        BY <2>1 DEF LInv, RequestsTyped, Handled
      <3>2. CASE req[q].obj = o
        <4>1. req[q].by \in guests[o]
          BY <3>1, <3>2 DEF PInv, HandledAreGuests
        <4>2. req[q].by = b
          BY <1>3, <1>9, <4>1 DEF PInv, GuestsAreAlone
        <4> QED BY <1>12, <2>1, <4>2 DEF SInv, AloneIsAlone
      <3> QED BY <1>4, <1>8, <3>1, <3>2
    <2> QED BY <1>3, <1>4, <1>6, <1>7, <1>12, <2>1, StaysSticky
  <1>13. Sticky(r)'
    <2>1. AloneFollowsCookie(r)'
      <3> SUFFICES ASSUME req[r].alone, new.login
                   PROVE  /\ NextCookie(r)' \in Live => Obj(NextCookie(r)') = o
                          /\ user'[o] = b
        BY <1>2, <1>5, <1>7 DEF AloneFollowsCookie
      <3>1. NextCookie(r)' = NextCookie(r)
        BY <1>1, <1>2, <1>3, <1>7 DEF NextCookie
      <3>2. NextCookie(r) \in Live => Obj(NextCookie(r)) = o
        BY <1>3 DEF SInv, Sticky, AloneFollowsCookie
      <3>3. user'[o] = b
        BY <1>1, <1>3 DEF LInv, LookupTypeOK
      <3> QED BY <3>1, <3>2, <3>3
    <2>2. MemberKeepsCookie(r)'
      BY <1>2, <1>3, <1>4, <1>5, <1>7 DEF SInv, Sticky, MemberKeepsCookie, Handled
    <2> QED BY <2>1, <2>2 DEF Sticky
  <1> QED BY <1>10, <1>11, <1>12, <1>13 DEF SInv

LEMMA DeliverSticky ==
  ASSUME LInv, LInv', SInv, NEW r \in Request, Deliver(r)
  PROVE  SInv'
  <1> DEFINE b == req[r].by
  <1>1. /\ req[r].phase = "answered" /\ Set(r, Done) /\ UNCHANGED <<vars, user, issued>>
        /\ jar' = IF req[r].sets = NoKey THEN jar ELSE [jar EXCEPT ![b] = req[r].sets]
        /\ member' = [member EXCEPT ![b] = \/ req[r].login /\ req[r].alone
                                           \/ @ /\ (req[r].sets = NoKey \/ jar[b] \in Live)]
    BY DEF Deliver
  <1>2. b \in Browser
    BY <1>1 DEF LInv, LookupTypeOK
  <1>3. /\ \A a \in Browser : a # b => jar'[a] = jar[a] /\ member'[a] = member[a]
        /\ jar'[b] = NextCookie(r)
        /\ member'[b] => \/ req[r].login /\ req[r].alone
                         \/ member[b] /\ (req[r].sets = NoKey \/ jar[b] \in Live)
    BY <1>1, <1>2 DEF NextCookie, LInv, LookupTypeOK
  <1>4. Sticky(r)
    BY DEF SInv
  <1>5. ASSUME member'[b] PROVE \/ req[r].login /\ req[r].alone
                                \/ member[b] /\ jar'[b] = jar[b]
    BY <1>1, <1>2, <1>3, <1>4, <1>5 DEF Sticky, MemberKeepsCookie, Handled, NextCookie
  <1>6. Live' = Live /\ \A x : Obj(x)' = Obj(x)
    BY <1>1 DEF vars, maps, Live, Obj
  <1>7. OldKeysFade
    BY <1>6 DEF OldKeysFade
  <1>8. Done.by \notin Browser
    BY DoneTyped, LookupAssumption
  <1>9. req'[r] = Done /\ \A q \in Request : q # r => req'[q] = req[q]
    BY <1>1, SetFacts
  <1>10. AloneIsAlone'
    BY <1>1, <1>8, SetAlone
  <1>11. LoginSticks'
    <2> SUFFICES ASSUME NEW a \in Browser, member'[a], jar'[a] \in Live
                 PROVE  user[Obj(jar'[a])] = a
      BY <1>1, <1>6 DEF LoginSticks, Obj, vars, maps
    <2>1. ASSUME member[a], jar'[a] = jar[a] PROVE user[Obj(jar'[a])] = a
      BY <2>1 DEF SInv, LoginSticks, Obj
    <2>2. ASSUME a = b, req[r].login, req[r].alone PROVE user[Obj(jar'[a])] = a
      BY <1>2, <1>3, <1>4, <2>2 DEF Sticky, AloneFollowsCookie
    <2> QED BY <1>3, <1>5, <2>1, <2>2
  <1>12. ASSUME NEW q \in Request, q # r PROVE Sticky(q)'
    <2>1. ASSUME req[q].by = b PROVE ~req[q].alone /\ ~req[r].alone
      BY <1>2, <1>12, <2>1 DEF SInv, AloneIsAlone
    <2>2. ASSUME req[q].by \in Browser
          PROVE  /\ req[q].alone => jar'[req[q].by] = jar[req[q].by]
                 /\ member'[req[q].by] => member[req[q].by] /\ jar'[req[q].by] = jar[req[q].by]
      BY <1>3, <1>5, <2>1, <2>2
    <2> QED BY <1>1, <1>7, <1>9, <1>12, <2>2, StaysSticky
  <1>13. Sticky(r)'
    BY <1>8, <1>9 DEF Sticky
  <1> QED BY <1>10, <1>11, <1>12, <1>13 DEF SInv

LEMMA LoseSticky ==
  ASSUME LInv, LInv', SInv, NEW r \in Request, Lose(r)
  PROVE  SInv'
  <1>1. Set(r, Done) /\ UNCHANGED <<vars, jar, user, issued, member>>
    BY DEF Lose
  <1>2. OldKeysFade
    BY <1>1 DEF vars, maps, Live, OldKeysFade, Obj
  <1>3. Done.by \notin Browser
    BY DoneTyped, LookupAssumption
  <1>4. req'[r] = Done /\ \A q \in Request : q # r => req'[q] = req[q]
    BY <1>1, SetFacts
  <1>5. AloneIsAlone'
    BY <1>1, <1>3, SetAlone
  <1>6. LoginSticks'
    BY <1>1, <1>2, LoginsStay
  <1>7. \A q \in Request : q # r => Sticky(q)'
    BY <1>1, <1>2, <1>4, StaysSticky
  <1>8. Sticky(r)'
    BY <1>3, <1>4 DEF Sticky
  <1> QED BY <1>5, <1>6, <1>7, <1>8 DEF SInv

LEMMA SStep == LInv /\ PInv /\ SInv /\ [LookupNext]_lookupVars => SInv'
  <1> SUFFICES ASSUME LInv, PInv, SInv, [LookupNext]_lookupVars PROVE SInv'
    OBVIOUS
  <1>1. LookupStep /\ LInv'
    BY StepFacts, LStep
  <1> QED BY <1>1, TickSticky, SendSticky, FoundSticky, MadeSticky, MissedSticky,
             HandleSticky, DeliverSticky, LoseSticky DEF LookupStep

\* A browser that was told that it is logged in, while no other request of it was under
\* way, finds its user in the session that its cookie leads to, as long as that lives, for
\* any number of requests under way later, delivered in any order or lost.
THEOREM LoginsAlwaysStick == LookupSpec => []LoginSticks
  <1>1. SInv => LoginSticks
    BY DEF SInv
  <1> QED BY <1>1, InitSInv, SStep, LookupInvariance, PrivateInvariance, PTL DEF LookupSpec
=============================================================================
