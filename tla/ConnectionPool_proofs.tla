----------------------- MODULE ConnectionPool_proofs -----------------------
(***************************************************************************)
(* Proofs about ConnectionPool, for every number of connections and every  *)
(* set of requests.                                                        *)
(***************************************************************************)
EXTENDS ConnectionPool, TLAPS

\* The statements that run inside queue_lock_.
InsideQueueLock == {"pop", "signal", "leave", "emplace", "notify", "exit"}

\* The statements of a request that owns a connection.
Owning == {"signal", "leave", "busy", "return", "emplace"}

\* Both locks are held by the requests whose next statement says so, a connection is
\* owned exactly between pop() and emplace(), and only one request at a time is
\* between counter_lock_.lock() and line 22.
LockInv ==
  /\ \A r \in Request : pc[r] \in InsideQueueLock <=> queueLock = r
  /\ \A r \in Request : conn[r] # Nobody <=> pc[r] \in Owning
  /\ \A r, s \in Request : CounterOwner(r) /\ CounterOwner(s) => r = s
  /\ \A r \in Request : CounterOwner(r) => counterLocked
  /\ \A r \in Request : pc[r] \in {"enter", "pop"} => queue # <<>>
  /\ \A r \in Request : pc[r] = "notify" => queue # <<>>

\* The inductive invariant: none of its parts is inductive alone.
IInv == TypeOK /\ LockInv /\ ConnectionsPartitioned /\ CounterMatchesQueue

-----------------------------------------------------------------------------
\* What taking the first connection and adding one at the end do to the set of queued connections and to its order.
LEMMA TailFacts ==
  ASSUME NEW S, NEW q \in Seq(S), q # <<>>
  PROVE  /\ Head(q) \in S /\ Head(q) = q[1]
         /\ Tail(q) \in Seq(S) /\ Len(Tail(q)) = Len(q) - 1
         /\ \A i \in 1 .. Len(Tail(q)) : Tail(q)[i] = q[i + 1]
         /\ Len(q) \in Nat \ {0}
  OBVIOUS

LEMMA AppendFacts ==
  ASSUME NEW S, NEW q \in Seq(S), NEW e \in S
  PROVE  /\ Append(q, e) \in Seq(S) /\ Len(Append(q, e)) = Len(q) + 1
         /\ \A i \in 1 .. Len(q) : Append(q, e)[i] = q[i]
         /\ Append(q, e)[Len(q) + 1] = e
         /\ Append(q, e) # <<>> /\ Len(q) \in Nat
  OBVIOUS

Elements(q) == {q[i] : i \in 1 .. Len(q)}

LEMMA TailElements ==
  ASSUME NEW S, NEW q \in Seq(S), q # <<>>,
         \A i, j \in 1 .. Len(q) : i # j => q[i] # q[j]
  PROVE  Head(q) \in Elements(q) /\ Elements(Tail(q)) = Elements(q) \ {Head(q)}
  <1>1. /\ Head(q) = q[1] /\ Len(q) \in Nat \ {0} /\ Len(Tail(q)) = Len(q) - 1
        /\ \A i \in 1 .. Len(Tail(q)) : Tail(q)[i] = q[i + 1]
    BY TailFacts
  <1>2. \A i \in 1 .. Len(Tail(q)) : i + 1 \in 1 .. Len(q) /\ i + 1 # 1 /\ 1 \in 1 .. Len(q)
    BY <1>1
  <1>3. \A j \in 1 .. Len(q) : j # 1 => j - 1 \in 1 .. Len(Tail(q)) /\ Tail(q)[j - 1] = q[j]
    BY <1>1
  <1>4. Head(q) \in Elements(q)
    BY <1>1 DEF Elements
  <1>5. \A x \in Elements(Tail(q)) : x \in Elements(q) /\ x # Head(q)
    BY <1>1, <1>2 DEF Elements
  <1>6. \A x \in Elements(q) : x # Head(q) => x \in Elements(Tail(q))
    BY <1>1, <1>3 DEF Elements
  <1> QED BY <1>4, <1>5, <1>6

LEMMA AppendElements ==
  ASSUME NEW S, NEW q \in Seq(S), NEW e \in S
  PROVE  Elements(Append(q, e)) = Elements(q) \cup {e}
  <1>1. 1 .. Len(Append(q, e)) = (1 .. Len(q)) \cup {Len(q) + 1}
    BY AppendFacts
  <1> QED BY <1>1, AppendFacts DEF Elements

LEMMA EmptyFacts ==
  ASSUME NEW S, NEW q \in Seq(S)
  PROVE  /\ q = <<>> <=> Len(q) = 0
         /\ Len(q) \in Nat
  OBVIOUS

-----------------------------------------------------------------------------
\* The constructor establishes the invariant: the counter is open and NumConn is positive.
LEMMA InitIInv == Init => IInv
  <1> SUFFICES ASSUME Init PROVE IInv
    OBVIOUS
  <1>1. TypeOK
    <2>1. queue \in [1 .. NumConn -> Connection] /\ NumConn \in Nat
      BY NumConnAssumption DEF Init, Connection
    <2>2. queue \in Seq(Connection)
      BY <2>1
    <2> QED BY <2>2 DEF Init, TypeOK, Label
  <1>2. LockInv
    BY NobodyAssumption DEF Init, LockInv, InsideQueueLock, Owning, CounterOwner
  <1>3. ConnectionsPartitioned
    BY NumConnAssumption DEF Init, ConnectionsPartitioned, InQueue, Connection
  <1>4. CounterMatchesQueue
    BY NumConnAssumption DEF Init, CounterMatchesQueue, CounterOwner
  <1> QED BY <1>1, <1>2, <1>3, <1>4 DEF IInv

\* Every statement keeps values in their types.
LEMMA TypeStep == TypeOK /\ LockInv /\ [Next]_vars => TypeOK'
  <1> SUFFICES ASSUME TypeOK, LockInv, [Next]_vars PROVE TypeOK'
    OBVIOUS
  <1> USE NobodyAssumption DEF TypeOK, Goto, TakeQueueLock, Label, Get, Put
  <1>1. ASSUME NEW r \in Request, Enter(r) PROVE TypeOK'
    BY <1>1 DEF Enter
  <1>2. ASSUME NEW r \in Request, LockCounter(r) PROVE TypeOK'
    BY <1>2 DEF LockCounter
  <1>3. ASSUME NEW r \in Request, LockQueueToGet(r) PROVE TypeOK'
    BY <1>3 DEF LockQueueToGet
  <1>4. ASSUME NEW r \in Request, Pop(r) PROVE TypeOK'
    <2>1. queue # <<>>
      BY <1>4 DEF Pop, LockInv
    <2>2. Head(queue) \in Connection /\ Tail(queue) \in Seq(Connection)
      BY <2>1, TailFacts
    <2> QED BY <1>4, <2>2 DEF Pop
  <1>5. ASSUME NEW r \in Request, Signal(r) PROVE TypeOK'
    BY <1>5 DEF Signal
  <1>6. ASSUME NEW r \in Request, Leave(r) PROVE TypeOK'
    BY <1>6 DEF Leave
  <1>7. ASSUME NEW r \in Request, Finish(r) PROVE TypeOK'
    BY <1>7 DEF Finish
  <1>8. ASSUME NEW r \in Request, LockQueueToPut(r) PROVE TypeOK'
    BY <1>8 DEF LockQueueToPut
  <1>9. ASSUME NEW r \in Request, Emplace(r) PROVE TypeOK'
    <2>1. conn[r] \in Connection
      BY <1>9 DEF Emplace, LockInv, Owning
    <2>2. Append(queue, conn[r]) \in Seq(Connection)
      BY <2>1, AppendFacts
    <2> QED BY <1>9, <2>2 DEF Emplace
  <1>10. ASSUME NEW r \in Request, Notify(r) PROVE TypeOK'
    BY <1>10 DEF Notify
  <1>11. ASSUME NEW r \in Request, Exit(r) PROVE TypeOK'
    BY <1>11 DEF Exit
  <1>12. CASE UNCHANGED vars
    BY <1>12 DEF vars
  <1> QED
    BY <1>1, <1>2, <1>3, <1>4, <1>5, <1>6, <1>7, <1>8, <1>9, <1>10, <1>11, <1>12
    DEF Next, LockQueue, Local

\* No statement breaks the ownership of the two locks.  The step that needs all of
\* IInv is Pop: another request between the locks could otherwise have its
\* connection taken from under it, and only the uniqueness of CounterOwner rules it out.
LEMMA LockStep == IInv /\ [Next]_vars => LockInv'
  <1> SUFFICES ASSUME IInv, [Next]_vars PROVE LockInv'
    OBVIOUS
  <1> USE NobodyAssumption DEF IInv, TypeOK, LockInv, Goto, TakeQueueLock, CounterOwner,
                               InsideQueueLock, Owning, Label, Get, Put
  <1>1. ASSUME NEW r \in Request, Enter(r) PROVE LockInv'
    BY <1>1 DEF Enter
  <1>2. ASSUME NEW r \in Request, LockCounter(r) PROVE LockInv'
    BY <1>2 DEF LockCounter, CounterMatchesQueue
  <1>3. ASSUME NEW r \in Request, LockQueueToGet(r) PROVE LockInv'
    BY <1>3 DEF LockQueueToGet
  <1>4. ASSUME NEW r \in Request, Pop(r) PROVE LockInv'
    <2>1. Head(queue) \in Connection
      BY <1>4, TailFacts DEF Pop
    <2>2. Head(queue) # Nobody
      BY <2>1 DEF Connection
    <2> QED BY <1>4, <2>2 DEF Pop
  <1>5. ASSUME NEW r \in Request, Signal(r) PROVE LockInv'
    BY <1>5 DEF Signal
  <1>6. ASSUME NEW r \in Request, Leave(r) PROVE LockInv'
    BY <1>6 DEF Leave
  <1>7. ASSUME NEW r \in Request, Finish(r) PROVE LockInv'
    BY <1>7 DEF Finish
  <1>8. ASSUME NEW r \in Request, LockQueueToPut(r) PROVE LockInv'
    BY <1>8 DEF LockQueueToPut
  <1>9. ASSUME NEW r \in Request, Emplace(r) PROVE LockInv'
    <2>1. Append(queue, conn[r]) # <<>>
      BY AppendFacts
    <2> QED BY <1>9, <2>1 DEF Emplace
  <1>10. ASSUME NEW r \in Request, Notify(r) PROVE LockInv'
    BY <1>10 DEF Notify, CounterMatchesQueue
  <1>11. ASSUME NEW r \in Request, Exit(r) PROVE LockInv'
    BY <1>11 DEF Exit
  <1>12. CASE UNCHANGED vars
    BY <1>12 DEF vars
  <1> QED
    BY <1>1, <1>2, <1>3, <1>4, <1>5, <1>6, <1>7, <1>8, <1>9, <1>10, <1>11, <1>12
    DEF Next, LockQueue, Local

\* A connection only moves at pop() and at emplace(), from one place to the other.
LEMMA PartitionStep == IInv /\ [Next]_vars => ConnectionsPartitioned'
  <1> SUFFICES ASSUME IInv, [Next]_vars PROVE ConnectionsPartitioned'
    OBVIOUS
  <1> USE NobodyAssumption DEF IInv
  <1>1. ASSUME NEW r \in Request, Pop(r) PROVE ConnectionsPartitioned'
    <2>1. queue # <<>> /\ conn[r] = Nobody
      BY <1>1 DEF Pop, Goto, LockInv, Owning
    <2>2. /\ Len(queue) \in Nat \ {0} /\ Len(queue') = Len(queue) - 1
          /\ \A i \in 1 .. Len(queue') : queue'[i] = queue[i + 1]
          /\ Head(queue) = queue[1] /\ Head(queue) \in Connection
      BY <1>1, <2>1, TailFacts DEF Pop, TypeOK
    <2>3. conn' = [conn EXCEPT ![r] = queue[1]] /\ conn \in [Request -> Connection \cup {Nobody}]
      BY <1>1, <2>2 DEF Pop, TypeOK
    <2>4. InQueue' = InQueue \ {Head(queue)}
      <3>1. Head(queue) \in Elements(queue) /\ Elements(Tail(queue)) = Elements(queue) \ {Head(queue)}
        BY <2>1, TailElements DEF TypeOK, ConnectionsPartitioned
      <3>2. queue' = Tail(queue)
        BY <1>1 DEF Pop
      <3> QED BY <3>1, <3>2 DEF InQueue, Elements
    <2>5. queue[1] \in InQueue
      BY <2>2 DEF InQueue
    <2>6. (\A i, j \in 1 .. Len(queue) : i # j => queue[i] # queue[j])'
      BY <2>2 DEF ConnectionsPartitioned
    <2>7. (\A s \in Request : conn[s] # Nobody => conn[s] \notin InQueue)'
      BY <2>3, <2>4 DEF ConnectionsPartitioned
    <2>8. (\A s, t \in Request : s # t /\ conn[s] # Nobody => conn[s] # conn[t])'
      BY <2>3, <2>5 DEF ConnectionsPartitioned
    <2>9. (\A c \in Connection : c \in InQueue \/ \E s \in Request : conn[s] = c)'
      BY <2>1, <2>3, <2>4 DEF ConnectionsPartitioned, Connection
    <2> QED BY <2>6, <2>7, <2>8, <2>9 DEF ConnectionsPartitioned
  <1>2. ASSUME NEW r \in Request, Emplace(r) PROVE ConnectionsPartitioned'
    <2>1. conn \in [Request -> Connection \cup {Nobody}]
          /\ conn[r] # Nobody /\ conn' = [conn EXCEPT ![r] = Nobody]
      BY <1>2 DEF Emplace, Goto, LockInv, Owning, TypeOK
    <2>2. /\ Len(queue) \in Nat /\ Len(queue') = Len(queue) + 1
          /\ \A i \in 1 .. Len(queue) : queue'[i] = queue[i]
          /\ queue'[Len(queue) + 1] = conn[r]
      BY <1>2, <2>1, AppendFacts DEF Emplace, TypeOK
    <2>3. InQueue' = InQueue \cup {conn[r]}
      BY <1>2, <2>1, AppendElements DEF Emplace, TypeOK, InQueue, Elements
    <2>4. \A i \in 1 .. Len(queue) : queue[i] # conn[r]
      BY <2>1 DEF ConnectionsPartitioned, InQueue
    <2>5. (\A i, j \in 1 .. Len(queue) : i # j => queue[i] # queue[j])'
      BY <2>2, <2>4 DEF ConnectionsPartitioned
    <2>6. (\A s \in Request : conn[s] # Nobody => conn[s] \notin InQueue)'
      BY <2>1, <2>3 DEF ConnectionsPartitioned
    <2>7. (\A s, t \in Request : s # t /\ conn[s] # Nobody => conn[s] # conn[t])'
      BY <2>1 DEF ConnectionsPartitioned
    <2>8. (\A c \in Connection : c \in InQueue \/ \E s \in Request : conn[s] = c)'
      BY <2>1, <2>3 DEF ConnectionsPartitioned
    <2> QED BY <2>5, <2>6, <2>7, <2>8 DEF ConnectionsPartitioned
  <1>3. CASE UNCHANGED <<queue, conn>>
    BY <1>3 DEF ConnectionsPartitioned, InQueue
  <1> QED
    BY <1>1, <1>2, <1>3
    DEF Next, LockQueue, Local, vars, Enter, LockCounter, LockQueueToGet, Signal, Leave,
        Finish, LockQueueToPut, Notify, Exit

\* counter_lock_ keeps telling the truth.  LockCounter, Signal, Emplace and Notify are the
\* steps that change the flag, its owner, or whether the queue is empty.
LEMMA CounterStep == IInv /\ [Next]_vars => CounterMatchesQueue'
  <1> SUFFICES ASSUME IInv, [Next]_vars PROVE CounterMatchesQueue'
    OBVIOUS
  <1> USE NobodyAssumption DEF IInv, TypeOK, LockInv, Goto, TakeQueueLock, CounterOwner,
                               InsideQueueLock, CounterMatchesQueue
  <1>1. ASSUME NEW r \in Request, Enter(r) PROVE CounterMatchesQueue'
    BY <1>1 DEF Enter
  <1>2. ASSUME NEW r \in Request, LockCounter(r) PROVE CounterMatchesQueue'
    BY <1>2 DEF LockCounter
  <1>3. ASSUME NEW r \in Request, LockQueueToGet(r) PROVE CounterMatchesQueue'
    BY <1>3 DEF LockQueueToGet
  <1>4. ASSUME NEW r \in Request, Pop(r) PROVE CounterMatchesQueue'
    BY <1>4 DEF Pop
  <1>5. ASSUME NEW r \in Request, Signal(r) PROVE CounterMatchesQueue'
    BY <1>5 DEF Signal
  <1>6. ASSUME NEW r \in Request, Leave(r) PROVE CounterMatchesQueue'
    BY <1>6 DEF Leave
  <1>7. ASSUME NEW r \in Request, Finish(r) PROVE CounterMatchesQueue'
    BY <1>7 DEF Finish
  <1>8. ASSUME NEW r \in Request, LockQueueToPut(r) PROVE CounterMatchesQueue'
    BY <1>8 DEF LockQueueToPut
  <1>9. ASSUME NEW r \in Request, Emplace(r) PROVE CounterMatchesQueue'
    <2>1. conn[r] \in Connection
      BY <1>9 DEF Emplace, Owning
    <2>2. Len(queue') = Len(queue) + 1 /\ queue' # <<>> /\ Len(queue) \in Nat
      BY <1>9, <2>1, AppendFacts DEF Emplace
    <2>3. Len(queue') = 1 => queue = <<>>
      <3>1. queue = <<>> <=> Len(queue) = 0
        BY EmptyFacts DEF TypeOK
      <3>2. Len(queue) + 1 = 1 => Len(queue) = 0
        BY <2>2
      <3> QED BY <2>2, <3>1, <3>2
    <2>4. \A s \in Request : pc[s] # "notify" /\ pc[s] # "pop" /\ pc[s] # "signal"
      BY <1>9 DEF Emplace
    <2> QED BY <1>9, <2>2, <2>3, <2>4 DEF Emplace
  <1>10. ASSUME NEW r \in Request, Notify(r) PROVE CounterMatchesQueue'
    BY <1>10 DEF Notify
  <1>11. ASSUME NEW r \in Request, Exit(r) PROVE CounterMatchesQueue'
    BY <1>11 DEF Exit
  <1>12. CASE UNCHANGED vars
    BY <1>12 DEF vars
  <1> QED
    BY <1>1, <1>2, <1>3, <1>4, <1>5, <1>6, <1>7, <1>8, <1>9, <1>10, <1>11, <1>12
    DEF Next, LockQueue, Local

-----------------------------------------------------------------------------
\* IInv holds in every reachable state.
THEOREM Invariance == Spec => []IInv
  <1>1. Init => IInv
    BY InitIInv
  <1>2. IInv /\ [Next]_vars => IInv'
    BY TypeStep, LockStep, PartitionStep, CounterStep DEF IInv
  <1> QED BY <1>1, <1>2, PTL DEF Spec

\* The variables of the pool keep their types.
THEOREM TypeCorrect == Spec => []TypeOK
  <1>1. IInv => TypeOK
    BY DEF IInv
  <1> QED BY <1>1, Invariance, PTL

\* No connection is ever shared, duplicated or lost by get_or_block() and ~db_connection(),
\* whatever the number of connections and of concurrent requests.
THEOREM ConnectionsStayPartitioned == Spec => []ConnectionsPartitioned
  <1>1. IInv => ConnectionsPartitioned
    BY DEF IInv
  <1> QED BY <1>1, Invariance, PTL

\* get_or_block() never calls front() or pop() on an empty queue.
THEOREM PopIsDefined == Spec => []NeverPopsEmpty
  <1>1. IInv => NeverPopsEmpty
    BY DEF IInv, LockInv, NeverPopsEmpty
  <1> QED BY <1>1, Invariance, PTL

\* The mutex that mimics a semaphore agrees with the queue it counts.
THEOREM CounterTellsTheTruth == Spec => []CounterMatchesQueue
  <1>1. IInv => CounterMatchesQueue
    BY DEF IInv
  <1> QED BY <1>1, Invariance, PTL

-----------------------------------------------------------------------------
(* ConnectionPool implements BoundedPool *)

\* The full pool the constructor builds is the full pool of BoundedPool.
LEMMA InitRefines == Init => Pool!Init
  <1> SUFFICES ASSUME Init PROVE Pool!Init
    OBVIOUS
  <1>1. InQueue = Connection
    BY NumConnAssumption DEF Init, InQueue, Connection
  <1> QED BY <1>1 DEF Init, Pool!Init

\* Enter is a Call, Pop a Grant, Emplace a PutBack, and nothing else shows.
LEMMA StepRefines == IInv /\ IInv' /\ [Next]_vars => [Pool!Next]_(Pool!vars)
  <1> SUFFICES ASSUME IInv, IInv', [Next]_vars PROVE [Pool!Next]_(Pool!vars)
    OBVIOUS
  <1> DEFINE waiting == {r \in Request : pc[r] \in {"counter", "enter", "pop"}}
  <1> USE NobodyAssumption DEF IInv, TypeOK, LockInv, Goto, Pool!vars
  <1>1. ASSUME NEW r \in Request, Enter(r) PROVE Pool!Call(r)
    BY <1>1 DEF Enter, Pool!Call, Owning, InQueue
  <1>2. ASSUME NEW r \in Request, Pop(r) PROVE Pool!Grant(r)
    <2>1. queue # <<>> /\ r \in waiting /\ waiting' = waiting \ {r}
      BY <1>2 DEF Pop
    <2>2. Head(queue) \in InQueue /\ InQueue' = InQueue \ {Head(queue)}
      <3>1. Head(queue) \in Elements(queue) /\ Elements(Tail(queue)) = Elements(queue) \ {Head(queue)}
        BY <2>1, TailElements DEF TypeOK, ConnectionsPartitioned
      <3>2. queue' = Tail(queue)
        BY <1>2 DEF Pop
      <3> QED BY <3>1, <3>2 DEF InQueue, Elements
    <2>3. conn' = [conn EXCEPT ![r] = Head(queue)]
      BY <1>2 DEF Pop
    <2> QED BY <2>1, <2>2, <2>3 DEF Pool!Grant
  <1>3. ASSUME NEW r \in Request, Emplace(r) PROVE Pool!PutBack(r)
    <2>1. conn[r] \in Connection /\ conn' = [conn EXCEPT ![r] = Nobody]
      BY <1>3 DEF Emplace, Owning
    <2>2. InQueue' = InQueue \cup {conn[r]}
      BY <1>3, <2>1, AppendElements DEF Emplace, InQueue, Elements
    <2>3. waiting' = waiting
      BY <1>3 DEF Emplace
    <2>4. conn[r] # Nobody
      BY <2>1 DEF Connection
    <2> QED BY <2>1, <2>2, <2>3, <2>4 DEF Pool!PutBack
  <1>4. ASSUME NEW r \in Request,
               LockCounter(r) \/ LockQueue(r) \/ Finish(r) \/ Signal(r) \/ Leave(r)
                 \/ Notify(r) \/ Exit(r)
        PROVE  UNCHANGED Pool!vars
    BY <1>4 DEF LockCounter, LockQueue, LockQueueToGet, LockQueueToPut, Finish, Signal,
                Leave, Notify, Exit, InQueue
  <1>5. CASE UNCHANGED vars
    BY <1>5 DEF vars, InQueue
  <1> QED BY <1>1, <1>2, <1>3, <1>4, <1>5 DEF Next, Local, Pool!Next

\* The pool implements what database.hpp:103-105 promises of it.  The fairness half of
\* that promise, that blocking ends, is checked by TLC alone.
THEOREM Refinement == Spec => Pool!Spec
  <1>1. Init => Pool!Init
    BY InitRefines
  <1>2. IInv /\ IInv' /\ [Next]_vars => [Pool!Next]_(Pool!vars)
    BY StepRefines
  <1> QED BY <1>1, <1>2, Invariance, PTL DEF Spec, Pool!Spec
=============================================================================
