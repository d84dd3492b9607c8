--------------------------- MODULE ConnectionPool ---------------------------
(***************************************************************************)
(* The database connection pool of bserv (bserv/database.cpp and           *)
(* bserv/include/bserv/database.hpp), at the granularity of its two locks. *)
(*                                                                         *)
(* A queue of idle connections is guarded by the mutex queue_lock_.  A     *)
(* second mutex, counter_lock_, stands in for a counting semaphore: it is  *)
(* locked by get_or_block() and stays locked, owned by nobody who is still *)
(* running, while the queue is empty.  It is then unlocked by whichever    *)
(* thread returns the first connection, so it is modelled as a flag and    *)
(* not as a lock with an owner.                                            *)
(***************************************************************************)
EXTENDS Integers, Sequences

CONSTANTS Request,   \* the requests in flight, each on its own coroutine
          NumConn,   \* server_config's number of database connections
          Nobody     \* neither a request nor a connection

ASSUME NumConnAssumption == NumConn \in Nat \ {0}
ASSUME NobodyAssumption == Nobody \notin Request /\ Nobody \notin Int

Connection == 1 .. NumConn

VARIABLES queue,          \* queue_: the idle connections, oldest first
          queueLock,      \* queue_lock_: the request that owns it, or Nobody
          counterLocked,  \* counter_lock_: locked or not
          conn,           \* the connection each request owns, or Nobody
          pc              \* the statement each request runs next

vars == <<queue, queueLock, counterLocked, conn, pc>>

\* The statements of get_or_block() and of ~db_connection(), in order.  "out" is
\* outside both with no connection, "busy" the handler running with one.
Get == {"counter", "enter", "pop", "signal", "leave"}
Put == {"return", "emplace", "notify", "exit"}
Label == {"out", "busy"} \cup Get \cup Put

TypeOK == /\ queue \in Seq(Connection)
          /\ queueLock \in Request \cup {Nobody}
          /\ counterLocked \in BOOLEAN
          /\ conn \in [Request -> Connection \cup {Nobody}]
          /\ pc \in [Request -> Label]

Goto(r, from, to) == /\ pc[r] = from
                     /\ pc' = [pc EXCEPT ![r] = to]

TakeQueueLock(r) == queueLock = Nobody /\ queueLock' = r

\* The constructor opens NumConn connections and queues them.
Init == /\ queue = [i \in 1 .. NumConn |-> i]
        /\ queueLock = Nobody
        /\ counterLocked = FALSE
        /\ conn = [r \in Request |-> Nobody]
        /\ pc = [r \in Request |-> "out"]

-----------------------------------------------------------------------------
(* Faulty variants of the steps below, each a slip the code could have made. *)

\* The connection is read with front() and never popped.
PopKeepsFront(r) == /\ Goto(r, "pop", "signal")
                    /\ conn' = [conn EXCEPT ![r] = Head(queue)]
                    /\ UNCHANGED <<queue, queueLock, counterLocked>>

\* counter_lock_ is opened whether or not a connection is left.
SignalAlways(r) == /\ Goto(r, "signal", "leave")
                   /\ counterLocked' = FALSE
                   /\ UNCHANGED <<queue, queueLock, conn>>

\* The destructor moves its connection away before it puts it back.
EmplaceMovedFrom(r) == /\ Goto(r, "emplace", "notify")
                       /\ conn' = [conn EXCEPT ![r] = Nobody]
                       /\ queue' = Append(queue, conn'[r])
                       /\ UNCHANGED <<queueLock, counterLocked>>

\* Every returned connection opens counter_lock_, not only the first.
NotifyAlways(r) == /\ Goto(r, "notify", "exit")
                   /\ counterLocked' = FALSE
                   /\ UNCHANGED <<queue, queueLock, conn>>

-----------------------------------------------------------------------------
(* get_or_block() *)

\* The router needs a connection for a handler of this request.
Enter(r) == /\ Goto(r, "out", "counter")
            /\ UNCHANGED <<queue, queueLock, counterLocked, conn>>

LockCounter(r) == /\ Goto(r, "counter", "enter")
                  /\ ~counterLocked
                  /\ counterLocked' = TRUE
                  /\ UNCHANGED <<queue, queueLock, conn>>

LockQueueToGet(r) == /\ Goto(r, "enter", "pop")
                     /\ TakeQueueLock(r)
                     /\ UNCHANGED <<queue, counterLocked, conn>>

\* front() and pop() have no guard in the code: on an empty queue they are
\* undefined, and NeverPopsEmpty says that they are never reached on one.
Pop(r) == /\ Goto(r, "pop", "signal")
          /\ conn' = [conn EXCEPT ![r] = Head(queue)]
          /\ queue' = Tail(queue)
          /\ UNCHANGED <<queueLock, counterLocked>>

Signal(r) == /\ Goto(r, "signal", "leave")
             /\ counterLocked' = (counterLocked /\ queue = <<>>)
             /\ UNCHANGED <<queue, queueLock, conn>>

\* The guard of queue_lock_ goes out of scope as the function returns.
Leave(r) == /\ Goto(r, "leave", "busy")
            /\ queueLock' = Nobody
            /\ UNCHANGED <<queue, counterLocked, conn>>

-----------------------------------------------------------------------------
(* ~db_connection() *)

\* The last shared_ptr to the db_connection is gone: the handler returned or threw.
Finish(r) == /\ Goto(r, "busy", "return")
             /\ UNCHANGED <<queue, queueLock, counterLocked, conn>>

LockQueueToPut(r) == /\ Goto(r, "return", "emplace")
                     /\ TakeQueueLock(r)
                     /\ UNCHANGED <<queue, counterLocked, conn>>

Emplace(r) == /\ Goto(r, "emplace", "notify")
              /\ queue' = Append(queue, conn[r])
              /\ conn' = [conn EXCEPT ![r] = Nobody]
              /\ UNCHANGED <<queueLock, counterLocked>>

Notify(r) == /\ Goto(r, "notify", "exit")
             /\ counterLocked' = (counterLocked /\ Len(queue) # 1)
             /\ UNCHANGED <<queue, queueLock, conn>>

Exit(r) == /\ Goto(r, "exit", "out")
           /\ queueLock' = Nobody
           /\ UNCHANGED <<queue, counterLocked, conn>>

-----------------------------------------------------------------------------
\* The steps a thread takes on its own, without waiting for a lock.
Local(r) == Pop(r) \/ Signal(r) \/ Leave(r) \/ Emplace(r) \/ Notify(r) \/ Exit(r)

LockQueue(r) == LockQueueToGet(r) \/ LockQueueToPut(r)

Next == \E r \in Request :
          Enter(r) \/ LockCounter(r) \/ LockQueue(r) \/ Finish(r) \/ Local(r)

Spec == Init /\ [][Next]_vars

\* A scheduled thread runs on, and a free mutex that threads wait for is given to
\* one of them.  std::mutex does not say to which, so there is no fairness for a
\* single waiter; nor does the pool make a handler finish, or a request arrive.
Fairness == /\ \A r \in Request : WF_vars(Local(r))
            /\ WF_vars(\E r \in Request : LockQueue(r))
            /\ WF_vars(\E r \in Request : LockCounter(r))

FairSpec == Spec /\ Fairness

-----------------------------------------------------------------------------
\* The requests that locked counter_lock_ and have not yet passed line 22.
CounterOwner(r) == pc[r] \in {"enter", "pop", "signal"}

InQueue == {queue[i] : i \in 1 .. Len(queue)}

\* A connection is never in two places: no two requests own the same one, an owned
\* one is not idle in the queue, the queue holds none twice, and none is ever lost.
\* Two statements on one connection from two threads would break libpqxx.
ConnectionsPartitioned ==
  /\ \A i, j \in 1 .. Len(queue) : i # j => queue[i] # queue[j]
  /\ \A r \in Request : conn[r] # Nobody => conn[r] \notin InQueue
  /\ \A r, s \in Request : r # s /\ conn[r] # Nobody => conn[r] # conn[s]
  /\ \A c \in Connection : c \in InQueue \/ \E r \in Request : conn[r] = c

\* front() and pop() are only ever reached on a queue that holds a connection, although
\* nothing in get_or_block() tests for it (database.cpp:17-18).
NeverPopsEmpty == \A r \in Request : pc[r] = "pop" => queue # <<>>

\* counter_lock_ tells the truth: when it is open there is a connection to take and no
\* request past it, and when it is shut for longer than one request's passage, then
\* the queue is empty or the thread that refilled it is about to open it.  The unlocks
\* at lines 22 and 33 find it locked: unlocking an open std::mutex is undefined.
CounterMatchesQueue ==
  /\ ~counterLocked => queue # <<>> /\ \A r \in Request : ~CounterOwner(r)
  /\ counterLocked => \/ \E r \in Request : CounterOwner(r)
                      \/ queue = <<>>
                      \/ \E r \in Request : pc[r] = "notify" /\ Len(queue) = 1
  /\ \A r \in Request : pc[r] = "notify" /\ Len(queue) = 1
                         => counterLocked /\ \A s \in Request : ~CounterOwner(s)

\* The pool keeps the promise of BoundedPool: a connection changes hands at pop() and at
\* emplace(), and an available connection does not wait beside a blocked request.
Pool == INSTANCE BoundedPool
          WITH NoConnection <- Nobody,
               available <- InQueue,
               waiting <- {r \in Request : pc[r] \in {"counter", "enter", "pop"}},
               holds <- conn

ImplementsPool == Pool!FairSpec
=============================================================================
