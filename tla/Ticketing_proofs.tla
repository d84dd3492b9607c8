-------------------------- MODULE Ticketing_proofs --------------------------
(***************************************************************************)
(* Proofs about Ticketing.  Every transaction has written, at each of its  *)
(* statements, exactly the rows that its position and its locals say, with *)
(* the values they have relative to the committed rows; and a row that one *)
(* transaction has written no other has.  So a commit moves the database   *)
(* by one whole purchase, refund or deposit.                               *)
(***************************************************************************)
EXTENDS Ticketing, Sums_proofs, FiniteSetTheorems, TLAPS

(* The inductive invariant *)

\* The tables and the write sets are functions on the tables.
Shape ==
  /\ db = [t \in Table |-> db[t]]
  /\ writes = [w \in Worker |-> [t \in Table |-> writes[w][t]]]

Rows ==
  /\ db.auth_user \in [User -> Nat]
  /\ db.seats \in [Seat -> User \cup {NoUser}]
  /\ db.movies \in [Movie -> [box_office : Int, num_participants : Int]]
  /\ db.screenings \in [Screening -> Price]
  /\ db.tickets = [t \in DOMAIN db.tickets |-> db.tickets[t]]
  /\ DOMAIN db.tickets \subseteq 1 .. next - 1
  /\ \A t \in DOMAIN db.tickets : db.tickets[t] \in TicketRow

Locals ==
  /\ pc \in [Worker -> Label]
  /\ tx \in [Worker -> Request \cup {NoRequest}]
  /\ next \in Nat \ {0}
  /\ deposited \in [User -> Int]
  /\ paid \in [Ticket -> Nat]

\* The guard of BuyBegin keeps ids enough for the purchases under way.
Room == next + Cardinality(Inserting) <= MaxTickets + 1

\* A row is written by one transaction at a time.
Locks == \A v, w \in Worker, t \in Table :
           v # w => DOMAIN writes[v][t] \cap DOMAIN writes[w][t] = {}

\* The transaction of w has written the user's row, the ticket's, the seat's, the movie's.
AtEnd(w) == pc[w] = "commit" /\ tx[w].kind # "fund"
Charged(w) == pc[w] \in {"insert", "occupy", "earn", "mark", "vacate", "repay", "commit"}
Ticketed(w) == pc[w] \in {"occupy", "earn", "vacate", "repay"} \/ AtEnd(w)
Seated(w) == pc[w] \in {"earn", "repay"} \/ AtEnd(w)

\* The locals of w are those of a handler at its statement.
BuyerSane(w) == /\ tx[w].seat \in Seat
                /\ pc[w] # "price" => tx[w].amount \in Price
                /\ Ticketed(w) => tx[w].ticket \in (1 .. next - 1) \ DOMAIN db.tickets

RefunderSane(w) == LET t == tx[w].ticket IN
                   pc[w] # "reload" => /\ t \in DOMAIN db.tickets
                                       /\ db.tickets[t].user = tx[w].user
                                       /\ db.tickets[t].seat = tx[w].seat
                                       /\ db.tickets[t].price = tx[w].amount

Sane(w) ==
  /\ tx[w] = NoRequest <=> pc[w] = "idle"
  /\ pc[w] \in Buying => tx[w].kind = "buy"
  /\ pc[w] \in Refunding => tx[w].kind = "refund"
  /\ pc[w] = "fund" => tx[w].kind = "fund"
  /\ tx[w].kind = "buy" => BuyerSane(w)
  /\ tx[w].kind = "refund" => RefunderSane(w)
  /\ tx[w].kind = "fund" => tx[w].amount \in Fund

\* A table of one row.
Only(k, row) == [j \in {k} |-> row]

\* What the transaction of w makes of the rows it writes.
Change(w) == IF tx[w].kind = "buy" THEN -tx[w].amount ELSE tx[w].amount
Heads(w) == IF tx[w].kind = "buy" THEN 1 ELSE -1
Film(w) == Shows[tx[w].seat]

UserRow(w) == db.auth_user[tx[w].user] + Change(w)
MovieRow(w) == [box_office |-> db.movies[Film(w)].box_office - Change(w),
                num_participants |-> db.movies[Film(w)].num_participants + Heads(w)]
TheTicket(w) == IF tx[w].kind = "buy"
                THEN [user |-> tx[w].user, seat |-> tx[w].seat,
                      price |-> tx[w].amount, refunded |-> FALSE]
                ELSE [db.tickets[tx[w].ticket] EXCEPT !.refunded = TRUE]
Occupant(w) == IF tx[w].kind = "buy" THEN tx[w].user ELSE NoUser

Staged(w) ==
  /\ writes[w]["auth_user"] = IF Charged(w) THEN Only(tx[w].user, UserRow(w)) ELSE NoRows
  /\ writes[w]["tickets"] = IF Ticketed(w) THEN Only(tx[w].ticket, TheTicket(w)) ELSE NoRows
  /\ writes[w]["seats"] = IF Seated(w) THEN Only(tx[w].seat, Occupant(w)) ELSE NoRows
  /\ writes[w]["movies"] = IF AtEnd(w) THEN Only(Film(w), MovieRow(w)) ELSE NoRows
  /\ writes[w]["screenings"] = NoRows
  /\ Charged(w) => UserRow(w) >= 0

IInv == /\ Shape /\ Rows /\ Locals /\ Room /\ Locks
        /\ \A w \in Worker : Sane(w) /\ Staged(w)

-----------------------------------------------------------------------------
(* The database *)

\* The first write of a table in a transaction stages one row and takes its lock.
LEMMA WriteStages ==
  ASSUME Shape, NEW w \in Worker, NEW t \in Table, NEW k, NEW row,
         writes[w][t] = NoRows, Write(w, t, k, row)
  PROVE  /\ Shape'
         /\ writes'[w][t] = Only(k, row)
         /\ \A s \in Table \ {t} : writes'[w][s] = writes[w][s]
         /\ \A v \in Worker \ {w} : writes'[v] = writes[v]
         /\ UNCHANGED db
         /\ Unlocked(w, t, k)
  <1>1. Over([j \in {k} |-> row], writes[w][t]) = Only(k, row)
    BY DEF Over, NoRows, Only
  <1> QED BY <1>1 DEF Shape, Write

\* A commit publishes what the transaction has staged, and nothing else.
LEMMA CommitPublishes ==
  ASSUME Shape, NEW w \in Worker, Commit(w)
  PROVE  /\ Shape'
         /\ \A t \in Table : db'[t] = View(w, t)
         /\ \A t \in Table : writes'[w][t] = NoRows
         /\ \A v \in Worker \ {w} : writes'[v] = writes[v]
  BY DEF Shape, Commit, NoWrites

\* A rollback forgets it.
LEMMA RollbackForgets ==
  ASSUME Shape, NEW w \in Worker, Rollback(w)
  PROVE  /\ Shape'
         /\ \A t \in Table : writes'[w][t] = NoRows
         /\ \A v \in Worker \ {w} : writes'[v] = writes[v]
         /\ UNCHANGED db
  BY DEF Shape, Rollback, NoWrites

\* Exclusive locks stay exclusive under each of these.
LEMMA WriteKeepsLocks ==
  ASSUME Shape, Locks, NEW w \in Worker, NEW t \in Table, NEW k, NEW row,
         writes[w][t] = NoRows, Write(w, t, k, row)
  PROVE  Locks'
  <1>1. /\ writes'[w][t] = Only(k, row)
        /\ \A s \in Table \ {t} : writes'[w][s] = writes[w][s]
        /\ \A v \in Worker \ {w} : writes'[v] = writes[v]
        /\ Unlocked(w, t, k)
    BY WriteStages
  <1>2. DOMAIN writes'[w][t] = {k}
    BY <1>1 DEF Only
  <1> QED BY <1>1, <1>2 DEF Locks, Unlocked

LEMMA ClearingKeepsLocks ==
  ASSUME Locks, NEW w \in Worker,
         \A t \in Table : writes'[w][t] = NoRows,
         \A v \in Worker \ {w} : writes'[v] = writes[v]
  PROVE  Locks'
  BY DEF Locks, NoRows

-----------------------------------------------------------------------------
(* The other workers *)

\* At work a handler has the locals of a request.
LEMMA AtWork ==
  ASSUME IInv, NEW w \in Worker, pc[w] # "idle"
  PROVE  tx[w] \in Request
  BY DEF IInv, Sane, Locals

\* A worker is not concerned by a step of another that leaves its rows alone.
LEMMA Bystander ==
  ASSUME IInv, NEW v \in Worker,
         pc'[v] = pc[v], tx'[v] = tx[v], writes'[v] = writes[v],
         next' \in Nat, next' >= next,
         \A u \in DOMAIN writes[v]["auth_user"] : db'.auth_user[u] = db.auth_user[u],
         \A m \in DOMAIN writes[v]["movies"] : db'.movies[m] = db.movies[m],
         \A t \in DOMAIN writes[v]["tickets"] :
           /\ t \in DOMAIN db'.tickets <=> t \in DOMAIN db.tickets
           /\ t \in DOMAIN db.tickets => db'.tickets[t] = db.tickets[t],
         \A t \in DOMAIN db.tickets : /\ t \in DOMAIN db'.tickets
                                      /\ db'.tickets[t].user = db.tickets[t].user
                                      /\ db'.tickets[t].seat = db.tickets[t].seat
                                      /\ db'.tickets[t].price = db.tickets[t].price
  PROVE  Sane(v)' /\ Staged(v)'
  <1>1. Sane(v) /\ Staged(v)
    BY DEF IInv
  <1>2. /\ Charged(v)' = Charged(v)
        /\ Ticketed(v)' = Ticketed(v)
        /\ Seated(v)' = Seated(v)
        /\ AtEnd(v)' = AtEnd(v)
    BY DEF Charged, Ticketed, Seated, AtEnd
  <1>3. Ticketed(v) => tx[v].ticket \in DOMAIN writes[v]["tickets"]
    BY <1>1 DEF Staged, Only
  <1>4. Sane(v)'
    <2>1. tx[v].kind = "buy" => BuyerSane(v)'
      <3> SUFFICES ASSUME tx[v].kind = "buy" PROVE BuyerSane(v)'
        OBVIOUS
      <3>1. BuyerSane(v)
        BY <1>1 DEF Sane
      <3>2. next \in Nat
        BY DEF IInv, Locals
      <3> QED BY <1>2, <1>3, <3>1, <3>2 DEF BuyerSane
    <2>2. tx[v].kind = "refund" => RefunderSane(v)'
      BY <1>1 DEF Sane, RefunderSane
    <2> QED BY <1>1, <2>1, <2>2 DEF Sane
  <1>5. Charged(v) => UserRow(v)' = UserRow(v)
    BY <1>1 DEF Staged, UserRow, Change, Only
  <1>6. Ticketed(v) => TheTicket(v)' = TheTicket(v)
    <2>1. ASSUME Ticketed(v), tx[v].kind # "buy"
          PROVE  tx[v].ticket \in DOMAIN db.tickets
      <3>1. pc[v] # "idle" /\ pc[v] # "reload" /\ tx[v].kind # "fund"
        BY <1>1, <2>1 DEF Ticketed, AtEnd, Sane, Buying, Refunding
      <3>2. tx[v].kind = "refund"
        BY <2>1, <3>1, AtWork DEF Request
      <3> QED BY <1>1, <3>1, <3>2 DEF Sane, RefunderSane
    <2> QED BY <1>3, <2>1 DEF TheTicket
  <1>7. AtEnd(v) => MovieRow(v)' = MovieRow(v) /\ Film(v)' = Film(v)
    <2>1. Film(v)' = Film(v) /\ Change(v)' = Change(v) /\ Heads(v)' = Heads(v)
      BY DEF Film, Change, Heads
    <2>2. AtEnd(v) => Film(v) \in DOMAIN writes[v]["movies"]
      BY <1>1 DEF Staged, Only
    <2> QED BY <2>1, <2>2 DEF MovieRow
  <1>8. Occupant(v)' = Occupant(v)
    BY DEF Occupant
  <1>9. Staged(v)'
    BY <1>1, <1>2, <1>5, <1>6, <1>7, <1>8 DEF Staged
  <1> QED BY <1>4, <1>9

\* So with any step that commits nothing.
LEMMA Others ==
  ASSUME IInv, NEW w \in Worker, NEW v \in Worker \ {w},
         UNCHANGED db, writes'[v] = writes[v], pc'[v] = pc[v], tx'[v] = tx[v],
         next' \in Nat, next' >= next
  PROVE  Sane(v)' /\ Staged(v)'
  BY Bystander

\* Ids stay enough as long as no purchase begins.
LEMMA RoomKept ==
  ASSUME Room, next \in Nat, next' = next, Inserting' \subseteq Inserting
  PROVE  Room'
  <1>1. IsFiniteSet(Inserting)
    BY WorkerAssumption, FS_Subset DEF Inserting
  <1>2. /\ Cardinality(Inserting) \in Nat
        /\ Cardinality(Inserting') \in Nat
        /\ Cardinality(Inserting') <= Cardinality(Inserting)
    BY <1>1, FS_Subset, FS_CardinalityType
  <1> QED BY <1>2, BoundsAssumption DEF Room

-----------------------------------------------------------------------------
(* The worker itself *)

\* The statements at which a transaction has written nothing.
Fresh == {"idle", "fund", "price", "debit", "credit", "reload"}

LEMMA NothingStaged ==
  ASSUME IInv, NEW w \in Worker, pc[w] \in Fresh
  PROVE  \A t \in Table : writes[w][t] = NoRows
  <1>1. Staged(w)
    BY DEF IInv
  <1> QED BY <1>1, TableAssumption DEF Staged, Fresh, Charged, Ticketed, Seated, AtEnd

LEMMA StagesNothing ==
  ASSUME NEW w \in Worker, pc'[w] \in Fresh, \A t \in Table : writes'[w][t] = NoRows
  PROVE  Staged(w)'
  BY TableAssumption DEF Staged, Fresh, Charged, Ticketed, Seated, AtEnd

\* A step of w keeps the invariant when what it does to w fits.
LEMMA Assemble ==
  ASSUME IInv, NEW w \in Worker, UNCHANGED db, next' \in Nat, next' >= next,
         \A v \in Worker \ {w} : writes'[v] = writes[v] /\ pc'[v] = pc[v] /\ tx'[v] = tx[v],
         Shape', Locks', Locals', Room', Sane(w)', Staged(w)'
  PROVE  IInv'
  <1>1. Rows'
    BY DEF IInv, Rows, Locals
  <1>2. ASSUME NEW v \in Worker PROVE Sane(v)' /\ Staged(v)'
    BY Others
  <1> QED BY <1>1, <1>2 DEF IInv

\* A step that touches neither the database nor a write set.
LEMMA AssembleQuiet ==
  ASSUME IInv, NEW w \in Worker, UNCHANGED <<db, writes, local>>,
         NEW l \in Fresh, NEW q \in Request \cup {NoRequest}, pc[w] \in Fresh,
         pc' = [pc EXCEPT ![w] = l], tx' = [tx EXCEPT ![w] = q],
         Room', Sane(w)'
  PROVE  IInv'
  <1>1. Shape' /\ Locks'
    BY DEF IInv, Shape, Locks
  <1>2. Locals' /\ next' \in Nat /\ next' >= next
    BY DEF IInv, Locals, local, Label, Fresh, Buying, Refunding
  <1>3. Staged(w)'
    <2>1. \A t \in Table : writes'[w][t] = NoRows
      BY NothingStaged
    <2>2. pc'[w] = l
      BY DEF IInv, Locals
    <2> QED BY <2>1, <2>2, StagesNothing
  <1>4. \A v \in Worker \ {w} : writes'[v] = writes[v] /\ pc'[v] = pc[v] /\ tx'[v] = tx[v]
    BY DEF IInv, Locals
  <1> QED BY <1>1, <1>2, <1>3, <1>4, Assemble

LEMMA BuyBeginKeeps ==
  ASSUME IInv, NEW w \in Worker, NEW u \in User, NEW s \in Seat, BuyBegin(w, u, s)
  PROVE  IInv'
  <1> DEFINE q == [kind |-> "buy", user |-> u, seat |-> s, ticket |-> 0, amount |-> 0]
  <1>1. /\ pc[w] = "idle"
        /\ pc' = [pc EXCEPT ![w] = "price"] /\ tx' = [tx EXCEPT ![w] = q]
        /\ UNCHANGED <<db, writes, local>>
        /\ next + Cardinality(Inserting) <= MaxTickets
    BY DEF BuyBegin, Begin, Goto
  <1>2. q \in Request \cup {NoRequest}
    BY DEF Request
  <1>3. pc'[w] = "price" /\ tx'[w] = q
    BY <1>1 DEF IInv, Locals
  <1>4. Room'
    <2>1. Inserting' = Inserting \cup {w} /\ w \notin Inserting
      BY <1>1 DEF Inserting, IInv, Locals
    <2>2. IsFiniteSet(Inserting)
      BY WorkerAssumption, FS_Subset DEF Inserting
    <2>3. Cardinality(Inserting') = Cardinality(Inserting) + 1 /\ Cardinality(Inserting) \in Nat
      BY <2>1, <2>2, FS_AddElement, FS_CardinalityType
    <2> QED BY <1>1, <2>3, BoundsAssumption DEF Room, IInv, Locals, local
  <1>5. Sane(w)'
    BY <1>3 DEF Sane, BuyerSane, Ticketed, AtEnd, NoRequest, Buying, Refunding
  <1> HIDE DEF q
  <1> QED BY <1>1, <1>2, <1>4, <1>5, AssembleQuiet DEF Fresh

\* The other steps of w do not add to the purchases under way.
LEMMA RoomOfOne ==
  ASSUME IInv, NEW w \in Worker, NEW l \in Label, pc' = [pc EXCEPT ![w] = l], next' = next,
         l \in {"price", "debit", "insert"} => pc[w] \in {"price", "debit", "insert"}
  PROVE  Room'
  <1>1. Inserting' \subseteq Inserting
    BY DEF Inserting, IInv, Locals
  <1> QED BY <1>1, RoomKept DEF IInv, Locals

LEMMA RefundBeginKeeps ==
  ASSUME IInv, NEW w \in Worker, NEW u \in User, NEW t \in Ticket, RefundBegin(w, u, t)
  PROVE  IInv'
  <1> DEFINE q == [kind |-> "refund", user |-> u, seat |-> db.tickets[t].seat,
                   ticket |-> t, amount |-> db.tickets[t].price]
  <1>1. /\ pc[w] = "idle" /\ t \in DOMAIN db.tickets /\ db.tickets[t].user = u
        /\ pc' = [pc EXCEPT ![w] = "credit"] /\ tx' = [tx EXCEPT ![w] = q]
        /\ UNCHANGED <<db, writes, local>>
    BY DEF RefundBegin, Begin, Goto
  <1>2. q \in Request \cup {NoRequest}
    <2>1. db.tickets[t] \in TicketRow
      BY <1>1 DEF IInv, Rows
    <2> QED BY <2>1, AmountsAssumption DEF Request, TicketRow
  <1>3. pc'[w] = "credit" /\ tx'[w] = q
    BY <1>1 DEF IInv, Locals
  <1>4. Room'
    BY <1>1, RoomOfOne DEF local, Label, Refunding
  <1>5. Sane(w)'
    BY <1>1, <1>3 DEF Sane, RefunderSane, NoRequest, Buying, Refunding
  <1> HIDE DEF q
  <1> QED BY <1>1, <1>2, <1>4, <1>5, AssembleQuiet DEF Fresh

LEMMA FundBeginKeeps ==
  ASSUME IInv, NEW w \in Worker, NEW u \in User, NEW a \in Fund, FundBegin(w, u, a)
  PROVE  IInv'
  <1> DEFINE q == [kind |-> "fund", user |-> u, seat |-> "none", ticket |-> 0, amount |-> a]
  <1>1. /\ pc[w] = "idle"
        /\ pc' = [pc EXCEPT ![w] = "fund"] /\ tx' = [tx EXCEPT ![w] = q]
        /\ UNCHANGED <<db, writes, local>>
    BY DEF FundBegin, Begin, Goto
  <1>2. q \in Request \cup {NoRequest}
    BY AmountsAssumption DEF Request
  <1>3. pc'[w] = "fund" /\ tx'[w] = q
    BY <1>1 DEF IInv, Locals
  <1>4. Room'
    BY <1>1, RoomOfOne DEF local, Label
  <1>5. Sane(w)'
    BY <1>3 DEF Sane, NoRequest, Buying, Refunding
  <1> HIDE DEF q
  <1> QED BY <1>1, <1>2, <1>4, <1>5, AssembleQuiet DEF Fresh

LEMMA BuyPriceKeeps ==
  ASSUME IInv, NEW w \in Worker, BuyPrice(w)
  PROVE  IInv'
  <1> DEFINE p == View(w, "screenings")[ScreeningOf[tx[w].seat]]
             q == [tx[w] EXCEPT !.amount = p]
  <1>1. /\ pc[w] = "price"
        /\ pc' = [pc EXCEPT ![w] = "debit"] /\ tx' = [tx EXCEPT ![w] = q]
        /\ UNCHANGED <<db, writes, local>>
    BY DEF BuyPrice, Goto, IInv, Locals
  <1>2. tx[w] \in Request /\ tx[w].kind = "buy" /\ tx[w].seat \in Seat
    BY <1>1, AtWork DEF IInv, Sane, BuyerSane, Buying
  <1>3. p \in Price
    <2>1. writes[w]["screenings"] = NoRows
      BY DEF IInv, Staged
    <2>2. View(w, "screenings") = db.screenings
      BY <2>1 DEF View, Over, NoRows, IInv, Rows
    <2> QED BY <1>2, <2>2, SchemaAssumption DEF IInv, Rows
  <1>4. q \in Request
    BY <1>2, <1>3, AmountsAssumption DEF Request
  <1>5. pc'[w] = "debit" /\ tx'[w] = q
    BY <1>1 DEF IInv, Locals
  <1>6. q.kind = "buy" /\ q.seat \in Seat /\ q.amount \in Price
    BY <1>2, <1>3 DEF Request
  <1>7. Room'
    BY <1>1, RoomOfOne DEF local, Label, Buying
  <1> HIDE DEF q
  <1>8. Sane(w)'
    BY <1>5, <1>6 DEF Sane, BuyerSane, Ticketed, AtEnd, NoRequest, Buying, Refunding
  <1> QED BY <1>1, <1>4, <1>7, <1>8, AssembleQuiet DEF Fresh

\* A worker that has returned is as it should be.
LEMMA IdleIsSane ==
  ASSUME IInv, NEW w \in Worker, pc' = [pc EXCEPT ![w] = "idle"],
         tx' = [tx EXCEPT ![w] = NoRequest]
  PROVE  Sane(w)'
  BY DEF IInv, Locals, Sane, NoRequest, Buying, Refunding

LEMMA ReloadKeeps ==
  ASSUME IInv, NEW w \in Worker, Reload(w)
  PROVE  IInv'
  <1>1. /\ pc[w] = "reload"
        /\ pc' = [pc EXCEPT ![w] = "idle"] /\ tx' = [tx EXCEPT ![w] = NoRequest]
        /\ UNCHANGED <<db, writes, local>>
    BY DEF Reload, Return, Goto
  <1>2. Room'
    BY <1>1, RoomOfOne DEF local, Label
  <1> QED BY <1>1, <1>2, IdleIsSane, AssembleQuiet DEF Fresh

\* A transaction that is given up.
LEMMA RollbackKeeps ==
  ASSUME IInv, NEW w \in Worker, Return(w, pc[w]), Rollback(w), UNCHANGED local
  PROVE  IInv'
  <1>1. /\ Shape'
        /\ \A t \in Table : writes'[w][t] = NoRows
        /\ \A v \in Worker \ {w} : writes'[v] = writes[v]
        /\ UNCHANGED db
    BY RollbackForgets DEF IInv
  <1>2. pc' = [pc EXCEPT ![w] = "idle"] /\ tx' = [tx EXCEPT ![w] = NoRequest]
    BY DEF Return, Goto
  <1>3. Locks'
    BY <1>1, ClearingKeepsLocks DEF IInv
  <1>4. Locals' /\ next' \in Nat /\ next' >= next
    BY <1>2 DEF IInv, Locals, local, Label
  <1>5. Room'
    BY <1>2, RoomOfOne DEF local, Label
  <1>6. Sane(w)'
    BY <1>2, IdleIsSane
  <1>7. Staged(w)'
    BY <1>1, <1>2, StagesNothing DEF Fresh, IInv, Locals
  <1>8. \A v \in Worker \ {w} : writes'[v] = writes[v] /\ pc'[v] = pc[v] /\ tx'[v] = tx[v]
    BY <1>1, <1>2 DEF IInv, Locals
  <1> QED BY <1>1, <1>3, <1>4, <1>5, <1>6, <1>7, <1>8, Assemble

\* A step that stages one row of a table the transaction has not written yet.
LEMMA AssembleWrite ==
  ASSUME IInv, NEW w \in Worker, NEW t \in Table, NEW k, NEW row,
         writes[w][t] = NoRows, Write(w, t, k, row),
         NEW l \in Label, NEW q \in Request,
         pc' = [pc EXCEPT ![w] = l], tx' = [tx EXCEPT ![w] = q],
         next' \in {next, next + 1}, UNCHANGED <<deposited, paid>>,
         Room', Sane(w)', Staged(w)'
  PROVE  IInv'
  <1>1. /\ Shape'
        /\ \A v \in Worker \ {w} : writes'[v] = writes[v]
        /\ UNCHANGED db
    BY WriteStages DEF IInv
  <1>2. Locks'
    BY WriteKeepsLocks DEF IInv
  <1>3. Locals' /\ next' \in Nat /\ next' >= next
    BY DEF IInv, Locals
  <1>4. \A v \in Worker \ {w} : writes'[v] = writes[v] /\ pc'[v] = pc[v] /\ tx'[v] = tx[v]
    BY <1>1 DEF IInv, Locals
  <1> QED BY <1>1, <1>2, <1>3, <1>4, Assemble

\* The first statement that changes money.
Debits == {<<"debit", "insert">>, <<"credit", "mark">>, <<"fund", "commit">>}

LEMMA AddToBalanceKeeps ==
  ASSUME IInv, NEW w \in Worker, NEW from, NEW to, <<from, to>> \in Debits,
         AddToBalance(w, from, to, Change(w))
  PROVE  IInv'
  <1> DEFINE u == tx[w].user
  <1>1. pc[w] = from /\ UNCHANGED local /\ Sane(w) /\ Staged(w)
    BY DEF AddToBalance, IInv
  <1>2. pc[w] \in Fresh /\ pc[w] # "idle" /\ pc[w] # "reload"
    BY <1>1 DEF Debits, Fresh
  <1>3. tx[w] \in Request /\ u \in User /\ tx[w] # NoRequest
    BY <1>2, AtWork DEF Request, NoRequest
  <1>4. View(w, "auth_user")[u] + Change(w) = UserRow(w)
    <2>1. writes[w]["auth_user"] = NoRows
      BY <1>2, NothingStaged, TableAssumption
    <2>2. View(w, "auth_user") = db.auth_user
      BY <2>1 DEF View, Over, NoRows, IInv, Rows
    <2> QED BY <2>2 DEF UserRow
  <1>5. UserRow(w) \in Int
    BY <1>1, <1>2, <1>3, AmountsAssumption
       DEF UserRow, Change, IInv, Rows, Request
  <1>6. CASE UserRow(w) < 0
    <2>1. Return(w, from) /\ Rollback(w)
      BY <1>4, <1>5, <1>6 DEF AddToBalance
    <2> QED BY <1>1, <2>1, RollbackKeeps
  <1>7. CASE UserRow(w) >= 0
    <2>1. /\ Write(w, "auth_user", u, UserRow(w))
          /\ pc' = [pc EXCEPT ![w] = to] /\ UNCHANGED <<tx, db>>
      <3>1. ~(UserRow(w) < 0)
        BY <1>5, <1>7
      <3> QED BY <1>4, <3>1 DEF AddToBalance, Goto, Write
    <2>2. pc'[w] = to /\ tx'[w] = tx[w] /\ tx' = [tx EXCEPT ![w] = tx[w]]
      BY <2>1 DEF IInv, Locals
    <2>3. \A t \in Table : writes[w][t] = NoRows
      BY <1>2, NothingStaged
    <2>4. writes'[w]["auth_user"] = Only(u, UserRow(w))
      BY <2>1, <2>3, WriteStages, TableAssumption DEF IInv
    <2>5. \A t \in Table \ {"auth_user"} : writes'[w][t] = NoRows
      BY <2>1, <2>3, WriteStages, TableAssumption DEF IInv
    <2>6. Staged(w)'
      <3>1. UserRow(w)' = UserRow(w)
        BY <2>1, <2>2 DEF UserRow, Change
      <3>2. Charged(w)' /\ ~Ticketed(w)' /\ ~Seated(w)' /\ ~AtEnd(w)'
        BY <1>1, <2>2 DEF Charged, Ticketed, Seated, AtEnd, Debits, Sane
      <3> QED BY <1>7, <2>2, <2>4, <2>5, <3>1, <3>2, TableAssumption DEF Staged
    <2>7. Sane(w)'
      <3>1. tx[w].kind = "buy" => BuyerSane(w)'
        BY <1>1, <2>2 DEF Sane, BuyerSane, Ticketed, AtEnd, Debits
      <3>2. tx[w].kind = "refund" => RefunderSane(w)'
        BY <1>1, <2>1, <2>2 DEF Sane, RefunderSane, Debits
      <3> QED BY <1>1, <1>3, <2>2, <3>1, <3>2 DEF Sane, Debits, Buying, Refunding
    <2>8. Room'
      BY <1>1, <2>1, RoomOfOne DEF Debits, local, Label, Buying, Refunding
    <2> HIDE DEF u
    <2>9. to \in Label /\ "auth_user" \in Table /\ next' = next /\ UNCHANGED <<deposited, paid>>
      BY <1>1, TableAssumption DEF Debits, Label, Buying, Refunding, local
    <2> QED BY <1>3, <2>1, <2>2, <2>3, <2>6, <2>7, <2>8, <2>9, AssembleWrite
  <1> QED BY <1>5, <1>6, <1>7

LEMMA BalanceStepsKeep ==
  ASSUME IInv, NEW w \in Worker, BuyDebit(w) \/ RefundCredit(w) \/ FundCredit(w)
  PROVE  IInv'
  <1>1. Sane(w)
    BY DEF IInv
  <1>2. CASE BuyDebit(w)
    <2>1. Change(w) = -tx[w].amount
      BY <1>1, <1>2 DEF BuyDebit, AddToBalance, Sane, Buying, Change
    <2> QED BY <1>2, <2>1, AddToBalanceKeeps DEF BuyDebit, Debits
  <1>3. CASE RefundCredit(w)
    <2>1. Change(w) = tx[w].amount
      BY <1>1, <1>3 DEF RefundCredit, AddToBalance, Sane, Refunding, Change
    <2> QED BY <1>3, <2>1, AddToBalanceKeeps DEF RefundCredit, Debits
  <1>4. CASE FundCredit(w)
    <2>1. Change(w) = tx[w].amount
      BY <1>1, <1>4 DEF FundCredit, AddToBalance, Sane, Change
    <2> QED BY <1>4, <2>1, AddToBalanceKeeps DEF FundCredit, Debits
  <1> QED BY <1>2, <1>3, <1>4

LEMMA BuyInsertKeeps ==
  ASSUME IInv, NEW w \in Worker, BuyInsert(w)
  PROVE  IInv'
  <1> DEFINE q == [tx[w] EXCEPT !.ticket = next]
             row == [user |-> tx[w].user, seat |-> tx[w].seat,
                     price |-> tx[w].amount, refunded |-> FALSE]
  <1>1. /\ pc[w] = "insert" /\ pc' = [pc EXCEPT ![w] = "occupy"]
        /\ tx' = [tx EXCEPT ![w] = q]
        /\ Write(w, "tickets", next, row) /\ UNCHANGED db
        /\ next' = next + 1 /\ UNCHANGED <<deposited, paid>>
    BY DEF BuyInsert, Goto, Write, IInv, Locals
  <1>2. tx[w] \in Request /\ tx[w].kind = "buy" /\ BuyerSane(w) /\ Staged(w)
    BY <1>1, AtWork DEF IInv, Sane, Buying
  <1>3. next \in Ticket /\ Room'
    <2>1. IsFiniteSet(Inserting)
      BY WorkerAssumption, FS_Subset DEF Inserting
    <2>2. w \in Inserting /\ Inserting' = Inserting \ {w}
      BY <1>1 DEF Inserting, IInv, Locals
    <2>3. /\ Cardinality(Inserting) \in Nat /\ Cardinality(Inserting') \in Nat
          /\ Cardinality(Inserting') = Cardinality(Inserting) - 1
      BY <2>1, <2>2, FS_RemoveElement, FS_Subset, FS_CardinalityType
    <2> QED BY <1>1, <2>3, BoundsAssumption DEF IInv, Room, Locals, Ticket
  <1>4. q \in Request /\ q.ticket = next /\ q.kind = "buy" /\ q.user = tx[w].user
        /\ q.seat = tx[w].seat /\ q.amount = tx[w].amount
    BY <1>2, <1>3 DEF Request
  <1>5. pc'[w] = "occupy" /\ tx'[w] = q
    BY <1>1 DEF IInv, Locals
  <1>6. /\ writes[w]["tickets"] = NoRows /\ writes[w]["seats"] = NoRows
        /\ writes[w]["movies"] = NoRows /\ writes[w]["screenings"] = NoRows
        /\ writes[w]["auth_user"] = Only(tx[w].user, UserRow(w))
        /\ UserRow(w) >= 0
    BY <1>1, <1>2 DEF Staged, Charged, Ticketed, Seated, AtEnd
  <1>7. /\ writes'[w]["tickets"] = Only(next, row)
        /\ \A t \in Table \ {"tickets"} : writes'[w][t] = writes[w][t]
    BY <1>1, <1>6, WriteStages, TableAssumption DEF IInv
  <1> HIDE DEF q
  <1>8. Sane(w)'
    <2>1. next \in (1 .. next' - 1) \ DOMAIN db'.tickets
      BY <1>1 DEF IInv, Locals, Rows
    <2>2. BuyerSane(w)'
      BY <1>1, <1>2, <1>4, <1>5, <2>1 DEF BuyerSane
    <2>3. tx'[w] # NoRequest
      BY <1>4, <1>5 DEF NoRequest
    <2> QED BY <1>4, <1>5, <2>2, <2>3 DEF Sane, Buying, Refunding
  <1>9. Staged(w)'
    <2>1. UserRow(w)' = UserRow(w)
      BY <1>1, <1>2, <1>4, <1>5 DEF UserRow, Change
    <2>2. TheTicket(w)' = row
      BY <1>4, <1>5 DEF TheTicket
    <2>3. Charged(w)' /\ Ticketed(w)' /\ ~Seated(w)' /\ ~AtEnd(w)'
      BY <1>5 DEF Charged, Ticketed, Seated, AtEnd
    <2> QED BY <1>4, <1>5, <1>6, <1>7, <2>1, <2>2, <2>3, TableAssumption DEF Staged
  <1>10. "tickets" \in Table /\ "occupy" \in Label /\ next' \in {next, next + 1}
    BY <1>1, TableAssumption DEF Label, Buying
  <1> HIDE DEF row
  <1> QED BY <1>1, <1>3, <1>4, <1>6, <1>8, <1>9, <1>10, AssembleWrite

\* The later statements of a purchase or a refund leave the locals alone.
LEMMA SaneStays ==
  ASSUME IInv, NEW w \in Worker, NEW to,
         \/ pc[w] \in {"occupy", "earn"} /\ to \in {"earn", "commit"}
         \/ pc[w] \in {"mark", "vacate", "repay"} /\ to \in {"vacate", "repay", "commit"},
         pc' = [pc EXCEPT ![w] = to], UNCHANGED <<tx, db, local>>
  PROVE  Sane(w)' /\ Room' /\ pc'[w] = to /\ to \in Label /\ tx[w] \in Request
         /\ tx' = [tx EXCEPT ![w] = tx[w]]
         /\ UserRow(w)' = UserRow(w)
  <1>1. /\ pc'[w] = to /\ to \in Label /\ tx' = [tx EXCEPT ![w] = tx[w]]
        /\ pc[w] # "idle"
    BY DEF IInv, Locals, Label, Buying, Refunding
  <1>2. tx[w] \in Request /\ tx[w] # NoRequest /\ Sane(w)
    BY <1>1, AtWork DEF Request, NoRequest, IInv
  <1>3. tx[w].kind = "buy" => BuyerSane(w)'
    <2> SUFFICES ASSUME tx[w].kind = "buy" PROVE BuyerSane(w)'
      OBVIOUS
    <2>1. BuyerSane(w) /\ pc[w] \in {"occupy", "earn"}
      BY <1>2 DEF Sane, Refunding
    <2>2. Ticketed(w)
      BY <2>1 DEF Ticketed
    <2> QED BY <2>1, <2>2 DEF BuyerSane, local
  <1>4. tx[w].kind = "refund" => RefunderSane(w)'
    <2> SUFFICES ASSUME tx[w].kind = "refund" PROVE RefunderSane(w)'
      OBVIOUS
    <2>1. RefunderSane(w) /\ pc[w] # "reload"
      BY <1>2 DEF Sane
    <2> QED BY <2>1 DEF RefunderSane
  <1>5. tx[w].kind # "fund"
    BY <1>2 DEF Sane, Buying, Refunding
  <1>6. pc[w] \in {"occupy", "earn"} => tx[w].kind = "buy"
    BY <1>2 DEF Sane, Buying
  <1>7. pc[w] \in {"mark", "vacate", "repay"} => tx[w].kind = "refund"
    BY <1>2 DEF Sane, Refunding
  <1>8. Sane(w)'
    BY <1>1, <1>2, <1>3, <1>4, <1>5, <1>6, <1>7 DEF Sane, Buying, Refunding
  <1>9. Room'
    BY <1>1, RoomOfOne DEF local
  <1> QED BY <1>1, <1>2, <1>8, <1>9 DEF UserRow, Change

LEMMA SeatStepsKeep ==
  ASSUME IInv, NEW w \in Worker, BuySeat(w) \/ RefundSeat(w)
  PROVE  IInv'
  <1> DEFINE to == IF pc[w] = "occupy" THEN "earn" ELSE "repay"
  <1>1. /\ pc[w] \in {"occupy", "vacate"} /\ pc' = [pc EXCEPT ![w] = to]
        /\ UNCHANGED <<tx, db, local>>
        /\ Write(w, "seats", tx[w].seat, Occupant(w))
    BY DEF BuySeat, RefundSeat, Goto, Write, Occupant, IInv, Sane, Buying, Refunding
  <1>2. /\ Sane(w)' /\ Room' /\ pc'[w] = to /\ to \in Label /\ tx[w] \in Request
        /\ tx' = [tx EXCEPT ![w] = tx[w]] /\ UserRow(w)' = UserRow(w)
    BY <1>1, SaneStays
  <1>3. Staged(w) /\ Charged(w) /\ Ticketed(w) /\ ~Seated(w) /\ ~AtEnd(w)
    BY <1>1 DEF IInv, Charged, Ticketed, Seated, AtEnd
  <1>4. writes[w]["seats"] = NoRows /\ writes[w]["movies"] = NoRows
    BY <1>3 DEF Staged
  <1>5. /\ writes'[w]["seats"] = Only(tx[w].seat, Occupant(w))
        /\ \A t \in Table \ {"seats"} : writes'[w][t] = writes[w][t]
    BY <1>1, <1>4, WriteStages, TableAssumption DEF IInv
  <1>6. Staged(w)'
    <2>1. TheTicket(w)' = TheTicket(w)
      BY <1>1 DEF TheTicket
    <2>2. Occupant(w)' = Occupant(w)
      BY <1>1 DEF Occupant
    <2>3. Charged(w)' /\ Ticketed(w)' /\ Seated(w)' /\ ~AtEnd(w)'
      BY <1>1, <1>2 DEF Charged, Ticketed, Seated, AtEnd
    <2> QED BY <1>1, <1>2, <1>3, <1>4, <1>5, <2>1, <2>2, <2>3, TableAssumption DEF Staged
  <1> HIDE DEF to
  <1>7. next' \in {next, next + 1} /\ UNCHANGED <<deposited, paid>> /\ "seats" \in Table
    BY <1>1, TableAssumption DEF local
  <1> QED BY <1>1, <1>2, <1>4, <1>6, <1>7, AssembleWrite

LEMMA RefundMarkKeeps ==
  ASSUME IInv, NEW w \in Worker, RefundMark(w)
  PROVE  IInv'
  <1>1. /\ pc[w] = "mark" /\ pc' = [pc EXCEPT ![w] = "vacate"]
        /\ UNCHANGED <<tx, db, local>>
        /\ Write(w, "tickets", tx[w].ticket,
                 [View(w, "tickets")[tx[w].ticket] EXCEPT !.refunded = TRUE])
    BY DEF RefundMark, Goto, Write
  <1>2. /\ Sane(w)' /\ Room' /\ pc'[w] = "vacate" /\ "vacate" \in Label /\ tx[w] \in Request
        /\ tx' = [tx EXCEPT ![w] = tx[w]] /\ UserRow(w)' = UserRow(w)
    BY <1>1, SaneStays
  <1>3. Staged(w) /\ Charged(w) /\ ~Ticketed(w) /\ ~Seated(w) /\ ~AtEnd(w)
    BY <1>1 DEF IInv, Charged, Ticketed, Seated, AtEnd
  <1>4. /\ writes[w]["tickets"] = NoRows /\ writes[w]["seats"] = NoRows
        /\ writes[w]["movies"] = NoRows
    BY <1>3 DEF Staged
  <1>5. [View(w, "tickets")[tx[w].ticket] EXCEPT !.refunded = TRUE] = TheTicket(w)
    <2>1. tx[w].kind = "refund" /\ tx[w].ticket \in DOMAIN db.tickets
      BY <1>1 DEF IInv, Sane, RefunderSane, Refunding
    <2>2. View(w, "tickets")[tx[w].ticket] = db.tickets[tx[w].ticket]
      BY <1>4, <2>1 DEF View, Over, NoRows
    <2> QED BY <2>1, <2>2 DEF TheTicket
  <1>6. Write(w, "tickets", tx[w].ticket, TheTicket(w))
    BY <1>1, <1>5
  <1>7. /\ writes'[w]["tickets"] = Only(tx[w].ticket, TheTicket(w))
        /\ \A t \in Table \ {"tickets"} : writes'[w][t] = writes[w][t]
    BY <1>6, <1>4, WriteStages, TableAssumption DEF IInv
  <1>8. Staged(w)'
    <2>1. TheTicket(w)' = TheTicket(w)
      BY <1>1 DEF TheTicket
    <2>2. Charged(w)' /\ Ticketed(w)' /\ ~Seated(w)' /\ ~AtEnd(w)'
      BY <1>2 DEF Charged, Ticketed, Seated, AtEnd
    <2> QED BY <1>1, <1>2, <1>3, <1>4, <1>7, <2>1, <2>2, TableAssumption DEF Staged
  <1>9. next' \in {next, next + 1} /\ UNCHANGED <<deposited, paid>> /\ "tickets" \in Table
    BY <1>1, TableAssumption DEF local
  <1> QED BY <1>1, <1>2, <1>4, <1>6, <1>8, <1>9, AssembleWrite

LEMMA MovieStepsKeep ==
  ASSUME IInv, NEW w \in Worker, BuyMovie(w) \/ RefundMovie(w)
  PROVE  IInv'
  <1>1. Sane(w) /\ Staged(w)
    BY DEF IInv
  <1>2. \/ pc[w] = "earn" /\ tx[w].kind = "buy" /\ AddToMovie(w, "earn", tx[w].amount, 1)
        \/ pc[w] = "repay" /\ tx[w].kind = "refund" /\ AddToMovie(w, "repay", -tx[w].amount, -1)
    BY <1>1 DEF BuyMovie, RefundMovie, AddToMovie, Goto, Sane, Buying, Refunding
  <1>3. tx[w] \in Request /\ tx[w].amount \in Int /\ tx[w].seat \in Seat
    <2>1. tx[w] \in Request
      BY <1>2, AtWork
    <2>2. tx[w].kind = "buy" => tx[w].seat \in Seat
      BY <1>1 DEF Sane, BuyerSane
    <2>3. tx[w].kind = "refund" => tx[w].seat \in Seat
      BY <1>1, <1>2 DEF Sane, RefunderSane, IInv, Rows, TicketRow
    <2> QED BY <1>2, <2>1, <2>2, <2>3 DEF Request
  <1>4. Charged(w) /\ Ticketed(w) /\ Seated(w) /\ ~AtEnd(w) /\ writes[w]["movies"] = NoRows
    BY <1>1, <1>2 DEF Staged, Charged, Ticketed, Seated, AtEnd
  <1>5. /\ pc' = [pc EXCEPT ![w] = "commit"] /\ UNCHANGED <<tx, db, local>>
        /\ Write(w, "movies", Film(w), MovieRow(w))
    <2>1. Film(w) \in Movie
      BY <1>3, SchemaAssumption DEF Film, Shows
    <2>2. View(w, "movies")[Film(w)] = db.movies[Film(w)]
      BY <1>4, <2>1 DEF View, Over, NoRows, IInv, Rows
    <2>3. /\ db.movies[Film(w)].box_office \in Int
          /\ db.movies[Film(w)].num_participants \in Int
      BY <2>1, SMTT(30) DEF IInv, Rows
    <2>4. CASE pc[w] = "earn"
      <3>1. AddToMovie(w, "earn", tx[w].amount, 1) /\ Change(w) = -tx[w].amount /\ Heads(w) = 1
        BY <1>2, <2>4 DEF Change, Heads
      <3>2. db.movies[Film(w)].box_office + tx[w].amount = db.movies[Film(w)].box_office - Change(w)
        BY <1>3, <2>3, <3>1, SMTT(30)
      <3> QED BY <2>2, <3>1, <3>2 DEF AddToMovie, Goto, Write, MovieRow, Film
    <2>5. CASE pc[w] = "repay"
      <3>1. /\ AddToMovie(w, "repay", -tx[w].amount, -1) /\ Change(w) = tx[w].amount
            /\ Heads(w) = -1
        BY <1>2, <2>5 DEF Change, Heads
      <3>2. db.movies[Film(w)].box_office + (-tx[w].amount) = db.movies[Film(w)].box_office - Change(w)
        BY <1>3, <2>3, <3>1
      <3> QED BY <2>2, <3>1, <3>2 DEF AddToMovie, Goto, Write, MovieRow, Film
    <2> QED BY <1>2, <2>4, <2>5
  <1>6. /\ Sane(w)' /\ Room' /\ pc'[w] = "commit" /\ "commit" \in Label
        /\ tx' = [tx EXCEPT ![w] = tx[w]] /\ UserRow(w)' = UserRow(w)
    BY <1>2, <1>5, SaneStays
  <1>7. /\ writes'[w]["movies"] = Only(Film(w), MovieRow(w))
        /\ \A t \in Table \ {"movies"} : writes'[w][t] = writes[w][t]
    BY <1>4, <1>5, WriteStages, TableAssumption DEF IInv
  <1>8. Staged(w)'
    <2>1. TheTicket(w)' = TheTicket(w)
      BY <1>5 DEF TheTicket
    <2>2. Occupant(w)' = Occupant(w)
      BY <1>5 DEF Occupant
    <2>3. Film(w)' = Film(w) /\ MovieRow(w)' = MovieRow(w)
      BY <1>5 DEF Film, MovieRow, Change, Heads
    <2>4. Charged(w)' /\ Ticketed(w)' /\ Seated(w)' /\ AtEnd(w)'
      BY <1>2, <1>5, <1>6 DEF Charged, Ticketed, Seated, AtEnd
    <2> QED BY <1>1, <1>4, <1>5, <1>6, <1>7, <2>1, <2>2, <2>3, <2>4, TableAssumption DEF Staged
  <1>9. next' \in {next, next + 1} /\ UNCHANGED <<deposited, paid>> /\ "movies" \in Table
    BY <1>5, TableAssumption DEF local
  <1> QED BY <1>3, <1>4, <1>5, <1>6, <1>8, <1>9, AssembleWrite

-----------------------------------------------------------------------------
(* The commit *)

\* Table g with one more row, or with another row in its place.
Put(k, row, g) == [j \in DOMAIN g \cup {k} |-> IF j = k THEN row ELSE g[j]]

\* A one-row table laid over another.
LEMMA OverOnly ==
  ASSUME NEW k, NEW row, NEW g
  PROVE  Over(Only(k, row), g) = Put(k, row, g)
  BY DEF Over, Only, Put

\* So over a table that has the row.
LEMMA OverOnlyReplaces ==
  ASSUME NEW g, g = [j \in DOMAIN g |-> g[j]], NEW k \in DOMAIN g, NEW row
  PROVE  Over(Only(k, row), g) = [g EXCEPT ![k] = row]
  <1>1. DOMAIN g \cup {k} = DOMAIN g
    OBVIOUS
  <1>2. Put(k, row, g) = [j \in DOMAIN g |-> IF j = k THEN row ELSE g[j]]
    BY <1>1, Zenon DEF Put
  <1>3. [j \in DOMAIN g |-> IF j = k THEN row ELSE g[j]] = [g EXCEPT ![k] = row]
    OBVIOUS
  <1> QED BY <1>2, <1>3, OverOnly

LEMMA OverNothing ==
  ASSUME NEW g, g = [j \in DOMAIN g |-> g[j]]
  PROVE  Over(NoRows, g) = g
  BY DEF Over, NoRows

\* What a transaction that commits has found out and made.
LEMMA ReadyToCommit ==
  ASSUME IInv, NEW w \in Worker, pc[w] = "commit"
  PROVE  /\ tx[w] \in Request /\ tx[w].user \in User /\ tx[w].amount \in Int
         /\ tx[w].kind \in {"buy", "refund", "fund"}
         /\ UserRow(w) \in Nat
         /\ tx[w].kind = "fund" => tx[w].amount \in Fund
         /\ tx[w].kind # "fund" => /\ tx[w].seat \in Seat
                                   /\ tx[w].ticket \in 1 .. next - 1
                                   /\ TheTicket(w) \in TicketRow
                                   /\ Occupant(w) \in User \cup {NoUser}
                                   /\ Film(w) \in Movie
                                   /\ MovieRow(w) \in [box_office : Int, num_participants : Int]
  <1>1. tx[w] \in Request /\ Sane(w) /\ Staged(w) /\ Charged(w)
    BY AtWork DEF IInv, Charged
  <1>2. /\ tx[w].user \in User /\ tx[w].amount \in Int
        /\ tx[w].kind \in {"buy", "refund", "fund"}
    BY <1>1 DEF Request
  <1>3. UserRow(w) \in Nat
    <2>1. UserRow(w) \in Int /\ UserRow(w) >= 0
      BY <1>1, <1>2 DEF UserRow, Change, Staged, IInv, Rows
    <2> QED BY <2>1
  <1>4. ASSUME tx[w].kind = "buy"
        PROVE  /\ tx[w].seat \in Seat /\ tx[w].ticket \in 1 .. next - 1
               /\ TheTicket(w) \in TicketRow
    <2>1. BuyerSane(w) /\ Ticketed(w)
      BY <1>1, <1>4 DEF Sane, Ticketed, AtEnd
    <2>2. tx[w].seat \in Seat /\ tx[w].amount \in Price /\ tx[w].ticket \in 1 .. next - 1
      BY <2>1 DEF BuyerSane
    <2> QED BY <1>2, <1>4, <2>2 DEF TheTicket, TicketRow
  <1>5. ASSUME tx[w].kind = "refund"
        PROVE  /\ tx[w].seat \in Seat /\ tx[w].ticket \in 1 .. next - 1
               /\ TheTicket(w) \in TicketRow
    <2>1. /\ tx[w].ticket \in DOMAIN db.tickets
          /\ db.tickets[tx[w].ticket].seat = tx[w].seat
      BY <1>1, <1>5 DEF Sane, RefunderSane
    <2>2. db.tickets[tx[w].ticket] \in TicketRow /\ tx[w].ticket \in 1 .. next - 1
      BY <2>1 DEF IInv, Rows
    <2>3. TheTicket(w) = [db.tickets[tx[w].ticket] EXCEPT !.refunded = TRUE]
      BY <1>5 DEF TheTicket
    <2> QED BY <2>1, <2>2, <2>3 DEF TicketRow
  <1>6. ASSUME tx[w].seat \in Seat
        PROVE  /\ Film(w) \in Movie
               /\ MovieRow(w) \in [box_office : Int, num_participants : Int]
    <2>1. Film(w) \in Movie
      BY <1>6, SchemaAssumption DEF Film, Shows
    <2>2. /\ db.movies[Film(w)].box_office \in Int
          /\ db.movies[Film(w)].num_participants \in Int
      BY <2>1 DEF IInv, Rows
    <2>3. Change(w) \in Int /\ Heads(w) \in Int
      BY <1>2 DEF Change, Heads
    <2> QED BY <2>1, <2>2, <2>3 DEF MovieRow
  <1>7. Occupant(w) \in User \cup {NoUser}
    BY <1>2 DEF Occupant
  <1> QED BY <1>1, <1>2, <1>3, <1>4, <1>5, <1>6, <1>7 DEF Sane

\* The rows that a commit changes.
LEMMA CommitRows ==
  ASSUME IInv, NEW w \in Worker, commit(w)
  PROVE  /\ db'.auth_user = [db.auth_user EXCEPT ![tx[w].user] = UserRow(w)]
         /\ db'.screenings = db.screenings
         /\ tx[w].kind = "fund" => /\ db'.tickets = db.tickets
                                   /\ db'.seats = db.seats
                                   /\ db'.movies = db.movies
         /\ tx[w].kind # "fund" =>
              /\ db'.tickets = Put(tx[w].ticket, TheTicket(w), db.tickets)
              /\ db'.seats = [db.seats EXCEPT ![tx[w].seat] = Occupant(w)]
              /\ db'.movies = [db.movies EXCEPT ![Film(w)] = MovieRow(w)]
  <1>1. pc[w] = "commit" /\ Commit(w) /\ Shape /\ Staged(w)
    BY DEF commit, Goto, IInv
  <1>2. \A t \in Table : db'[t] = Over(writes[w][t], db[t])
    BY <1>1, CommitPublishes DEF View
  <1>3. Charged(w)
    BY <1>1 DEF Charged
  <1>4. db'.auth_user = [db.auth_user EXCEPT ![tx[w].user] = UserRow(w)]
    <2>1. db'.auth_user = Over(Only(tx[w].user, UserRow(w)), db.auth_user)
      BY <1>1, <1>2, <1>3, TableAssumption DEF Staged
    <2>2. tx[w].user \in DOMAIN db.auth_user /\ db.auth_user = [u \in DOMAIN db.auth_user |-> db.auth_user[u]]
      BY <1>1, ReadyToCommit DEF IInv, Rows
    <2> QED BY <2>1, <2>2, OverOnlyReplaces
  <1>5. db'.screenings = db.screenings
    <2>1. db'.screenings = Over(NoRows, db.screenings)
      BY <1>1, <1>2, TableAssumption DEF Staged
    <2> QED BY <2>1, OverNothing DEF IInv, Rows
  <1>6. ASSUME tx[w].kind = "fund"
        PROVE  /\ db'.tickets = db.tickets /\ db'.seats = db.seats /\ db'.movies = db.movies
    <2>1. /\ db'.tickets = Over(NoRows, db.tickets) /\ db'.seats = Over(NoRows, db.seats)
          /\ db'.movies = Over(NoRows, db.movies)
      <3>1. ~AtEnd(w) /\ ~Ticketed(w) /\ ~Seated(w)
        BY <1>1, <1>6 DEF AtEnd, Ticketed, Seated
      <3> QED BY <1>1, <1>2, <3>1, TableAssumption DEF Staged
    <2>2. Over(NoRows, db.seats) = db.seats /\ Over(NoRows, db.movies) = db.movies
      BY OverNothing DEF IInv, Rows
    <2>3. Over(NoRows, db.tickets) = db.tickets
      BY OverNothing DEF IInv, Rows
    <2> QED BY <2>1, <2>2, <2>3
  <1>7. ASSUME tx[w].kind # "fund"
        PROVE  /\ db'.tickets = Put(tx[w].ticket, TheTicket(w), db.tickets)
               /\ db'.seats = [db.seats EXCEPT ![tx[w].seat] = Occupant(w)]
               /\ db'.movies = [db.movies EXCEPT ![Film(w)] = MovieRow(w)]
    <2>1. /\ db'.tickets = Over(Only(tx[w].ticket, TheTicket(w)), db.tickets)
          /\ db'.seats = Over(Only(tx[w].seat, Occupant(w)), db.seats)
          /\ db'.movies = Over(Only(Film(w), MovieRow(w)), db.movies)
      <3>1. AtEnd(w) /\ Ticketed(w) /\ Seated(w)
        BY <1>1, <1>7 DEF AtEnd, Ticketed, Seated
      <3> QED BY <1>1, <1>2, <3>1, TableAssumption DEF Staged
    <2>2. tx[w].seat \in DOMAIN db.seats /\ Film(w) \in DOMAIN db.movies
      BY <1>1, <1>7, ReadyToCommit DEF IInv, Rows
    <2>3. db.seats = [s \in DOMAIN db.seats |-> db.seats[s]]
          /\ db.movies = [m \in DOMAIN db.movies |-> db.movies[m]]
      BY DEF IInv, Rows
    <2>4. Over(Only(tx[w].seat, Occupant(w)), db.seats)
            = [db.seats EXCEPT ![tx[w].seat] = Occupant(w)]
      BY <2>2, <2>3, OverOnlyReplaces
    <2>5. Over(Only(Film(w), MovieRow(w)), db.movies)
            = [db.movies EXCEPT ![Film(w)] = MovieRow(w)]
      BY <2>2, <2>3, OverOnlyReplaces
    <2>6. Over(Only(tx[w].ticket, TheTicket(w)), db.tickets)
            = Put(tx[w].ticket, TheTicket(w), db.tickets)
      BY OverOnly
    <2> QED BY <2>1, <2>4, <2>5, <2>6, Zenon
  <1> QED BY <1>4, <1>5, <1>6, <1>7

\* Nobody else has written the rows that a commit changes.
LEMMA CommitIsExclusive ==
  ASSUME IInv, NEW w \in Worker, pc[w] = "commit", NEW v \in Worker \ {w}
  PROVE  /\ tx[w].user \notin DOMAIN writes[v]["auth_user"]
         /\ tx[w].kind # "fund" => /\ tx[w].ticket \notin DOMAIN writes[v]["tickets"]
                                   /\ Film(w) \notin DOMAIN writes[v]["movies"]
  <1>1. Staged(w) /\ Charged(w)
    BY DEF IInv, Charged
  <1>2. \A t \in Table : DOMAIN writes[v][t] \cap DOMAIN writes[w][t] = {}
    BY DEF IInv, Locks
  <1>3. tx[w].user \in DOMAIN writes[w]["auth_user"]
    BY <1>1 DEF Staged, Only
  <1>4. ASSUME tx[w].kind # "fund"
        PROVE  /\ tx[w].ticket \in DOMAIN writes[w]["tickets"]
               /\ Film(w) \in DOMAIN writes[w]["movies"]
    <2>1. AtEnd(w) /\ Ticketed(w)
      BY <1>4 DEF AtEnd, Ticketed
    <2> QED BY <1>1, <2>1 DEF Staged, Only
  <1> QED BY <1>2, <1>3, <1>4, TableAssumption

\* The ticket of a purchase is new; the one of a refund is on record, and differs from what
\* the refund makes of it only in being refunded.
LEMMA CommittedTicket ==
  ASSUME IInv, NEW w \in Worker, pc[w] = "commit"
  PROVE  /\ tx[w].kind = "buy" =>
              /\ tx[w].ticket \notin DOMAIN db.tickets
              /\ tx[w].amount \in Price
         /\ tx[w].kind = "refund" =>
              LET t == tx[w].ticket IN
              /\ t \in DOMAIN db.tickets
              /\ db.tickets[t] \in TicketRow
              /\ db.tickets[t].user = tx[w].user
              /\ db.tickets[t].seat = tx[w].seat
              /\ db.tickets[t].price = tx[w].amount
              /\ TheTicket(w) = [db.tickets[t] EXCEPT !.refunded = TRUE]
  <1>1. Sane(w)
    BY DEF IInv
  <1>2. ASSUME tx[w].kind = "buy"
        PROVE  tx[w].ticket \notin DOMAIN db.tickets /\ tx[w].amount \in Price
    <2>1. BuyerSane(w) /\ Ticketed(w)
      BY <1>1, <1>2 DEF Sane, Ticketed, AtEnd
    <2> QED BY <2>1 DEF BuyerSane
  <1>3. ASSUME tx[w].kind = "refund"
        PROVE  LET t == tx[w].ticket IN
               /\ t \in DOMAIN db.tickets
               /\ db.tickets[t] \in TicketRow
               /\ db.tickets[t].user = tx[w].user
               /\ db.tickets[t].seat = tx[w].seat
               /\ db.tickets[t].price = tx[w].amount
               /\ TheTicket(w) = [db.tickets[t] EXCEPT !.refunded = TRUE]
    <2>1. RefunderSane(w)
      BY <1>1, <1>3 DEF Sane
    <2>2. /\ tx[w].ticket \in DOMAIN db.tickets
          /\ db.tickets[tx[w].ticket].user = tx[w].user
          /\ db.tickets[tx[w].ticket].seat = tx[w].seat
          /\ db.tickets[tx[w].ticket].price = tx[w].amount
      BY <2>1 DEF RefunderSane
    <2>3. db.tickets[tx[w].ticket] \in TicketRow
      BY <2>2 DEF IInv, Rows
    <2>4. TheTicket(w) = [db.tickets[tx[w].ticket] EXCEPT !.refunded = TRUE]
      BY <1>3 DEF TheTicket
    <2> QED BY <2>2, <2>3, <2>4
  <1> QED BY <1>2, <1>3

\* A commit leaves every ticket on record with its user, its seat and its price.
LEMMA TicketsStay ==
  ASSUME IInv, NEW w \in Worker, commit(w), NEW t \in DOMAIN db.tickets
  PROVE  /\ t \in DOMAIN db'.tickets
         /\ db'.tickets[t].user = db.tickets[t].user
         /\ db'.tickets[t].seat = db.tickets[t].seat
         /\ db'.tickets[t].price = db.tickets[t].price
  <1>1. pc[w] = "commit"
    BY DEF commit, Goto
  <1>2. CASE tx[w].kind = "fund"
    BY <1>2, CommitRows
  <1>3. CASE tx[w].kind # "fund"
    <2>1. db'.tickets = Put(tx[w].ticket, TheTicket(w), db.tickets)
      BY <1>3, CommitRows
    <2>2. t \in DOMAIN db'.tickets
      BY <2>1 DEF Put
    <2>3. CASE t # tx[w].ticket
      <3>1. db'.tickets[t] = db.tickets[t]
        BY <2>1, <2>3 DEF Put
      <3> QED BY <2>2, <3>1
    <2>4. CASE t = tx[w].ticket
      <3>1. db'.tickets[t] = TheTicket(w)
        BY <2>1, <2>4 DEF Put
      <3>2. tx[w].kind = "refund"
        BY <1>1, <1>3, <2>4, CommittedTicket, ReadyToCommit
      <3>3. /\ db.tickets[t] \in TicketRow
            /\ TheTicket(w) = [db.tickets[t] EXCEPT !.refunded = TRUE]
        BY <1>1, <2>4, <3>2, CommittedTicket
      <3> QED BY <2>2, <3>1, <3>3 DEF TicketRow
    <2> QED BY <2>3, <2>4
  <1> QED BY <1>2, <1>3

\* A table keeps its type when one row is replaced by another of that type.
LEMMA ReplacingKeepsType ==
  ASSUME NEW S, NEW R, NEW g \in [S -> R], NEW k, NEW row \in R
  PROVE  [g EXCEPT ![k] = row] \in [S -> R]
  OBVIOUS

LEMMA CommitKeeps ==
  ASSUME IInv, NEW w \in Worker, commit(w)
  PROVE  IInv'
  <1>1. /\ pc[w] = "commit" /\ pc' = [pc EXCEPT ![w] = "reload"]
        /\ Commit(w) /\ UNCHANGED <<tx, next>>
    BY DEF commit, Goto
  <1>2. /\ Shape'
        /\ \A t \in Table : writes'[w][t] = NoRows
        /\ \A v \in Worker \ {w} : writes'[v] = writes[v]
    BY <1>1, CommitPublishes DEF IInv
  <1>3. Locks'
    BY <1>2, ClearingKeepsLocks DEF IInv
  <1>4. Locals'
    <2>1. deposited' \in [User -> Int]
      <3> DEFINE d == deposited[tx[w].user] + (IF tx[w].kind = "fund" THEN tx[w].amount ELSE 0)
      <3>1. deposited \in [User -> Int] /\ d \in Int
        BY <1>1, ReadyToCommit DEF IInv, Locals
      <3>2. deposited' = [deposited EXCEPT ![tx[w].user] = d]
        BY DEF commit
      <3> HIDE DEF d
      <3> QED BY <3>1, <3>2
    <2>2. paid' \in [Ticket -> Nat]
      <3>1. paid \in [Ticket -> Nat]
        BY DEF IInv, Locals
      <3>2. paid' = paid \/ paid' = [paid EXCEPT ![tx[w].ticket] = paid[tx[w].ticket] + 1]
        BY DEF commit
      <3> QED BY <3>1, <3>2
    <2> QED BY <1>1, <2>1, <2>2 DEF IInv, Locals, Label
  <1>5. Room'
    BY <1>1, RoomOfOne DEF Label
  <1>6. Rows'
    <2>1. db'.auth_user \in [User -> Nat] /\ db'.screenings \in [Screening -> Price]
      <3>1. UserRow(w) \in Nat /\ db.auth_user \in [User -> Nat]
        BY <1>1, ReadyToCommit DEF IInv, Rows
      <3>2. db'.auth_user = [db.auth_user EXCEPT ![tx[w].user] = UserRow(w)]
        BY CommitRows
      <3>3. db'.screenings = db.screenings
        BY CommitRows
      <3> QED BY <3>1, <3>2, <3>3, ReplacingKeepsType DEF IInv, Rows
    <2>2. CASE tx[w].kind = "fund"
      BY <1>1, <2>1, <2>2, CommitRows DEF IInv, Rows
    <2>3. CASE tx[w].kind # "fund"
      <3>1. db'.seats \in [Seat -> User \cup {NoUser}]
        <4>1. db'.seats = [db.seats EXCEPT ![tx[w].seat] = Occupant(w)]
          BY <2>3, CommitRows
        <4>2. Occupant(w) \in User \cup {NoUser}
          BY <1>1, <2>3, ReadyToCommit
        <4>3. db.seats \in [Seat -> User \cup {NoUser}]
          BY DEF IInv, Rows
        <4> QED BY <4>1, <4>2, <4>3, ReplacingKeepsType
      <3>2. db'.movies \in [Movie -> [box_office : Int, num_participants : Int]]
        <4> DEFINE R == [box_office : Int, num_participants : Int]
        <4>1. db'.movies = [db.movies EXCEPT ![Film(w)] = MovieRow(w)]
          BY <2>3, CommitRows
        <4>2. MovieRow(w) \in R
          BY <1>1, <2>3, ReadyToCommit
        <4>3. db.movies \in [Movie -> R]
          BY DEF IInv, Rows
        <4> HIDE DEF R
        <4>4. db'.movies \in [Movie -> R]
          BY <4>1, <4>2, <4>3, ReplacingKeepsType
        <4> QED BY <4>4 DEF R
      <3>3. db'.tickets = Put(tx[w].ticket, TheTicket(w), db.tickets)
        BY <2>3, CommitRows
      <3>4. DOMAIN db'.tickets = DOMAIN db.tickets \cup {tx[w].ticket}
        BY <3>3 DEF Put
      <3>5. db'.tickets = [t \in DOMAIN db'.tickets |-> db'.tickets[t]]
        BY <3>3 DEF Put
      <3>6. ASSUME NEW t \in DOMAIN db'.tickets PROVE db'.tickets[t] \in TicketRow
        BY <1>1, <2>3, <3>3, <3>4, ReadyToCommit DEF Put, IInv, Rows
      <3>7. DOMAIN db'.tickets \subseteq 1 .. next' - 1
        BY <1>1, <2>3, <3>4, ReadyToCommit DEF IInv, Rows
      <3> QED BY <2>1, <3>1, <3>2, <3>5, <3>6, <3>7 DEF Rows
    <2> QED BY <2>2, <2>3
  <1>7. Sane(w)' /\ Staged(w)'
    <2>1. pc'[w] = "reload" /\ tx'[w] = tx[w]
      BY <1>1 DEF IInv, Locals
    <2>2. Staged(w)'
      BY <1>2, <2>1, StagesNothing DEF Fresh
    <2>3. Sane(w) /\ tx[w] # NoRequest
      BY <1>1 DEF IInv, Sane
    <2>4. tx[w].kind = "buy" => BuyerSane(w)'
      BY <1>1, <2>1, <2>3 DEF Sane, BuyerSane, Ticketed, AtEnd
    <2>5. RefunderSane(w)'
      BY <2>1 DEF RefunderSane
    <2> QED BY <2>1, <2>2, <2>3, <2>4, <2>5 DEF Sane, Buying, Refunding
  <1>8. ASSUME NEW v \in Worker \ {w} PROVE Sane(v)' /\ Staged(v)'
    <2>1. pc'[v] = pc[v] /\ tx'[v] = tx[v] /\ writes'[v] = writes[v]
      BY <1>1, <1>2 DEF IInv, Locals
    <2>2. ASSUME NEW u \in DOMAIN writes[v]["auth_user"]
          PROVE  db'.auth_user[u] = db.auth_user[u]
      <3>1. u # tx[w].user
        BY <1>1, CommitIsExclusive
      <3>2. db'.auth_user = [db.auth_user EXCEPT ![tx[w].user] = UserRow(w)]
        BY CommitRows
      <3> QED BY <3>1, <3>2
    <2>3. ASSUME NEW m \in DOMAIN writes[v]["movies"]
          PROVE  db'.movies[m] = db.movies[m]
      <3>1. CASE tx[w].kind = "fund"
        BY <3>1, CommitRows
      <3>2. CASE tx[w].kind # "fund"
        <4>1. m # Film(w)
          BY <1>1, <3>2, CommitIsExclusive
        <4>2. db'.movies = [db.movies EXCEPT ![Film(w)] = MovieRow(w)]
          BY <3>2, CommitRows
        <4> QED BY <4>1, <4>2
      <3> QED BY <3>1, <3>2
    <2>4. ASSUME NEW t \in DOMAIN writes[v]["tickets"]
          PROVE  /\ t \in DOMAIN db'.tickets <=> t \in DOMAIN db.tickets
                 /\ t \in DOMAIN db.tickets => db'.tickets[t] = db.tickets[t]
      <3>1. CASE tx[w].kind = "fund"
        BY <3>1, CommitRows
      <3>2. CASE tx[w].kind # "fund"
        <4>1. t # tx[w].ticket
          BY <1>1, <3>2, CommitIsExclusive
        <4>2. db'.tickets = Put(tx[w].ticket, TheTicket(w), db.tickets)
          BY <3>2, CommitRows
        <4>3. t \in DOMAIN db'.tickets <=> t \in DOMAIN db.tickets
          BY <4>1, <4>2 DEF Put
        <4>4. t \in DOMAIN db.tickets => db'.tickets[t] = db.tickets[t]
          BY <4>1, <4>2 DEF Put
        <4> QED BY <4>3, <4>4
      <3> QED BY <3>1, <3>2
    <2>5. next' \in Nat /\ next' >= next
      BY <1>1 DEF IInv, Locals
    <2> QED BY <2>1, <2>2, <2>3, <2>4, <2>5, TicketsStay, Bystander
  <1> QED BY <1>2, <1>3, <1>4, <1>5, <1>6, <1>7, <1>8 DEF IInv

-----------------------------------------------------------------------------
(* The invariant *)

\* A new price concerns no transaction that has read the old one.
LEMMA ScreeningKeeps ==
  ASSUME IInv, NEW c \in Screening, NEW p \in Price, form_modify_screening(c, p)
  PROVE  IInv'
  <1>1. UNCHANGED <<writes, pc, tx, next, deposited, paid>>
    BY DEF form_modify_screening, local
  <1>2. /\ Shape'
        /\ db'["screenings"] = [db["screenings"] EXCEPT ![c] = p]
        /\ \A t \in Table \ {"screenings"} : db'[t] = db[t]
    BY <1>1, TableAssumption DEF form_modify_screening, IInv, Shape
  <1>3. db'["screenings"] \in [Screening -> Price]
    BY <1>2, ReplacingKeepsType DEF IInv, Rows
  <1>4. /\ db'["auth_user"] = db["auth_user"] /\ db'["seats"] = db["seats"]
        /\ db'["movies"] = db["movies"] /\ db'["tickets"] = db["tickets"]
    BY <1>2, TableAssumption
  <1>5. Rows'
    BY <1>1, <1>3, <1>4 DEF IInv, Rows
  <1>6. Locals' /\ Locks'
    BY <1>1 DEF IInv, Locals, Locks
  <1>7. Room'
    BY <1>1 DEF IInv, Room, Inserting
  <1>8. ASSUME NEW v \in Worker PROVE Sane(v)' /\ Staged(v)'
    BY <1>1, <1>4, Bystander DEF IInv, Locals
  <1> QED BY <1>2, <1>5, <1>6, <1>7, <1>8 DEF IInv

LEMMA InitIInv == Init => IInv
  <1> SUFFICES ASSUME Init PROVE IInv
    OBVIOUS
  <1>1. PICK price \in [Screening -> Price] :
          db = [t \in Table |->
                 CASE t = "auth_user" -> [u \in User |-> 0]
                   [] t = "seats" -> [s \in Seat |-> NoUser]
                   [] t = "movies" -> [m \in Movie |-> [box_office |-> 0, num_participants |-> 0]]
                   [] t = "screenings" -> price
                   [] t = "tickets" -> NoRows]
    BY DEF Init
  <1>2. /\ db["auth_user"] = [u \in User |-> 0] /\ db["seats"] = [s \in Seat |-> NoUser]
        /\ db["movies"] = [m \in Movie |-> [box_office |-> 0, num_participants |-> 0]]
        /\ db["screenings"] = price /\ db["tickets"] = NoRows
    BY <1>1, TableAssumption
  <1>3. /\ writes = [w \in Worker |-> NoWrites]
        /\ pc = [w \in Worker |-> "idle"] /\ tx = [w \in Worker |-> NoRequest]
        /\ next = 1 /\ deposited = [u \in User |-> 0] /\ paid = [t \in Ticket |-> 0]
    BY DEF Init, Begun
  <1>4. \A w \in Worker, t \in Table : writes[w][t] = NoRows
    BY <1>3 DEF NoWrites
  <1>5. Shape
    <2>1. db = [t \in Table |-> db[t]]
      <3> DEFINE F(t) == CASE t = "auth_user" -> [u \in User |-> 0]
                           [] t = "seats" -> [s \in Seat |-> NoUser]
                           [] t = "movies" -> [m \in Movie |-> [box_office |-> 0,
                                                                 num_participants |-> 0]]
                           [] t = "screenings" -> price
                           [] t = "tickets" -> NoRows
      <3>1. db = [t \in Table |-> F(t)]
        BY <1>1
      <3> HIDE DEF F
      <3> QED BY <3>1
    <2>2. writes = [w \in Worker |-> [t \in Table |-> writes[w][t]]]
      BY <1>3 DEF NoWrites
    <2> QED BY <2>1, <2>2 DEF Shape
  <1>6. Rows
    BY <1>2, <1>3 DEF Rows, NoRows
  <1>7. Locals
    BY <1>3 DEF Locals, Label
  <1>8. Room
    <2>1. Inserting = {}
      BY <1>3 DEF Inserting
    <2> QED BY <1>3, <2>1, FS_EmptySet, BoundsAssumption DEF Room
  <1>9. Locks
    BY <1>4 DEF Locks, NoRows
  <1>10. ASSUME NEW w \in Worker PROVE Sane(w) /\ Staged(w)
    BY <1>3, <1>4, TableAssumption
       DEF Sane, Staged, Charged, Ticketed, Seated, AtEnd, NoRequest, Buying, Refunding
  <1> QED BY <1>5, <1>6, <1>7, <1>8, <1>9, <1>10 DEF IInv

LEMMA NextKeeps == IInv /\ [Next]_vars => IInv'
  <1> SUFFICES ASSUME IInv, [Next]_vars PROVE IInv'
    OBVIOUS
  <1>1. CASE UNCHANGED vars
    <2>1. UNCHANGED <<db, writes, pc, tx, next, deposited, paid>>
      BY <1>1 DEF vars, local
    <2>2. Shape' /\ Rows' /\ Locals' /\ Room' /\ Locks'
      BY <2>1 DEF IInv, Shape, Rows, Locals, Room, Inserting, Locks
    <2>3. ASSUME NEW v \in Worker PROVE Sane(v)' /\ Staged(v)'
      BY <2>1, Bystander DEF IInv, Locals
    <2> QED BY <2>2, <2>3 DEF IInv
  <1>2. ASSUME NEW w \in Worker, Arrive(w) PROVE IInv'
    BY <1>2, BuyBeginKeeps, RefundBeginKeeps, FundBeginKeeps DEF Arrive
  <1>3. ASSUME NEW w \in Worker, Step(w) PROVE IInv'
    <2>1. CASE BuyPrice(w)
      BY <2>1, BuyPriceKeeps
    <2>2. CASE BuyDebit(w) \/ RefundCredit(w) \/ FundCredit(w)
      BY <2>2, BalanceStepsKeep
    <2>3. CASE BuyInsert(w)
      BY <2>3, BuyInsertKeeps
    <2>4. CASE BuySeat(w) \/ RefundSeat(w)
      BY <2>4, SeatStepsKeep
    <2>5. CASE RefundMark(w)
      BY <2>5, RefundMarkKeeps
    <2>6. CASE BuyMovie(w) \/ RefundMovie(w)
      BY <2>6, MovieStepsKeep
    <2>7. CASE commit(w)
      BY <2>7, CommitKeeps
    <2>8. CASE Reload(w)
      BY <2>8, ReloadKeeps
    <2> QED BY <1>3, <2>1, <2>2, <2>3, <2>4, <2>5, <2>6, <2>7, <2>8 DEF Step
  <1>4. ASSUME NEW w \in Worker, Fail(w) PROVE IInv'
    BY <1>4, RollbackKeeps DEF Fail
  <1>5. ASSUME NEW c \in Screening, NEW p \in Price, form_modify_screening(c, p) PROVE IInv'
    BY <1>5, ScreeningKeeps
  <1> QED BY <1>1, <1>2, <1>3, <1>4, <1>5 DEF Next

\* In every reachable state, for any users, seats, prices and workers, each transaction has
\* staged exactly what its position says, and exclusively.
THEOREM Invariance == Spec => []IInv
  BY InitIInv, NextKeeps, PTL DEF Spec

-----------------------------------------------------------------------------
(* What follows from it *)

\* The ids never run out before the guard of BuyBegin holds purchases back.
LEMMA NextInRange ==
  ASSUME IInv
  PROVE  next \in Ticket \cup {MaxTickets + 1}
  <1>1. Cardinality(Inserting) \in Nat
    <2>1. IsFiniteSet(Inserting)
      BY WorkerAssumption, FS_Subset DEF Inserting
    <2> QED BY <2>1, FS_CardinalityType
  <1>2. next \in Nat \ {0} /\ next + Cardinality(Inserting) <= MaxTickets + 1
    BY DEF IInv, Locals, Room
  <1> QED BY <1>1, <1>2, BoundsAssumption DEF Ticket

\* Every statement that updates a row updates one that is there.
LEMMA UpdatesHitRows ==
  ASSUME IInv, NEW w \in Worker
  PROVE  \A t \in {"auth_user", "seats", "movies", "screenings"} :
           DOMAIN writes[w][t] \subseteq DOMAIN db[t]
  <1>1. Staged(w) /\ Sane(w)
    BY DEF IInv
  <1>2. /\ DOMAIN db["auth_user"] = User /\ DOMAIN db["seats"] = Seat
        /\ DOMAIN db["movies"] = Movie
    BY DEF IInv, Rows
  <1>3. DOMAIN writes[w]["auth_user"] \subseteq User
    <2>1. Charged(w) => tx[w].user \in User
      BY AtWork DEF Charged, Request
    <2> QED BY <1>1, <2>1 DEF Staged, Only, NoRows
  <1>4. ASSUME Seated(w) PROVE tx[w].seat \in Seat
    <2>1. pc[w] # "idle" /\ pc[w] # "reload" /\ tx[w].kind # "fund"
      BY <1>1, <1>4 DEF Seated, AtEnd, Sane, Buying, Refunding
    <2>2. tx[w].kind \in {"buy", "refund"}
      BY <2>1, AtWork DEF Request
    <2>3. tx[w].kind = "buy" => tx[w].seat \in Seat
      BY <1>1 DEF Sane, BuyerSane
    <2>4. ASSUME tx[w].kind = "refund" PROVE tx[w].seat \in Seat
      <3>1. /\ tx[w].ticket \in DOMAIN db.tickets
            /\ db.tickets[tx[w].ticket].seat = tx[w].seat
        BY <1>1, <2>1, <2>4 DEF Sane, RefunderSane
      <3> QED BY <3>1 DEF IInv, Rows, TicketRow
    <2> QED BY <2>2, <2>3, <2>4
  <1>5. DOMAIN writes[w]["seats"] \subseteq Seat
    BY <1>1, <1>4 DEF Staged, Only, NoRows
  <1>6. DOMAIN writes[w]["movies"] \subseteq Movie
    <2>1. ASSUME AtEnd(w) PROVE Film(w) \in Movie
      BY <2>1, ReadyToCommit DEF AtEnd
    <2> QED BY <1>1, <2>1 DEF Staged, Only, NoRows
  <1>7. DOMAIN writes[w]["screenings"] = {}
    BY <1>1 DEF Staged, NoRows
  <1> QED BY <1>2, <1>3, <1>5, <1>6, <1>7

\* The tables and the locals of the handlers keep their types: no balance is ever negative,
\* and no update misses its row.
THEOREM TypeCorrect == Spec => []TypeOK
  <1>1. ASSUME IInv PROVE TypeOK
    <2>1. DOMAIN db.tickets \subseteq Ticket
      BY <1>1, NextInRange, BoundsAssumption DEF IInv, Rows, Locals, Ticket
    <2>2. \A w \in Worker : tx[w] = NoRequest <=> pc[w] = "idle"
      BY <1>1 DEF IInv, Sane
    <2> QED BY <1>1, <2>1, <2>2, NextInRange, UpdatesHitRows DEF TypeOK, IInv, Rows, Locals
  <1> QED BY <1>1, Invariance, PTL

\* Only a commit changes what is on record.
LEMMA OnlyCommitsShow ==
  ASSUME IInv, [Next]_vars
  PROVE  \/ \E w \in Worker : commit(w)
         \/ UNCHANGED <<db.auth_user, db.seats, db.tickets, db.movies, deposited, paid>>
  <1>1. CASE UNCHANGED vars
    BY <1>1 DEF vars, local
  <1>2. ASSUME NEW w \in Worker, Arrive(w)
        PROVE  UNCHANGED <<db, deposited, paid>>
    BY <1>2 DEF Arrive, BuyBegin, RefundBegin, FundBegin, local
  <1>3. ASSUME NEW w \in Worker, Step(w), ~commit(w)
        PROVE  UNCHANGED <<db, deposited, paid>>
    BY <1>3 DEF Step, BuyPrice, BuyDebit, BuyInsert, BuySeat, BuyMovie, RefundCredit, RefundMark,
         RefundSeat, RefundMovie, FundCredit, Reload, AddToBalance, AddToMovie, Write, Rollback,
         local
  <1>4. ASSUME NEW w \in Worker, Fail(w)
        PROVE  UNCHANGED <<db, deposited, paid>>
    BY <1>4 DEF Fail, Rollback, local
  <1>5. ASSUME NEW c \in Screening, NEW p \in Price, form_modify_screening(c, p)
        PROVE  UNCHANGED <<db.auth_user, db.seats, db.tickets, db.movies, deposited, paid>>
    <2>1. \A t \in Table \ {"screenings"} : db'[t] = db[t]
      BY <1>5 DEF form_modify_screening, IInv, Shape
    <2> QED BY <1>5, <2>1, TableAssumption DEF form_modify_screening, local
  <1> QED BY <1>1, <1>2, <1>3, <1>4, <1>5 DEF Next

\* A commit leaves every taken seat with a valid ticket of its user: a purchase brings the
\* ticket along, and a refund takes one away only from the seat that it frees.
LEMMA CommitBacksSeats ==
  ASSUME IInv, SeatBackedByTicket, NEW w \in Worker, commit(w)
  PROVE  SeatBackedByTicket'
  <1>1. pc[w] = "commit"
    BY DEF commit, Goto
  <1>2. CASE tx[w].kind = "fund"
    <2>1. db'.tickets = db.tickets /\ db'.seats = db.seats
      BY <1>2, CommitRows
    <2> QED BY <2>1 DEF SeatBackedByTicket
  <1>3. CASE tx[w].kind # "fund"
    <2>1. /\ db'.tickets = Put(tx[w].ticket, TheTicket(w), db.tickets)
          /\ db'.seats = [db.seats EXCEPT ![tx[w].seat] = Occupant(w)]
      BY <1>3, CommitRows
    <2>2. /\ tx[w].ticket \in DOMAIN db'.tickets
          /\ db'.tickets[tx[w].ticket] = TheTicket(w)
          /\ \A t \in DOMAIN db.tickets \ {tx[w].ticket} :
               t \in DOMAIN db'.tickets /\ db'.tickets[t] = db.tickets[t]
      BY <2>1 DEF Put
    <2>3. DOMAIN db.seats = Seat
      BY DEF IInv, Rows
    <2> SUFFICES ASSUME NEW s \in Seat, db'.seats[s] # NoUser
                 PROVE  \E t \in DOMAIN db'.tickets : /\ db'.tickets[t].seat = s
                                                      /\ db'.tickets[t].user = db'.seats[s]
                                                      /\ ~db'.tickets[t].refunded
      BY DEF SeatBackedByTicket
    <2>4. CASE s = tx[w].seat
      <3>1. db'.seats[s] = Occupant(w)
        BY <2>1, <2>3, <2>4
      <3>2. tx[w].kind = "buy"
        BY <3>1 DEF Occupant
      <3>3. /\ TheTicket(w).seat = s /\ TheTicket(w).user = db'.seats[s]
            /\ TheTicket(w).refunded = FALSE
        BY <2>4, <3>1, <3>2 DEF TheTicket, Occupant
      <3> QED BY <2>2, <3>3
    <2>5. CASE s # tx[w].seat
      <3>1. db'.seats[s] = db.seats[s]
        BY <2>1, <2>3, <2>5
      <3>2. PICK t \in DOMAIN db.tickets : /\ db.tickets[t].seat = s
                                           /\ db.tickets[t].user = db.seats[s]
                                           /\ ~db.tickets[t].refunded
        BY <3>1 DEF SeatBackedByTicket
      <3>3. t # tx[w].ticket
        BY <1>1, <1>3, <2>5, <3>2, CommittedTicket, ReadyToCommit
      <3> QED BY <2>2, <3>1, <3>2, <3>3
    <2> QED BY <2>4, <2>5
  <1> QED BY <1>2, <1>3

\* However purchases, refunds and failures interleave, a seat that is shown as taken is
\* taken by someone who holds a valid ticket for it.
THEOREM SeatsBacked == Spec => []SeatBackedByTicket
  <1>1. Init => SeatBackedByTicket
    <2> SUFFICES ASSUME Init, NEW s \in Seat PROVE db.seats[s] = NoUser
      BY DEF SeatBackedByTicket
    <2> QED BY TableAssumption DEF Init
  <1>2. IInv /\ SeatBackedByTicket /\ [Next]_vars => SeatBackedByTicket'
    <2> SUFFICES ASSUME IInv, SeatBackedByTicket, [Next]_vars PROVE SeatBackedByTicket'
      OBVIOUS
    <2>1. CASE \E w \in Worker : commit(w)
      BY <2>1, CommitBacksSeats
    <2>2. CASE UNCHANGED <<db.auth_user, db.seats, db.tickets, db.movies, deposited, paid>>
      BY <2>2 DEF SeatBackedByTicket
    <2> QED BY <2>1, <2>2, OnlyCommitsShow
  <1> QED BY <1>1, <1>2, Invariance, PTL DEF Spec

-----------------------------------------------------------------------------
(* Ticketing implements TicketLedger *)

LEMMA InitRefines == Init => Ledger!Init
  <1> SUFFICES ASSUME Init PROVE Ledger!Init
    OBVIOUS
  <1>1. /\ db["auth_user"] = [u \in User |-> 0] /\ db["seats"] = [s \in Seat |-> NoUser]
        /\ db["movies"] = [m \in Movie |-> [box_office |-> 0, num_participants |-> 0]]
        /\ db["tickets"] = NoRows
    BY TableAssumption DEF Init
  <1>2. deposited = [u \in User |-> 0] /\ paid = [t \in Ticket |-> 0]
    BY DEF Init
  <1> QED BY <1>1, <1>2 DEF Ledger!Init, NoRows

\* A movie's row with other totals, and the table of movies with such a row.
Earned(row, amount, heads) == [box_office |-> row.box_office + amount,
                               num_participants |-> row.num_participants + heads]
Totals(f, m, amount, heads) == [f EXCEPT ![m].box_office = @ + amount,
                                         ![m].num_participants = @ + heads]

LEMMA MovieUpdated ==
  ASSUME NEW f \in [Movie -> [box_office : Int, num_participants : Int]], NEW m \in Movie,
         NEW a \in Int, NEW h \in Int
  PROVE  [f EXCEPT ![m] = Earned(f[m], a, h)] = Totals(f, m, a, h)
  BY DEF Earned, Totals

\* The same for what a refund takes away.
Lost(row, amount) == [box_office |-> row.box_office - amount,
                      num_participants |-> row.num_participants - 1]
TotalsLess(f, m, amount) == [f EXCEPT ![m].box_office = @ - amount,
                                      ![m].num_participants = @ - 1]

LEMMA MovieLowered ==
  ASSUME NEW f \in [Movie -> [box_office : Int, num_participants : Int]], NEW m \in Movie,
         NEW a \in Int
  PROVE  [f EXCEPT ![m] = Lost(f[m], a)] = TotalsLess(f, m, a)
  BY DEF Lost, TotalsLess

\* The commit of a purchase is a Purchase at the price that was read.
LEMMA CommitPurchases ==
  ASSUME IInv, NEW w \in Worker, commit(w), tx[w].kind = "buy"
  PROVE  Ledger!Purchase(tx[w].user, tx[w].seat, tx[w].amount)
  <1>1. pc[w] = "commit" /\ UNCHANGED <<deposited, paid>>
    <2>1. pc[w] = "commit" /\ tx[w].user \in User
      BY ReadyToCommit DEF commit, Goto
    <2>2. deposited' = deposited
      <3>1. deposited' = [deposited EXCEPT ![tx[w].user] = deposited[tx[w].user] + 0]
        BY DEF commit
      <3> QED BY <2>1, <3>1 DEF IInv, Locals
    <2> QED BY <2>1, <2>2 DEF commit
  <1>2. Change(w) = -tx[w].amount /\ Heads(w) = 1 /\ Film(w) = Shows[tx[w].seat]
    BY DEF Change, Heads, Film
  <1>3. /\ tx[w].user \in User /\ tx[w].amount \in Int /\ UserRow(w) \in Nat
        /\ tx[w].seat \in Seat /\ Film(w) \in Movie
        /\ tx[w].ticket \in 1 .. next - 1
    BY <1>1, ReadyToCommit
  <1>4. db.auth_user[tx[w].user] \in Nat /\ UserRow(w) = db.auth_user[tx[w].user] - tx[w].amount
    BY <1>2, <1>3 DEF UserRow, IInv, Rows
  <1>5. tx[w].ticket \in Ticket \ DOMAIN db.tickets
    <2>1. tx[w].ticket \notin DOMAIN db.tickets
      BY <1>1, CommittedTicket
    <2>2. tx[w].ticket \in Ticket
      BY <1>3, NextInRange, BoundsAssumption DEF Ticket, IInv, Locals
    <2> QED BY <2>1, <2>2
  <1>6. db.auth_user[tx[w].user] >= tx[w].amount
    BY <1>3, <1>4
  <1>7. db'.auth_user = [db.auth_user EXCEPT ![tx[w].user] = db.auth_user[tx[w].user] - tx[w].amount]
    BY <1>4, CommitRows
  <1>8. db'.seats = [db.seats EXCEPT ![tx[w].seat] = tx[w].user]
    BY CommitRows DEF Occupant
  <1>9. db'.tickets = [i \in DOMAIN db.tickets \cup {tx[w].ticket} |->
                         IF i = tx[w].ticket
                         THEN [user |-> tx[w].user, seat |-> tx[w].seat, price |-> tx[w].amount,
                               refunded |-> FALSE]
                         ELSE db.tickets[i]]
    <2>1. db'.tickets = Put(tx[w].ticket, TheTicket(w), db.tickets)
      BY CommitRows
    <2>2. TheTicket(w) = [user |-> tx[w].user, seat |-> tx[w].seat, price |-> tx[w].amount,
                          refunded |-> FALSE]
      BY DEF TheTicket
    <2> QED BY <2>1, <2>2, Zenon DEF Put
  <1>10. db'.movies = [db.movies EXCEPT
                         ![Shows[tx[w].seat]].box_office = @ + tx[w].amount,
                         ![Shows[tx[w].seat]].num_participants = @ + 1]
    <2>1. db'.movies = [db.movies EXCEPT ![Film(w)] = MovieRow(w)]
      BY CommitRows
    <2>2. db.movies[Film(w)] \in [box_office : Int, num_participants : Int]
      BY <1>3 DEF IInv, Rows
    <2>3. MovieRow(w) = Earned(db.movies[Film(w)], tx[w].amount, 1)
      BY <1>2, <1>3, <2>2 DEF MovieRow, Earned
    <2>4. db'.movies = Totals(db.movies, Film(w), tx[w].amount, 1)
      BY <1>3, <2>1, <2>3, MovieUpdated, SMTT(30) DEF IInv, Rows
    <2> QED BY <1>2, <2>4, Zenon DEF Totals
  <1> QED BY <1>1, <1>5, <1>6, <1>7, <1>8, <1>9, <1>10 DEF Ledger!Purchase

\* The commit of a refund is a Refund of the ticket at the price it was bought for.
LEMMA CommitRefunds ==
  ASSUME IInv, NEW w \in Worker, commit(w), tx[w].kind = "refund"
  PROVE  tx[w].ticket \in Ticket /\ Ledger!Refund(tx[w].ticket)
  <1> DEFINE t == tx[w].ticket
             b == db.tickets[t]
  <1>1. pc[w] = "commit" /\ deposited' = deposited /\ paid' = [paid EXCEPT ![t] = @ + 1]
    <2>1. pc[w] = "commit" /\ tx[w].user \in User
      BY ReadyToCommit DEF commit, Goto
    <2>2. deposited' = deposited
      <3>1. deposited' = [deposited EXCEPT ![tx[w].user] = deposited[tx[w].user] + 0]
        BY DEF commit
      <3> QED BY <2>1, <3>1 DEF IInv, Locals
    <2> QED BY <2>1, <2>2 DEF commit
  <1>2. /\ t \in DOMAIN db.tickets /\ b \in TicketRow
        /\ b.user = tx[w].user /\ b.seat = tx[w].seat /\ b.price = tx[w].amount
        /\ TheTicket(w) = [b EXCEPT !.refunded = TRUE]
    BY <1>1, CommittedTicket
  <1>3. Change(w) = b.price /\ Heads(w) = -1 /\ Film(w) = Shows[b.seat] /\ Occupant(w) = NoUser
    BY <1>2 DEF Change, Heads, Film, Occupant
  <1>4. /\ tx[w].user \in User /\ tx[w].amount \in Int /\ UserRow(w) \in Nat
        /\ tx[w].seat \in Seat /\ Film(w) \in Movie
        /\ t \in 1 .. next - 1
    BY <1>1, ReadyToCommit
  <1>5. t \in Ticket
    BY <1>4, NextInRange, BoundsAssumption DEF Ticket, IInv, Locals
  <1>6. db'.auth_user = [db.auth_user EXCEPT ![b.user] = @ + b.price]
    BY <1>2, <1>3, CommitRows DEF UserRow
  <1>7. db'.seats = [db.seats EXCEPT ![b.seat] = NoUser]
    BY <1>2, <1>3, CommitRows, ZenonT(40)
  <1>8. db'.tickets = [db.tickets EXCEPT ![t].refunded = TRUE]
    <2>1. db'.tickets = Put(t, [b EXCEPT !.refunded = TRUE], db.tickets)
      BY <1>2, CommitRows
    <2>2. DOMAIN db.tickets \cup {t} = DOMAIN db.tickets
      BY <1>2
    <2>3. Put(t, [b EXCEPT !.refunded = TRUE], db.tickets)
            = [j \in DOMAIN db.tickets |->
                 IF j = t THEN [b EXCEPT !.refunded = TRUE] ELSE db.tickets[j]]
      BY <2>2, Zenon DEF Put
    <2>4. db.tickets = [j \in DOMAIN db.tickets |-> db.tickets[j]]
      BY DEF IInv, Rows
    <2> QED BY <2>1, <2>3, <2>4
  <1>9. db'.movies = [db.movies EXCEPT ![Shows[b.seat]].box_office = @ - b.price,
                                       ![Shows[b.seat]].num_participants = @ - 1]
    <2>1. db'.movies = [db.movies EXCEPT ![Film(w)] = MovieRow(w)]
      BY CommitRows
    <2>2. db.movies[Film(w)] \in [box_office : Int, num_participants : Int]
      BY <1>4 DEF IInv, Rows
    <2>3. MovieRow(w) = Lost(db.movies[Film(w)], b.price)
      BY <1>2, <1>3, <1>4, <2>2 DEF MovieRow, Lost
    <2>4. b.price \in Int
      BY <1>2, <1>4
    <2>5. [db.movies EXCEPT ![Film(w)] = Lost(db.movies[Film(w)], b.price)]
            = TotalsLess(db.movies, Film(w), b.price)
      <3> DEFINE f == db.movies
                 m == Film(w)
                 a == b.price
      <3>1. f \in [Movie -> [box_office : Int, num_participants : Int]] /\ m \in Movie /\ a \in Int
        BY <1>4, <2>4 DEF IInv, Rows
      <3> HIDE DEF f, m, a
      <3>2. [f EXCEPT ![m] = Lost(f[m], a)] = TotalsLess(f, m, a)
        BY <3>1, MovieLowered
      <3> QED BY <3>2 DEF f, m, a
    <2>6. db'.movies = TotalsLess(db.movies, Film(w), b.price)
      BY <2>1, <2>3, <2>5, Zenon
    <2> QED BY <1>3, <2>6, Zenon DEF TotalsLess
  <1> QED BY <1>1, <1>2, <1>5, <1>6, <1>7, <1>8, <1>9 DEF Ledger!Refund

\* The commit of a deposit is a Deposit.
LEMMA CommitDeposits ==
  ASSUME IInv, NEW w \in Worker, commit(w), tx[w].kind = "fund"
  PROVE  Ledger!Deposit(tx[w].user, tx[w].amount)
  <1>1. pc[w] = "commit" /\ paid' = paid
        /\ deposited' = [deposited EXCEPT ![tx[w].user] = @ + tx[w].amount]
    BY DEF commit, Goto
  <1>2. UserRow(w) = db.auth_user[tx[w].user] + tx[w].amount /\ UserRow(w) \in Nat
    BY <1>1, ReadyToCommit DEF UserRow, Change
  <1>3. db'.auth_user = [db.auth_user EXCEPT ![tx[w].user] = @ + tx[w].amount]
    BY <1>2, CommitRows
  <1>4. db'.tickets = db.tickets /\ db'.seats = db.seats /\ db'.movies = db.movies
    BY CommitRows
  <1> QED BY <1>1, <1>2, <1>3, <1>4 DEF Ledger!Deposit

LEMMA StepRefines == IInv /\ [Next]_vars => [Ledger!Next]_(Ledger!vars)
  <1> SUFFICES ASSUME IInv, [Next]_vars PROVE [Ledger!Next]_(Ledger!vars)
    OBVIOUS
  <1>1. ASSUME NEW w \in Worker, commit(w) PROVE Ledger!Next
    <2>1. pc[w] = "commit"
      BY <1>1 DEF commit, Goto
    <2>2. tx[w].user \in User /\ tx[w].kind \in {"buy", "refund", "fund"}
      BY <2>1, ReadyToCommit
    <2>3. CASE tx[w].kind = "buy"
      <3>1. tx[w].seat \in Seat /\ tx[w].amount \in Price
        BY <2>1, <2>3, ReadyToCommit, CommittedTicket
      <3> QED BY <1>1, <2>2, <2>3, <3>1, CommitPurchases DEF Ledger!Next
    <2>4. CASE tx[w].kind = "refund"
      BY <1>1, <2>4, CommitRefunds DEF Ledger!Next
    <2>5. CASE tx[w].kind = "fund"
      <3>1. tx[w].amount \in Fund
        BY <2>1, <2>5, ReadyToCommit
      <3> QED BY <1>1, <2>2, <2>5, <3>1, CommitDeposits DEF Ledger!Next
    <2> QED BY <2>2, <2>3, <2>4, <2>5
  <1>2. CASE UNCHANGED <<db.auth_user, db.seats, db.tickets, db.movies, deposited, paid>>
    BY <1>2 DEF Ledger!vars
  <1> QED BY <1>1, <1>2, OnlyCommitsShow

\* What is committed is the outcome of whole purchases, refunds and deposits, one after the
\* other, for any number of workers and however their statements interleave and fail.
THEOREM Refinement == Spec => ImplementsLedger
  BY InitRefines, StepRefines, Invariance, PTL DEF Spec, ImplementsLedger, Ledger!Spec

-----------------------------------------------------------------------------
(* The books balance *)

\* What each ticket has cost its buyer, and how many viewers it stands for; the tickets that
\* a user has bought, and those sold for a movie.
CostOf(rows, p) == [t \in DOMAIN rows |-> (1 - p[t]) * rows[t].price]
HeadOf(rows, p) == [t \in DOMAIN rows |-> 1 - p[t]]
Bought(rows, u) == {t \in DOMAIN rows : rows[t].user = u}
SoldFor(rows, m) == {t \in DOMAIN rows : Shows[rows[t].seat] = m}

AreTickets(rows) == DOMAIN rows \subseteq Ticket /\ \A t \in DOMAIN rows : rows[t] \in TicketRow
Sold == AreTickets(db.tickets) /\ paid \in [Ticket -> Nat]

\* No ticket is refunded before it is sold; the ledgers, with sums of functions.
Books ==
  /\ \A t \in Ticket \ DOMAIN db.tickets : paid[t] = 0
  /\ \A u \in User :
       db.auth_user[u] = deposited[u] - Total(CostOf(db.tickets, paid), Bought(db.tickets, u))
  /\ \A m \in Movie :
       /\ db.movies[m].box_office = Total(CostOf(db.tickets, paid), SoldFor(db.tickets, m))
       /\ db.movies[m].num_participants = Total(HeadOf(db.tickets, paid), SoldFor(db.tickets, m))

LEMMA SoldInIInv == IInv => Sold
  BY NextInRange, BoundsAssumption DEF Sold, AreTickets, IInv, Rows, Locals, Ticket

\* Tickets are finitely many, and each costs an integer.
LEMMA TicketsAreFinite ==
  ASSUME NEW rows, AreTickets(rows), NEW S \in SUBSET DOMAIN rows
  PROVE  IsFiniteSet(S)
  <1>1. IsFiniteSet(Ticket)
    BY BoundsAssumption, FS_Interval DEF Ticket
  <1> QED BY <1>1, FS_Subset DEF AreTickets

LEMMA CostsAreInts ==
  ASSUME NEW rows, AreTickets(rows), NEW p \in [Ticket -> Nat], NEW t \in DOMAIN rows
  PROVE  /\ CostOf(rows, p)[t] = (1 - p[t]) * rows[t].price
         /\ HeadOf(rows, p)[t] = 1 - p[t]
         /\ CostOf(rows, p)[t] \in Int /\ HeadOf(rows, p)[t] \in Int
         /\ p[t] \in Nat /\ rows[t].price \in Int
  <1>1. p[t] \in Nat /\ rows[t].price \in Int
    BY AmountsAssumption DEF TicketRow, AreTickets
  <1>2. \A a, b \in Int : a * b \in Int
    OBVIOUS
  <1>3. (1 - p[t]) * rows[t].price \in Int /\ 1 - p[t] \in Int
    BY <1>1, <1>2
  <1> QED BY <1>1, <1>3 DEF CostOf, HeadOf

\* The sums of the specification are these.
LEMMA CostSum ==
  ASSUME Sold, NEW S \in SUBSET DOMAIN db.tickets
  PROVE  Ledger!SumOver(S, Ledger!Cost) = Total(CostOf(db.tickets, paid), S)
  <1> DEFINE f == CostOf(db.tickets, paid)
             iter == CHOOSE h : h = [s \in SUBSET S |->
                                       IF s = {} THEN 0
                                       ELSE (1 - paid[CHOOSE x \in s : TRUE])
                                              * db.tickets[CHOOSE x \in s : TRUE].price
                                              + h[s \ {CHOOSE x \in s : TRUE}]]
  <1>1. Ledger!SumOver(S, Ledger!Cost) = iter[S]
    BY DEF Ledger!SumOver, Ledger!Cost, Ledger!MapThenSumSet, Ledger!MapThenFoldSet
  <1>2. IsFiniteSet(S) /\ \A t \in S : f[t] \in Int /\ f[t] = (1 - paid[t]) * db.tickets[t].price
    BY TicketsAreFinite, CostsAreInts DEF Sold
  <1>3. PICK g \in [SUBSET S -> Int] : IsSum(g, f, S)
    <2> HIDE DEF f
    <2> QED BY <1>2, SumExists
  <1>4. g = [s \in SUBSET S |-> IF s = {} THEN 0
                                ELSE (1 - paid[CHOOSE x \in s : TRUE])
                                       * db.tickets[CHOOSE x \in s : TRUE].price
                                       + g[s \ {CHOOSE x \in s : TRUE}]]
    <2> HIDE DEF f
    <2> QED BY <1>2, <1>3, OneOfIsIn DEF IsSum, OneOf
  <1>5. iter = [s \in SUBSET S |-> IF s = {} THEN 0
                                   ELSE (1 - paid[CHOOSE x \in s : TRUE])
                                          * db.tickets[CHOOSE x \in s : TRUE].price
                                          + iter[s \ {CHOOSE x \in s : TRUE}]]
    BY <1>4
  <1>6. IsSum(iter, f, S)
    <2> HIDE DEF f, iter
    <2> QED BY <1>2, <1>5, OneOfIsIn DEF IsSum, OneOf
  <1> HIDE DEF iter, f
  <1>7. Total(f, S) = iter[S]
    BY <1>2, <1>6, TotalIs
  <1> QED BY <1>1, <1>7 DEF f

LEMMA HeadSum ==
  ASSUME Sold, NEW S \in SUBSET DOMAIN db.tickets
  PROVE  Ledger!SumOver(S, LAMBDA t : 1 - paid[t]) = Total(HeadOf(db.tickets, paid), S)
  <1> DEFINE f == HeadOf(db.tickets, paid)
             iter == CHOOSE h : h = [s \in SUBSET S |->
                                       IF s = {} THEN 0
                                       ELSE (1 - paid[CHOOSE x \in s : TRUE])
                                              + h[s \ {CHOOSE x \in s : TRUE}]]
  <1>1. Ledger!SumOver(S, LAMBDA t : 1 - paid[t]) = iter[S]
    BY DEF Ledger!SumOver, Ledger!MapThenSumSet, Ledger!MapThenFoldSet
  <1>2. IsFiniteSet(S) /\ \A t \in S : f[t] \in Int /\ f[t] = 1 - paid[t]
    BY TicketsAreFinite, CostsAreInts DEF Sold
  <1>3. PICK g \in [SUBSET S -> Int] : IsSum(g, f, S)
    <2> HIDE DEF f
    <2> QED BY <1>2, SumExists
  <1>4. g = [s \in SUBSET S |-> IF s = {} THEN 0
                                ELSE (1 - paid[CHOOSE x \in s : TRUE])
                                       + g[s \ {CHOOSE x \in s : TRUE}]]
    <2> HIDE DEF f
    <2> QED BY <1>2, <1>3, OneOfIsIn DEF IsSum, OneOf
  <1>5. iter = [s \in SUBSET S |-> IF s = {} THEN 0
                                   ELSE (1 - paid[CHOOSE x \in s : TRUE])
                                          + iter[s \ {CHOOSE x \in s : TRUE}]]
    BY <1>4
  <1>6. IsSum(iter, f, S)
    <2> HIDE DEF f, iter
    <2> QED BY <1>2, <1>5, OneOfIsIn DEF IsSum, OneOf
  <1> HIDE DEF iter, f
  <1>7. Total(f, S) = iter[S]
    BY <1>2, <1>6, TotalIs
  <1> QED BY <1>1, <1>7 DEF f

LEMMA BooksAreTheLedgers ==
  ASSUME Sold, Books
  PROVE  UserLedger /\ MovieLedger
  <1>1. ASSUME NEW u \in User
        PROVE  db.auth_user[u] = deposited[u] - Ledger!SumOver(Bought(db.tickets, u), Ledger!Cost)
    <2>1. Bought(db.tickets, u) \in SUBSET DOMAIN db.tickets
      BY DEF Bought
    <2> QED BY <2>1, CostSum DEF Books
  <1>2. ASSUME NEW m \in Movie
        PROVE  /\ db.movies[m].box_office = Ledger!SumOver(SoldFor(db.tickets, m), Ledger!Cost)
               /\ db.movies[m].num_participants
                    = Ledger!SumOver(SoldFor(db.tickets, m), LAMBDA t : 1 - paid[t])
    <2>1. SoldFor(db.tickets, m) \in SUBSET DOMAIN db.tickets
      BY DEF SoldFor
    <2> QED BY <2>1, CostSum, HeadSum DEF Books
  <1>3. UserLedger
    BY <1>1 DEF UserLedger, Ledger!UserLedger, Bought
  <1>4. MovieLedger
    BY <1>2 DEF MovieLedger, Ledger!MovieLedger, SoldFor
  <1> QED BY <1>3, <1>4

\* A purchase adds the price of the new ticket to the sums of its buyer and its movie.
LEMMA SumsAfterPurchase ==
  ASSUME NEW rows, AreTickets(rows), NEW p \in [Ticket -> Nat], NEW t \in Ticket \ DOMAIN rows, p[t] = 0,
         NEW row \in TicketRow, NEW more, more = Put(t, row, rows),
         NEW S \in SUBSET DOMAIN rows
  PROVE  /\ Total(CostOf(more, p), S) = Total(CostOf(rows, p), S)
         /\ Total(HeadOf(more, p), S) = Total(HeadOf(rows, p), S)
         /\ Total(CostOf(more, p), S \cup {t}) = Total(CostOf(rows, p), S) + row.price
         /\ Total(HeadOf(more, p), S \cup {t}) = Total(HeadOf(rows, p), S) + 1
  <1>1. /\ DOMAIN more = DOMAIN rows \cup {t} /\ more[t] = row
        /\ \A i \in DOMAIN rows : more[i] = rows[i]
    BY DEF Put
  <1>2. AreTickets(more)
    BY <1>1 DEF AreTickets
  <1>3. \A i \in S : /\ CostOf(rows, p)[i] \in Int /\ CostOf(rows, p)[i] = CostOf(more, p)[i]
                     /\ HeadOf(rows, p)[i] \in Int /\ HeadOf(rows, p)[i] = HeadOf(more, p)[i]
    <2> SUFFICES ASSUME NEW i \in S
                 PROVE  /\ CostOf(rows, p)[i] \in Int /\ CostOf(rows, p)[i] = CostOf(more, p)[i]
                        /\ HeadOf(rows, p)[i] \in Int /\ HeadOf(rows, p)[i] = HeadOf(more, p)[i]
      OBVIOUS
    <2>1. more[i] = rows[i] /\ i \in DOMAIN more /\ i \in DOMAIN rows
      BY <1>1
    <2> QED BY <1>2, <2>1, CostsAreInts
  <1>4. CostOf(more, p)[t] = row.price /\ HeadOf(more, p)[t] = 1 /\ row.price \in Int
    <2>1. /\ CostOf(more, p)[t] = (1 - p[t]) * more[t].price /\ HeadOf(more, p)[t] = 1 - p[t]
          /\ more[t].price \in Int
      BY <1>1, <1>2, CostsAreInts
    <2>2. \A a \in Int : (1 - 0) * a = a
      OBVIOUS
    <2> QED BY <1>1, <2>1, <2>2
  <1>5. IsFiniteSet(S) /\ t \notin S
    BY TicketsAreFinite
  <1>6. /\ Total(CostOf(more, p), S) = Total(CostOf(rows, p), S)
        /\ Total(HeadOf(more, p), S) = Total(HeadOf(rows, p), S)
    BY <1>3, <1>5, TotalSame
  <1>7. Total(CostOf(more, p), S \cup {t}) = Total(CostOf(rows, p), S) + row.price
    <2> DEFINE f == CostOf(rows, p)
               e == CostOf(more, p)
    <2>1. Total(e, S \cup {t}) = Total(f, S) + e[t]
      <3>1. e[t] \in Int /\ \A i \in S : f[i] \in Int /\ f[i] = e[i]
        BY <1>3, <1>4
      <3> HIDE DEF f, e
      <3> QED BY <1>5, <3>1, TotalGrow
    <2> QED BY <1>4, <2>1
  <1>8. Total(HeadOf(more, p), S \cup {t}) = Total(HeadOf(rows, p), S) + 1
    <2> DEFINE f == HeadOf(rows, p)
               e == HeadOf(more, p)
    <2>1. Total(e, S \cup {t}) = Total(f, S) + e[t]
      <3>1. e[t] \in Int /\ \A i \in S : f[i] \in Int /\ f[i] = e[i]
        BY <1>3, <1>4
      <3> HIDE DEF f, e
      <3> QED BY <1>5, <3>1, TotalGrow
    <2> QED BY <1>4, <2>1
  <1> QED BY <1>6, <1>7, <1>8

LEMMA SumsAreInts ==
  ASSUME NEW rows, AreTickets(rows), NEW p \in [Ticket -> Nat], NEW S \in SUBSET DOMAIN rows
  PROVE  Total(CostOf(rows, p), S) \in Int /\ Total(HeadOf(rows, p), S) \in Int
  <1>1. \A t \in S : CostOf(rows, p)[t] \in Int /\ HeadOf(rows, p)[t] \in Int
    BY CostsAreInts
  <1>2. IsFiniteSet(S)
    BY TicketsAreFinite
  <1> QED BY <1>1, <1>2, TotalType

\* A refund takes the price of the ticket from them, whether or not this was done before.
LEMMA SumsAfterRefund ==
  ASSUME NEW rows, AreTickets(rows), NEW p \in [Ticket -> Nat], NEW t \in DOMAIN rows,
         NEW less, AreTickets(less), DOMAIN less = DOMAIN rows,
         \A i \in DOMAIN rows : less[i].price = rows[i].price,
         NEW q \in [Ticket -> Nat], q[t] = p[t] + 1, \A i \in Ticket \ {t} : q[i] = p[i],
         NEW S \in SUBSET DOMAIN rows
  PROVE  /\ Total(CostOf(less, q), S)
              = Total(CostOf(rows, p), S) - (IF t \in S THEN rows[t].price ELSE 0)
         /\ Total(HeadOf(less, q), S) = Total(HeadOf(rows, p), S) - (IF t \in S THEN 1 ELSE 0)
  <1>1. /\ p[t] \in Nat /\ q \in [Ticket -> Nat] /\ q[t] = p[t] + 1
        /\ \A i \in DOMAIN rows \ {t} : q[i] = p[i]
    BY DEF AreTickets
  <1>2. ASSUME NEW i \in DOMAIN rows
        PROVE  /\ CostOf(rows, p)[i] \in Int /\ CostOf(less, q)[i] \in Int
               /\ HeadOf(rows, p)[i] \in Int /\ HeadOf(less, q)[i] \in Int
               /\ i # t => /\ CostOf(rows, p)[i] = CostOf(less, q)[i]
                           /\ HeadOf(rows, p)[i] = HeadOf(less, q)[i]
    <2>1. /\ CostOf(rows, p)[i] = (1 - p[i]) * rows[i].price /\ HeadOf(rows, p)[i] = 1 - p[i]
          /\ CostOf(rows, p)[i] \in Int /\ HeadOf(rows, p)[i] \in Int
      BY CostsAreInts
    <2>2. /\ CostOf(less, q)[i] = (1 - q[i]) * less[i].price /\ HeadOf(less, q)[i] = 1 - q[i]
          /\ CostOf(less, q)[i] \in Int /\ HeadOf(less, q)[i] \in Int
      <3>1. i \in DOMAIN less
        OBVIOUS
      <3> QED BY <1>1, <3>1, CostsAreInts
    <2>3. i # t => q[i] = p[i] /\ less[i].price = rows[i].price
      BY <1>1
    <2> QED BY <2>1, <2>2, <2>3, Zenon
  <1>3. /\ CostOf(less, q)[t] - CostOf(rows, p)[t] = -rows[t].price
        /\ HeadOf(less, q)[t] - HeadOf(rows, p)[t] = -1
        /\ rows[t].price \in Int
    <2>1. /\ CostOf(rows, p)[t] = (1 - p[t]) * rows[t].price /\ HeadOf(rows, p)[t] = 1 - p[t]
          /\ rows[t].price \in Int
      BY CostsAreInts
    <2>2. CostOf(less, q)[t] = (1 - q[t]) * less[t].price /\ HeadOf(less, q)[t] = 1 - q[t]
      <3>1. t \in DOMAIN less
        OBVIOUS
      <3> QED BY <1>1, <3>1, CostsAreInts
    <2>3. \A n, a \in Int : (1 - (n + 1)) * a - (1 - n) * a = -a
      OBVIOUS
    <2>4. \A n \in Int : (1 - (n + 1)) - (1 - n) = -1
      OBVIOUS
    <2>5. less[t].price = rows[t].price
      OBVIOUS
    <2>6. p[t] \in Int /\ q[t] = p[t] + 1
      BY <1>1
    <2> QED BY <2>1, <2>2, <2>3, <2>4, <2>5, <2>6
  <1>4. IsFiniteSet(S)
    BY TicketsAreFinite
  <1>5. Total(CostOf(rows, p), S) \in Int /\ Total(HeadOf(rows, p), S) \in Int
    BY <1>2, <1>4, TotalType
  <1>6. CASE t \in S
    <2>1. Total(CostOf(less, q), S)
            = Total(CostOf(rows, p), S) + (CostOf(less, q)[t] - CostOf(rows, p)[t])
      <3> DEFINE f == CostOf(rows, p)
                 e == CostOf(less, q)
      <3>1. /\ \A i \in S : f[i] \in Int /\ e[i] \in Int
            /\ \A i \in S \ {t} : f[i] = e[i]
        BY <1>2
      <3> HIDE DEF f, e
      <3>2. Total(e, S) = Total(f, S) + (e[t] - f[t])
        BY <1>4, <1>6, <3>1, TotalChange
      <3> QED BY <3>2 DEF f, e
    <2>2. Total(HeadOf(less, q), S)
            = Total(HeadOf(rows, p), S) + (HeadOf(less, q)[t] - HeadOf(rows, p)[t])
      <3> DEFINE f == HeadOf(rows, p)
                 e == HeadOf(less, q)
      <3>1. /\ \A i \in S : f[i] \in Int /\ e[i] \in Int
            /\ \A i \in S \ {t} : f[i] = e[i]
        BY <1>2
      <3> HIDE DEF f, e
      <3>2. Total(e, S) = Total(f, S) + (e[t] - f[t])
        BY <1>4, <1>6, <3>1, TotalChange
      <3> QED BY <3>2 DEF f, e
    <2> QED BY <1>3, <1>5, <1>6, <2>1, <2>2
  <1>7. CASE t \notin S
    <2>1. /\ Total(CostOf(less, q), S) = Total(CostOf(rows, p), S)
          /\ Total(HeadOf(less, q), S) = Total(HeadOf(rows, p), S)
      BY <1>2, <1>4, <1>7, TotalSame
    <2> QED BY <1>5, <1>7, <2>1
  <1> QED BY <1>6, <1>7

LEMMA BooksBegin == Init => Books
  <1> SUFFICES ASSUME Init PROVE Books
    OBVIOUS
  <1>1. /\ db["auth_user"] = [u \in User |-> 0] /\ db["tickets"] = NoRows
        /\ db["movies"] = [m \in Movie |-> [box_office |-> 0, num_participants |-> 0]]
        /\ deposited = [u \in User |-> 0] /\ paid = [t \in Ticket |-> 0]
    BY TableAssumption DEF Init
  <1>2. /\ \A u : Bought(db.tickets, u) = {}
        /\ \A m : SoldFor(db.tickets, m) = {}
    BY <1>1 DEF Bought, SoldFor, NoRows
  <1>3. 0 = 0 - 0
    OBVIOUS
  <1> QED BY <1>1, <1>2, <1>3, TotalEmpty DEF Books

LEMMA PurchaseKeepsBooks ==
  ASSUME IInv, Books, NEW u \in User, NEW s \in Seat, NEW p \in Price, Ledger!Purchase(u, s, p)
  PROVE  Books'
  <1> DEFINE row == [user |-> u, seat |-> s, price |-> p, refunded |-> FALSE]
  <1>1. PICK t \in Ticket \ DOMAIN db.tickets :
          /\ db'.auth_user = [db.auth_user EXCEPT ![u] = @ - p]
          /\ db'.tickets = Put(t, row, db.tickets)
          /\ db'.movies = Totals(db.movies, Shows[s], p, 1)
    BY Zenon DEF Ledger!Purchase, Put, Totals
  <1>2. deposited' = deposited /\ paid' = paid
    BY DEF Ledger!Purchase
  <1>3. AreTickets(db.tickets) /\ paid \in [Ticket -> Nat]
    BY SoldInIInv DEF Sold
  <1>4. row \in TicketRow /\ p \in Int /\ paid[t] = 0
    BY AmountsAssumption DEF TicketRow, Books
  <1>5. /\ DOMAIN db'.tickets = DOMAIN db.tickets \cup {t} /\ db'.tickets[t] = row
        /\ \A i \in DOMAIN db.tickets : db'.tickets[i] = db.tickets[i]
    BY <1>1 DEF Put
  <1> HIDE DEF row
  <1>6. ASSUME NEW S \in SUBSET DOMAIN db.tickets
        PROVE  /\ Total(CostOf(db.tickets, paid), S) \in Int
               /\ Total(HeadOf(db.tickets, paid), S) \in Int
               /\ Total(CostOf(db'.tickets, paid), S) = Total(CostOf(db.tickets, paid), S)
               /\ Total(HeadOf(db'.tickets, paid), S) = Total(HeadOf(db.tickets, paid), S)
               /\ Total(CostOf(db'.tickets, paid), S \cup {t})
                    = Total(CostOf(db.tickets, paid), S) + p
               /\ Total(HeadOf(db'.tickets, paid), S \cup {t})
                    = Total(HeadOf(db.tickets, paid), S) + 1
    <2>1. row.price = p
      BY DEF row
    <2>2. Total(CostOf(db.tickets, paid), S) \in Int /\ Total(HeadOf(db.tickets, paid), S) \in Int
      BY <1>3, SumsAreInts
    <2> DEFINE more == db'.tickets
               rows == db.tickets
    <2>3. more = Put(t, row, rows) /\ t \in Ticket \ DOMAIN rows /\ AreTickets(rows)
      BY <1>1, <1>3
    <2> HIDE DEF more, rows
    <2>4. /\ Total(CostOf(more, paid), S) = Total(CostOf(rows, paid), S)
          /\ Total(HeadOf(more, paid), S) = Total(HeadOf(rows, paid), S)
          /\ Total(CostOf(more, paid), S \cup {t}) = Total(CostOf(rows, paid), S) + row.price
          /\ Total(HeadOf(more, paid), S \cup {t}) = Total(HeadOf(rows, paid), S) + 1
      <3>1. S \in SUBSET DOMAIN rows
        BY DEF rows
      <3> QED BY <1>3, <1>4, <2>3, <3>1, SumsAfterPurchase
    <2> QED BY <2>1, <2>2, <2>4 DEF more, rows
  <1>7. ASSUME NEW v \in User
        PROVE  db'.auth_user[v]
                 = deposited[v] - Total(CostOf(db'.tickets, paid), Bought(db'.tickets, v))
    <2>1. Bought(db.tickets, v) \in SUBSET DOMAIN db.tickets
      BY DEF Bought
    <2>2. /\ Bought(db'.tickets, v) = Bought(db.tickets, v) \cup (IF v = u THEN {t} ELSE {})
      BY <1>5 DEF Bought, row
    <2>3. db'.auth_user[v] = db.auth_user[v] - (IF v = u THEN p ELSE 0)
      BY <1>1 DEF IInv, Rows
    <2>4. db.auth_user[v] = deposited[v] - Total(CostOf(db.tickets, paid), Bought(db.tickets, v))
      BY DEF Books
    <2>5. deposited[v] \in Int
      BY DEF IInv, Locals
    <2> DEFINE before == Total(CostOf(db.tickets, paid), Bought(db.tickets, v))
               after == Total(CostOf(db'.tickets, paid), Bought(db'.tickets, v))
    <2>6. before \in Int /\ after = before + (IF v = u THEN p ELSE 0)
      <3>1. CASE v = u
        BY <1>6, <2>1, <2>2, <3>1
      <3>2. CASE v # u
        <4>1. Bought(db'.tickets, v) = Bought(db.tickets, v)
          BY <2>2, <3>2
        <4>2. after = before /\ before \in Int
          BY <1>6, <2>1, <4>1
        <4> HIDE DEF before, after
        <4> QED BY <3>2, <4>2
      <3> QED BY <3>1, <3>2
    <2> HIDE DEF before, after
    <2> QED BY <1>4, <2>3, <2>4, <2>5, <2>6 DEF before, after
  <1>8. ASSUME NEW m \in Movie
        PROVE  /\ db'.movies[m].box_office
                    = Total(CostOf(db'.tickets, paid), SoldFor(db'.tickets, m))
               /\ db'.movies[m].num_participants
                    = Total(HeadOf(db'.tickets, paid), SoldFor(db'.tickets, m))
    <2>1. SoldFor(db.tickets, m) \in SUBSET DOMAIN db.tickets
      BY DEF SoldFor
    <2>2. SoldFor(db'.tickets, m)
            = SoldFor(db.tickets, m) \cup (IF m = Shows[s] THEN {t} ELSE {})
      BY <1>5 DEF SoldFor, row
    <2>3. /\ db.movies[m].box_office = Total(CostOf(db.tickets, paid), SoldFor(db.tickets, m))
          /\ db.movies[m].num_participants
               = Total(HeadOf(db.tickets, paid), SoldFor(db.tickets, m))
      BY DEF Books
    <2>4. CASE m = Shows[s]
      <3>1. /\ db'.movies[m].box_office = db.movies[m].box_office + p
            /\ db'.movies[m].num_participants = db.movies[m].num_participants + 1
        BY <1>1, <2>4 DEF Totals, IInv, Rows
      <3>2. SoldFor(db'.tickets, m) = SoldFor(db.tickets, m) \cup {t}
        BY <2>2, <2>4
      <3> QED BY <1>6, <2>1, <2>3, <3>1, <3>2
    <2>5. CASE m # Shows[s]
      <3>1. db'.movies[m] = db.movies[m]
        BY <1>1, <2>5 DEF Totals, IInv, Rows
      <3>2. SoldFor(db'.tickets, m) = SoldFor(db.tickets, m)
        BY <2>2, <2>5
      <3> QED BY <1>6, <2>1, <2>3, <3>1, <3>2
    <2> QED BY <2>4, <2>5
  <1>9. \A i \in Ticket \ DOMAIN db'.tickets : paid'[i] = 0
    BY <1>2, <1>5 DEF Books
  <1> QED BY <1>2, <1>7, <1>8, <1>9 DEF Books

LEMMA RefundKeepsBooks ==
  ASSUME IInv, Books, NEW t \in Ticket, Ledger!Refund(t)
  PROVE  Books'
  <1> DEFINE b == db.tickets[t]
  <1>1. /\ t \in DOMAIN db.tickets
        /\ db'.auth_user = [db.auth_user EXCEPT ![b.user] = @ + b.price]
        /\ db'.tickets = [db.tickets EXCEPT ![t].refunded = TRUE]
        /\ db'.movies = TotalsLess(db.movies, Shows[b.seat], b.price)
        /\ paid' = [paid EXCEPT ![t] = @ + 1]
        /\ deposited' = deposited
    BY Zenon DEF Ledger!Refund, TotalsLess
  <1>2. AreTickets(db.tickets) /\ paid \in [Ticket -> Nat]
    BY SoldInIInv DEF Sold
  <1>3. b \in TicketRow /\ b.price \in Int
    BY <1>1, <1>2, AmountsAssumption DEF AreTickets, TicketRow
  <1>4. /\ DOMAIN db'.tickets = DOMAIN db.tickets
        /\ \A i \in DOMAIN db.tickets : /\ db'.tickets[i] \in TicketRow
                                        /\ db'.tickets[i].price = db.tickets[i].price
                                        /\ db'.tickets[i].user = db.tickets[i].user
                                        /\ db'.tickets[i].seat = db.tickets[i].seat
    <2>1. \A i \in DOMAIN db.tickets :
            db'.tickets[i] = IF i = t THEN [b EXCEPT !.refunded = TRUE] ELSE db.tickets[i]
      BY <1>1
    <2>2. DOMAIN db'.tickets = DOMAIN db.tickets
      BY <1>1
    <2>3. \A i \in DOMAIN db.tickets : db.tickets[i] \in TicketRow
      BY <1>2 DEF AreTickets
    <2>4. ASSUME NEW row \in TicketRow, NEW new, new = [row EXCEPT !.refunded = TRUE]
          PROVE  /\ new \in TicketRow /\ new.price = row.price
                 /\ new.user = row.user /\ new.seat = row.seat
      BY <2>4 DEF TicketRow
    <2> QED BY <2>1, <2>2, <2>3, <2>4
  <1>5. AreTickets(db'.tickets)
    BY <1>2, <1>4 DEF AreTickets
  <1>6. /\ paid' \in [Ticket -> Nat] /\ paid'[t] = paid[t] + 1
        /\ \A i \in Ticket \ {t} : paid'[i] = paid[i]
    BY <1>1, <1>2
  <1> HIDE DEF b
  <1>7. ASSUME NEW S \in SUBSET DOMAIN db.tickets
        PROVE  /\ Total(CostOf(db.tickets, paid), S) \in Int
               /\ Total(HeadOf(db.tickets, paid), S) \in Int
               /\ Total(CostOf(db'.tickets, paid'), S)
                    = Total(CostOf(db.tickets, paid), S) - (IF t \in S THEN b.price ELSE 0)
               /\ Total(HeadOf(db'.tickets, paid'), S)
                    = Total(HeadOf(db.tickets, paid), S) - (IF t \in S THEN 1 ELSE 0)
    <2>1. Total(CostOf(db.tickets, paid), S) \in Int /\ Total(HeadOf(db.tickets, paid), S) \in Int
      BY <1>2, SumsAreInts
    <2> DEFINE less == db'.tickets
               rows == db.tickets
               q == paid'
    <2>2. /\ AreTickets(rows) /\ AreTickets(less) /\ DOMAIN less = DOMAIN rows
          /\ \A i \in DOMAIN rows : less[i].price = rows[i].price
          /\ q \in [Ticket -> Nat] /\ q[t] = paid[t] + 1 /\ \A i \in Ticket \ {t} : q[i] = paid[i]
          /\ t \in DOMAIN rows /\ S \in SUBSET DOMAIN rows
      BY <1>1, <1>2, <1>4, <1>5, <1>6
    <2> HIDE DEF less, rows, q
    <2>3. /\ Total(CostOf(less, q), S)
               = Total(CostOf(rows, paid), S) - (IF t \in S THEN rows[t].price ELSE 0)
          /\ Total(HeadOf(less, q), S)
               = Total(HeadOf(rows, paid), S) - (IF t \in S THEN 1 ELSE 0)
      BY <1>2, <2>2, SumsAfterRefund
    <2> QED BY <2>1, <2>3 DEF less, rows, q, b
  <1>8. ASSUME NEW v \in User
        PROVE  db'.auth_user[v]
                 = deposited[v] - Total(CostOf(db'.tickets, paid'), Bought(db'.tickets, v))
    <2>1. /\ Bought(db.tickets, v) \in SUBSET DOMAIN db.tickets
          /\ Bought(db'.tickets, v) = Bought(db.tickets, v)
          /\ t \in Bought(db.tickets, v) <=> v = b.user
      BY <1>1, <1>4 DEF Bought, b
    <2>2. db'.auth_user[v] = db.auth_user[v] + (IF v = b.user THEN b.price ELSE 0)
      BY <1>1 DEF IInv, Rows
    <2>3. db.auth_user[v] = deposited[v] - Total(CostOf(db.tickets, paid), Bought(db.tickets, v))
      BY DEF Books
    <2>4. deposited[v] \in Int
      BY DEF IInv, Locals
    <2> DEFINE before == Total(CostOf(db.tickets, paid), Bought(db.tickets, v))
               after == Total(CostOf(db'.tickets, paid'), Bought(db'.tickets, v))
    <2>5. before \in Int /\ after = before - (IF v = b.user THEN b.price ELSE 0)
      BY <1>7, <2>1
    <2> HIDE DEF before, after
    <2> QED BY <1>3, <2>2, <2>3, <2>4, <2>5 DEF before, after
  <1>9. ASSUME NEW m \in Movie
        PROVE  /\ db'.movies[m].box_office
                    = Total(CostOf(db'.tickets, paid'), SoldFor(db'.tickets, m))
               /\ db'.movies[m].num_participants
                    = Total(HeadOf(db'.tickets, paid'), SoldFor(db'.tickets, m))
    <2>1. /\ SoldFor(db.tickets, m) \in SUBSET DOMAIN db.tickets
          /\ SoldFor(db'.tickets, m) = SoldFor(db.tickets, m)
          /\ t \in SoldFor(db.tickets, m) <=> m = Shows[b.seat]
      BY <1>1, <1>4 DEF SoldFor, b
    <2>2. /\ db.movies[m].box_office = Total(CostOf(db.tickets, paid), SoldFor(db.tickets, m))
          /\ db.movies[m].num_participants
               = Total(HeadOf(db.tickets, paid), SoldFor(db.tickets, m))
      BY DEF Books
    <2>3. CASE m = Shows[b.seat]
      <3>1. /\ db'.movies[m].box_office = db.movies[m].box_office - b.price
            /\ db'.movies[m].num_participants = db.movies[m].num_participants - 1
        BY <1>1, <2>3 DEF TotalsLess, IInv, Rows
      <3> QED BY <1>7, <2>1, <2>2, <2>3, <3>1, SMTT(30)
    <2>4. CASE m # Shows[b.seat]
      <3>1. db'.movies[m] = db.movies[m]
        BY <1>1, <2>4 DEF TotalsLess, IInv, Rows
      <3>2. \A n \in Int : n - 0 = n
        OBVIOUS
      <3> QED BY <1>7, <2>1, <2>2, <2>4, <3>1, <3>2, SMTT(30)
    <2> QED BY <2>3, <2>4
  <1>10. \A i \in Ticket \ DOMAIN db'.tickets : paid'[i] = 0
    BY <1>1, <1>4, <1>6 DEF Books
  <1> QED BY <1>1, <1>8, <1>9, <1>10 DEF Books

LEMMA DepositKeepsBooks ==
  ASSUME IInv, Books, NEW u \in User, NEW a \in Fund, Ledger!Deposit(u, a)
  PROVE  Books'
  <1>1. /\ db'.auth_user = [db.auth_user EXCEPT ![u] = @ + a]
        /\ deposited' = [deposited EXCEPT ![u] = @ + a]
        /\ db'.tickets = db.tickets /\ db'.movies = db.movies /\ paid' = paid
    BY DEF Ledger!Deposit
  <1>2. ASSUME NEW v \in User
        PROVE  db'.auth_user[v]
                 = deposited'[v] - Total(CostOf(db.tickets, paid), Bought(db.tickets, v))
    <2> DEFINE spent == Total(CostOf(db.tickets, paid), Bought(db.tickets, v))
    <2>1. Bought(db.tickets, v) \in SUBSET DOMAIN db.tickets
      BY DEF Bought
    <2>2. spent \in Int
      BY <2>1, SoldInIInv, SumsAreInts DEF Sold
    <2>3. db.auth_user[v] = deposited[v] - spent
      BY DEF Books
    <2> HIDE DEF spent
    <2>4. deposited[v] \in Int /\ a \in Int
      BY AmountsAssumption DEF IInv, Locals
    <2>5. db'.auth_user[v] = db.auth_user[v] + (IF v = u THEN a ELSE 0)
      BY <1>1 DEF IInv, Rows
    <2>6. deposited'[v] = deposited[v] + (IF v = u THEN a ELSE 0)
      BY <1>1 DEF IInv, Locals
    <2>7. db'.auth_user[v] = deposited'[v] - spent
      BY <2>2, <2>3, <2>4, <2>5, <2>6
    <2> QED BY <2>7 DEF spent
  <1> QED BY <1>1, <1>2 DEF Books

LEMMA BooksKept == IInv /\ Books /\ [Next]_vars => Books'
  <1> SUFFICES ASSUME IInv, Books, [Next]_vars PROVE Books'
    OBVIOUS
  <1>1. CASE Ledger!Next
    BY <1>1, PurchaseKeepsBooks, RefundKeepsBooks, DepositKeepsBooks DEF Ledger!Next
  <1>2. CASE UNCHANGED Ledger!vars
    BY <1>2 DEF Ledger!vars, Books
  <1> QED BY <1>1, <1>2, StepRefines

LEMMA BooksInvariant == Spec => []Books
  BY BooksBegin, BooksKept, Invariance, PTL DEF Spec

LEMMA LedgersAddUp == IInv /\ Books => UserLedger /\ MovieLedger
  BY SoldInIInv, BooksAreTheLedgers

\* Every user has exactly what was deposited, less the tickets bought, plus the refunds: for
\* any number of users, tickets and workers, and whatever prices change in between.
THEOREM UsersAddUp == Spec => []UserLedger
  BY LedgersAddUp, BooksInvariant, Invariance, PTL

\* A movie's box office is what was paid for its tickets less every refund that was paid of
\* one, its audience one for every ticket less one for every refund: whoever buys and pays
\* back at the same time, and even if a ticket is paid back twice.
THEOREM MoviesAddUp == Spec => []MovieLedger
  BY LedgersAddUp, BooksInvariant, Invariance, PTL
=============================================================================
