------------------------------ MODULE Ticketing ------------------------------
(***************************************************************************)
(* Buying and refunding tickets (WebApp/tickets.cpp), adding funds         *)
(* (WebApp/users.cpp) and repricing a screening (WebApp/movie_manage.cpp), *)
(* at the granularity of SQL statements: several workers serve requests,   *)
(* and the statements of their transactions interleave.                    *)
(*                                                                         *)
(* A request is of a user who is logged in.  Selects of rows that never    *)
(* change (the seat of a screening, the movie it shows) are part of the    *)
(* step that uses them.  What reload_user_info puts into the session is    *)
(* the subject of Accounts.                                                *)
(***************************************************************************)
EXTENDS Integers, FiniteSets, ReadCommitted

CONSTANTS User, Seat, Screening, Movie,
          NoUser,       \* NULL in seats.user_id
          ScreeningOf,  \* seats.screening_id
          MovieOf,      \* screenings.movie_id
          Price,        \* the prices a screening may have
          Fund,         \* the amounts add_funds may be called with
          MaxTickets,   \* bound on the tickets ever inserted
          MaxFunds      \* bound on what one user deposits

ASSUME WorkerAssumption == IsFiniteSet(Worker)
ASSUME NoUserAssumption == NoUser \notin User
ASSUME TableAssumption == Table = {"auth_user", "seats", "tickets", "movies", "screenings"}
ASSUME SchemaAssumption == ScreeningOf \in [Seat -> Screening] /\ MovieOf \in [Screening -> Movie]
ASSUME AmountsAssumption == Price \subseteq Int /\ Fund \subseteq Int
ASSUME BoundsAssumption == MaxTickets \in Nat /\ MaxFunds \in Nat

Ticket == 1 .. MaxTickets
Shows == [s \in Seat |-> MovieOf[ScreeningOf[s]]]

VARIABLES pc,         \* the statement each worker runs next
          tx,         \* the local variables of its handler
          next,       \* tickets_ticket_id_seq
          deposited,  \* history: how much each user has added in all
          paid        \* history: how many times each ticket was refunded

local == <<next, deposited, paid>>
vars == <<db, writes, pc, tx, local>>

Buying == {"price", "debit", "insert", "occupy", "earn"}
Refunding == {"credit", "mark", "vacate", "repay"}
Label == {"idle", "fund", "commit", "reload"} \cup Buying \cup Refunding

TicketRow == [user : User, seat : Seat, price : Price, refunded : BOOLEAN]

\* The locals of a handler: whose request it is; the seat and the ticket it is about; the
\* price it has read, or the amount it adds.
Request == [kind : {"buy", "refund", "fund"}, user : User, seat : Seat \cup {"none"},
            ticket : Ticket \cup {0}, amount : Int]
NoRequest == [kind |-> "none"]

TypeOK ==
  /\ \A t \in {"auth_user", "seats", "movies", "screenings"} : \A w \in Worker :
       DOMAIN writes[w][t] \subseteq DOMAIN db[t]
  /\ db.auth_user \in [User -> Nat]
  /\ db.seats \in [Seat -> User \cup {NoUser}]
  /\ db.movies \in [Movie -> [box_office : Int, num_participants : Int]]
  /\ db.screenings \in [Screening -> Price]
  /\ DOMAIN db.tickets \subseteq Ticket
  /\ \A t \in DOMAIN db.tickets : db.tickets[t] \in TicketRow
  /\ pc \in [Worker -> Label]
  /\ tx \in [Worker -> Request \cup {NoRequest}]
  /\ \A w \in Worker : tx[w] = NoRequest <=> pc[w] = "idle"
  /\ next \in Ticket \cup {MaxTickets + 1}
  /\ deposited \in [User -> Int]
  /\ paid \in [Ticket -> Nat]

-----------------------------------------------------------------------------
Init ==
  /\ \E price \in [Screening -> Price] :
       db = [t \in Table |->
               CASE t = "auth_user" -> [u \in User |-> 0]
                 [] t = "seats" -> [s \in Seat |-> NoUser]
                 [] t = "movies" -> [m \in Movie |-> [box_office |-> 0, num_participants |-> 0]]
                 [] t = "screenings" -> price
                 [] t = "tickets" -> NoRows]
  /\ Begun
  /\ pc = [w \in Worker |-> "idle"]
  /\ tx = [w \in Worker |-> NoRequest]
  /\ next = 1
  /\ deposited = [u \in User |-> 0]
  /\ paid = [t \in Ticket |-> 0]

\* Worker w runs the statement labelled from, and to is the one after it.
Goto(w, from, to) == pc[w] = from /\ pc' = [pc EXCEPT ![w] = to]

Begin(w, label, request) == /\ Goto(w, "idle", label)
                            /\ tx' = [tx EXCEPT ![w] = request]

\* The handler returns: its locals are gone.
Return(w, from) == /\ Goto(w, from, "idle")
                   /\ tx' = [tx EXCEPT ![w] = NoRequest]

\* Faulty: the column has no CHECK constraint.
AddUnchecked(w, from, to, amount) ==
  /\ Goto(w, from, to)
  /\ Write(w, "auth_user", tx[w].user, View(w, "auth_user")[tx[w].user] + amount)
  /\ UNCHANGED <<tx, local>>

\* update auth_user set balance = balance + amount: the CHECK constraint fails the
\* statement, and with it the handler, when the balance would become negative.
AddToBalance(w, from, to, amount) ==
  LET u == tx[w].user
      balance == View(w, "auth_user")[u] + amount
  IN /\ pc[w] = from
     /\ \/ /\ balance >= 0
           /\ Goto(w, from, to)
           /\ Write(w, "auth_user", u, balance)
           /\ UNCHANGED tx
        \/ /\ balance < 0
           /\ Unlocked(w, "auth_user", u)
           /\ Return(w, from)
           /\ Rollback(w)
     /\ UNCHANGED local

\* update movies set box_office = ..., num_participants = ...
AddToMovie(w, from, amount, heads) ==
  LET m == Shows[tx[w].seat]
      row == View(w, "movies")[m]
  IN /\ Goto(w, from, "commit")
     /\ Write(w, "movies", m, [box_office |-> row.box_office + amount,
                               num_participants |-> row.num_participants + heads])
     /\ UNCHANGED <<tx, local>>

-----------------------------------------------------------------------------
(* buy_ticket *)

\* The tickets already inserted, or about to be: keeps ids within MaxTickets.
Inserting == {w \in Worker : pc[w] \in {"price", "debit", "insert"}}

\* A user submits the form for a seat.  The page offered the seats that were free when it
\* was rendered, which says nothing about now: the seat is looked up by its name, and its
\* user_id is not looked at.
BuyBegin(w, u, s) ==
  /\ next + Cardinality(Inserting) <= MaxTickets
  /\ Begin(w, "price", [kind |-> "buy", user |-> u, seat |-> s, ticket |-> 0, amount |-> 0])
  /\ UNCHANGED <<db, writes, local>>

BuyPrice(w) ==
  /\ Goto(w, "price", "debit")
  /\ tx' = [tx EXCEPT ![w].amount = View(w, "screenings")[ScreeningOf[tx[w].seat]]]
  /\ UNCHANGED <<db, writes, local>>

BuyDebit(w) == AddToBalance(w, "debit", "insert", -tx[w].amount)

\* The id comes from a sequence, which no rollback winds back.
BuyInsert(w) ==
  /\ Goto(w, "insert", "occupy")
  /\ Write(w, "tickets", next, [user |-> tx[w].user, seat |-> tx[w].seat,
                                price |-> tx[w].amount, refunded |-> FALSE])
  /\ tx' = [tx EXCEPT ![w].ticket = next]
  /\ next' = next + 1
  /\ UNCHANGED <<deposited, paid>>

\* Faulty: the user_id of the seat is not set.
BuyNoSeat(w) == /\ Goto(w, "occupy", "earn")
                /\ UNCHANGED <<db, writes, tx, local>>

BuySeat(w) == /\ Goto(w, "occupy", "earn")
              /\ Write(w, "seats", tx[w].seat, tx[w].user)
              /\ UNCHANGED <<tx, local>>

BuyMovie(w) == AddToMovie(w, "earn", tx[w].amount, 1)

-----------------------------------------------------------------------------
(* refund_ticket *)

\* Faulty: any user may have a ticket refunded.
RefundAnyones(w, u, t) ==
  /\ t \in DOMAIN db.tickets
  /\ ~db.tickets[t].refunded
  /\ Begin(w, "credit", [kind |-> "refund", user |-> u, seat |-> db.tickets[t].seat,
                         ticket |-> t, amount |-> db.tickets[t].price])
  /\ UNCHANGED <<db, writes, local>>

\* The ticket is read, and the request refused unless it is the user's own and not yet
\* refunded.  The rest of the handler works from this copy of the row.
RefundBegin(w, u, t) ==
  /\ t \in DOMAIN db.tickets
  /\ db.tickets[t].user = u
  /\ ~db.tickets[t].refunded
  /\ Begin(w, "credit", [kind |-> "refund", user |-> u, seat |-> db.tickets[t].seat,
                         ticket |-> t, amount |-> db.tickets[t].price])
  /\ UNCHANGED <<db, writes, local>>

RefundCredit(w) == AddToBalance(w, "credit", "mark", tx[w].amount)

RefundMark(w) ==
  /\ Goto(w, "mark", "vacate")
  /\ Write(w, "tickets", tx[w].ticket,
           [View(w, "tickets")[tx[w].ticket] EXCEPT !.refunded = TRUE])
  /\ UNCHANGED <<tx, local>>

\* Faulty: the seat stays taken.
RefundKeepsSeat(w) == /\ Goto(w, "vacate", "repay")
                      /\ UNCHANGED <<db, writes, tx, local>>

RefundSeat(w) == /\ Goto(w, "vacate", "repay")
                 /\ Write(w, "seats", tx[w].seat, NoUser)
                 /\ UNCHANGED <<tx, local>>

\* Faulty: the box office loses what the screening costs now.
RefundAtCurrentPrice(w) ==
  AddToMovie(w, "repay", -db.screenings[ScreeningOf[tx[w].seat]], -1)

RefundMovie(w) == AddToMovie(w, "repay", -tx[w].amount, -1)

-----------------------------------------------------------------------------
(* add_funds and form_modify_screening *)

FundBegin(w, u, a) ==
  /\ deposited[u] + a \in 0 .. MaxFunds
  /\ Begin(w, "fund", [kind |-> "fund", user |-> u, seat |-> "none", ticket |-> 0, amount |-> a])
  /\ UNCHANGED <<db, writes, local>>

FundCredit(w) == AddToBalance(w, "fund", "commit", tx[w].amount)

\* A manager changes a price: one statement, one transaction, and no other writer of
\* the row.
form_modify_screening(c, p) == /\ db' = [db EXCEPT !.screenings[c] = p]
                               /\ UNCHANGED <<writes, pc, tx, local>>

-----------------------------------------------------------------------------
(* The end of every transaction, and reload_user_info *)

\* tx.commit(): everything the transaction wrote becomes visible at once.
commit(w) ==
  LET q == tx[w] IN
  /\ Goto(w, "commit", "reload")
  /\ Commit(w)
  /\ deposited' = [deposited EXCEPT ![q.user] = @ + (IF q.kind = "fund" THEN q.amount ELSE 0)]
  /\ paid' = IF q.kind = "refund" THEN [paid EXCEPT ![q.ticket] = @ + 1] ELSE paid
  /\ UNCHANGED <<tx, next>>

\* The user's row is read again, in a transaction of its own, for the session.
Reload(w) == /\ Return(w, "reload")
             /\ UNCHANGED <<db, writes, local>>

\* Faulty: a handler that fails leaves its transaction open.
FailWithoutRollback(w) == /\ pc[w] # "idle"
                          /\ Return(w, pc[w])
                          /\ UNCHANGED <<db, writes, local>>

\* Any statement may throw, most likely because the connection to the database is lost.
\* The handler is left, and ~db_transaction() rolls back what was not committed.  After
\* the commit this is a request that took effect and is answered with an error.
Fail(w) == /\ pc[w] # "idle"
           /\ Return(w, pc[w])
           /\ Rollback(w)
           /\ UNCHANGED local

-----------------------------------------------------------------------------
\* The rest of a handler, once begun.
Step(w) == \/ BuyPrice(w) \/ BuyDebit(w) \/ BuyInsert(w) \/ BuySeat(w) \/ BuyMovie(w)
           \/ RefundCredit(w) \/ RefundMark(w) \/ RefundSeat(w) \/ RefundMovie(w)
           \/ FundCredit(w)
           \/ commit(w) \/ Reload(w)

Arrive(w) == \E u \in User : \/ \E s \in Seat : BuyBegin(w, u, s)
                             \/ \E t \in Ticket : RefundBegin(w, u, t)
                             \/ \E a \in Fund : FundBegin(w, u, a)

Next == \/ \E w \in Worker : Arrive(w) \/ Step(w) \/ Fail(w)
        \/ \E c \in Screening, p \in Price : form_modify_screening(c, p)

Spec == Init /\ [][Next]_vars

\* A worker runs on, and PostgreSQL queues the transactions that wait for a row, so a
\* statement whose row is free again and again is not passed over for ever.
FairSpec == Spec /\ \A w \in Worker : SF_vars(Step(w))

-----------------------------------------------------------------------------
\* A seat that is shown as taken is taken by someone who holds a valid ticket for it.
SeatBackedByTicket ==
  \A s \in Seat : db.seats[s] # NoUser =>
    \E t \in DOMAIN db.tickets : /\ db.tickets[t].seat = s
                                 /\ db.tickets[t].user = db.seats[s]
                                 /\ ~db.tickets[t].refunded

\* What is committed is the outcome of whole purchases, refunds and deposits, one after the
\* other, although their statements interleave: no update is lost, no transaction is
\* half done, and a price that changes in between is never half applied.
Ledger == INSTANCE TicketLedger
            WITH balance <- db.auth_user, seats <- db.seats, tickets <- db.tickets,
                 movies <- db.movies

ImplementsLedger == Ledger!Spec

\* Every user's balance adds up, and every movie's box office and audience.
UserLedger == Ledger!UserLedger
MovieLedger == Ledger!MovieLedger

\* Every request is answered: transactions never wait for each other in a circle.
RequestsFinish == \A w \in Worker : pc[w] # "idle" ~> pc[w] = "idle"

\* tickets.cpp:174 says that a purchase sets the user of the seat to the ticket holder.
SeatHeldByTicketHolder ==
  \A t \in DOMAIN db.tickets :
    ~db.tickets[t].refunded => db.seats[db.tickets[t].seat] = db.tickets[t].user

\* tickets.cpp:214 refuses to refund a ticket that "has already been refunded".
RefundedOnce == \A t \in Ticket : paid[t] <= 1
=============================================================================
