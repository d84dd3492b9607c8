---------------------------- MODULE TicketLedger ----------------------------
(***************************************************************************)
(* What selling and refunding tickets means, without statements, locks or  *)
(* transactions: each purchase, refund and deposit takes effect at once    *)
(* and entirely.  Ticketing, where several workers run their statements    *)
(* interleaved, implements it.                                             *)
(***************************************************************************)
EXTENDS Integers, FiniteSetsExt

CONSTANTS User, Seat, Movie,
          NoUser,    \* NULL in seats.user_id
          Price,     \* the prices a screening may have
          Fund,      \* the amounts add_funds may be called with
          Ticket,    \* ticket ids
          Shows      \* the movie that the screening of a seat shows

VARIABLES balance,   \* auth_user.balance
          seats,     \* seats.user_id
          tickets,   \* the tickets sold: id -> [user, seat, price, refunded]
          movies,    \* movies.box_office and movies.num_participants
          deposited, \* how much each user has added in all
          paid       \* how many times each ticket was refunded

vars == <<balance, seats, tickets, movies, deposited, paid>>

Init == /\ balance = [u \in User |-> 0]
        /\ seats = [s \in Seat |-> NoUser]
        /\ tickets = [t \in {} |-> 0]
        /\ movies = [m \in Movie |-> [box_office |-> 0, num_participants |-> 0]]
        /\ deposited = [u \in User |-> 0]
        /\ paid = [t \in Ticket |-> 0]

\* u buys a ticket for seat s at price p: the balance must cover it.  Nothing requires
\* the seat to be free.
Purchase(u, s, p) ==
  \E t \in Ticket \ DOMAIN tickets :
    /\ balance[u] >= p
    /\ balance' = [balance EXCEPT ![u] = @ - p]
    /\ seats' = [seats EXCEPT ![s] = u]
    /\ tickets' = [i \in DOMAIN tickets \cup {t} |->
                     IF i = t THEN [user |-> u, seat |-> s, price |-> p, refunded |-> FALSE]
                     ELSE tickets[i]]
    /\ movies' = [movies EXCEPT ![Shows[s]].box_office = @ + p,
                                ![Shows[s]].num_participants = @ + 1]
    /\ UNCHANGED <<deposited, paid>>

\* The price ticket t was bought for goes back from the movie to its holder, and its seat
\* is freed.  Nothing requires that this was not done before.
Refund(t) ==
  LET b == tickets[t] IN
  /\ t \in DOMAIN tickets
  /\ balance' = [balance EXCEPT ![b.user] = @ + b.price]
  /\ seats' = [seats EXCEPT ![b.seat] = NoUser]
  /\ tickets' = [tickets EXCEPT ![t].refunded = TRUE]
  /\ movies' = [movies EXCEPT ![Shows[b.seat]].box_office = @ - b.price,
                              ![Shows[b.seat]].num_participants = @ - 1]
  /\ paid' = [paid EXCEPT ![t] = @ + 1]
  /\ UNCHANGED deposited

\* u adds a, which may be negative, to a balance that stays nonnegative.
Deposit(u, a) == /\ balance[u] + a >= 0
                 /\ balance' = [balance EXCEPT ![u] = @ + a]
                 /\ deposited' = [deposited EXCEPT ![u] = @ + a]
                 /\ UNCHANGED <<seats, tickets, movies, paid>>

Next == \/ \E u \in User, s \in Seat, p \in Price : Purchase(u, s, p)
        \/ \E t \in Ticket : Refund(t)
        \/ \E u \in User, a \in Fund : Deposit(u, a)

Spec == Init /\ [][Next]_vars

-----------------------------------------------------------------------------
SumOver(S, f(_)) == MapThenSumSet(f, S)

\* What a ticket has cost its buyer so far.
Cost(t) == (1 - paid[t]) * tickets[t].price

\* Every user has exactly what was deposited, less the tickets bought, plus the refunds.
UserLedger ==
  \A u \in User :
    balance[u] = deposited[u] - SumOver({t \in DOMAIN tickets : tickets[t].user = u}, Cost)

\* A movie's box office is what was paid for its tickets less every refund that was paid of
\* one, and its audience one for every ticket less one for every refund.  A ticket that was
\* refunded twice counts twice against its movie.
MovieLedger ==
  \A m \in Movie :
    LET sold == {t \in DOMAIN tickets : Shows[tickets[t].seat] = m}
        Head(t) == 1 - paid[t]
    IN /\ movies[m].box_office = SumOver(sold, Cost)
       /\ movies[m].num_participants = SumOver(sold, Head)
=============================================================================
