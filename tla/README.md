# Verification of MovieDBProject

This directory holds TLA+ models of the movie ticket server in `src/`: the `bserv` library
(HTTP server, router, sessions, database connections) and `WebApp`, the ticket shop built
on it. TLC checks the models on small instances; TLAPS proves the theorems about them for
every value of their constants.

    tlc -workers 2 -config MCTicketing.cfg MCTicketing.tla     # one run
    tlapm ConnectionPool_proofs.tla                            # one proof module

`PROJECT.json` lists the runs, the faulty variants that show each property can fail, the
lines each definition models, the hazards of the code and the theorems.

## 1. Inventory of the system

A request travels like this. `listener` accepts a connection and makes an `http_session`,
which reads a request and spawns a coroutine for it on the `io_context` that
`num_threads` threads run. `handle_request` asks the `router` for the first path that
matches. The router evaluates the parameters the handler declares: the session (from the
cookie, through the session manager), the JSON parameters, a database connection (from the
pool, which may block the thread). The handler runs SQL statements in a `db_transaction`,
changes the session object, renders a page. When it returns or throws, the connection goes
back to the pool, and the response is written.

| Component | State | Operations | What is hard | What makes it correct |
|---|---|---|---|---|
| Connection pool (`bserv/database.cpp`) | queue of idle connections, two mutexes | `get_or_block`, `~db_connection` | a mutex used as a semaphore, locked by one thread and unlocked by another | no connection twice or lost, no pop of an empty queue, no unlock of an open mutex, no lost wake-up |
| Session manager (`bserv/session.cpp`) | four maps and a priority queue | `get_or_create`, `try_get`, purge of expired sessions in both | five containers that must agree; expiry only when somebody calls | a key leads to its session until it expires and never after; no session under two keys |
| Transactions (`bserv/include/bserv/database.hpp`, PostgreSQL) | committed rows, row locks | `exec`, `commit`, roll-back by the destructor | READ COMMITTED: what was read may have changed when it is used | see the users below |
| Ticket sales (`WebApp/tickets.cpp`, `add_funds`, `form_modify_screening`) | `auth_user.balance`, `seats`, `tickets`, `movies`, `screenings` | buy, refund, add funds, reprice | several statements over four tables, interleaved with other requests, any of them failing | money adds up, transactions are whole, a seat has one valid ticket, a ticket is refunded once |
| Accounts and permissions (`WebApp/users.cpp`, `permissions.cpp`) | `auth_user`, the user's row in the session, the global permission map | login, logout, register, modify, `reload_user_info`, permission checks | the session holds a copy of the row; nothing locks it; a slow request writes it back | permissions match a role the user had; a logout stays a logout |
| Session lookup (`bserv/include/bserv/router.hpp`, `bserv/bserv.cpp`) | cookies of the browser, Set-Cookie of the response | placeholder -1 | several cookies of one name, several first requests, a response that loses its cookie | a browser with a living session gets that session, and nobody else does; a login stays |
| Comments (`WebApp/comments.cpp`) | `comments`, `movies.avg_rating` | add, modify | check then insert; an average over what is committed | one comment per user and movie, the average is that of the comments |
| Catalogue (`WebApp/movies.cpp`, `room.cpp`, `movie_manage.cpp`) | `movies`, `screening_rooms`, `screenings`, `seats`, `announcements` | register, modify, review, add screening with its seats | check then insert; many inserts in one transaction | one name is given twice only by overlapping registrations or an edit; a screening has as many seats as its room |
| HTTP session, listener, server (`bserv/bserv.cpp`) | one socket, parser and response per session, threads | read, write, close, accept, signals | callbacks, a 30 s timer that runs on while the handler works | one response per request, in order; a session ends |
| Router and parameters (`router.hpp`, `utils.cpp`, `WebApp.cpp`) | per request: the index in the table, `url_params`, what the loop of `parse_params` holds | first match, parameter evaluation from the last to the first, `parse_params`, `parse_url`, `decode_url` | order of paths, repeated keys, malformed input, an exception half-way | one path matches; body and URL parameters merge as declared; links reach their handlers |
| Statements (`bserv/include/bserv/database.hpp`) | the query under construction | `exec`, `convert_to_optional` | `?` and `??`, too few or too many parameters, marks inside them | what is sent is what the pattern means |
| Pagination (`movies.cpp`, `users.cpp`, `room.cpp`) | none | window of page links | first and last pages | the window is inside the pages and contains the current page |
| WebSocket, HTTP client, rendering, logging, configuration | sockets, files | I/O | - | not modelled: straight-line I/O |

The handlers share the database, where PostgreSQL's row locks order them; the session
object, which nothing protects; and the pool. Two threads and four connections is the
configuration shipped in `config.json`.

## 2. Modules

| Module | What it is |
|---|---|
| `BoundedPool` | abstract: a set of connections, handed to waiting requests and put back; a waiting request and an available connection do not stay side by side |
| `ConnectionPool` | the pool, one action per statement that touches a lock or the queue |
| `ConnectionPool_proofs` | its invariants and its refinement of `BoundedPool`, proved |
| `SessionStore` | abstract: sessions that die `Ttl` after their last visit |
| `SessionManager` | the five containers and the two operations, with the purge at their head |
| `SessionLookup` | browsers and their cookies, requests that look their session up and may fail or get lost, over `SessionManager` |
| `SessionLookup_proofs` | the invariants of `SessionManager` and its refinement of `SessionStore`; that a browser finds its session, shares it with nobody and stays logged in, proved |
| `Params` | the loop of `parse_params` and the merging of body and URL, with what they should yield said without a loop |
| `Statement` | one statement of a handler: the substitution of parameters, and the result |
| `Router` | from the path of a request to its answer, over `Params` and `Statement` |
| `ReadCommitted` | external: PostgreSQL's transactions as the handlers use them |
| `TicketLedger` | abstract: purchases, refunds and deposits, each atomic |
| `Ticketing` | the handlers of ticket sales, one action per SQL statement, over `ReadCommitted` |
| `Ticketing_proofs` | its types, `SeatBackedByTicket`, its refinement of `TicketLedger` and that the ledgers add up, proved |
| `Sums_proofs` | sums over finite sets: the lemmas that `Ticketing_proofs` and `Comments_proofs` rest on |
| `Comments` | `add_comment` and `modify_comment`, one action per SQL statement, over `ReadCommitted` |
| `Comments_proofs` | its types, `OnlyAuthorsEdit` and `AverageSettles`, proved |
| `Accounts` | login, logout, reload, registration and modification of users by requests that share unlocked sessions |
| `Accounts_proofs` | its types, `RoalsAreGiven` and `LastAnswerStands`, proved |
| `Catalog` | movies, rooms and screenings with their seats, one action per SQL statement where another request can come between, over `ReadCommitted` |
| `Pagination` | the pages of a list and the links between them; constants only |
| `Catalog_proofs` | the types of `Catalog`, `ScreeningsAreWhole` and `DuplicatesHaveRaced`; that pages cover the rows and that links are right, for every list, proved |
| `Dialogue` | abstract: requests of a connection served one at a time, in order, each answered |
| `HttpServer` | listener, HTTP sessions, the threads and timers that drive them, over `BoundedPool` |
| `HttpServer_proofs` | its invariants and its refinement of `Dialogue`; the routes, the types of `Router` and what `Statement` sends, and that parameters arrive as declared, proved |
| `MCConnectionPool`, `MCSessionLookup`, `MCRouter`, `MCTicketing`, `MCComments`, `MCAccounts`, `MCCatalog`, `MCHttpServer` | instances for TLC |

Definitions named `...Always`, `...Inclusive`, `Refund...` and so on with a comment that
starts with "Faulty" are variants of the code with a plausible bug. No specification uses
them; each is there to show that some property fails when the code is wrong.

### ConnectionPool

`pc[r]` is the statement request `r` runs next in `get_or_block()` or in the destructor,
`queueLock` the owner of `queue_lock_`, `counterLocked` whether `counter_lock_` is locked
(it has no owner: one request locks it, another may unlock it). The lock guard of
`get_or_block()` lives until the function has returned, so `Leave` and not `Signal` frees
the queue. `Head` and `Tail` of an empty queue stand for the undefined behaviour of
`front()` and `pop()`; `NeverPopsEmpty` says they are never evaluated.

Fairness: a thread that holds what it needs goes on (`Local`); a free mutex is given to
some waiter. `std::mutex` makes no promise to a single waiter, so none is assumed, and the
abstract pool promises only that *some* waiting request is served. Nothing is assumed of
`Finish`: a handler may keep its connection for ever.

### SessionManager

Both operations hold `lock_` for their whole body, so each is one action. `Overdue` is the
set of queue entries the loop at lines 12 and 56 removes; since the queue is ordered by
expiry, stopping at the first entry that is not overdue removes exactly those. A session
object is represented by the number of the `make_shared` call that made it. `now` is the
steady clock in units that divide `Ttl`. Random keys are any unused key. The refinement
maps the containers to the sessions that have not expired: purging is a stutter, and time
passing removes sessions in the abstract store although the code has not run.

### SessionLookup

`SessionLookup` extends `SessionManager` by the requests around it, so that `Tick` and the
calls of `get_or_create` and `try_get` are those of the module below, with its histories.
`req[r]` is a request on its way: sent with the cookies the browser had (`Send`), searching
through a list of cookies (`Try`, one call of `try_get` each), found or given a session
(`Lookup`), handled, answered, delivered or lost. Another request of the same or another
browser, or the clock, may come between any two of these. `jar[b]` is the cookie of browser
`b`; `Foreign` is one of the same name that another program has set, sent before or after
ours, which makes `parse_params` put both into `list_params`. `Throw` is an exception after
the session was looked up: `handle_request` answers with a fresh response, without the
cookie. `guests` and `member` are histories.

A single cookie that is not found leads to a new session under a new key, a list is tried in
order. Random keys are keys that were never used (`issued`): 32 random characters
(`session.cpp:24`) that repeat are outside the model, as is a browser that makes up a
cookie. What holds of logins has an exception, said at `LoginSticks`: two first requests
that are under way together each make a session, and if the login is in one of them and the
other's answer comes last, the login is lost.

### Params, Statement and Router

These model what one request goes through; nothing of it is shared with another, so that a
behaviour is one request. The variables of `Params` are the locals of `parse_params` and
`get_parameter_data`, and a step is one round of the loop: `Swap` at `=`, `EndPair` at the
delimiter, `Skip` and `Add` for the rest, `Merge` after the last. Texts are sequences of
characters in which an escape is one character (`%3D`, and `%` for one that `stoi`
refuses). `Given(t)` says what a text declares, without a loop, by positions: a pair starts
behind each `&`; the side a character is on depends on how many `=` stand before it in the
pair, so that `a=b=c` declares `b` under `ac`, which no text of the repository expects or
excludes; of each side the positions between its outermost characters that are not blank
count; and the values of a key are `Picked` in the order of its pairs. `Statement` is built the same way around the loop of `exec`;
`Piece` says what becomes of each character of a pattern.

`Router` has the table of `WebApp.cpp` with the placeholders of each handler. A path is the
sequence of what lies between its slashes, and `Accepts` says which of them the groups of
`url_regex_mapping` match. `invoke` and `invoke2` evaluate one placeholder in each level of
their recursion, from the last to the first, whatever the compiler does with arguments. So
the session, which stands behind `json` in every list that has both, is looked up first
(`SessionBeforeBody`). `url_params[0]` is the whole match, so that `_1` is the first group;
the index is not checked by the code.
A handler is represented by one statement, after which it returns or throws, and the
answers are those of `handle_request`.

### Ticketing

`db` and `writes` come from `ReadCommitted`: a statement of worker `w` sees `View(w, t)`,
the committed rows with its own over them, and a write waits while another transaction has
written the row. `pc[w]` is the next statement of the handler that `w` runs and `tx[w]`
its local variables. Selects of rows that never change are part of the step that uses
them; the selects whose result can be stale - the price, and the ticket - are steps of
their own (`BuyPrice`, `RefundBegin`). `AddToBalance` is the update with the `CHECK
(balance >= 0)` of the schema. `Fail` is an exception from any statement, after which the
destructor of the transaction rolls back; it may also strike after the commit, in
`reload_user_info`. `deposited` and `paid` are history variables. Amounts may be negative:
neither `add_funds` nor the form of a screening tests its value.

The managers' form `movie_modify` can overwrite `box_office` and `num_participants` with
any numbers; the ledger of movies is stated for a system where nobody does.

Fairness: `SF` on a worker's statements. A worker runs on, and PostgreSQL queues those who
wait for a row, so that a row that is freed again and again reaches every waiter. Weak
fairness would not do: the row is locked and freed by others in turn. Nothing is assumed
of arrivals, failures or managers.

### Comments

Built like `Ticketing`. The update of `avg_rating` is two actions: PostgreSQL evaluates the
subselect in the snapshot that the statement takes when it starts (`TakeAverage`), and may
then wait for the movie's row (`StoreAverage`); when it goes on it re-reads that row but
not the comments. An average is kept as a sum and a count. `modify_comment` goes on to
`comments[0]` whether or not the select found a row; `ModifyIndex` is the case where it
did, `Crash` the one where the program reads through a null pointer: every transaction
that is open ends without a commit. `OnlyAuthorsEdit` holds because of that crash and against
the code's intention: managers and admins have the permission `modify_comment`
(`permissions.cpp:10`), and if line 181 took the movie from the comment's row they would edit
the comments of others. What the property shows of the code as it is, is that nothing gets
past the crash, however requests overlap. The ticket check of `add_comment` may turn out either
way. `alone` and `settled` are histories: whether a transaction has met another about the
same movie, and the movies about which the last transaction to commit had not.

### Accounts

`auth_user` is the committed role of each registered user; `user[s]` is `session["user"]`,
a copy of the row as some request read it. Two requests with the same cookie get the same
session object, so the statements that read the database and those that write the session
are separate actions, and between them anything may happen to the session. `ReloadBegin`
takes the reference of line 178; `ReloadStore` writes through it. Line 175 asks before whether
there is a user in the session; a logout between the two lines makes line 178 insert a null
and throw. Such a session is one in which nobody is logged in (every handler that takes the
user from it throws, and a login overwrites it), which is `NoCopy`, and the request has done
nothing else, so that the two lines are one step. If the session has been
logged out in between, the reference dangles and the behaviour is undefined: the outcomes
kept are that the row is written all the same (line 186 does so in any case) and `Crash`,
which is also what a data race on the object or a stop of the server comes to. The check of a
permission copies the session and is one step.

`answered[s]` is a history of whom the last login or logout left in the session, `calm` of
the sessions where no reload was under way at that moment, `held[u]` of the roles a user
has had. `get_permission_for_session`, for pages, adds an empty entry to the global map `m`
for a role that is not in it; such a role has no permission either way.

What holds is weaker than one would like, and stated as such. Roles are read from the copy,
so that somebody who is no longer a manager stays one in a session that is logged in, and
may even take the role back; `RoalsAreGiven` says that nobody who never was one can. A
reload under way undoes a logout (`users.cpp:186`); `LastAnswerStands` says that nothing
else does.

### Catalog

Built like `Ticketing`. Registration is two statements, the check of the name and the
insert, which commits at once. `form_add_screening` inserts the screening, reads the
capacity of its room, and inserts the seats one by one, each of which may fail. The other
handlers are a select of a row by its id and an update; no such row is ever deleted, so
they are one step. Forms may leave the capacity out, which counts as 0 and means no change
in an edit. `seen` and `owed` are histories of the capacities that a room had while a
screening was being added. `rivals` is one of registrations: for each movie and room that
still has the name it was registered under, the rows inserted between the check of that name
and its own insert (`since`, while the registration is under way). Reviewing a
movie only changes which list it is on, and announcements stand alone; both are left out.

Two registrations may use one name, and an edit never checks it; a screening that moves to
another room, or whose room is changed, keeps the seats it has. `DuplicatesHaveRaced` says
that an overlap of two registrations and an edit are the only ways to two rows of one name:
neither failures, nor a commit of anything else, nor an edit of a third row makes them.
`ScreeningsAreWhole` says what is left of the other.

### Pagination

The same arithmetic is written out in `movies.cpp`, `users.cpp` and `room.cpp`. The module
has operators and no state; `Linked` adds what the template makes of the ellipses. Nothing
is claimed of pages that the list does not have: a page below 1 becomes a negative offset,
which PostgreSQL refuses, and one that is too large shows an empty list. Nor is anything
claimed of the content of a page: the selects have no `order by`, so PostgreSQL may order
two of them differently, and the list of movies counts movies that are not reviewed
although it does not show them to everybody. `RowsOf` is about positions.

### HttpServer

`work[c]` is what the session of connection `c` has under way: an operation on its socket,
a coroutine ready to run, a handler on a thread, or nothing once the last reference to the
session is gone. It is a set because nothing but the code's discipline keeps it to one
element. A callback runs to its end and is one action; a handler occupies its thread from
`handle_http_request` to `Serve`, the wait for a database connection included, and `Free`
says that a thread is left. `wire[c]` is what the client has sent and `replies[c]` the
answers written to its socket. Clients may send ahead, shut their side down, or go.

`expired[c]` is the 30 s timer of the stream, set by `do_read` only. It runs on while the
handler works. Beast tries a write before it looks at the timer, so that the answer of a slow
handler may still be delivered, and may be lost although the handler's effect is not (`send`,
`on_write`, `on_write_error`). A read may fail because the client has shut its side or gone,
because the timer has expired, or on what was sent (`ReadFails`: the parser, the body limit).
`LostAnswersAreExplained` says that an expired timer, a client that went and the end of the
server are the only ways to lose an answer. `get_address` throws in a callback when the client
is already gone, on accepting it and once more on making the session of its websocket, which
nothing catches: the program ends. `Stop` is a signal; callbacks and
handlers that run are finished and the others dropped. `threads` is any number up to
`NumThreads`, since the configuration chooses it.

Fairness: one `WF` on all that the server does by itself, timers included. It says that
threads run what is ready, handlers end and time passes, and does not say in which order.
Because each client of an instance sends finitely many requests, that is enough for every
session to end; with an unbounded stream of others the mutex of the pool might starve one,
as described under `ConnectionPool`. Nothing is assumed of clients or signals.

## 3. Runs

| Run | Instance | What it shows |
|---|---|---|
| `pool` | 4 requests, 2 connections | the pool's invariants, and that it implements `BoundedPool` with its liveness. Two connections make the last one and the one before it different cases; four requests let two hold, one be on its way and one wait |
| `browsers` | 2 browsers, 3 requests, 3 keys and a foreign cookie, `Ttl` 1, clock to 2, 3 sessions | browsers find their sessions, share none, and stay logged in; consistency of the containers and the refinement of `SessionStore` underneath |
| `requests` | every path of up to two words; texts of up to 4 characters of six kinds, 5 of four, 6 of three; patterns of up to 5 characters with up to 3 parameters | one path matches, links land but for three dead ones, parameters arrive as declared, statements are sent as meant |
| `ticketing` | 2 workers, 2 users, 1 seat, prices 1 and 2, 2 tickets, deposits of 2 up to 2, fairness | whole transactions, adding up of balances, box office and audience, refinement of `TicketLedger`, and every request is answered: no cycle of row locks, no lock left behind |
| `double_booking` | as `ticketing`, 1 price, deposits of +2 and -2 | **violation**: a seat is sold twice |
| `double_refund` | as `ticketing`, 1 price, deposits of +2 and -2 | **violation**: a ticket is refunded twice |
| `comments` | 2 workers, a user and a manager, 2 movies, ratings 0, 3 and 7, 2 comments | averages settle when transactions do not overlap; only authors change comments, since others crash |
| `double_comment` | as `comments` | **violation**: a user has two comments on a movie |
| `manager_edit` | as `comments` | **violation**: a manager's edit of a user's comment indexes an empty vector |
| `accounts` | 2 workers, 2 sessions, a manager and a user yet to register, 2 roles and "no role" | logins and logouts stand unless they meet a reload; roles come from those who may give them |
| `http` | 2 connections with 2 and 1 requests, 1 or 2 threads, 1 database connection | one operation per session, lost answers, waiting threads, refinement of `Dialogue`, and every session ends |
| `catalog` | 2 workers, 2 names, capacities 0 and 2, empty to begin with, up to 4 movies, rooms and screenings in all; lists of up to 12 pages | screenings have all their seats; rows of one name have raced or were renamed. As an assumption of its module, TLC evaluates that pages cover the rows and links are right |

Bounds: `MaxTime` and `MaxMade` stop the clock and the creation of sessions, `MaxTickets`
the tickets inserted, `MaxFunds` what a user deposits. One seat is enough for two requests
to meet on every row they lock; two workers, because every property that can fail is
about a pair of transactions. Deadlock is checked in all runs but three: in `http` the
server really stops, in `browsers` the clients have sent their requests, and in `requests`
a behaviour is one request, which ends. `ticketing` checks liveness and therefore has no
symmetry; negative deposits, which its state space has no room for, are in the instances of
the two violations and in the proof of the refinement, which holds for any amounts.

In `browsers` a request with two cookies can lose its session between the two calls of
`try_get`; a browser can come back with the cookie of a session that has ended while the
other one is given a new one; and the third request can meet either of the others. Three
requests do not let two first requests of one browser collide while the other's session
expires, which no property is about. A session can be made, visited and expire while
others live, because `Ttl` is one tick and the clock has two.

In `requests` the characters are a letter, the two signs, blank, plus, an escape and a
malformed escape. Four characters are enough for a blank before or behind a letter of a key
and of a value; six for a key that occurs three times, in one text or in two. Every such
text goes through `form_login`, every short statement through `mycenter`, since what happens
to them does not depend on the handler. The links are those of the templates, all of them,
with a number for every id. Five characters of a pattern give runs of up to five question marks, at either
end or between letters.

In `accounts` two workers let a slow request meet a fast one in one session, two sessions let
one user be logged in twice with copies of different age, and the empty role is what a
form without the field sends.

In `http` a single database connection makes the second thread wait; the connection with
two requests can send both before the first is answered, and can go or be closed between
them. In `catalog` everything has to be registered by a request. Four movies, rooms and
screenings are two rooms, a movie and a screening, which may move while a capacity changes,
or a room, a movie and two screenings whose seats are inserted at the same time, or rows of
one table that two workers register, rename and register again. Twelve pages give a
window with both ellipses, either, or none, at every distance from the ends.

The rating 7 is one that `add_comment` refuses and `modify_comment` takes, and 0 one that
an edit treats as no rating. Two comments are enough for two transactions to average over
each other's.

What the violations say. `buy_ticket` (`WebApp/tickets.cpp:142`) selects the seat by
name without looking at its `user_id`, so the seat that two users were shown as free is
sold to both; line 174 says that the seat's user is set to the ticket holder, but the
first holder loses it. `refund_ticket` tests `refunded` on a row read without a lock
(line 213) and updates it later without a condition, so two requests both pass; the
message of line 214 says what was meant. What does hold, in spite of both, is that money
is conserved: every refund paid is taken from the box office, and a ticket refunded twice
is counted twice on both sides. `add_comment` and `modify_comment` have the same shape:
the check of line 93 sees only what is committed, so that two requests of a user both pass
it, and two averages that are taken at the same time each miss the other's comment.
`AverageSettles` states what is left: the next transaction about the movie that runs alone
puts the average right. Line 181 takes the first row of a result that is empty whenever
the comment is not the user's own, which is just the case that the permission
`modify_comment` exists for.

The run `requests` passes, and yet has a disagreement in it that it states and does not
hide: the links to the pages before the current one in the list of movies (`/moviess`,
`templates/index.html:122`) and to all pages of the list of rooms (`/rooms`, `/roomss`,
`templates/screening_rooms.html:46-74`) match no route and are answered with a 404.
`LinksLandButDeadOnes` says so, and that all the others land.

## 4. Proofs

`ConnectionPool_proofs` proves for any set of requests and any positive number of
connections: type correctness, `ConnectionsPartitioned`, `NeverPopsEmpty`,
`CounterMatchesQueue`, and that every behaviour is one of `BoundedPool!Spec`. None of
the properties is inductive alone. The invariant `IInv` adds who owns each lock at each
statement: the owner of `queue_lock_` is the request between `LockQueueToGet` and `Leave`
or between `LockQueueToPut` and `Exit`; at most one request is past `counter_lock_`; and a
request has a connection exactly between `pop` and `emplace`. The assumptions are
that `NumConn` is positive and that `Nobody` is neither a request nor a number.

`Ticketing_proofs` proves, for any users, seats, movies, integer prices and amounts and any
finite set of workers: type correctness (with it, that no balance is ever negative and that
every staged update hits a row that exists), `SeatBackedByTicket`, and that every behaviour
is one of `TicketLedger!Spec`. The refinement is the point where interleaving is reasoned
away. The invariant `IInv` says that row locks are exclusive (`Locks`), that the locals of
each handler are those of its statement (`Sane`), and, in `Staged`, which rows the
transaction has written at each statement and with what values *relative to the rows that
are committed now*. Another transaction's commit cannot disturb that: it changes only rows
it has locked, and it leaves every ticket with its user, seat and price (`Bystander`,
`CommitIsExclusive`, `TicketsStay`). Hence a commit moves the tables by one whole
`Purchase`, `Refund` or `Deposit`, and no other step shows (`OnlyCommitsShow`). That the
price is read without a lock does no harm, because the amount is fixed in the locals; that
`refunded` is read without a lock does, and the ledger says so: its `Refund` has no guard.

`UserLedger` and `MovieLedger` count what was paid and paid back, a second refund of one
ticket included, so that they hold where `RefundedOnce` does not. They follow from there: a purchase, a refund or a deposit of the
ledger leaves them true, because it changes one term of one sum. What a sum is, `Sums_proofs`
says. `MapThenSumSet` chooses an element, adds it and goes on with the rest, so one has to
show that such a function exists and that its value does not depend on the order: an element
can be added, taken away or changed (`TotalAdd`, `TotalRemove`, `TotalChange`). Induction
theorems take an operator as a parameter, which the provers cannot instantiate, so the
induction on the size of the set is over its smallest counterexample (`LeastNumber`, from
`WFMin` of the library). A sum needs finitely many tickets, and ids within `MaxTickets`, which
is any number: `Room` says that the ids suffice for the workers about to insert one, counted,
so that the set of workers is finite.

`SessionLookup_proofs` proves of `SessionManager`, for any keys, integers and positive
`Ttl`: type correctness, `IndexesAgree`, and the refinement of `SessionStore` in full, which
is a safety property. `IndexesAgree` with the types is inductive.

Of `SessionLookup` it proves, for any browsers, requests and keys, the types,
`NoSessionIsShared`, `SessionsAreFound` and `LoginSticks`, and that requests only call the
session manager as it allows (`LookupUsesManager`). What a call does to living sessions is
taken from the refinement of `SessionStore` and not from the five containers
(`RevisitFacts`, `CreateFacts`, `MissFacts`), and every step of `SessionLookup` is first
reduced to what it means to browsers. None of the properties is inductive alone.
`NoSessionIsShared` needs `PInv`: all jars, requests and responses that hold a key other
than `Foreign` are of one browser, a living key leads to a session without guests but its
holder, and the cookies a request has tried lead nowhere and never will. `LoginSticks`
needs `Sticky` besides: a request that has its browser to itself carries the browser's
cookie, and the session it is handled with is the one that the cookie, or the one its
response sets, leads to; and of a browser that is logged in every request carries the
cookie and no response replaces it. The assumptions are that `Foreign` is a key, that
`NoBrowser` is not a browser, and those of `SessionManager`.

`HttpServer_proofs` proves, for any clients and their numbers of requests, any positive
number of threads and any set of connections: the types, `OneThingAtATime`,
`LostAnswersAreExplained`, `ThreadsWaitInTurn`, and that every behaviour is one of
`Dialogue!Spec`. The invariant `HInv` says in `Sole` how the requests served, the answers
written and the response kept alive are related at each position of a session; the steps of
one session leave the others alone, and the pool is shared through `PoolInv`: a connection
that is not available is held by a handler that runs, handlers have a thread each, and none
holds one while it waits. `ThreadsWaitInTurn` counts: connections that are all held are at
most as many as the handlers that do not wait.

`Accounts_proofs` proves the types, `RoalsAreGiven` and `LastAnswerStands` for any workers,
sessions, users and roals. The invariant ties every copy of a row, in a session or in the
locals of a handler, to a role that the user has had (`RoalsOnRecord`, `LocalsMakeSense`);
for `LastAnswerStands` it adds that a reload under way in a calm session is of the user who
belongs there. The assumptions are that `Nobody` is neither a user nor a session, that the
founders are users, and that the roles include the two that the code names.

`Comments_proofs` proves `OnlyAuthorsEdit`, of the code with its crash, for any users,
movies, integer ratings and workers, along the lines of `Ticketing_proofs`: exclusive row
locks (`Locks`), ids below the sequence (`Records`), and in `Staged` that a transaction has
written a comment that is not on record, or its user's own with the new rating and everything
else *as it is committed now*. `OnRecord` says that what a handler found when it selected the
comment is still true when it updates it, although it holds no lock in between.

The types of `Comments` say that an average is a sum of integers and a count, which takes
`Sums_proofs`. `AverageSettles` takes a second invariant, `JInv`, over the first: while a
transaction has met no other about its movie (`alone`), no other is about that movie
(`Apart`), all that it writes is (`OnTopic`), and the average it has taken is that of the
comments it sees (`UpToDate`). Commits about other movies leave those comments alone
(`AgreeingAverages`). When it commits, the comments it sees become the committed ones. The
types are part of it, and with them `Room`: ids suffice for the comments under way.

`Catalog_proofs` proves the types, `ScreeningsAreWhole` and `DuplicatesHaveRaced` for any names,
any integer capacities, negative ones included, any rows to start with and any finite set of
workers. `ScreeningsAreWhole` is part of the invariant, and what it needs is in `Work`: the
seats staged by a transaction are numbered from 1 up to the one it is about to insert, their
number is counted with them, the ids are new, and the capacity it read is one the room has
had since the screening was inserted. `Apart` says that what transactions have staged are new
rows, under ids that nobody else has used, so that a commit of one screening adds no seat to
another. `DuplicatesHaveRaced` takes a second invariant over the first, `Races`: a
registration under way has no rival of its name but those that were inserted since its check
(`Unrivalled`). A rename takes a row out of the history, and no other step but an insert
touches names (`RacesStay`).
TLC explores the invariant for capacities -1 and 2 without a violation; the instance of the
run has 0 and 2.

It also proves `PagesCoverRows` and `WindowIsRight` without the bound that TLC needs, for
every number of rows and pages (`MaxPages` is any number). Everything follows from two facts:
the pages are the rows divided by ten and rounded up, and a page is linked just if it is the
first, the last, within three of this one, or on a side without an ellipsis.

The second half of `HttpServer_proofs` is about `Router`, with `Params` and `Statement`, for
requests of any length: paths of any words, bodies, queries and patterns of any characters,
statements with any number of parameters. `Number` and `Odd`, the words that the groups take,
are any sets.

- The table has 34 routes. `Sound` says that the first piece of a route and the number of its
  pieces determine its place in the table (`IndexOf`), that a group comes last, and that a
  handler which is given `_1` has a group. `TableIsSound` evaluates this row by row; a path
  that matches a route then has the first piece of that route (`MatchIsIndexed`), so that it
  matches no other. `RoutingInv` says where the search stands and that no earlier row matches.
  `OneRouteMatches`, `UrlParamsExist` and `SessionBeforeBody` follow. For
  `LinksLandButDeadOnes` the links of the templates are compared with the rows (`LinkRows`),
  and the first pieces of the dead ones with those of all rows (`DeadMatchNothing`); nothing is
  assumed of either, and the numbers in links are any.
- `QueryIsMeant` compares the loop of `exec` with what each character of the pattern means.
  The invariant is that every place before the current one has been replaced by its meaning
  (`Scanned`: the index is one more than the number of single marks so far, the query is
  `Meant` of the pattern so far), and that an even number of marks precedes the current one if
  that is a mark. The concatenation of the pieces (`FlattenSeq`) is determined by its recursion,
  again by the smallest counterexample (`FlatExists`, `FlatIsUnique`, `FlatGrows`).
- `RouterTypeOK` takes the types of the texts and of what the loop of `parse_params` holds
  (`ParamsInv`).
- `ParamsAsDeclared` compares the loop of `parse_params` with the description by positions.
  Positions are finite sets of numbers, and `Picked` numbers them by counting those that are
  not behind (`AllRanked`), so that another position behind all others appends an element
  (`PickedMore`) and leaving out the last blanks trims (`PickedTrim`). The invariant
  `DeclaredInv` says at each point of a request what has been declared so far. Within a text
  it is `Progress`: the loop is in the pair that starts at some `s`, without a delimiter since
  (`Clear`); it holds of each side the positions read so far, but for the blanks before the
  first other character (`PairIs`, kept by each round: `PairNext`); and of every key the values
  of the pairs before `s` are in `dict_params` if there is one and in `list_params` if there
  are more (`StoredIs`, kept when a pair ends: `PairEnds`, `OneStored`). A malformed escape is
  on one side or the other wherever it stands (`KeptEscape`), which gives both directions of
  the claim about failures. TLC explored `DeclaredInv` for the texts of up to four characters
  before it was proved.

The literals `""`, `" "` and `"'"` have names in the models (`Nothing`, `Blank`, `Quote`),
since the prover's translation stumbles over them; it does not know that a literal is a
string either, hence `Symbol` in the types of a query.

Assumptions on the constants that have to do with proofs: sets of workers are finite
(`WorkerAssumption` of `Ticketing`, `Comments` and `Catalog`: threads are), the catalogue
starts with finitely many well-formed rows (`StartAssumption`), and requests are made of
sequences of characters (`RequestsAssumption`). TLC evaluates all of them in the runs.

Only model-checked is liveness, which is out of the prover's reach: the `FairSpec` part of
`ImplementsPool`, `RequestsFinish` and `SessionsEnd`. Every invariant and every action
property of a run that TLC passes is also a theorem.

## 5. What could come next

1. The violated statements have weaker ones that hold: a seat's user holds a ticket for it
   (`SeatBackedByTicket`). The like for comments, as `DuplicatesHaveRaced` for names, would be
   that a second comment of a user was added while the first was.
2. The flag that a movie is reviewed, with the lists that show it or not, and announcements.
3. For liveness, a proof would need a prover for `ENABLED`; the instances of the runs stay
   the evidence.

## 6. Not modelled

WebSocket and HTTP client I/O, rendering, logging, configuration (straight-line I/O with no
state of their own), password hashing (third-party cryptography), and `encode_url`, which
only the examples call. Of the database layer, the conversion of a row's fields to JSON. Of
accounts, names, passwords and the other fields of a row; of the catalogue, the flag that a
movie is reviewed and the announcements, which are single statements. Pages that only read
are modelled where their parts are hard: in `Pagination`, `Statement` and `Router`.
