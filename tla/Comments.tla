------------------------------ MODULE Comments ------------------------------
(***************************************************************************)
(* Commenting on movies and editing comments (WebApp/comments.cpp), at the *)
(* granularity of SQL statements.  A comment is its author, its movie and  *)
(* its rating; the words are left out.  A request is of a user who is      *)
(* logged in.  Whether the user holds a ticket for the movie is decided by *)
(* tables that Ticketing models; here it may turn out either way.          *)
(***************************************************************************)
EXTENDS Integers, FiniteSetsExt, ReadCommitted

CONSTANTS User, Movie,
          Manager,      \* the users whose role has modify_comment
          Rating,       \* the ratings that forms are sent with
          NoMovie,      \* not a movie
          MaxComments   \* bound on the comments ever inserted

ASSUME WorkerAssumption == IsFiniteSet(Worker)
ASSUME TableAssumption == Table = {"comments", "movies"}
ASSUME ManagerAssumption == Manager \subseteq User
ASSUME RatingAssumption == Rating \subseteq Int
ASSUME NoMovieAssumption == NoMovie \notin Movie
ASSUME BoundAssumption == MaxComments \in Nat

Comment == 1 .. MaxComments

VARIABLES pc,       \* the statement each worker runs next
          tx,       \* the local variables of its handler
          next,     \* comments_comment_id_seq
          alone,    \* history: no other transaction has been about the worker's movie
                    \* since its own began
          settled   \* history: the movies whose last comment or edit was made alone

vars == <<db, writes, pc, tx, next, alone, settled>>

Adding == {"check", "insert"}
Modifying == {"select", "index", "update"}
Label == {"idle", "average", "store", "commit"} \cup Adding \cup Modifying

CommentRow == [user : User, movie : Movie, rating : Int]

\* movies.avg_rating, as the sum and the number of the ratings; NULL when there is none.
Average == [sum : Int, count : Nat]
AverageOf(rows, m) ==
  LET mine == {c \in DOMAIN rows : rows[c].movie = m}
      Rated(c) == rows[c].rating
  IN [sum |-> MapThenSumSet(Rated, mine), count |-> Cardinality(mine)]

SameAverage(a, b) == (a.count = 0 <=> b.count = 0) /\ a.sum * b.count = b.sum * a.count

\* The locals of a handler: the user, the movie (once it is known), the comment, the rating
\* in the form, and the average that the last update has found.
Request == [kind : {"add", "modify"}, user : User, movie : Movie \cup {NoMovie},
            comment : Comment \cup {0}, rating : Int, average : Average]
NoRequest == [kind |-> "none"]
NoAverage == [sum |-> 0, count |-> 0]

TypeOK ==
  /\ DOMAIN db.comments \subseteq 1 .. next - 1
  /\ \A c \in DOMAIN db.comments : db.comments[c] \in CommentRow
  /\ db.movies \in [Movie -> Average]
  /\ pc \in [Worker -> Label]
  /\ tx \in [Worker -> Request \cup {NoRequest}]
  /\ \A w \in Worker : tx[w] = NoRequest <=> pc[w] = "idle"
  /\ next \in Comment \cup {MaxComments + 1}
  /\ alone \in [Worker -> BOOLEAN]
  /\ settled \subseteq Movie

-----------------------------------------------------------------------------
Init ==
  /\ db = [t \in Table |->
             CASE t = "comments" -> NoRows
               [] t = "movies" -> [m \in Movie |-> NoAverage]]
  /\ Begun
  /\ pc = [w \in Worker |-> "idle"]
  /\ tx = [w \in Worker |-> NoRequest]
  /\ next = 1
  /\ alone = [w \in Worker |-> TRUE]
  /\ settled = Movie

Goto(w, from, to) == pc[w] = from /\ pc' = [pc EXCEPT ![w] = to]

Begin(w, label, request) == /\ Goto(w, "idle", label)
                            /\ tx' = [tx EXCEPT ![w] = request]
                            /\ UNCHANGED <<db, writes, next, settled>>

\* The handler returns without a commit, or throws: ~db_transaction() rolls back.
Leave(w) == /\ pc' = [pc EXCEPT ![w] = "idle"]
            /\ tx' = [tx EXCEPT ![w] = NoRequest]
            /\ Rollback(w)
            /\ UNCHANGED <<next, settled>>

-----------------------------------------------------------------------------
(* add_comment *)

Inserting == {w \in Worker : pc[w] \in Adding}

\* A rating outside 0 .. 5 is refused before the transaction.
AddBegin(w, u, m, r) ==
  /\ r \in 0 .. 5
  /\ next + Cardinality(Inserting) <= MaxComments
  /\ Begin(w, "check", [kind |-> "add", user |-> u, movie |-> m, comment |-> 0,
                        rating |-> r, average |-> NoAverage])

\* The user's comments on the movie, as this statement sees them.
Commented(w) == \E c \in DOMAIN View(w, "comments") :
                  /\ View(w, "comments")[c].user = tx[w].user
                  /\ View(w, "comments")[c].movie = tx[w].movie

\* Who has not commented, and has a ticket, may comment.
AddCheck(w) == /\ Goto(w, "check", "insert")
               /\ ~Commented(w)
               /\ UNCHANGED <<db, writes, tx, next, settled>>

\* Who has commented already, or has no ticket, is refused.
AddRefused(w) == pc[w] = "check" /\ Leave(w)

\* Faulty: the sequence does not advance.
InsertSameId(w) ==
  /\ Goto(w, "insert", "average")
  /\ Write(w, "comments", next, [user |-> tx[w].user, movie |-> tx[w].movie,
                                 rating |-> tx[w].rating])
  /\ UNCHANGED <<tx, next, settled>>

AddInsert(w) ==
  /\ Goto(w, "insert", "average")
  /\ Write(w, "comments", next, [user |-> tx[w].user, movie |-> tx[w].movie,
                                 rating |-> tx[w].rating])
  /\ next' = next + 1
  /\ UNCHANGED <<tx, settled>>

-----------------------------------------------------------------------------
(* modify_comment *)

\* The rating of an edit is not tested.
ModifyBegin(w, u, c, r) ==
  Begin(w, "select", [kind |-> "modify", user |-> u, movie |-> NoMovie, comment |-> c,
                      rating |-> r, average |-> NoAverage])

\* Faulty: the select does not ask whose comment it is.
Anyones(w) == tx[w].comment \in DOMAIN View(w, "comments")

\* The comment is there, and the user's own.
Own(w) == LET rows == View(w, "comments") IN
          /\ tx[w].comment \in DOMAIN rows
          /\ rows[tx[w].comment].user = tx[w].user

\* The comment is selected if it is the user's own.  If it is not, the permission of the
\* user decides, and who has it goes on with an empty vector of rows.
ModifySelect(w) ==
  /\ Goto(w, "select", "index")
  /\ Own(w) \/ tx[w].user \in Manager
  /\ tx' = [tx EXCEPT ![w].movie = IF Own(w) THEN View(w, "comments")[tx[w].comment].movie
                                   ELSE NoMovie]
  /\ UNCHANGED <<db, writes, next, settled>>

ModifyRefused(w) == /\ pc[w] = "select"
                    /\ ~Own(w) /\ tx[w].user \notin Manager
                    /\ Leave(w)

\* comments[0]["movie_id"].
ModifyIndex(w) == /\ Goto(w, "index", "update")
                  /\ tx[w].movie # NoMovie
                  /\ UNCHANGED <<db, writes, tx, next, settled>>

\* Of an empty vector: the program reads through a null pointer and dies, and with it every
\* transaction that is open.  It is started again.
Crash(w) == /\ pc[w] = "index"
            /\ tx[w].movie = NoMovie
            /\ pc' = [v \in Worker |-> "idle"]
            /\ tx' = [v \in Worker |-> NoRequest]
            /\ writes' = [v \in Worker |-> NoWrites]
            /\ UNCHANGED <<db, next, settled>>

\* The rating 0 leaves the rating as it is.
ModifyUpdate(w) ==
  LET c == tx[w].comment
      row == View(w, "comments")[c]
  IN /\ Goto(w, "update", "average")
     /\ Write(w, "comments", c,
              [row EXCEPT !.rating = IF tx[w].rating = 0 THEN @ ELSE tx[w].rating])
     /\ UNCHANGED <<tx, next, settled>>

-----------------------------------------------------------------------------
(* Both: update movies set avg_rating = (select avg(rating) ...) *)

\* Faulty: the average of all comments there are.
AverageOfAll(w) ==
  LET rows == View(w, "comments")
      Rated(c) == rows[c].rating
  IN /\ Goto(w, "average", "store")
     /\ tx' = [tx EXCEPT ![w].average = [sum |-> MapThenSumSet(Rated, DOMAIN rows),
                                         count |-> Cardinality(DOMAIN rows)]]
     /\ UNCHANGED <<db, writes, next, settled>>

\* The statement takes its snapshot and evaluates the subselect in it.
TakeAverage(w) ==
  /\ Goto(w, "average", "store")
  /\ tx' = [tx EXCEPT ![w].average = AverageOf(View(w, "comments"), tx[w].movie)]
  /\ UNCHANGED <<db, writes, next, settled>>

\* Then it may have to wait for the movie's row; the subselect is not evaluated again.
StoreAverage(w) == /\ Goto(w, "store", "commit")
                   /\ Write(w, "movies", tx[w].movie, tx[w].average)
                   /\ UNCHANGED <<tx, next, settled>>

commit(w) ==
  /\ Goto(w, "commit", "idle")
  /\ tx' = [tx EXCEPT ![w] = NoRequest]
  /\ Commit(w)
  /\ settled' = IF alone[w] THEN settled \cup {tx[w].movie} ELSE settled \ {tx[w].movie}
  /\ UNCHANGED next

\* Any statement may throw.  add_comment catches it, modify_comment does not; either way
\* the transaction is rolled back and the request answered with an error.
Fail(w) == pc[w] # "idle" /\ Leave(w)

-----------------------------------------------------------------------------
\* The movie that the transaction of w is about, once it has read anything about it.
About(w) == IF pc[w] = "idle" THEN NoMovie ELSE tx[w].movie

\* A history of which transactions have met another on their movie.
Watch == alone' = [w \in Worker |->
                     /\ pc[w] = "idle" \/ alone[w]
                     /\ \A v \in Worker \ {w} : About(w)' # NoMovie => About(v)' # About(w)']

Step(w) == \/ AddCheck(w) \/ AddRefused(w) \/ AddInsert(w)
           \/ ModifySelect(w) \/ ModifyRefused(w) \/ ModifyIndex(w) \/ Crash(w)
           \/ ModifyUpdate(w)
           \/ TakeAverage(w) \/ StoreAverage(w) \/ commit(w)

Arrive(w) == \E u \in User, r \in Rating : \/ \E m \in Movie : AddBegin(w, u, m, r)
                                           \/ \E c \in Comment : ModifyBegin(w, u, c, r)

Next == /\ \E w \in Worker : Arrive(w) \/ Step(w) \/ Fail(w)
        /\ Watch

Spec == Init /\ [][Next]_vars

-----------------------------------------------------------------------------
\* The average of a movie is that of its comments, unless the last transaction about it
\* overlapped with another: a comment or an edit that is made alone puts it right, even
\* after others have put it wrong (update movies set avg_rating, lines 125 and 193).
AverageSettles == \A m \in settled : SameAverage(db.movies[m], AverageOf(db.comments, m))

\* A comment that is on record changes by an edit of its author, and in no other way; nor
\* does it ever disappear.  The code does not mean it so: managers and admins have the
\* permission to edit anybody's comment (permissions.cpp:10, comments.cpp:168).  What keeps
\* them out is the crash of line 181: no edit of somebody else's comment gets past it,
\* whoever else comments or edits in the meantime.
OnlyAuthorsEdit ==
  [][\A c \in DOMAIN db.comments :
       \/ c \in DOMAIN db'.comments /\ db'.comments[c] = db.comments[c]
       \/ \E w \in Worker : /\ pc[w] = "commit"
                            /\ tx[w].comment = c
                            /\ tx[w].user = db.comments[c].user
                            /\ db'.comments[c] = [db.comments[c] EXCEPT !.rating = tx[w].rating]
    ]_vars

\* comments.cpp:93 checks "if user has already commented on this movie", and refuses.
OneCommentEach ==
  \A c, d \in DOMAIN db.comments :
    db.comments[c].user = db.comments[d].user /\ db.comments[c].movie = db.comments[d].movie
      => c = d

\* comments.cpp:168 says that the permission check is skipped for the owner of a comment:
\* others who pass it are to edit a comment that is on record as well, and come to line 181
\* with its row.
IndexInRange ==
  [][\A w \in Worker :
       pc[w] = "select" /\ pc'[w] = "index" /\ tx[w].comment \in DOMAIN db.comments
         => tx'[w].movie # NoMovie]_vars
=============================================================================
