------------------------------- MODULE Catalog -------------------------------
(***************************************************************************)
(* What managers keep: movies, screening rooms, and screenings with their  *)
(* seats (WebApp/movies.cpp, room.cpp, movie_manage.cpp).  A movie is its  *)
(* name, a room its name and capacity, a screening its room and movie, a   *)
(* seat its screening and number.  The price of a screening and the        *)
(* figures of a movie are in Ticketing; that a movie is reviewed, which    *)
(* only lists of movies ask, is left out.                                  *)
(*                                                                         *)
(* Requests are of users who have the permission that they need.  A handler*)
(* that selects a row by its id and updates it is one step: no row of      *)
(* these tables is ever deleted, or locked for longer than an update.      *)
(***************************************************************************)
EXTENDS Integers, FiniteSetsExt, ReadCommitted

CONSTANTS Name,       \* of movies and rooms
          Capacity,   \* what forms say of a room
          Rooms, Movies,  \* the rows that the database starts with
          MaxRows     \* bound on the movies, rooms and screenings together

ASSUME WorkerAssumption == IsFiniteSet(Worker)
ASSUME TableAssumption == Table = {"movies", "screening_rooms", "screenings", "seats"}
ASSUME CapacityAssumption == Capacity \subseteq Int
ASSUME StartAssumption ==
  /\ Movies = [k \in DOMAIN Movies |-> Movies[k]]
  /\ Rooms = [k \in DOMAIN Rooms |-> Rooms[k]]
  /\ \A rows \in {Movies, Rooms} : IsFiniteSet(DOMAIN rows) /\ DOMAIN rows \subseteq Nat
  /\ \A k \in DOMAIN Movies : Movies[k] \in [name : Name]
  /\ \A k \in DOMAIN Rooms : Rooms[k] \in [name : Name, capacity : Int]
ASSUME MaxRowsAssumption == MaxRows \in Nat

VARIABLES pc,    \* the statement each worker runs next
          tx,    \* the locals of its handler
          seen,  \* history: the capacities that the room of the screening that a worker adds
                 \* has had since the screening was inserted
          owed,  \* history: those of each screening that was committed
          rivals \* history: of each movie and room that still has the name it was registered
                 \* under, the rows inserted between the check of that name and its own

vars == <<db, writes, pc, tx, seen, owed, rivals>>

Named == {"movies", "screening_rooms"}
Label == {"idle", "insert", "capacity", "seats"}

\* The locals of movie_register and room_register: the row of the form, and as a history
\* the rows that were inserted since the name was checked.
Registration == [table : Named, row : [name : Name] \cup [name : Name, capacity : Int],
                 since : SUBSET Nat]

\* Those of form_add_screening: the screening and its room, the capacity that was read and
\* the seats that were inserted.
Addition == [screening : Nat, room : Nat, capacity : Int, i : Nat]
NoRequest == [table |-> "none"]

TypeOK ==
  /\ \A k \in DOMAIN db.movies : db.movies[k] \in [name : Name]
  /\ \A k \in DOMAIN db.screening_rooms :
       db.screening_rooms[k] \in [name : Name, capacity : Int]
  /\ \A k \in DOMAIN db.screenings :
       db.screenings[k] \in [room : DOMAIN db.screening_rooms, movie : DOMAIN db.movies]
  /\ \A k \in DOMAIN db.seats : db.seats[k] \in [screening : DOMAIN db.screenings, number : Nat]
  /\ pc \in [Worker -> Label]
  /\ \A w \in Worker : CASE pc[w] = "idle" -> tx[w] = NoRequest
                         [] pc[w] = "insert" -> tx[w] \in Registration
                         [] OTHER -> tx[w] \in Addition
  /\ seen \in [Worker -> SUBSET Int]
  /\ DOMAIN owed = DOMAIN db.screenings
  /\ \A t \in Named : \A k \in DOMAIN rivals[t] : k \in DOMAIN db[t] /\ rivals[t][k] \subseteq Nat

-----------------------------------------------------------------------------
Init ==
  /\ db = [t \in Table |-> CASE t = "movies" -> Movies
                             [] t = "screening_rooms" -> Rooms
                             [] OTHER -> NoRows]
  /\ Begun
  /\ pc = [w \in Worker |-> "idle"]
  /\ tx = [w \in Worker |-> NoRequest]
  /\ seen = [w \in Worker |-> {}]
  /\ owed = NoRows
  /\ rivals = [t \in Named |-> [k \in DOMAIN db[t] |-> DOMAIN db[t]]]

Goto(w, from, to) == pc[w] = from /\ pc' = [pc EXCEPT ![w] = to]

Leave(w, from) == Goto(w, from, "idle") /\ tx' = [tx EXCEPT ![w] = NoRequest]

\* What the sequence of the table gives next.  Nobody remembers a number that was rolled
\* back, so that it may be given again.
Taken(t) == DOMAIN db[t] \cup UNION {DOMAIN writes[w][t] : w \in Worker}
Next_id(t) == CHOOSE k \in 1 .. Cardinality(Taken(t)) + 1 : k \notin Taken(t)

\* One more movie, room or screening is within the bound.
Fits == Cardinality(Taken("movies")) + Cardinality(Taken("screening_rooms"))
          + Cardinality(Taken("screenings")) < MaxRows

\* A transaction of one statement.
Put(t, k, row) == /\ db' = [db EXCEPT ![t] = Over([j \in {k} |-> row], @)]
                  /\ UNCHANGED writes

-----------------------------------------------------------------------------
(* movie_register and room_register *)

Ask(w, t, row) ==
  /\ Goto(w, "idle", "insert")
  /\ tx' = [tx EXCEPT ![w] = [table |-> t, row |-> row, since |-> {}]]
  /\ UNCHANGED <<db, writes, seen, owed, rivals>>

\* Faulty: the names of rooms are looked for among those of movies.
CheckMovies(w, t, row) ==
  /\ \A k \in DOMAIN db.movies : db.movies[k].name # row.name
  /\ Ask(w, t, row)

\* The name is not taken by a row that is committed.
CheckName(w, t, row) ==
  /\ \A k \in DOMAIN db[t] : db[t][k].name # row.name
  /\ Ask(w, t, row)

movie_register(w, name) == CheckName(w, "movies", [name |-> name])

room_register(w, name, capacity) ==
  CheckName(w, "screening_rooms", [name |-> name, capacity |-> capacity])

\* Others that have checked a name of this table have not seen the new row.
RegisterInsert(w) ==
  /\ Goto(w, "insert", "idle")
  /\ LET t == tx[w].table
         k == Next_id(t)
     IN /\ Fits
        /\ Put(t, k, tx[w].row)
        /\ tx' = [v \in Worker |->
                    IF v = w THEN NoRequest
                    ELSE IF pc[v] = "insert" /\ tx[v].table = t
                         THEN [tx[v] EXCEPT !.since = @ \cup {k}] ELSE tx[v]]
        /\ rivals' = [rivals EXCEPT ![t] = Over([j \in {k} |-> tx[w].since], @)]
  /\ UNCHANGED <<seen, owed>>

-----------------------------------------------------------------------------
(* movie_modify and room_modify *)

\* Row k of table t has, for the history, no longer the name it was registered under.
Renamed(t, k, name) ==
  rivals' = IF name = db[t][k].name THEN rivals
            ELSE [rivals EXCEPT ![t] = [j \in DOMAIN @ \ {k} |-> @[j]]]

\* The name of the form is not checked; an empty one is no change.
movie_modify(m, name) ==
  /\ m \in DOMAIN db.movies
  /\ Put("movies", m, [name |-> name])
  /\ Renamed("movies", m, name)
  /\ UNCHANGED <<pc, tx, seen, owed>>

\* The capacity 0 is no change.  Screenings that are there keep their seats.
room_modify(r, name, capacity) ==
  /\ r \in DOMAIN db.screening_rooms
  /\ LET new == IF capacity = 0 THEN db.screening_rooms[r].capacity ELSE capacity
     IN /\ Put("screening_rooms", r, [name |-> name, capacity |-> new])
        /\ seen' = [w \in Worker |->
                      IF pc[w] \in {"capacity", "seats"} /\ tx[w].room = r
                      THEN seen[w] \cup {new} ELSE seen[w]]
  /\ Renamed("screening_rooms", r, name)
  /\ UNCHANGED <<pc, tx, owed>>

-----------------------------------------------------------------------------
(* form_add_screening, and the room in form_modify_screening *)

\* The screening is inserted, which needs a room and a movie that exist, and its id returned.
InsertScreening(w, r, m) ==
  /\ Goto(w, "idle", "capacity")
  /\ r \in DOMAIN db.screening_rooms /\ m \in DOMAIN db.movies
  /\ Fits
  /\ LET s == Next_id("screenings")
     IN /\ Write(w, "screenings", s, [room |-> r, movie |-> m])
        /\ tx' = [tx EXCEPT ![w] = [screening |-> s, room |-> r, capacity |-> 0, i |-> 0]]
  /\ seen' = [seen EXCEPT ![w] = {db.screening_rooms[r].capacity}]
  /\ UNCHANGED <<owed, rivals>>

ReadCapacity(w) ==
  /\ Goto(w, "capacity", "seats")
  /\ tx' = [tx EXCEPT ![w].capacity = db.screening_rooms[tx[w].room].capacity]
  /\ UNCHANGED <<db, writes, seen, owed, rivals>>

\* Faulty: the seats go to the last screening there is.
InsertSeatOfLast(w) ==
  /\ Goto(w, "seats", "seats")
  /\ tx[w].i < tx[w].capacity
  /\ Write(w, "seats", Next_id("seats"),
           [screening |-> Max(Taken("screenings")), number |-> tx[w].i + 1])
  /\ tx' = [tx EXCEPT ![w].i = @ + 1]
  /\ UNCHANGED <<seen, owed, rivals>>

InsertSeat(w) ==
  /\ Goto(w, "seats", "seats")
  /\ tx[w].i < tx[w].capacity
  /\ Write(w, "seats", Next_id("seats"),
           [screening |-> tx[w].screening, number |-> tx[w].i + 1])
  /\ tx' = [tx EXCEPT ![w].i = @ + 1]
  /\ UNCHANGED <<seen, owed, rivals>>

CommitScreening(w) ==
  /\ Leave(w, "seats")
  /\ tx[w].i >= tx[w].capacity
  /\ Commit(w)
  /\ owed' = Over([s \in {tx[w].screening} |-> seen[w]], owed)
  /\ seen' = [seen EXCEPT ![w] = {}]
  /\ UNCHANGED rivals

\* Faulty: what was inserted before the exception stays.
FailAfterInsert(w) ==
  /\ Leave(w, pc[w])
  /\ pc[w] # "idle"
  /\ Commit(w)
  /\ owed' = IF pc[w] = "insert" THEN owed
             ELSE Over([s \in {tx[w].screening} |-> seen[w]], owed)
  /\ seen' = [seen EXCEPT ![w] = {}]
  /\ UNCHANGED rivals

\* Any statement may throw, and the transaction is rolled back.
Fail(w) == /\ pc[w] # "idle"
           /\ Leave(w, pc[w])
           /\ Rollback(w)
           /\ seen' = [seen EXCEPT ![w] = {}]
           /\ UNCHANGED <<owed, rivals>>

\* A screening may be moved to another room.  It keeps its seats.
form_modify_screening(s, r) ==
  /\ s \in DOMAIN db.screenings
  /\ r \in DOMAIN db.screening_rooms
  /\ Put("screenings", s, [db.screenings[s] EXCEPT !.room = r])
  /\ UNCHANGED <<pc, tx, seen, owed, rivals>>

-----------------------------------------------------------------------------
Modify == \/ \E m \in DOMAIN db.movies : \E n \in Name : movie_modify(m, n)
          \/ \E r \in DOMAIN db.screening_rooms :
               \/ \E n \in Name, c \in Capacity : room_modify(r, n, c)
               \/ \E s \in DOMAIN db.screenings : form_modify_screening(s, r)

Arrive(w) == \/ \E n \in Name : \/ movie_register(w, n)
                                \/ \E c \in Capacity : room_register(w, n, c)
             \/ \E r \in DOMAIN db.screening_rooms, m \in DOMAIN db.movies :
                  InsertScreening(w, r, m)

Step(w) == RegisterInsert(w) \/ ReadCapacity(w) \/ InsertSeat(w) \/ CommitScreening(w)

Next == Modify \/ \E w \in Worker : Arrive(w) \/ Step(w) \/ Fail(w)

Spec == Init /\ [][Next]_vars

-----------------------------------------------------------------------------
\* The seats of screening s.
SeatsOf(s) == {k \in DOMAIN db.seats : db.seats[k].screening = s}

\* A screening that anybody can see has all its seats: numbered from 1, each once, as many
\* as its room had room for at some time while the screening was added, whatever failed
\* and whoever changed the room then or later.
ScreeningsAreWhole ==
  \A s \in DOMAIN db.screenings :
    \E n \in owed[s] : /\ Cardinality(SeatsOf(s)) = Max({n, 0})
                       /\ {db.seats[k].number : k \in SeatsOf(s)} = 1 .. n

\* Two movies, or two rooms, of one name come from a race or from an edit and from nothing
\* else: if both still have the name they were registered under, one was inserted while the
\* other's registration was between its check and its insert.  Nothing keeps such names
\* apart: no constraint of the schema does, and an edit does not look.
DuplicatesHaveRaced ==
  \A t \in Named : \A k, l \in DOMAIN rivals[t] :
    k # l /\ db[t][k].name = db[t][l].name => k \in rivals[t][l] \/ l \in rivals[t][k]
=============================================================================
