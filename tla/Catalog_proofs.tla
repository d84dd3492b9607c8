--------------------------- MODULE Catalog_proofs ---------------------------
(***************************************************************************)
(* Proofs about Catalog: rows are what they should be, whatever capacities *)
(* forms give; a screening that is committed has all its seats; movies and *)
(* rooms of one name have raced, or one was renamed.  And about Pagination,*)
(* for lists of any length.                                                *)
(*                                                                         *)
(* A screening that is being added is its transaction's alone: no other    *)
(* transaction has an id of it, and none of its seats is of another        *)
(* screening.  So it is whole when it is committed if it is when its       *)
(* worker comes to the end of the loop, and no step takes seats away.      *)
(***************************************************************************)
EXTENDS Catalog, Pagination, FiniteSetTheorems, TLAPS

(* The inductive invariant *)

\* The tables, the write sets, the positions and the locals are functions.
Shape ==
  /\ db = [t \in Table |-> db[t]]
  /\ writes = [w \in Worker |-> [t \in Table |-> writes[w][t]]]
  /\ pc = [w \in Worker |-> pc[w]]
  /\ tx = [w \in Worker |-> tx[w]]
  /\ seen \in [Worker -> SUBSET Int]

\* Finitely many rows, with numbers for ids.
IsTable(rows) == /\ rows = [k \in DOMAIN rows |-> rows[k]]
                 /\ IsFiniteSet(DOMAIN rows)
                 /\ DOMAIN rows \subseteq Nat

Tables == \A t \in Table : IsTable(db[t]) /\ \A w \in Worker : IsTable(writes[w][t])

\* An id is used in one place: by a row that is committed, or by one transaction.
Apart ==
  \A t \in Table, v \in Worker :
    /\ DOMAIN writes[v][t] \cap DOMAIN db[t] = {}
    /\ \A w \in Worker \ {v} : DOMAIN writes[v][t] \cap DOMAIN writes[w][t] = {}

RoomRow == [name : Name, capacity : Int]

\* A screening is in a room and of a movie that exist, a seat of a screening that exists.
RowsTyped ==
  /\ \A k \in DOMAIN db.movies : db.movies[k] \in [name : Name]
  /\ \A k \in DOMAIN db.screening_rooms : db.screening_rooms[k] \in RoomRow
  /\ \A k \in DOMAIN db.screenings :
       db.screenings[k] \in [room : DOMAIN db.screening_rooms, movie : DOMAIN db.movies]
  /\ \A k \in DOMAIN db.seats : db.seats[k] \in [screening : DOMAIN db.screenings, number : Nat]
  /\ DOMAIN owed = DOMAIN db.screenings

\* A table of one row.
Only(k, row) == [j \in {k} |-> row]

Quiet(w) == \A t \in Table : writes[w][t] = NoRows

Registering(w) ==
  /\ tx[w] \in Registration
  /\ tx[w].row \in (IF tx[w].table = "movies" THEN [name : Name] ELSE RoomRow)

\* The screening is staged, and the first i of its seats.
Adding(w) ==
  /\ tx[w] \in Addition
  /\ tx[w].room \in DOMAIN db.screening_rooms
  /\ writes[w].movies = NoRows /\ writes[w].screening_rooms = NoRows
  /\ \E m \in DOMAIN db.movies :
       writes[w].screenings = Only(tx[w].screening, [room |-> tx[w].room, movie |-> m])

Seated(seats, s, i) ==
  /\ \A k \in DOMAIN seats : seats[k] \in [screening : {s}, number : Nat]
  /\ Cardinality(DOMAIN seats) = i
  /\ {seats[k].number : k \in DOMAIN seats} = 1 .. i

Work(w) ==
  /\ pc[w] \in Label
  /\ pc[w] = "idle" => Quiet(w) /\ tx[w] = NoRequest
  /\ pc[w] = "insert" => Quiet(w) /\ Registering(w)
  /\ pc[w] \in {"capacity", "seats"} =>
       Adding(w) /\ Seated(writes[w].seats, tx[w].screening, tx[w].i)
  /\ pc[w] = "capacity" =>
       tx[w].i = 0 /\ db.screening_rooms[tx[w].room].capacity \in seen[w]
  /\ pc[w] = "seats" =>
       tx[w].capacity \in seen[w] /\ (tx[w].i = 0 \/ tx[w].i <= tx[w].capacity)

IInv == /\ Shape /\ Tables /\ Apart /\ RowsTyped
        /\ \A w \in Worker : Work(w)
        /\ ScreeningsAreWhole

-----------------------------------------------------------------------------
(* Tables *)

LEMMA TableNames ==
  /\ "movies" \in Table /\ "screening_rooms" \in Table
  /\ "screenings" \in Table /\ "seats" \in Table
  BY TableAssumption

LEMMA NoRowsIsTable == IsTable(NoRows) /\ DOMAIN NoRows = {}
  BY FS_EmptySet DEF IsTable, NoRows

\* Rows laid over others are in their place; what is not covered shows.
LEMMA OverFacts ==
  ASSUME NEW f, NEW g
  PROVE  /\ DOMAIN Over(f, g) = DOMAIN f \cup DOMAIN g
         /\ \A k \in DOMAIN f : Over(f, g)[k] = f[k]
         /\ \A k \in DOMAIN g \ DOMAIN f : Over(f, g)[k] = g[k]
         /\ Over(f, g) = [k \in DOMAIN f \cup DOMAIN g |-> Over(f, g)[k]]
  BY DEF Over

LEMMA OverIsTable ==
  ASSUME NEW f, NEW g, IsTable(f), IsTable(g)
  PROVE  IsTable(Over(f, g))
  <1> DEFINE h == Over(f, g)
  <1>1. IsFiniteSet(DOMAIN f \cup DOMAIN g) /\ DOMAIN f \cup DOMAIN g \subseteq Nat
    BY FS_Union DEF IsTable
  <1>2. DOMAIN h = DOMAIN f \cup DOMAIN g /\ h = [k \in DOMAIN f \cup DOMAIN g |-> h[k]]
    BY OverFacts
  <1> HIDE DEF h
  <1>3. IsTable(h)
    BY <1>1, <1>2 DEF IsTable
  <1> QED BY <1>3 DEF h

LEMMA OverNothing ==
  ASSUME NEW g, IsTable(g)
  PROVE  Over(NoRows, g) = g
  <1>1. DOMAIN NoRows \cup DOMAIN g = DOMAIN g /\ \A k : k \notin DOMAIN NoRows
    BY NoRowsIsTable
  <1> QED BY <1>1 DEF Over, IsTable

LEMMA OnlyIsTable ==
  ASSUME NEW k \in Nat, NEW row
  PROVE  IsTable(Only(k, row)) /\ DOMAIN Only(k, row) = {k} /\ Only(k, row)[k] = row
  BY FS_Singleton DEF IsTable, Only

\* A set of the numbers up to n has no more than n elements, so one of n + 1 is free.
LEMMA SomeIdIsFree ==
  ASSUME NEW T \in SUBSET Nat, IsFiniteSet(T)
  PROVE  \E k \in 1 .. Cardinality(T) + 1 : k \notin T
  <1> DEFINE n == Cardinality(T)
  <1>1. n \in Nat
    BY FS_CardinalityType
  <1> SUFFICES ASSUME 1 .. n + 1 \subseteq T
               PROVE  FALSE
    BY <1>1
  <1>2. Cardinality(1 .. n + 1) = n + 1
    BY <1>1, FS_Interval
  <1>3. Cardinality(1 .. n + 1) <= n
    BY FS_Subset
  <1> QED BY <1>1, <1>2, <1>3

LEMMA TakenIsFinite ==
  ASSUME Tables, NEW t \in Table
  PROVE  IsFiniteSet(Taken(t)) /\ Taken(t) \in SUBSET Nat
  <1> DEFINE f == [w \in Worker |-> DOMAIN writes[w][t]]
             S == {DOMAIN writes[w][t] : w \in Worker}
  <1>1. f \in Surjection(Worker, S)
    BY DEF Surjection
  <1>2. IsFiniteSet(S)
    BY <1>1, WorkerAssumption, FS_Surjection
  <1>3. \A D \in S : IsFiniteSet(D) /\ D \subseteq Nat
    BY DEF Tables, IsTable
  <1>4. IsFiniteSet(UNION S) /\ UNION S \subseteq Nat
    <2> HIDE DEF S
    <2> QED BY <1>2, <1>3, FS_UNION
  <1>5. IsFiniteSet(DOMAIN db[t]) /\ DOMAIN db[t] \subseteq Nat
    BY DEF Tables, IsTable
  <1> QED BY <1>4, <1>5, FS_Union DEF Taken

\* The id that the sequence gives has no row, committed or not.
LEMMA IdIsNew ==
  ASSUME Tables, NEW t \in Table
  PROVE  /\ Next_id(t) \in Nat
         /\ Next_id(t) \notin DOMAIN db[t]
         /\ \A w \in Worker : Next_id(t) \notin DOMAIN writes[w][t]
  <1>1. Cardinality(Taken(t)) \in Nat
    BY TakenIsFinite, FS_CardinalityType
  <1>2. Next_id(t) \in 1 .. Cardinality(Taken(t)) + 1 /\ Next_id(t) \notin Taken(t)
    BY TakenIsFinite, SomeIdIsFree DEF Next_id
  <1> QED BY <1>1, <1>2 DEF Taken

\* What a transaction of one statement does.
LEMMA PutFacts ==
  ASSUME Shape, Tables, NEW t \in Table, NEW k \in Nat, NEW row, Put(t, k, row)
  PROVE  /\ db' = [u \in Table |-> db'[u]]
         /\ writes' = writes
         /\ \A u \in Table \ {t} : db'[u] = db[u]
         /\ DOMAIN db'[t] = DOMAIN db[t] \cup {k}
         /\ db'[t][k] = row
         /\ \A j \in DOMAIN db[t] \ {k} : db'[t][j] = db[t][j]
         /\ Tables'
  <1>1. /\ db' = [db EXCEPT ![t] = Over(Only(k, row), @)]
        /\ writes' = writes
    BY DEF Put, Only
  <1>2. /\ db' = [u \in Table |-> db'[u]]
        /\ \A u \in Table \ {t} : db'[u] = db[u]
        /\ db'[t] = Over(Only(k, row), db[t])
    BY <1>1 DEF Shape
  <1> DEFINE f == Only(k, row)
             g == db[t]
  <1>3. IsTable(f) /\ DOMAIN f = {k} /\ f[k] = row /\ IsTable(g)
    BY OnlyIsTable DEF Tables
  <1>4. /\ DOMAIN db'[t] = DOMAIN db[t] \cup {k}
        /\ db'[t][k] = row
        /\ \A j \in DOMAIN db[t] \ {k} : db'[t][j] = db[t][j]
        /\ IsTable(db'[t])
    <2>1. /\ DOMAIN Over(f, g) = {k} \cup DOMAIN g
          /\ Over(f, g)[k] = row
          /\ \A j \in DOMAIN g \ {k} : Over(f, g)[j] = g[j]
          /\ IsTable(Over(f, g))
      <3> HIDE DEF f, g
      <3>1. IsTable(Over(f, g))
        BY <1>3, OverIsTable
      <3>2. /\ DOMAIN Over(f, g) = DOMAIN f \cup DOMAIN g
            /\ \A j \in DOMAIN f : Over(f, g)[j] = f[j]
            /\ \A j \in DOMAIN g \ DOMAIN f : Over(f, g)[j] = g[j]
        BY OverFacts, ZenonT(40)
      <3> QED BY <1>3, <3>1, <3>2
    <2> QED BY <1>2, <2>1
  <1>5. Tables'
    BY <1>1, <1>2, <1>4 DEF Tables
  <1> QED BY <1>1, <1>2, <1>4, <1>5

\* What a statement of a longer transaction does with a new row.
LEMMA WriteFacts ==
  ASSUME Shape, Tables, Apart, NEW w \in Worker, NEW t \in Table, NEW row,
         Write(w, t, Next_id(t), row)
  PROVE  /\ writes' = [v \in Worker |-> [u \in Table |-> writes'[v][u]]]
         /\ db' = db
         /\ \A v \in Worker \ {w} : writes'[v] = writes[v]
         /\ \A u \in Table \ {t} : writes'[w][u] = writes[w][u]
         /\ writes'[w][t] = Over(Only(Next_id(t), row), writes[w][t])
         /\ Tables' /\ Apart'
  <1> DEFINE k == Next_id(t)
  <1>1. k \in Nat /\ k \notin DOMAIN db[t] /\ \A v \in Worker : k \notin DOMAIN writes[v][t]
    BY IdIsNew
  <1> HIDE DEF k
  <1>2. writes' = [writes EXCEPT ![w][t] = Over(Only(k, row), @)] /\ db' = db
    BY DEF Write, Only, k
  <1>3. /\ writes' = [v \in Worker |-> [u \in Table |-> writes'[v][u]]]
        /\ \A v \in Worker \ {w} : writes'[v] = writes[v]
        /\ \A u \in Table \ {t} : writes'[w][u] = writes[w][u]
        /\ writes'[w][t] = Over(Only(k, row), writes[w][t])
    BY <1>2 DEF Shape
  <1>4. IsTable(writes'[w][t]) /\ DOMAIN writes'[w][t] = DOMAIN writes[w][t] \cup {k}
    <2> DEFINE f == Only(k, row)
               g == writes[w][t]
    <2>1. IsTable(f) /\ DOMAIN f = {k} /\ IsTable(g)
      BY <1>1, OnlyIsTable DEF Tables
    <2>2. IsTable(Over(f, g)) /\ DOMAIN Over(f, g) = {k} \cup DOMAIN g
      <3> HIDE DEF f, g
      <3>1. IsTable(Over(f, g))
        BY <2>1, OverIsTable
      <3>2. DOMAIN Over(f, g) = DOMAIN f \cup DOMAIN g
        BY OverFacts
      <3> QED BY <2>1, <3>1, <3>2
    <2> QED BY <1>3, <2>2
  <1>5. Tables'
    BY <1>2, <1>3, <1>4 DEF Tables
  <1>6. Apart'
    BY <1>1, <1>2, <1>3, <1>4 DEF Apart
  <1> QED BY <1>2, <1>3, <1>5, <1>6 DEF k

\* A commit lays what the transaction has written over what is committed.
LEMMA CommitFacts ==
  ASSUME Shape, Tables, Apart, NEW w \in Worker, Commit(w)
  PROVE  /\ db' = [u \in Table |-> db'[u]]
         /\ \A u \in Table : db'[u] = Over(writes[w][u], db[u])
         /\ writes' = [v \in Worker |-> [u \in Table |-> writes'[v][u]]]
         /\ \A u \in Table : writes'[w][u] = NoRows
         /\ \A v \in Worker \ {w} : writes'[v] = writes[v]
         /\ Tables' /\ Apart'
  <1>1. /\ db' = [u \in Table |-> Over(writes[w][u], db[u])]
        /\ writes' = [writes EXCEPT ![w] = [u \in Table |-> NoRows]]
    BY DEF Commit, View, NoWrites
  <1>2. /\ db' = [u \in Table |-> db'[u]]
        /\ \A u \in Table : db'[u] = Over(writes[w][u], db[u])
        /\ writes' = [v \in Worker |-> [u \in Table |-> writes'[v][u]]]
        /\ \A u \in Table : writes'[w][u] = NoRows
        /\ \A v \in Worker \ {w} : writes'[v] = writes[v]
    BY <1>1 DEF Shape
  <1>3. ASSUME NEW u \in Table
        PROVE  IsTable(db'[u]) /\ DOMAIN db'[u] = DOMAIN writes[w][u] \cup DOMAIN db[u]
    <2> DEFINE f == writes[w][u]
               g == db[u]
    <2>1. IsTable(f) /\ IsTable(g) /\ db'[u] = Over(f, g)
      BY <1>2 DEF Tables
    <2> HIDE DEF f, g
    <2>2. IsTable(Over(f, g))
      BY <2>1, OverIsTable
    <2>3. DOMAIN Over(f, g) = DOMAIN f \cup DOMAIN g
      BY OverFacts
    <2> QED BY <2>1, <2>2, <2>3 DEF f, g
  <1>4. Tables'
    <2>1. ASSUME NEW v \in Worker, NEW u \in Table
          PROVE  IsTable(writes'[v][u])
      BY <1>2, NoRowsIsTable DEF Tables
    <2> QED BY <1>3, <2>1 DEF Tables
  <1>5. Apart'
    <2>1. \A u \in Table : DOMAIN writes'[w][u] = {}
      BY <1>2, NoRowsIsTable
    <2> QED BY <1>2, <1>3, <2>1 DEF Apart
  <1> QED BY <1>2, <1>4, <1>5

LEMMA RollbackFacts ==
  ASSUME Shape, Tables, Apart, NEW w \in Worker, Rollback(w)
  PROVE  /\ writes' = [v \in Worker |-> [u \in Table |-> writes'[v][u]]]
         /\ \A u \in Table : writes'[w][u] = NoRows
         /\ \A v \in Worker \ {w} : writes'[v] = writes[v]
         /\ db' = db
         /\ Tables' /\ Apart'
  <1>1. /\ writes' = [writes EXCEPT ![w] = [u \in Table |-> NoRows]]
        /\ db' = db
    BY DEF Rollback, NoWrites
  <1>2. /\ writes' = [v \in Worker |-> [u \in Table |-> writes'[v][u]]]
        /\ \A u \in Table : writes'[w][u] = NoRows
        /\ \A v \in Worker \ {w} : writes'[v] = writes[v]
    BY <1>1 DEF Shape
  <1>3. Tables'
    <2>1. ASSUME NEW v \in Worker, NEW u \in Table
          PROVE  IsTable(writes'[v][u])
      BY <1>2, NoRowsIsTable DEF Tables
    <2> QED BY <1>1, <2>1 DEF Tables
  <1>4. Apart'
    <2>1. \A u \in Table : DOMAIN writes'[w][u] = {}
      BY <1>2, NoRowsIsTable
    <2> QED BY <1>1, <1>2, <2>1 DEF Apart
  <1> QED BY <1>1, <1>2, <1>3, <1>4

-----------------------------------------------------------------------------
(* What a step leaves alone *)

\* Who does not move keeps what is said of it, while no row goes away and what becomes of
\* its room is added to what it may have seen.
LEMMA Bystander ==
  ASSUME IInv, NEW v \in Worker,
         pc'[v] = pc[v], tx'[v] = tx[v], writes'[v] = writes[v], seen[v] \subseteq seen'[v],
         DOMAIN db.movies \subseteq DOMAIN db'.movies,
         DOMAIN db.screening_rooms \subseteq DOMAIN db'.screening_rooms,
         pc[v] = "capacity" => db'.screening_rooms[tx[v].room].capacity \in seen'[v]
  PROVE  Work(v)'
  <1>1. Work(v)
    BY DEF IInv
  <1>2. /\ Quiet(v) => Quiet(v)'
        /\ Registering(v) => Registering(v)'
        /\ Adding(v) => Adding(v)'
    BY DEF Quiet, Registering, Adding
  <1>3. pc[v] \in {"capacity", "seats"} =>
          Seated(writes'[v].seats, tx'[v].screening, tx'[v].i)
    BY <1>1 DEF Work
  <1> QED BY <1>1, <1>2, <1>3 DEF Work

\* ScreeningsAreWhole, with names for its parts.
Of(seats, s) == {k \in DOMAIN seats : seats[k].screening = s}
Whole(seats, s, n) == /\ Cardinality(Of(seats, s)) = Max({n, 0})
                      /\ {seats[k].number : k \in Of(seats, s)} = 1 .. n

LEMMA WholeMeans ==
  /\ ScreeningsAreWhole =
       \A s \in DOMAIN db.screenings : \E n \in owed[s] : Whole(db.seats, s, n)
  /\ ScreeningsAreWhole' =
       \A s \in DOMAIN db'.screenings : \E n \in owed'[s] : Whole(db'.seats, s, n)
  <1>1. \A s : SeatsOf(s) = Of(db.seats, s) /\ SeatsOf(s)' = Of(db'.seats, s)
    BY DEF SeatsOf, Of
  <1>2. ASSUME NEW s, NEW n
        PROVE  /\ (Cardinality(SeatsOf(s)) = Max({n, 0})
                    /\ {db.seats[k].number : k \in SeatsOf(s)} = 1 .. n) = Whole(db.seats, s, n)
               /\ (Cardinality(SeatsOf(s)') = Max({n, 0})
                    /\ {db'.seats[k].number : k \in SeatsOf(s)'} = 1 .. n)
                  = Whole(db'.seats, s, n)
    BY Zenon, <1>1 DEF Whole
  <1> QED BY Zenon, <1>2 DEF ScreeningsAreWhole

\* The seats and the screenings stay as they are, a screening's room and movie apart.
LEMMA SameScreenings ==
  ASSUME ScreeningsAreWhole, db'.seats = db.seats, owed' = owed,
         DOMAIN db'.screenings = DOMAIN db.screenings
  PROVE  ScreeningsAreWhole'
  BY WholeMeans

\* A step of w that changes no committed row.
LEMMA Assemble ==
  ASSUME IInv, NEW w \in Worker, db' = db, owed' = owed,
         writes' = [v \in Worker |-> [u \in Table |-> writes'[v][u]]],
         pc' = [pc EXCEPT ![w] = pc'[w]], tx' = [tx EXCEPT ![w] = tx'[w]],
         seen' = [seen EXCEPT ![w] = seen'[w]], seen'[w] \subseteq Int,
         \A v \in Worker \ {w} : writes'[v] = writes[v],
         Tables', Apart', Work(w)'
  PROVE  IInv'
  <1>1. Shape'
    BY DEF IInv, Shape
  <1>2. RowsTyped'
    BY DEF IInv, RowsTyped
  <1>3. ScreeningsAreWhole'
    BY SameScreenings DEF IInv
  <1>4. ASSUME NEW v \in Worker \ {w}
        PROVE  Work(v)'
    <2>1. pc'[v] = pc[v] /\ tx'[v] = tx[v] /\ seen'[v] = seen[v]
      BY DEF IInv, Shape
    <2>2. pc[v] = "capacity" => db.screening_rooms[tx[v].room].capacity \in seen[v]
      BY DEF IInv, Work
    <2> QED BY <2>1, <2>2, Bystander
  <1> QED BY <1>1, <1>2, <1>3, <1>4 DEF IInv

\* A step of w that does not write.
LEMMA AssembleQuiet ==
  ASSUME IInv, NEW w \in Worker, UNCHANGED <<db, writes, owed>>,
         pc' = [pc EXCEPT ![w] = pc'[w]], tx' = [tx EXCEPT ![w] = tx'[w]],
         seen' = [seen EXCEPT ![w] = seen'[w]], seen'[w] \subseteq Int, Work(w)'
  PROVE  IInv'
  <1>1. /\ writes' = [v \in Worker |-> [u \in Table |-> writes'[v][u]]]
        /\ \A v \in Worker \ {w} : writes'[v] = writes[v]
        /\ Tables' /\ Apart'
    BY DEF IInv, Shape, Tables, Apart
  <1> QED BY <1>1, Assemble

-----------------------------------------------------------------------------
(* Registrations *)

\* The name is looked for among the rows that are committed, and is not there.
LEMMA CheckNameKeeps ==
  ASSUME IInv, NEW w \in Worker, NEW t \in Named, NEW row, CheckName(w, t, row),
         row \in (IF t = "movies" THEN [name : Name] ELSE RoomRow)
  PROVE  IInv'
  <1>1. /\ pc' = [pc EXCEPT ![w] = pc'[w]] /\ pc[w] = "idle" /\ pc'[w] = "insert"
        /\ tx' = [tx EXCEPT ![w] = tx'[w]]
        /\ tx'[w] = [table |-> t, row |-> row, since |-> {}]
        /\ UNCHANGED <<db, writes, seen, owed>>
    BY DEF CheckName, Ask, Goto, IInv, Shape
  <1>2. Quiet(w)
    BY <1>1 DEF IInv, Work
  <1>3. Registering(w)'
    <2>1. tx'[w].table = t /\ tx'[w].row = row
      BY <1>1
    <2>2. tx'[w] \in Registration
      BY <1>1 DEF Registration, RoomRow
    <2> QED BY <2>1, <2>2 DEF Registering
  <1>4. Work(w)'
    BY <1>1, <1>2, <1>3 DEF Work, Label, Quiet
  <1>5. seen' = [seen EXCEPT ![w] = seen'[w]] /\ seen'[w] \subseteq Int
    BY <1>1 DEF IInv, Shape
  <1> QED BY <1>1, <1>4, <1>5, AssembleQuiet

\* A transaction of one statement, on a movie or a room, changes neither screenings nor
\* seats, and nobody but the worker that runs it.
LEMMA PutNamed ==
  ASSUME IInv, NEW t \in Named, NEW k \in Nat, NEW row, Put(t, k, row), owed' = owed,
         row \in (IF t = "movies" THEN [name : Name] ELSE RoomRow),
         \A v \in Worker : k \notin DOMAIN writes[v][t]
  PROVE  /\ db' = [u \in Table |-> db'[u]] /\ writes' = writes
         /\ Tables' /\ Apart' /\ RowsTyped' /\ ScreeningsAreWhole'
         /\ DOMAIN db.movies \subseteq DOMAIN db'.movies
         /\ DOMAIN db.screening_rooms \subseteq DOMAIN db'.screening_rooms
         /\ \A r \in DOMAIN db.screening_rooms :
              \/ db'.screening_rooms[r] = db.screening_rooms[r]
              \/ t = "screening_rooms" /\ r = k /\ db'.screening_rooms[r] = row
  <1>1. t \in Table /\ t # "screenings" /\ t # "seats"
    BY TableNames DEF Named
  <1>2. /\ db' = [u \in Table |-> db'[u]]
        /\ writes' = writes
        /\ \A u \in Table \ {t} : db'[u] = db[u]
        /\ DOMAIN db'[t] = DOMAIN db[t] \cup {k}
        /\ db'[t][k] = row
        /\ \A j \in DOMAIN db[t] \ {k} : db'[t][j] = db[t][j]
        /\ Tables'
    BY <1>1, PutFacts DEF IInv
  <1>3. db'.screenings = db.screenings /\ db'.seats = db.seats
    BY <1>1, <1>2, TableNames
  <1>4. Apart'
    BY <1>2 DEF IInv, Apart
  <1>5. ScreeningsAreWhole'
    BY <1>3, SameScreenings DEF IInv
  <1>6. /\ DOMAIN db.movies \subseteq DOMAIN db'.movies
        /\ DOMAIN db.screening_rooms \subseteq DOMAIN db'.screening_rooms
    BY <1>2, TableNames
  <1>7. /\ \A j \in DOMAIN db'.movies : db'.movies[j] \in [name : Name]
        /\ \A j \in DOMAIN db'.screening_rooms : db'.screening_rooms[j] \in RoomRow
    BY <1>2, TableNames DEF IInv, RowsTyped, Named
  <1>8. \A j \in DOMAIN db.screenings :
          db.screenings[j] \in [room : DOMAIN db'.screening_rooms, movie : DOMAIN db'.movies]
    BY <1>6 DEF IInv, RowsTyped
  <1>9. RowsTyped'
    BY <1>3, <1>7, <1>8 DEF IInv, RowsTyped
  <1>10. \A r \in DOMAIN db.screening_rooms :
           \/ db'.screening_rooms[r] = db.screening_rooms[r]
           \/ t = "screening_rooms" /\ r = k /\ db'.screening_rooms[r] = row
    BY <1>2, TableNames
  <1> QED BY <1>2, <1>4, <1>5, <1>6, <1>9, <1>10

\* The row is inserted with an id that no row has.
LEMMA RegisterInsertKeeps ==
  ASSUME IInv, NEW w \in Worker, RegisterInsert(w)
  PROVE  IInv'
  <1> DEFINE t == tx[w].table
             k == Next_id(t)
             row == tx[w].row
  <1>1. /\ pc[w] = "insert" /\ pc' = [pc EXCEPT ![w] = "idle"]
        /\ tx' = [v \in Worker |->
                    IF v = w THEN NoRequest
                    ELSE IF pc[v] = "insert" /\ tx[v].table = t
                         THEN [tx[v] EXCEPT !.since = @ \cup {k}] ELSE tx[v]]
        /\ Put(t, k, row) /\ UNCHANGED <<seen, owed>>
    BY DEF RegisterInsert, Goto
  <1>2. /\ Quiet(w) /\ t \in Named
        /\ row \in (IF t = "movies" THEN [name : Name] ELSE RoomRow)
    BY <1>1 DEF IInv, Work, Registering, Registration
  <1>3. k \in Nat /\ k \notin DOMAIN db[t] /\ \A v \in Worker : k \notin DOMAIN writes[v][t]
    BY <1>2, IdIsNew, TableNames DEF IInv, Named
  <1> HIDE DEF t, k, row
  <1>4. /\ db' = [u \in Table |-> db'[u]] /\ writes' = writes
        /\ Tables' /\ Apart' /\ RowsTyped' /\ ScreeningsAreWhole'
        /\ DOMAIN db.movies \subseteq DOMAIN db'.movies
        /\ DOMAIN db.screening_rooms \subseteq DOMAIN db'.screening_rooms
        /\ \A r \in DOMAIN db.screening_rooms :
             \/ db'.screening_rooms[r] = db.screening_rooms[r]
             \/ t = "screening_rooms" /\ r = k
    BY <1>1, <1>2, <1>3, PutNamed
  <1>5. \A r \in DOMAIN db.screening_rooms : db'.screening_rooms[r] = db.screening_rooms[r]
    BY <1>3, <1>4
  <1>6. /\ pc'[w] = "idle" /\ tx'[w] = NoRequest
        /\ pc' = [v \in Worker |-> pc'[v]] /\ tx' = [v \in Worker |-> tx'[v]]
        /\ \A v \in Worker \ {w} :
             /\ pc'[v] = pc[v]
             /\ tx'[v] = IF pc[v] = "insert" /\ tx[v].table = t
                        THEN [tx[v] EXCEPT !.since = @ \cup {k}] ELSE tx[v]
    BY <1>1 DEF IInv, Shape
  <1>7. Work(w)'
    BY <1>2, <1>4, <1>6 DEF Work, Label, Quiet
  <1>8. ASSUME NEW v \in Worker \ {w}
        PROVE  Work(v)'
    <2>1. pc[v] = "capacity" =>
            /\ tx[v].room \in DOMAIN db.screening_rooms
            /\ db.screening_rooms[tx[v].room].capacity \in seen[v]
      BY DEF IInv, Work, Adding
    <2>2. CASE tx'[v] = tx[v]
      BY <1>1, <1>4, <1>5, <1>6, <2>1, <2>2, Bystander
    <2>3. CASE pc[v] = "insert" /\ tx'[v] = [tx[v] EXCEPT !.since = @ \cup {k}]
      <3>1. Quiet(v) /\ Registering(v)
        BY <2>3 DEF IInv, Work
      <3>2. tx'[v] \in Registration /\ tx'[v].table = tx[v].table /\ tx'[v].row = tx[v].row
        BY <1>3, <2>3, <3>1 DEF Registering, Registration
      <3>3. Quiet(v)' /\ Registering(v)'
        BY <1>4, <3>1, <3>2 DEF Quiet, Registering
      <3> QED BY <1>6, <2>3, <3>3 DEF Work, Label
    <2> QED BY <1>6, <2>2, <2>3
  <1>9. Shape'
    BY <1>1, <1>4, <1>6 DEF IInv, Shape
  <1> QED BY <1>4, <1>7, <1>8, <1>9 DEF IInv

-----------------------------------------------------------------------------
(* Changes of rows *)

LEMMA MovieModifyKeeps ==
  ASSUME IInv, NEW m, NEW name \in Name, movie_modify(m, name)
  PROVE  IInv'
  <1>1. m \in DOMAIN db.movies /\ Put("movies", m, [name |-> name])
        /\ UNCHANGED <<pc, tx, seen, owed>>
    BY DEF movie_modify
  <1>2. m \in Nat /\ \A v \in Worker : m \notin DOMAIN writes[v].movies
    BY <1>1, TableNames DEF IInv, Tables, IsTable, Apart
  <1>3. /\ db' = [u \in Table |-> db'[u]] /\ writes' = writes
        /\ Tables' /\ Apart' /\ RowsTyped' /\ ScreeningsAreWhole'
        /\ DOMAIN db.movies \subseteq DOMAIN db'.movies
        /\ DOMAIN db.screening_rooms \subseteq DOMAIN db'.screening_rooms
        /\ \A r \in DOMAIN db.screening_rooms :
             db'.screening_rooms[r] = db.screening_rooms[r]
    BY <1>1, <1>2, PutNamed DEF Named
  <1>4. ASSUME NEW v \in Worker
        PROVE  Work(v)'
    <2>1. pc[v] = "capacity" =>
            /\ tx[v].room \in DOMAIN db.screening_rooms
            /\ db.screening_rooms[tx[v].room].capacity \in seen[v]
      BY DEF IInv, Work, Adding
    <2> QED BY <1>1, <1>3, <2>1, Bystander
  <1>5. Shape'
    BY <1>1, <1>3 DEF IInv, Shape
  <1> QED BY <1>3, <1>4, <1>5 DEF IInv

\* Who is adding a screening in the room has its new capacity among those it may have seen.
LEMMA RoomModifyKeeps ==
  ASSUME IInv, NEW r, NEW name \in Name, NEW capacity \in Capacity,
         room_modify(r, name, capacity)
  PROVE  IInv'
  <1> DEFINE new == IF capacity = 0 THEN db.screening_rooms[r].capacity ELSE capacity
             row == [name |-> name, capacity |-> new]
  <1>1. /\ r \in DOMAIN db.screening_rooms /\ Put("screening_rooms", r, row)
        /\ seen' = [w \in Worker |->
                      IF pc[w] \in {"capacity", "seats"} /\ tx[w].room = r
                      THEN seen[w] \cup {new} ELSE seen[w]]
        /\ UNCHANGED <<pc, tx, owed>>
    BY DEF room_modify
  <1>2. r \in Nat /\ \A v \in Worker : r \notin DOMAIN writes[v].screening_rooms
    BY <1>1, TableNames DEF IInv, Tables, IsTable, Apart
  <1>3. new \in Int
    BY <1>1, CapacityAssumption DEF IInv, RowsTyped, RoomRow
  <1> HIDE DEF new
  <1>4. row \in RoomRow /\ row.capacity = new
    BY <1>3 DEF RoomRow
  <1> HIDE DEF row
  <1>5. /\ db' = [u \in Table |-> db'[u]] /\ writes' = writes
        /\ Tables' /\ Apart' /\ RowsTyped' /\ ScreeningsAreWhole'
        /\ DOMAIN db.movies \subseteq DOMAIN db'.movies
        /\ DOMAIN db.screening_rooms \subseteq DOMAIN db'.screening_rooms
        /\ \A j \in DOMAIN db.screening_rooms :
             \/ db'.screening_rooms[j] = db.screening_rooms[j]
             \/ j = r /\ db'.screening_rooms[j] = row
    BY <1>1, <1>2, <1>4, PutNamed DEF Named
  <1>6. ASSUME NEW v \in Worker
        PROVE  Work(v)'
    <2>1. pc[v] = "capacity" =>
            /\ tx[v].room \in DOMAIN db.screening_rooms
            /\ db.screening_rooms[tx[v].room].capacity \in seen[v]
      BY DEF IInv, Work, Adding
    <2>2. /\ seen[v] \subseteq seen'[v]
          /\ pc[v] = "capacity" /\ tx[v].room = r => new \in seen'[v]
      BY <1>1
    <2>3. pc[v] = "capacity" => db'.screening_rooms[tx[v].room].capacity \in seen'[v]
      BY <1>4, <1>5, <2>1, <2>2
    <2> QED BY <1>1, <1>5, <2>2, <2>3, Bystander
  <1>7. seen' \in [Worker -> SUBSET Int]
    BY <1>1, <1>3 DEF IInv, Shape
  <1>8. Shape'
    BY <1>1, <1>5, <1>7 DEF IInv, Shape
  <1> QED BY <1>5, <1>6, <1>8 DEF IInv

\* The screening keeps its seats in another room.
LEMMA FormModifyScreeningKeeps ==
  ASSUME IInv, NEW s, NEW r, form_modify_screening(s, r)
  PROVE  IInv'
  <1> DEFINE row == [db.screenings[s] EXCEPT !.room = r]
  <1>1. /\ s \in DOMAIN db.screenings /\ r \in DOMAIN db.screening_rooms
        /\ Put("screenings", s, row)
        /\ UNCHANGED <<pc, tx, seen, owed>>
    BY DEF form_modify_screening
  <1>2. s \in Nat /\ \A v \in Worker : s \notin DOMAIN writes[v].screenings
    BY <1>1, TableNames DEF IInv, Tables, IsTable, Apart
  <1>3. row \in [room : DOMAIN db.screening_rooms, movie : DOMAIN db.movies]
    <2>1. db.screenings[s] \in [room : DOMAIN db.screening_rooms, movie : DOMAIN db.movies]
      BY <1>1 DEF IInv, RowsTyped
    <2> QED BY <1>1, <2>1
  <1> HIDE DEF row
  <1>4. /\ db' = [u \in Table |-> db'[u]]
        /\ writes' = writes
        /\ \A u \in Table \ {"screenings"} : db'[u] = db[u]
        /\ DOMAIN db'.screenings = DOMAIN db.screenings \cup {s}
        /\ db'.screenings[s] = row
        /\ \A j \in DOMAIN db.screenings \ {s} : db'.screenings[j] = db.screenings[j]
        /\ Tables'
    BY <1>1, <1>2, TableNames, PutFacts DEF IInv
  <1>5. /\ db'.movies = db.movies /\ db'.screening_rooms = db.screening_rooms
        /\ db'.seats = db.seats /\ DOMAIN db'.screenings = DOMAIN db.screenings
    BY <1>1, <1>4, TableNames
  <1>6. Apart'
    BY <1>2, <1>4 DEF IInv, Apart
  <1>7. RowsTyped'
    BY <1>1, <1>3, <1>4, <1>5 DEF IInv, RowsTyped
  <1>8. ScreeningsAreWhole'
    BY <1>1, <1>5, SameScreenings DEF IInv
  <1>9. ASSUME NEW v \in Worker
        PROVE  Work(v)'
    <2>1. pc[v] = "capacity" => db.screening_rooms[tx[v].room].capacity \in seen[v]
      BY DEF IInv, Work
    <2> QED BY <1>1, <1>4, <1>5, <2>1, Bystander
  <1>10. Shape'
    BY <1>1, <1>4 DEF IInv, Shape
  <1> QED BY <1>4, <1>6, <1>7, <1>8, <1>9, <1>10 DEF IInv

-----------------------------------------------------------------------------
(* A screening *)

\* It is staged with an id that no screening has, and no seats.
LEMMA InsertScreeningKeeps ==
  ASSUME IInv, NEW w \in Worker, NEW r, NEW m, InsertScreening(w, r, m)
  PROVE  IInv'
  <1> DEFINE s == Next_id("screenings")
             row == [room |-> r, movie |-> m]
             capacity == db.screening_rooms[r].capacity
  <1>1. /\ pc[w] = "idle" /\ pc' = [pc EXCEPT ![w] = "capacity"]
        /\ r \in DOMAIN db.screening_rooms /\ m \in DOMAIN db.movies
        /\ Write(w, "screenings", s, row)
        /\ tx' = [tx EXCEPT ![w] = [screening |-> s, room |-> r, capacity |-> 0, i |-> 0]]
        /\ seen' = [seen EXCEPT ![w] = {capacity}]
        /\ owed' = owed
    BY DEF InsertScreening, Goto
  <1>2. /\ writes' = [v \in Worker |-> [u \in Table |-> writes'[v][u]]]
        /\ db' = db
        /\ \A v \in Worker \ {w} : writes'[v] = writes[v]
        /\ \A u \in Table \ {"screenings"} : writes'[w][u] = writes[w][u]
        /\ writes'[w].screenings = Over(Only(s, row), writes[w].screenings)
        /\ Tables' /\ Apart'
    BY <1>1, TableNames, WriteFacts DEF IInv
  <1>3. s \in Nat /\ Quiet(w) /\ capacity \in Int
    <2>1. s \in Nat
      BY IdIsNew, TableNames DEF IInv
    <2>2. Quiet(w)
      BY <1>1 DEF IInv, Work
    <2> QED BY <1>1, <2>1, <2>2 DEF IInv, RowsTyped, RoomRow
  <1>4. r \in Nat
    BY <1>1, TableNames DEF IInv, Tables, IsTable
  <1> HIDE DEF s, row
  <1>5. writes'[w].screenings = Only(s, row)
    <2>1. writes[w].screenings = NoRows
      BY <1>3, TableNames DEF Quiet
    <2>2. Over(Only(s, row), NoRows) = Only(s, row)
      BY NoRowsIsTable DEF Over, Only
    <2> QED BY <1>2, <2>1, <2>2
  <1>6. /\ writes'[w].movies = NoRows /\ writes'[w].screening_rooms = NoRows
        /\ writes'[w].seats = NoRows
    BY <1>2, <1>3, TableNames DEF Quiet
  <1>7. /\ pc'[w] = "capacity" /\ pc' = [pc EXCEPT ![w] = pc'[w]]
        /\ tx'[w] = [screening |-> s, room |-> r, capacity |-> 0, i |-> 0]
        /\ tx' = [tx EXCEPT ![w] = tx'[w]]
        /\ seen'[w] = {capacity} /\ seen' = [seen EXCEPT ![w] = seen'[w]]
    BY <1>1 DEF IInv, Shape
  <1>8. tx'[w].screening = s /\ tx'[w].room = r /\ tx'[w].i = 0 /\ tx'[w] \in Addition
    BY <1>3, <1>4, <1>7 DEF Addition
  <1>9. Adding(w)'
    BY <1>1, <1>2, <1>5, <1>6, <1>8 DEF Adding, row
  <1>10. Seated(NoRows, s, 0)
    BY NoRowsIsTable, FS_EmptySet DEF Seated
  <1>11. Work(w)'
    BY <1>2, <1>6, <1>7, <1>8, <1>9, <1>10 DEF Work, Label
  <1> QED BY <1>1, <1>2, <1>3, <1>7, <1>11, Assemble

LEMMA ReadCapacityKeeps ==
  ASSUME IInv, NEW w \in Worker, ReadCapacity(w)
  PROVE  IInv'
  <1> DEFINE capacity == db.screening_rooms[tx[w].room].capacity
  <1>1. /\ pc[w] = "capacity" /\ pc' = [pc EXCEPT ![w] = "seats"]
        /\ tx' = [tx EXCEPT ![w].capacity = capacity]
        /\ UNCHANGED <<db, writes, seen, owed>>
    BY DEF ReadCapacity, Goto
  <1>2. /\ Adding(w) /\ Seated(writes[w].seats, tx[w].screening, tx[w].i)
        /\ tx[w].i = 0 /\ capacity \in seen[w] /\ seen[w] \subseteq Int
    BY <1>1 DEF IInv, Work, Shape
  <1> HIDE DEF capacity
  <1>3. /\ pc'[w] = "seats" /\ pc' = [pc EXCEPT ![w] = pc'[w]]
        /\ tx'[w] = [tx[w] EXCEPT !.capacity = capacity]
        /\ tx' = [tx EXCEPT ![w] = tx'[w]]
    BY <1>1 DEF IInv, Shape
  <1>4. /\ tx'[w] \in Addition /\ tx'[w].capacity = capacity
        /\ tx'[w].screening = tx[w].screening /\ tx'[w].room = tx[w].room
        /\ tx'[w].i = tx[w].i
    BY <1>2, <1>3 DEF Adding, Addition
  <1>5. Adding(w)'
    BY <1>1, <1>2, <1>4 DEF Adding
  <1>6. Work(w)'
    BY <1>1, <1>2, <1>3, <1>4, <1>5 DEF Work, Label
  <1>7. seen' = [seen EXCEPT ![w] = seen'[w]] /\ seen'[w] \subseteq Int
    BY <1>1 DEF IInv, Shape
  <1> QED BY <1>1, <1>3, <1>6, <1>7, AssembleQuiet

\* One more seat with the next number.
LEMMA SeatAdded ==
  ASSUME NEW seats, NEW s, NEW i \in Nat, NEW k, k \notin DOMAIN seats,
         IsFiniteSet(DOMAIN seats), Seated(seats, s, i)
  PROVE  Seated(Over(Only(k, [screening |-> s, number |-> i + 1]), seats), s, i + 1)
  <1> DEFINE row == [screening |-> s, number |-> i + 1]
             more == Over(Only(k, row), seats)
  <1>1. row \in [screening : {s}, number : Nat] /\ row.number = i + 1
    OBVIOUS
  <1> HIDE DEF row
  <1>2. more = [j \in DOMAIN seats \cup {k} |-> IF j = k THEN row ELSE seats[j]]
    BY DEF Over, Only
  <1> HIDE DEF more
  <1>3. DOMAIN more = DOMAIN seats \cup {k} /\ more[k] = row
        /\ \A j \in DOMAIN seats : more[j] = seats[j]
    BY <1>2
  <1>4. Cardinality(DOMAIN more) = i + 1
    BY <1>3, FS_AddElement DEF Seated
  <1>5. \A j \in DOMAIN more : more[j] \in [screening : {s}, number : Nat]
    BY <1>1, <1>3 DEF Seated
  <1>6. {more[j].number : j \in DOMAIN more} = 1 .. i + 1
    <2>1. {more[j].number : j \in DOMAIN more} =
            {seats[j].number : j \in DOMAIN seats} \cup {i + 1}
      BY <1>1, <1>3
    <2> QED BY <2>1 DEF Seated
  <1> QED BY <1>4, <1>5, <1>6 DEF Seated, more, row

LEMMA InsertSeatKeeps ==
  ASSUME IInv, NEW w \in Worker, InsertSeat(w)
  PROVE  IInv'
  <1> DEFINE s == tx[w].screening
             i == tx[w].i
             k == Next_id("seats")
             row == [screening |-> s, number |-> i + 1]
  <1>1. /\ pc[w] = "seats" /\ pc' = [pc EXCEPT ![w] = "seats"]
        /\ i < tx[w].capacity
        /\ Write(w, "seats", k, row)
        /\ tx' = [tx EXCEPT ![w].i = i + 1]
        /\ UNCHANGED <<seen, owed>>
    BY DEF InsertSeat, Goto
  <1>2. /\ Adding(w) /\ Seated(writes[w].seats, s, i)
        /\ tx[w].capacity \in seen[w] /\ seen[w] \subseteq Int /\ i \in Nat
    BY <1>1 DEF IInv, Work, Shape, Adding, Addition
  <1>3. k \notin DOMAIN writes[w].seats /\ IsFiniteSet(DOMAIN writes[w].seats)
    BY IdIsNew, TableNames DEF IInv, Tables, IsTable
  <1>4. /\ writes' = [v \in Worker |-> [u \in Table |-> writes'[v][u]]]
        /\ db' = db
        /\ \A v \in Worker \ {w} : writes'[v] = writes[v]
        /\ \A u \in Table \ {"seats"} : writes'[w][u] = writes[w][u]
        /\ writes'[w].seats = Over(Only(k, row), writes[w].seats)
        /\ Tables' /\ Apart'
    BY <1>1, TableNames, WriteFacts DEF IInv
  <1>5. /\ writes'[w].movies = writes[w].movies
        /\ writes'[w].screening_rooms = writes[w].screening_rooms
        /\ writes'[w].screenings = writes[w].screenings
    BY <1>4, TableNames
  <1>6. Seated(writes'[w].seats, s, i + 1)
    BY <1>2, <1>3, <1>4, SeatAdded
  <1> HIDE DEF i
  <1>7. /\ pc'[w] = "seats" /\ pc' = [pc EXCEPT ![w] = pc'[w]]
        /\ tx'[w] = [tx[w] EXCEPT !.i = i + 1]
        /\ tx' = [tx EXCEPT ![w] = tx'[w]]
    BY <1>1 DEF IInv, Shape
  <1>8. /\ tx'[w] \in Addition /\ tx'[w].i = i + 1
        /\ tx'[w].screening = s /\ tx'[w].room = tx[w].room
        /\ tx'[w].capacity = tx[w].capacity
    BY <1>2, <1>7 DEF Adding, Addition
  <1>9. Adding(w)'
    BY <1>2, <1>4, <1>5, <1>8 DEF Adding
  <1>10. i + 1 <= tx[w].capacity
    BY <1>1, <1>2
  <1>11. Work(w)'
    BY <1>1, <1>2, <1>6, <1>7, <1>8, <1>9, <1>10 DEF Work, Label
  <1>12. seen' = [seen EXCEPT ![w] = seen'[w]] /\ seen'[w] \subseteq Int
    BY <1>1 DEF IInv, Shape
  <1> QED BY <1>1, <1>4, <1>7, <1>11, <1>12, Assemble

LEMMA MaxWithZero ==
  ASSUME NEW n \in Int
  PROVE  Max({n, 0}) = IF n > 0 THEN n ELSE 0
  <1> DEFINE m == IF n > 0 THEN n ELSE 0
  <1>1. m \in {n, 0} /\ \A y \in {n, 0} : m >= y
    OBVIOUS
  <1>2. \A x \in {n, 0} : (\A y \in {n, 0} : x >= y) => x = m
    OBVIOUS
  <1> HIDE DEF m
  <1>3. Max({n, 0}) = m
    BY <1>1, <1>2 DEF Max
  <1> QED BY <1>3 DEF m

\* When the seats of a screening are published beside those of others, that screening is
\* whole for any number of seats that ends the loop, and the others are what they were.
LEMMA SeatsPublished ==
  ASSUME NEW old, NEW staged, NEW s, NEW i \in Nat,
         DOMAIN staged \cap DOMAIN old = {}, Seated(staged, s, i),
         \A k \in DOMAIN old : old[k].screening # s
  PROVE  /\ \A n \in Int : i >= n /\ (i = 0 \/ i <= n) => Whole(Over(staged, old), s, n)
         /\ \A x, n : x # s /\ Whole(old, x, n) => Whole(Over(staged, old), x, n)
  <1> DEFINE all == Over(staged, old)
  <1>1. /\ DOMAIN all = DOMAIN staged \cup DOMAIN old
        /\ \A k \in DOMAIN staged : all[k] = staged[k]
        /\ \A k \in DOMAIN old : all[k] = old[k]
    <2>1. \A k \in DOMAIN old : k \in DOMAIN old \ DOMAIN staged
      OBVIOUS
    <2>2. /\ DOMAIN all = DOMAIN staged \cup DOMAIN old
          /\ \A k \in DOMAIN staged : all[k] = staged[k]
          /\ \A k \in DOMAIN old \ DOMAIN staged : all[k] = old[k]
      BY OverFacts, ZenonT(40)
    <2> QED BY <2>1, <2>2
  <1> HIDE DEF all
  <1>2. Of(all, s) = DOMAIN staged
    BY <1>1 DEF Of, Seated
  <1>3. {all[k].number : k \in Of(all, s)} = {staged[k].number : k \in DOMAIN staged}
    BY <1>1, <1>2
  <1>4. ASSUME NEW n \in Int, i >= n, i = 0 \/ i <= n
        PROVE  Whole(all, s, n)
    <2>1. Max({n, 0}) = i /\ 1 .. n = 1 .. i
      BY <1>4, MaxWithZero
    <2> QED BY <1>2, <1>3, <2>1 DEF Whole, Seated
  <1>5. ASSUME NEW x, NEW n, x # s, Whole(old, x, n)
        PROVE  Whole(all, x, n)
    <2>1. Of(all, x) = Of(old, x)
      BY <1>1, <1>5 DEF Of, Seated
    <2>2. {all[k].number : k \in Of(old, x)} = {old[k].number : k \in Of(old, x)}
      BY <1>1 DEF Of
    <2> QED BY <1>5, <2>1, <2>2 DEF Whole
  <1> QED BY <1>4, <1>5 DEF all

\* The rows that the commit of a screening publishes: one screening, and its seats.
LEMMA CommitRows ==
  ASSUME IInv, NEW w \in Worker, pc[w] = "seats", Commit(w)
  PROVE  /\ db'.movies = db.movies /\ db'.screening_rooms = db.screening_rooms
         /\ tx[w].screening \notin DOMAIN db.screenings
         /\ DOMAIN db'.screenings = DOMAIN db.screenings \cup {tx[w].screening}
         /\ \A k \in DOMAIN db'.screenings :
              db'.screenings[k] \in [room : DOMAIN db.screening_rooms, movie : DOMAIN db.movies]
         /\ db'.seats = Over(writes[w].seats, db.seats)
         /\ DOMAIN writes[w].seats \cap DOMAIN db.seats = {}
         /\ Seated(writes[w].seats, tx[w].screening, tx[w].i)
         /\ \A k \in DOMAIN db.seats : db.seats[k].screening # tx[w].screening
  <1> DEFINE s == tx[w].screening
  <1>1. Adding(w) /\ Seated(writes[w].seats, s, tx[w].i)
    BY DEF IInv, Work
  <1>2. \A u \in Table : /\ db'[u] = Over(writes[w][u], db[u])
                         /\ DOMAIN writes[w][u] \cap DOMAIN db[u] = {}
    BY CommitFacts DEF IInv, Apart
  <1>3. /\ db'.movies = Over(NoRows, db.movies)
        /\ db'.screening_rooms = Over(NoRows, db.screening_rooms)
    BY <1>1, <1>2, TableNames DEF Adding
  <1>4. db'.movies = db.movies /\ db'.screening_rooms = db.screening_rooms
    BY <1>3, OverNothing, TableNames DEF IInv, Tables
  <1>5. PICK m \in DOMAIN db.movies :
          writes[w].screenings = Only(s, [room |-> tx[w].room, movie |-> m])
    BY <1>1 DEF Adding
  <1> DEFINE row == [room |-> tx[w].room, movie |-> m]
  <1>6. row \in [room : DOMAIN db.screening_rooms, movie : DOMAIN db.movies]
    BY <1>1 DEF Adding
  <1> HIDE DEF row
  <1>7. /\ db'.screenings = Over(Only(s, row), db.screenings)
        /\ DOMAIN Only(s, row) \cap DOMAIN db.screenings = {}
    BY <1>2, <1>5, TableNames DEF row
  <1>8. s \notin DOMAIN db.screenings
    BY <1>7 DEF Only
  <1>9. db'.screenings = [k \in DOMAIN db.screenings \cup {s} |->
                            IF k = s THEN row ELSE db.screenings[k]]
    BY <1>7 DEF Over, Only
  <1>10. \A k \in DOMAIN db.screenings :
           db.screenings[k] \in [room : DOMAIN db.screening_rooms, movie : DOMAIN db.movies]
    BY DEF IInv, RowsTyped
  <1>11. \A k \in DOMAIN db.seats : db.seats[k].screening \in DOMAIN db.screenings
    BY DEF IInv, RowsTyped
  <1>12. /\ db'.seats = Over(writes[w].seats, db.seats)
         /\ DOMAIN writes[w].seats \cap DOMAIN db.seats = {}
    BY <1>2, TableNames
  <1> HIDE DEF s
  <1>13. \A k \in DOMAIN db.seats : db.seats[k].screening # s
    BY <1>8, <1>11
  <1>14. /\ DOMAIN db'.screenings = DOMAIN db.screenings \cup {s}
         /\ \A k \in DOMAIN db'.screenings :
              db'.screenings[k] \in [room : DOMAIN db.screening_rooms, movie : DOMAIN db.movies]
    BY <1>6, <1>9, <1>10
  <1> QED BY <1>1, <1>4, <1>8, <1>12, <1>13, <1>14 DEF s

\* The loop ends with as many seats as the capacity that was read, which is one of those
\* that the room has had since the screening was inserted.
LEMMA CommitScreeningKeeps ==
  ASSUME IInv, NEW w \in Worker, CommitScreening(w)
  PROVE  IInv'
  <1> DEFINE s == tx[w].screening
             i == tx[w].i
             n == tx[w].capacity
  <1>1. /\ pc[w] = "seats" /\ pc' = [pc EXCEPT ![w] = "idle"]
        /\ tx' = [tx EXCEPT ![w] = NoRequest]
        /\ i >= n
        /\ Commit(w)
        /\ owed' = Over(Only(s, seen[w]), owed)
        /\ seen' = [seen EXCEPT ![w] = {}]
    BY DEF CommitScreening, Leave, Goto, Only
  <1>2. i \in Nat /\ n \in Int /\ n \in seen[w] /\ (i = 0 \/ i <= n)
    BY <1>1 DEF IInv, Work, Adding, Addition
  <1>3. /\ db'.movies = db.movies /\ db'.screening_rooms = db.screening_rooms
        /\ s \notin DOMAIN db.screenings
        /\ DOMAIN db'.screenings = DOMAIN db.screenings \cup {s}
        /\ \A k \in DOMAIN db'.screenings :
             db'.screenings[k] \in [room : DOMAIN db.screening_rooms, movie : DOMAIN db.movies]
        /\ db'.seats = Over(writes[w].seats, db.seats)
        /\ DOMAIN writes[w].seats \cap DOMAIN db.seats = {}
        /\ Seated(writes[w].seats, s, i)
        /\ \A k \in DOMAIN db.seats : db.seats[k].screening # s
    BY <1>1, CommitRows
  <1>4. /\ db' = [u \in Table |-> db'[u]]
        /\ writes' = [v \in Worker |-> [u \in Table |-> writes'[v][u]]]
        /\ \A u \in Table : writes'[w][u] = NoRows
        /\ \A v \in Worker \ {w} : writes'[v] = writes[v]
        /\ Tables' /\ Apart'
    BY <1>1, CommitFacts DEF IInv
  <1> HIDE DEF s, i, n
  <1>5. /\ DOMAIN owed' = DOMAIN owed \cup {s}
        /\ owed'[s] = seen[w]
        /\ \A x \in DOMAIN owed \ {s} : owed'[x] = owed[x]
    <2>1. owed' = [x \in DOMAIN owed \cup {s} |-> IF x = s THEN seen[w] ELSE owed[x]]
      BY <1>1 DEF Over, Only
    <2> QED BY <2>1
  <1>6. ScreeningsAreWhole'
    <2>1. DOMAIN owed = DOMAIN db.screenings
      BY DEF IInv, RowsTyped
    <2>2. /\ \A x \in Int : i >= x /\ (i = 0 \/ i <= x) => Whole(db'.seats, s, x)
          /\ \A y, x : y # s /\ Whole(db.seats, y, x) => Whole(db'.seats, y, x)
      BY <1>2, <1>3, SeatsPublished
    <2>3. Whole(db'.seats, s, n) /\ n \in owed'[s]
      BY <1>1, <1>2, <1>5, <2>2
    <2>4. ASSUME NEW y \in DOMAIN db.screenings
          PROVE  \E x \in owed'[y] : Whole(db'.seats, y, x)
      <3>1. \E x \in owed[y] : Whole(db.seats, y, x)
        BY WholeMeans DEF IInv
      <3>2. y # s /\ owed'[y] = owed[y]
        BY <1>3, <1>5, <2>1
      <3> QED BY <2>2, <3>1, <3>2
    <2> QED BY <1>3, <2>3, <2>4, WholeMeans
  <1>7. RowsTyped'
    <2>1. \A k \in DOMAIN db'.seats :
            db'.seats[k] \in [screening : DOMAIN db'.screenings, number : Nat]
      <3>1. /\ DOMAIN db'.seats = DOMAIN writes[w].seats \cup DOMAIN db.seats
            /\ \A k \in DOMAIN writes[w].seats : db'.seats[k] = writes[w].seats[k]
            /\ \A k \in DOMAIN db.seats \ DOMAIN writes[w].seats : db'.seats[k] = db.seats[k]
        <4> DEFINE f == writes[w].seats
                   g == db.seats
        <4>1. /\ DOMAIN Over(f, g) = DOMAIN f \cup DOMAIN g
              /\ \A k \in DOMAIN f : Over(f, g)[k] = f[k]
              /\ \A k \in DOMAIN g \ DOMAIN f : Over(f, g)[k] = g[k]
          <5> HIDE DEF f, g
          <5> QED BY OverFacts, ZenonT(40)
        <4> QED BY <1>3, <4>1
      <3>2. \A k \in DOMAIN writes[w].seats :
              writes[w].seats[k] \in [screening : {s}, number : Nat]
        BY <1>3 DEF Seated
      <3>3. \A k \in DOMAIN db.seats :
              db.seats[k] \in [screening : DOMAIN db.screenings, number : Nat]
        BY DEF IInv, RowsTyped
      <3> QED BY <1>3, <3>1, <3>2, <3>3
    <2> QED BY <1>3, <1>5, <2>1 DEF IInv, RowsTyped
  <1>8. /\ pc'[w] = "idle" /\ tx'[w] = NoRequest
        /\ pc' = [v \in Worker |-> pc'[v]] /\ tx' = [v \in Worker |-> tx'[v]]
        /\ \A v \in Worker \ {w} : pc'[v] = pc[v] /\ tx'[v] = tx[v] /\ seen'[v] = seen[v]
        /\ seen' \in [Worker -> SUBSET Int]
    BY <1>1 DEF IInv, Shape
  <1>9. Work(w)'
    BY <1>4, <1>8 DEF Work, Label, Quiet
  <1>10. ASSUME NEW v \in Worker \ {w}
         PROVE  Work(v)'
    <2>1. pc[v] = "capacity" => db.screening_rooms[tx[v].room].capacity \in seen[v]
      BY DEF IInv, Work
    <2> QED BY <1>3, <1>4, <1>8, <2>1, Bystander
  <1>11. Shape'
    BY <1>4, <1>8 DEF Shape
  <1> QED BY <1>4, <1>6, <1>7, <1>9, <1>10, <1>11 DEF IInv

\* What a transaction that fails has staged is forgotten.
LEMMA FailKeeps ==
  ASSUME IInv, NEW w \in Worker, Fail(w)
  PROVE  IInv'
  <1>1. /\ pc' = [pc EXCEPT ![w] = "idle"]
        /\ tx' = [tx EXCEPT ![w] = NoRequest]
        /\ Rollback(w)
        /\ seen' = [seen EXCEPT ![w] = {}]
        /\ owed' = owed
    BY DEF Fail, Leave, Goto
  <1>2. /\ writes' = [v \in Worker |-> [u \in Table |-> writes'[v][u]]]
        /\ \A u \in Table : writes'[w][u] = NoRows
        /\ \A v \in Worker \ {w} : writes'[v] = writes[v]
        /\ db' = db
        /\ Tables' /\ Apart'
    BY <1>1, RollbackFacts DEF IInv
  <1>3. /\ pc'[w] = "idle" /\ pc' = [pc EXCEPT ![w] = pc'[w]]
        /\ tx'[w] = NoRequest /\ tx' = [tx EXCEPT ![w] = tx'[w]]
        /\ seen'[w] = {} /\ seen' = [seen EXCEPT ![w] = seen'[w]]
    BY <1>1 DEF IInv, Shape
  <1>4. Work(w)'
    BY <1>2, <1>3 DEF Work, Label, Quiet
  <1> QED BY <1>1, <1>2, <1>3, <1>4, Assemble

-----------------------------------------------------------------------------
(* The invariant *)

LEMMA InitIInv == Init => IInv
  <1> SUFFICES ASSUME Init
               PROVE  IInv
    OBVIOUS
  <1>1. /\ db = [t \in Table |-> db[t]]
        /\ db.movies = Movies /\ db.screening_rooms = Rooms
        /\ db.screenings = NoRows /\ db.seats = NoRows
    <2> DEFINE F(t) == CASE t = "movies" -> Movies
                         [] t = "screening_rooms" -> Rooms
                         [] OTHER -> NoRows
    <2>1. db = [t \in Table |-> F(t)]
      BY DEF Init
    <2>2. /\ F("movies") = Movies /\ F("screening_rooms") = Rooms
          /\ F("screenings") = NoRows /\ F("seats") = NoRows
      OBVIOUS
    <2> HIDE DEF F
    <2> QED BY <2>1, <2>2, TableNames
  <1>2. writes = [v \in Worker |-> [u \in Table |-> NoRows]]
    BY DEF Init, Begun, NoWrites
  <1>3. Shape
    BY <1>1, <1>2 DEF Init, Shape
  <1>4. Tables
    <2>1. IsTable(Movies) /\ IsTable(Rooms) /\ IsTable(NoRows)
      BY StartAssumption, NoRowsIsTable DEF IsTable
    <2>2. \A t \in Table : IsTable(db[t])
      BY <1>1, <2>1, TableAssumption
    <2> QED BY <1>2, <2>1, <2>2 DEF Tables
  <1>5. Apart
    BY <1>2, NoRowsIsTable DEF Apart
  <1>6. RowsTyped
    BY <1>1, NoRowsIsTable, StartAssumption DEF Init, RowsTyped, RoomRow
  <1>7. \A w \in Worker : Work(w)
    BY <1>2 DEF Init, Work, Label, Quiet
  <1>8. ScreeningsAreWhole
    BY <1>1, NoRowsIsTable, WholeMeans
  <1> QED BY <1>3, <1>4, <1>5, <1>6, <1>7, <1>8 DEF IInv

LEMMA NextKeeps == IInv /\ [Next]_vars => IInv'
  <1> SUFFICES ASSUME IInv, [Next]_vars
               PROVE  IInv'
    OBVIOUS
  <1>1. CASE UNCHANGED vars
    <2>1. /\ (Shape' = Shape) /\ (Tables' = Tables) /\ (Apart' = Apart)
          /\ (RowsTyped' = RowsTyped) /\ ScreeningsAreWhole'
      BY <1>1, SameScreenings DEF vars, IInv, Shape, Tables, Apart, RowsTyped
    <2>2. ASSUME NEW w \in Worker
          PROVE  Work(w)'
      <3>1. pc[w] = "capacity" => db.screening_rooms[tx[w].room].capacity \in seen[w]
        BY DEF IInv, Work
      <3> QED BY <1>1, <3>1, Bystander DEF vars
    <2> QED BY <2>1, <2>2 DEF IInv
  <1>2. CASE Modify
    BY <1>2, MovieModifyKeeps, RoomModifyKeeps, FormModifyScreeningKeeps DEF Modify
  <1>3. ASSUME NEW w \in Worker, Arrive(w)
        PROVE  IInv'
    <2>1. CASE \E n \in Name : movie_register(w, n)
      BY <2>1, CheckNameKeeps DEF movie_register, Named
    <2>2. CASE \E n \in Name, c \in Capacity : room_register(w, n, c)
      <3>1. PICK n \in Name, c \in Capacity : room_register(w, n, c)
        BY <2>2
      <3>2. [name |-> n, capacity |-> c] \in RoomRow
        BY CapacityAssumption DEF RoomRow
      <3> QED BY <3>1, <3>2, CheckNameKeeps DEF room_register, Named
    <2>3. CASE \E r \in DOMAIN db.screening_rooms, m \in DOMAIN db.movies :
                 InsertScreening(w, r, m)
      BY <2>3, InsertScreeningKeeps
    <2> QED BY <1>3, <2>1, <2>2, <2>3 DEF Arrive
  <1>4. ASSUME NEW w \in Worker, Step(w) \/ Fail(w)
        PROVE  IInv'
    BY <1>4, RegisterInsertKeeps, ReadCapacityKeeps, InsertSeatKeeps, CommitScreeningKeeps,
       FailKeeps DEF Step
  <1> QED BY <1>1, <1>2, <1>3, <1>4 DEF Next

\* Whatever is staged is its transaction's alone, and what is committed is whole
\* (movies.cpp, room.cpp and movie_manage.cpp, in READ COMMITTED).
THEOREM Invariance == Spec => []IInv
  <1> QED BY InitIInv, NextKeeps, PTL DEF Spec

-----------------------------------------------------------------------------
(* Races of registrations *)

\* What a registration knows of the names of its table, and what the history says of those
\* that are there.
Unrivalled(w) ==
  \A k \in DOMAIN rivals[tx[w].table] \ tx[w].since :
    db[tx[w].table][k].name # tx[w].row.name

Races ==
  /\ rivals = [t \in Named |-> rivals[t]]
  /\ \A t \in Named : /\ DOMAIN rivals[t] \subseteq DOMAIN db[t]
                      /\ \A k \in DOMAIN rivals[t] : rivals[t][k] \subseteq Nat
  /\ \A w \in Worker : pc[w] = "insert" => Unrivalled(w)
  /\ DuplicatesHaveRaced

LEMMA NamedFacts == \A t \in Named : t \in Table /\ t # "screenings" /\ t # "seats"
  BY TableNames DEF Named

\* No row gets a name under which it can be a rival, and nobody begins a registration.
LEMMA RacesStay ==
  ASSUME IInv, Races, rivals' = [t \in Named |-> rivals'[t]],
         \A t \in Named : /\ DOMAIN rivals'[t] \subseteq DOMAIN rivals[t]
                          /\ DOMAIN db[t] \subseteq DOMAIN db'[t]
                          /\ \A k \in DOMAIN rivals'[t] : /\ rivals'[t][k] = rivals[t][k]
                                                          /\ db'[t][k].name = db[t][k].name,
         \A w \in Worker : pc'[w] = "insert" => pc[w] = "insert" /\ tx'[w] = tx[w]
  PROVE  Races'
  <1>1. \A t \in Named : /\ DOMAIN rivals'[t] \subseteq DOMAIN db'[t]
                         /\ \A k \in DOMAIN rivals'[t] : rivals'[t][k] \subseteq Nat
    BY DEF Races
  <1>2. ASSUME NEW w \in Worker, pc'[w] = "insert"
        PROVE  Unrivalled(w)'
    <2>1. pc[w] = "insert" /\ tx'[w] = tx[w] /\ tx[w].table \in Named
      BY <1>2 DEF IInv, Work, Registering, Registration
    <2> QED BY <2>1 DEF Races, Unrivalled
  <1>3. DuplicatesHaveRaced'
    BY DEF Races, DuplicatesHaveRaced
  <1> QED BY <1>1, <1>2, <1>3 DEF Races

LEMMA SameRaces ==
  ASSUME IInv, Races, rivals' = rivals,
         \A t \in Named : db'[t] = db[t],
         \A w \in Worker : pc'[w] = "insert" => pc[w] = "insert" /\ tx'[w] = tx[w]
  PROVE  Races'
  <1>1. rivals' = [t \in Named |-> rivals'[t]]
    BY DEF Races
  <1> QED BY <1>1, RacesStay

\* What the check has seen is all that is there.
LEMMA CheckNameRaces ==
  ASSUME IInv, Races, NEW w \in Worker, NEW t \in Named, NEW row, CheckName(w, t, row)
  PROVE  Races'
  <1>1. /\ pc' = [pc EXCEPT ![w] = "insert"]
        /\ tx' = [tx EXCEPT ![w] = [table |-> t, row |-> row, since |-> {}]]
        /\ db' = db /\ rivals' = rivals
    BY DEF CheckName, Ask, Goto
  <1>2. /\ tx'[w].table = t /\ tx'[w].row = row
        /\ \A v \in Worker \ {w} : pc'[v] = pc[v] /\ tx'[v] = tx[v]
    BY <1>1 DEF IInv, Shape
  <1>3. \A k \in DOMAIN rivals[t] : db[t][k].name # row.name
    BY DEF CheckName, Races
  <1>4. ASSUME NEW v \in Worker, pc'[v] = "insert"
        PROVE  Unrivalled(v)'
    <2>1. CASE v = w
      BY <1>1, <1>2, <1>3, <2>1 DEF Unrivalled
    <2>2. CASE v # w
      BY <1>1, <1>2, <1>4, <2>2 DEF Races, Unrivalled
    <2> QED BY <2>1, <2>2
  <1>5. DuplicatesHaveRaced'
    BY <1>1 DEF Races, DuplicatesHaveRaced
  <1> QED BY <1>1, <1>4, <1>5 DEF Races

\* A rival of the new row's name has come since the check, so that it is among its rivals.
LEMMA RegisterInsertRaces ==
  ASSUME IInv, Races, NEW w \in Worker, RegisterInsert(w)
  PROVE  Races'
  <1> DEFINE t == tx[w].table
             k == Next_id(t)
             row == tx[w].row
             since == tx[w].since
  <1>1. /\ pc[w] = "insert" /\ pc' = [pc EXCEPT ![w] = "idle"]
        /\ Put(t, k, row)
        /\ tx' = [v \in Worker |->
                    IF v = w THEN NoRequest
                    ELSE IF pc[v] = "insert" /\ tx[v].table = t
                         THEN [tx[v] EXCEPT !.since = @ \cup {k}] ELSE tx[v]]
        /\ rivals' = [rivals EXCEPT ![t] = Over([j \in {k} |-> since], @)]
    BY DEF RegisterInsert, Goto
  <1>2. t \in Named /\ since \in SUBSET Nat /\ Unrivalled(w)
    BY <1>1 DEF IInv, Work, Registering, Registration, Races
  <1>3. k \in Nat /\ k \notin DOMAIN db[t] /\ k \notin DOMAIN rivals[t]
    BY <1>2, IdIsNew, NamedFacts DEF IInv, Races
  <1>4. \A j \in DOMAIN rivals[t] \ since : db[t][j].name # row.name
    BY <1>2 DEF Unrivalled
  <1> HIDE DEF k, row, since
  <1>5. /\ \A u \in Table \ {t} : db'[u] = db[u]
        /\ DOMAIN db'[t] = DOMAIN db[t] \cup {k}
        /\ db'[t][k] = row
        /\ \A j \in DOMAIN db[t] \ {k} : db'[t][j] = db[t][j]
    BY <1>1, <1>2, <1>3, NamedFacts, PutFacts DEF IInv
  <1>6. /\ rivals' = [u \in Named |-> rivals'[u]]
        /\ \A u \in Named \ {t} : rivals'[u] = rivals[u]
        /\ DOMAIN rivals'[t] = DOMAIN rivals[t] \cup {k}
        /\ rivals'[t][k] = since
        /\ \A j \in DOMAIN rivals[t] : rivals'[t][j] = rivals[t][j]
    <2>1. /\ rivals' = [u \in Named |-> rivals'[u]]
          /\ \A u \in Named \ {t} : rivals'[u] = rivals[u]
          /\ rivals'[t] = Over([j \in {k} |-> since], rivals[t])
      BY <1>1, <1>2 DEF Races
    <2>2. rivals'[t] = [j \in DOMAIN rivals[t] \cup {k} |->
                          IF j = k THEN since ELSE rivals[t][j]]
      BY <2>1 DEF Over
    <2> QED BY <1>3, <2>1, <2>2
  <1>7. \A u \in Named : /\ DOMAIN rivals'[u] \subseteq DOMAIN db'[u]
                         /\ \A j \in DOMAIN rivals'[u] : rivals'[u][j] \subseteq Nat
    BY <1>2, <1>5, <1>6, NamedFacts DEF Races
  <1>8. \A j \in DOMAIN rivals[t] : j # k /\ db'[t][j] = db[t][j]
    BY <1>2, <1>3, <1>5 DEF Races
  <1>9. ASSUME NEW v \in Worker, pc'[v] = "insert"
        PROVE  Unrivalled(v)'
    <2>1. v # w /\ pc[v] = "insert"
      BY <1>1, <1>9 DEF IInv, Shape
    <2>2. Unrivalled(v) /\ tx[v] \in Registration /\ tx[v].table \in Named
      BY <2>1 DEF IInv, Work, Registering, Registration, Races
    <2>3. CASE tx[v].table = t
      <3>1. tx'[v] = [tx[v] EXCEPT !.since = @ \cup {k}]
        BY <1>1, <2>1, <2>3
      <3>2. /\ tx'[v].table = t /\ tx'[v].row = tx[v].row
            /\ tx'[v].since = tx[v].since \cup {k}
        BY <2>2, <2>3, <3>1 DEF Registration
      <3> HIDE DEF t
      <3>3. \A j \in DOMAIN rivals[t] \ tx[v].since : db[t][j].name # tx[v].row.name
        BY <2>2, <2>3 DEF Unrivalled
      <3> QED BY <1>6, <1>8, <3>2, <3>3 DEF Unrivalled
    <2>4. CASE tx[v].table # t
      <3>1. tx'[v] = tx[v]
        BY <1>1, <2>1, <2>4
      <3>2. db'[tx[v].table] = db[tx[v].table] /\ rivals'[tx[v].table] = rivals[tx[v].table]
        BY <1>5, <1>6, <2>2, <2>4, NamedFacts
      <3> QED BY <2>2, <3>1, <3>2 DEF Unrivalled
    <2> QED BY <2>3, <2>4
  <1>10. ASSUME NEW u \in Named, NEW x \in DOMAIN rivals'[u], NEW y \in DOMAIN rivals'[u],
                x # y, db'[u][x].name = db'[u][y].name
         PROVE  x \in rivals'[u][y] \/ y \in rivals'[u][x]
    <2>1. CASE u # t
      BY <1>5, <1>6, <1>10, <2>1, NamedFacts DEF Races, DuplicatesHaveRaced
    <2>2. CASE u = t /\ x # k /\ y # k
      BY <1>6, <1>8, <1>10, <2>2 DEF Races, DuplicatesHaveRaced
    <2>3. CASE u = t /\ x = k
      BY <1>4, <1>5, <1>6, <1>8, <1>10, <2>3
    <2>4. CASE u = t /\ y = k
      BY <1>4, <1>5, <1>6, <1>8, <1>10, <2>4
    <2> QED BY <2>1, <2>2, <2>3, <2>4
  <1>11. DuplicatesHaveRaced'
    BY <1>10 DEF DuplicatesHaveRaced
  <1> QED BY <1>6, <1>7, <1>9, <1>11 DEF Races

\* A row that is renamed is no rival any more; one that keeps its name is as it was.
LEMMA RenamedRaces ==
  ASSUME IInv, Races, NEW t \in Named, NEW k \in DOMAIN db[t], NEW row, NEW name,
         row.name = name, Put(t, k, row), Renamed(t, k, name), pc' = pc, tx' = tx
  PROVE  Races'
  <1>1. k \in Nat
    BY NamedFacts DEF IInv, Tables, IsTable
  <1>2. /\ \A u \in Table \ {t} : db'[u] = db[u]
        /\ DOMAIN db'[t] = DOMAIN db[t] \cup {k}
        /\ db'[t][k] = row
        /\ \A j \in DOMAIN db[t] \ {k} : db'[t][j] = db[t][j]
    BY <1>1, NamedFacts, PutFacts DEF IInv
  <1>3. CASE name = db[t][k].name
    <2>1. rivals' = rivals
      BY <1>3 DEF Renamed
    <2>2. \A u \in Named : /\ DOMAIN db[u] \subseteq DOMAIN db'[u]
                           /\ \A j \in DOMAIN rivals[u] : db'[u][j].name = db[u][j].name
      BY <1>2, <1>3, NamedFacts DEF Races
    <2> QED BY <2>1, <2>2, RacesStay DEF Races
  <1>4. CASE name # db[t][k].name
    <2>1. rivals' = [rivals EXCEPT ![t] = [j \in DOMAIN @ \ {k} |-> @[j]]]
      BY <1>4 DEF Renamed
    <2>2. /\ rivals' = [u \in Named |-> rivals'[u]]
          /\ \A u \in Named \ {t} : rivals'[u] = rivals[u]
          /\ DOMAIN rivals'[t] = DOMAIN rivals[t] \ {k}
          /\ \A j \in DOMAIN rivals'[t] : rivals'[t][j] = rivals[t][j]
      BY <2>1 DEF Races
    <2>3. \A u \in Named : /\ DOMAIN rivals'[u] \subseteq DOMAIN rivals[u]
                           /\ DOMAIN db[u] \subseteq DOMAIN db'[u]
                           /\ \A j \in DOMAIN rivals'[u] : /\ rivals'[u][j] = rivals[u][j]
                                                           /\ db'[u][j].name = db[u][j].name
      BY <1>2, <2>2, NamedFacts DEF Races
    <2> QED BY <2>2, <2>3, RacesStay
  <1> QED BY <1>3, <1>4

LEMMA ModifyRaces ==
  ASSUME IInv, Races, Modify
  PROVE  Races'
  <1>1. ASSUME NEW m \in DOMAIN db.movies, NEW name \in Name, movie_modify(m, name)
        PROVE  Races'
    <2>1. [name |-> name].name = name
      OBVIOUS
    <2> QED BY <1>1, <2>1, RenamedRaces DEF movie_modify, Named
  <1>2. ASSUME NEW r \in DOMAIN db.screening_rooms, NEW name \in Name, NEW capacity,
               room_modify(r, name, capacity)
        PROVE  Races'
    <2>1. PICK row : /\ row.name = name /\ Put("screening_rooms", r, row)
                     /\ Renamed("screening_rooms", r, name) /\ pc' = pc /\ tx' = tx
      BY <1>2 DEF room_modify
    <2> QED BY <2>1, RenamedRaces DEF Named
  <1>3. ASSUME NEW s, NEW r, form_modify_screening(s, r)
        PROVE  Races'
    <2>1. /\ s \in DOMAIN db.screenings
          /\ Put("screenings", s, [db.screenings[s] EXCEPT !.room = r])
          /\ UNCHANGED <<pc, tx, rivals>>
      BY <1>3 DEF form_modify_screening
    <2>2. s \in Nat
      BY <2>1, TableNames DEF IInv, Tables, IsTable
    <2>3. \A u \in Table \ {"screenings"} : db'[u] = db[u]
      BY <2>1, <2>2, TableNames, PutFacts DEF IInv
    <2> QED BY <2>1, <2>3, NamedFacts, SameRaces
  <1> QED BY <1>1, <1>2, <1>3 DEF Modify

\* The other steps of a worker commit no movie and no room.
LEMMA ScreeningRaces ==
  ASSUME IInv, Races, NEW w \in Worker,
         \/ \E r, m : InsertScreening(w, r, m)
         \/ ReadCapacity(w) \/ InsertSeat(w) \/ CommitScreening(w) \/ Fail(w)
  PROVE  Races'
  <1>1. /\ rivals' = rivals
        /\ pc' = [pc EXCEPT ![w] = pc'[w]] /\ pc'[w] # "insert"
        /\ tx' = [tx EXCEPT ![w] = tx'[w]]
    BY DEF InsertScreening, ReadCapacity, InsertSeat, CommitScreening, Fail, Leave, Goto,
           IInv, Shape
  <1>2. \A v \in Worker : pc'[v] = "insert" => pc[v] = "insert" /\ tx'[v] = tx[v]
    BY <1>1 DEF IInv, Shape
  <1>3. db'.movies = db.movies /\ db'.screening_rooms = db.screening_rooms
    <2>1. CASE CommitScreening(w)
      BY <2>1, CommitRows DEF CommitScreening, Leave, Goto
    <2>2. CASE ~CommitScreening(w)
      BY <2>2 DEF InsertScreening, Write, ReadCapacity, InsertSeat, Fail, Rollback
    <2> QED BY <2>1, <2>2
  <1> QED BY <1>1, <1>2, <1>3, SameRaces DEF Named

LEMMA InitRaces == Init => Races
  <1> SUFFICES ASSUME Init
               PROVE  Races
    OBVIOUS
  <1>1. /\ rivals = [t \in Named |-> [k \in DOMAIN db[t] |-> DOMAIN db[t]]]
        /\ \A w \in Worker : pc[w] # "insert"
    BY DEF Init
  <1>2. \A t \in Named : DOMAIN db[t] \subseteq Nat
    BY InitIInv, NamedFacts DEF IInv, Tables, IsTable
  <1> QED BY <1>1, <1>2 DEF Races, DuplicatesHaveRaced

LEMMA NextRaces == IInv /\ Races /\ [Next]_vars => Races'
  <1> SUFFICES ASSUME IInv, Races, [Next]_vars
               PROVE  Races'
    OBVIOUS
  <1>1. CASE UNCHANGED vars
    BY <1>1, SameRaces DEF vars
  <1>2. CASE Modify
    BY <1>2, ModifyRaces
  <1>3. ASSUME NEW w \in Worker, Arrive(w)
        PROVE  Races'
    BY <1>3, CheckNameRaces, ScreeningRaces DEF Arrive, movie_register, room_register, Named
  <1>4. ASSUME NEW w \in Worker, Step(w) \/ Fail(w)
        PROVE  Races'
    BY <1>4, RegisterInsertRaces, ScreeningRaces DEF Step
  <1> QED BY <1>1, <1>2, <1>3, <1>4 DEF Next

\* The history knows every race of every movie and room that nobody has renamed.
LEMMA RacesKnown == Spec => []Races
  <1> QED BY Invariance, InitRaces, NextRaces, PTL DEF Spec

-----------------------------------------------------------------------------
(* What follows *)

\* Every row is what it should be and refers to rows that exist, whatever capacities forms
\* give, and the locals of every handler are those of its statement.
THEOREM TypeCorrect == Spec => []TypeOK
  <1>1. IInv /\ Races => TypeOK
    <2> SUFFICES ASSUME IInv, Races
                 PROVE  TypeOK
      OBVIOUS
    <2>1. pc \in [Worker -> Label]
      BY DEF IInv, Shape, Work
    <2>2. ASSUME NEW w \in Worker
          PROVE  CASE pc[w] = "idle" -> tx[w] = NoRequest
                   [] pc[w] = "insert" -> tx[w] \in Registration
                   [] OTHER -> tx[w] \in Addition
      BY DEF IInv, Work, Registering, Adding, Label
    <2> QED BY <2>1, <2>2 DEF IInv, Shape, RowsTyped, RoomRow, Races, TypeOK
  <1> QED BY <1>1, Invariance, RacesKnown, PTL

\* A screening that anybody can see has all its seats, whatever failed, whoever else added
\* screenings, and whoever changed its room meanwhile or later (movie_manage.cpp,
\* form_add_screening).
THEOREM ScreeningsAreAlwaysWhole == Spec => []ScreeningsAreWhole
  <1>1. IInv => ScreeningsAreWhole
    BY DEF IInv
  <1> QED BY <1>1, Invariance, PTL

\* Two movies, or two rooms, of one name that nobody has renamed come from registrations of
\* which one was between its check and its insert while the other inserted, whatever else
\* runs (movies.cpp, movie_register; room.cpp, room_register).
THEOREM DuplicatesHaveAlwaysRaced == Spec => []DuplicatesHaveRaced
  <1>1. Races => DuplicatesHaveRaced
    BY DEF Races
  <1> QED BY <1>1, RacesKnown, PTL

-----------------------------------------------------------------------------
(* Pagination *)

\* The number of pages is that of rows divided by ten, rounded up (movies.cpp:187-190).
LEMMA TotalPagesRoundsUp ==
  ASSUME NEW total \in Nat
  PROVE  /\ TotalPages(total) \in Nat
         /\ total <= TotalPages(total) * 10
         /\ TotalPages(total) * 10 < total + 10
  BY DEF TotalPages

\* Row i is on page (i - 1) \div 10 + 1 and on no other.
LEMMA PageOfRow ==
  ASSUME NEW total \in Nat, NEW i \in 1 .. total
  PROVE  (i - 1) \div 10 + 1 \in 1 .. TotalPages(total) /\ i \in RowsOf((i - 1) \div 10 + 1, total)
  <1>. DEFINE p == (i - 1) \div 10 + 1
  <1>1. /\ p \in Nat \ {0}
        /\ (p - 1) * 10 < i
        /\ i <= p * 10
    OBVIOUS
  <1>2. p <= TotalPages(total)
    BY <1>1, TotalPagesRoundsUp
  <1>. QED  BY <1>1, <1>2, TotalPagesRoundsUp DEF RowsOf

\* Every row is on exactly one of the pages that are counted, and none of them is empty,
\* however many rows there are (movies.cpp:187-201).
THEOREM RowsCovered == PagesCoverRows
  <1>. SUFFICES ASSUME NEW total \in 0 .. 10 * MaxPages
                PROVE  LET pages == 1 .. TotalPages(total)
                       IN /\ \A i \in 1 .. total : \E p \in pages : i \in RowsOf(p, total)
                          /\ \A p \in pages : RowsOf(p, total) # {}
                          /\ \A p, q \in pages :
                               p # q => RowsOf(p, total) \cap RowsOf(q, total) = {}
    BY DEF PagesCoverRows
  <1>. DEFINE pages == 1 .. TotalPages(total)
  <1>. total \in Nat  BY MaxPagesAssumption
  <1>1. \A i \in 1 .. total : \E p \in pages : i \in RowsOf(p, total)
    BY PageOfRow
  <1>2. ASSUME NEW p \in pages  PROVE RowsOf(p, total) # {}
    <2>1. (p - 1) * 10 + 1 \in RowsOf(p, total)
      BY TotalPagesRoundsUp DEF RowsOf
    <2>. QED  BY <2>1
  <1>3. ASSUME NEW p \in pages, NEW q \in pages, p # q
        PROVE  RowsOf(p, total) \cap RowsOf(q, total) = {}
    <2>1. p \in Nat /\ q \in Nat
      BY TotalPagesRoundsUp
    <2>2. ASSUME NEW i \in RowsOf(p, total), i \in RowsOf(q, total)
          PROVE  FALSE
      <3>1. /\ i \in Nat
            /\ (p - 1) * 10 < i /\ i <= p * 10
            /\ (q - 1) * 10 < i /\ i <= q * 10
        BY <2>2 DEF RowsOf
      <3> QED BY <1>3, <2>1, <3>1
    <2> QED BY <2>2
  <1>. QED  BY <1>1, <1>2, <1>3

\* On every page of every list the links are right (movies.cpp:213-241).
THEOREM LinksRight == WindowIsRight
  <1>. SUFFICES ASSUME NEW total \in 1 .. MaxPages, NEW page \in 1 .. total
                PROVE  LET w == Window(page, total)
                           out == (1 .. total) \ Linked(page, total)
                       IN /\ Linked(page, total) \subseteq 1 .. total
                          /\ \A p \in 1 .. total : page - 3 <= p /\ p <= page + 3
                                                     => p \in Linked(page, total)
                          /\ w.left_ellipsis <=> \E p \in out : p < page
                          /\ w.right_ellipsis <=> \E p \in out : p > page
                          /\ w.left_ellipsis => 1 \notin w.pages_left
                          /\ w.right_ellipsis => total \notin w.pages_right
    BY DEF WindowIsRight
  <1>. DEFINE w == Window(page, total)
              out == (1 .. total) \ Linked(page, total)
              left == page - 3 > 2
              right == page + 3 < total - 1
  <1>. total \in Nat /\ page \in Nat  BY MaxPagesAssumption
  <1>1. /\ w.left_ellipsis = left
        /\ w.right_ellipsis = right
        /\ w.pages_left = (IF left THEN page - 3 ELSE 1) .. page - 1
        /\ w.pages_right = page + 1 .. (IF right THEN page + 3 ELSE total)
    BY DEF Window
  <1>2. Linked(page, total) = w.pages_left \cup w.pages_right \cup {page}
                                \cup (IF left THEN {1} ELSE {})
                                \cup (IF right THEN {total} ELSE {})
    BY <1>1 DEF Linked
  <1>. HIDE DEF w
  <1>3. \A p \in 1 .. total :
          p \in Linked(page, total) <=> \/ p = 1 \/ p = total
                                        \/ ~left /\ p <= page
                                        \/ ~right /\ page <= p
                                        \/ page - 3 <= p /\ p <= page + 3
    BY <1>1, <1>2
  <1>4. Linked(page, total) \subseteq 1 .. total
    BY <1>1, <1>2
  <1>5. left <=> \E p \in out : p < page
    <2>1. left => 2 \in out /\ 2 < page  BY <1>3
    <2>2. ASSUME NEW p \in out, p < page  PROVE left  BY <2>2, <1>3
    <2>. QED  BY <2>1, <2>2
  <1>6. right <=> \E p \in out : p > page
    <2>1. right => total - 1 \in out /\ total - 1 > page  BY <1>3
    <2>2. ASSUME NEW p \in out, p > page  PROVE right  BY <2>2, <1>3
    <2>. QED  BY <2>1, <2>2
  <1>7. \A p \in 1 .. total : page - 3 <= p /\ p <= page + 3 => p \in Linked(page, total)
    BY <1>3
  <1>8. left => 1 \notin w.pages_left
    BY <1>1
  <1>9. right => total \notin w.pages_right
    BY <1>1
  <1>. HIDE DEF left, right, out
  <1>10. /\ w.left_ellipsis <=> \E p \in out : p < page
         /\ w.right_ellipsis <=> \E p \in out : p > page
         /\ w.left_ellipsis => 1 \notin w.pages_left
         /\ w.right_ellipsis => total \notin w.pages_right
    BY <1>1, <1>5, <1>6, <1>8, <1>9
  <1>. QED  BY Zenon, <1>4, <1>7, <1>10 DEF w, out
=============================================================================
