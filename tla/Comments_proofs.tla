--------------------------- MODULE Comments_proofs ---------------------------
(***************************************************************************)
(* Proofs about Comments.  What a transaction has written in the table of  *)
(* comments is one row: a comment that is not on record yet, or its user's *)
(* own comment with the new rating and nothing else changed.  No other     *)
(* transaction has written that row, so it says so of the rows that are    *)
(* committed now, whatever was committed since it was written.             *)
(***************************************************************************)
EXTENDS Comments, Sums_proofs, FiniteSetTheorems, TLAPS

(* The inductive invariant *)

\* The tables, the write sets, the positions and the locals are functions.
Shape ==
  /\ db = [t \in Table |-> db[t]]
  /\ writes = [w \in Worker |-> [t \in Table |-> writes[w][t]]]
  /\ pc = [w \in Worker |-> pc[w]]
  /\ tx = [w \in Worker |-> tx[w]]

\* The ids on record have been drawn from the sequence.
Records ==
  /\ next \in Nat \ {0}
  /\ db.comments = [c \in DOMAIN db.comments |-> db.comments[c]]
  /\ DOMAIN db.comments \subseteq 1 .. next - 1
  /\ \A c \in DOMAIN db.comments : db.comments[c] \in CommentRow

\* A comment is written by one transaction at a time.
Locks == \A v, w \in Worker :
           v # w => DOMAIN writes[v].comments \cap DOMAIN writes[w].comments = {}

\* The transaction of w has written a comment.
Late == {"average", "store", "commit"}
Wrote(w) == pc[w] \in Late

\* It has found its user's own comment, to edit it.
Editing(w) == /\ tx[w].kind = "modify"
              /\ \/ pc[w] = "index" /\ tx[w].movie # NoMovie
                 \/ pc[w] = "update"
                 \/ Wrote(w)

OnRecord(w) == /\ tx[w].comment \in DOMAIN db.comments
               /\ db.comments[tx[w].comment].user = tx[w].user

\* The locals of w are those of a handler at its statement.
Handler(w) ==
  /\ tx[w] = [kind |-> tx[w].kind, user |-> tx[w].user, movie |-> tx[w].movie,
              comment |-> tx[w].comment, rating |-> tx[w].rating, average |-> tx[w].average]
  /\ tx[w].user \in User
  /\ tx[w].rating \in Int
  /\ tx[w].kind \in {"add", "modify"}
  /\ tx[w].kind = "add" => tx[w].movie \in Movie
  /\ pc[w] \in Adding => tx[w].kind = "add"
  /\ pc[w] \in Modifying => tx[w].kind = "modify"

Sane(w) ==
  /\ pc[w] \in Label
  /\ pc[w] # "idle" => Handler(w)
  /\ pc[w] # "idle" /\ Editing(w) => OnRecord(w)

\* A table of one row.
Only(k, row) == [j \in {k} |-> row]

Edited(w) == LET row == db.comments[tx[w].comment] IN
             [row EXCEPT !.rating = IF tx[w].rating = 0 THEN @ ELSE tx[w].rating]

Staged(w) ==
  /\ ~Wrote(w) => writes[w].comments = NoRows
  /\ Wrote(w) /\ tx[w].kind = "add" =>
       \E k \in (1 .. next - 1) \ DOMAIN db.comments, row \in CommentRow :
         writes[w].comments = Only(k, row)
  /\ Wrote(w) /\ tx[w].kind = "modify" =>
       writes[w].comments = Only(tx[w].comment, Edited(w))

IInv == /\ Shape /\ Records /\ Locks
        /\ \A w \in Worker : Sane(w) /\ Staged(w)

-----------------------------------------------------------------------------
(* The database *)

LEMMA Tables == "comments" \in Table /\ "movies" \in Table
  BY TableAssumption

\* A transaction that has written no comment sees those that are committed.
LEMMA SeesCommitted ==
  ASSUME Records, NEW w \in Worker, writes[w].comments = NoRows
  PROVE  View(w, "comments") = db.comments
  BY DEF View, Over, NoRows, Records

\* The first write stages one row and takes its lock.
LEMMA WriteStages ==
  ASSUME Shape, Locks, NEW w \in Worker, NEW k, NEW row,
         writes[w].comments = NoRows, Write(w, "comments", k, row)
  PROVE  /\ writes' = [v \in Worker |-> [t \in Table |-> writes'[v][t]]]
         /\ writes'[w].comments = Only(k, row)
         /\ \A v \in Worker \ {w} : writes'[v].comments = writes[v].comments
         /\ UNCHANGED db
         /\ Locks'
  <1>1. Over([j \in {k} |-> row], writes[w].comments) = Only(k, row)
    BY DEF Over, NoRows, Only
  <1>2. /\ writes' = [v \in Worker |-> [t \in Table |-> writes'[v][t]]]
        /\ writes'[w].comments = Only(k, row)
        /\ \A v \in Worker \ {w} : writes'[v].comments = writes[v].comments
        /\ UNCHANGED db
        /\ Unlocked(w, "comments", k)
    BY <1>1, Tables DEF Shape, Write
  <1>3. DOMAIN writes'[w].comments = {k}
    BY <1>2 DEF Only
  <1>4. \A v \in Worker \ {w} : k \notin DOMAIN writes'[v].comments
    BY <1>2 DEF Unlocked
  <1>5. Locks'
    BY <1>2, <1>3, <1>4 DEF Locks
  <1> QED BY <1>2, <1>5

\* A write in another table leaves the comments alone.
LEMMA OtherTable ==
  ASSUME Shape, NEW w \in Worker, NEW k, NEW row, Write(w, "movies", k, row)
  PROVE  /\ writes' = [v \in Worker |-> [t \in Table |-> writes'[v][t]]]
         /\ \A v \in Worker : writes'[v].comments = writes[v].comments
         /\ UNCHANGED db
  BY Tables DEF Shape, Write

\* A rollback forgets what the transaction has staged.
LEMMA RollbackForgets ==
  ASSUME Shape, NEW w \in Worker, Rollback(w)
  PROVE  /\ writes' = [v \in Worker |-> [t \in Table |-> writes'[v][t]]]
         /\ writes'[w].comments = NoRows
         /\ \A v \in Worker \ {w} : writes'[v].comments = writes[v].comments
         /\ UNCHANGED db
  BY Tables DEF Shape, Rollback, NoWrites

\* Exclusive locks stay exclusive when a transaction drops its own.
LEMMA DroppingKeepsLocks ==
  ASSUME Locks, NEW w \in Worker, writes'[w].comments = NoRows,
         \A v \in Worker \ {w} : writes'[v].comments = writes[v].comments
  PROVE  Locks'
  <1>1. DOMAIN writes'[w].comments = {}
    BY DEF NoRows
  <1> QED BY <1>1 DEF Locks

-----------------------------------------------------------------------------
(* The steps that leave the committed rows alone *)

\* Who does not move keeps what is said of it, while the sequence only grows.
LEMMA Bystander ==
  ASSUME IInv, NEW v \in Worker, UNCHANGED db, next' \in {next, next + 1},
         pc'[v] = pc[v], tx'[v] = tx[v], writes'[v].comments = writes[v].comments
  PROVE  Sane(v)' /\ Staged(v)'
  <1>1. Sane(v) /\ Staged(v) /\ next \in Nat
    BY DEF IInv, Records
  <1>2. Sane(v)'
    BY <1>1 DEF Sane, Handler, Editing, Wrote, OnRecord
  <1>3. 1 .. next - 1 \subseteq 1 .. next' - 1
    BY <1>1
  <1>4. (Edited(v) = Edited(v)') /\ (Wrote(v) = Wrote(v)')
    BY DEF Edited, Wrote
  <1>5. Staged(v)'
    BY <1>1, <1>3, <1>4 DEF Staged
  <1> QED BY <1>2, <1>5

\* So the invariant holds after such a step if it holds of who moved.
LEMMA Assemble ==
  ASSUME IInv, NEW w \in Worker, UNCHANGED db, next' \in {next, next + 1},
         pc' = [pc EXCEPT ![w] = pc'[w]], tx' = [tx EXCEPT ![w] = tx'[w]],
         writes' = [v \in Worker |-> [t \in Table |-> writes'[v][t]]],
         \A v \in Worker \ {w} : writes'[v].comments = writes[v].comments,
         Locks', Sane(w)', Staged(w)'
  PROVE  IInv'
  <1>1. Shape'
    BY DEF IInv, Shape
  <1>2. Records'
    BY DEF IInv, Records
  <1>3. ASSUME NEW v \in Worker \ {w}
        PROVE  Sane(v)' /\ Staged(v)'
    <2>1. pc'[v] = pc[v] /\ tx'[v] = tx[v]
      BY DEF IInv, Shape
    <2> QED BY <2>1, Bystander
  <1> QED BY <1>1, <1>2, <1>3 DEF IInv

\* A step that writes no comment.
LEMMA AssembleQuiet ==
  ASSUME IInv, NEW w \in Worker, UNCHANGED <<db, next>>,
         pc' = [pc EXCEPT ![w] = pc'[w]], tx' = [tx EXCEPT ![w] = tx'[w]],
         writes' = [v \in Worker |-> [t \in Table |-> writes'[v][t]]],
         \A v \in Worker : writes'[v].comments = writes[v].comments,
         Sane(w)', Staged(w)'
  PROVE  IInv'
  <1>1. Locks'
    BY DEF IInv, Locks
  <1> QED BY <1>1, Assemble

-----------------------------------------------------------------------------
(* One lemma per handler: beginning and ending *)

\* A request that begins has written nothing and found nothing.
LEMMA BeginKeeps ==
  ASSUME IInv, NEW w \in Worker,
         \/ \E u \in User, m \in Movie, r \in Rating : AddBegin(w, u, m, r)
         \/ \E u \in User, c \in Comment, r \in Rating : ModifyBegin(w, u, c, r)
  PROVE  IInv'
  <1>1. PICK label \in {"check", "select"}, kind \in {"add", "modify"}, u \in User,
             m \in Movie \cup {NoMovie}, c \in Comment \cup {0}, r \in Int :
          /\ Begin(w, label, [kind |-> kind, user |-> u, movie |-> m, comment |-> c,
                              rating |-> r, average |-> NoAverage])
          /\ kind = "add" => m \in Movie
          /\ kind = "add" <=> label = "check"
    BY RatingAssumption DEF AddBegin, ModifyBegin
  <1>2. /\ tx'[w] = [kind |-> kind, user |-> u, movie |-> m, comment |-> c,
                     rating |-> r, average |-> NoAverage]
        /\ pc[w] = "idle" /\ pc'[w] = label
        /\ pc' = [pc EXCEPT ![w] = pc'[w]]
        /\ tx' = [tx EXCEPT ![w] = tx'[w]]
        /\ UNCHANGED <<db, writes, next>>
    BY <1>1 DEF Begin, Goto, IInv, Shape
  <1>3. writes[w].comments = NoRows
    BY <1>2 DEF IInv, Staged, Wrote, Late
  <1>4. Sane(w)'
    BY <1>1, <1>2 DEF Sane, Handler, Editing, Wrote, Late, Label, Adding, Modifying
  <1>5. Staged(w)'
    BY <1>2, <1>3 DEF Staged, Wrote, Late
  <1>6. /\ writes' = [v \in Worker |-> [t \in Table |-> writes'[v][t]]]
        /\ \A v \in Worker : writes'[v].comments = writes[v].comments
    BY <1>2 DEF IInv, Shape
  <1> QED BY <1>2, <1>4, <1>5, <1>6, AssembleQuiet

\* Who is idle has nothing to keep.
LEMMA IdleIsSane ==
  ASSUME NEW w \in Worker, pc[w] = "idle", writes[w].comments = NoRows
  PROVE  Sane(w) /\ Staged(w)
  BY DEF Sane, Staged, Wrote, Late, Label

\* AddRefused, ModifyRefused and Fail.
LEMMA LeaveKeeps ==
  ASSUME IInv, NEW w \in Worker, Leave(w)
  PROVE  IInv'
  <1>1. /\ writes' = [v \in Worker |-> [t \in Table |-> writes'[v][t]]]
        /\ writes'[w].comments = NoRows
        /\ \A v \in Worker \ {w} : writes'[v].comments = writes[v].comments
        /\ UNCHANGED db
    BY RollbackForgets DEF Leave, IInv
  <1>2. /\ pc'[w] = "idle"
        /\ pc' = [pc EXCEPT ![w] = pc'[w]]
        /\ tx' = [tx EXCEPT ![w] = tx'[w]]
        /\ next' = next
    BY DEF Leave, IInv, Shape
  <1>3. Sane(w)' /\ Staged(w)'
    BY <1>1, <1>2 DEF Sane, Staged, Wrote, Late, Label
  <1>4. Locks'
    BY <1>1, DroppingKeepsLocks DEF IInv
  <1> QED BY <1>1, <1>2, <1>3, <1>4, Assemble

\* The program dies: every transaction is rolled back.
LEMMA CrashKeeps ==
  ASSUME IInv, NEW w \in Worker, Crash(w)
  PROVE  IInv'
  <1>1. /\ pc' = [v \in Worker |-> "idle"]
        /\ tx' = [v \in Worker |-> NoRequest]
        /\ writes' = [v \in Worker |-> NoWrites]
        /\ UNCHANGED <<db, next>>
    BY DEF Crash
  <1>2. \A v \in Worker : pc'[v] = "idle" /\ writes'[v].comments = NoRows
    BY <1>1, Tables DEF NoWrites
  <1>3. Shape'
    BY <1>1 DEF IInv, Shape, NoWrites
  <1>4. Records'
    BY <1>1 DEF IInv, Records
  <1>5. Locks'
    BY <1>2 DEF Locks, NoRows
  <1>6. \A v \in Worker : Sane(v)' /\ Staged(v)'
    BY <1>2 DEF Sane, Staged, Wrote, Late, Label
  <1> QED BY <1>3, <1>4, <1>5, <1>6 DEF IInv

-----------------------------------------------------------------------------
(* The statements *)

\* Statements that only read: the position changes, and at most the movie in the locals.
LEMMA AddCheckKeeps ==
  ASSUME IInv, NEW w \in Worker, AddCheck(w)
  PROVE  IInv'
  <1>1. /\ pc[w] = "check" /\ pc'[w] = "insert" /\ tx'[w] = tx[w]
        /\ pc' = [pc EXCEPT ![w] = pc'[w]]
        /\ tx' = [tx EXCEPT ![w] = tx'[w]]
        /\ UNCHANGED <<db, writes, next>>
    BY DEF AddCheck, Goto, IInv, Shape
  <1>2. Sane(w)'
    BY <1>1 DEF IInv, Sane, Handler, Editing, OnRecord, Wrote, Late, Label, Adding, Modifying
  <1>3. Staged(w)'
    BY <1>1 DEF IInv, Staged, Wrote, Late
  <1>4. /\ writes' = [v \in Worker |-> [t \in Table |-> writes'[v][t]]]
        /\ \A v \in Worker : writes'[v].comments = writes[v].comments
    BY <1>1 DEF IInv, Shape
  <1> QED BY <1>1, <1>2, <1>3, <1>4, AssembleQuiet

\* The movie is known just if the comment is the user's own.
LEMMA ModifySelectKeeps ==
  ASSUME IInv, NEW w \in Worker, ModifySelect(w)
  PROVE  IInv'
  <1> DEFINE movie == IF Own(w) THEN View(w, "comments")[tx[w].comment].movie ELSE NoMovie
  <1>1. /\ pc[w] = "select" /\ pc'[w] = "index"
        /\ pc' = [pc EXCEPT ![w] = pc'[w]]
        /\ tx' = [tx EXCEPT ![w] = tx'[w]]
        /\ tx'[w] = [tx[w] EXCEPT !.movie = movie]
        /\ UNCHANGED <<db, writes, next>>
    BY DEF ModifySelect, Goto, IInv, Shape
  <1>2. Handler(w) /\ tx[w].kind = "modify" /\ writes[w].comments = NoRows
    BY <1>1 DEF IInv, Sane, Handler, Staged, Wrote, Late, Modifying
  <1>3. movie # NoMovie => OnRecord(w)
    BY <1>2, SeesCommitted DEF IInv, Own, OnRecord
  <1>4. tx'[w] = [kind |-> "modify", user |-> tx[w].user, movie |-> movie,
                  comment |-> tx[w].comment, rating |-> tx[w].rating,
                  average |-> tx[w].average]
    <2> HIDE DEF movie
    <2> QED BY <1>1, <1>2 DEF Handler
  <1>5. Sane(w)'
    <2> HIDE DEF movie
    <2>1. Handler(w)'
      BY <1>1, <1>2, <1>4 DEF Handler, Adding
    <2>2. Editing(w)' => OnRecord(w)'
      BY <1>1, <1>3, <1>4 DEF Editing, OnRecord, Wrote, Late
    <2> QED BY <1>1, <2>1, <2>2 DEF Sane, Label, Modifying
  <1>6. Staged(w)'
    BY <1>1, <1>2 DEF Staged, Wrote, Late
  <1>7. /\ writes' = [v \in Worker |-> [t \in Table |-> writes'[v][t]]]
        /\ \A v \in Worker : writes'[v].comments = writes[v].comments
    BY <1>1 DEF IInv, Shape
  <1> QED BY <1>1, <1>5, <1>6, <1>7, AssembleQuiet

LEMMA ModifyIndexKeeps ==
  ASSUME IInv, NEW w \in Worker, ModifyIndex(w)
  PROVE  IInv'
  <1>1. /\ pc[w] = "index" /\ pc'[w] = "update" /\ tx'[w] = tx[w] /\ tx[w].movie # NoMovie
        /\ pc' = [pc EXCEPT ![w] = pc'[w]]
        /\ tx' = [tx EXCEPT ![w] = tx'[w]]
        /\ UNCHANGED <<db, writes, next>>
    BY DEF ModifyIndex, Goto, IInv, Shape
  <1>2. Sane(w)'
    BY <1>1 DEF IInv, Sane, Handler, Editing, OnRecord, Wrote, Late, Label, Adding, Modifying
  <1>3. Staged(w)'
    BY <1>1 DEF IInv, Staged, Wrote, Late
  <1>4. /\ writes' = [v \in Worker |-> [t \in Table |-> writes'[v][t]]]
        /\ \A v \in Worker : writes'[v].comments = writes[v].comments
    BY <1>1 DEF IInv, Shape
  <1> QED BY <1>1, <1>2, <1>3, <1>4, AssembleQuiet

\* The average is computed and stored; the comments are left alone.
LEMMA TakeAverageKeeps ==
  ASSUME IInv, NEW w \in Worker, TakeAverage(w)
  PROVE  IInv'
  <1> DEFINE average == AverageOf(View(w, "comments"), tx[w].movie)
  <1>1. /\ pc[w] = "average" /\ pc'[w] = "store"
        /\ pc' = [pc EXCEPT ![w] = pc'[w]]
        /\ tx' = [tx EXCEPT ![w] = tx'[w]]
        /\ tx'[w] = [tx[w] EXCEPT !.average = average]
        /\ UNCHANGED <<db, writes, next>>
    <2> HIDE DEF average
    <2>1. tx' = [tx EXCEPT ![w].average = average]
      BY DEF TakeAverage, average
    <2> QED BY <2>1 DEF TakeAverage, Goto, IInv, Shape
  <1> HIDE DEF average
  <1>2. Sane(w) /\ Staged(w) /\ Handler(w)
    BY <1>1 DEF IInv, Sane
  <1>3. tx'[w] = [kind |-> tx[w].kind, user |-> tx[w].user, movie |-> tx[w].movie,
                  comment |-> tx[w].comment, rating |-> tx[w].rating, average |-> average]
    BY <1>1, <1>2 DEF Handler
  <1>4. Sane(w)'
    <2>1. Handler(w)'
      BY <1>1, <1>2, <1>3 DEF Handler, Adding, Modifying
    <2>2. Editing(w)' => OnRecord(w)'
      BY <1>1, <1>2, <1>3 DEF Sane, Editing, OnRecord, Wrote, Late
    <2> QED BY <1>1, <2>1, <2>2 DEF Sane, Label
  <1>5. Staged(w)'
    <2>1. Edited(w)' = Edited(w) /\ Wrote(w) /\ Wrote(w)'
      BY <1>1, <1>3 DEF Edited, Wrote, Late
    <2> QED BY <1>1, <1>2, <1>3, <2>1 DEF Staged
  <1>6. /\ writes' = [v \in Worker |-> [t \in Table |-> writes'[v][t]]]
        /\ \A v \in Worker : writes'[v].comments = writes[v].comments
    BY <1>1 DEF IInv, Shape
  <1> QED BY <1>1, <1>4, <1>5, <1>6, AssembleQuiet

LEMMA StoreAverageKeeps ==
  ASSUME IInv, NEW w \in Worker, StoreAverage(w)
  PROVE  IInv'
  <1>1. /\ writes' = [v \in Worker |-> [t \in Table |-> writes'[v][t]]]
        /\ \A v \in Worker : writes'[v].comments = writes[v].comments
        /\ UNCHANGED db
    BY OtherTable DEF StoreAverage, IInv
  <1>2. /\ pc[w] = "store" /\ pc'[w] = "commit" /\ tx'[w] = tx[w]
        /\ pc' = [pc EXCEPT ![w] = pc'[w]]
        /\ tx' = [tx EXCEPT ![w] = tx'[w]]
        /\ next' = next
    BY DEF StoreAverage, Goto, IInv, Shape
  <1>3. Sane(w)'
    BY <1>1, <1>2 DEF IInv, Sane, Handler, Editing, OnRecord, Wrote, Late, Label,
                      Adding, Modifying
  <1>4. Staged(w)'
    <2>1. Edited(w)' = Edited(w) /\ Wrote(w) /\ Wrote(w)'
      BY <1>1, <1>2 DEF Edited, Wrote, Late
    <2> QED BY <1>1, <1>2, <2>1 DEF IInv, Staged
  <1> QED BY <1>1, <1>2, <1>3, <1>4, AssembleQuiet

\* The new comment has an id that nobody has had.
LEMMA AddInsertKeeps ==
  ASSUME IInv, NEW w \in Worker, AddInsert(w)
  PROVE  IInv'
  <1> DEFINE row == [user |-> tx[w].user, movie |-> tx[w].movie, rating |-> tx[w].rating]
  <1>1. /\ pc[w] = "insert" /\ pc'[w] = "average" /\ tx'[w] = tx[w]
        /\ pc' = [pc EXCEPT ![w] = pc'[w]]
        /\ tx' = [tx EXCEPT ![w] = tx'[w]]
        /\ next' = next + 1
        /\ Write(w, "comments", next, row)
    BY DEF AddInsert, Goto, IInv, Shape
  <1>2. Handler(w) /\ tx[w].kind = "add" /\ writes[w].comments = NoRows
    BY <1>1 DEF IInv, Sane, Handler, Staged, Wrote, Late, Adding
  <1>3. row \in CommentRow
    BY <1>2 DEF Handler, CommentRow
  <1> HIDE DEF row
  <1>4. /\ writes' = [v \in Worker |-> [t \in Table |-> writes'[v][t]]]
        /\ writes'[w].comments = Only(next, row)
        /\ \A v \in Worker \ {w} : writes'[v].comments = writes[v].comments
        /\ UNCHANGED db
        /\ Locks'
    BY <1>1, <1>2, WriteStages DEF IInv
  <1>5. Sane(w)'
    BY <1>1, <1>2, <1>4 DEF Sane, Handler, Editing, Label, Adding, Modifying
  <1>6. next \in (1 .. next' - 1) \ DOMAIN db'.comments
    BY <1>1, <1>4 DEF IInv, Records
  <1>7. Staged(w)'
    BY <1>1, <1>2, <1>3, <1>4, <1>6 DEF Staged, Wrote, Late
  <1> QED BY <1>1, <1>4, <1>5, <1>7, Assemble

\* An edit writes the comment that was found, as it is committed now, with the new rating.
LEMMA ModifyUpdateKeeps ==
  ASSUME IInv, NEW w \in Worker, ModifyUpdate(w)
  PROVE  IInv'
  <1>1. /\ pc[w] = "update" /\ pc'[w] = "average" /\ tx'[w] = tx[w]
        /\ pc' = [pc EXCEPT ![w] = pc'[w]]
        /\ tx' = [tx EXCEPT ![w] = tx'[w]]
        /\ next' = next
    BY DEF ModifyUpdate, Goto, IInv, Shape
  <1>2. /\ Handler(w) /\ tx[w].kind = "modify" /\ OnRecord(w)
        /\ writes[w].comments = NoRows
    BY <1>1 DEF IInv, Sane, Handler, Editing, Staged, Wrote, Late, Modifying
  <1>3. View(w, "comments") = db.comments
    BY <1>2, SeesCommitted DEF IInv
  <1>4. Write(w, "comments", tx[w].comment, Edited(w))
    BY <1>3 DEF ModifyUpdate, Edited
  <1>5. /\ writes' = [v \in Worker |-> [t \in Table |-> writes'[v][t]]]
        /\ writes'[w].comments = Only(tx[w].comment, Edited(w))
        /\ \A v \in Worker \ {w} : writes'[v].comments = writes[v].comments
        /\ UNCHANGED db
        /\ Locks'
    BY <1>2, <1>4, WriteStages DEF IInv
  <1>6. Sane(w)'
    BY <1>1, <1>2, <1>5 DEF Sane, Handler, OnRecord, Label, Adding, Modifying
  <1>7. Staged(w)'
    <2>1. Edited(w)' = Edited(w)
      BY <1>1, <1>5 DEF Edited
    <2> QED BY <1>1, <1>2, <1>5, <2>1 DEF Staged, Wrote, Late
  <1> QED BY <1>1, <1>5, <1>6, <1>7, Assemble

-----------------------------------------------------------------------------
(* The commit *)

\* It publishes the one row that the transaction has written: a new comment, or the user's
\* own comment with the new rating.
LEMMA CommitRows ==
  ASSUME IInv, NEW w \in Worker, commit(w)
  PROVE  /\ db'.comments = [c \in DOMAIN db'.comments |-> db'.comments[c]]
         /\ DOMAIN db.comments \subseteq DOMAIN db'.comments
         /\ DOMAIN db'.comments \subseteq DOMAIN db.comments \cup DOMAIN writes[w].comments
         /\ DOMAIN db'.comments \subseteq 1 .. next - 1
         /\ \A c \in DOMAIN db'.comments : db'.comments[c] \in CommentRow
         /\ \A c \in DOMAIN db.comments :
              \/ db'.comments[c] = db.comments[c]
              \/ /\ c \in DOMAIN writes[w].comments
                 /\ c = tx[w].comment
                 /\ db.comments[c].user = tx[w].user
                 /\ db'.comments[c] = Edited(w)
         /\ \A c \in DOMAIN db.comments : db'.comments[c].user = db.comments[c].user
  <1> DEFINE old == db.comments
             new == db'.comments
  <1>1. new = Over(writes[w].comments, old)
    BY Tables DEF commit, Commit, View
  <1>2. pc[w] = "commit"
    BY DEF commit, Goto
  <1>3. /\ Wrote(w) /\ Handler(w) /\ Staged(w)
        /\ tx[w].kind \in {"add", "modify"}
        /\ Editing(w) => OnRecord(w)
    BY <1>2 DEF IInv, Wrote, Late, Sane, Handler
  <1>4. /\ next \in Nat \ {0}
        /\ old = [c \in DOMAIN old |-> old[c]]
        /\ DOMAIN old \subseteq 1 .. next - 1
        /\ \A c \in DOMAIN old : old[c] \in CommentRow
    BY DEF IInv, Records
  <1>5. CASE tx[w].kind = "add"
    <2>1. PICK k \in (1 .. next - 1) \ DOMAIN old, row \in CommentRow :
            writes[w].comments = Only(k, row)
      BY <1>3, <1>5 DEF Staged
    <2>2. new = [c \in DOMAIN old \cup {k} |-> IF c = k THEN row ELSE old[c]]
      <3> HIDE DEF old, new
      <3> QED BY <1>1, <2>1 DEF Over, Only
    <2>3. DOMAIN writes[w].comments = {k}
      BY <2>1 DEF Only
    <2> HIDE DEF old, new
    <2>4. \A c \in DOMAIN old : new[c] = old[c]
      BY <2>1, <2>2
    <2>5. \A c \in DOMAIN new : new[c] \in CommentRow
      BY <1>4, <2>1, <2>2
    <2> QED BY <1>4, <2>1, <2>2, <2>3, <2>4, <2>5 DEF old, new
  <1>6. CASE tx[w].kind = "modify"
    <2> DEFINE k == tx[w].comment
               row == Edited(w)
    <2>1. /\ k \in DOMAIN old /\ old[k].user = tx[w].user
          /\ writes[w].comments = Only(k, row)
      BY <1>3, <1>6 DEF Staged, Editing, OnRecord
    <2>2. row \in CommentRow /\ row.user = old[k].user
      <3>1. old[k] \in CommentRow /\ tx[w].rating \in Int
        BY <1>3, <1>4, <2>1 DEF Handler
      <3> QED BY <3>1 DEF Edited, CommentRow
    <2> HIDE DEF row, k
    <2>3. new = [c \in DOMAIN old |-> IF c = k THEN row ELSE old[c]]
      <3> HIDE DEF old, new
      <3>1. DOMAIN old \cup {k} = DOMAIN old
        BY <2>1
      <3>2. new = [c \in DOMAIN old \cup {k} |-> IF c = k THEN row ELSE old[c]]
        BY <1>1, <2>1 DEF Over, Only
      <3> QED BY <3>1, <3>2
    <2>4. DOMAIN writes[w].comments = {k}
      BY <2>1 DEF Only
    <2> HIDE DEF old, new
    <2>5. \A c \in DOMAIN new : new[c] \in CommentRow
      BY <1>4, <2>2, <2>3
    <2>6. \A c \in DOMAIN old : new[c].user = old[c].user
      BY <2>2, <2>3
    <2>7. \A c \in DOMAIN old : new[c] = old[c] \/ (c = k /\ new[c] = row)
      BY <2>3
    <2> QED BY <1>4, <2>1, <2>3, <2>4, <2>5, <2>6, <2>7 DEF old, new, row, k
  <1> QED BY <1>3, <1>5, <1>6

\* Whatever it publishes, the others have not written it: what is said of them stands.
LEMMA CommitSparesOthers ==
  ASSUME IInv, NEW w \in Worker, commit(w), NEW v \in Worker \ {w}
  PROVE  Sane(v)' /\ Staged(v)'
  <1>1. /\ pc'[v] = pc[v] /\ tx'[v] = tx[v] /\ next' = next
        /\ writes'[v].comments = writes[v].comments
    BY DEF commit, Goto, Commit, IInv, Shape
  <1>2. Sane(v) /\ Staged(v)
    BY DEF IInv
  <1>3. DOMAIN writes[v].comments \cap DOMAIN writes[w].comments = {}
    BY DEF IInv, Locks
  <1>4. OnRecord(v) => OnRecord(v)'
    BY <1>1, CommitRows DEF OnRecord
  <1>5. Sane(v)'
    BY <1>1, <1>2, <1>4 DEF Sane, Handler, Editing, Wrote
  <1>6. ASSUME Wrote(v), tx[v].kind = "add"
        PROVE  \E k \in (1 .. next - 1) \ DOMAIN db'.comments, row \in CommentRow :
                 writes[v].comments = Only(k, row)
    <2>1. PICK k \in (1 .. next - 1) \ DOMAIN db.comments, row \in CommentRow :
            writes[v].comments = Only(k, row)
      BY <1>2, <1>6 DEF Staged
    <2>2. k \notin DOMAIN writes[w].comments
      BY <1>3, <2>1 DEF Only
    <2>3. k \notin DOMAIN db'.comments
      BY <2>1, <2>2, CommitRows
    <2> QED BY <2>1, <2>3
  <1>7. ASSUME Wrote(v), tx[v].kind = "modify"
        PROVE  Edited(v)' = Edited(v)
    <2>1. OnRecord(v) /\ writes[v].comments = Only(tx[v].comment, Edited(v))
      BY <1>2, <1>7 DEF Sane, Staged, Editing, Wrote, Late
    <2>2. tx[v].comment \notin DOMAIN writes[w].comments
      BY <1>3, <2>1 DEF Only
    <2>3. db'.comments[tx[v].comment] = db.comments[tx[v].comment]
      BY <2>1, <2>2, CommitRows DEF OnRecord
    <2> QED BY <1>1, <2>3 DEF Edited
  <1>8. Staged(v)'
    BY <1>1, <1>2, <1>6, <1>7 DEF Staged, Wrote
  <1> QED BY <1>5, <1>8

LEMMA CommitKeeps ==
  ASSUME IInv, NEW w \in Worker, commit(w)
  PROVE  IInv'
  <1>1. /\ pc' = [pc EXCEPT ![w] = "idle"]
        /\ tx' = [tx EXCEPT ![w] = NoRequest]
        /\ db' = [t \in Table |-> View(w, t)]
        /\ writes' = [writes EXCEPT ![w] = NoWrites]
        /\ next' = next
    BY DEF commit, Goto, Commit
  <1>2. /\ pc'[w] = "idle" /\ writes'[w].comments = NoRows
        /\ \A v \in Worker \ {w} : writes'[v].comments = writes[v].comments
    BY <1>1, Tables DEF IInv, Shape, NoWrites
  <1>3. Shape'
    BY <1>1 DEF IInv, Shape, NoWrites
  <1>4. Records'
    BY <1>1, CommitRows DEF IInv, Records
  <1>5. Locks'
    BY <1>2, DroppingKeepsLocks DEF IInv
  <1>6. Sane(w)' /\ Staged(w)'
    BY <1>2 DEF Sane, Staged, Wrote, Late, Label
  <1>7. \A v \in Worker \ {w} : Sane(v)' /\ Staged(v)'
    BY CommitSparesOthers
  <1> QED BY <1>3, <1>4, <1>5, <1>6, <1>7 DEF IInv

-----------------------------------------------------------------------------
(* The invariant *)

LEMMA InitIInv == Init => IInv
  <1> SUFFICES ASSUME Init
               PROVE  IInv
    OBVIOUS
  <1>1. /\ db.comments = NoRows
        /\ \A w \in Worker : pc[w] = "idle" /\ writes[w].comments = NoRows
    BY Tables DEF Init, Begun, NoWrites
  <1>2. Shape
    <2>1. db = [t \in Table |-> db[t]]
      <3> DEFINE F(t) == CASE t = "comments" -> NoRows
                           [] t = "movies" -> [m \in Movie |-> NoAverage]
      <3>1. db = [t \in Table |-> F(t)]
        BY DEF Init
      <3> HIDE DEF F
      <3> QED BY <3>1
    <2>2. /\ writes = [w \in Worker |-> [t \in Table |-> writes[w][t]]]
          /\ pc = [w \in Worker |-> pc[w]]
          /\ tx = [w \in Worker |-> tx[w]]
      <3>1. writes = [w \in Worker |-> [t \in Table |-> NoRows]]
        BY DEF Init, Begun, NoWrites
      <3> QED BY <3>1 DEF Init
    <2> QED BY <2>1, <2>2 DEF Shape
  <1>3. Records
    <2>1. next = 1
      BY DEF Init
    <2>2. /\ DOMAIN db.comments = {}
          /\ db.comments = [c \in DOMAIN db.comments |-> db.comments[c]]
      BY <1>1 DEF NoRows
    <2> QED BY <2>1, <2>2 DEF Records
  <1>4. Locks
    BY <1>1 DEF Locks, NoRows
  <1>5. \A w \in Worker : Sane(w) /\ Staged(w)
    BY <1>1, IdleIsSane
  <1> QED BY <1>2, <1>3, <1>4, <1>5 DEF IInv

LEMMA NextKeeps == IInv /\ [Next]_vars => IInv'
  <1> SUFFICES ASSUME IInv, [Next]_vars
               PROVE  IInv'
    OBVIOUS
  <1>1. CASE UNCHANGED vars
    <2>1. UNCHANGED <<db, writes, pc, tx, next>>
      BY <1>1 DEF vars
    <2>2. (Shape' = Shape) /\ (Records' = Records) /\ (Locks' = Locks)
      BY <2>1 DEF Shape, Records, Locks
    <2>3. \A w \in Worker : Sane(w)' /\ Staged(w)'
      BY <2>1, Bystander
    <2> QED BY <2>2, <2>3 DEF IInv
  <1>2. CASE Next
    <2>1. PICK w \in Worker : Arrive(w) \/ Step(w) \/ Fail(w)
      BY <1>2 DEF Next
    <2>2. CASE Arrive(w)
      BY <2>2, BeginKeeps DEF Arrive
    <2>3. CASE AddRefused(w) \/ ModifyRefused(w) \/ Fail(w)
      BY <2>3, LeaveKeeps DEF AddRefused, ModifyRefused, Fail
    <2>4. CASE AddCheck(w)
      BY <2>4, AddCheckKeeps
    <2>5. CASE AddInsert(w)
      BY <2>5, AddInsertKeeps
    <2>6. CASE ModifySelect(w)
      BY <2>6, ModifySelectKeeps
    <2>7. CASE ModifyIndex(w)
      BY <2>7, ModifyIndexKeeps
    <2>8. CASE Crash(w)
      BY <2>8, CrashKeeps
    <2>9. CASE ModifyUpdate(w)
      BY <2>9, ModifyUpdateKeeps
    <2>10. CASE TakeAverage(w)
      BY <2>10, TakeAverageKeeps
    <2>11. CASE StoreAverage(w)
      BY <2>11, StoreAverageKeeps
    <2>12. CASE commit(w)
      BY <2>12, CommitKeeps
    <2> QED BY <2>1, <2>2, <2>3, <2>4, <2>5, <2>6, <2>7, <2>8, <2>9, <2>10, <2>11, <2>12
            DEF Step
  <1> QED BY <1>1, <1>2

\* What every transaction has written is as its position and its locals say, relative to
\* the comments that are committed (the updates of comments.cpp and their row locks).
THEOREM Invariance == Spec => []IInv
  <1>1. Init => IInv
    BY InitIInv
  <1>2. IInv /\ [Next]_vars => IInv'
    BY NextKeeps
  <1> QED BY <1>1, <1>2, PTL DEF Spec

-----------------------------------------------------------------------------
(* OnlyAuthorsEdit *)

\* Only a commit changes the committed rows.
LEMMA OnlyCommitsShow ==
  ASSUME IInv, [Next]_vars
  PROVE  UNCHANGED db \/ \E w \in Worker : commit(w)
  <1>1. CASE UNCHANGED vars
    BY <1>1 DEF vars
  <1>2. CASE Next
    <2>1. PICK w \in Worker : Arrive(w) \/ Step(w) \/ Fail(w)
      BY <1>2 DEF Next
    <2>2. Arrive(w) => UNCHANGED db
      BY DEF Arrive, AddBegin, ModifyBegin, Begin
    <2>3. Leave(w) => UNCHANGED db
      BY DEF Leave, Rollback
    <2>4. Fail(w) => UNCHANGED db
      BY <2>3 DEF Fail
    <2>5. Step(w) => UNCHANGED db \/ commit(w)
      BY <2>3 DEF Step, AddCheck, AddRefused, AddInsert, ModifySelect, ModifyRefused,
                  ModifyIndex, Crash, ModifyUpdate, TakeAverage, StoreAverage, Write
    <2> QED BY <2>1, <2>2, <2>4, <2>5
  <1> QED BY <1>1, <1>2

\* An edit with the rating 0 changes nothing; any other sets the rating in the form.
LEMMA EditSetsTheRating ==
  ASSUME NEW w \in Worker
  PROVE  \/ Edited(w) = [db.comments[tx[w].comment] EXCEPT !.rating = tx[w].rating]
         \/ Edited(w) = [db.comments[tx[w].comment] EXCEPT !.rating = @]
  BY DEF Edited

\* A comment that is on record changes by an edit of its author, and in no other way,
\* however many requests edit and add at the same time; and it never disappears
\* (modify_comment: an edit that found no comment of the user's own, which a manager is
\* permitted, ends in the crash of line 181).
THEOREM OnlyAuthorsEver == Spec => OnlyAuthorsEdit
  <1>1. ASSUME IInv, [Next]_vars
        PROVE  \A c \in DOMAIN db.comments :
                 \/ c \in DOMAIN db'.comments /\ db'.comments[c] = db.comments[c]
                 \/ \E w \in Worker :
                      /\ pc[w] = "commit"
                      /\ tx[w].comment = c
                      /\ tx[w].user = db.comments[c].user
                      /\ db'.comments[c] = [db.comments[c] EXCEPT !.rating = tx[w].rating]
    <2> SUFFICES ASSUME NEW c \in DOMAIN db.comments
                 PROVE  \/ c \in DOMAIN db'.comments /\ db'.comments[c] = db.comments[c]
                        \/ \E w \in Worker :
                             /\ pc[w] = "commit"
                             /\ tx[w].comment = c
                             /\ tx[w].user = db.comments[c].user
                             /\ db'.comments[c]
                                  = [db.comments[c] EXCEPT !.rating = tx[w].rating]
      OBVIOUS
    <2>1. CASE UNCHANGED db
      BY <2>1
    <2>2. CASE \E w \in Worker : commit(w)
      <3>1. PICK w \in Worker : commit(w)
        BY <2>2
      <3>2. pc[w] = "commit" /\ c \in DOMAIN db'.comments
        BY <1>1, <3>1, CommitRows DEF commit, Goto
      <3>3. CASE db'.comments[c] = db.comments[c]
        BY <3>2, <3>3
      <3>4. CASE /\ c = tx[w].comment
                 /\ db.comments[c].user = tx[w].user
                 /\ db'.comments[c] = Edited(w)
        <4>1. db.comments[c] \in CommentRow
          BY <1>1 DEF IInv, Records
        <4>2. [db.comments[c] EXCEPT !.rating = @] = db.comments[c]
          BY <4>1 DEF CommentRow
        <4> QED BY <3>2, <3>4, <4>2, EditSetsTheRating
      <3> QED BY <1>1, <3>1, <3>3, <3>4, CommitRows
    <2> QED BY <1>1, <2>1, <2>2, OnlyCommitsShow
  <1>2. Spec => []IInv
    BY Invariance
  <1> QED BY <1>1, <1>2, PTL DEF Spec, OnlyAuthorsEdit

-----------------------------------------------------------------------------
(* The averages: a second invariant, next to the first *)

Known(w) == IF pc[w] = "idle" THEN tx[w] = NoRequest ELSE tx[w] \in Request

\* What a transaction writes is about its movie, and replaces what is about it.
OnTopic(w) ==
  /\ Editing(w) => db.comments[tx[w].comment].movie = tx[w].movie
  /\ Editing(w) \/ Wrote(w) => tx[w].movie \in Movie
  /\ \A c \in DOMAIN writes[w].comments : writes[w].comments[c].movie = tx[w].movie

Stored(w) ==
  writes[w].movies = IF pc[w] = "commit" THEN Only(tx[w].movie, tx[w].average) ELSE NoRows

\* The average that a transaction without company has taken is still that of what it sees.
UpToDate(w) == alone[w] /\ pc[w] \in {"store", "commit"} =>
                 tx[w].average = AverageOf(View(w, "comments"), tx[w].movie)

Apart(w) == alone[w] /\ About(w) # NoMovie =>
              \A v \in Worker \ {w} : About(v) # About(w)

\* The guard of AddBegin keeps ids enough for the comments under way.
Room == next + Cardinality(Inserting) <= MaxComments + 1

JInv ==
  /\ Room
  /\ alone \in [Worker -> BOOLEAN]
  /\ settled \subseteq Movie
  /\ db.movies \in [Movie -> Average]
  /\ \A w \in Worker : Known(w) /\ OnTopic(w) /\ Stored(w) /\ UpToDate(w) /\ Apart(w)
  /\ AverageSettles

-----------------------------------------------------------------------------
(* The average of the ratings *)

AreComments(rows) == /\ IsFiniteSet(DOMAIN rows)
                     /\ \A c \in DOMAIN rows : rows[c] \in CommentRow

RatingOf(rows) == [c \in DOMAIN rows |-> rows[c].rating]
CommentsOn(rows, m) == {c \in DOMAIN rows : rows[c].movie = m}

LEMMA RatingsAreInts ==
  ASSUME NEW rows, AreComments(rows), NEW m
  PROVE  /\ IsFiniteSet(CommentsOn(rows, m))
         /\ \A c \in CommentsOn(rows, m) :
              RatingOf(rows)[c] = rows[c].rating /\ RatingOf(rows)[c] \in Int
  <1>1. IsFiniteSet(CommentsOn(rows, m))
    BY FS_Subset DEF AreComments, CommentsOn
  <1> QED BY <1>1 DEF AreComments, CommentsOn, RatingOf, CommentRow

\* AverageOf is a sum of a function over the comments on the movie, and their number.
LEMMA AverageIs ==
  ASSUME NEW rows, AreComments(rows), NEW m
  PROVE  AverageOf(rows, m) = [sum |-> Total(RatingOf(rows), CommentsOn(rows, m)),
                               count |-> Cardinality(CommentsOn(rows, m))]
  <1> DEFINE S == CommentsOn(rows, m)
             f == RatingOf(rows)
             iter == CHOOSE h : h = [s \in SUBSET S |->
                                       IF s = {} THEN 0
                                       ELSE rows[CHOOSE x \in s : TRUE].rating
                                              + h[s \ {CHOOSE x \in s : TRUE}]]
  <1>1. AverageOf(rows, m) = [sum |-> iter[S], count |-> Cardinality(S)]
    BY DEF AverageOf, MapThenSumSet, MapThenFoldSet, CommentsOn
  <1>2. IsFiniteSet(S) /\ \A c \in S : f[c] = rows[c].rating /\ f[c] \in Int
    BY RatingsAreInts
  <1> HIDE DEF f, S
  <1>3. PICK g \in [SUBSET S -> Int] : IsSum(g, f, S)
    BY <1>2, SumExists
  <1>4. g = [s \in SUBSET S |-> IF s = {} THEN 0
                                ELSE rows[CHOOSE x \in s : TRUE].rating
                                       + g[s \ {CHOOSE x \in s : TRUE}]]
    BY <1>2, <1>3, OneOfIsIn DEF IsSum, OneOf
  <1>5. iter = [s \in SUBSET S |-> IF s = {} THEN 0
                                   ELSE rows[CHOOSE x \in s : TRUE].rating
                                          + iter[s \ {CHOOSE x \in s : TRUE}]]
    BY <1>4
  <1> HIDE DEF iter
  <1>6. IsSum(iter, f, S)
    <2>1. \A s \in SUBSET S : s # {} =>
            rows[CHOOSE x \in s : TRUE].rating = f[CHOOSE x \in s : TRUE]
      BY <1>2, OneOfIsIn DEF OneOf
    <2> QED BY <1>5, <2>1 DEF IsSum, OneOf
  <1>7. Total(f, S) = iter[S]
    BY <1>2, <1>6, TotalIs
  <1> QED BY <1>1, <1>7 DEF f, S

LEMMA AverageType ==
  ASSUME NEW rows, AreComments(rows), NEW m
  PROVE  AverageOf(rows, m) \in Average
  <1>1. /\ Total(RatingOf(rows), CommentsOn(rows, m)) \in Int
        /\ Cardinality(CommentsOn(rows, m)) \in Nat
    BY RatingsAreInts, TotalType, FS_CardinalityType
  <1> QED BY <1>1, AverageIs DEF Average

\* It depends on nothing but the ratings of the comments on the movie.
LEMMA AverageDependsOn ==
  ASSUME NEW rows, NEW new, AreComments(rows), AreComments(new), NEW m,
         CommentsOn(new, m) = CommentsOn(rows, m),
         \A c \in CommentsOn(rows, m) : new[c].rating = rows[c].rating
  PROVE  AverageOf(new, m) = AverageOf(rows, m)
  <1>1. Total(RatingOf(rows), CommentsOn(rows, m)) = Total(RatingOf(new), CommentsOn(rows, m))
    <2>1. \A c \in CommentsOn(rows, m) : /\ RatingOf(rows)[c] \in Int
                                         /\ RatingOf(rows)[c] = RatingOf(new)[c]
      BY RatingsAreInts
    <2>2. IsFiniteSet(CommentsOn(rows, m))
      BY RatingsAreInts
    <2> QED BY <2>1, <2>2, TotalSame
  <1> QED BY <1>1, AverageIs

\* What is committed, and what a transaction sees, are tables of comments.
LEMMA CommittedAreComments ==
  ASSUME Records
  PROVE  AreComments(db.comments)
  <1>1. IsFiniteSet(1 .. next - 1)
    BY FS_Interval DEF Records
  <1> QED BY <1>1, FS_Subset DEF Records, AreComments

LEMMA OverAreComments ==
  ASSUME NEW f, NEW g, AreComments(f), AreComments(g)
  PROVE  AreComments(Over(f, g))
  <1>1. DOMAIN Over(f, g) = DOMAIN f \cup DOMAIN g
    BY DEF Over
  <1>2. IsFiniteSet(DOMAIN f \cup DOMAIN g)
    BY FS_Union DEF AreComments
  <1> QED BY <1>1, <1>2 DEF AreComments, Over

LEMMA SeesComments ==
  ASSUME IInv, NEW w \in Worker
  PROVE  /\ AreComments(View(w, "comments"))
         /\ AreComments(writes[w].comments)
  <1>1. AreComments(db.comments) /\ Staged(w)
    BY CommittedAreComments DEF IInv
  <1>2. AreComments(writes[w].comments)
    <2>1. CASE writes[w].comments = NoRows
      BY <2>1, FS_EmptySet DEF NoRows, AreComments
    <2>2. ASSUME NEW k, NEW row \in CommentRow, writes[w].comments = Only(k, row)
          PROVE  AreComments(writes[w].comments)
      BY <2>2, FS_Singleton DEF Only, AreComments
    <2>3. ASSUME Wrote(w), tx[w].kind = "modify"
          PROVE  Edited(w) \in CommentRow /\ writes[w].comments = Only(tx[w].comment, Edited(w))
      <3>1. OnRecord(w) /\ tx[w].rating \in Int
        BY <2>3 DEF IInv, Sane, Handler, Editing, Wrote, Late
      <3>2. db.comments[tx[w].comment] \in CommentRow
        BY <1>1, <3>1 DEF AreComments, OnRecord
      <3> QED BY <1>1, <2>3, <3>1, <3>2 DEF Edited, CommentRow, Staged
    <2>4. Wrote(w) => tx[w].kind \in {"add", "modify"}
      BY DEF IInv, Sane, Handler, Wrote, Late
    <2> QED BY <1>1, <2>1, <2>2, <2>3, <2>4 DEF Staged
  <1>3. AreComments(View(w, "comments"))
    BY <1>1, <1>2, OverAreComments DEF View
  <1> QED BY <1>2, <1>3

-----------------------------------------------------------------------------
(* The steps that leave the committed rows alone *)

\* Who does not move keeps what is said of it.
LEMMA OthersKeep ==
  ASSUME JInv, NEW v \in Worker, UNCHANGED db,
         pc'[v] = pc[v], tx'[v] = tx[v], writes'[v] = writes[v], Watch
  PROVE  Known(v)' /\ OnTopic(v)' /\ Stored(v)' /\ UpToDate(v)'
  <1>1. Known(v) /\ OnTopic(v) /\ Stored(v) /\ UpToDate(v)
    BY DEF JInv
  <1>2. alone'[v] /\ pc[v] # "idle" => alone[v]
    BY DEF Watch
  <1>3. View(v, "comments")' = View(v, "comments")
    BY DEF View
  <1>4. UpToDate(v)'
    BY <1>1, <1>2, <1>3 DEF UpToDate
  <1> QED BY <1>1, <1>4 DEF Known, OnTopic, Stored, Editing, Wrote

\* The history says who is apart by its definition.
LEMMA WatchKeeps ==
  ASSUME Watch
  PROVE  alone' \in [Worker -> BOOLEAN] /\ \A v \in Worker : Apart(v)'
  <1>1. alone' \in [Worker -> BOOLEAN]
    BY DEF Watch
  <1>2. ASSUME NEW v \in Worker
        PROVE  Apart(v)'
    BY DEF Watch, Apart
  <1> QED BY <1>1, <1>2

LEMMA RoomKept ==
  ASSUME Room, next \in Nat, next' = next, Inserting' \subseteq Inserting
  PROVE  Room'
  <1>1. IsFiniteSet(Inserting)
    BY WorkerAssumption, FS_Subset DEF Inserting
  <1>2. /\ Cardinality(Inserting) \in Nat
        /\ Cardinality(Inserting') \in Nat
        /\ Cardinality(Inserting') <= Cardinality(Inserting)
    BY <1>1, FS_Subset, FS_CardinalityType
  <1> QED BY <1>2, BoundAssumption DEF Room

LEMMA RoomOfOne ==
  ASSUME IInv, JInv, NEW w \in Worker, pc' = [pc EXCEPT ![w] = pc'[w]], next' = next,
         pc'[w] \in Adding => pc[w] \in Adding
  PROVE  Room'
  <1>1. Inserting' \subseteq Inserting
    BY DEF Inserting, IInv, Shape
  <1> QED BY <1>1, RoomKept DEF IInv, JInv, Records

\* So the invariant holds after such a step if it holds of who moved.
LEMMA AssembleOne ==
  ASSUME IInv, JInv, NEW w \in Worker, UNCHANGED <<db, settled>>, Watch, Room',
         pc' = [pc EXCEPT ![w] = pc'[w]], tx' = [tx EXCEPT ![w] = tx'[w]],
         \A v \in Worker \ {w} : writes'[v] = writes[v],
         Known(w)', OnTopic(w)', Stored(w)', UpToDate(w)'
  PROVE  JInv'
  <1>1. ASSUME NEW v \in Worker \ {w}
        PROVE  Known(v)' /\ OnTopic(v)' /\ Stored(v)' /\ UpToDate(v)'
    <2>1. pc'[v] = pc[v] /\ tx'[v] = tx[v]
      BY DEF IInv, Shape
    <2> QED BY <2>1, OthersKeep
  <1>2. AverageSettles'
    BY DEF JInv, AverageSettles
  <1>3. db'.movies \in [Movie -> Average] /\ settled' \subseteq Movie
    BY DEF JInv
  <1> QED BY <1>1, <1>2, <1>3, WatchKeeps DEF JInv

LEMMA Untouched ==
  ASSUME IInv, JInv, NEW w \in Worker, ~Wrote(w)
  PROVE  writes[w].comments = NoRows /\ writes[w].movies = NoRows
  <1>1. Staged(w) /\ Stored(w)
    BY DEF IInv, JInv
  <1> QED BY <1>1 DEF Staged, Stored, Wrote, Late

LEMMA BeginSettles ==
  ASSUME IInv, JInv, Watch, NEW w \in Worker,
         \/ \E u \in User, m \in Movie, r \in Rating : AddBegin(w, u, m, r)
         \/ \E u \in User, c \in Comment, r \in Rating : ModifyBegin(w, u, c, r)
  PROVE  JInv'
  <1>1. PICK label \in {"check", "select"}, kind \in {"add", "modify"}, u \in User,
             m \in Movie \cup {NoMovie}, c \in Comment \cup {0}, r \in Int :
          /\ Begin(w, label, [kind |-> kind, user |-> u, movie |-> m, comment |-> c,
                              rating |-> r, average |-> NoAverage])
          /\ label = "check" => next + Cardinality(Inserting) <= MaxComments
    BY RatingAssumption DEF AddBegin, ModifyBegin
  <1>2. /\ tx'[w] = [kind |-> kind, user |-> u, movie |-> m, comment |-> c,
                     rating |-> r, average |-> NoAverage]
        /\ pc[w] = "idle" /\ pc'[w] = label
        /\ pc' = [pc EXCEPT ![w] = pc'[w]]
        /\ tx' = [tx EXCEPT ![w] = tx'[w]]
        /\ UNCHANGED <<db, writes, next, settled>>
    BY <1>1 DEF Begin, Goto, IInv, Shape
  <1>3. Room'
    <2>1. CASE label = "select"
      BY <1>2, <2>1, RoomOfOne DEF Adding
    <2>2. CASE label = "check"
      <3>1. Inserting' = Inserting \cup {w} /\ w \notin Inserting
        BY <1>2, <2>2 DEF Inserting, Adding, IInv, Shape
      <3>2. IsFiniteSet(Inserting)
        BY WorkerAssumption, FS_Subset DEF Inserting
      <3>3. Cardinality(Inserting') = Cardinality(Inserting) + 1 /\ Cardinality(Inserting) \in Nat
        BY <3>1, <3>2, FS_AddElement, FS_CardinalityType
      <3> QED BY <1>1, <1>2, <2>2, <3>3, BoundAssumption DEF Room, IInv, Records
    <2> QED BY <2>1, <2>2
  <1>4. Known(w)'
    BY <1>2 DEF Known, Request, Average, NoAverage
  <1>5. OnTopic(w)' /\ Stored(w)' /\ UpToDate(w)'
    <2>1. ~Wrote(w) /\ ~Wrote(w)' /\ ~Editing(w)'
      BY <1>2 DEF Wrote, Late, Editing
    <2>2. writes'[w].comments = NoRows /\ writes'[w].movies = NoRows
      BY <1>2, <2>1, Untouched
    <2> QED BY <2>1, <2>2 DEF OnTopic, Stored, UpToDate, Wrote, Late, NoRows
  <1> QED BY <1>2, <1>3, <1>4, <1>5, AssembleOne

LEMMA LeaveSettles ==
  ASSUME IInv, JInv, Watch, NEW w \in Worker, Leave(w)
  PROVE  JInv'
  <1>1. /\ pc'[w] = "idle" /\ tx'[w] = NoRequest /\ writes'[w] = NoWrites
        /\ pc' = [pc EXCEPT ![w] = pc'[w]]
        /\ tx' = [tx EXCEPT ![w] = tx'[w]]
        /\ \A v \in Worker \ {w} : writes'[v] = writes[v]
        /\ UNCHANGED <<db, next, settled>>
    BY DEF Leave, Rollback, IInv, Shape
  <1>2. writes'[w].comments = NoRows /\ writes'[w].movies = NoRows
    BY <1>1, Tables DEF NoWrites
  <1>3. Room'
    BY <1>1, RoomOfOne DEF Adding
  <1>4. Known(w)' /\ OnTopic(w)' /\ Stored(w)' /\ UpToDate(w)'
    BY <1>1, <1>2 DEF Known, OnTopic, Stored, UpToDate, Editing, Wrote, Late, NoRows
  <1> QED BY <1>1, <1>3, <1>4, AssembleOne

LEMMA CrashSettles ==
  ASSUME IInv, JInv, Watch, NEW w \in Worker, Crash(w)
  PROVE  JInv'
  <1>1. /\ pc' = [v \in Worker |-> "idle"]
        /\ tx' = [v \in Worker |-> NoRequest]
        /\ writes' = [v \in Worker |-> NoWrites]
        /\ UNCHANGED <<db, next, settled>>
    BY DEF Crash
  <1>2. \A v \in Worker : /\ pc'[v] = "idle" /\ tx'[v] = NoRequest
                          /\ writes'[v].comments = NoRows /\ writes'[v].movies = NoRows
    BY <1>1, Tables DEF NoWrites
  <1>3. Room'
    <2>1. Inserting' \subseteq Inserting
      BY <1>2 DEF Inserting, Adding
    <2> QED BY <1>1, <2>1, RoomKept DEF IInv, JInv, Records
  <1>4. ASSUME NEW v \in Worker
        PROVE  Known(v)' /\ OnTopic(v)' /\ Stored(v)' /\ UpToDate(v)'
    BY <1>2 DEF Known, OnTopic, Stored, UpToDate, Editing, Wrote, Late, NoRows
  <1>5. AverageSettles' /\ db'.movies \in [Movie -> Average] /\ settled' \subseteq Movie
    BY <1>1 DEF JInv, AverageSettles
  <1> QED BY <1>3, <1>4, <1>5, WatchKeeps DEF JInv

\* Statements that neither write nor take an average.
LEMMA ReadsSettle ==
  ASSUME IInv, JInv, Watch, NEW w \in Worker,
         AddCheck(w) \/ ModifySelect(w) \/ ModifyIndex(w)
  PROVE  JInv'
  <1> DEFINE movie == IF Own(w) THEN View(w, "comments")[tx[w].comment].movie ELSE NoMovie
  <1>1. /\ pc[w] \in {"check", "select", "index"} /\ pc'[w] \in {"insert", "index", "update"}
        /\ pc'[w] \in Adding => pc[w] \in Adding
        /\ pc' = [pc EXCEPT ![w] = pc'[w]]
        /\ tx' = [tx EXCEPT ![w] = tx'[w]]
        /\ UNCHANGED <<db, writes, next, settled>>
    BY DEF AddCheck, ModifySelect, ModifyIndex, Goto, IInv, Shape, Adding
  <1>2. /\ writes[w].comments = NoRows /\ writes[w].movies = NoRows
        /\ View(w, "comments") = db.comments
    BY <1>1, Untouched, SeesCommitted DEF Wrote, Late, IInv
  <1>3. Known(w) /\ OnTopic(w) /\ Handler(w)
    BY <1>1 DEF JInv, IInv, Sane
  <1>4. tx[w] \in Request
    BY <1>1, <1>3 DEF Known
  <1>5. CASE ModifySelect(w)
    <2>1. movie = NoMovie \/ /\ movie \in Movie
                             /\ db.comments[tx[w].comment].movie = movie
      BY <1>2 DEF Own, IInv, Records, CommentRow
    <2>2. tx' = [tx EXCEPT ![w].movie = movie] /\ pc'[w] = "index"
      BY <1>5 DEF ModifySelect, Goto, IInv, Shape
    <2> HIDE DEF movie
    <2>3. tx'[w] = [tx[w] EXCEPT !.movie = movie]
      BY <2>2 DEF IInv, Shape
    <2>4. tx'[w] \in Request
      BY <1>4, <2>1, <2>3 DEF Request
    <2>5. tx'[w].movie = movie /\ tx'[w].comment = tx[w].comment
      BY <1>4, <2>3 DEF Request
    <2>6. Known(w)'
      BY <2>2, <2>4 DEF Known
    <2>7. OnTopic(w)'
      BY <1>1, <1>2, <2>1, <2>2, <2>5 DEF OnTopic, Editing, Wrote, Late, NoRows
    <2>8. Stored(w)' /\ UpToDate(w)'
      BY <1>1, <1>2, <2>2 DEF Stored, UpToDate
    <2> QED BY <1>1, <2>6, <2>7, <2>8, RoomOfOne, AssembleOne
  <1>6. CASE AddCheck(w) \/ ModifyIndex(w)
    <2>1. /\ tx'[w] = tx[w] /\ pc'[w] \in {"insert", "update"}
          /\ pc'[w] = "insert" => tx[w].kind = "add"
          /\ pc'[w] = "update" => tx[w].kind = "modify" /\ Editing(w)
      BY <1>3, <1>6 DEF AddCheck, ModifyIndex, Goto, IInv, Shape, Handler, Adding, Modifying,
                        Editing
    <2>2. Known(w)' /\ Stored(w)' /\ UpToDate(w)'
      BY <1>1, <1>2, <1>4, <2>1 DEF Known, Stored, UpToDate
    <2>3. OnTopic(w)'
      BY <1>1, <1>2, <1>3, <2>1 DEF OnTopic, Editing, Wrote, Late, NoRows
    <2> QED BY <1>1, <2>2, <2>3, RoomOfOne, AssembleOne
  <1> QED BY <1>5, <1>6

\* A comment is written on the movie of the request, or of the comment that is edited.
LEMMA WritesSettle ==
  ASSUME IInv, JInv, Watch, NEW w \in Worker, AddInsert(w) \/ ModifyUpdate(w)
  PROVE  JInv'
  <1>1. /\ pc[w] \in {"insert", "update"} /\ pc'[w] = "average" /\ tx'[w] = tx[w]
        /\ pc' = [pc EXCEPT ![w] = pc'[w]]
        /\ tx' = [tx EXCEPT ![w] = tx'[w]]
        /\ UNCHANGED settled
    BY DEF AddInsert, ModifyUpdate, Goto, IInv, Shape
  <1>2. /\ writes[w].comments = NoRows /\ writes[w].movies = NoRows
        /\ View(w, "comments") = db.comments
    BY <1>1, Untouched, SeesCommitted DEF Wrote, Late, IInv
  <1>3. Known(w) /\ OnTopic(w) /\ Handler(w)
    BY <1>1 DEF JInv, IInv, Sane
  <1>4. PICK k, row :
          /\ Write(w, "comments", k, row)
          /\ tx[w].movie \in Movie /\ row.movie = tx[w].movie
          /\ Editing(w)' => db.comments[tx[w].comment].movie = tx[w].movie
    <2>1. CASE AddInsert(w)
      <3> DEFINE row == [user |-> tx[w].user, movie |-> tx[w].movie, rating |-> tx[w].rating]
      <3>1. Write(w, "comments", next, row) /\ row.movie = tx[w].movie
        BY <2>1 DEF AddInsert
      <3>2. tx[w].kind = "add" /\ ~Editing(w)'
        BY <1>1, <1>3, <2>1 DEF AddInsert, Goto, Handler, Adding, Editing
      <3>3. tx[w].movie \in Movie
        BY <1>3, <3>2 DEF Handler
      <3> HIDE DEF row
      <3> QED BY <3>1, <3>2, <3>3
    <2>2. CASE ModifyUpdate(w)
      <3> DEFINE c == tx[w].comment
      <3>1. Write(w, "comments", c, Edited(w))
        BY <1>2, <2>2 DEF ModifyUpdate, Edited
      <3>2. Editing(w)
        BY <1>3, <2>2 DEF ModifyUpdate, Goto, Handler, Modifying, Editing
      <3>3. tx[w].movie \in Movie /\ db.comments[c].movie = tx[w].movie
        BY <1>3, <3>2 DEF OnTopic
      <3>4. db.comments[c] \in CommentRow
        BY <1>1, <3>2 DEF IInv, Sane, OnRecord, Records
      <3>5. Edited(w).movie = db.comments[c].movie
        BY <3>4 DEF Edited, CommentRow
      <3> QED BY <3>1, <3>3, <3>5
    <2> QED BY <2>1, <2>2
  <1>5. /\ writes'[w].comments = Only(k, row) /\ writes'[w].movies = NoRows
        /\ \A v \in Worker \ {w} : writes'[v] = writes[v]
        /\ UNCHANGED db
    <2>1. Over([j \in {k} |-> row], writes[w].comments) = Only(k, row)
      BY <1>2 DEF Over, NoRows, Only
    <2> QED BY <1>2, <1>4, <2>1, Tables DEF Write, IInv, Shape
  <1>6. Room'
    <2>1. CASE ModifyUpdate(w)
      BY <1>1, <2>1, RoomOfOne DEF ModifyUpdate, Adding
    <2>2. CASE AddInsert(w)
      <3>1. Inserting' = Inserting \ {w} /\ w \in Inserting /\ next' = next + 1
        BY <1>1, <2>2 DEF AddInsert, Goto, Inserting, Adding, IInv, Shape
      <3>2. IsFiniteSet(Inserting)
        BY WorkerAssumption, FS_Subset DEF Inserting
      <3>3. Cardinality(Inserting') = Cardinality(Inserting) - 1 /\ Cardinality(Inserting) \in Nat
        BY <3>1, <3>2, FS_RemoveElement, FS_CardinalityType
      <3> QED BY <3>1, <3>3, BoundAssumption DEF Room, IInv, JInv, Records
    <2> QED BY <2>1, <2>2
  <1>7. Known(w)' /\ Stored(w)' /\ UpToDate(w)'
    BY <1>1, <1>3, <1>5 DEF Known, Stored, UpToDate
  <1>8. OnTopic(w)'
    BY <1>1, <1>4, <1>5 DEF OnTopic, Only
  <1> QED BY <1>1, <1>5, <1>6, <1>7, <1>8, AssembleOne

\* The average that is taken is that of the comments the statement sees.
LEMMA TakeAverageSettles ==
  ASSUME IInv, JInv, Watch, NEW w \in Worker, TakeAverage(w)
  PROVE  JInv'
  <1> DEFINE average == AverageOf(View(w, "comments"), tx[w].movie)
  <1>1. average \in Average
    BY SeesComments, AverageType
  <1>2. View(w, "comments")' = View(w, "comments")
    BY DEF TakeAverage, View
  <1> HIDE DEF average
  <1>3. /\ pc[w] = "average" /\ pc'[w] = "store"
        /\ tx'[w] = [tx[w] EXCEPT !.average = average]
        /\ pc' = [pc EXCEPT ![w] = pc'[w]]
        /\ tx' = [tx EXCEPT ![w] = tx'[w]]
        /\ UNCHANGED <<db, writes, next, settled>>
    <2>1. tx' = [tx EXCEPT ![w].average = average]
      BY DEF TakeAverage, average
    <2> QED BY <2>1 DEF TakeAverage, Goto, IInv, Shape
  <1>4. Known(w) /\ OnTopic(w) /\ Stored(w)
    BY DEF JInv
  <1>5. tx[w] \in Request
    BY <1>3, <1>4 DEF Known
  <1>6. /\ tx'[w] \in Request /\ tx'[w].average = average /\ tx'[w].movie = tx[w].movie
        /\ tx'[w].comment = tx[w].comment /\ tx'[w].kind = tx[w].kind
    BY <1>1, <1>3, <1>5 DEF Request
  <1>7. Known(w)' /\ Stored(w)'
    BY <1>3, <1>4, <1>6 DEF Known, Stored
  <1>8. OnTopic(w)'
    BY <1>3, <1>4, <1>6 DEF OnTopic, Editing, Wrote, Late
  <1>9. UpToDate(w)'
    BY <1>2, <1>6 DEF UpToDate, average
  <1>10. Room'
    BY <1>3, RoomOfOne DEF Adding
  <1> QED BY <1>3, <1>7, <1>8, <1>9, <1>10, AssembleOne

\* It is stored as it was taken.
LEMMA StoreAverageSettles ==
  ASSUME IInv, JInv, Watch, NEW w \in Worker, StoreAverage(w)
  PROVE  JInv'
  <1>1. /\ pc[w] = "store" /\ pc'[w] = "commit" /\ tx'[w] = tx[w]
        /\ pc' = [pc EXCEPT ![w] = pc'[w]]
        /\ tx' = [tx EXCEPT ![w] = tx'[w]]
        /\ Write(w, "movies", tx[w].movie, tx[w].average)
        /\ UNCHANGED <<db, next, settled>>
    BY DEF StoreAverage, Goto, Write, IInv, Shape
  <1>2. Known(w) /\ OnTopic(w) /\ Stored(w) /\ UpToDate(w)
    BY DEF JInv
  <1>3. /\ writes'[w].comments = writes[w].comments
        /\ writes'[w].movies = Only(tx[w].movie, tx[w].average)
        /\ \A v \in Worker \ {w} : writes'[v] = writes[v]
    <2>1. Over([j \in {tx[w].movie} |-> tx[w].average], writes[w].movies)
            = Only(tx[w].movie, tx[w].average)
      BY <1>1, <1>2 DEF Stored, Over, NoRows, Only
    <2> QED BY <1>1, <2>1, Tables DEF Write, IInv, Shape
  <1>4. View(w, "comments")' = View(w, "comments")
    BY <1>1, <1>3 DEF View
  <1>5. alone'[w] => alone[w]
    BY <1>1 DEF Watch
  <1>6. Known(w)' /\ Stored(w)'
    BY <1>1, <1>2, <1>3 DEF Known, Stored
  <1>7. OnTopic(w)'
    BY <1>1, <1>2, <1>3 DEF OnTopic, Editing, Wrote, Late
  <1>8. UpToDate(w)'
    BY <1>1, <1>2, <1>4, <1>5 DEF UpToDate
  <1>9. Room'
    BY <1>1, RoomOfOne DEF Adding
  <1> QED BY <1>1, <1>3, <1>6, <1>7, <1>8, <1>9, AssembleOne

-----------------------------------------------------------------------------
(* The commit *)

\* Two tables have the same comments on a movie.
Agree(f, g, m) == /\ CommentsOn(g, m) = CommentsOn(f, m)
                  /\ \A c \in CommentsOn(f, m) : g[c] = f[c]

LEMMA AgreeingAverages ==
  ASSUME NEW f, NEW g, AreComments(f), AreComments(g), NEW m, Agree(f, g, m)
  PROVE  AverageOf(g, m) = AverageOf(f, m)
  BY AverageDependsOn DEF Agree

\* They have under the same uncommitted rows, too.
LEMMA AgreeUnder ==
  ASSUME NEW f, NEW g, NEW h, NEW m, Agree(f, g, m)
  PROVE  Agree(Over(h, f), Over(h, g), m)
  <1>1. ASSUME NEW c, c \notin DOMAIN h
        PROVE  /\ c \in CommentsOn(f, m) <=> c \in CommentsOn(g, m)
               /\ c \in CommentsOn(Over(h, f), m) <=> c \in CommentsOn(f, m)
               /\ c \in CommentsOn(Over(h, g), m) <=> c \in CommentsOn(g, m)
               /\ c \in CommentsOn(f, m) => Over(h, f)[c] = Over(h, g)[c]
    BY <1>1 DEF Agree, CommentsOn, Over
  <1>2. ASSUME NEW c \in DOMAIN h
        PROVE  /\ Over(h, f)[c] = Over(h, g)[c]
               /\ c \in CommentsOn(Over(h, f), m) <=> c \in CommentsOn(Over(h, g), m)
    BY DEF CommentsOn, Over
  <1> QED BY <1>1, <1>2 DEF Agree

\* A commit has no effect on the comments on other movies, and moves no comment to another.
LEMMA CommitOnTopic ==
  ASSUME IInv, JInv, NEW w \in Worker, commit(w)
  PROVE  /\ \A m \in Movie \ {tx[w].movie} : Agree(db.comments, db'.comments, m)
         /\ \A c \in DOMAIN db.comments : db'.comments[c].movie = db.comments[c].movie
  <1>1. pc[w] = "commit" /\ db'.comments = Over(writes[w].comments, db.comments)
    BY Tables DEF commit, Goto, Commit, View
  <1>2. /\ Staged(w) /\ OnTopic(w) /\ Wrote(w) /\ tx[w].kind \in {"add", "modify"}
    BY <1>1 DEF IInv, JInv, Sane, Handler, Wrote, Late
  <1>3. ASSUME NEW c \in DOMAIN writes[w].comments, c \in DOMAIN db.comments
        PROVE  db.comments[c].movie = tx[w].movie
    <2>1. tx[w].kind # "add"
      BY <1>2, <1>3 DEF Staged, Only
    <2>2. c = tx[w].comment /\ Editing(w)
      BY <1>2, <2>1 DEF Staged, Only, Editing
    <2> QED BY <1>2, <2>2 DEF OnTopic
  <1>4. \A c \in DOMAIN writes[w].comments : writes[w].comments[c].movie = tx[w].movie
    BY <1>2 DEF OnTopic
  <1>5. \A c \in DOMAIN db.comments : db'.comments[c].movie = db.comments[c].movie
    BY <1>1, <1>3, <1>4 DEF Over
  <1>6. ASSUME NEW m \in Movie \ {tx[w].movie}
        PROVE  Agree(db.comments, db'.comments, m)
    <2>1. ASSUME NEW c
          PROVE  /\ c \in CommentsOn(db'.comments, m) <=> c \in CommentsOn(db.comments, m)
                 /\ c \in CommentsOn(db.comments, m) => db'.comments[c] = db.comments[c]
      BY <1>1, <1>3, <1>4 DEF CommentsOn, Over
    <2> QED BY <2>1 DEF Agree
  <1> QED BY <1>5, <1>6

LEMMA CommitSettles ==
  ASSUME IInv, JInv, Watch, NEW w \in Worker, commit(w)
  PROVE  JInv'
  <1>1. /\ pc[w] = "commit" /\ pc'[w] = "idle" /\ tx'[w] = NoRequest
        /\ pc' = [pc EXCEPT ![w] = pc'[w]]
        /\ \A v \in Worker \ {w} : writes'[v] = writes[v] /\ pc'[v] = pc[v] /\ tx'[v] = tx[v]
        /\ writes'[w].comments = NoRows /\ writes'[w].movies = NoRows
        /\ db'.comments = View(w, "comments") /\ db'.movies = View(w, "movies")
        /\ next' = next
    BY Tables DEF commit, Goto, Commit, NoWrites, IInv, Shape
  <1>2. /\ Known(w) /\ OnTopic(w) /\ Stored(w) /\ UpToDate(w)
        /\ tx[w].movie \in Movie /\ tx[w] \in Request
    BY <1>1 DEF JInv, OnTopic, Wrote, Late, Known
  <1>3. db'.movies = [db.movies EXCEPT ![tx[w].movie] = tx[w].average]
    <2>1. /\ db'.movies = Over(Only(tx[w].movie, tx[w].average), db.movies)
          /\ db.movies \in [Movie -> Average]
      BY <1>1, <1>2 DEF View, Stored, JInv
    <2>2. DOMAIN Over(Only(tx[w].movie, tx[w].average), db.movies) = Movie
      BY <1>2, <2>1 DEF Over, Only
    <2> QED BY <1>2, <2>1, <2>2 DEF Over, Only
  <1>4. AreComments(db.comments) /\ AreComments(db'.comments)
    BY <1>1, CommittedAreComments, SeesComments DEF IInv
  <1>5. db'.movies \in [Movie -> Average] /\ settled' \subseteq Movie
    BY <1>2, <1>3 DEF JInv, commit, Request
  <1>6. Room'
    BY <1>1, RoomOfOne DEF Adding
  <1>7. Known(w)' /\ OnTopic(w)' /\ Stored(w)' /\ UpToDate(w)'
    BY <1>1 DEF Known, OnTopic, Stored, UpToDate, Editing, Wrote, Late, NoRows
  <1>8. ASSUME NEW v \in Worker \ {w}
        PROVE  Known(v)' /\ OnTopic(v)' /\ Stored(v)' /\ UpToDate(v)'
    <2>1. Known(v) /\ OnTopic(v) /\ Stored(v) /\ UpToDate(v) /\ Apart(v)
      BY DEF JInv
    <2>2. Known(v)' /\ Stored(v)'
      BY <1>1, <2>1 DEF Known, Stored
    <2>3. OnTopic(v)'
      <3>1. Editing(v) => tx[v].comment \in DOMAIN db.comments
        BY DEF IInv, Sane, Editing, OnRecord, Wrote, Late
      <3> QED BY <1>1, <2>1, <3>1, CommitOnTopic DEF OnTopic, Editing, Wrote
    <2>4. UpToDate(v)'
      <3> SUFFICES ASSUME alone'[v], pc[v] \in {"store", "commit"}
                   PROVE  tx[v].average = AverageOf(View(v, "comments")', tx[v].movie)
        BY <1>1 DEF UpToDate
      <3> DEFINE m == tx[v].movie
      <3>1. alone[v]
        BY DEF Watch
      <3>2. m \in Movie \ {tx[w].movie}
        <4>1. m \in Movie
          BY <2>1 DEF OnTopic, Wrote, Late
        <4>2. About(v) = m /\ About(w) = tx[w].movie
          BY <1>1 DEF About
        <4> QED BY <2>1, <3>1, <4>1, <4>2, NoMovieAssumption DEF Apart
      <3>3. Agree(Over(writes[v].comments, db.comments), Over(writes[v].comments, db'.comments), m)
        BY <3>2, CommitOnTopic, AgreeUnder
      <3>4. AreComments(writes[v].comments)
        BY SeesComments
      <3>5. AverageOf(Over(writes[v].comments, db'.comments), m)
              = AverageOf(Over(writes[v].comments, db.comments), m)
        BY <1>4, <3>3, <3>4, OverAreComments, AgreeingAverages
      <3>6. tx[v].average = AverageOf(View(v, "comments"), m)
        BY <2>1, <3>1 DEF UpToDate
      <3> QED BY <1>1, <3>5, <3>6 DEF View
    <2> QED BY <2>2, <2>3, <2>4
  <1>9. AverageSettles'
    <2> SUFFICES ASSUME NEW m \in settled'
                 PROVE  SameAverage(db'.movies[m], AverageOf(db'.comments, m))
      BY DEF AverageSettles
    <2>1. CASE m = tx[w].movie
      <3>1. alone[w]
        BY <2>1 DEF commit
      <3>2. tx[w].average = AverageOf(View(w, "comments"), m)
        BY <1>1, <1>2, <2>1, <3>1 DEF UpToDate
      <3>3. db'.movies[m] = tx[w].average
        BY <1>2, <1>3, <2>1 DEF JInv
      <3>4. db'.movies[m] = AverageOf(db'.comments, m)
        BY <1>1, <3>2, <3>3
      <3> QED BY <3>4 DEF SameAverage
    <2>2. CASE m # tx[w].movie
      <3>1. m \in settled /\ m \in Movie
        BY <1>5, <2>2 DEF commit
      <3>2. db'.movies[m] = db.movies[m]
        BY <1>3, <2>2, <3>1 DEF JInv
      <3>3. AverageOf(db'.comments, m) = AverageOf(db.comments, m)
        BY <1>4, <2>2, <3>1, CommitOnTopic, AgreeingAverages
      <3>4. SameAverage(db.movies[m], AverageOf(db.comments, m))
        BY <3>1 DEF JInv, AverageSettles
      <3> QED BY <3>2, <3>3, <3>4
    <2> QED BY <2>1, <2>2
  <1> QED BY <1>5, <1>6, <1>7, <1>8, <1>9, WatchKeeps DEF JInv

-----------------------------------------------------------------------------
(* TypeOK and AverageSettles *)

LEMMA InitJInv == Init => JInv
  <1> SUFFICES ASSUME Init
               PROVE  JInv
    OBVIOUS
  <1>1. /\ db.comments = NoRows
        /\ db.movies = [m \in Movie |-> NoAverage]
        /\ \A w \in Worker : /\ pc[w] = "idle" /\ tx[w] = NoRequest
                             /\ writes[w].comments = NoRows /\ writes[w].movies = NoRows
        /\ next = 1 /\ alone = [w \in Worker |-> TRUE] /\ settled = Movie
    BY Tables DEF Init, Begun, NoWrites
  <1>2. Room
    <2>1. Inserting = {}
      BY <1>1 DEF Inserting, Adding
    <2> QED BY <1>1, <2>1, FS_EmptySet, BoundAssumption DEF Room
  <1>3. \A w \in Worker : Known(w) /\ OnTopic(w) /\ Stored(w) /\ UpToDate(w) /\ Apart(w)
    BY <1>1 DEF Known, OnTopic, Stored, UpToDate, Apart, About, Editing, Wrote, Late, NoRows
  <1>4. AverageSettles
    <2> SUFFICES ASSUME NEW m \in Movie
                 PROVE  SameAverage(db.movies[m], AverageOf(db.comments, m))
      BY <1>1 DEF AverageSettles
    <2>1. db.movies[m] = NoAverage
      BY <1>1
    <2>2. AreComments(db.comments)
      BY <1>1, FS_EmptySet DEF AreComments, NoRows
    <2>3. CommentsOn(db.comments, m) = {}
      BY <1>1 DEF CommentsOn, NoRows
    <2>4. AverageOf(db.comments, m) = NoAverage
      BY <2>2, <2>3, AverageIs, TotalEmpty, FS_EmptySet DEF NoAverage
    <2> QED BY <2>1, <2>4 DEF SameAverage
  <1>5. db.movies \in [Movie -> Average]
    BY <1>1 DEF Average, NoAverage
  <1> QED BY <1>1, <1>2, <1>3, <1>4, <1>5 DEF JInv

LEMMA NextSettles == IInv /\ JInv /\ [Next]_vars => JInv'
  <1> SUFFICES ASSUME IInv, JInv, [Next]_vars
               PROVE  JInv'
    OBVIOUS
  <1>1. CASE UNCHANGED vars
    <2>1. UNCHANGED <<db, writes, pc, tx, next, alone, settled>>
      BY <1>1 DEF vars
    <2>2. ASSUME NEW w \in Worker
          PROVE  Known(w)' /\ OnTopic(w)' /\ Stored(w)' /\ UpToDate(w)' /\ Apart(w)'
      <3>1. Known(w) /\ OnTopic(w) /\ Stored(w) /\ UpToDate(w) /\ Apart(w)
        BY DEF JInv
      <3> QED BY <2>1, <3>1 DEF Known, OnTopic, Stored, UpToDate, Apart, About, View, Editing,
                                Wrote
    <2>3. AverageSettles' /\ Room'
      BY <2>1 DEF JInv, AverageSettles, Room, Inserting
    <2> QED BY <2>1, <2>2, <2>3 DEF JInv
  <1>2. CASE Next
    <2>1. PICK w \in Worker : Arrive(w) \/ Step(w) \/ Fail(w)
      BY <1>2 DEF Next
    <2> USE <1>2 DEF Next
    <2>2. CASE Arrive(w)
      BY <2>2, BeginSettles DEF Arrive
    <2>3. CASE AddRefused(w) \/ ModifyRefused(w) \/ Fail(w)
      BY <2>3, LeaveSettles DEF AddRefused, ModifyRefused, Fail
    <2>4. CASE AddCheck(w) \/ ModifySelect(w) \/ ModifyIndex(w)
      BY <2>4, ReadsSettle
    <2>5. CASE AddInsert(w) \/ ModifyUpdate(w)
      BY <2>5, WritesSettle
    <2>6. CASE Crash(w)
      BY <2>6, CrashSettles
    <2>7. CASE TakeAverage(w)
      BY <2>7, TakeAverageSettles
    <2>8. CASE StoreAverage(w)
      BY <2>8, StoreAverageSettles
    <2>9. CASE commit(w)
      BY <2>9, CommitSettles
    <2> QED BY <2>1, <2>2, <2>3, <2>4, <2>5, <2>6, <2>7, <2>8, <2>9 DEF Step
  <1> QED BY <1>1, <1>2

LEMMA JInvariance == Spec => []JInv
  BY InitJInv, NextSettles, Invariance, PTL DEF Spec

\* The tables and the locals of the handlers keep their types, and the ids stay in range.
THEOREM TypeCorrect == Spec => []TypeOK
  <1>1. ASSUME IInv, JInv
        PROVE  TypeOK
    <2>1. next \in Comment \cup {MaxComments + 1}
      <3>1. IsFiniteSet(Inserting)
        BY WorkerAssumption, FS_Subset DEF Inserting
      <3>2. Cardinality(Inserting) \in Nat
        BY <3>1, FS_CardinalityType
      <3>3. next \in Nat \ {0} /\ next + Cardinality(Inserting) <= MaxComments + 1
        BY <1>1 DEF IInv, JInv, Records, Room
      <3> QED BY <3>2, <3>3, BoundAssumption DEF Comment
    <2>2. \A w \in Worker : /\ pc[w] \in Label
                            /\ tx[w] \in Request \cup {NoRequest}
                            /\ tx[w] = NoRequest <=> pc[w] = "idle"
      <3> SUFFICES ASSUME NEW w \in Worker
                   PROVE  /\ pc[w] \in Label
                          /\ tx[w] \in Request \cup {NoRequest}
                          /\ tx[w] = NoRequest <=> pc[w] = "idle"
        OBVIOUS
      <3>1. pc[w] \in Label /\ Known(w)
        BY <1>1 DEF IInv, JInv, Sane
      <3>2. NoRequest \notin Request
        BY DEF NoRequest, Request
      <3> QED BY <3>1, <3>2 DEF Known
    <2>3. pc \in [Worker -> Label] /\ tx \in [Worker -> Request \cup {NoRequest}]
      BY <1>1, <2>2 DEF IInv, Shape
    <2> QED BY <1>1, <2>1, <2>2, <2>3 DEF TypeOK, IInv, JInv, Records
  <1> QED BY <1>1, Invariance, JInvariance, PTL

\* The average of a movie is that of its comments, unless the last transaction about it
\* overlapped with another (update movies set avg_rating, lines 125 and 193): an addition or
\* an edit that meets no other puts it right, for any number of workers, users and comments.
THEOREM AveragesSettle == Spec => []AverageSettles
  <1>1. JInv => AverageSettles
    BY DEF JInv
  <1> QED BY <1>1, JInvariance, PTL
=============================================================================
