--------------------------- MODULE Accounts_proofs ---------------------------
(***************************************************************************)
(* Proofs about Accounts, for any workers, sessions, users and roals.      *)
(***************************************************************************)
EXTENDS Accounts, TLAPS

\* A user whose permission was asked had, at some time, a roal that has it.
Entitled(u) == u \in User /\ \E r \in held[u] : check_permission(r, "modify_user")

\* What a roal was read from is on record.
RoalsOnRecord ==
  /\ \A u \in DOMAIN auth_user : auth_user[u] \in held[u]
  /\ \A s \in Session : user[s] # NoCopy => user[s].roal \in held[user[s].id]

\* What each handler carries from one of its statements to the next.
LocalsMakeSense ==
  \A w \in Worker :
    /\ pc[w] \in {"login", "read", "restore"} => tx[w].id \in DOMAIN auth_user
                                                /\ tx[w].session \in Session
    /\ pc[w] \in {"login", "restore"} => tx[w].roal \in held[tx[w].id]
    /\ pc[w] = "modify" => Entitled(tx[w].by)
    /\ pc[w] = "insert" => \/ tx[w].by = Nobody /\ tx[w].roal = "user"
                           \/ Entitled(tx[w].by)

\* A reload that is under way in a calm session is of the user who belongs there.
ReloadsAreOfTheUser ==
  \A w \in Worker : pc[w] \in {"read", "restore"} /\ tx[w].session \in calm =>
                      tx[w].id = answered[tx[w].session]

IInv == TypeOK /\ RoalsOnRecord /\ LocalsMakeSense

\* Nobody is not a user: a session with a copy is not one without.
LEMMA CopyFacts ==
  /\ NoCopy \notin Copy
  /\ \A c \in Copy : c.id \in User /\ c.roal \in Roal
  /\ Nobody \notin User /\ Nobody \notin Session
  /\ NoRequest \notin Request
  BY NobodyAssumption DEF Copy, NoCopy, NoRequest, Request

LEMMA InitIInv == Init => IInv
  <1> SUFFICES ASSUME Init PROVE IInv
    OBVIOUS
  <1> USE FounderAssumption, NobodyAssumption DEF Init
  <1>1. TypeOK
    BY DEF TypeOK, NoCopy, NoRequest, Label
  <1>2. RoalsOnRecord
    BY DEF RoalsOnRecord
  <1>3. LocalsMakeSense
    BY DEF LocalsMakeSense
  <1> QED BY <1>1, <1>2, <1>3 DEF IInv

-----------------------------------------------------------------------------
\* A handler begins.  Nothing changes but what it carries.
LEMMA BeginStep ==
  ASSUME IInv, NEW w \in Worker, NEW label \in Label \ {"idle"}, NEW request \in Request,
         Begin(w, label, request),
         label \in {"login", "read", "restore"} => request.id \in DOMAIN auth_user
                                                  /\ request.session \in Session,
         label \in {"login", "restore"} => request.roal \in held[request.id],
         label = "modify" => Entitled(request.by),
         label = "insert" => \/ request.by = Nobody /\ request.roal = "user"
                             \/ Entitled(request.by)
  PROVE  IInv'
  <1>1. /\ UNCHANGED <<auth_user, user, answered, calm, held>>
        /\ pc' = [pc EXCEPT ![w] = label] /\ tx' = [tx EXCEPT ![w] = request]
    BY DEF Begin, Goto
  <1>2. TypeOK'
    BY <1>1, CopyFacts DEF IInv, TypeOK
  <1>3. RoalsOnRecord'
    BY <1>1 DEF IInv, RoalsOnRecord
  <1>4. LocalsMakeSense'
    <2>1. ASSUME NEW v \in Worker, v # w PROVE pc'[v] = pc[v] /\ tx'[v] = tx[v]
      BY <2>1, <1>1 DEF IInv, TypeOK
    <2>2. pc'[w] = label /\ tx'[w] = request
      BY <1>1 DEF IInv, TypeOK
    <2> QED BY <1>1, <2>1, <2>2 DEF IInv, LocalsMakeSense, Entitled
  <1> QED BY <1>2, <1>3, <1>4 DEF IInv

\* A handler ends without having changed the table or a session.
LEMMA FailStep ==
  ASSUME IInv, NEW w \in Worker, Fail(w)
  PROVE  IInv'
  <1>1. /\ UNCHANGED <<auth_user, user, answered, calm, held>>
        /\ pc' = [pc EXCEPT ![w] = "idle"] /\ tx' = [tx EXCEPT ![w] = NoRequest]
    BY DEF Fail, Return, Goto
  <1>2. TypeOK'
    BY <1>1 DEF IInv, TypeOK, Label
  <1>3. RoalsOnRecord' /\ LocalsMakeSense'
    BY <1>1 DEF IInv, TypeOK, RoalsOnRecord, LocalsMakeSense, Entitled
  <1> QED BY <1>2, <1>3 DEF IInv

\* A login or a reload stores the row it has read, which was its user's at some time.
LEMMA StoreStep ==
  ASSUME IInv, NEW w \in Worker, pc[w] \in {"login", "restore"},
         Return(w, pc[w]),
         user' = [user EXCEPT ![tx[w].session] = [id |-> tx[w].id, roal |-> tx[w].roal]],
         UNCHANGED <<auth_user, held>>,
         answered' \in [Session -> User \cup {Nobody}], calm' \subseteq Session
  PROVE  IInv'
  <1>1. pc' = [pc EXCEPT ![w] = "idle"] /\ tx' = [tx EXCEPT ![w] = NoRequest]
    BY DEF Return, Goto
  <1>2. /\ tx[w] \in Request /\ tx[w].session \in Session
        /\ tx[w].id \in DOMAIN auth_user /\ tx[w].roal \in held[tx[w].id]
    BY DEF IInv, TypeOK, LocalsMakeSense
  <1>3. tx[w].id \in User /\ tx[w].roal \in Roal
    BY <1>2 DEF Request
  <1>4. TypeOK'
    BY <1>1, <1>2, <1>3 DEF IInv, TypeOK, Label, Copy
  <1>5. RoalsOnRecord'
    BY <1>2, <1>3 DEF IInv, TypeOK, RoalsOnRecord
  <1>6. LocalsMakeSense'
    BY <1>1 DEF IInv, TypeOK, LocalsMakeSense, Entitled
  <1> QED BY <1>4, <1>5, <1>6 DEF IInv

\* A row is changed or inserted; the roals that were had before stay on record.
LEMMA SetStep ==
  ASSUME IInv, NEW w \in Worker, pc[w] \in {"modify", "insert"},
         Return(w, pc[w]),
         \/ Set(tx[w].id, tx[w].roal)
         \/ UNCHANGED <<auth_user, held>>,
         UNCHANGED <<user, answered, calm>>
  PROVE  IInv'
  <1>1. pc' = [pc EXCEPT ![w] = "idle"] /\ tx' = [tx EXCEPT ![w] = NoRequest]
    BY DEF Return, Goto
  <1>2. tx[w] \in Request /\ tx[w].id \in User /\ tx[w].roal \in Roal
    BY DEF IInv, TypeOK, Request
  <1>3. /\ DOMAIN auth_user \subseteq DOMAIN auth_user' /\ DOMAIN auth_user' \subseteq User
        /\ \A u \in DOMAIN auth_user' : auth_user'[u] \in Roal /\ auth_user'[u] \in held'[u]
        /\ held' \in [User -> SUBSET Roal]
        /\ \A u \in User : held[u] \subseteq held'[u]
    BY <1>2 DEF Set, IInv, TypeOK, RoalsOnRecord
  <1>4. TypeOK'
    BY <1>1, <1>3 DEF IInv, TypeOK, Label
  <1>5. RoalsOnRecord'
    BY <1>3 DEF IInv, TypeOK, RoalsOnRecord, Copy
  <1>6. LocalsMakeSense'
    <2>1. ASSUME NEW u, Entitled(u) PROVE Entitled(u)'
      BY <1>3, <2>1 DEF Entitled
    <2>2. ASSUME NEW v \in Worker, v # w PROVE pc'[v] = pc[v] /\ tx'[v] = tx[v]
      BY <2>2, <1>1 DEF IInv, TypeOK
    <2>3. pc'[w] = "idle"
      BY <1>1 DEF IInv, TypeOK
    <2>4. ASSUME NEW v \in Worker, v # w, pc[v] \in {"login", "restore"}
          PROVE  tx[v].roal \in held'[tx[v].id]
      BY <1>3, <2>4 DEF IInv, TypeOK, LocalsMakeSense
    <2> QED BY <1>3, <2>1, <2>2, <2>3, <2>4 DEF IInv, LocalsMakeSense
  <1> QED BY <1>4, <1>5, <1>6 DEF IInv

LEMMA NextIInv == IInv /\ [Next]_vars => IInv'
  <1> SUFFICES ASSUME IInv, [Next]_vars PROVE IInv'
    OBVIOUS
  <1>1. ASSUME NEW w \in Worker, NEW s \in Session, ReloadBegin(w, s) PROVE IInv'
    <2>1. user[s] \in Copy /\ user[s].id \in DOMAIN auth_user /\ user[s].id \in User
      BY <1>1 DEF ReloadBegin, IInv, TypeOK, Copy
    <2>2. [id |-> user[s].id, roal |-> "", session |-> s, by |-> Nobody] \in Request
      BY <2>1, RoalAssumption DEF Request
    <2> QED BY <1>1, <2>1, <2>2, BeginStep DEF ReloadBegin, Label
  <1>2. ASSUME NEW w \in Worker, NEW s \in Session, NEW u \in User, LoginBegin(w, s, u)
        PROVE IInv'
    <2>1. [id |-> u, roal |-> auth_user[u], session |-> s, by |-> Nobody] \in Request
      BY <1>2 DEF Request, LoginBegin, IInv, TypeOK
    <2>2. auth_user[u] \in held[u]
      BY <1>2 DEF LoginBegin, IInv, RoalsOnRecord
    <2> QED BY <1>2, <2>1, <2>2, BeginStep DEF LoginBegin, Label
  <1>3. ASSUME NEW s \in Session, check_session_permission(s, "modify_user")
        PROVE  Entitled(user[s].id)
    BY <1>3 DEF check_session_permission, Entitled, IInv, TypeOK, RoalsOnRecord, Copy
  <1>4. ASSUME NEW w \in Worker, NEW s \in Session, NEW u \in User, NEW r \in Roal,
               ModifyBegin(w, s, u, r) \/ RegisterOther(w, s, u, r)
        PROVE IInv'
    <2>1. Entitled(user[s].id)
      BY <1>3, <1>4 DEF ModifyBegin, RegisterOther
    <2>2. [id |-> u, roal |-> r, session |-> Nobody, by |-> user[s].id] \in Request
      BY <2>1 DEF Entitled, Request
    <2> QED BY <1>4, <2>1, <2>2, BeginStep DEF ModifyBegin, RegisterOther, Label
  <1>5. ASSUME NEW w \in Worker, NEW u \in User, NEW r \in Roal, RegisterSelf(w, u, r)
        PROVE IInv'
    <2>1. [id |-> u, roal |-> "user", session |-> Nobody, by |-> Nobody] \in Request
      BY RoalAssumption DEF Request
    <2> QED BY <1>5, <2>1, BeginStep DEF RegisterSelf, Label
  <1>6. ASSUME NEW w \in Worker, LoginStore(w) PROVE IInv'
    <2>1. /\ pc[w] = "login" /\ Return(w, pc[w]) /\ UNCHANGED <<auth_user, held>>
          /\ user' = [user EXCEPT ![tx[w].session] = [id |-> tx[w].id, roal |-> tx[w].roal]]
      BY <1>6 DEF LoginStore, Return, Goto
    <2>2. tx[w].id \in User
      BY <2>1 DEF IInv, TypeOK, LocalsMakeSense
    <2>3. tx[w].session \in Session
      BY <2>1 DEF IInv, LocalsMakeSense
    <2>4. answered' \in [Session -> User \cup {Nobody}] /\ calm' \subseteq Session
      BY <1>6, <2>2, <2>3 DEF LoginStore, Answer, IInv, TypeOK
    <2> QED BY <2>1, <2>4, StoreStep
  <1>7. ASSUME NEW w \in Worker, ReloadRead(w) PROVE IInv'
    <2>1. /\ pc[w] = "read" /\ UNCHANGED <<auth_user, user, answered, calm, held>>
          /\ pc' = [pc EXCEPT ![w] = "restore"]
          /\ tx' = [tx EXCEPT ![w].roal = auth_user[tx[w].id]]
      BY <1>7 DEF ReloadRead, Goto
    <2>2. tx[w] \in Request /\ tx[w].id \in DOMAIN auth_user /\ tx[w].session \in Session
      BY <2>1 DEF IInv, TypeOK, LocalsMakeSense
    <2>3. /\ tx'[w] \in Request /\ tx'[w].id = tx[w].id /\ tx'[w].session = tx[w].session
          /\ tx'[w].roal = auth_user[tx[w].id]
      BY <2>1, <2>2 DEF IInv, TypeOK, Request
    <2>4. TypeOK'
      BY <2>1, <2>3, CopyFacts DEF IInv, TypeOK, Label
    <2>5. auth_user[tx[w].id] \in held[tx[w].id]
      BY <2>2 DEF IInv, RoalsOnRecord
    <2>6. RoalsOnRecord'
      BY <2>1 DEF IInv, RoalsOnRecord
    <2>7. LocalsMakeSense'
      <3>1. ASSUME NEW v \in Worker, v # w PROVE pc'[v] = pc[v] /\ tx'[v] = tx[v]
        BY <3>1, <2>1 DEF IInv, TypeOK
      <3>2. pc'[w] = "restore"
        BY <2>1 DEF IInv, TypeOK
      <3> QED BY <2>1, <2>2, <2>3, <2>5, <3>1, <3>2 DEF IInv, LocalsMakeSense, Entitled
    <2> QED BY <2>4, <2>6, <2>7 DEF IInv
  <1>8. ASSUME NEW w \in Worker, ReloadStore(w) PROVE IInv'
    <2>1. /\ pc[w] = "restore" /\ Return(w, pc[w]) /\ UNCHANGED <<auth_user, held>>
          /\ user' = [user EXCEPT ![tx[w].session] = [id |-> tx[w].id, roal |-> tx[w].roal]]
          /\ answered' \in [Session -> User \cup {Nobody}] /\ calm' \subseteq Session
      BY <1>8 DEF ReloadStore, Return, Goto, IInv, TypeOK
    <2> QED BY <2>1, StoreStep
  <1>9. ASSUME NEW w \in Worker, ModifyUpdate(w) \/ RegisterInsert(w) PROVE IInv'
    <2>1. /\ pc[w] \in {"modify", "insert"} /\ Return(w, pc[w])
          /\ Set(tx[w].id, tx[w].roal) \/ UNCHANGED <<auth_user, held>>
          /\ UNCHANGED <<user, answered, calm>>
      BY <1>9 DEF ModifyUpdate, RegisterInsert, Return, Goto
    <2> QED BY <2>1, SetStep
  <1>10. ASSUME NEW s \in Session, user_logout(s) PROVE IInv'
    <2>1. /\ user' = [user EXCEPT ![s] = NoCopy] /\ UNCHANGED <<auth_user, pc, tx, held>>
          /\ answered' \in [Session -> User \cup {Nobody}] /\ calm' \subseteq Session
      BY <1>10 DEF user_logout, Answer, IInv, TypeOK
    <2> QED BY <2>1 DEF IInv, TypeOK, RoalsOnRecord, LocalsMakeSense, Entitled
  <1>11. ASSUME Crash PROVE IInv'
    BY <1>11 DEF Crash, IInv, TypeOK, RoalsOnRecord, LocalsMakeSense, Label
  <1>12. CASE UNCHANGED vars
    BY <1>12 DEF vars, IInv, TypeOK, RoalsOnRecord, LocalsMakeSense, Entitled
  <1> QED BY <1>1, <1>2, <1>4, <1>5, <1>6, <1>7, <1>8, <1>9, <1>10, <1>11, <1>12, FailStep
          DEF Next, Arrive, Step

LEMMA Invariance == Spec => []IInv
  BY InitIInv, NextIInv, PTL DEF Spec

\* Sessions have copies of rows that exist, and only who is at work carries a request.
THEOREM TypeCorrect == Spec => []TypeOK
  <1>1. IInv => TypeOK
    BY DEF IInv
  <1> QED BY <1>1, Invariance, PTL

-----------------------------------------------------------------------------
\* A roal other than user is given only by somebody who has had one that may: every
\* permission goes back to the roal of a row, however old, and self-registration to none.
LEMMA StepGivesRoals ==
  ASSUME IInv, [Next]_vars
  PROVE  \A u \in DOMAIN auth_user' :
           \/ u \in DOMAIN auth_user /\ auth_user'[u] = auth_user[u]
           \/ u \notin DOMAIN auth_user /\ auth_user'[u] = "user"
           \/ \E w \in Worker : /\ pc[w] \in {"modify", "insert"}
                                /\ tx[w].id = u
                                /\ tx[w].by # Nobody
                                /\ \E r \in held[tx[w].by] : check_permission(r, "modify_user")
  <1>1. ASSUME NEW w \in Worker, pc[w] \in {"modify", "insert"}, Set(tx[w].id, tx[w].roal),
               pc[w] = "insert" => tx[w].id \notin DOMAIN auth_user,
               NEW u \in DOMAIN auth_user'
        PROVE  \/ u \in DOMAIN auth_user /\ auth_user'[u] = auth_user[u]
               \/ u \notin DOMAIN auth_user /\ auth_user'[u] = "user"
               \/ /\ tx[w].id = u
                  /\ tx[w].by # Nobody
                  /\ \E r \in held[tx[w].by] : check_permission(r, "modify_user")
    <2>1. CASE u # tx[w].id
      BY <1>1, <2>1 DEF Set
    <2>2. CASE u = tx[w].id /\ Entitled(tx[w].by)
      BY <2>2, NobodyAssumption DEF Entitled
    <2>3. CASE u = tx[w].id /\ pc[w] = "insert" /\ tx[w].roal = "user"
      BY <1>1, <2>3 DEF Set
    <2> QED BY <1>1, <2>1, <2>2, <2>3 DEF IInv, LocalsMakeSense
  <1>2. CASE UNCHANGED auth_user
    BY <1>2
  <1>3. ASSUME NEW w \in Worker, ModifyUpdate(w) \/ RegisterInsert(w), ~UNCHANGED auth_user
        PROVE  /\ pc[w] \in {"modify", "insert"} /\ Set(tx[w].id, tx[w].roal)
               /\ pc[w] = "insert" => tx[w].id \notin DOMAIN auth_user
    BY <1>3 DEF ModifyUpdate, RegisterInsert, Return, Goto
  <1>4. UNCHANGED auth_user \/ \E w \in Worker : ModifyUpdate(w) \/ RegisterInsert(w)
    BY DEF Next, Arrive, Step, vars, Begin, ReloadBegin, LoginBegin, ModifyBegin, RegisterOther,
           RegisterSelf, LoginStore, ReloadRead, ReloadStore, Fail, user_logout, Crash
  <1> QED BY <1>1, <1>2, <1>3, <1>4

\* A roal other than user is given only by somebody who has had a roal that may, although
\* permissions are read from copies of rows that others may have changed since.
THEOREM RoalsAreAlwaysGiven == Spec => RoalsAreGiven
  BY StepGivesRoals, Invariance, PTL DEF Spec, RoalsAreGiven

-----------------------------------------------------------------------------
\* The invariant behind LastAnswerStands: in a calm session the user is who the last answer
\* says, and so is the one of every reload.
Settled == LastAnswerStands /\ ReloadsAreOfTheUser

LEMMA InitSettled == Init => Settled
  <1> SUFFICES ASSUME Init PROVE Settled
    OBVIOUS
  <1>1. \A s \in calm : user[s].id = answered[s]
    BY DEF Init, NoCopy
  <1>2. \A w \in Worker : pc[w] = "idle"
    BY DEF Init
  <1> QED BY <1>1, <1>2 DEF Settled, LastAnswerStands, ReloadsAreOfTheUser

LEMMA BeginSettled ==
  ASSUME IInv, Settled, NEW w \in Worker, NEW label, NEW request,
         Begin(w, label, request),
         label \in {"read", "restore"} => request.id = user[request.session].id
  PROVE  Settled'
  <1>1. /\ UNCHANGED <<auth_user, user, answered, calm, held>>
        /\ pc' = [pc EXCEPT ![w] = label] /\ tx' = [tx EXCEPT ![w] = request]
    BY DEF Begin, Goto
  <1>2. pc'[w] = label /\ tx'[w] = request
    BY <1>1 DEF IInv, TypeOK
  <1>3. ASSUME NEW v \in Worker, v # w PROVE pc'[v] = pc[v] /\ tx'[v] = tx[v]
    BY <1>3, <1>1 DEF IInv, TypeOK
  <1> QED BY <1>1, <1>2, <1>3 DEF Settled, LastAnswerStands, ReloadsAreOfTheUser

\* A login or logout of a session with no reload under way makes it calm, one that meets
\* a reload does not.
LEMMA AnswerSettled ==
  ASSUME IInv, Settled, NEW s \in Session, NEW u, Answer(s, u), user'[s].id = u,
         \A t \in Session : t # s => user'[t] = user[t],
         \A v \in Worker : pc'[v] = "idle" \/ (pc'[v] = pc[v] /\ tx'[v] = tx[v])
  PROVE  Settled'
  <1>1. ASSUME NEW t \in calm' PROVE user'[t].id = answered'[t]
    <2>1. CASE t = s
      BY <2>1 DEF Answer, IInv, TypeOK
    <2>2. CASE t # s
      <3>1. t \in calm /\ t \in Session
        BY <1>1, <2>2 DEF Answer, IInv, TypeOK
      <3> QED BY <2>2, <3>1 DEF Answer, IInv, TypeOK, Settled, LastAnswerStands
    <2> QED BY <2>1, <2>2
  <1>2. ASSUME NEW v \in Worker, pc'[v] \in {"read", "restore"}, tx'[v].session \in calm'
        PROVE  tx'[v].id = answered'[tx'[v].session]
    <2>1. pc'[v] = pc[v] /\ tx'[v] = tx[v]
      BY <1>2
    <2>2. tx[v].session # s
      BY <1>2, <2>1 DEF Answer, Reloading
    <2>3. tx[v].session \in calm
      BY <1>2, <2>1, <2>2 DEF Answer
    <2> QED BY <1>2, <2>1, <2>2, <2>3 DEF Answer, IInv, TypeOK, Settled, ReloadsAreOfTheUser
  <1> QED BY <1>1, <1>2 DEF Settled, LastAnswerStands, ReloadsAreOfTheUser

\* A handler that ends without an answer leaves a calm session its user.
LEMMA ReturnSettled ==
  ASSUME IInv, Settled, NEW w \in Worker, Return(w, pc[w]),
         \/ UNCHANGED user
         \/ /\ pc[w] = "restore"
            /\ user' = [user EXCEPT ![tx[w].session] = [id |-> tx[w].id, roal |-> tx[w].roal]],
         UNCHANGED <<answered, calm>>
  PROVE  Settled'
  <1>1. pc' = [pc EXCEPT ![w] = "idle"] /\ tx' = [tx EXCEPT ![w] = NoRequest]
    BY DEF Return, Goto
  <1>2. ASSUME NEW s \in calm PROVE user'[s].id = answered[s]
    <2>1. CASE UNCHANGED user
      BY <2>1 DEF Settled, LastAnswerStands
    <2>2. CASE /\ pc[w] = "restore"
               /\ user' = [user EXCEPT ![tx[w].session] = [id |-> tx[w].id, roal |-> tx[w].roal]]
      BY <2>2 DEF IInv, TypeOK, Settled, LastAnswerStands, ReloadsAreOfTheUser
    <2> QED BY <2>1, <2>2
  <1> QED BY <1>1, <1>2 DEF IInv, TypeOK, Settled, LastAnswerStands, ReloadsAreOfTheUser

LEMMA NextSettled ==
  ASSUME IInv, Settled, [Next]_vars
  PROVE  Settled'
  <1>1. ASSUME NEW w \in Worker, Arrive(w) PROVE Settled'
    <2>1. ASSUME NEW s \in Session, ReloadBegin(w, s) PROVE Settled'
      BY <2>1, BeginSettled DEF ReloadBegin
    <2>2. ASSUME NEW request, NEW label \in {"login", "modify", "insert"},
                 Begin(w, label, request)
          PROVE  Settled'
      BY <2>2, BeginSettled
    <2> QED BY <1>1, <2>1, <2>2 DEF Arrive, LoginBegin, ModifyBegin, RegisterOther, RegisterSelf
  <1>2. ASSUME NEW w \in Worker, LoginStore(w) PROVE Settled'
    <2>1. pc[w] = "login" /\ tx[w].session \in Session
      BY <1>2 DEF LoginStore, Return, Goto, IInv, LocalsMakeSense
    <2>2. \A v \in Worker : pc'[v] = "idle" \/ (pc'[v] = pc[v] /\ tx'[v] = tx[v])
      BY <1>2 DEF LoginStore, Return, Goto, IInv, TypeOK
    <2>3. /\ user'[tx[w].session].id = tx[w].id
          /\ \A t \in Session : t # tx[w].session => user'[t] = user[t]
      BY <1>2, <2>1 DEF LoginStore, IInv, TypeOK
    <2> QED BY <1>2, <2>1, <2>2, <2>3, AnswerSettled DEF LoginStore
  <1>3. ASSUME NEW s \in Session, user_logout(s) PROVE Settled'
    <2>1. /\ user'[s].id = Nobody
          /\ \A t \in Session : t # s => user'[t] = user[t]
      BY <1>3 DEF user_logout, IInv, TypeOK, NoCopy
    <2> QED BY <1>3, <2>1, AnswerSettled DEF user_logout
  <1>4. ASSUME NEW w \in Worker,
               ReloadStore(w) \/ ModifyUpdate(w) \/ RegisterInsert(w) \/ Fail(w)
        PROVE  Settled'
    <2>1. /\ Return(w, pc[w]) /\ UNCHANGED <<answered, calm>>
          /\ \/ UNCHANGED user
             \/ /\ pc[w] = "restore"
                /\ user' = [user EXCEPT ![tx[w].session]
                              = [id |-> tx[w].id, roal |-> tx[w].roal]]
      BY <1>4 DEF ReloadStore, ModifyUpdate, RegisterInsert, Fail, Return, Goto
    <2> QED BY <2>1, ReturnSettled
  <1>5. ASSUME NEW w \in Worker, ReloadRead(w) PROVE Settled'
    <2>1. /\ pc[w] = "read" /\ UNCHANGED <<user, answered, calm>>
          /\ pc' = [pc EXCEPT ![w] = "restore"]
          /\ tx' = [tx EXCEPT ![w].roal = auth_user[tx[w].id]]
      BY <1>5 DEF ReloadRead, Goto
    <2>2. tx'[w].id = tx[w].id /\ tx'[w].session = tx[w].session
      BY <2>1 DEF IInv, TypeOK, Request
    <2>3. ASSUME NEW v \in Worker, v # w PROVE pc'[v] = pc[v] /\ tx'[v] = tx[v]
      BY <2>1, <2>3 DEF IInv, TypeOK
    <2> QED BY <2>1, <2>2, <2>3 DEF Settled, LastAnswerStands, ReloadsAreOfTheUser
  <1>6. ASSUME Crash PROVE Settled'
    BY <1>6 DEF Crash, Settled, LastAnswerStands, ReloadsAreOfTheUser, NoCopy
  <1>7. CASE UNCHANGED vars
    BY <1>7 DEF vars, Settled, LastAnswerStands, ReloadsAreOfTheUser
  <1> QED BY <1>1, <1>2, <1>3, <1>4, <1>5, <1>6, <1>7 DEF Next, Step

\* A login or logout that no reload of its session met stands until the next, whatever
\* slow requests of other sessions or of the same one write back meanwhile.
THEOREM AnswersStand == Spec => []LastAnswerStands
  <1>1. IInv /\ Settled /\ [Next]_vars => Settled'
    BY NextSettled
  <1>2. Settled => LastAnswerStands
    BY DEF Settled
  <1> QED BY <1>1, <1>2, InitSettled, Invariance, PTL DEF Spec
=============================================================================
