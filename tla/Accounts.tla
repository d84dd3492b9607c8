------------------------------ MODULE Accounts ------------------------------
(***************************************************************************)
(* Accounts and the sessions they are logged into (WebApp/users.cpp,       *)
(* WebApp/permissions.cpp).  A session holds a copy of its user's row, and *)
(* permissions are those of the role in the copy.  Requests of a session   *)
(* share the object, which nothing locks; each may wait for the database   *)
(* between reading it and writing it.                                      *)
(*                                                                         *)
(* A row of auth_user is its role; names and passwords are left out, and   *)
(* so are requests that are refused without touching anything.             *)
(***************************************************************************)
CONSTANTS Worker,   \* the threads of the server
          Session,  \* the sessions of the session manager
          User,     \* the users there are or may be
          Founder,  \* those whom the database starts with: a roal for each
          Roal,     \* what roal a form may name, "" for none
          Nobody    \* not a user

ASSUME NobodyAssumption == Nobody \notin User \cup Session
ASSUME RoalAssumption == {"", "user"} \subseteq Roal
ASSUME FounderAssumption == DOMAIN Founder \subseteq User /\ Founder \in [DOMAIN Founder -> Roal]

VARIABLES auth_user,  \* the committed rows: the roal of each registered user
          user,       \* session["user"] of each session
          pc, tx,     \* of each worker, the next step of its handler and its locals
          answered,   \* history: whom the last login or logout of each session left there
          calm,       \* history: the sessions in which no reload was under way then
          held        \* history: the roals that each user has had

vars == <<auth_user, user, pc, tx, answered, calm, held>>

\* A user in a session.
Copy == [id : User, roal : Roal]
NoCopy == [id |-> Nobody, roal |-> ""]

Label == {"idle", "login", "read", "restore", "modify", "insert"}

\* The locals: the row the request is about; the session it writes to when it is a login or
\* a reload; and, as a history, whose permission it has when it needs one.
Request == [id : User, roal : Roal, session : Session \cup {Nobody}, by : User \cup {Nobody}]
NoRequest == [id |-> Nobody]

\* The global map m of permissions.cpp.  A roal that is not in it has no permission.
m == [user |-> {"add_comment"},
      manager |-> {"modify_announcement", "view_unreviewed", "modify_movie", "view_user",
                   "modify_user", "modify_room", "add_comment", "modify_comment"},
      admin |-> {"modify_announcement", "review_movie", "view_unreviewed", "modify_movie",
                 "view_user", "modify_user", "modify_room", "add_comment", "modify_comment"}]

check_permission(roal, permission) == roal \in DOMAIN m /\ permission \in m[roal]

TypeOK ==
  /\ DOMAIN auth_user \subseteq User
  /\ \A u \in DOMAIN auth_user : auth_user[u] \in Roal
  /\ user \in [Session -> Copy \cup {NoCopy}]
  /\ \A s \in Session : user[s] # NoCopy => user[s].id \in DOMAIN auth_user
  /\ pc \in [Worker -> Label]
  /\ tx \in [Worker -> Request \cup {NoRequest}]
  /\ \A w \in Worker : tx[w] = NoRequest <=> pc[w] = "idle"
  /\ answered \in [Session -> User \cup {Nobody}]
  /\ calm \subseteq Session
  /\ held \in [User -> SUBSET Roal]

-----------------------------------------------------------------------------
Init ==
  /\ auth_user = Founder
  /\ user = [s \in Session |-> NoCopy]
  /\ pc = [w \in Worker |-> "idle"]
  /\ tx = [w \in Worker |-> NoRequest]
  /\ answered = [s \in Session |-> Nobody]
  /\ calm = Session
  /\ held = [u \in User |-> IF u \in DOMAIN Founder THEN {Founder[u]} ELSE {}]

Goto(w, from, to) == pc[w] = from /\ pc' = [pc EXCEPT ![w] = to]

Begin(w, label, request) == /\ Goto(w, "idle", label)
                            /\ tx' = [tx EXCEPT ![w] = request]
                            /\ UNCHANGED <<auth_user, user, answered, calm, held>>

\* Faulty: the next request finds the locals of this one.
ReturnKeepsLocals(w, from) == Goto(w, from, "idle") /\ UNCHANGED tx

Return(w, from) == /\ Goto(w, from, "idle")
                   /\ tx' = [tx EXCEPT ![w] = NoRequest]

\* A login or a logout has left u in session s.
Reloading(s) == \E w \in Worker : pc[w] \in {"read", "restore"} /\ tx[w].session = s

Answer(s, u) == /\ answered' = [answered EXCEPT ![s] = u]
                /\ calm' = IF Reloading(s) THEN calm \ {s} ELSE calm \cup {s}

\* check_session_permission works on a copy of the session.
check_session_permission(s, permission) ==
  user[s] # NoCopy /\ check_permission(user[s].roal, permission)

-----------------------------------------------------------------------------
(* user_login and user_logout *)

\* The user's row is read, and the password is right.
LoginBegin(w, s, u) ==
  /\ u \in DOMAIN auth_user
  /\ Begin(w, "login", [id |-> u, roal |-> auth_user[u], session |-> s, by |-> Nobody])

LoginStore(w) ==
  /\ Return(w, "login")
  /\ user' = [user EXCEPT ![tx[w].session] = [id |-> tx[w].id, roal |-> tx[w].roal]]
  /\ Answer(tx[w].session, tx[w].id)
  /\ UNCHANGED <<auth_user, held>>

\* Faulty: the user is not erased.
LogoutKeeps(s) == /\ Answer(s, Nobody)
                  /\ UNCHANGED <<auth_user, user, pc, tx, held>>

user_logout(s) == /\ user' = [user EXCEPT ![s] = NoCopy]
                  /\ Answer(s, Nobody)
                  /\ UNCHANGED <<auth_user, pc, tx, held>>

-----------------------------------------------------------------------------
(* reload_user_info, at the end of buying, refunding and adding funds *)

\* It takes a reference to the user in the session, and the id from it.  That there is one
\* is asked in a statement before (users.cpp:175).  If a logout comes between the two, there
\* is a null in the user's place, the request ends with an exception, and nobody is logged
\* in, for which NoCopy stands as well: as if the request had not come.
ReloadBegin(w, s) ==
  /\ user[s] # NoCopy
  /\ Begin(w, "read", [id |-> user[s].id, roal |-> "", session |-> s, by |-> Nobody])

ReloadRead(w) == /\ Goto(w, "read", "restore")
                 /\ tx' = [tx EXCEPT ![w].roal = auth_user[tx[w].id]]
                 /\ UNCHANGED <<auth_user, user, answered, calm, held>>

\* It writes the row through the reference, which leads to the place in the session where
\* a user is kept, whoever that is by now.  If there is none any more the reference dangles:
\* the row is written all the same, or the program dies (Crash).
ReloadStore(w) ==
  /\ Return(w, "restore")
  /\ user' = [user EXCEPT ![tx[w].session] = [id |-> tx[w].id, roal |-> tx[w].roal]]
  /\ UNCHANGED <<auth_user, answered, calm, held>>

\* A write through a dangling reference, or of a session that another thread reads or writes
\* at that moment, may end the program; and it may be stopped at any time.  It is started
\* again; sessions and handlers are gone, what was committed is not.
Crash ==
  /\ user' = [s \in Session |-> NoCopy]
  /\ pc' = [w \in Worker |-> "idle"]
  /\ tx' = [w \in Worker |-> NoRequest]
  /\ answered' = [s \in Session |-> Nobody]
  /\ calm' = Session
  /\ UNCHANGED <<auth_user, held>>

-----------------------------------------------------------------------------
(* user_modify and user_register *)

\* Faulty: anybody who is logged in.
ModifyUnchecked(w, s, u, r) ==
  /\ user[s] # NoCopy
  /\ Begin(w, "modify", [id |-> u, roal |-> r, session |-> Nobody, by |-> user[s].id])

ModifyBegin(w, s, u, r) ==
  /\ check_session_permission(s, "modify_user")
  /\ Begin(w, "modify", [id |-> u, roal |-> r, session |-> Nobody, by |-> user[s].id])

\* Row u has roal r from now on.
Set(u, r) ==
  /\ auth_user' = [v \in DOMAIN auth_user \cup {u} |-> IF v = u THEN r ELSE auth_user[v]]
  /\ held' = [held EXCEPT ![u] = @ \cup {r}]

\* A user who does not exist is not modified, and an empty roal is no change.  Sessions that
\* hold a copy of the row keep it.
ModifyUpdate(w) ==
  /\ Return(w, "modify")
  /\ IF tx[w].id \in DOMAIN auth_user /\ tx[w].roal # ""
     THEN Set(tx[w].id, tx[w].roal)
     ELSE UNCHANGED <<auth_user, held>>
  /\ UNCHANGED <<user, answered, calm>>

\* Faulty: the form decides on the roal even of those who register themselves.
RegisterAs(w, u, r) ==
  /\ u \notin DOMAIN auth_user
  /\ Begin(w, "insert", [id |-> u, roal |-> r, session |-> Nobody, by |-> Nobody])

\* form_register: somebody registers, and is a user whatever the form says.
RegisterSelf(w, u, r) ==
  /\ u \notin DOMAIN auth_user
  /\ Begin(w, "insert", [id |-> u, roal |-> "user", session |-> Nobody, by |-> Nobody])

\* form_add_user: a manager registers somebody.
RegisterOther(w, s, u, r) ==
  /\ check_session_permission(s, "modify_user")
  /\ u \notin DOMAIN auth_user
  /\ Begin(w, "insert", [id |-> u, roal |-> r, session |-> Nobody, by |-> user[s].id])

\* Names are unique: of two registrations that both found the name free, one fails.
RegisterInsert(w) ==
  /\ Return(w, "insert")
  /\ IF tx[w].id \notin DOMAIN auth_user
     THEN Set(tx[w].id, tx[w].roal)
     ELSE UNCHANGED <<auth_user, held>>
  /\ UNCHANGED <<user, answered, calm>>

\* Any statement may throw.
Fail(w) == /\ pc[w] # "idle"
           /\ Return(w, pc[w])
           /\ UNCHANGED <<auth_user, user, answered, calm, held>>

-----------------------------------------------------------------------------
Arrive(w) ==
  \/ \E s \in Session : \/ ReloadBegin(w, s)
                        \/ \E u \in User : LoginBegin(w, s, u)
                        \/ \E u \in User, r \in Roal : \/ ModifyBegin(w, s, u, r)
                                                       \/ RegisterOther(w, s, u, r)
  \/ \E u \in User, r \in Roal : RegisterSelf(w, u, r)

Step(w) == \/ LoginStore(w) \/ ReloadRead(w) \/ ReloadStore(w)
           \/ ModifyUpdate(w) \/ RegisterInsert(w)

Next == \/ \E w \in Worker : Arrive(w) \/ Step(w) \/ Fail(w)
        \/ \E s \in Session : user_logout(s)
        \/ Crash

Spec == Init /\ [][Next]_vars

-----------------------------------------------------------------------------
\* Who was logged in stays so, and who was logged out too, until the next login or logout
\* of the session: unless a reload of the session was under way at the time, which may undo
\* it (users.cpp:186); the next login or logout puts that right.
LastAnswerStands == \A s \in calm : user[s].id = answered[s]

\* A roal other than user is given only by somebody who has had a roal that may, however
\* old the copy in the session from which the permission was read.
RoalsAreGiven ==
  [][\A u \in DOMAIN auth_user' :
       \/ u \in DOMAIN auth_user /\ auth_user'[u] = auth_user[u]
       \/ u \notin DOMAIN auth_user /\ auth_user'[u] = "user"
       \/ \E w \in Worker : /\ pc[w] \in {"modify", "insert"}
                            /\ tx[w].id = u
                            /\ tx[w].by # Nobody
                            /\ \E r \in held[tx[w].by] : check_permission(r, "modify_user")
    ]_vars
=============================================================================
