--------------------------- MODULE SessionLookup ---------------------------
(***************************************************************************)
(* How browsers keep their sessions: the session of a request is found or  *)
(* made from its cookies (bserv/include/bserv/router.hpp:157-186), used by *)
(* the handler, and named in the Set-Cookie of the response, which an      *)
(* exception replaces by one without (bserv/bserv.cpp:75-103).  Calls of   *)
(* the session manager are atomic; whatever lies between them is not.      *)
(***************************************************************************)
EXTENDS SessionManager, Sequences, FiniteSets

CONSTANTS Browser, Request,   \* the requests that are sent, each once
          Foreign,            \* a cookie of the same name that another program set
          NoBrowser

ASSUME LookupAssumption == Foreign \in Key /\ NoBrowser \notin Browser

VARIABLES jar,     \* the cookie the browser has from this server
          req,     \* the requests: request_resources and response of each
          user,    \* session["user"] of every session object ever made
          issued,  \* keys that are or were in use: random ones are never among them
          guests,  \* history: the browsers that a session was given to
          member   \* history: browsers told that they are logged in, with no other
                   \* request of theirs under way to change their cookie

web == <<jar, req, user, issued, guests, member>>
lookupVars == <<vars, web>>

Unsent == [phase |-> "unsent", by |-> NoBrowser, cookies |-> <<>>, tried |-> 0,
           obj |-> 0, sets |-> NoKey, login |-> FALSE, alone |-> TRUE]
Done == [Unsent EXCEPT !.phase = "done"]

LookupInit == /\ Init
              /\ jar = [b \in Browser |-> NoKey]
              /\ req = [r \in Request |-> Unsent]
              /\ user = [o \in 1 .. MaxMade |-> NoBrowser]
              /\ guests = [o \in 1 .. MaxMade |-> {}]
              /\ issued = {Foreign}
              /\ member = [b \in Browser |-> FALSE]

Set(r, new) == req' = [req EXCEPT ![r] = new]

-----------------------------------------------------------------------------
\* Cookies travel in any order, and the foreign one only to some pages.
Cookies(b) == LET own == IF jar[b] = NoKey THEN <<>> ELSE <<jar[b]>>
              IN {own, own \o <<Foreign>>, <<Foreign>> \o own}

Send(r, b) ==
  /\ req[r].phase = "unsent"
  /\ \E cs \in Cookies(b), others \in {{s \in Request : req[s].by = b}} :
       req' = [s \in Request |->
                 IF s = r THEN [Unsent EXCEPT !.phase = "search", !.by = b, !.cookies = cs,
                                              !.alone = others = {}]
                 ELSE [req[s] EXCEPT !.alone = @ /\ s \notin others]]
  /\ UNCHANGED <<vars, jar, user, issued, guests, member>>

Welcome(r, o) == guests' = [guests EXCEPT ![o] = @ \cup {req[r].by}]

\* parse_params puts a cookie that occurs more than once into the list.
Listed(r) == Len(req[r].cookies) > 1

\* One round of the loop over the list.  (Faulty variant: the result of try_get is ignored.)
TryTakesAny(r) ==
  /\ req[r].phase = "search" /\ Listed(r) /\ req[r].tried < Len(req[r].cookies)
  /\ try_get(req[r].cookies[req[r].tried + 1])
  /\ Set(r, [req[r] EXCEPT !.phase = "handle", !.obj = answer'.obj])
  /\ UNCHANGED <<jar, user, issued, guests, member>>

Try(r) ==
  /\ req[r].phase = "search" /\ Listed(r) /\ req[r].tried < Len(req[r].cookies)
  /\ try_get(req[r].cookies[req[r].tried + 1])
  /\ \/ /\ answer'.obj # 0
        /\ Set(r, [req[r] EXCEPT !.phase = "handle", !.obj = answer'.obj])
        /\ Welcome(r, answer'.obj)
     \/ /\ answer'.obj = 0
        /\ Set(r, [req[r] EXCEPT !.tried = @ + 1])
        /\ UNCHANGED guests
  /\ UNCHANGED <<jar, user, issued, member>>

\* The search is over: there is one cookie, or none, or none of the list was found.
\* (Faulty variants: only the first of the list is tried; the list is not looked at.)
SearchedFirst(r) == Listed(r) => req[r].tried > 0
SearchedNone(r) == TRUE
Searched(r) == Listed(r) => req[r].tried = Len(req[r].cookies)

\* session_id when get_or_create is called.
SessionId(r) == IF Len(req[r].cookies) = 1 THEN req[r].cookies[1] ELSE NoKey

\* The keys a new session may get.  (Faulty variant: the one that the browser sent.)
RandomOrSent(r) == (Key \ issued) \cup ({SessionId(r)} \ {NoKey})
RandomKeys(r) == Key \ issued

Lookup(r) ==
  /\ req[r].phase = "search" /\ Searched(r)
  /\ get_or_create(SessionId(r))
  /\ answer'.fresh => answer'.key \in RandomKeys(r)
  /\ Set(r, [req[r] EXCEPT !.phase = "handle", !.obj = answer'.obj,
                           !.sets = IF answer'.fresh THEN answer'.key ELSE NoKey])
  /\ Welcome(r, answer'.obj)
  /\ issued' = issued \cup {answer'.key}
  /\ UNCHANGED <<jar, user, member>>

-----------------------------------------------------------------------------
\* The handler ends.  It may have logged the browser's user in or out.
Visit(r) == /\ req[r].phase = "handle"
            /\ Set(r, [req[r] EXCEPT !.phase = "answered"])
            /\ UNCHANGED <<user, member>>

Login(r) == /\ req[r].phase = "handle"
            /\ Set(r, [req[r] EXCEPT !.phase = "answered", !.login = TRUE])
            /\ user' = [user EXCEPT ![req[r].obj] = req[r].by]
            /\ UNCHANGED member

Logout(r) == /\ req[r].phase = "handle"
             /\ Set(r, [req[r] EXCEPT !.phase = "answered"])
             /\ user' = [user EXCEPT ![req[r].obj] = NoBrowser]
             /\ member' = [member EXCEPT ![req[r].by] = FALSE]

\* A parameter evaluated after the session, or the handler, throws, perhaps when the
\* login is already in the session: the response is a new one.
Throw(r) == /\ req[r].phase = "handle"
            /\ Set(r, [req[r] EXCEPT !.phase = "answered", !.sets = NoKey])
            /\ user' \in {user, [user EXCEPT ![req[r].obj] = req[r].by]}
            /\ UNCHANGED member

Handle(r) == /\ Visit(r) \/ Login(r) \/ Logout(r) \/ Throw(r)
             /\ UNCHANGED <<vars, jar, issued, guests>>

\* The browser takes the cookie.  It is logged in from now on if it was alone to log in,
\* and no longer if the cookie replaces that of a session that has ended.
Deliver(r) ==
  LET b == req[r].by IN
  /\ req[r].phase = "answered"
  /\ jar' = IF req[r].sets = NoKey THEN jar ELSE [jar EXCEPT ![b] = req[r].sets]
  /\ member' = [member EXCEPT ![b] = \/ req[r].login /\ req[r].alone
                                     \/ @ /\ (req[r].sets = NoKey \/ jar[b] \in Live)]
  /\ Set(r, Done)
  /\ UNCHANGED <<vars, user, issued, guests>>

\* The request does not arrive, or the response does not.
Lose(r) == /\ \/ req[r].phase = "search" /\ req[r].tried = 0
              \/ req[r].phase = "answered"
           /\ Set(r, Done)
           /\ UNCHANGED <<vars, jar, user, issued, guests, member>>

LookupNext == \/ Tick /\ UNCHANGED web
              \/ \E r \in Request : \/ \E b \in Browser : Send(r, b)
                                    \/ Try(r) \/ Lookup(r) \/ Handle(r)
                                    \/ Deliver(r) \/ Lose(r)

LookupSpec == LookupInit /\ [][LookupNext]_lookupVars

-----------------------------------------------------------------------------
\* A request that is handled has a session; what browsers and responses hold was issued.
LookupTypeOK ==
  /\ jar \in [Browser -> (issued \ {Foreign}) \cup {NoKey}]
  /\ issued \subseteq Key
  /\ user \in [1 .. MaxMade -> Browser \cup {NoBrowser}]
  /\ guests \in [1 .. MaxMade -> SUBSET Browser]
  /\ member \in [Browser -> BOOLEAN]
  /\ \A r \in Request :
       /\ req[r].phase \in {"unsent", "search", "handle", "answered", "done"}
       /\ (req[r].by \in Browser) = (req[r].phase \in {"search", "handle", "answered"})
       /\ req[r].obj \in (IF req[r].phase \in {"handle", "answered"} THEN 1 .. made ELSE {0})
       /\ req[r].sets \in (issued \ {Foreign}) \cup {NoKey}

\* A browser is given a new session only when none of its cookies leads to one, whatever
\* other cookies of that name it sends, in whatever order (router.hpp:168-183).
SessionsAreFound ==
  [][answer' # answer /\ answer'.fresh =>
       \A r \in Request : req[r].phase = "search" /\ req'[r].phase = "handle" =>
         \A i \in DOMAIN req[r].cookies : req[r].cookies[i] \notin Live]_lookupVars

\* No session is ever given to two browsers, although both send the foreign cookie, keep
\* the cookies of sessions that have ended, and may find the keys of such sessions gone
\* while others are being made.
NoSessionIsShared == \A o \in DOMAIN guests : Cardinality(guests[o]) <= 1

\* A browser that was told it is logged in, at a moment when no other request of it was
\* under way, stays logged in as long as its session lives: no later request moves it to
\* another session.  (With two first requests at once this does not hold: each gets a
\* session, and the cookie of the answer that comes last wins.)
LoginSticks ==
  \A b \in Browser : member[b] /\ jar[b] \in Live =>
                       user[sessions[str_to_int[jar[b]]]] = b
=============================================================================
