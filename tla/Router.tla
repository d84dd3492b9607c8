------------------------------- MODULE Router -------------------------------
(***************************************************************************)
(* How a request gets to its handler (bserv/include/bserv/router.hpp and   *)
(* the table of paths in WebApp/WebApp.cpp): the first path that matches   *)
(* is taken, the parameters its handler declares are evaluated from the    *)
(* last to the first, each of which may end the request, and the handler   *)
(* is called, which runs a statement.  A path of a URL is the sequence of  *)
(* what lies between its slashes.                                          *)
(***************************************************************************)
EXTENDS Params, Statement

CONSTANTS Number,     \* what [0-9]+ matches
          Odd,        \* what [A-Za-z0-9_\.\-]+ does not
          Requests    \* [path, input, stmt]

\* Paths, bodies and patterns are texts; a parameter of a statement has a kind and a text.
ASSUME RequestsAssumption ==
  \A r \in Requests :
    /\ r.path \in Seq(STRING)
    /\ r.input = [type |-> r.input.type, body |-> r.input.body, query |-> r.input.query]
    /\ r.input.type \in {"form", "json", "other"}
    /\ r.input.body \in Seq(Char) /\ r.input.query \in Seq(Char)
    /\ r.stmt = [pattern |-> r.stmt.pattern, given |-> r.stmt.given]
    /\ r.stmt.pattern \in Seq(STRING)
    /\ r.stmt.given \in Seq([kind : STRING, text : Seq(STRING)])

VARIABLES path,       \* the path of the request
          next,       \* the index in paths_ of the range-for
          status,     \* "routing", "evaluating", "running", or the answer
          url_params,
          left,       \* how many parameters are to be evaluated
          got         \* what request_resources has: "session", "db"

routerVars == <<paramVars, statementVars, path, next, status, url_params, left, got>>

Route(pattern, handler, parameters) ==
  [pattern |-> pattern, handler |-> handler, parameters |-> parameters]

\* What lies between slashes where nothing does: the one piece of the path "/".
Nothing == ""

\* The lists of placeholders that many handlers share.
Form == <<"request", "response", "json", "db", "session">>
FormOn == Append(Form, "_1")
Api == <<"request", "json", "db", "session">>
ListPage == <<"db", "json", "session", "response", "_1">>
Page == <<"db", "session", "response", "_1">>
\* A string in the place of a placeholder is passed as it is.
First(parameters) == [parameters EXCEPT ![Len(parameters)] = "string"]

SiteAndUsers == <<
  Route(<<"statics", "<path>">>, "serve_static_files", <<"response", "_1">>),
  Route(<<Nothing>>, "view_movies", First(ListPage)),
  Route(<<"form_login">>, "form_login", Form),
  Route(<<"form_logout">>, "form_logout", <<"db", "json", "session", "response">>),
  Route(<<"users">>, "view_users", First(Page)),
  Route(<<"users", "<int>">>, "view_users", Page),
  Route(<<"form_add_user">>, "form_add_user", Form),
  Route(<<"form_register">>, "form_register", Form),
  Route(<<"form_modify_user", "<int>">>, "form_modify_user", FormOn)>>

MoviesAndTickets == <<
  Route(<<"movie_register">>, "movie_register", Api),
  Route(<<"findmovie", "<str>">>, "find_movie", <<"db", "session", "_1">>),
  Route(<<"movies">>, "view_movies", First(ListPage)),
  Route(<<"movies", "<int>">>, "view_movies", ListPage),
  Route(<<"form_add_movie">>, "form_add_movie", Form),
  Route(<<"form_modify_movie", "<int>">>, "form_modify_movie", FormOn),
  Route(<<"announcement_update">>, "form_modify_announcement", Form),
  Route(<<"add_balance">>, "form_add_funds", Form),
  Route(<<"buyticket", "<int>">>, "buy_ticket_page", FormOn),
  Route(<<"form_buy_ticket">>, "form_buy_ticket", Form),
  Route(<<"form_refund_ticket", "<int>">>, "form_refund_ticket", FormOn),
  Route(<<"managemovie", "<int>">>, "manage_movie_page", FormOn),
  Route(<<"form_add_screening", "<int>">>, "form_add_screening", FormOn),
  Route(<<"form_modify_screening", "<int>">>, "form_modify_screening", FormOn)>>

RoomsAndComments == <<
  Route(<<"room_register">>, "room_register", Api),
  Route(<<"findroom", "<str>">>, "find_room", <<"db", "session", "_1">>),
  Route(<<"screening_rooms">>, "view_rooms", First(Page)),
  Route(<<"screening_rooms", "<int>">>, "view_rooms", Page),
  Route(<<"form_add_room">>, "form_add_room", Form),
  Route(<<"form_modify_room", "<int>">>, "form_modify_room", FormOn),
  Route(<<"managecomments", "<int>">>, "view_comments", Page),
  Route(<<"form_add_comment", "<int>">>, "form_add_comment", FormOn),
  Route(<<"form_modify_comment", "<int>">>, "form_modify_comment", FormOn),
  Route(<<"form_review">>, "form_review", Form),
  Route(<<"mycenter">>, "view_mycenter", <<"db", "session", "response">>)>>

paths_ == SiteAndUsers \o MoviesAndTickets \o RoomsAndComments

\* The links and forms of the templates, but for the files under /statics: the one piece of
\* the path, and the handler that the link is meant for.
Links == {
  <<Nothing, "view_movies">>, <<"users", "view_users">>, <<"screening_rooms", "view_rooms">>,
  <<"mycenter", "view_mycenter">>, <<"form_login", "form_login">>,
  <<"form_logout", "form_logout">>, <<"form_register", "form_register">>,
  <<"form_add_user", "form_add_user">>, <<"add_balance", "form_add_funds">>,
  <<"announcement_update", "form_modify_announcement">>,
  <<"form_add_movie", "form_add_movie">>, <<"form_review", "form_review">>,
  <<"form_add_room", "form_add_room">>, <<"form_buy_ticket", "form_buy_ticket">>}

\* The same for those whose second piece is an id or a page.
NumberLinks == {
  <<"movies", "view_movies">>, <<"users", "view_users">>, <<"buyticket", "buy_ticket_page">>,
  <<"managecomments", "view_comments">>, <<"managemovie", "manage_movie_page">>,
  <<"form_modify_user", "form_modify_user">>, <<"form_modify_movie", "form_modify_movie">>,
  <<"form_modify_room", "form_modify_room">>,
  <<"form_add_screening", "form_add_screening">>,
  <<"form_modify_screening", "form_modify_screening">>,
  <<"form_refund_ticket", "form_refund_ticket">>, <<"form_add_comment", "form_add_comment">>,
  <<"form_modify_comment", "form_modify_comment">>}

\* Links to pages of the lists of movies and rooms, whose first piece no route has.
DeadLinks == {"moviess", "rooms", "roomss"}

-----------------------------------------------------------------------------
\* What the groups of url_regex_mapping take of a piece between slashes.
Accepts(marker, s) == CASE marker = "<int>" -> s \in Number
                        [] marker = "<str>" -> s \notin Odd \cup {Nothing}
                        [] OTHER -> s = marker

\* The whole path matches the pattern; "<path>", which ends one, takes the rest if that
\* is not empty.  (Faulty variant: part of the path may match, as with regex_search.)
MatchesPart(i, p) ==
  LET pattern == paths_[i].pattern IN
  /\ Len(p) >= Len(pattern)
  /\ \A m \in DOMAIN pattern : pattern[m] = "<path>" \/ Accepts(pattern[m], p[m])
Matches(i, p) ==
  LET pattern == paths_[i].pattern
      n == Len(pattern)
      open == pattern[n] = "<path>"
  IN /\ IF open THEN Len(p) >= n /\ SubSeq(p, n, Len(p)) # <<Nothing>> ELSE Len(p) = n
     /\ \A m \in DOMAIN p : IF open /\ m >= n THEN p[m] \notin Odd
                                              ELSE Accepts(pattern[m], p[m])

\* Where the submatches begin: the whole path, then the group, which in no pattern of the
\* table is anything but the last piece.  (Faulty variant: the group alone.)
GroupsOnly(i) == LET n == Len(paths_[i].pattern) IN
                 IF paths_[i].pattern[n] \in {"<int>", "<str>", "<path>"} THEN <<n>> ELSE <<>>
Submatches(i) == <<0>> \o GroupsOnly(i)

RouterInit == /\ \E r \in Requests : /\ path = r.path
                                     /\ ParamsInit({r.input}) /\ StatementInit({r.stmt})
              /\ next = 1 /\ status = "routing"
              /\ url_params = <<>> /\ left = 0 /\ got = {}

\* One round of the loop over the paths.  (Faulty variant: the last path is left out.)
InTableBut(i) == i < Len(paths_)
InTable(i) == i <= Len(paths_)

TryPath ==
  /\ status = "routing"
  /\ \/ /\ InTable(next) /\ Matches(next, path)
        /\ status' = "evaluating" /\ url_params' = Submatches(next)
        /\ left' = Len(paths_[next].parameters)
        /\ UNCHANGED next
     \/ /\ InTable(next) /\ ~Matches(next, path)
        /\ next' = next + 1
        /\ UNCHANGED <<status, url_params, left>>
     \/ /\ ~InTable(next)
        /\ status' = "404"
        /\ UNCHANGED <<next, url_params, left>>
  /\ UNCHANGED <<paramVars, statementVars, path, got>>

\* The parameter whose turn it is.  (Faulty variant: they are evaluated in their order.)
InOrder(params_) == params_[Len(params_) + 1 - left]
Turn(params_) == params_[left]

Evaluating(kinds) == /\ status = "evaluating" /\ left > 0
                     /\ Turn(paths_[next].parameters) \in kinds

Pass == /\ Evaluating({"request", "response", "string", "_1"})
        /\ left' = left - 1
        /\ UNCHANGED <<paramVars, statementVars, path, next, status, url_params, got>>

\* A malformed escape in any cookie makes the parser of cookies throw.
GetSession == /\ Evaluating({"session"})
              /\ \/ left' = left - 1 /\ got' = got \cup {"session"} /\ UNCHANGED status
                 \/ status' = "500" /\ got' = {} /\ UNCHANGED left
              /\ UNCHANGED <<paramVars, statementVars, path, next, url_params>>

GetConnection == /\ Evaluating({"db"})
                 /\ left' = left - 1 /\ got' = got \cup {"db"}
                 /\ UNCHANGED <<paramVars, statementVars, path, next, status, url_params>>

\* The parameters are read from the body and the URL, or cannot be.
JsonParams ==
  /\ Evaluating({"json"})
  /\ \/ ParamsNext /\ UNCHANGED <<left, status, got>>
     \/ at = "done" /\ left' = left - 1 /\ UNCHANGED <<paramVars, status, got>>
     \/ /\ at \in {"bad request", "server error"}
        /\ status' = IF at = "bad request" THEN "400" ELSE "500"
        /\ got' = {}
        /\ UNCHANGED <<paramVars, left>>
  /\ UNCHANGED <<statementVars, path, next, url_params>>

Invoke == /\ status = "evaluating" /\ left = 0
          /\ status' = "running"
          /\ UNCHANGED <<paramVars, statementVars, path, next, url_params, left, got>>

Run == /\ status = "running"
       /\ StatementNext
       /\ UNCHANGED <<paramVars, path, next, status, url_params, left, got>>

\* The handler returns or throws: url_not_found_exception if the request is not a POST,
\* before it runs a statement, and whatever the statement threw.
Return == /\ status = "running" /\ ran \in {"new", "nullopt", "object"} \cup Threw
          /\ status' \in (IF ran \in Threw THEN {"500"}
                          ELSE IF ran = "new" THEN {"200", "404", "500"} ELSE {"200", "500"})
          /\ got' = {}
          /\ UNCHANGED <<paramVars, statementVars, path, next, url_params, left>>

RouterNext == \/ TryPath \/ Pass \/ GetSession \/ GetConnection \/ JsonParams
              \/ Invoke \/ Run \/ Return

RouterSpec == RouterInit /\ [][RouterNext]_routerVars

-----------------------------------------------------------------------------
\* A request that was answered holds nothing any more.
RouterTypeOK ==
  /\ ParamsTypeOK /\ StatementTypeOK
  /\ next \in 1 .. Len(paths_) + 1
  /\ status \in {"routing", "evaluating", "running", "200", "400", "404", "500"}
  /\ url_params \in Seq(Nat)
  /\ left \in Nat /\ (left > 0 => next \in DOMAIN paths_ /\ left <= Len(paths_[next].parameters))
  /\ got \subseteq {"session", "db"} /\ (got # {} => status \in {"evaluating", "running"})

Routed == next \in DOMAIN paths_ /\ url_params # <<>>

\* No request matches two paths of the table: their order, which decides between them
\* (router.hpp:433-453), decides nothing.
OneRouteMatches ==
  status # "routing" => \A i \in DOMAIN paths_ : Matches(i, path) => i = next /\ Routed

\* url_params[1] is read, without a check (router.hpp:154), only for patterns with a group.
UrlParamsExist == Evaluating({"_1"}) => Len(url_params) > 1

\* A request has its session before its body is looked at, in every handler that wants
\* both: a body that cannot be parsed leaves a session behind whose cookie is not sent.
SessionBeforeBody ==
  Evaluating({"json"}) /\ (\E i \in DOMAIN paths_[next].parameters :
                             paths_[next].parameters[i] = "session")
    => "session" \in got

LeadsTo(handler) == Routed /\ paths_[next].handler = handler

\* A link or form of a page leads to the handler it is meant for; but the links to pages
\* before this one in the list of movies (index.html:122) and to any page of the list of
\* rooms (screening_rooms.html:46-74) lead nowhere, whatever the number: they get a 404.
LinksLandButDeadOnes ==
  status # "routing" =>
    /\ \A l \in Links : path = <<l[1]>> => LeadsTo(l[2])
    /\ \A n \in Number : /\ \A l \in NumberLinks : path = <<l[1], n>> => LeadsTo(l[2])
                        /\ \A d \in DeadLinks : path = <<d, n>> => status = "404"
=============================================================================
