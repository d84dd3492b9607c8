------------------------------ MODULE MCRouter ------------------------------
(***************************************************************************)
(* Requests for every path of up to two pieces that are words of the       *)
(* table or of the pages, a number, a name or something odd; one route     *)
(* with every short query and body; and one with every short statement.    *)
(***************************************************************************)
EXTENDS Router

MCLetter == {"a"}
MCJsonKeys == {{}, {<<"a">>}}

Words == UNION {{r.pattern[i] : i \in DOMAIN r.pattern} :
                  r \in {paths_[j] : j \in DOMAIN paths_}}
           \ {"<int>", "<str>", "<path>"}
Pieces == Words \cup DeadLinks \cup {"7", "name", "a b"}

Plain == [type |-> "other", body |-> <<>>, query |-> <<>>]

Texts(S, n) == UNION {[1 .. m -> S] : m \in 0 .. n}

\* The two texts together have at most n characters.
TwoTexts(S, n) == UNION {Texts(S, m) \X [1 .. n - m -> S] : m \in 0 .. n}

Inputs == {[type |-> "form", body |-> t[1], query |-> t[2]] :
             t \in TwoTexts(Char, 4) \cup TwoTexts({"a", "=", "&", " "}, 5)
                     \cup TwoTexts({"a", "=", "&"}, 6)}
          \cup {[type |-> k, body |-> <<"a">>, query |-> t] :
                  k \in {"json", "other"}, t \in Texts({"a", "=", "&"}, 4)}

Select == [pattern |-> <<"x">>, given |-> <<>>]

Parameters == {[kind |-> "string", text |-> <<"x">>], [kind |-> "string", text |-> <<"?", "?">>],
               [kind |-> "number", text |-> <<"7">>], [kind |-> "compound", text |-> <<>>]}

Request(p, i, s) == [path |-> p, input |-> i, stmt |-> s]

MCRequests ==
  {Request(p, Plain, Select) :
     p \in {<<a>> : a \in Pieces} \cup Pieces \X Pieces
             \cup {<<"statics", "css", a>> : a \in Pieces}}
  \cup {Request(<<"form_login">>, i, Select) : i \in Inputs}
  \cup {Request(<<"mycenter">>, Plain, [pattern |-> s, given |-> g]) :
          s \in Texts({"x", "?"}, 5), g \in Texts(Parameters, 3)}
=============================================================================
