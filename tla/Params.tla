------------------------------- MODULE Params -------------------------------
(***************************************************************************)
(* The JSON parameters of a request (bserv/include/bserv/router.hpp:       *)
(* 200-258): what its body and its URL carry, in one object.  parse_params *)
(* (bserv/utils.cpp:155-214) reads text character by character; one step   *)
(* is one round of its loop.  An escape of three characters is one here,   *)
(* and "%" alone stands for one that std::stoi refuses.                    *)
(***************************************************************************)
EXTENDS Naturals, Sequences, FiniteSets

CONSTANTS Letter,    \* characters with no meaning of their own
          JsonKeys   \* the sets of keys that JSON bodies have

Blank == " "
Char == Letter \cup {"=", "&", Blank, "+", "%3D", "%"}

VARIABLES input,      \* content type and text of the body, and the query after "?"
          at,         \* which text is read, or how it ended
          pos,        \* i
          key, value,
          side,       \* the one of them that *a is
          dict, list, \* dict_params, list_params
          params      \* body, the result

loop == <<pos, key, value, side, dict, list>>
paramVars == <<input, at, loop, params>>

Empty == [k \in {} |-> <<>>]
With(f, k, v) == [j \in DOMAIN f \cup {k} |-> IF j = k THEN v ELSE f[j]]
Without(f, k) == [j \in DOMAIN f \ {k} |-> f[j]]

\* JSON values: a string, an array of strings, or whatever a JSON body had.
String(v) == [kind |-> "string", values |-> <<v>>]
Array(vs) == [kind |-> "array", values |-> vs]
Json == [kind |-> "json", values |-> <<>>]

Text == IF at = "body" THEN input.body ELSE input.query

\* The position the loop has reached, in the text with an "&" appended to it.
Here == IF pos <= Len(Text) THEN Text[pos] ELSE "&"
Current == IF side = "key" THEN key ELSE value

\* while (!s.empty() && s.back() == ' ') s.pop_back()
TrimBack(s) == SubSeq(s, 1, CHOOSE n \in 0 .. Len(s) :
                              /\ n = 0 \/ s[n] # Blank
                              /\ \A i \in n + 1 .. Len(s) : s[i] = Blank)

\* decode_url(), where it does not throw.
Decoded(s) == [i \in DOMAIN s |-> IF s[i] = "+" THEN Blank
                                  ELSE IF s[i] = "%3D" THEN "=" ELSE s[i]]
Malformed(s) == \E i \in DOMAIN s : s[i] = "%"

LoopStart == /\ pos' = 1 /\ key' = <<>> /\ value' = <<>> /\ side' = "key"
             /\ dict' = Empty /\ list' = Empty

Idle == /\ pos = 1 /\ key = <<>> /\ value = <<>> /\ side = "key"
        /\ dict = Empty /\ list = Empty

ParamsInit(requests) == input \in requests /\ at = "start" /\ Idle /\ params = Empty

-----------------------------------------------------------------------------
\* An empty body, or one of a type that is not known, is passed over.
Begin ==
  /\ at = "start"
  /\ \/ /\ input.type = "form" /\ input.body # <<>>
        /\ at' = "body" /\ UNCHANGED params
     \/ /\ input.type = "json" /\ input.body # <<>>
        /\ \/ at' = "bad request" /\ UNCHANGED params
           \/ at' = "query" /\ \E ks \in JsonKeys : params' = [k \in ks |-> Json]
     \/ /\ input.type = "other" \/ input.body = <<>>
        /\ at' = "query" /\ UNCHANGED params
  /\ UNCHANGED <<input, loop>>

Reading == at \in {"body", "query"} /\ pos <= Len(Text) + 1

Swap == /\ Reading /\ Here = "="
        /\ side' = IF side = "key" THEN "value" ELSE "key"
        /\ pos' = pos + 1
        /\ UNCHANGED <<input, at, key, value, dict, list, params>>

\* The value is put under its key: in dict_params, or in list_params from the second on.
\* (Faulty variant: the first value gets lost.)
StoreLosesFirst(k, v) ==
  IF k \in DOMAIN dict THEN list' = With(list, k, <<v>>) /\ dict' = Without(dict, k)
  ELSE dict' = With(dict, k, v) /\ UNCHANGED list
Store(k, v) ==
  \/ k \in DOMAIN list /\ list' = [list EXCEPT ![k] = Append(@, v)] /\ UNCHANGED dict
  \/ /\ k \in DOMAIN dict \ DOMAIN list
     /\ list' = With(list, k, <<dict[k], v>>) /\ dict' = Without(dict, k)
  \/ k \notin DOMAIN list \cup DOMAIN dict /\ dict' = With(dict, k, v) /\ UNCHANGED list

\* A delimiter ends a pair, unless nothing but blanks was read.
EndPair ==
  LET k == TrimBack(key)
      v == TrimBack(value)
  IN /\ Reading /\ Here = "&"
     /\ \/ /\ Malformed(k) \/ Malformed(v)
           /\ at' = "server error" /\ UNCHANGED loop
        \/ /\ ~Malformed(k) /\ ~Malformed(v)
           /\ IF k = <<>> /\ v = <<>> THEN UNCHANGED <<dict, list>>
                                      ELSE Store(Decoded(k), Decoded(v))
           /\ key' = <<>> /\ value' = <<>> /\ side' = "key" /\ pos' = pos + 1
           /\ UNCHANGED at
     /\ UNCHANGED <<input, params>>

Skip == /\ Reading /\ Here = Blank /\ Current = <<>>
        /\ pos' = pos + 1
        /\ UNCHANGED <<input, at, key, value, side, dict, list, params>>

Add == /\ Reading /\ Here \notin {"=", "&"} /\ (Here = Blank => Current # <<>>)
       /\ key' = IF side = "key" THEN Append(key, Here) ELSE key
       /\ value' = IF side = "value" THEN Append(value, Here) ELSE value
       /\ pos' = pos + 1
       /\ UNCHANGED <<input, at, side, dict, list, params>>

\* add_to_body(): what is there already stays.  (Faulty variant: it is replaced.)
Parsed(k) == IF k \in DOMAIN dict THEN String(dict[k]) ELSE Array(list[k])
add_to_body_replacing ==
  params' = [k \in DOMAIN params \cup DOMAIN dict \cup DOMAIN list |->
               IF k \in DOMAIN dict \cup DOMAIN list THEN Parsed(k) ELSE params[k]]
add_to_body ==
  params' = [k \in DOMAIN params \cup DOMAIN dict \cup DOMAIN list |->
               IF k \in DOMAIN params THEN params[k] ELSE Parsed(k)]

\* The text is read: the body is followed by the URL.  parse_url finds no "?" in a URL
\* without a query, and no pair in an empty one.
Merge == /\ at \in {"body", "query"} /\ pos = Len(Text) + 2
         /\ add_to_body
         /\ at' = IF at = "body" THEN "query" ELSE "done"
         /\ LoopStart
         /\ UNCHANGED input

ParamsNext == Begin \/ Swap \/ EndPair \/ Skip \/ Add \/ Merge

-----------------------------------------------------------------------------
\* The types of the loop: a key is in list_params only with two values or more.
ParamsTypeOK ==
  /\ at \in {"start", "body", "query", "done", "bad request", "server error"}
  /\ pos \in Nat /\ (at \in {"body", "query"} => pos \in 1 .. Len(Text) + 2)
  /\ key \in Seq(Char) /\ value \in Seq(Char) /\ side \in {"key", "value"}
  /\ \A k \in DOMAIN dict : k \in Seq(Char) /\ dict[k] \in Seq(Char)
  /\ \A k \in DOMAIN list : k \in Seq(Char) /\ list[k] \in Seq(Seq(Char)) /\ Len(list[k]) >= 2
  /\ \A k \in DOMAIN params : params[k].kind \in {"string", "array", "json"}

-----------------------------------------------------------------------------
\* The same, said without the loop.  The elements of s at the positions in I, in their order:
Picked(s, I) ==
  [n \in 1 .. Cardinality(I) |-> s[CHOOSE i \in I : Cardinality({j \in I : j <= i}) = n]]

\* A pair starts at the head of t and behind each "&", and ends before the next.
Starts(t) == {s \in 1 .. Len(t) + 1 : s = 1 \/ t[s - 1] = "&"}
Span(t, s) == {i \in s .. Len(t) : \A j \in s .. i : t[j] # "&"}

\* Its key is what stands behind an even number of "=", its value the rest, both without the
\* blanks around them.  A pair with neither declares nothing.
Side(t, s, i) == IF Cardinality({j \in s .. i - 1 : t[j] = "="}) % 2 = 0 THEN "key" ELSE "value"
Part(t, s, d) == {i \in Span(t, s) : t[i] # "=" /\ Side(t, s, i) = d}
Inner(t, I) == {i \in I : \E j, k \in I : j <= i /\ i <= k /\ t[j] # Blank /\ t[k] # Blank}
Declared(t, s, d) == Decoded(Picked(t, Inner(t, Part(t, s, d))))
Pairs(t) == {s \in Starts(t) : \E i \in Span(t, s) : t[i] \notin {"=", Blank}}

Named(t, k) == {s \in Pairs(t) : Declared(t, s, "key") = k}
Values(t, k) == Picked([s \in Starts(t) |-> Declared(t, s, "value")], Named(t, k))
Given(t) == [k \in {Declared(t, s, "key") : s \in Pairs(t)} |->
               IF Len(Values(t, k)) = 1 THEN String(Values(t, k)[1]) ELSE Array(Values(t, k))]

Over(f, g) == [k \in DOMAIN f \cup DOMAIN g |-> IF k \in DOMAIN f THEN f[k] ELSE g[k]]

\* Every parameter that the body or the URL names arrives, decoded and without the blanks
\* around it, as a string if it was named once and as the array of its values in their
\* order if more often; the body's prevail over the URL's; and the request fails just if
\* an escape in them is malformed (or its JSON is).
ParamsAsDeclared ==
  LET read == IF input.type = "form" THEN input.body ELSE <<>> IN
  /\ at = "done" =>
       IF input.type = "json" /\ input.body # <<>>
       THEN \E ks \in JsonKeys : params = Over([k \in ks |-> Json], Given(input.query))
       ELSE params = Over(Given(read), Given(input.query))
  /\ at = "done" => ~Malformed(read \o input.query)
  /\ at = "server error" => Malformed(read \o input.query)
=============================================================================
