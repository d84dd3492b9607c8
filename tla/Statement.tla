----------------------------- MODULE Statement -----------------------------
(***************************************************************************)
(* One statement of a handler: db_transaction::exec() puts the parameters  *)
(* into the pattern (bserv/include/bserv/database.hpp:222-306, 450-474),   *)
(* PostgreSQL answers, and convert_to_optional() takes what is meant to be *)
(* one row (414-426).  One step is one round of the loop over the pattern. *)
(***************************************************************************)
EXTENDS Naturals, Sequences, SequencesExt

VARIABLES stmt,         \* the statement: its pattern, and the parameters given, of
                        \* which each has a kind and a text
          ran,          \* how far it is, or how it ended
          param_vec, idx, query,
          place         \* i

statementVars == <<stmt, ran, param_vec, idx, query, place>>

StatementInit(statements) == /\ stmt \in statements /\ ran = "new"
                             /\ param_vec = <<>> /\ idx = 1 /\ query = <<>> /\ place = 1

Quote == "'"

\* db_value::get_value() of a string is quoted by libpqxx, of a number or null is its text.
get_value(p) == IF p.kind = "string" THEN <<Quote>> \o p.text \o <<Quote>> ELSE p.text

\* copy_json_value() refuses an array or an object.
Supported(p) == p.kind # "compound"

convert_parameters ==
  /\ ran = "new"
  /\ IF \E i \in DOMAIN stmt.given : ~Supported(stmt.given[i])
     THEN ran' = "unsupported json value type" /\ UNCHANGED param_vec
     ELSE /\ ran' = "scanning"
          /\ param_vec' = [i \in DOMAIN stmt.given |-> get_value(stmt.given[i])]
  /\ UNCHANGED <<stmt, idx, query, place>>

Scanning == ran = "scanning" /\ place <= Len(stmt.pattern)

\* s[i] is a question mark, and so is s[i + 1].  (Faulty variant: the one before it.)
MarkAt(i) == i \in DOMAIN stmt.pattern /\ stmt.pattern[i] = "?"
DoubledBefore(i) == MarkAt(i) /\ MarkAt(i - 1)
Doubled(i) == MarkAt(i) /\ MarkAt(i + 1)

Literal == /\ Scanning /\ (MarkAt(place) => Doubled(place))
           /\ query' = Append(query, stmt.pattern[place])
           /\ place' = place + (IF Doubled(place) THEN 2 ELSE 1)
           /\ UNCHANGED <<stmt, ran, param_vec, idx>>

Substitute == /\ Scanning /\ MarkAt(place) /\ ~Doubled(place)
              /\ IF idx <= Len(param_vec)
                 THEN /\ query' = query \o param_vec[idx]
                      /\ idx' = idx + 1 /\ place' = place + 1
                      /\ UNCHANGED ran
                 ELSE ran' = "too few parameters" /\ UNCHANGED <<query, idx, place>>
              /\ UNCHANGED <<stmt, param_vec>>

\* The query is sent if no parameter is left.  (Faulty variant: that is not tested.)
AllUsedUnchecked == TRUE
AllUsed == idx = Len(param_vec) + 1

Finish == /\ ran = "scanning" /\ place > Len(stmt.pattern)
          /\ ran' = IF AllUsed THEN "sent" ELSE "too many parameters"
          /\ UNCHANGED <<stmt, param_vec, idx, query, place>>

\* PostgreSQL answers with an error, or with no row, one, or more of them.
convert_to_optional == /\ ran = "sent"
                       /\ ran' \in {"sql error", "nullopt", "object", "too many objects"}
                       /\ UNCHANGED <<stmt, param_vec, idx, query, place>>

StatementNext == convert_parameters \/ Literal \/ Substitute \/ Finish \/ convert_to_optional

\* The ways exec() and convert_to_optional() throw.
Threw == {"unsupported json value type", "too few parameters", "too many parameters",
          "sql error", "too many objects"}

-----------------------------------------------------------------------------
StatementTypeOK ==
  /\ ran \in {"new", "scanning", "sent", "nullopt", "object"} \cup Threw
  /\ idx \in 1 .. Len(param_vec) + 1
  /\ place \in 1 .. Len(stmt.pattern) + 1

\* How many question marks stand in a row before place i.
Before(i) == CHOOSE n \in 0 .. i - 1 : /\ \A j \in i - n .. i - 1 : MarkAt(j)
                                       /\ ~MarkAt(i - n - 1)

\* The marks that stand for a parameter: the last of an odd number in a row.
IsPlaceholder(i) == MarkAt(i) /\ ~MarkAt(i + 1) /\ Before(i) % 2 = 0
Rank(i) == Cardinality({j \in 1 .. i : IsPlaceholder(j)})
Placeholders == Rank(Len(stmt.pattern))

\* What a place becomes: nothing, if it is the second mark of a pair.
Piece(i) == IF IsPlaceholder(i) THEN get_value(stmt.given[Rank(i)])
            ELSE IF MarkAt(i) /\ Before(i) % 2 = 1 THEN <<>> ELSE <<stmt.pattern[i]>>

\* The query that is sent has the parameters in the places of the single marks, in their
\* order and untouched, question marks in them included, and one mark for every two of the
\* pattern; and nothing is sent unless there are as many places as parameters
\* (database.hpp:439-449).
QueryIsMeant ==
  /\ ran = "too few parameters" => Placeholders > Len(stmt.given)
  /\ ran = "too many parameters" => Placeholders < Len(stmt.given)
  /\ ran \in {"sent", "nullopt", "object", "sql error", "too many objects"} =>
    /\ Placeholders = Len(stmt.given)
    /\ query = FlattenSeq([i \in DOMAIN stmt.pattern |-> Piece(i)])
=============================================================================
