----------------------------- MODULE Pagination -----------------------------
(***************************************************************************)
(* The pages of the lists of movies, users and screening rooms             *)
(* (redirect_to_movies, redirect_to_users, redirect_to_rooms), which hold  *)
(* ten rows each, and the links that a page has to others.  There is no    *)
(* state: TLC evaluates the properties, and Catalog_proofs proves them. *)
(***************************************************************************)
EXTENDS Integers

CONSTANT MaxPages  \* bound on the pages for which the properties are checked

ASSUME MaxPagesAssumption == MaxPages \in Nat

TotalPages(total) == total \div 10 + (IF total % 10 # 0 THEN 1 ELSE 0)

\* The rows that "limit 10 offset (page - 1) * 10" returns of total rows, by position.
RowsOf(page, total) == {i \in 1 .. total : (page - 1) * 10 < i /\ i <= page * 10}

\* The pages before and after this one that are listed.  An ellipsis comes with a link to the
\* first or the last page (templates/index.html:117-131).
Window(page, total_pages) ==
  LET left == page - 3 > 2
      right == page + 3 < total_pages - 1
  IN [left_ellipsis |-> left, right_ellipsis |-> right,
      pages_left |-> (IF left THEN page - 3 ELSE 1) .. page - 1,
      pages_right |-> page + 1 .. (IF right THEN page + 3 ELSE total_pages)]

Linked(page, total_pages) ==
  LET w == Window(page, total_pages)
  IN w.pages_left \cup w.pages_right \cup {page}
       \cup (IF w.left_ellipsis THEN {1} ELSE {})
       \cup (IF w.right_ellipsis THEN {total_pages} ELSE {})

-----------------------------------------------------------------------------
\* Every row is on exactly one of the pages that are counted, and none of them is empty.
PagesCoverRows ==
  \A total \in 0 .. 10 * MaxPages :
    LET pages == 1 .. TotalPages(total)
    IN /\ \A i \in 1 .. total : \E p \in pages : i \in RowsOf(p, total)
       /\ \A p \in pages : RowsOf(p, total) # {}
       /\ \A p, q \in pages : p # q => RowsOf(p, total) \cap RowsOf(q, total) = {}

\* On a page of the list, the links lead to pages that there are, the nearest three on either
\* side among them; an ellipsis stands exactly where pages are left out, and the page at its
\* other end is not listed twice.
WindowIsRight ==
  \A total \in 1 .. MaxPages : \A page \in 1 .. total :
    LET w == Window(page, total)
        out == (1 .. total) \ Linked(page, total)
    IN /\ Linked(page, total) \subseteq 1 .. total
       /\ \A p \in 1 .. total : page - 3 <= p /\ p <= page + 3 => p \in Linked(page, total)
       /\ w.left_ellipsis <=> \E p \in out : p < page
       /\ w.right_ellipsis <=> \E p \in out : p > page
       /\ w.left_ellipsis => 1 \notin w.pages_left
       /\ w.right_ellipsis => total \notin w.pages_right
=============================================================================
