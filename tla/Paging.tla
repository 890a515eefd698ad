--------------------------------- MODULE Paging ---------------------------------
(***************************************************************************)
(* Lists are read a page at a time, with one row more than the page holds  *)
(* to see whether there is another.  Exports are capped.                   *)
(***************************************************************************)
EXTENDS Integers, Sequences, SequencesExt

Max2(a, b) == IF a > b THEN a ELSE b

Min2(a, b) == IF a < b THEN a ELSE b

\* Rows sorted by their keys, tuples of numbers compared from the left.
Earlier(a, b) == \E k \in DOMAIN a : a[k] < b[k] /\ \A j \in 1 .. k - 1 : a[j] = b[j]

InOrder(key) ==
    LET rows == DOMAIN key IN
    [n \in 1 .. Cardinality(rows) |->
        CHOOSE x \in rows : Cardinality({ y \in rows : Earlier(key[y], key[x]) }) = n - 1]

\* When the members of a set were created: one after the other.
Instant(x, set) == LET order == SetToSeq(set) IN CHOOSE k \in DOMAIN order : order[k] = x

FirstRows(rows, limit) == SubSeq(rows, 1, Min2(limit, Len(rows)))

FromWindow(rows, page, size) ==
    LET fetched == SubSeq(rows, (page - 1) * size + 1, Min2(page * size + 1, Len(rows))) IN
    [items |-> FirstRows(fetched, size), more |-> Len(fetched) > size]

TotalPages(count, size) == Max2(1, (count + size - 1) \div size)

\* Turning pages while there is another shows every row once.
PagedWhole(Page(_), rows, count, size) ==
    /\ FlattenSeq([p \in 1 .. TotalPages(count, size) |-> Page(p).items]) = rows
    /\ \A p \in 1 .. TotalPages(count, size) : Page(p).more <=> p < TotalPages(count, size)

\* One row more than allowed was asked for: is there more than is shown?
Truncated(rows, limit) ==
    [items |-> FirstRows(rows, limit), truncated |-> Len(rows) > limit]

\* An export of the reports streams every row, or is refused at the first row too many.
Exported(rows, maxRows) ==
    IF Len(rows) > maxRows THEN [refused |-> TRUE, rows |-> <<>>]
    ELSE [refused |-> FALSE, rows |-> rows]
===============================================================================
