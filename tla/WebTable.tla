------------------------------ MODULE WebTable ------------------------------
(***************************************************************************)
(* The paging that the stores of the web interface share (peers.js,        *)
(* users.js, audit.js and profile.js have the same code): a table is the   *)
(* offset and the size of the page that is shown and the number of page    *)
(* links; n is FilteredCount, the number of rows that pass the filter.     *)
(***************************************************************************)
EXTENDS Integers

\* "click" is a ghost: the page size was changed and the click handler of
\* the selector has not run since (it does not for a change by keyboard).
freshTable(size) == [offset |-> 0, size |-> size, pages |-> 0, click |-> FALSE]

calculatePages(t, n) == [t EXCEPT !.pages = (n + t.size - 1) \div t.size]

\* A mutant: the offset stays.
OffsetStays(t, n) == calculatePages([t EXCEPT !.click = FALSE], n)

afterPageSizeChange(t, n) == calculatePages(freshTable(t.size), n)

\* The v-model of the page size selector.
setPageSize(t, size) == [t EXCEPT !.size = size, !.click = TRUE]

gotoPage(t, n, page) == calculatePages([t EXCEPT !.offset = (page - 1) * t.size], n)
nextPage(t, n) == calculatePages([t EXCEPT !.offset = @ + t.size], n)
previousPage(t, n) == calculatePages([t EXCEPT !.offset = @ - t.size], n)

\* The three kinds of links; a disabled link cannot be clicked.
hasNextPage(t, n) == t.offset < n - t.size
hasPrevPage(t) == t.offset # 0
currentPage(t) == (t.offset \div t.size) + 1

Larger(a, b) == IF a > b THEN a ELSE b

\* The links of the interface page: a window of the pages around the current.
visiblePages(current, total, width) ==
    LET start == Larger(1, current - (width \div 2))
        end == start + width - 1
    IN  IF total <= width THEN 1 .. total
        ELSE IF end > total THEN Larger(1, total - width + 1) .. total
        ELSE start .. end

\* The moves a user can make in a table with n rows; links are the page links.
Moves(t, n, links, sizes) ==
    {gotoPage(t, n, page) : page \in links}
    \cup {nextPage(t, n) : x \in {y \in {0} : hasNextPage(t, n)}}
    \cup {previousPage(t, n) : x \in {y \in {0} : hasPrevPage(t)}}
    \cup {setPageSize(t, size) : size \in sizes}
    \cup {afterPageSizeChange(t, n)}

Tables(sizes) == [offset : Int, size : sizes, pages : Nat, click : BOOLEAN]

\* The offset is the start of a page unless a change of the page size waits
\* for its click.
Aligned(t) == t.click \/ (t.offset >= 0 /\ t.offset % t.size = 0)
=============================================================================
