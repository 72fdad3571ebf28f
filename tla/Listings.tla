------------------------------- MODULE Listings -----------------------------
(***************************************************************************)
(* A client walks through the pages of a list: licenses, users or audit    *)
(* rows.  Every request reads the table anew, at most Cap rows in whatever *)
(* order the database returns them (the query has no ORDER BY), drops the  *)
(* rows the caller may not see, sorts if a column was named and cuts out   *)
(* one page with machine integers.  Rows come and go between the requests. *)
(***************************************************************************)
EXTENDS Integers, SequencesExt

CONSTANTS
    Rows,          \* the ids a row of the table can have
    Callers,       \* the users
    Owner,         \* [Rows -> Callers]
    Key,           \* what each column a list can be sorted by holds; "" is no column
    UniqueColumns, \* the columns no two rows agree in
    Cap,           \* the rows one read returns at most: 10000
    Sizes,         \* the page sizes asked for; 100 is the largest
    FarPages,      \* the pages asked for out of turn
    MaxChanges,    \* bound: how often the table changes during a walk
    Half           \* half the values of an int, 2^63: the first that is none

VARIABLES
    table,     \* the rows stored
    walk,      \* who walks, as an administrator or not, with which size and column
    page,      \* the page to ask for next
    pages,     \* the number of pages by the last answer
    got,       \* the rows of the pages answered so far
    changes,   \* how often the table has changed since the walk began
    far        \* the answer for the last page asked for out of turn

listVars == <<table, walk, page, pages, got, changes, far>>

Answers == [index : Int, status : {200, 500}, rows : Seq(Rows)]

TypeOK ==
    /\ table \subseteq Rows
    /\ walk \in [caller : Callers, admin : BOOLEAN, size : Sizes, column : DOMAIN Key]
    /\ page \in Nat /\ pages \in Nat
    /\ got \in Seq(Rows)
    /\ changes \in 0..MaxChanges
    /\ far \in Answers
-----------------------------------------------------------------------------
\* The value an int holds after an operation.
Int64(x) == ((x + Half) % (2 * Half)) - Half

\* What GenericRepository.GetAll(1, 10000) may return.
GetAll == {read \in SUBSET table :
              Cardinality(read) = (IF Cardinality(table) < Cap THEN Cardinality(table) ELSE Cap)}

Sees(row) == walk.admin \/ Owner[row] = walk.caller

Mutant_InOrder(column, list) == TRUE

\* sort.Slice is not stable: rows that agree in the column come in any order.
InOrder(column, list) ==
    column # "" => \A i, j \in DOMAIN list : i < j => Key[column][list[i]] <= Key[column][list[j]]

\* The lists that a request may cut its page out of: what is left of a read, in the
\* order of the read if no column was named, so in any.
Lists ==
    UNION {{list \in SetToSeqs({row \in read : Sees(row)}) : InOrder(walk.column, list)} :
              read \in GetAll}

\* A negative offset is a panic, which is answered with 500.
PageOf(list, index, size) ==
    LET offset == Int64((index - 1) * size)
        end    == Int64(offset + size)
    IN  IF offset >= Len(list) THEN [index |-> index, status |-> 200, rows |-> <<>>]
        ELSE IF offset < 0 THEN [index |-> index, status |-> 500, rows |-> <<>>]
        ELSE [index  |-> index,
              status |-> 200,
              rows   |-> SubSeq(list, offset + 1, IF end > Len(list) THEN Len(list) ELSE end)]

TotalPages(total, size) == (total + size - 1) \div size
-----------------------------------------------------------------------------
NoAnswer == [index |-> 0, status |-> 200, rows |-> <<>>]

Init ==
    /\ table \in SUBSET Rows
    /\ walk \in [caller : Callers, admin : BOOLEAN, size : Sizes, column : DOMAIN Key]
    /\ page = 1 /\ pages = 1
    /\ got = <<>>
    /\ changes = 0
    /\ far = NoAnswer

\* The pages of a walk, one request each.
FetchPage ==
    /\ page <= pages
    /\ \E list \in Lists :
          /\ got' = got \o PageOf(list, page, walk.size).rows
          /\ pages' = TotalPages(Len(list), walk.size)
    /\ page' = page + 1
    /\ far' = NoAnswer
    /\ UNCHANGED <<table, walk, changes>>

\* A page asked for by its number; no upper bound is set on it.
FetchFar(index) ==
    /\ \E list \in Lists : far' = PageOf(list, index, walk.size)
    /\ UNCHANGED <<table, walk, page, pages, got, changes>>

\* The requests of others.
Insert(row) ==
    /\ row \notin table /\ changes < MaxChanges
    /\ table' = table \cup {row}
    /\ changes' = changes + 1
    /\ far' = NoAnswer
    /\ UNCHANGED <<walk, page, pages, got>>

Delete(row) ==
    /\ row \in table /\ changes < MaxChanges
    /\ table' = table \ {row}
    /\ changes' = changes + 1
    /\ far' = NoAnswer
    /\ UNCHANGED <<walk, page, pages, got>>

Next ==
    \/ FetchPage
    \/ \E index \in FarPages : FetchFar(index)
    \/ \E row \in Rows : Insert(row) \/ Delete(row)

Spec == Init /\ [][Next]_listVars
-----------------------------------------------------------------------------
Visible == {row \in table : Sees(row)}

Fits == Cardinality(table) <= Cap

\* A walk over a table that fits one read, does not change and is sorted by a
\* column without ties shows every row the caller may see, and each once.
\* Without a column, or with ties, the database may order each read otherwise,
\* and a row is shown twice and another never.
WalkSeesEachOnce ==
    page > pages /\ changes = 0 /\ Fits /\ walk.column \in UniqueColumns =>
        /\ ToSet(got) = Visible
        /\ IsInjective(got)

\* Whatever the order: the pages before the last are full, and the number of
\* pages is neither one too many nor one too few.
PagesAddUp ==
    changes = 0 /\ Fits /\ page > 1 =>
        LET asked == (page - 1) * walk.size
            there == Cardinality(Visible)
        IN  /\ Len(got) = (IF asked < there THEN asked ELSE there)
            /\ page > pages => Len(got) = there

\* No page, in or out of turn and whatever changes between the requests, holds
\* the row of another, unless an administrator asks.
OnlyVisibleRows == \A row \in ToSet(got) \cup ToSet(far.rows) : Sees(row)

\* A page past the last one is empty, as long as its offset is an int; past that
\* the offset wraps around and the answer is a panic or the rows of another page.
FarPageIsEmpty ==
    /\ (far.index - 1) * walk.size < Half
    /\ (far.index - 1) * walk.size >= Cardinality(Visible)
    => far.status = 200 /\ far.rows = <<>>
=============================================================================
