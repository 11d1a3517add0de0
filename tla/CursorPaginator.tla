-------------------------- MODULE CursorPaginator --------------------------
(***************************************************************************)
(* utils/cursor_pagination.py: a client walks through a list page by page, *)
(* forwards (first, after) or backwards (last, before), while others       *)
(* insert, change and delete rows of the table.  Each request makes two    *)
(* queries, a count and the page itself, and either sees the table as it   *)
(* is at that moment.                                                      *)
(*                                                                         *)
(* A row is what its sorting columns hold.  Columns are numbers and NULL   *)
(* is a number below them all, which is where MariaDB sorts it; what NULL  *)
(* means in a comparison is spelt out in ColumnCondition.  A cursor is the *)
(* sorting columns of a row: to_cursor and from_cursor keep nothing else   *)
(* of it, and keep those exactly.                                          *)
(***************************************************************************)
EXTENDS Integers, FiniteSets

CONSTANTS
    Rows,           \* the names rows can have
    Width,          \* the number of sorting_fields
    Contents,       \* for each row, what its sorting columns can hold
    PageSize,       \* the client's first or last
    NoCursor

Null == -1
Columns == 1 .. Width

ASSUME RowsAssumption == IsFiniteSet(Rows)
ASSUME WidthAssumption == Width \in Nat \ {0}
ASSUME ContentsAssumption ==
    Contents \in [Rows -> SUBSET [Columns -> Nat \cup {Null}]]
ASSUME PageSizeAssumption == PageSize \in Nat \ {0}

Keys == UNION {Contents[r] : r \in Rows}

ASSUME NoCursorAssumption == NoCursor \notin Keys

VARIABLES
    table,          \* the rows that exist, with their sorting columns
    sortDir,        \* sortBy.direction
    backwards,      \* whether the client pages with last and before
    cursor,         \* the cursor it goes on from
    stage,          \* "ready" for a request, "counted" within one, "done"
    total,          \* totalCount of the request
    served,         \* history: how many pages each row has been on, up to 2
    touched         \* history: the rows others have inserted, changed or
                    \* deleted since the walk began

vars == <<table, sortDir, backwards, cursor, stage, total, served, touched>>

Existing == DOMAIN table

(* The rows that are there and have been, unchanged, all along.            *)
steady == Existing \ touched

-----------------------------------------------------------------------------
(* The order the sorting columns make, and what a page should go on with.  *)
LexLess(u, v) ==
    \E i \in Columns : u[i] < v[i] /\ \A j \in 1 .. i - 1 : u[j] = v[j]
Follows(dir, u, v) == IF dir = "asc" THEN LexLess(v, u) ELSE LexLess(u, v)

(* The arguments of the request; 0 and NoCursor stand for null.            *)
Args == [first  |-> IF backwards THEN 0 ELSE PageSize,
         last   |-> IF backwards THEN PageSize ELSE 0,
         after  |-> IF backwards THEN NoCursor ELSE cursor,
         before |-> IF backwards THEN cursor ELSE NoCursor]

(* validate_connection_args raises nothing.                                *)
ValidArgs(args) ==
    /\ args.first # 0 \/ args.last # 0
    /\ ~(args.first # 0 /\ args.last # 0)
    /\ args.first # 0 => args.before = NoCursor
    /\ args.last # 0 => args.after = NoCursor

(* "To get LAST, we swap the sort order".                                  *)
FetchDir(args) ==
    IF args.last = 0 THEN sortDir ELSE IF sortDir = "asc" THEN "desc" ELSE "asc"

(* Mutant of Operator: the direction of the sort is forgotten.             *)
OperatorByPaging(args) == IF args.after # NoCursor THEN ">" ELSE "<"

(* get_cursor_filter: the operator by the original direction.              *)
Operator(args) ==
    IF args.after # NoCursor THEN (IF sortDir = "asc" THEN ">" ELSE "<")
                             ELSE (IF sortDir = "asc" THEN "<" ELSE ">")

(* Mutant of ColumnCondition: the cursor's own row is let through.         *)
ColumnConditionInclusive(op, x, value, includeEquals) ==
    IF op = ">" THEN x # Null /\ (includeEquals \in BOOLEAN /\ x >= value)
    ELSE x = Null \/ (value # Null /\ x <= value)

(* _get_cursor_column_condition on the column x of a row: a comparison     *)
(* with NULL is no match.                                                  *)
ColumnCondition(op, x, value, includeEquals) ==
    IF op = ">" THEN x # Null /\ (x > value \/ (includeEquals /\ x = value))
    ELSE \/ x = Null
         \/ value # Null /\ (x < value \/ (includeEquals /\ x = value))

(* Mutant of NoCondition: as if a NULL had no columns after it.            *)
NoConditionAtNull(op, values, i) == op = ">" /\ values[i] = Null

(* _get_cursor_condition returns "" for the columns from i on.             *)
NoCondition(op, values, i) == op = ">" /\ \A j \in i .. Width : values[j] = Null

(* _get_cursor_condition for the columns from i on; nextCondition is what  *)
(* it returns for those after i.                                           *)
ConditionFrom(op, values, row, i, nextCondition) ==
    LET column(includeEquals) == ColumnCondition(op, row[i], values[i], includeEquals)
        next == i < Width /\ ~NoCondition(op, values, i + 1)
    IN  \/ NoCondition(op, values, i)
        \/ /\ op = ">" /\ values[i] = Null /\ next
           /\ row[i] # Null \/ nextCondition
        \/ /\ ~(op = ">" /\ values[i] = Null)
           /\ column(i < Width)
           /\ next => (values[i] # Null /\ column(FALSE)) \/ nextCondition

(* All of it, from the last column to the first.                           *)
CursorCondition(op, values, row) ==
    LET condition[i \in Columns] == ConditionFrom(op, values, row, i, condition[i + 1])
    IN  condition[1]

(* The rows the data query can return, before its limit.                   *)
Matching(args) ==
    {r \in Existing :
        cursor = NoCursor \/ CursorCondition(Operator(args), cursor, table[r])}

(* ORDER BY and LIMIT: as many rows as fit, none of the others before one  *)
(* of them.  Rows that agree on all sorting columns come in any order.     *)
Pages(args) ==
    LET matching == Matching(args)
        limit == args.first + args.last
    IN  {page \in SUBSET matching :
            /\ Cardinality(page) = (IF Cardinality(matching) > limit THEN limit
                                    ELSE Cardinality(matching))
            /\ \A r \in page, q \in matching \ page :
                  ~Follows(FetchDir(args), table[r], table[q])}

(* The cursor of the row fetched last: endCursor, or startCursor of a page *)
(* that was reversed.                                                      *)
LastOf(args, page) ==
    CHOOSE key \in {table[r] : r \in page} :
        \A r \in page : ~Follows(FetchDir(args), table[r], key)

-----------------------------------------------------------------------------
(* No two rows ever agree on all sorting columns: those that do are not    *)
(* told apart by a cursor (the last column is compared strictly).          *)
Tables == {t \in UNION {[S -> Keys] : S \in SUBSET Rows} :
              /\ \A r \in DOMAIN t : t[r] \in Contents[r]
              /\ \A r, q \in DOMAIN t : t[r] = t[q] => r = q}

Init ==
    /\ table \in Tables
    /\ sortDir \in {"asc", "desc"}
    /\ backwards \in BOOLEAN
    /\ cursor = NoCursor
    /\ stage = "ready"
    /\ total = 0
    /\ served = [r \in Rows |-> 0]
    /\ touched = {}

(* Mutant of Count: the cursor filter is there already.                    *)
CountAfterCursor ==
    /\ stage = "ready"
    /\ ValidArgs(Args)
    /\ total' = Cardinality(Matching(Args))
    /\ stage' = "counted"
    /\ UNCHANGED <<table, sortDir, backwards, cursor, served, touched>>

(* resolve up to get_count; the cursor filter is not there yet.            *)
Count ==
    /\ stage = "ready"
    /\ ValidArgs(Args)
    /\ total' = Cardinality(Existing)
    /\ stage' = "counted"
    /\ UNCHANGED <<table, sortDir, backwards, cursor, served, touched>>

(* Mutant of PageInfo: the flags are not flipped.                          *)
PageInfoUnflipped(args) ==
    [hasNextPage |-> Cardinality(Matching(args)) > args.first + args.last,
     hasPreviousPage |-> cursor # NoCursor]

(* The flags of pageInfo: one row more than asked for tells that there is  *)
(* another page, a cursor that there was one, and they change places when  *)
(* the sort order was swapped.                                             *)
PageInfo(args) ==
    LET more == Cardinality(Matching(args)) > args.first + args.last
        past == cursor # NoCursor
    IN  IF FetchDir(args) = sortDir THEN [hasNextPage |-> more, hasPreviousPage |-> past]
                                    ELSE [hasNextPage |-> past, hasPreviousPage |-> more]

(* The client goes on while there is a page in its direction.              *)
GoesOn(args) ==
    IF backwards THEN PageInfo(args).hasPreviousPage ELSE PageInfo(args).hasNextPage

(* Mutant of GetPage: a page without edges gives a cursor of NULLs.        *)
GetPageNullCursor ==
    /\ stage = "counted"
    /\ \E page \in Pages(Args) :
          /\ served' = [r \in Rows |-> IF r \in page /\ served[r] < 2
                                       THEN served[r] + 1 ELSE served[r]]
          /\ cursor' = IF page = {} THEN [i \in Columns |-> Null]
                       ELSE LastOf(Args, page)
    /\ stage' = IF GoesOn(Args) THEN "ready" ELSE "done"
    /\ UNCHANGED <<table, sortDir, backwards, total, touched>>

(* get_data and the rest of resolve, and what the client does next.        *)
GetPage ==
    /\ stage = "counted"
    /\ \E page \in Pages(Args) :
          /\ served' = [r \in Rows |-> IF r \in page /\ served[r] < 2
                                       THEN served[r] + 1 ELSE served[r]]
          /\ cursor' = IF page = {} THEN cursor ELSE LastOf(Args, page)
    /\ stage' = IF GoesOn(Args) THEN "ready" ELSE "done"
    /\ UNCHANGED <<table, sortDir, backwards, total, touched>>

(* Meanwhile, other requests.                                              *)
Touch(newTable, r) ==
    /\ stage # "done"
    /\ newTable \in Tables
    /\ table' = newTable
    /\ touched' = touched \cup {r}
    /\ UNCHANGED <<sortDir, backwards, cursor, stage, total, served>>

Save(r, key) == Touch([q \in Existing \cup {r} |-> IF q = r THEN key ELSE table[q]], r)
Delete(r) == r \in Existing /\ Touch([q \in Existing \ {r} |-> table[q]], r)

Change == \E r \in Rows : Delete(r) \/ \E key \in Contents[r] : Save(r, key)

Next == Count \/ GetPage \/ Change

Spec == Init /\ [][Next]_vars

(* The client goes on as long as there is a next page.                     *)
FairSpec == Spec /\ WF_vars(Count \/ GetPage)

-----------------------------------------------------------------------------
(* Every variable stays in its range; a cursor is always one a row of the  *)
(* table can have.                                                         *)
TypeOK ==
    /\ table \in Tables
    /\ sortDir \in {"asc", "desc"}
    /\ backwards \in BOOLEAN
    /\ cursor \in Keys \cup {NoCursor}
    /\ stage \in {"ready", "counted", "done"}
    /\ total \in 0 .. Cardinality(Rows)
    /\ served \in [Rows -> 0 .. 2]
    /\ touched \subseteq Rows

(* The SQL condition means what it should: the rows it lets through are    *)
(* exactly those after the cursor in the order the page is fetched in,     *)
(* with NULL in any column but the last, for each direction and either way *)
(* of paging (get_cursor_filter).                                          *)
CursorIsExact ==
    cursor # NoCursor /\ cursor[Width] # Null =>
        \A r \in Existing :
            CursorCondition(Operator(Args), cursor, table[r])
                <=> Follows(FetchDir(Args), table[r], cursor)

(* A walk shows every row that is there all along and does not change      *)
(* exactly once, whatever happens to the others meanwhile.                 *)
NeverTwice == \A r \in steady : served[r] < 2
NoneMissed == stage = "done" => \A r \in steady : served[r] > 0

(* totalCount and the rows the whole walk shows differ by no more rows     *)
(* than others have touched meanwhile, also between the two queries of one *)
(* request ("Cursor filter should be applied after taking count").         *)
Shown == {r \in Rows : served[r] > 0}
TotalIsServed ==
    stage = "done" =>
        /\ total <= Cardinality(Shown) + Cardinality(touched)
        /\ Cardinality(Shown) <= total + Cardinality(touched)

(* Why it does: until the end, the steady rows a page has shown are those  *)
(* the cursor has passed (all of them at the end, once each); the others   *)
(* on a page, and all that were counted, are or were touched.              *)
Passed(r) == cursor # NoCursor /\ ~Follows(FetchDir(Args), table[r], cursor)
PassedAreServed ==
    \A r \in steady : served[r] = IF stage = "done" \/ Passed(r) THEN 1 ELSE 0
OthersAreTouched ==
    /\ \A r \in Rows \ (Existing \cup touched) : served[r] = 0
    /\ stage # "ready" => /\ Cardinality(steady) <= total
                          /\ total <= Cardinality(steady \cup touched)
WalkInv == TypeOK /\ PassedAreServed /\ OthersAreTouched

(* In terms of what is promised to the client: a walk is a scan of the     *)
(* steady rows in the order the pages are fetched in, whatever others do   *)
(* to the table and wherever the cursor's own row has gone.                *)
Scan == INSTANCE OrderedScan WITH
            loyal <- steady,
            order <- {p \in steady \X steady :
                         Follows(FetchDir(Args), table[p[2]], table[p[1]])},
            shows <- [r \in steady |-> served[r]],
            ended <- stage = "done"

ScanSpec == Scan!Spec

(* A walk comes to its end once the table is left alone.                   *)
WalkEnds == <>[][~Change]_vars => <>(stage = "done")

=============================================================================
