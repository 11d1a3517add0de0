----------------------- MODULE CursorPaginatorProofs -----------------------
(***************************************************************************)
(* Proofs about CursorPaginator, for any number of rows, columns and       *)
(* contents of them and any page size.  First the order that the sorting   *)
(* columns make; then what the SQL condition comes to, column by column;   *)
(* then the walk itself.                                                   *)
(***************************************************************************)
EXTENDS CursorPaginator, SetInduction

Values == [Columns -> Nat \cup {Null}]

LEMMA KeysAreValues == Keys \subseteq Values
BY ContentsAssumption DEF Keys, Values

LEMMA ColumnsAreNats ==
    /\ Width \in Nat /\ Width >= 1
    /\ \A i \in Columns : i \in Nat /\ i >= 1 /\ i <= Width
    /\ 1 \in Columns /\ Width \in Columns
BY WidthAssumption DEF Columns

-----------------------------------------------------------------------------
(* The order of the sorting columns is a strict total order.               *)
LEMMA LexIrreflexive ==
    ASSUME NEW u \in Values
    PROVE  ~LexLess(u, u)
BY ColumnsAreNats DEF LexLess, Values, Null

LEMMA LexTransitive ==
    ASSUME NEW u \in Values, NEW v \in Values, NEW w \in Values,
           LexLess(u, v), LexLess(v, w)
    PROVE  LexLess(u, w)
<1>1. PICK i \in Columns : u[i] < v[i] /\ \A j \in 1 .. i - 1 : u[j] = v[j]
  BY DEF LexLess
<1>2. PICK k \in Columns : v[k] < w[k] /\ \A j \in 1 .. k - 1 : v[j] = w[j]
  BY DEF LexLess
<1>3. DEFINE m == IF i < k THEN i ELSE k
<1>4. m \in Columns /\ \A j \in 1 .. m - 1 : j \in 1 .. i - 1 /\ j \in 1 .. k - 1
  BY ColumnsAreNats
<1>5. u[m] < w[m]
  <2>1. CASE i < k
    BY <1>1, <1>2, <2>1, ColumnsAreNats DEF Values, Null
  <2>2. CASE k < i
    BY <1>1, <1>2, <2>2, ColumnsAreNats DEF Values, Null
  <2>3. CASE i = k
    BY <1>1, <1>2, <2>3, ColumnsAreNats DEF Values, Null
  <2> QED BY <2>1, <2>2, <2>3, ColumnsAreNats
<1>6. \A j \in 1 .. m - 1 : u[j] = w[j]
  BY <1>1, <1>2, <1>4
<1> QED BY <1>4, <1>5, <1>6 DEF LexLess

LEMMA LexTotal ==
    ASSUME NEW u \in Values, NEW v \in Values, u # v
    PROVE  LexLess(u, v) \/ LexLess(v, u)
<1> DEFINE Differ == {i \in Columns : u[i] # v[i]}
<1>1. Differ \in SUBSET Nat /\ Differ # {}
  <2>1. u = [i \in Columns |-> u[i]] /\ v = [i \in Columns |-> v[i]]
    BY DEF Values
  <2>2. Differ # {}
    BY <2>1
  <2> QED BY <2>2, ColumnsAreNats
<1>2. PICK i \in Differ : \A j \in Differ : i <= j
  <2> HIDE DEF Differ
  <2> QED BY <1>1, LeastMember
<1>3. i \in Columns /\ \A j \in 1 .. i - 1 : u[j] = v[j]
  BY <1>2, ColumnsAreNats DEF Columns
<1>4. u[i] < v[i] \/ v[i] < u[i]
  BY <1>2, ColumnsAreNats DEF Values, Null
<1> QED BY <1>3, <1>4 DEF LexLess

(* The same for the order a page is fetched in.                            *)
LEMMA FollowsIsAnOrder ==
    ASSUME NEW dir
    PROVE  /\ \A u \in Values : ~Follows(dir, u, u)
           /\ \A u, v, w \in Values :
                 Follows(dir, u, v) /\ Follows(dir, v, w) => Follows(dir, u, w)
           /\ \A u, v \in Values : u # v => Follows(dir, u, v) \/ Follows(dir, v, u)
BY LexIrreflexive, LexTransitive, LexTotal DEF Follows

-----------------------------------------------------------------------------
(* The order of the columns from i on, which is what the condition on them *)
(* should test.                                                            *)
BeyondAt(op, values, row, k) == IF op = ">" THEN row[k] > values[k] ELSE row[k] < values[k]
Beyond(op, values, row, i) ==
    \E k \in i .. Width :
        BeyondAt(op, values, row, k) /\ \A j \in i .. k - 1 : row[j] = values[j]

LEMMA BeyondFromHere ==
    ASSUME NEW op, NEW values \in Values, NEW row \in Values, NEW i \in Columns
    PROVE  Beyond(op, values, row, i) <=>
              \/ BeyondAt(op, values, row, i)
              \/ row[i] = values[i] /\ i < Width /\ Beyond(op, values, row, i + 1)
<1>1. ASSUME Beyond(op, values, row, i), ~BeyondAt(op, values, row, i)
      PROVE  row[i] = values[i] /\ i < Width /\ Beyond(op, values, row, i + 1)
  <2>1. PICK k \in i .. Width :
            BeyondAt(op, values, row, k) /\ \A j \in i .. k - 1 : row[j] = values[j]
    BY <1>1 DEF Beyond
  <2>2. k # i
    BY <1>1, <2>1
  <2>3. /\ k \in i + 1 .. Width
        /\ i \in i .. k - 1
        /\ \A j \in i + 1 .. k - 1 : j \in i .. k - 1
    BY <2>2, ColumnsAreNats
  <2> QED BY <2>1, <2>3, ColumnsAreNats DEF Beyond
<1>2. ASSUME BeyondAt(op, values, row, i)
      PROVE  Beyond(op, values, row, i)
  <2>1. i \in i .. Width /\ \A j \in i .. i - 1 : FALSE
    BY ColumnsAreNats
  <2> QED BY <1>2, <2>1 DEF Beyond
<1>3. ASSUME row[i] = values[i], i < Width, Beyond(op, values, row, i + 1)
      PROVE  Beyond(op, values, row, i)
  <2>1. PICK k \in i + 1 .. Width :
            BeyondAt(op, values, row, k) /\ \A j \in i + 1 .. k - 1 : row[j] = values[j]
    BY <1>3 DEF Beyond
  <2>2. k \in i .. Width /\ \A j \in i .. k - 1 : j = i \/ j \in i + 1 .. k - 1
    BY ColumnsAreNats
  <2> QED BY <1>3, <2>1, <2>2 DEF Beyond
<1> QED BY <1>1, <1>2, <1>3

(* One column of the condition, given the right one for those after it: a  *)
(* NULL in the cursor, and a NULL in the row, are what the order says.     *)
LEMMA OneColumn ==
    ASSUME NEW op \in {"<", ">"}, NEW values \in Values, NEW row \in Values,
           values[Width] # Null, NEW i \in Columns, NEW rest,
           i < Width => (rest <=> Beyond(op, values, row, i + 1))
    PROVE  ConditionFrom(op, values, row, i, rest) <=> Beyond(op, values, row, i)
<1>1. \A k \in Columns : ~NoCondition(op, values, k)
  BY ColumnsAreNats DEF NoCondition, Columns
<1>2. i < Width => i + 1 \in Columns
  BY ColumnsAreNats DEF Columns
<1>3. /\ row[i] \in Nat \cup {Null} /\ values[i] \in Nat \cup {Null}
      /\ i = Width => values[i] # Null
      /\ i < Width \/ i = Width
  BY ColumnsAreNats DEF Values
<1>4. ConditionFrom(op, values, row, i, rest) <=>
          \/ /\ op = ">" /\ values[i] = Null /\ i < Width
             /\ row[i] # Null \/ rest
          \/ /\ ~(op = ">" /\ values[i] = Null)
             /\ ColumnCondition(op, row[i], values[i], i < Width)
             /\ i < Width =>
                   \/ values[i] # Null /\ ColumnCondition(op, row[i], values[i], FALSE)
                   \/ rest
  BY <1>1, <1>2 DEF ConditionFrom
<1>5. ConditionFrom(op, values, row, i, rest) <=>
          \/ BeyondAt(op, values, row, i)
          \/ row[i] = values[i] /\ i < Width /\ rest
  BY <1>3, <1>4 DEF ColumnCondition, BeyondAt, Null
<1> QED BY <1>5, BeyondFromHere

(* The recursive condition exists, and is the order from every column on.  *)
LEMMA ConditionIsOrder ==
    ASSUME NEW op \in {"<", ">"}, NEW values \in Values, NEW row \in Values,
           values[Width] # Null
    PROVE  CursorCondition(op, values, row) <=> Beyond(op, values, row, 1)
<1> DEFINE Equation(c) ==
               c = [i \in Columns |-> ConditionFrom(op, values, row, i, c[i + 1])]
           witness == [i \in Columns |-> Beyond(op, values, row, i)]
           condition == CHOOSE c : Equation(c)
<1>1. CursorCondition(op, values, row) = condition[1]
  BY DEF CursorCondition
<1>2. \A i \in Columns : i < Width => i + 1 \in Columns
  BY ColumnsAreNats DEF Columns
<1>3. Equation(witness)
  <2>1. \A i \in Columns :
            ConditionFrom(op, values, row, i, witness[i + 1]) = Beyond(op, values, row, i)
    <3> TAKE i \in Columns
    <3>1. i < Width => (witness[i + 1] <=> Beyond(op, values, row, i + 1))
      BY <1>2
    <3>2. ConditionFrom(op, values, row, i, witness[i + 1]) <=> Beyond(op, values, row, i)
      <4> HIDE DEF witness
      <4> QED BY <3>1, OneColumn
    <3>3. /\ ConditionFrom(op, values, row, i, witness[i + 1]) \in BOOLEAN
          /\ Beyond(op, values, row, i) \in BOOLEAN
      BY DEF ConditionFrom, Beyond
    <3> QED BY <3>2, <3>3
  <2> QED BY <2>1
<1>4. Equation(condition)
  <2> HIDE DEF Equation, witness
  <2> QED BY <1>3
<1>5. \A i \in Columns : condition[i] = ConditionFrom(op, values, row, i, condition[i + 1])
  <2> HIDE DEF condition
  <2> QED BY <1>4
<1> HIDE DEF condition
<1> DEFINE Right == {n \in Nat : n < Width =>
                        (condition[Width - n] <=> Beyond(op, values, row, Width - n))}
<1>6. \A n \in Nat : n < Width => Width - n \in Columns
  BY ColumnsAreNats DEF Columns
<1>7. 0 \in Right
  <2>1. Width - 0 = Width /\ Width \in Columns /\ ~(Width < Width)
    BY ColumnsAreNats
  <2>2. condition[Width] <=> Beyond(op, values, row, Width)
    BY <1>5, <2>1, OneColumn
  <2> QED BY <2>1, <2>2
<1>8. \A n \in Nat : n \in Right => n + 1 \in Right
  <2> SUFFICES ASSUME NEW n \in Nat, n \in Right, n + 1 < Width
               PROVE  condition[Width - (n + 1)]
                            <=> Beyond(op, values, row, Width - (n + 1))
    OBVIOUS
  <2> DEFINE i == Width - (n + 1)
  <2>1. i \in Columns /\ i + 1 = Width - n /\ n < Width
    BY <1>6, ColumnsAreNats
  <2>2. condition[i + 1] <=> Beyond(op, values, row, i + 1)
    BY <2>1
  <2>3. condition[i] = ConditionFrom(op, values, row, i, condition[i + 1])
    BY <1>5, <2>1
  <2> QED BY <2>1, <2>2, <2>3, OneColumn
<1>9. Nat \subseteq Right
  <2> HIDE DEF Right
  <2> QED BY <1>7, <1>8, NatsBySuccessor
<1>10. Width - 1 \in Right /\ Width - (Width - 1) = 1 /\ Width - 1 < Width
  BY <1>9, ColumnsAreNats
<1> QED BY <1>1, <1>10

LEMMA BeyondIsLexLess ==
    ASSUME NEW values \in Values, NEW row \in Values
    PROVE  /\ Beyond(">", values, row, 1) <=> LexLess(values, row)
           /\ Beyond("<", values, row, 1) <=> LexLess(row, values)
<1>1. \A i \in Columns : row[i] \in Int /\ values[i] \in Int
  BY DEF Values, Null
<1> QED BY <1>1, ColumnsAreNats DEF Beyond, BeyondAt, LexLess, Columns

-----------------------------------------------------------------------------
(* What the arguments of a request come to.                                *)
LEMMA ArgsAre ==
    ASSUME backwards \in BOOLEAN, sortDir \in {"asc", "desc"},
           cursor \in Keys \cup {NoCursor}
    PROVE  /\ FetchDir(Args) = IF backwards
                                THEN IF sortDir = "asc" THEN "desc" ELSE "asc"
                                ELSE sortDir
           /\ Args.first + Args.last = PageSize
           /\ cursor # NoCursor =>
                 Operator(Args) = IF FetchDir(Args) = "asc" THEN ">" ELSE "<"
BY PageSizeAssumption DEF Args, FetchDir, Operator

LEMMA TableHoldsKeys ==
    ASSUME TypeOK
    PROVE  /\ Existing \subseteq Rows
           /\ IsFiniteSet(Existing)
           /\ Cardinality(Existing) \in 0 .. Cardinality(Rows)
           /\ \A r \in Existing : table[r] \in Keys /\ table[r] \in Values
           /\ \A r, q \in Existing : table[r] = table[q] => r = q
           /\ NoCursor \notin Keys
<1>1. Existing \subseteq Rows /\ \A r \in Existing : table[r] \in Keys
  BY DEF TypeOK, Tables, Existing
<1>2. \A r, q \in Existing : table[r] = table[q] => r = q
  BY DEF TypeOK, Tables, Existing
<1>3. /\ IsFiniteSet(Existing)
      /\ Cardinality(Existing) <= Cardinality(Rows)
      /\ Cardinality(Existing) \in Nat /\ Cardinality(Rows) \in Nat
  BY <1>1, RowsAssumption, FS_Subset, FS_CardinalityType
<1> QED BY <1>1, <1>2, <1>3, KeysAreValues, NoCursorAssumption

(* The condition lets through the rows after the cursor, in the order the  *)
(* page is fetched in.                                                     *)
LEMMA ConditionIsFollows ==
    ASSUME TypeOK, cursor # NoCursor, cursor[Width] # Null, NEW r \in Existing
    PROVE  CursorCondition(Operator(Args), cursor, table[r])
              <=> Follows(FetchDir(Args), table[r], cursor)
<1>1. cursor \in Values /\ table[r] \in Values
  BY TableHoldsKeys, KeysAreValues DEF TypeOK
<1>2. Operator(Args) = (IF FetchDir(Args) = "asc" THEN ">" ELSE "<")
  BY ArgsAre DEF TypeOK
<1>3. CASE FetchDir(Args) = "asc"
  BY <1>1, <1>2, <1>3, ConditionIsOrder, BeyondIsLexLess DEF Follows
<1>4. CASE FetchDir(Args) # "asc"
  BY <1>1, <1>2, <1>4, ConditionIsOrder, BeyondIsLexLess DEF Follows
<1> QED BY <1>3, <1>4

(* A page that is not empty has a last row, and the cursor is that row's.  *)
LEMMA LastOfPage ==
    ASSUME TypeOK, NEW page \in SUBSET Existing, page # {}
    PROVE  \E p \in page : /\ LastOf(Args, page) = table[p]
                           /\ \A r \in page : ~Follows(FetchDir(Args), table[r], table[p])
<1> DEFINE dir == FetchDir(Args)
           R == {d \in page \X page : Follows(dir, table[d[2]], table[d[1]])}
           IsLast(key) == \A r \in page : ~Follows(dir, table[r], key)
           heldKeys == {table[r] : r \in page}
<1>1. \A x \in page : table[x] \in Values
  BY TableHoldsKeys
<1>2. IsFiniteSet(page)
  BY TableHoldsKeys, FS_Subset
<1>3. \A x, y \in page : <<x, y>> \in R <=> Follows(dir, table[y], table[x])
  OBVIOUS
<1> HIDE DEF R, dir
<1>4. \A x \in page : <<x, x>> \notin R
  BY <1>1, <1>3, FollowsIsAnOrder
<1>5. \A x, y, z \in page : <<x, y>> \in R /\ <<y, z>> \in R => <<x, z>> \in R
  BY <1>1, <1>3, FollowsIsAnOrder
<1>6. \E x \in page : \A y \in page : <<x, y>> \notin R
  BY <1>2, <1>4, <1>5, LastMember
<1>7. \E key \in heldKeys : IsLast(key)
  BY <1>3, <1>6
<1>8. LastOf(Args, page) = CHOOSE key \in heldKeys : IsLast(key)
  BY DEF LastOf, dir
<1>9. LastOf(Args, page) \in heldKeys /\ IsLast(LastOf(Args, page))
  <2> HIDE DEF heldKeys, IsLast
  <2> QED BY <1>7, <1>8
<1> QED BY <1>9 DEF dir

-----------------------------------------------------------------------------
(* What a page is: some of the rows that match, all of them if they fit,   *)
(* and at least one if they do not.                                        *)
LEMMA PageOfRows ==
    ASSUME TypeOK, NEW page \in Pages(Args)
    PROVE  /\ page \subseteq Matching(Args) /\ Matching(Args) \subseteq Existing
           /\ ~(Cardinality(Matching(Args)) > PageSize) => page = Matching(Args)
           /\ Cardinality(Matching(Args)) > PageSize => page # {}
           /\ \A r \in page, q \in Matching(Args) \ page :
                 ~Follows(FetchDir(Args), table[r], table[q])
<1> DEFINE M == Matching(Args)
<1>1. M \subseteq Existing
  BY DEF Matching
<1>2. Args.first + Args.last = PageSize
  BY ArgsAre DEF TypeOK
<1>3. /\ page \subseteq M
      /\ Cardinality(page) = IF Cardinality(M) > PageSize THEN PageSize ELSE Cardinality(M)
      /\ \A r \in page, q \in M \ page : ~Follows(FetchDir(Args), table[r], table[q])
  <2> HIDE DEF M
  <2> QED BY <1>2 DEF Pages, M
<1>4. IsFiniteSet(M) /\ IsFiniteSet(page)
  BY <1>1, <1>3, TableHoldsKeys, FS_Subset
<1> HIDE DEF M
<1>5. ~(Cardinality(M) > PageSize) => page = M
  BY <1>3, <1>4, FS_Subset
<1>6. Cardinality(M) > PageSize => page # {}
  BY <1>3, FS_EmptySet, PageSizeAssumption
<1> QED BY <1>1, <1>3, <1>5, <1>6 DEF M

(* A client that pages with first goes on while there is a next page, and  *)
(* one that pages with last while there is a previous one: either flag is  *)
(* about the row that was fetched too many.                                *)
LEMMA GoesOnForMore ==
    ASSUME TypeOK
    PROVE  GoesOn(Args) <=> Cardinality(Matching(Args)) > PageSize
<1>1. /\ FetchDir(Args) = IF backwards THEN IF sortDir = "asc" THEN "desc" ELSE "asc"
                                       ELSE sortDir
      /\ Args.first + Args.last = PageSize
      /\ sortDir \in {"asc", "desc"}
  BY ArgsAre DEF TypeOK
<1>2. FetchDir(Args) = sortDir <=> ~backwards
  BY <1>1
<1> QED BY <1>1, <1>2 DEF GoesOn, PageInfo

(* The steady rows stay while nobody touches the table.                    *)
LEMMA SteadyStay ==
    ASSUME UNCHANGED <<table, touched>>
    PROVE  steady' = steady
BY DEF steady, Existing

LEMMA SteadyExist ==
    ASSUME TypeOK
    PROVE  /\ steady \subseteq Existing /\ steady \subseteq Rows
           /\ steady \cap touched = {}
           /\ Existing \subseteq steady \cup touched
           /\ steady \cup touched \subseteq Rows
BY TableHoldsKeys DEF steady, TypeOK

LEMMA PageType ==
    ASSUME TypeOK, NEW page \in Pages(Args), page # {}
    PROVE  LastOf(Args, page) \in Keys
BY PageOfRows, LastOfPage, TableHoldsKeys

(* Another request touches one row and leaves the others as they are.      *)
TouchesOnly(r) ==
    /\ stage # "done"
    /\ table' \in Tables
    /\ Existing' \ {r} = Existing \ {r}
    /\ \A q \in Existing \ {r} : table'[q] = table[q]
    /\ touched' = touched \cup {r}
    /\ steady' = steady \ {r}
    /\ UNCHANGED <<sortDir, backwards, cursor, stage, total, served>>

LEMMA ChangeTouches ==
    ASSUME Change
    PROVE  \E r \in Rows : TouchesOnly(r)
<1>1. PICK r \in Rows : Delete(r) \/ \E key \in Contents[r] : Save(r, key)
  BY DEF Change
<1>2. CASE Delete(r)
  BY <1>2 DEF Delete, Touch, TouchesOnly, Existing, steady
<1>3. ASSUME NEW key \in Contents[r], Save(r, key)
      PROVE  TouchesOnly(r)
  BY <1>3 DEF Save, Touch, TouchesOnly, Existing, steady
<1> QED BY <1>1, <1>2, <1>3

LEMMA TypeInit == Init => TypeOK
<1> SUFFICES ASSUME Init PROVE TypeOK
  OBVIOUS
<1>1. 0 \in 0 .. Cardinality(Rows)
  BY RowsAssumption, FS_CardinalityType
<1> QED BY <1>1 DEF Init, TypeOK

LEMMA TypeStep == TypeOK /\ [Next]_vars => TypeOK'
<1> SUFFICES ASSUME TypeOK, [Next]_vars PROVE TypeOK'
  OBVIOUS
<1>1. CASE Count
  <2>1. Cardinality(Existing) \in 0 .. Cardinality(Rows)
    BY TableHoldsKeys
  <2> QED BY <1>1, <2>1 DEF Count, TypeOK, Existing
<1>2. CASE GetPage
  <2>1. PICK page \in Pages(Args) :
            /\ served' = [r \in Rows |-> IF r \in page /\ served[r] < 2
                                         THEN served[r] + 1 ELSE served[r]]
            /\ cursor' = IF page = {} THEN cursor ELSE LastOf(Args, page)
    BY <1>2 DEF GetPage
  <2>2. served' \in [Rows -> 0 .. 2]
    BY <2>1 DEF TypeOK
  <2>3. cursor' \in Keys \cup {NoCursor}
    BY <2>1, PageType DEF TypeOK
  <2> QED BY <1>2, <2>2, <2>3 DEF GetPage, TypeOK, Existing
<1>3. CASE Change
  <2>1. PICK r \in Rows : TouchesOnly(r)
    BY <1>3, ChangeTouches
  <2> QED BY <2>1 DEF TouchesOnly, TypeOK
<1>4. CASE UNCHANGED vars
  BY <1>4 DEF vars, TypeOK, Existing
<1> QED BY <1>1, <1>2, <1>3, <1>4 DEF Next

(* Every variable stays in its range, and every cursor is one a row can    *)
(* have: the last row of a page exists.                                    *)
THEOREM WalkTyped == Spec => []TypeOK
<1> QED BY TypeInit, TypeStep, PTL DEF Spec

(* The SQL condition on the sorting columns is exactly "after the cursor", *)
(* in either direction, forwards and backwards, with NULLs in all columns  *)
(* but the last: for any number of columns, whatever is in the table.      *)
THEOREM ConditionExact == Spec => []CursorIsExact
<1>1. TypeOK => CursorIsExact
  BY ConditionIsFollows DEF CursorIsExact
<1> QED BY <1>1, WalkTyped, PTL

-----------------------------------------------------------------------------
(* From here on, the last of the sorting columns is never NULL: a cursor   *)
(* with a NULL there lets the rows it should not through.                  *)
LastColumnIsKnown == \A key \in Keys : key[Width] # Null

LEMMA PassedOrMatches ==
    ASSUME LastColumnIsKnown, TypeOK
    PROVE  Matching(Args) = {r \in Existing : ~Passed(r)}
<1>1. ASSUME cursor # NoCursor
      PROVE  cursor[Width] # Null
  BY <1>1 DEF LastColumnIsKnown, TypeOK
<1> QED BY <1>1, ConditionIsFollows DEF Matching, Passed

LEMMA WalkInit == Init => WalkInv
<1> SUFFICES ASSUME Init PROVE WalkInv
  OBVIOUS
<1>1. \A r \in steady : r \in Rows
  BY TypeInit, SteadyExist
<1> QED BY <1>1, TypeInit DEF Init, WalkInv, PassedAreServed, OthersAreTouched, Passed

(* The heart of it: whether or not a steady row is on the page, the new    *)
(* cursor has passed exactly those that some page has shown by then.       *)
LEMMA PageKeepsServed ==
    ASSUME LastColumnIsKnown, WalkInv, GetPage
    PROVE  PassedAreServed'
<1> USE DEF WalkInv
<1> DEFINE dir == FetchDir(Args)
           matching == Matching(Args)
<1>1. PICK page \in Pages(Args) :
          /\ served' = [r \in Rows |-> IF r \in page /\ served[r] < 2
                                       THEN served[r] + 1 ELSE served[r]]
          /\ cursor' = IF page = {} THEN cursor ELSE LastOf(Args, page)
  BY DEF GetPage
<1>2. /\ stage = "counted"
      /\ stage' = IF Cardinality(matching) > PageSize THEN "ready" ELSE "done"
      /\ UNCHANGED <<table, sortDir, backwards, steady>>
  BY GoesOnForMore, SteadyStay DEF GetPage
<1>3. matching = {r \in Existing : ~Passed(r)}
  BY PassedOrMatches
<1>4. /\ page \subseteq matching
      /\ ~(Cardinality(matching) > PageSize) => page = matching
      /\ Cardinality(matching) > PageSize => page # {}
      /\ \A r \in page, q \in matching \ page : ~Follows(dir, table[r], table[q])
  BY PageOfRows
<1>5. SUFFICES ASSUME NEW r \in steady
               PROVE  served'[r] = IF stage' = "done" \/ Passed(r)' THEN 1 ELSE 0
  BY <1>2 DEF PassedAreServed
<1>6. /\ r \in Existing /\ r \in Rows
      /\ served[r] = IF Passed(r) THEN 1 ELSE 0
  BY <1>2, SteadyExist DEF TypeOK, PassedAreServed
<1>7. served'[r] = IF r \in page \/ Passed(r) THEN 1 ELSE 0
  BY <1>1, <1>3, <1>4, <1>6
<1>8. CASE stage' = "done"
  BY <1>2, <1>3, <1>4, <1>6, <1>7, <1>8
<1>9. CASE stage' # "done"
  <2>1. page # {} /\ page \subseteq Existing
    BY <1>2, <1>3, <1>4, <1>9
  <2>2. PICK p \in page : /\ LastOf(Args, page) = table[p]
                          /\ \A q \in page : ~Follows(dir, table[q], table[p])
    BY <2>1, LastOfPage
  <2>3. cursor' = table[p] /\ cursor' # NoCursor
    BY <1>1, <2>1, <2>2, TableHoldsKeys
  <2>4. dir' = dir
    BY <1>2, <2>3, <2>1, ArgsAre, TableHoldsKeys DEF TypeOK, FetchDir, Args
  <2>5. Passed(r)' <=> ~Follows(dir, table[r], table[p])
    BY <1>2, <2>3, <2>4 DEF Passed
  <2>6. table[r] \in Values /\ table[p] \in Values
    BY <1>6, <2>1, TableHoldsKeys
  <2>7. CASE r \in page
    BY <1>7, <1>9, <2>2, <2>5, <2>7
  <2>8. CASE r \in matching \ page
    <3>1. ~Follows(dir, table[p], table[r]) /\ table[r] # table[p]
      BY <1>4, <1>6, <2>1, <2>8, TableHoldsKeys
    <3>2. Follows(dir, table[r], table[p])
      BY <2>6, <3>1, FollowsIsAnOrder
    <3> QED BY <1>3, <1>7, <1>9, <2>5, <2>8, <3>2
  <2>9. CASE r \notin matching
    <3>1. Passed(r) /\ cursor # NoCursor /\ ~Follows(dir, table[r], cursor)
      BY <1>3, <1>6, <2>9 DEF Passed
    <3>2. cursor \in Values
      BY <3>1, KeysAreValues DEF TypeOK
    <3>3. Follows(dir, table[p], cursor)
      BY <1>3, <1>4, <3>1 DEF Passed
    <3>4. ~Follows(dir, table[r], table[p])
      BY <2>6, <3>1, <3>2, <3>3, FollowsIsAnOrder
    <3> QED BY <1>7, <1>9, <2>5, <3>1, <3>4
  <2> QED BY <2>7, <2>8, <2>9
<1> QED BY <1>8, <1>9

LEMMA WalkStep ==
    ASSUME LastColumnIsKnown
    PROVE  WalkInv /\ [Next]_vars => WalkInv'
<1> SUFFICES ASSUME WalkInv, [Next]_vars PROVE WalkInv'
  OBVIOUS
<1>1. TypeOK'
  BY TypeStep DEF WalkInv
<1>2. PassedAreServed'
  <2>1. CASE Count
    BY <2>1, SteadyStay DEF Count, WalkInv, PassedAreServed, Passed, FetchDir, Args
  <2>2. CASE GetPage
    BY <2>2, PageKeepsServed
  <2>3. CASE Change
    <3>1. PICK r \in Rows : TouchesOnly(r)
      BY <2>3, ChangeTouches
    <3>2. \A q \in steady' : q \in steady /\ q \in Existing \ {r}
      BY <3>1, SteadyExist DEF TouchesOnly, WalkInv
    <3>3. \A q \in steady' : Passed(q)' <=> Passed(q)
      BY <3>1, <3>2 DEF TouchesOnly, Passed, FetchDir, Args
    <3> QED BY <3>1, <3>2, <3>3 DEF TouchesOnly, WalkInv, PassedAreServed
  <2>4. CASE UNCHANGED vars
    BY <2>4, SteadyStay DEF vars, WalkInv, PassedAreServed, Passed, FetchDir, Args
  <2> QED BY <2>1, <2>2, <2>3, <2>4 DEF Next
<1>3. OthersAreTouched'
  <2>1. CASE Count
    <3>1. /\ Cardinality(steady) <= Cardinality(Existing)
          /\ Cardinality(Existing) <= Cardinality(steady \cup touched)
      BY SteadyExist, RowsAssumption, FS_Subset DEF WalkInv
    <3> QED BY <2>1, <3>1, SteadyStay DEF Count, WalkInv, OthersAreTouched, Existing
  <2>2. CASE GetPage
    <3>1. PICK page \in Pages(Args) :
              served' = [r \in Rows |-> IF r \in page /\ served[r] < 2
                                       THEN served[r] + 1 ELSE served[r]]
      BY <2>2 DEF GetPage
    <3>2. page \subseteq Existing
      BY PageOfRows DEF WalkInv
    <3>3. /\ UNCHANGED <<table, touched, total, steady>> /\ stage = "counted"
          /\ Existing' = Existing
      BY <2>2, SteadyStay DEF GetPage, Existing
    <3> QED BY <3>1, <3>2, <3>3 DEF WalkInv, OthersAreTouched
  <2>3. CASE Change
    <3>1. PICK r \in Rows : TouchesOnly(r)
      BY <2>3, ChangeTouches
    <3>2. \A q \in Rows : q \notin (Existing \cup touched)' => q \notin Existing \cup touched
      BY <3>1 DEF TouchesOnly
    <3>3. /\ Cardinality(steady') \in Nat /\ Cardinality(steady) \in Nat
          /\ Cardinality(steady') <= Cardinality(steady)
          /\ Cardinality(steady \cup touched) \in Nat
          /\ Cardinality((steady \cup touched)') \in Nat
          /\ Cardinality(steady \cup touched) <= Cardinality((steady \cup touched)')
      <4>1. /\ steady' \subseteq steady /\ steady \cup touched \subseteq (steady \cup touched)'
            /\ steady \subseteq Rows /\ (steady \cup touched)' \subseteq Rows
        BY <3>1, SteadyExist DEF TouchesOnly, WalkInv, TypeOK
      <4>2. /\ IsFiniteSet(steady) /\ IsFiniteSet((steady \cup touched)')
            /\ IsFiniteSet(steady') /\ IsFiniteSet(steady \cup touched)
        BY <4>1, RowsAssumption, FS_Subset
      <4> QED BY <4>1, <4>2, FS_Subset, FS_CardinalityType
    <3>4. total \in Nat /\ total' = total /\ stage' = stage /\ served' = served
      BY <3>1, RowsAssumption, FS_CardinalityType DEF TouchesOnly, WalkInv, TypeOK
    <3> QED BY <3>2, <3>3, <3>4 DEF WalkInv, OthersAreTouched
  <2>4. CASE UNCHANGED vars
    BY <2>4, SteadyStay DEF vars, WalkInv, OthersAreTouched, Existing
  <2> QED BY <2>1, <2>2, <2>3, <2>4 DEF Next
<1> QED BY <1>1, <1>2, <1>3 DEF WalkInv

(* The invariant of a walk: the steady rows shown so far are those the     *)
(* cursor has passed, once each, whatever others insert, change and delete *)
(* between any two queries.                                                *)
THEOREM WalkSafe ==
    ASSUME LastColumnIsKnown
    PROVE  Spec => []WalkInv
<1>1. Init => WalkInv
  BY WalkInit
<1>2. WalkInv /\ [Next]_vars => WalkInv'
  BY WalkStep
<1> QED BY <1>1, <1>2, PTL DEF Spec

(* No walk shows a row twice that is there and unchanged all along,        *)
(* however the table changes around it.                                    *)
COROLLARY ShownOnce ==
    ASSUME LastColumnIsKnown
    PROVE  Spec => []NeverTwice
<1>1. WalkInv => NeverTwice
  BY DEF WalkInv, PassedAreServed, NeverTwice
<1> QED BY <1>1, WalkSafe, PTL

(* No walk that comes to its end has missed such a row.                    *)
COROLLARY AllShown ==
    ASSUME LastColumnIsKnown
    PROVE  Spec => []NoneMissed
<1>1. WalkInv => NoneMissed
  BY DEF WalkInv, PassedAreServed, NoneMissed
<1> QED BY <1>1, WalkSafe, PTL

(* totalCount is off from the number of rows shown by no more than others  *)
(* have touched: either lies between the steady rows and those with all    *)
(* that were touched.                                                      *)
COROLLARY CountIsShown ==
    ASSUME LastColumnIsKnown
    PROVE  Spec => []TotalIsServed
<1>1. WalkInv => TotalIsServed
  <2> SUFFICES ASSUME WalkInv, stage = "done"
               PROVE  /\ total <= Cardinality(Shown) + Cardinality(touched)
                      /\ Cardinality(Shown) <= total + Cardinality(touched)
    BY DEF TotalIsServed
  <2>1. steady \subseteq Shown /\ Shown \subseteq steady \cup touched
    BY SteadyExist DEF WalkInv, PassedAreServed, OthersAreTouched, Shown
  <2>2. IsFiniteSet(steady) /\ IsFiniteSet(touched) /\ IsFiniteSet(steady \cup touched)
    BY SteadyExist, RowsAssumption, FS_Subset DEF WalkInv, TypeOK
  <2>3. Cardinality(steady \cup touched) = Cardinality(steady) + Cardinality(touched)
    <3>1. /\ Cardinality(steady \cup touched) =
                Cardinality(steady) + Cardinality(touched) - Cardinality(steady \cap touched)
          /\ Cardinality(steady) \in Nat /\ Cardinality(touched) \in Nat
      BY <2>2, FS_Union, FS_CardinalityType
    <3>2. Cardinality(steady \cap touched) = 0
      BY SteadyExist, FS_EmptySet DEF WalkInv
    <3> QED BY <3>1, <3>2
  <2>4. /\ Cardinality(steady) <= Cardinality(Shown)
        /\ Cardinality(Shown) <= Cardinality(steady \cup touched)
        /\ Cardinality(Shown) \in Nat
    <3>1. IsFiniteSet(Shown)
      BY <2>1, <2>2, FS_Subset
    <3> QED BY <2>1, <2>2, <3>1, FS_Subset, FS_CardinalityType
  <2>5. /\ Cardinality(steady) <= total /\ total <= Cardinality(steady \cup touched)
        /\ total \in Nat /\ Cardinality(steady) \in Nat /\ Cardinality(touched) \in Nat
    BY <2>2, RowsAssumption, FS_CardinalityType DEF WalkInv, OthersAreTouched, TypeOK
  <2> QED BY <2>3, <2>4, <2>5
<1> QED BY <1>1, WalkSafe, PTL

-----------------------------------------------------------------------------
(* That a walk is a scan of the steady rows, step by step.                 *)
LEMMA DirectionStays ==
    ASSUME UNCHANGED <<sortDir, backwards>>
    PROVE  FetchDir(Args)' = FetchDir(Args)
BY DEF FetchDir, Args

LEMMA ScanInit == Init => Scan!Init
<1> SUFFICES ASSUME Init PROVE Scan!Init
  OBVIOUS
<1>1. \A r \in steady : r \in Rows
  BY TypeInit, SteadyExist
<1> QED BY <1>1 DEF Init, Scan!Init

(* The rows of a page are the next ones: those the new cursor has passed   *)
(* come before those it has not.                                           *)
LEMMA ShownComeFirst ==
    ASSUME WalkInv, WalkInv', GetPage,
           NEW r \in steady, NEW q \in steady, served'[r] > 0, served'[q] = 0
    PROVE  Follows(FetchDir(Args), table[q], table[r])
<1> USE DEF WalkInv
<1>1. UNCHANGED <<table, sortDir, backwards, steady>>
  BY SteadyStay DEF GetPage
<1>2. FetchDir(Args)' = FetchDir(Args)
  BY <1>1, DirectionStays
<1>3. Passed(r)' /\ ~Passed(q)'
  BY <1>1 DEF PassedAreServed
<1>4. /\ cursor' # NoCursor
      /\ ~Follows(FetchDir(Args), table[r], cursor')
      /\ Follows(FetchDir(Args), table[q], cursor')
  BY <1>1, <1>2, <1>3 DEF Passed
<1>5. cursor' \in Values /\ table[r] \in Values /\ table[q] \in Values
  BY <1>4, KeysAreValues, TableHoldsKeys, SteadyExist DEF TypeOK
<1> QED BY <1>4, <1>5, FollowsIsAnOrder

LEMMA PageScans ==
    ASSUME WalkInv, WalkInv', GetPage
    PROVE  \E S \in SUBSET steady : Scan!Page(S)
<1> USE DEF WalkInv
<1> DEFINE dir == FetchDir(Args)
<1>1. PICK S \in SUBSET steady : \A r \in steady : r \in S <=> served'[r] # served[r]
  <2>1. LET shown == {r \in steady : served'[r] # served[r]}
        IN  shown \in SUBSET steady /\ \A r \in steady : r \in shown <=> served'[r] # served[r]
    OBVIOUS
  <2> QED BY <2>1
<1>2. /\ stage = "counted" /\ stage' \in {"ready", "done"}
      /\ UNCHANGED <<table, sortDir, backwards, steady>>
  BY SteadyStay DEF GetPage
<1>3. dir' = dir
  BY <1>2, DirectionStays
<1>4. \A r \in steady : served[r] \in {0, 1} /\ served'[r] \in {0, 1}
  BY <1>2 DEF PassedAreServed
<1>5. \A r \in steady : served[r] <= served'[r]
  <2>1. PICK page \in Pages(Args) :
            served' = [r \in Rows |-> IF r \in page /\ served[r] < 2
                                      THEN served[r] + 1 ELSE served[r]]
    BY DEF GetPage
  <2>2. \A r \in steady : r \in Rows /\ served[r] \in Nat
    BY <1>4, SteadyExist DEF TypeOK
  <2> QED BY <2>1, <2>2
<1>6. \A r \in S : served[r] = 0 /\ served'[r] = 1
  BY <1>1, <1>4, <1>5
<1>7. [r \in steady |-> served[r]]'
          = [r \in steady |-> IF r \in S THEN 1 ELSE [q \in steady |-> served[q]][r]]
  BY <1>1, <1>2, <1>6
<1>8. \A r, q \in steady : served'[r] > 0 /\ served'[q] = 0
          => <<r, q>> \in {p \in steady \X steady :
                              Follows(dir, table[p[2]], table[p[1]])}
  BY ShownComeFirst
<1>9. stage' = "done" => \A r \in steady : served'[r] > 0
  BY <1>2 DEF PassedAreServed
<1>10. {p \in steady \X steady : Follows(dir, table[p[2]], table[p[1]])}'
          = {p \in steady \X steady : Follows(dir, table[p[2]], table[p[1]])}
  BY <1>2, <1>3
<1>11. Scan!Page(S)
  BY <1>2, <1>6, <1>7, <1>8, <1>9, <1>10 DEF Scan!Page
<1> QED BY <1>11

LEMMA ChangeLoses ==
    ASSUME WalkInv, Change
    PROVE  \E r \in Rows : Scan!Lose(r)
<1>1. PICK r \in Rows : TouchesOnly(r)
  BY ChangeTouches
<1>2. FetchDir(Args)' = FetchDir(Args)
  BY <1>1, DirectionStays DEF TouchesOnly
<1>3. steady' = steady \ {r} /\ \A q \in steady' : table'[q] = table[q]
  BY <1>1, SteadyExist DEF TouchesOnly, WalkInv
<1>4. {p \in steady \X steady : Follows(FetchDir(Args), table[p[2]], table[p[1]])}'
          = {p \in steady \X steady : Follows(FetchDir(Args), table[p[2]], table[p[1]])}
                \cap (steady' \X steady')
  BY <1>2, <1>3
<1>5. [q \in steady |-> served[q]]' = [q \in steady' |-> [s \in steady |-> served[s]][q]]
  BY <1>1, <1>3 DEF TouchesOnly
<1>6. stage # "done" /\ stage' = stage
  BY <1>1 DEF TouchesOnly
<1> QED BY <1>3, <1>4, <1>5, <1>6 DEF Scan!Lose

LEMMA ScanStep ==
    ASSUME WalkInv, WalkInv', [Next]_vars
    PROVE  [Scan!Next]_(Scan!scanVars)
<1>1. CASE Count
  BY <1>1, DirectionStays, SteadyStay DEF Count, Scan!scanVars
<1>2. CASE GetPage
  BY <1>2, PageScans DEF Scan!Next
<1>3. CASE Change
  BY <1>3, ChangeLoses DEF Scan!Next
<1>4. CASE UNCHANGED vars
  BY <1>4, DirectionStays, SteadyStay DEF vars, Scan!scanVars
<1> QED BY <1>1, <1>2, <1>3, <1>4 DEF Next

(* A walk keeps what a cursor promises: whatever others do to the table,   *)
(* the rows nobody touches come page after page in their order, each once, *)
(* and none is left at the end.                                            *)
THEOREM WalkIsScan ==
    ASSUME LastColumnIsKnown
    PROVE  Spec => ScanSpec
<1>1. Init => Scan!Init
  BY ScanInit
<1>2. WalkInv /\ WalkInv' /\ [Next]_vars => [Scan!Next]_(Scan!scanVars)
  BY ScanStep
<1>3. Spec => []WalkInv
  BY WalkSafe
<1> QED BY <1>1, <1>2, <1>3, PTL DEF Spec, ScanSpec, Scan!Spec
=============================================================================
