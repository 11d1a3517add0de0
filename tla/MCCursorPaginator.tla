------------------------- MODULE MCCursorPaginator -------------------------
(***************************************************************************)
(* A small instance of CursorPaginator for TLC.  Two rows move among keys  *)
(* with NULL in the first column, in the second, in both and in neither;   *)
(* the third only comes and goes, so that a walk has up to three pages.    *)
(***************************************************************************)
EXTENDS CursorPaginator

CONSTANTS row1, row2, row3

N == Null
ThreeColumns ==
    [r \in Rows |->
        IF r = row1 THEN {<<N, N, 0>>, <<N, 0, 1>>, <<0, 0, 0>>, <<1, N, 0>>}
        ELSE IF r = row2 THEN {<<N, N, 1>>, <<0, N, 0>>, <<0, 0, 1>>}
        ELSE {<<0, 1, 0>>}]
=============================================================================
