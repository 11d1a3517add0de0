---------------------------- MODULE OrderedScan ----------------------------
(***************************************************************************)
(* What a cursor promises to a client that walks through a list, without   *)
(* queries, cursors or columns: of the rows that stay as they are, each    *)
(* page shows the next ones in their order, every row is shown once, and   *)
(* when the walk is over none is left.                                     *)
(***************************************************************************)
EXTENDS Naturals

CONSTANT Rows

VARIABLES
    loyal,          \* the rows nobody has touched since the walk began
    order,          \* the pairs of them of which the first is due earlier
    shows,          \* how many pages each has been on
    ended           \* whether there is no next page

scanVars == <<loyal, order, shows, ended>>

Init == shows = [r \in loyal |-> 0] /\ ended = FALSE

Page(S) ==
    /\ ~ended
    /\ \A r \in S : shows[r] = 0
    /\ shows' = [r \in loyal |-> IF r \in S THEN 1 ELSE shows[r]]
    /\ \A r, q \in loyal : shows'[r] > 0 /\ shows'[q] = 0 => <<r, q>> \in order
    /\ ended' => \A r \in loyal : shows'[r] > 0
    /\ ended' \in BOOLEAN
    /\ UNCHANGED <<loyal, order>>

(* Somebody changes or deletes a row.                                      *)
Lose(r) ==
    /\ ~ended
    /\ loyal' = loyal \ {r}
    /\ order' = order \cap (loyal' \X loyal')
    /\ shows' = [q \in loyal' |-> shows[q]]
    /\ UNCHANGED ended

Next == (\E S \in SUBSET loyal : Page(S)) \/ \E r \in Rows : Lose(r)

Spec == Init /\ [][Next]_scanVars
=============================================================================
