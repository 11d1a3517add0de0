-------------------------- MODULE MCTimelyClients --------------------------
(***************************************************************************)
(* Small instances of TimelyClients for TLC, at the tightest threshold the *)
(* assumption ThresholdIsAmple allows.                                     *)
(***************************************************************************)
EXTENDS TimelyClients, TLC

CONSTANTS fieldA, id1, id2, ping1, ping2, call1

Symmetry == Permutations({id1, id2}) \cup Permutations({ping1, ping2})
=============================================================================
