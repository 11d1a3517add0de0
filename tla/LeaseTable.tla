----------------------------- MODULE LeaseTable -----------------------------
(***************************************************************************)
(* What the registry of subscriptions promises to clients that ping in     *)
(* time, without requests, sweeps or clocks: a table of leases.  A lease   *)
(* ends when it is completed, or lapses when its client has gone; it never *)
(* lapses under a client.  A lease whose client has gone may still come    *)
(* back, from the hands of a keepalive that was under way.                 *)
(***************************************************************************)
CONSTANT Keys       \* pairs of a subscription field and an id

VARIABLES
    leases,         \* the consumers that are registered
    clients,        \* the consumers whose clients rely on it
    ids             \* the ids that have been given out

leaseVars == <<leases, clients, ids>>

Init == leases = {} /\ clients = {} /\ ids = {}

Grant(k) ==
    /\ k[2] \notin ids
    /\ ids' = ids \cup {k[2]}
    /\ leases' = leases \cup {k}
    /\ clients' = clients \cup {k}

Leave(k) ==
    /\ clients' = clients \ {k}
    /\ UNCHANGED <<leases, ids>>

End(k) ==
    /\ leases' = leases \ {k}
    /\ clients' = clients \ {k}
    /\ UNCHANGED ids

Lapse(S) ==
    /\ S \cap clients = {}
    /\ leases' = leases \ S
    /\ UNCHANGED <<clients, ids>>

Linger(k) ==
    /\ k \notin clients
    /\ k[2] \in ids
    /\ leases' = leases \cup {k}
    /\ UNCHANGED <<clients, ids>>

Next ==
    \/ \E k \in Keys : Grant(k) \/ Leave(k) \/ End(k) \/ Linger(k)
    \/ \E S \in SUBSET Keys : Lapse(S)

Spec == Init /\ [][Next]_leaseVars
=============================================================================
