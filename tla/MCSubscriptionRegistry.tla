----------------------- MODULE MCSubscriptionRegistry -----------------------
(***************************************************************************)
(* Small instances of SubscriptionRegistry for TLC.                        *)
(***************************************************************************)
EXTENDS SubscriptionRegistry

CONSTANTS fieldA, fieldB    \* two fields of the Subscription type
CONSTANTS id1, id2          \* two subscription ids
CONSTANTS ping1, ping2      \* two keepalive requests
CONSTANTS call1             \* one complete_subscription call
=============================================================================
