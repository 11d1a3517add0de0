-------------------------- MODULE MCNotifications --------------------------
(***************************************************************************)
(* Small instances of Notifications for TLC: the field doc_events and a    *)
(* field of an app that completes on errors, and two subscribers that are  *)
(* users of their own.                                                     *)
(***************************************************************************)
EXTENDS Notifications, TLC

CONSTANTS docEvents, userLogin, id1, id2, alice, bob, guest
CONSTANTS event1, event2, request1, call1, ping1

MCUserOf == id1 :> alice @@ id2 :> bob
MCUserOf1 == id1 :> alice

(* Both listen to User documents, the second to all others too; or only    *)
(* the second does; or the second has sent doctypes: null.                 *)
MCFilters == {id1 :> {"User"} @@ id2 :> {},
              id1 :> {"Sales Invoice"} @@ id2 :> {},
              id1 :> {"User"} @@ id2 :> Null}
MCFilters1 == {id1 :> {"User"}}

(* A name of one word and a name of two: spaces leave the type's name.     *)
MCTypeName == "User" :> "User" @@ "Sales Invoice" :> "SalesInvoice"
MCDocTypes == DOMAIN MCTypeName
=============================================================================
