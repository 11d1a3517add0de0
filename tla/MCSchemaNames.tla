--------------------------- MODULE MCSchemaNames ---------------------------
(***************************************************************************)
(* A small instance of SchemaNames for TLC: names that are spelt with a    *)
(* space, like their plural, or like the plural of another one, which a    *)
(* module of its own holds and which comes and goes.                       *)
(***************************************************************************)
EXTENDS SchemaNames, TLC

CONSTANTS worker, save

Order == <<"Sales", " ", "Item">>
Orders == Append(Order, "s")
Equipment == <<"Equipment">>
SubItem == <<"Sub", "-", "Item">>
News == <<"News">>

MCNames == {Order, Orders, Equipment, SubItem, News}
MCCore == MCNames \ {Orders}
MCPlural == [d \in MCNames |-> IF d \in {Equipment, News} THEN d ELSE Append(d, "s")]
MCPredefined == {News}
MCSingles == {News}
MCTables == {SubItem}
MCModule == [d \in MCNames |-> IF d = Orders THEN "extra" ELSE "core"]
MCCalls ==
    {[modules |-> {}, doctypes |-> {}], [modules |-> {"extra"}, doctypes |-> {News}],
     [modules |-> {}, doctypes |-> {Orders}]}

(* Three Select fields in two orders, standard or custom, whose labels may *)
(* be the same, or be the fieldname of another one.                        *)
MCFields(fieldname) ==
    [label : {"Status", "Kind", "State"}, fieldname : {fieldname}, custom : BOOLEAN,
     fit : BOOLEAN]
MCFieldLists ==
    {<<a, b, c>> : a \in MCFields("Status"), b \in MCFields("Kind"), c \in MCFields("Order")}
    \cup {<<c, b, a>> : a \in MCFields("Status"), b \in MCFields("Kind"), c \in MCFields("Order")}
=============================================================================
