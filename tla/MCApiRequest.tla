---------------------------- MODULE MCApiRequest ----------------------------
(***************************************************************************)
(* Small instances of ApiRequest for TLC.  A note has an owner, a user,    *)
(* and refers to a user or to another note; a user has roles, the rows of  *)
(* a table.                                                                *)
(***************************************************************************)
EXTENDS ApiRequest, TLC

CONSTANTS ask1, ask2, user1, user2, note1, role1

MCLevel == "User" :> ("email" :> 0 @@ "salary" :> 1)
           @@ "Note" :> ("title" :> 0)
           @@ "Has Role" :> ("role" :> 0)
MCGranted == "User" :> {0} @@ "Note" :> {0} @@ "Has Role" :> {}
MCGrantedNoNotes == "User" :> {0} @@ "Note" :> {} @@ "Has Role" :> {}
MCTypeOf == user1 :> "User" @@ user2 :> "User" @@ note1 :> "Note" @@ role1 :> "Has Role"
MCParentOf == user1 :> None @@ user2 :> None @@ note1 :> None @@ role1 :> user1
MCInitialRows == user1 :> 0 @@ user2 :> 0 @@ note1 :> 0 @@ role1 :> Absent

Owner == <<"note", "owner">>
Ref == <<"note", "ref">>
Roles == <<"user", "roles">>
MCPaths == {Owner, Ref, Roles}
MCTypesAt == Owner :> {"User"} @@ Ref :> {"User", "Note"} @@ Roles :> {"Has Role"}
MCTableOf == Owner :> None @@ Ref :> None @@ Roles :> "User"

MCNames == {"note", "user", "owner", "ref", "roles", "email", "email__name", "salary",
            "title", "role", "anonymous", "__typename", "f"}
MCFieldOf == [x \in MCNames |-> IF x = "email__name" THEN "email" ELSE x]

N(kind, name, parent) == [kind |-> kind, name |-> name, parent |-> parent]
Op(name) == N("operation", name, 0)
Field(x, parent) == N("field", x, parent)

(* Queries of the paths above: with fragments, inline fragments, repeated  *)
(* fields, several operations, and one that dangles.                       *)
Queries ==
    {<<Op(Anonymous), Field("note", 1), Field("owner", 2), Field("email__name", 3),
       Field("__typename", 3), Field("ref", 2), Field("title", 6)>>,
     <<Op("f"), Field("note", 1), Field("ref", 2), N("spread", "f", 3), Field("__typename", 3),
       N("fragment", "f", 0), Field("title", 6), Field("email", 6)>>,
     <<Op(Anonymous), Field("user", 1), Field("roles", 2), Field("role", 3)>>,
     <<Op(Anonymous), Field("note", 1), Field("owner", 2), N("inline", Anonymous, 3),
       Field("email", 4), Field("salary", 3)>>,
     <<Op(Anonymous), Field("note", 1), N("spread", "f", 2), Field("owner", 2),
       Field("email", 4), N("fragment", "f", 0), Field("owner", 6), Field("salary", 7)>>,
     <<Op("f"), Field("note", 1), Op("user"), Field("user", 3), Field("roles", 4),
       Field("role", 5)>>}

(* Every document of up to four nodes in which fields and fragments have   *)
(* one name and operations two, and those that add up to three nodes to    *)
(* fields nested as deeply as the limit allows: each node is put under the *)
(* one before it or one of that one's ancestors.                           *)
Within(d) ==
    LET up[n \in 0 .. Len(d)] ==
            IF n = 0 THEN {} ELSE {n} \cup up[d[n].parent]
    IN  {n \in up[Len(d)] : d[n].kind # "spread"}

More(d) ==
    {Op(x) : x \in {Anonymous, "anonymous"}} \cup {N("fragment", "f", 0)}
    \cup {N(kind, "f", p) : kind \in {"field", "spread"}, p \in Within(d)}
    \cup {N("field", "__typename", p) : p \in Within(d)}
    \cup {N("inline", Anonymous, p) : p \in Within(d)}

Nested(name) == <<Op(name), Field("f", 1), Field("f", 2), Field("f", 3)>>

Trees[n \in 0 .. 3] ==
    IF n = 0 THEN UNION {{<<Op(x)>>, Nested(x)} : x \in {Anonymous, "anonymous"}}
    ELSE UNION {{Append(d, x) : x \in More(d)} : d \in Trees[n - 1]}

MCDocuments ==
    {NoDoc} \cup Queries \cup {d \in UNION {Trees[n] : n \in 0 .. 3} : WellFormed(d)}
=============================================================================
