----------------------------- MODULE QueryDocs -----------------------------
(***************************************************************************)
(* What the code computes from the text of a query alone, before and       *)
(* beside its execution: whether it is too deep                            *)
(* (utils/depth_limit_validator.py) and which fields a resolver has been   *)
(* asked for (utils/gql_fields.py).                                        *)
(*                                                                         *)
(* A document is the sequence of the nodes of its syntax tree, in order: a *)
(* node's selections are the nodes that have it as parent, definitions     *)
(* have parent 0.  A name stands for a field, a fragment or an operation;  *)
(* aliases are left out.  Fragments come after whatever spreads them, so   *)
(* that none is spread within itself (WellFormed).                         *)
(***************************************************************************)
EXTENDS Naturals, Sequences, FiniteSetsExt

CONSTANTS
    Names,          \* field, fragment and operation names
    MetaNames,      \* those that begin with two underscores
    Ignored,        \* the names the rule's ignore option matches
    Anonymous,      \* the name of an operation without one
    AnonymousKey,   \* "anonymous", which an operation may also be named
    MaxDepth        \* frappe_graphql_depth_limit

ASSUME NamesAssumption == MetaNames \cup Ignored \cup {AnonymousKey} \subseteq Names
ASSUME AnonymousAssumption == Anonymous \notin Names
ASSUME MaxDepthAssumption == MaxDepth \in Nat

Kinds == {"operation", "fragment", "field", "spread", "inline"}

Sels(doc, n) == {m \in DOMAIN doc : doc[m].parent = n}
OfKind(doc, kind) == {n \in DOMAIN doc : doc[n].kind = kind}

(* What the grammar allows.                                                *)
WellFormed(doc) ==
    /\ doc \in Seq([kind : Kinds, name : Names \cup {Anonymous}, parent : Nat])
    /\ \A n \in DOMAIN doc :
          /\ doc[n].parent < n
          /\ doc[n].parent = 0 <=> doc[n].kind \in {"operation", "fragment"}
          /\ doc[n].parent # 0 => doc[doc[n].parent].kind # "spread"
          /\ doc[n].kind \in {"operation", "fragment", "inline"} => Sels(doc, n) # {}
          /\ doc[n].name = Anonymous => doc[n].kind \in {"operation", "inline"}
    /\ \A n \in OfKind(doc, "spread"), m \in OfKind(doc, "fragment") :
          doc[n].name = doc[m].name => n < m

-----------------------------------------------------------------------------
(* get_fragments and get_queries_and_mutations build dicts: of definitions *)
(* with the same name the last one stays, and an operation without a name  *)
(* is kept as "anonymous".                                                 *)
FragmentsOf(doc, x) == {n \in OfKind(doc, "fragment") : doc[n].name = x}
Spread(doc, n) == Max(FragmentsOf(doc, doc[n].name))
Dangling(doc, n) == doc[n].kind = "spread" /\ FragmentsOf(doc, doc[n].name) = {}

QueryKey(doc, n) == IF doc[n].name = Anonymous THEN AnonymousKey ELSE doc[n].name

GetQueries(doc) ==
    {n \in OfKind(doc, "operation") :
        \A m \in OfKind(doc, "operation") : QueryKey(doc, m) = QueryKey(doc, n) => m <= n}

(* Mutant of Crawled: the selections of inline fragments are left out.     *)
CrawledSkipsInline(doc, n) ==
    IF doc[n].kind = "spread" THEN (IF Dangling(doc, n) THEN {} ELSE {Spread(doc, n)})
    ELSE IF doc[n].kind = "inline" \/ doc[n].name \in MetaNames THEN {}
    ELSE Sels(doc, n)

(* The nodes determine_depth goes on to from n, a field one level deeper.  *)
Crawled(doc, n) ==
    IF doc[n].kind = "spread" THEN (IF Dangling(doc, n) THEN {} ELSE {Spread(doc, n)})
    ELSE IF doc[n].kind = "field" /\ doc[n].name \in MetaNames \cup Ignored THEN {}
    ELSE Sels(doc, n)

(* The nodes visited from an operation, each with the depth so far; beyond *)
(* the limit an error is reported and the crawl goes no deeper.            *)
DetermineDepth(doc, op) ==
    LET visits[v \in (DOMAIN doc) \X (0 .. MaxDepth + 1)] ==
            LET deeper == v[2] + (IF doc[v[1]].kind = "field" THEN 1 ELSE 0)
            IN  {v} \cup (IF v[2] > MaxDepth THEN {}
                          ELSE UNION {visits[<<m, deeper>>] : m \in Crawled(doc, v[1])})
    IN  visits[<<op, 0>>]

Visits(doc) == UNION {DetermineDepth(doc, op) : op \in GetQueries(doc)}
DepthErrors(doc) == \E v \in Visits(doc) : v[2] > MaxDepth

(* fragments[node.name.value] raises KeyError.                             *)
CrawlRaises(doc) == \E v \in Visits(doc) : v[2] <= MaxDepth /\ Dangling(doc, v[1])

-----------------------------------------------------------------------------
(* A tree of fields is the set of the name paths in it.                    *)
Under(x, tree) == {<<x>>} \cup {<<x>> \o p : p \in tree}
Heads(tree) == {p[1] : p \in tree}

(* What a document asks for under each node, inline fragments and repeated *)
(* fields included: the reference for the two algorithms.                  *)
Asked(doc) ==
    LET asked[n \in DOMAIN doc] ==
            LET below == UNION {asked[m] : m \in Sels(doc, n)}
            IN  IF Dangling(doc, n) THEN {}
                ELSE IF doc[n].kind = "spread" THEN asked[Spread(doc, n)]
                ELSE IF doc[n].kind = "field" THEN Under(doc[n].name, below)
                ELSE below
    IN  asked

(* Mutant of Given: fragments are not looked into.                         *)
GivenWithoutFragments(doc, collected, m) ==
    IF doc[m].kind = "field" THEN Under(doc[m].name, collected[m]) ELSE {}

(* collect_fields: what one selection puts into the dict.  There is no     *)
(* branch for inline fragments.                                            *)
Given(doc, collected, m) ==
    IF doc[m].kind = "field" THEN Under(doc[m].name, collected[m])
    ELSE IF doc[m].kind = "spread" /\ ~Dangling(doc, m) THEN collected[Spread(doc, m)]
    ELSE {}

(* collect_fields: assignment and update replace what an earlier selection *)
(* has put under the same name.                                            *)
Collected(doc) ==
    LET collected[n \in DOMAIN doc] ==
            LET given == [m \in Sels(doc, n) |-> Given(doc, collected, m)]
            IN  UNION {{p \in given[m] :
                           \A later \in Sels(doc, n) :
                               later > m => p[1] \notin Heads(given[later])} :
                       m \in Sels(doc, n)}
    IN  collected

(* The fields right under node n, through fragments: what graphql-core     *)
(* hands to resolvers as info.field_nodes, grouped by name.                *)
FieldsUnder(doc, n) ==
    LET fields[m \in DOMAIN doc] ==
            IF Dangling(doc, m) THEN {}
            ELSE IF doc[m].kind = "spread" THEN fields[Spread(doc, m)]
            ELSE UNION {IF doc[k].kind = "field" THEN {k} ELSE fields[k] : k \in Sels(doc, m)}
    IN  fields[n]

FieldNodes(doc, op, path) ==
    LET at[i \in 0 .. Len(path)] ==
            IF i = 0 THEN {op}
            ELSE {m \in UNION {FieldsUnder(doc, n) : n \in at[i - 1]} : doc[m].name = path[i]}
    IN  at[Len(path)]

(* get_field_tree_dict merges the dicts of the field nodes.                *)
FieldTree(doc, op, path) == UNION {Collected(doc)[n] : n \in FieldNodes(doc, op, path)}
AskedTree(doc, op, path) ==
    UNION {UNION {Asked(doc)[m] : m \in Sels(doc, n)} : n \in FieldNodes(doc, op, path)}

-----------------------------------------------------------------------------
(* How deep a document is: its longest path of names, not counting the     *)
(* last one, nor what lies beneath an ignored or introspection field.      *)
TooDeep(doc, op) ==
    \E p \in Asked(doc)[op] :
        /\ Len(p) - 1 > MaxDepth
        /\ \A i \in 1 .. Len(p) - 1 : p[i] \notin MetaNames \cup Ignored

(* The documents in which no fields can be lost on the way.                *)
Plain(doc) ==
    /\ OfKind(doc, "inline") = {}
    /\ \A n \in DOMAIN doc : \A l, m \in Sels(doc, n) :
          l # m => Heads(Asked(doc)[l]) \cap Heads(Asked(doc)[m]) = {}
=============================================================================
