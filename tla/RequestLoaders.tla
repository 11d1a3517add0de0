--------------------------- MODULE RequestLoaders ---------------------------
(***************************************************************************)
(* How the resolvers of one request read documents: a link field or a      *)
(* table field asks a dataloader for the document, or the rows, with a     *)
(* key, and gets an answer when the loader's queue is dispatched as one    *)
(* query (utils/resolver/dataloaders).  Which fields the query reads is    *)
(* worked out from the selections and the user's permissions when the      *)
(* loader is made (utils/gql_fields.py, utils/permissions.py); both are    *)
(* remembered in the request.  Between two asks a mutation of the same     *)
(* request may change or delete what they read.                            *)
(*                                                                         *)
(* A document is the version of its contents.  A table row is a document   *)
(* with a parent; the loader of a table is asked for a parent.             *)
(***************************************************************************)
EXTENDS QueryDocs

CONSTANTS
    NameField,      \* "name"
    ParentField,    \* "parent"
    FieldOf,        \* what is left of a name without "__name"
    DocTypes,       \* the DocTypes
    ChildTables,    \* those that are tables of others
    Level,          \* for each DocType, its own fields with their permlevel
    Granted,        \* for each DocType, the permlevels the user can read
    DefaultFields,  \* default_fields without doctype
    Docs,           \* the documents there can be
    TypeOf,         \* their DocTypes
    ParentOf,       \* the document a table row belongs to
    Listed,         \* the documents get_list shows the user
    Paths,          \* the paths of link and table fields in the result
    TypesAt,        \* for each path, the DocTypes its field can lead to
    TableOf,        \* for each path, the DocType its table is of, or None
    Asks,           \* the loads there can be in the request
    MaxVersion,
    Absent, None

ASSUME MaxVersionAssumption == MaxVersion \in Nat
ASSUME DocTypesAssumption == IsFiniteSet(DocTypes) /\ ChildTables \subseteq DocTypes
ASSUME FieldOfAssumption == FieldOf \in [Names -> Names]
ASSUME TypesAssumption ==
    /\ TypeOf \in [Docs -> DocTypes]
    /\ TypesAt \in [Paths -> SUBSET DocTypes]

VARIABLES
    rows,           \* the database as the request sees it
    selected,       \* at each path, the names its resolver was asked for
    requested,      \* info.context: the fields worked out for a path
    loaders,        \* frappe.local.dataloaders
    asks            \* each load: its loader and key, what it might be
                    \* answered since it was made, and its answer

loaderVars == <<rows, selected, requested, loaders, asks>>

Versions == 0 .. MaxVersion

(* What a query finds, the fields it can read, and an answer made of both. *)
Finds == UNION {[S -> Versions] : S \in SUBSET Docs}
Fields == DefaultFields \cup {NameField, ParentField} \cup UNION {DOMAIN Level[dt] : dt \in DocTypes}
Answers == [rows : Finds \cup {None}, fields : SUBSET Fields]

ASSUME NoneAssumption == None \notin Answers

-----------------------------------------------------------------------------
(* _get_permlevel_read_access and get_allowed_fieldnames_for_doctype: the  *)
(* fields of a table are those its parent's permissions allow.  The result *)
(* is kept in frappe.local, for the user of the request.                   *)
Access(dt) == IF dt \in ChildTables THEN {0} ELSE Granted[dt]

Allowed(dt, parent) ==
    LET access == Access(IF parent = None THEN dt ELSE parent)
    IN  IF access = {} THEN {}
        ELSE DefaultFields \cup {f \in DOMAIN Level[dt] : Level[dt][f] \in access}

(* get_doctype_requested_fields, before its cache.                         *)
Mandatory(parent) == {NameField} \cup (IF parent = None THEN {} ELSE {ParentField})
Wanted(path, dt, parent) ==
    ({FieldOf[x] : x \in selected[path] \ MetaNames} \cap Allowed(dt, parent))
        \cup Mandatory(parent)

(* And after it: what was worked out first for the path.                   *)
RequestedFields(path, dt, parent) ==
    IF requested[path] # None THEN requested[path] ELSE Wanted(path, dt, parent)

(* Mutant of LoaderKey: loaders of the same DocType are shared.            *)
LoaderKeyWithoutPath(path, dt, parent) == [path |-> None, dt |-> dt, parent |-> parent]

LoaderKey(path, dt, parent) == [path |-> path, dt |-> dt, parent |-> parent]

(* The rows a key should get of a loader.                                  *)
Found(db, l, key) ==
    LET found == {d \in Docs : /\ db[d] # Absent
                               /\ TypeOf[d] = l.dt
                               /\ IF l.parent = None THEN d = key /\ d \in Listed
                                                     ELSE ParentOf[d] = key}
    IN  [d \in found |-> db[d]]

(* get_list raises PermissionError without read access; get_all never.     *)
Refused(l) == l.parent = None /\ Access(l.dt) = {}

-----------------------------------------------------------------------------
LoadersInit ==
    /\ selected = [p \in Paths |-> {}]
    /\ requested = [p \in Paths |-> None]
    /\ loaders = [l \in {} |-> None]
    /\ asks = [a \in {} |-> None]

(* _resolve_link_field, _resolve_dynamic_link_field, _child_table_resolver *)
(* with a loader found or made, and SyncDataLoader.load: a key that is in  *)
(* the loader's cache shares its future, another one is queued.            *)
Load(a, path, dt, parent, key) ==
    LET l == LoaderKey(path, dt, parent)
        fields == RequestedFields(path, dt, parent)
        loader == IF l \in DOMAIN loaders THEN loaders[l]
                  ELSE [fields |-> fields, memo |-> [k \in {} |-> None], queue |-> <<>>]
        future == IF key \in DOMAIN loader.memo THEN loader.memo[key] ELSE None
    IN  /\ a \in Asks \ DOMAIN asks
        /\ selected[path] # {}
        /\ requested' = [requested EXCEPT ![path] = fields]
        /\ loaders' = [m \in DOMAIN loaders \cup {l} |->
                         IF m # l THEN loaders[m]
                         ELSE [loader EXCEPT
                                 !.memo = [k \in DOMAIN @ \cup {key} |->
                                             IF k = key THEN future ELSE @[k]],
                                 !.queue = IF key \in DOMAIN loader.memo THEN @
                                           ELSE Append(@, key)]]
        /\ asks' = [b \in DOMAIN asks \cup {a} |->
                      IF b # a THEN asks[b]
                      ELSE [path |-> path, loader |-> l, key |-> key,
                            seen |-> {Found(rows, l, key)}, answer |-> future]]
        /\ UNCHANGED <<rows, selected>>

LoadLink(a, path, key) ==
    /\ TableOf[path] = None
    /\ TypeOf[key] \in TypesAt[path]
    /\ Load(a, path, TypeOf[key], None, key)

LoadTable(a, path, dt, key) ==
    /\ TableOf[path] = TypeOf[key]
    /\ dt \in TypesAt[path] \cap ChildTables
    /\ Load(a, path, dt, TypeOf[key], key)

(* The places in keys at which a key comes for the first time, and the nth *)
(* of some places.                                                         *)
Firsts(keys) == {i \in DOMAIN keys : \A j \in 1 .. i - 1 : keys[j] # keys[i]}
Nth(places, n) == CHOOSE i \in places : Cardinality({j \in places : j <= i}) = n

(* One get_list for all keys.                                              *)
Fetched(l, keys) ==
    {d \in Docs \cap Listed : rows[d] # Absent /\ TypeOf[d] = l.dt /\ \E i \in DOMAIN keys : keys[i] = d}

(* Mutant of LoadDocuments: nothing is appended for a document that is not *)
(* there, as if its place did not matter.                                  *)
LoadDocumentsSkipping(l, keys) ==
    LET docs == Fetched(l, keys)
        places == {i \in Firsts(keys) : keys[i] \in docs}
    IN  [n \in 1 .. Cardinality(places) |->
            [d \in {keys[Nth(places, n)]} |-> rows[d]]]

(* _load_documents: for each key in turn its document, which is then taken *)
(* out, or None.                                                           *)
LoadDocuments(l, keys) ==
    LET docs == Fetched(l, keys)
    IN  [i \in DOMAIN keys |->
            [d \in {x \in docs : x = keys[i] /\ i \in Firsts(keys)} |-> rows[d]]]

(* _inner: the lists of an OrderedDict that was filled key by key.         *)
LoadTables(l, keys) ==
    [n \in 1 .. Cardinality(Firsts(keys)) |->
        [d \in {x \in Docs : /\ rows[x] # Absent /\ TypeOf[x] = l.dt
                             /\ ParentOf[x] = keys[Nth(Firsts(keys), n)]} |-> rows[d]]]

Results(l, keys) == IF l.parent = None THEN LoadDocuments(l, keys) ELSE LoadTables(l, keys)

Pending(l) == {a \in DOMAIN asks : asks[a].loader = l /\ asks[a].answer = None}

(* What the future of a key in the queue is set to: the result in the same *)
(* place, with the fields that were read, or the error for all of them. It *)
(* stays open if there are too few results.                                *)
Refusal == [rows |-> None, fields |-> {}]
AnswerOf(l, key) ==
    LET queue == loaders[l].queue
        results == Results(l, queue)
        place == CHOOSE i \in DOMAIN queue : queue[i] = key
    IN  IF Refused(l) THEN Refusal
        ELSE IF place \in DOMAIN results
        THEN [rows |-> results[place], fields |-> loaders[l].fields]
        ELSE None

(* Mutants of Dispatch: the loader's cache is kept; a query that is        *)
(* refused leaves its keys without an answer.                              *)
DispatchKeepsCache(l) ==
    /\ loaders[l].queue # <<>>
    /\ asks' = [a \in DOMAIN asks |->
                  IF a \in Pending(l) THEN [asks[a] EXCEPT !.answer = AnswerOf(l, asks[a].key)]
                  ELSE asks[a]]
    /\ loaders' = [loaders EXCEPT ![l].memo = [k \in DOMAIN @ |-> AnswerOf(l, k)],
                                  ![l].queue = <<>>]
    /\ UNCHANGED <<rows, selected, requested>>

DispatchLosesRefused(l) ==
    /\ loaders[l].queue # <<>> /\ ~Refused(l)
    /\ asks' = [a \in DOMAIN asks |->
                  IF a \in Pending(l) THEN [asks[a] EXCEPT !.answer = AnswerOf(l, asks[a].key)]
                  ELSE asks[a]]
    /\ loaders' = [loaders EXCEPT ![l].memo = [k \in {} |-> None], ![l].queue = <<>>]
    /\ UNCHANGED <<rows, selected, requested>>

(* FrappeDataloader.dispatch_queue: one query for all keys of the queue, a *)
(* result for each of them in turn, and the loader's cache is cleared.     *)
Dispatch(l) ==
    /\ loaders[l].queue # <<>>
    /\ asks' = [a \in DOMAIN asks |->
                  IF a \in Pending(l) THEN [asks[a] EXCEPT !.answer = AnswerOf(l, asks[a].key)]
                  ELSE asks[a]]
    /\ loaders' = [loaders EXCEPT ![l].memo = [k \in {} |-> None], ![l].queue = <<>>]
    /\ UNCHANGED <<rows, selected, requested>>

(* setValue, saveDoc and deleteDoc, in the request's own transaction.      *)
Mutate(d, version) ==
    /\ rows' = [rows EXCEPT ![d] = version]
    /\ asks' = [a \in DOMAIN asks |->
                  IF asks[a].answer # None THEN asks[a]
                  ELSE [asks[a] EXCEPT !.seen = @ \cup {Found(rows', asks[a].loader, asks[a].key)}]]
    /\ UNCHANGED <<selected, requested, loaders>>

SetValue(d) == rows[d] # Absent /\ rows[d] < MaxVersion /\ Mutate(d, rows[d] + 1)
SaveDoc(d) == IF rows[d] = Absent THEN Mutate(d, 0) ELSE SetValue(d)
DeleteDoc(d) == rows[d] # Absent /\ Mutate(d, Absent)

-----------------------------------------------------------------------------
Answered == {a \in DOMAIN asks : asks[a].answer # None}

(* Whoever loads a key gets the rows of that key, and as they were at some *)
(* moment after it asked, also when the same key was loaded before a       *)
(* mutation of the same request (the purpose of FrappeDataloader).         *)
OwnAnswer ==
    \A a \in Answered :
        asks[a].answer # Refusal => asks[a].answer.rows \in asks[a].seen

(* It gets every field it asked for and may read, and no others.           *)
FieldsArrive(a) ==
    LET l == asks[a].loader
    IN  asks[a].answer # Refusal =>
            asks[a].answer.fields = Wanted(asks[a].path, l.dt, l.parent)

(* At a path that leads to one DocType, at least.                          *)
AskedFieldsArrive ==
    \A a \in Answered : Cardinality(TypesAt[asks[a].path]) = 1 => FieldsArrive(a)

(* Why they do: no key stays in a loader's cache once it has its answer, a *)
(* queue has each key that is waiting in one place, the rows as they are   *)
(* now are among those an open ask may be answered, and a path that leads  *)
(* to one DocType has no loader with other fields.                         *)
QueueIsRight(queue, keys) ==
    /\ queue \in Seq(Docs)
    /\ \A key \in Docs : key \in keys <=> \E i \in DOMAIN queue : queue[i] = key
    /\ \A i, j \in DOMAIN queue : queue[i] = queue[j] => i = j

LoaderIsRight(l) ==
    /\ l.path \in Paths /\ l.dt \in TypesAt[l.path] /\ l.parent = TableOf[l.path]
    /\ loaders[l] = [fields |-> loaders[l].fields,
                     memo |-> [k \in {asks[a].key : a \in Pending(l)} |-> None],
                     queue |-> loaders[l].queue]
    /\ QueueIsRight(loaders[l].queue, DOMAIN loaders[l].memo)
    /\ loaders[l].fields \subseteq Fields
    /\ TypesAt[l.path] = {l.dt} => loaders[l].fields = Wanted(l.path, l.dt, l.parent)

AskIsRight(a) ==
    /\ asks[a] \in [path : Paths, loader : DOMAIN loaders, key : Docs, seen : SUBSET Finds,
                    answer : Answers \cup {None}]
    /\ asks[a].path = asks[a].loader.path
    /\ asks[a].answer = None => Found(rows, asks[a].loader, asks[a].key) \in asks[a].seen

LoadersInv ==
    /\ rows \in [Docs -> Versions \cup {Absent}]
    /\ requested \in [Paths -> (SUBSET Fields) \cup {None}]
    /\ \A p \in Paths, dt \in DocTypes :
          TypesAt[p] = {dt} => requested[p] \in {None, Wanted(p, dt, TableOf[p])}
    /\ \A l \in DOMAIN loaders : LoaderIsRight(l)
    /\ DOMAIN asks \subseteq Asks
    /\ \A a \in DOMAIN asks : AskIsRight(a)
    /\ OwnAnswer
    /\ AskedFieldsArrive

(* gql_fields.py:72 "Returns the list of requested fields for the given    *)
(* doctype": also where a dynamic link leads to several.                   *)
RequestedByDocType == \A a \in Answered : FieldsArrive(a)
=============================================================================
