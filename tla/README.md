# Specifications of frappe_graphql

frappe_graphql puts a GraphQL API over a Frappe site: it derives a schema from
the site's DocTypes, executes queries and mutations over the site's documents,
and pushes subscription messages over Frappe's websocket. The modules here are
TLA+ models of the parts of it in which several processes, or several requests
of one client, meet; TLC checks them on small instances, and TLAPS proves
theorems about them for every value of their constants.

Paths are relative to `src/frappe_graphql/` unless they start with `docs/`.

## 1. The system

### Components, their state and their operations

| Component | Source | State | Operations |
|---|---|---|---|
| Subscription registry | `utils/subscriptions.py` 29-74, 113-132, 267-318 | one redis hash per subscription field: id -> consumer (user, selection, variables, `last_ping`) | `setup_subscription`, `get_consumers`, `complete_subscription`, `remove_inactive_consumers`, `subscription_keepalive` |
| Event notification | `utils/subscriptions.py` 77-162, 200-235; `frappe_graphql/subscription/doc_events.py` | the transaction's after-commit jobs; in a job the session's user and the loop over ids | `doc_events_resolver`, `on_change`, `notify_consumer(s)`, `notify_all_consumers`, `log_error` |
| Result transformation | `utils/subscriptions.py` 165-197, 238-264 | the process-wide schema, to which a field `__subscription__` is added for one execution | `gql_transform`, `filter_selection_set` |
| Cursor pagination | `utils/cursor_pagination.py` | none of its own; the client holds the cursor, the filter list is the request's | `resolve`, `get_sort_args`, `process_filters`, `get_cursor_filter`, `to_cursor`, `from_cursor` |
| Schema and caches | `utils/loader.py`, `utils/resolver/__init__.py`, `root_query.py`, `utils.py`, `cache.py` | the schema per process, two name maps in redis | `get_schema`, `setup_default_resolvers`, `get_singular_doctype`, `get_plural_doctype`, `clear_cache` |
| SDL generation | `utils/generate_sdl` | a file for each DocType | `make_doctype_sdl_files`, the names of types and root fields |
| Request handling | `api.py`, `graphql.py` | the request's transaction, its output and error log | `execute_gql_query`, rollback and status code |
| Depth limit | `utils/depth_limit_validator.py` | none | a validation rule over a query's selection tree |
| Request-local caches | `utils/permissions.py`, `utils/gql_fields.py` | fields collected from the selections and kept in the context, permitted fields in `frappe.local` | `get_doctype_requested_fields`, `get_allowed_fieldnames_for_doctype` |
| Dataloaders | `utils/resolver/dataloaders`, `link_field.py`, `child_tables.py` | loaders per path in `frappe.local`, their queue and cache | `load`, `dispatch_queue`, batch functions |
| Mutations | `frappe_graphql/mutations` | the documents in the request's transaction | `setValue`, `saveDoc`, `deleteDoc` |
| Other resolvers, commands | `utils/resolver`, `commands` | none | thin wrappers of Frappe's document API |

### How they interact

    subscribe request --setup--> registry <--keepalive-- client
                                  ^  ^  ^
    on_change --(job at commit)-- |  |  +-- complete_subscription
      in the save's transaction   |  +----- remove_inactive_consumers (scheduler)
                                  |
    background job: notify_consumers -> notify_consumer -> gql_transform -> emit
                                                       \-> log_error, complete

- The registry is shared state without a lock. Every operation on it is a
  sequence of redis calls made by a process of its own, and a record is
  written back as a whole.
- `on_change` runs inside the saving user's transaction, reads the registry,
  and hands a list of ids to a background job that starts only after the
  commit. By then consumers have left, joined, or been renewed.
- The job works for many users one after the other by switching
  `frappe.session.user`; everything cached in `frappe.local` goes through that.
- A paginator runs one count and one data query per page, in a transaction per
  request; the rows move between two pages.
- A request runs on one thread: resolvers queue keys at loaders, which are
  dispatched when nothing else can go on, and mutations of the same request
  come in between. All of it is one transaction, which any error undoes.
- `generate_sdl` writes files, workers read them once, and both the files and
  the DocTypes change afterwards. Name maps in redis are read by all processes
  and dropped by `clear_cache`, which no reader is told of.

### What is hard, and what correctness means

| Component | Hard behaviour | Properties that make it correct |
|---|---|---|
| Registry | read-modify-write of a record and read-judge-delete of a list, interleaved with each other; a sweep that raises midway; stamps that grow old in a process | an inactive consumer leaves in the end; a completed one does not come back; a client that pings in time is never dropped |
| Notification | work put off to after the commit; consumers that come and go during the loop; user switching; exceptions in the loop | only committed changes are told of; each message is resolved as its subscriber; everybody who asked hears, once; every job ends |
| Pagination | NULLs and directions in the cursor condition; rows that change between two pages | the condition is the sort order; steady rows are seen exactly once; a walk ends |
| Result transformation | two threads, or an exception, between adding and deleting the schema's extra field | the schema is as before once everybody is through |
| Schema and caches, SDL | a store after a clear; DocTypes that change while a schema is built; files of several calls | a cached map is never older than the last clear; a field gets the resolver its SDL was written for; generated files can be built together |
| Request handling | errors of some fields in one transaction; a log that must outlive the rollback | answer, rollback, status and error log agree; every request is answered |
| Depth limit | fragments within fragments, several operations of one name | what is executed is not deeper than the limit |
| Request-local caches, dataloaders | caches by path; batches with repeated or missing keys; a change between two loads | whoever asks gets its own rows, not older than its asking, with the fields it asked for and may read |

`PROJECT.json` lists the single hazards at their lines, and for each the
properties that watch it.

## 2. The modules

| Module | What it is |
|---|---|
| `SubscriptionRegistry` | the registry and its four kinds of actors, one redis call a step |
| `TimelyClients` | the registry with clients that ping in time and processes that do not sleep too long |
| `Notifications` | from a change in a transaction through the after-commit job to the messages, on top of the registry |
| `CursorPaginator` | walks of a client through a table that others change, with the cursor condition column by column |
| `LeaseTable` | what the registry promises to clients that ping in time: an abstract specification, which `TimelyClients` implements |
| `OrderedScan` | what a cursor promises to a client that walks through a list: an abstract specification, which `CursorPaginator` implements |
| `QueryDocs` | query documents, and the algorithms over them: depth limit and collection of fields, each with a reference definition |
| `RequestLoaders` | loaders, requested fields, permissions and mutations within a request |
| `ApiRequest` | a request from its text to its answer, on top of the two |
| `SelectEnums` | the names of the enums of a DocType's Select fields |
| `SchemaNames` | SDL files, name maps and the schema built from them, on top of it |
| `SubscriptionRegistryProofs`, `TimelyClientsProofs`, `NotificationsProofs`, `CursorPaginatorProofs`, `QueryDocsProofs`, `ApiRequestProofs`, `SchemaNamesProofs` | the theorems about these models and their proofs |
| `SetInduction` | induction over the naturals, stated for sets: what the proofs about recursive functions rest on |
| `MC...` | the instances for TLC, one module per model and one cfg per run |

`TimelyClients` and `Notifications` extend `SubscriptionRegistry` and conjoin
its actions with what they add, so that a step of theirs is a step of the
registry or leaves it alone. `ApiRequest` extends `RequestLoaders`, which
extends `QueryDocs`, in the same way. No module with a state of its own uses
RECURSIVE: recursion over a document is a recursive function on its nodes.

In each module an operator introduced as a *mutant* restates the definition
next to it with a plausible mistake. No specification uses it: it is what one
substitutes to see that a property notices the mistake (`PROJECT.json`,
"mutants").

### SubscriptionRegistry

| Code | Model |
|---|---|
| `setup_subscription`: `generate_hash`, record with `last_ping=now_datetime()`, `hset` | `Setup(k, age)`, one step, since no one else knows the id before the `hset`; the stamp may be `age` old by then |
| `subscription_keepalive`: `hget`, test, stamp, `hset` | `KeepaliveRead`, `KeepaliveStamp`, `KeepaliveWrite`; the throw for an unknown consumer or field changes nothing |
| `complete_subscription`: `hget`, emit GQL_COMPLETE, `hdel` | `CompleteRead`, `CompleteEmit`, `CompleteDelete` |
| `remove_inactive_consumers`: loop over fields, `hkeys`, loop over ids with `hget`, test, `hdel` | `SweepStart`, `SweepList`, `SweepRead` (hget), `SweepJudge` (comparison with the clock), `SweepCrash` (`None.last_ping`), `SweepDelete`, `SweepFinish` |
| the clock | `Tick` |

A record is abstracted to the age of its `last_ping`, because nothing else of
it changes after `setup_subscription` and nothing else is compared. Ages
saturate one above the threshold, where the code can no longer tell them apart,
which keeps the state space finite without cutting a behaviour off. The time
unit is arbitrary: `Threshold` is five minutes in whatever unit.

What is taken as given: redis executes one command at a time; `generate_hash`
never returns an id twice; the scheduler runs one instance of a job at a time
(Frappe does not enqueue a scheduled job that is queued or running); a
`hdel` with several fields is one command. `frappe.cache().hget` may answer
from a cache local to the request, which is then the value of an earlier `hget`
of the same request: that is the interleaving in which the request slept in
between. The loops visit fields and ids in any order.

`owed` is a history variable: the consumers that were inactive when the sweep
began and have neither been pinged nor removed since.

### TimelyClients

Adds `active` clients and three clocks (`since` the last ping started,
`elapsed` in a keepalive, `judgeTime` in the sweep's judgement), and lets time
pass only while no deadline is due: a client starts a ping at least every
`Period`, and no process takes longer than `Delay` from reading a `last_ping`
to writing or judging it. docs/subscriptions.md step 4 asks for a ping "perhaps
every minute" against the code's five minutes. The assumption
`ThresholdIsAmple` says how much slack the timing needs:
`Threshold >= Period + 3 * Delay`. One delay is the stamp's way to the
registry; one the overlap of two pings of the same client, the older of which
may be written last; one the sweep's way from `hget` to the comparison. The
sweep's further way from the comparison to `hdel` costs nothing, because a
consumer that is judged inactive had no timely client any more.

`LeaseSpec` is the refinement: with the registered keys as leases and the
active ones as those whose clients rely on them, every step is one of
`LeaseTable` or changes neither. `Setup` grants, `Abandon` leaves, a completion
ends, the sweep's `hdel` lapses any number of leases nobody relies on, and a
keepalive's `hset` may make one linger.

### Notifications

| Code | Model |
|---|---|
| `on_change` up to `enqueue(enqueue_after_commit=True)` | `OnChange`, `OnChangeUnheard` (the early returns), `OnChangeRaise` (`len(None)`) |
| another source's enqueue of `notify_all_consumers` | `Announce` |
| Frappe's commit and rollback | `Commit`, `Rollback` (external) |
| the worker calling `notify_consumers` / `notify_all_consumers` | `JobStart`; the latter lists the consumers at that moment |
| `notify_consumer`: `hget`, `set_user`, `gql_transform`, emit, `log_error`, `complete_subscription`, `set_user` | `JobRead`/`JobSkip`, `JobDeliver`/`JobRaise`, `JobLog`/`JobLogRaise`, `JobComplete`/`JobCompleteGone`/`JobCompleting`, `JobRestore` |
| end of the loop | `JobEnd` |

Whether the execution yields errors, or raises, is a free choice: it depends on
the consumer's selection and on what its user may read. A name lookup is
modelled as the code makes it (`get_singular_doctype(doc.doctype)` is asked for
a type name, `get_type` for what it returns). Not modelled: Frappe's own retry
of a job after a database deadlock, and what `gql_transform` does to the
schema.

### CursorPaginator

`Count` and `GetPage` are the two queries of `resolve`; `Save` and `Delete` are
other requests on the same table. A row is the tuple of its sorting columns;
`CursorCondition` is `get_cursor_filter` and its two helpers, column by column,
with SQL's meaning of a comparison with NULL; `Pages` is ORDER BY with LIMIT,
which leaves the order of ties open. `FetchDir`, `Operator` and `PageInfo` are
the swap of order, operator and flags for `last`; `GoesOn` is the client, which
reads the flag of its direction. `touched` is a history variable: the rows that
others have inserted, changed or deleted since the walk began. The other rows
of the table are the `steady` ones. What is
not in it: `filter` arguments and their shared list, `sortBy` validation,
custom count and node resolvers, and SQL
collations (values are numbers). Where the code builds an empty SQL condition,
it is taken as no condition.

`Scan` maps a walk to `OrderedScan`: its rows are those that nobody has touched
so far, its order is the one the pages are fetched in. `Count` is a stutter,
`GetPage` a `Page`, and a change of a row a `Lose`.

### QueryDocs

| Code | Model |
|---|---|
| graphql-core's syntax tree | a document: the sequence of its nodes, each with its kind, name and parent |
| `get_fragments`, `get_queries_and_mutations` | `FragmentsOf`, `Spread` and `GetQueries`: of several definitions of a name the last one |
| `determine_depth`, `is_ignored` | `Crawled` (where the crawl goes from a node) and `DetermineDepth` (the nodes visited, with `depth_so_far`); `DepthErrors` and `CrawlRaises` are its two outcomes |
| `collect_fields` | `Given` (what a selection puts into the dict) and `Collected` (what is left of it there) |
| `get_field_tree_dict` | `FieldTree`, over the field nodes that graphql-core passes to a resolver |

A dict of dicts is the set of the name paths in it. The references are `Asked`,
all that a document asks for under a node, and `TooDeep`. Aliases are left out,
and so are fragments that spread themselves: on these `determine_depth` and
`collect_fields` recurse until Python's limit, unless fields in between make
the former reach its own.

### RequestLoaders

`Load` is `get_doctype_requested_fields`, the loader found in or put into
`frappe.local`, and `load`: a key in the loader's cache joins what is waiting,
another one is appended to the queue. `LoadLink` is the resolver of links and
dynamic links, `LoadTable` that of tables. `Dispatch` is
`FrappeDataloader.dispatch_queue`: one query for all keys of the queue, and the
clearing of the cache. `LoadDocuments` and `LoadTables` are the two batch
functions, which return a list of results; `AnswerOf` takes for a key the result
in the key's place in the queue, as the dataloader does. `Found`, what a key
should get, is not in terms of places.
`SetValue`, `SaveDoc`, `DeleteDoc` change the documents of the request's
transaction between any two loads. A document is the version of its contents;
which fields an answer has is kept next to its rows. An ask records (`seen`) all
the answers that would have been right since it was made. The cache of permitted
fields in `frappe.local` is a function of the user and left out: a request has
one user, and the loaders of a notification job have no context to share.

### ApiRequest

`Escape`, `Validate`, `Reject`, `Execute`, `Finish`, `Fail`, `FailUnlogged` are
`execute_gql_query` in order (an exception may escape before the validation, and
from `execute` before the operation runs), `Resolve` and `RunLoader` the execution in
between. What resolvers do beyond loading is free: they raise with any status,
change any document, ask for any load. Frappe's part is `Close`: a POST is
committed in the end, a GET, or a request whose handler raises, is not.

### SchemaNames

| Code | Model |
|---|---|
| `make_doctype_sdl_files`, `get_doctypes` | `Generate(call)`, with `Requested` and `Skipped`; a DocType whose metadata raises ends it midway |
| `get_query_type_extension`, `format_doctype` | `DocField`, `ListFields`, `Format` |
| `get_singular_doctype`, `get_plural_doctype` | `Miss`, `ReadDocTypes` and `Lookup`, between which anything may happen; `Key` is a DocType's key in a map |
| `clear_cache` | `ClearCache` |
| `get_schema`, `setup_root_query_resolvers`, `setup_default_resolvers` | `BuildStart`, then `WireField` or `WireType` for one name at a time, each with its own look into redis |

A name is a sequence of words, spaces, hyphens and the letter s, so that names
can be spelt alike; inflect's plural is a constant function. `bench graphql
generate_sdl` makes one call in a process of its own, so that the s forms it adds
to `IGNORED_DOCTYPES` are ignored in that call only. A map in redis is
the set of DocTypes it was computed from. The builder is one worker, other
processes appear as one that looks up singulars (`on_change`).

Two things are coarser than the code. `get_all` reads what is committed; in a
transaction that has read before it may see older DocTypes, and a map computed
by a transaction that began before `clear_cache` is then older than it, like one
that was being computed at that moment (`late`). `ResolverFits` does not rest on
the age of a map. And the files of one call are written in one step: a worker
that reads the directory meanwhile sees some of them, as it does after a call
that has raised midway. `FilesHaveCauses` is about the files one by one, and what
`ResolverFits` says is about the names that are in the schema, however few.

`SelectEnums` has the three passes of `get_doctype_sdl` over the Select fields:
`Basic` for the standard ones, `Custom` for the others, `Enums` for the enums
themselves, all by `EnumName`. Its property `EnumsFit` is about all lists of
fields of the instance at once, so that `EnumsAreOwn` has it of every DocType
with a file.

## 3. The runs

Bounds are the constants of each cfg. The type invariant of a model is a conjunct
of its inductive invariant, and is named only where it is checked by itself.

| Run | Instance | Shows |
|---|---|---|
| `registry` | 2 fields, 2 ids, 2 keepalives, 1 completion, threshold 0 (an age is at the limit or beyond it); 363k states | `TypeOK`, the inductive `RegistryInv`, `SweepComplete` (a sweep that ends normally leaves no consumer that was inactive all along), `RetiredIsForever` (who is out of the registry and of every keepalive's hands never comes back), `AbandonedIsRemoved` (a consumer nobody pings any more is gone for good in the end) |
| `timely_clients` | 1 field, 2 ids, 2 pings, 1 completion, period 1, delay 1, threshold 4; 1.2M states | `TimelyInv`, `ActiveStaysRegistered`, `ActiveIsFresh`, at the smallest threshold the assumption allows; the refinement `LeaseSpec` |
| `notify_pair` | 2 subscribers of 2 users with one of three choices of filters, one of them a null; 1 event; sweep, clock; 238k states | `ResolvedAsSubscriber`, `SessionRestored`, `OnlyAskedFor`, `EndedJobReachedAll`, the inductive `NotifyInv`, `JobsEnd` |
| `notify_jobs` | 1 subscriber, 2 events in a transaction, 2 jobs, 1 keepalive; 1.0M states | `NotifyInv`, `OnlyCommittedIsHeard`, `HeardOnce` |
| `cursor` | 3 columns of which the first two can be NULL and the others tell rows apart; pages of 1; 135k states | the inductive `WalkInv`, `CursorIsExact`, `NeverTwice`, `NoneMissed`, `TotalIsServed` (total count and rows shown differ by no more than what others touched) over a first, a middle and a last page, the refinement `ScanSpec`, `WalkEnds` |
| `api_request` | all documents of up to four nodes over a few names, those nested up to the limit with up to three nodes more, and six larger queries; 4 documents, of which two change, 3 paths, 2 loads, one DocType the user cannot read; 270k states | `DepthIsExact`, `CollectedWasAsked` (the two algorithms against their references), `ExecutedIsShallow`, `OwnAnswer`, `AskedFieldsArrive`, `AnswerIsTrue`, `FailureIsLogged`, `StatusIsWorst`, `RequestEnds` and the inductive `ApiInv` |
| `schema_names` | 5 names: with a space, a table with a hyphen, two like their plural, one of them a predefined Single, and an s form that comes and goes; calls of generate_sdl for the site, for the s form's module and the predefined DocType, and for the s form by name; the builder and another process; 206k states | the inductive `SchemaInv`, `MapsAreRecent`, `ResolverFits`, `ClashHasCause` (of its two causes only the call for a part of the site occurs here, since the other DocType is always there; the theorem has both); `EnumsAreOwn` for the lists of 3 Select fields, standard or custom, whose labels repeat |

Why these bounds are enough for what they are asked. Two ids are one consumer
that stays and one that leaves, which is what it takes for a sweep to have a
list with two fates; two fields make the sweep start over with an empty
`to_remove`; two keepalives can overtake each other; a completion can come
between any two steps of the others. A third of any of them adds no new pair
of actors. The run `timely_clients` has ages below, at and beyond the limit;
the proofs lift the safety properties of all models to all sizes. For
notifications, two subscribers are one before and one after the one that
fails, in either order; two events in one transaction have two jobs that meet
in one consumer. The cursor properties are about one steady row and a cursor,
which is what a second row has left behind, wherever that row goes afterwards;
a third row gives a walk a page that is neither first nor last. The third
column tells the middle of the recursion over the columns from its ends.

In `api_request` two loads are two askers of one key, two keys of one batch, or
one before and one after a mutation; of two users one changes, at most once, and
can go and come like the role, the other is a second key for a batch. The paths are a link, a dynamic link and a table. Four nodes hold an
operation, a fragment, its spread and a field under it; those that matter to
the depth limit start from three nested fields at limit 2. In `schema_names`
one DocType that changes is what it takes for two maps to differ, and one other
process for two computations of a map to overlap.

`cursor` and `api_request` switch deadlock checking off because a walk and a
request end. Runs with a liveness property use no symmetry.

**Fairness.** `SubscriptionRegistry!Fairness`: a keepalive or a
`complete_subscription` that has begun goes on to its end (a web request runs
until it returns; the model does not kill it), the sweep is weakly fair because
`hooks.py` puts it on the scheduler's `all` event and nothing in its loop
waits, and time passes. Nothing is assumed of clients: no fairness on `Setup`,
`KeepaliveRead` or `CompleteRead`. `AbandonedIsRemoved` asks in addition that
completions stop: without that, each sweep could be cut short by one more
consumer that is completed between its `hkeys` and its `hget`.
`FairNotifySpec`: a worker takes up a queued job and runs it. `CursorPaginator!FairSpec`:
the client asks for the next page as long as there is one, and the walk is only
claimed to end once the table is left alone. `ApiRequest!FairSpec`: the one
thread of a request goes on to its end, and a loader with keys in its queue is
dispatched, as the deferred execution does when no resolver can go on; no
fairness on `Resolve`, whose bounded loads stand for a finite document.

### Disagreements between text and code

Each of these runs checks one sentence of the repository and ends in a
counterexample; `PROJECT.json` quotes the sentences.

| Run | What happens |
|---|---|
| `registry_stale_remove` | a keepalive lands between the sweep's `hget` and its `hdel`, and the consumer is deleted with a fresh `last_ping` |
| `notify_type_names` | a DocType with a space in its name is taken to have no type, so that its changes are never told |
| `notify_null_filter` | one subscriber's `doctypes: null` raises in everybody's save |
| `fields_collected` | a field in an inline fragment, or one whose name a later fragment brings again, is not in the dict of "each field found" |
| `requested_by_path` | a list whose entries link to two DocTypes: the documents of the second are read with the fields of the first |

The first is a race that the timing of `TimelyClients` keeps away from clients
that ping in time. More that the code does and that is worth knowing; most of
it is a step of a model, but no text contradicts it or no run is spent on it:

- A keepalive that has read a consumer before it was completed registers it
  again (`RetiredIsForever` says that nothing else can).
- An exception at one consumer leaves those after it without a message
  (`EndedJobReachedAll` speaks of jobs that end normally only), and a consumer
  that leaves between the sweep's `hkeys` and its `hget` ends the sweep.
- docs/subscriptions.md says that subscriptions auto-complete on error by
  default; the default of `complete_on_error` is False.
- Rows equal to the cursor in every sorting column are on no later page.
- A mutation sent by GET is answered with 200 and not kept (`AnswerIsTrue`).
- An operation that is measured as if it had the name "anonymous", or one of
  two with one name, may be too deep unnoticed by the depth limit; that it is
  not executed is due to graphql-core's own rules (`ExecutedIsShallow`).
- The s form of a DocType, generated when the DocType was not there or in a call
  that named it or was for a part of the site, keeps its file; from the next full
  generation on no new worker can build a schema (`ClashHasCause`: nothing else
  leads to it).
- The type of an uncountable DocType is not in the singular map, so that its
  links and tables get no resolvers; an uncountable Single has a root field that
  is taken for a list. Both are exceptions in `ResolverFits`.
- Two Select fields with the label "Status", of which the later is named
  `status`, get enums of the same name, and the schema cannot be built; a custom
  field whose label repeats a standard field's is typed with that one's enum.
  Both are exceptions in `EnumsFit`.
- A DocType that was deleted stays in the maps until `clear_cache`; if its file
  is still there, `get_meta` raises and with it `get_schema`.

## 4. The theorems

Every safety property that a passing run checks, invariant or action property,
is a theorem here, for all values of the constants that meet the named
assumptions. An assumption is in the module that declares the constants, and
TLC evaluates it for the instance of each run.

`SubscriptionRegistryProofs`, for all sets of fields, ids, requests and
completers and every threshold, from `ThresholdAssumption` and
`NoKeyAssumption` only:

- `RegistryTyped`: `Spec => []TypeOK`. `TypeOK` is inductive; it also says that
  no key with an unminted id is registered or held by anybody, without which
  `Setup` could hand out an id that a keepalive is about to write.
- `RegistrySafe`: `Spec => []RegistryInv`. The strengthening is
  `OwedIsPending`: whoever the sweep owes a removal is still in its hands, in a
  field it has not reached, on the list it has not read, under judgement with
  an expired age, or on `to_remove`; and `HandsEmpty`: between two fields the
  sweep holds nobody. `SweepFinish` has no field left and empty hands, so that
  nobody is owed anything.
- `SweepIsComplete`: `Spec => SweepComplete`, from `RegistryInv`.
- `RetiredStaysAway`: `Spec => RetiredIsForever`, from `TypeOK`: only `Setup`
  and `KeepaliveWrite` add a key, the former with an unminted id, the latter
  with one it holds.

`TimelyClientsProofs`, with `PeriodAssumption`, `DelayAssumption` and
`ThresholdIsAmple` besides:

- `TimelySafe`: `TimelySpec => []TimelyInv`. The strengthening is `PingBound`:
  the stored age of an active client is at most `since + Delay`, or some ping of
  it is under way and the age is at most `Period + Delay + elapsed` of that
  ping. The second disjunct is what two overlapping pings need: while one runs,
  the other may overwrite the record with its older stamp.
- `ActiveNeverDropped` (`ActiveStaysRegistered`) and `ActiveAlwaysFresh`
  (`ActiveIsFresh`: the age is never above `Period + 2 * Delay`) follow from it.

- `RegistryIsLeaseTable`: `TimelySpec => LeaseSpec`. Initial states map to
  initial states (`LeaseInit`), and every step to a step of the table or to a
  stutter (`LeaseStep`), given `TimelyInv` before and after it: that a lapsing
  lease has no client left is `PingBound` with `ThresholdIsAmple`.

`NotificationsProofs`, from `FieldsAssumption`, `RecordsAssumption` and
`JobsAssumption`:

- `NotifyKeepsRegistry`: `NotifySpec => Spec`. Every step is one of the registry
  or leaves it alone (`NotifyIsRegistryStep`); `SweepComplete` and
  `RetiredIsForever` are thereby promises also of a registry whose consumers
  are completed by jobs (`NotifyKeepsPromises`).
- `NotifySafe`: `NotifySpec => []NotifyInv`, of which the invariants
  `NotifyTyped`, `CommittedOnly`, `SubscribersEyesOnly`, `SessionIsRestored` and
  `AskedForOnly` and the action properties `JobReachesAll` and `ToldOnce` follow.
  None of the properties is inductive by itself. A message carries the session
  in which it was sent, so `SessionIsRight` has the session from the `hget` to
  the message, and `NoGuestListens` that no record of a guest is registered or
  about to be written back by a keepalive. What a consumer asked for was
  compared when the list was made, so `ListedAsked` keeps it for the list and
  puts the loop's consumer on it. `OnlyCommittedRuns` ties a job to its commit.
  `ToldAreBehind` and `OwedAreAhead` split the list at the loop: who was told is
  off `todo` and not current, who stayed registered is on `todo`, current or
  told; at the end of the loop `todo` is empty.

`CursorPaginatorProofs`, from `RowsAssumption`, `WidthAssumption`,
`ContentsAssumption`, `PageSizeAssumption` and `NoCursorAssumption`:

- `ConditionIsOrder`: the condition that `get_cursor_filter` builds by recursion
  over the columns, with its NULL cases and SQL's three-valued comparison
  behind it, holds of exactly the rows after the cursor in the lexicographic
  order, for any number of columns and either direction. The induction is on
  the column, from the last one back. `ConditionExact` states it of the walk.
- `WalkSafe`: `[]WalkInv`, whose part `PassedAreServed` says that the untouched
  rows shown so far are those at or before the cursor, once each. That makes
  `NeverTwice` and `NoneMissed` one equation. It rests on `Follows` being a
  strict total order (`FollowsIsAnOrder`), on the last row of a page being the
  last in that order (`LastOfPage`, by a greatest element of a finite set), and
  on every untouched row that the cursor has not passed matching the condition.
  `OthersAreTouched` is for `TotalIsServed`: what was counted is between the steady
  rows and those that are steady or touched.
- `WalkIsScan`: `Spec => ScanSpec`. Every step is one of `OrderedScan` or a stutter
  (`ScanStep`), given `WalkInv` before and after it: what the new cursor has
  passed comes before what it has not (`ShownComeFirst`), and somebody else's
  change takes one row out of the scan and leaves the others' order alone.
- `ShownOnce`, `AllShown` and `CountIsShown` follow from `WalkSafe`. All of these have
  a hypothesis, `LastColumnIsKnown`: no row is NULL in the last sorting column.
  Without it the theorems are false of the code: for a cursor with NULL in its
  last column the condition lets the cursor's own row through again. The
  default `sortBy` column, `modified`, is never NULL. The tables of the model
  have no two rows that agree in all sorting columns; ties are hazards without
  a property.

`QueryDocsProofs`, about the two recursive algorithms, for well-formed documents
of any size, from `NamesAssumption`, `AnonymousAssumption` and
`MaxDepthAssumption`:

- `DepthErrorsAreExact`: where no fragment is missing, `determine_depth` reports
  a document if and only if some measured operation has a path of fields longer
  than the limit. What a crawl visits from a node at some depth is compared with
  what the document asks for under that node (`CrawlIsExact`).
- `CollectedIsAsked`: where no fragment is missing, `collect_fields` finds only
  what is asked for, and all of it in a document without inline fragments
  and without names that come twice.
- `AllAreMeasured`: where names of operations differ, as graphql-core's rules
  demand, the operations measured are all.

`ApiRequestProofs`, from the assumptions of `QueryDocs`, `DocumentsAssumption`,
`InitialRowsAssumption`, `CodesAssumption`, `MaxVersionAssumption`,
`DocTypesAssumption`, `FieldOfAssumption`, `TypesAssumption`, `ChangingAssumption`
and `NoneAssumption`:

- `RequestSafe`: `[]ApiInv`. In the loaders' part, `AskIsRight` has the rows as
  they are *now* among the right answers of every ask still open, which a
  mutation and the rollback have to keep up, and `LoaderIsRight` has in the cache
  of a loader the keys of its open asks and no other, so that no one joins an
  answer that is already out, and in its queue the same keys, each in one place
  (`QueueIsRight`). That is what makes the places of the results right
  (`ResultsInPlace`): when no key comes twice, the nth first occurrence of a key
  is the nth key (`NthOfAll`). The fields of a loader, and those remembered for
  a path, are the wanted ones where the path leads to one DocType.
  `StageIsRight` says what `execute_gql_query` has established by each stage:
  nothing loaded before the execution, `rows = made` until a failure, status and
  log as the errors demand afterwards. `AnswersAreOwn`, `FieldsAreAsked`,
  `FailuresAreLogged` and `StatusSaysWorst` follow.
- `AnswersAreTrue`: the step that closes a request publishes its mutations just
  if it was a POST answered without errors.
- `DepthIsMeasured` and `CollectsWhatWasAsked` carry the theorems about documents
  over to every request; `DeepIsNotExecuted` combines `DepthErrorsAreExact`,
  `AllAreMeasured` and the stage "validated": what is executed is not too deep.

`SchemaNamesProofs`, from `CoreAssumption`, `PluralAssumption`,
`BuilderAssumption`, `SpellingAssumption` and `FieldListsAssumption`:

- `SchemaSafe`: `[]SchemaInv`. `MapsAreRecent` needs `LooksAreRecent`, that also
  what some process is still computing is recent or `late`. `ResolverFits` needs
  `MapsKnowCore` and `WiringIsRight`: what was wired so far is right, and a field
  is looked for among the plurals only after the singulars did not have it,
  which no DocType of `Core` can cause, although the two looks may meet maps
  of different age. `ClashHasCause` needs
  `FilesHaveCauses`, of all files and not of two that clash: what a call for the
  whole site writes unnamed is no s form of another DocType then there. `SpellingAssumption` says of
  inflect's plurals that they add no hyphen and are not their singular with
  other spaces. It also says that a name without its spaces is a sequence of the
  name's pieces; that is true of `SelectSeq` for all names, but `SelectSeq` is
  defined by recursion and the provers cannot unfold it.
- `SchemaTyped`, `MapsAreFresh`, `ClashesHaveCauses` and `ResolversFit` follow.
- `EnumsAlwaysFit`: `EnumsFit` for lists of Select fields of any length, hence
  `EnumsStayOwn`. The pass that names the enums is a recursive function of how
  many fields it has been through; `GeneratedIsWell` is its loop invariant.

**Induction.** The library's induction rules take an operator, which the
provers cannot instantiate. `SetInduction` has the same for sets: a set with 0
and the successor of each member contains the naturals (`NatsBySuccessor`, from
the pigeonhole principle for finite sets), a set that contains each thing beyond
which it has everything contains everything below a bound
(`DownwardInduction`), and a recursive function whose value at a node rests only
on nodes beyond it exists (`DownwardRecursion`, without which TLA+'s CHOOSE
would say nothing of `f[x]`). Every use gives the set, a bound and a rank: a
node's number in its document, the column, the fields still to name.

**Only model-checked** are the liveness properties `AbandonedIsRemoved`,
`JobsEnd`, `WalkEnds` and `RequestEnds`: the prover's temporal steps do not do
fairness or ENABLED. The five disagreements of section 3 are counterexamples of
TLC and need no proof. The plural function and the pieces of names are
constants, so nothing is proved of inflect or of real spellings.

## 5. Plan

Done: registry, timing and lease table; notification jobs; cursor walks;
requests with their documents and loaders; schema and names; and the theorems
about all of them. Both
abstract specifications, of the registry and of a walk, are shown to be
implemented. Next, in this order:

1. A request as a transaction: an abstract specification of a step that either
   publishes all of its mutations or none, implemented by `ApiRequest`, and
   proved like `RegistryIsLeaseTable`.
2. `gql_transform`'s add and delete of `__subscription__` in a schema that
   threads share, and the `filter` list that custom paginators share
   (`cursor_pagination.py` 50-51, 71-74).

## 6. Not modelled, and why

- Select fields, translations, the mandatory check, HTTP helpers, exceptions,
  roles, introspection: functions of one value, without state.
- The other fields of a type in the SDL; the schema processors of other apps.
- File uploads, commands, hooks and the error log DocType: I/O and
  configuration.
- Frappe itself (transactions, `get_list`, the job queue, redis) and graphql-core
  appear only as far as the code uses them, and are marked external in the map.
- Killing a process in the middle of a request to the registry: the model lets
  every actor sleep for ever in the safety runs, which leaves the same shared
  state as a kill.
