--------------------------- MODULE Notifications ---------------------------
(***************************************************************************)
(* From a change of a document to the messages of its subscribers:         *)
(* on_change (frappe_graphql/subscription/doc_events.py) in a database     *)
(* transaction, the background job it enqueues for the commit, and the     *)
(* job itself, notify_consumers or notify_all_consumers of                 *)
(* utils/subscriptions.py, over the registry that setups, keepalives,      *)
(* completions and the sweep keep changing meanwhile.                      *)
(*                                                                         *)
(* An event is one change or announcement; it has at most one job, which   *)
(* is a process of its own and, when it completes a consumer, one of the   *)
(* registry's Completers.  What a consumer's record holds besides its      *)
(* last_ping never changes: UserOf and filter tell it by the id.           *)
(***************************************************************************)
EXTENDS SubscriptionRegistry

CONSTANTS
    DocEvents,          \* the field "doc_events"
    CompletingFields,   \* the fields set up with complete_on_error=True
    Users, Guest,
    UserOf,             \* the user each subscription id belongs to
    Filters,            \* what the subscribers may pass as "doctypes"
    Null,
    DocTypes,
    TypeName,           \* the GraphQL type name made from a DocType's name
    SdlDocTypes,        \* the DocTypes whose type the schema has
    Transactions,       \* the database transactions that change documents
    Events

ASSUME FieldsAssumption ==
    DocEvents \in Subscriptions /\ CompletingFields \subseteq Subscriptions \ {DocEvents}
ASSUME RecordsAssumption ==
    /\ UserOf \in [Ids -> Users]
    /\ Filters \subseteq [Ids -> {Null} \cup SUBSET DocTypes]
    /\ \A S \in SUBSET DocTypes : S # Null
    /\ DOMAIN TypeName = DocTypes /\ SdlDocTypes \subseteq DocTypes
ASSUME JobsAssumption == Events \subseteq Completers

VARIABLES
    filter,     \* variables.doctypes of each consumer: a set, or Null
    stage,      \* where each event and its job stand
    tx,         \* the transaction an event belongs to
    about,      \* what it is about: the field, the DocType, who triggered it
    listed,     \* subscription_ids of its job, or what get_consumers returned
    todo,       \* the ids the job's loop has not reached
    current,    \* the consumer it is notifying
    session,    \* frappe.session.user in the job
    sent,       \* history: GQL_DATA emitted, <<event, consumer, as which user>>
    committed,  \* history: the events whose transaction was committed
    steady      \* history: consumers listed and registered ever since

eventVars == <<tx, about>>
jobVars == <<todo, current, session>>
notifyVars == <<stage, eventVars, listed, jobVars, sent, committed>>
systemVars == <<vars, notifyVars>>
allVars == <<systemVars, filter, steady>>

Nothing == [field |-> DocEvents, doctype |-> Null, user |-> Guest]

NotifyInit ==
    /\ Init
    /\ filter \in Filters
    /\ stage = [e \in Events |-> "new"]
    /\ tx = [e \in Events |-> Null]
    /\ about = [e \in Events |-> Nothing]
    /\ listed = [e \in Events |-> {}]
    /\ todo = [e \in Events |-> {}]
    /\ current = [e \in Events |-> NoKey]
    /\ session = [e \in Events |-> Guest]
    /\ sent = {}
    /\ committed = {}
    /\ steady = [e \in Events |-> {}]

-----------------------------------------------------------------------------
(* doc_events_resolver throws for guests; other fields have resolvers of   *)
(* their own.                                                              *)
Subscribe(k, age) ==
    /\ k[1] = DocEvents => UserOf[k[2]] # Guest
    /\ Setup(k, age)
    /\ UNCHANGED notifyVars

(* get_singular_doctype finds a DocType by its type name, and on_change    *)
(* asks the schema for a type of the DocType's name.                       *)
TypeDefined(dt) ==
    \E d \in DocTypes : TypeName[d] = dt /\ d \in {TypeName[x] : x \in SdlDocTypes}

Listeners == {k \in Registered : k[1] = DocEvents}
Matches(k, dt) == filter[k[2]] = {} \/ dt \in filter[k[2]]
(* Mutant of Audience: the filter is forgotten.                            *)
AudienceOfAll(dt) == {k \in Listeners : dt \in DocTypes}

Audience(dt) == {k \in Listeners : Matches(k, dt)}
NullFilter == \E k \in Listeners : filter[k[2]] = Null

(* Mutant of OnChange: enqueued at once, not after the commit.             *)
OnChangeAtOnce(t, e, dt, u) ==
    /\ stage[e] = "new"
    /\ ~NullFilter
    /\ Audience(dt) # {}
    /\ TypeDefined(dt)
    /\ stage' = [stage EXCEPT ![e] = "queued"]
    /\ tx' = [tx EXCEPT ![e] = t]
    /\ about' = [about EXCEPT ![e] =
                    [field |-> DocEvents, doctype |-> dt, user |-> u]]
    /\ listed' = [listed EXCEPT ![e] = Audience(dt)]
    /\ UNCHANGED <<vars, jobVars, sent, committed>>

(* on_change finds consumers and enqueues a job for after the commit.      *)
OnChange(t, e, dt, u) ==
    /\ stage[e] = "new"
    /\ ~NullFilter
    /\ Audience(dt) # {}
    /\ TypeDefined(dt)
    /\ stage' = [stage EXCEPT ![e] = "buffered"]
    /\ tx' = [tx EXCEPT ![e] = t]
    /\ about' = [about EXCEPT ![e] =
                    [field |-> DocEvents, doctype |-> dt, user |-> u]]
    /\ listed' = [listed EXCEPT ![e] = Audience(dt)]
    /\ UNCHANGED <<vars, jobVars, sent, committed>>

(* on_change returns without a job: during a migration, an installation or *)
(* an import, with nobody listening, or for a DocType without a type.      *)
OnChangeUnheard(e, dt, inImport) ==
    /\ stage[e] = "new"
    /\ inImport \/ (~NullFilter /\ (Audience(dt) = {} \/ ~TypeDefined(dt)))
    /\ stage' = [stage EXCEPT ![e] = "unheard"]
    /\ UNCHANGED <<vars, eventVars, listed, jobVars, sent, committed>>

(* len(None), for a consumer that passed doctypes: null.  The exception    *)
(* leaves the save, and its transaction is rolled back.                    *)
OnChangeRaise(t, e) ==
    /\ stage[e] = "new"
    /\ NullFilter
    /\ stage' = [f \in Events |->
                    IF f = e \/ (stage[f] = "buffered" /\ tx[f] = t)
                    THEN "dropped" ELSE stage[f]]
    /\ UNCHANGED <<vars, eventVars, listed, jobVars, sent, committed>>

(* A custom source of events enqueues notify_all_consumers for its field.  *)
Announce(t, e, s, u) ==
    /\ stage[e] = "new"
    /\ s # DocEvents
    /\ stage' = [stage EXCEPT ![e] = "buffered"]
    /\ tx' = [tx EXCEPT ![e] = t]
    /\ about' = [about EXCEPT ![e] =
                    [field |-> s, doctype |-> Null, user |-> u]]
    /\ UNCHANGED <<vars, listed, jobVars, sent, committed>>

(* frappe runs enqueue_after_commit jobs at the commit and forgets them at *)
(* a rollback.                                                             *)
Buffered(t) == {e \in Events : stage[e] = "buffered" /\ tx[e] = t}

Settle(t, to) ==
    /\ Buffered(t) # {}
    /\ stage' = [e \in Events |-> IF e \in Buffered(t) THEN to ELSE stage[e]]
    /\ UNCHANGED <<vars, eventVars, listed, jobVars, sent>>

Commit(t) == Settle(t, "queued") /\ committed' = committed \cup Buffered(t)
Rollback(t) == Settle(t, "dropped") /\ UNCHANGED committed

-----------------------------------------------------------------------------
(* A worker takes the job up as the user who triggered the event.          *)
JobStart(e) ==
    /\ stage[e] = "queued"
    /\ listed' = [listed EXCEPT ![e] =
                    IF about[e].field = DocEvents THEN listed[e]
                    ELSE {k \in Registered : k[1] = about[e].field}]
    /\ stage' = [stage EXCEPT ![e] = "next"]
    /\ todo' = [todo EXCEPT ![e] = listed'[e]]
    /\ session' = [session EXCEPT ![e] = about[e].user]
    /\ UNCHANGED <<vars, eventVars, current, sent, committed>>

(* Mutants of JobRead: set_user is missing; the consumer stays on the list *)
(* of those to notify.                                                     *)
JobReadAsSomeoneElse(e, k) ==
    /\ stage[e] = "next"
    /\ k \in todo[e] \cap Registered
    /\ stage' = [stage EXCEPT ![e] = "transform"]
    /\ todo' = [todo EXCEPT ![e] = todo[e] \ {k}]
    /\ current' = [current EXCEPT ![e] = k]
    /\ UNCHANGED <<vars, eventVars, listed, session, sent, committed>>

JobReadAgain(e, k) ==
    /\ stage[e] = "next"
    /\ k \in todo[e] \cap Registered
    /\ stage' = [stage EXCEPT ![e] = "transform"]
    /\ current' = [current EXCEPT ![e] = k]
    /\ session' = [session EXCEPT ![e] = UserOf[k[2]]]
    /\ UNCHANGED <<vars, eventVars, listed, todo, sent, committed>>

(* notify_consumer: hget finds the consumer, set_user(consumer.user).      *)
JobRead(e, k) ==
    /\ stage[e] = "next"
    /\ k \in todo[e] \cap Registered
    /\ stage' = [stage EXCEPT ![e] = "transform"]
    /\ todo' = [todo EXCEPT ![e] = todo[e] \ {k}]
    /\ current' = [current EXCEPT ![e] = k]
    /\ session' = [session EXCEPT ![e] = UserOf[k[2]]]
    /\ UNCHANGED <<vars, eventVars, listed, sent, committed>>

(* Mutant of JobSkip: the job waits for the consumer to come back.         *)
JobSkipWaits(e, k) ==
    /\ stage[e] = "next"
    /\ k \in todo[e] \ Registered
    /\ UNCHANGED <<vars, stage, eventVars, listed, jobVars, sent, committed>>

(* hget finds nothing: return.                                             *)
JobSkip(e, k) ==
    /\ stage[e] = "next"
    /\ k \in todo[e] \ Registered
    /\ todo' = [todo EXCEPT ![e] = todo[e] \ {k}]
    /\ UNCHANGED <<vars, stage, eventVars, listed, current, session, sent,
                   committed>>

(* gql_transform runs the selection as the session's user, and the result, *)
(* with or without errors, is emitted as GQL_DATA.                         *)
JobDeliver(e, errors) ==
    /\ stage[e] = "transform"
    /\ sent' = sent \cup {<<e, current[e], session[e]>>}
    /\ stage' = [stage EXCEPT ![e] = IF errors THEN "log" ELSE "restore"]
    /\ UNCHANGED <<vars, eventVars, listed, jobVars, committed>>

(* Mutant of JobRaise: the exception is swallowed with the message.        *)
JobRaiseSwallowed(e) ==
    /\ stage[e] = "transform"
    /\ stage' = [stage EXCEPT ![e] = "restore"]
    /\ UNCHANGED <<vars, eventVars, listed, jobVars, sent, committed>>

(* gql_transform raises: no message, and the job is over.                  *)
JobRaise(e) ==
    /\ stage[e] = "transform"
    /\ stage' = [stage EXCEPT ![e] = "failed"]
    /\ UNCHANGED <<vars, eventVars, listed, jobVars, sent, committed>>

(* log_error reads the consumer once more, for its variables ...           *)
JobLog(e) ==
    /\ stage[e] = "log"
    /\ current[e] \in Registered
    /\ stage' = [stage EXCEPT ![e] =
                    IF current[e][1] \in CompletingFields THEN "complete"
                    ELSE "restore"]
    /\ UNCHANGED <<vars, eventVars, listed, jobVars, sent, committed>>

(* ... and None.variables raises if it is gone.                            *)
JobLogRaise(e) ==
    /\ stage[e] = "log"
    /\ current[e] \notin Registered
    /\ stage' = [stage EXCEPT ![e] = "failed"]
    /\ UNCHANGED <<vars, eventVars, listed, jobVars, sent, committed>>

(* Mutant of JobComplete: the job does not wait for complete_subscription. *)
JobCompleteUnawaited(e) ==
    /\ stage[e] = "complete"
    /\ CompleteRead(e, current[e])
    /\ stage' = [stage EXCEPT ![e] = "restore"]
    /\ UNCHANGED <<eventVars, listed, jobVars, sent, committed>>

(* complete_subscription, called for complete_on_error.                    *)
JobComplete(e) ==
    /\ stage[e] = "complete"
    /\ CompleteRead(e, current[e])
    /\ stage' = [stage EXCEPT ![e] = "completing"]
    /\ UNCHANGED <<eventVars, listed, jobVars, sent, committed>>

JobCompleteGone(e) ==
    /\ stage[e] = "complete"
    /\ current[e] \notin Registered
    /\ stage' = [stage EXCEPT ![e] = "restore"]
    /\ UNCHANGED <<vars, eventVars, listed, jobVars, sent, committed>>

JobCompleting(e) ==
    /\ stage[e] = "completing"
    /\ Complete(e)
    /\ stage' = [stage EXCEPT ![e] =
                    IF compStage'[e] = "idle" THEN "restore" ELSE "completing"]
    /\ UNCHANGED <<eventVars, listed, jobVars, sent, committed>>

(* Mutant of JobRestore: set_user(original_user) is missing.               *)
JobRestoreForgets(e) ==
    /\ stage[e] = "restore"
    /\ stage' = [stage EXCEPT ![e] = "next"]
    /\ current' = [current EXCEPT ![e] = NoKey]
    /\ UNCHANGED <<vars, eventVars, listed, todo, session, sent, committed>>

(* set_user(original_user), and on to the next consumer.                   *)
JobRestore(e) ==
    /\ stage[e] = "restore"
    /\ stage' = [stage EXCEPT ![e] = "next"]
    /\ current' = [current EXCEPT ![e] = NoKey]
    /\ session' = [session EXCEPT ![e] = about[e].user]
    /\ UNCHANGED <<vars, eventVars, listed, todo, sent, committed>>

JobEnd(e) ==
    /\ stage[e] = "next"
    /\ todo[e] = {}
    /\ stage' = [stage EXCEPT ![e] = "done"]
    /\ UNCHANGED <<vars, eventVars, listed, jobVars, sent, committed>>

Job(e) ==
    \/ JobStart(e)
    \/ \E k \in Keys : JobRead(e, k) \/ JobSkip(e, k)
    \/ \E errors \in BOOLEAN : JobDeliver(e, errors)
    \/ JobRaise(e)
    \/ JobLog(e) \/ JobLogRaise(e)
    \/ JobComplete(e) \/ JobCompleteGone(e) \/ JobCompleting(e)
    \/ JobRestore(e)
    \/ JobEnd(e)

-----------------------------------------------------------------------------
Source ==
    \E e \in Events :
        \/ \E t \in Transactions, dt \in DocTypes, u \in Users : OnChange(t, e, dt, u)
        \/ \E dt \in DocTypes, inImport \in BOOLEAN : OnChangeUnheard(e, dt, inImport)
        \/ \E t \in Transactions : OnChangeRaise(t, e)
        \/ \E t \in Transactions, s \in Subscriptions, u \in Users : Announce(t, e, s, u)

(* What the registry does besides, the job's own completions excepted.     *)
Background ==
    /\ \/ \E r \in Requests, k \in Keys : KeepaliveRead(r, k)
       \/ \E r \in Requests : Keepalive(r)
       \/ \E c \in Completers \ Events, k \in Keys : CompleteRead(c, k)
       \/ \E c \in Completers \ Events : Complete(c)
       \/ Sweep
       \/ Tick
    /\ UNCHANGED notifyVars

(* What the history variable steady makes of a step, whatever the step is. *)
Remember ==
    /\ steady' = [e \in Events |-> IF listed'[e] # listed[e] THEN listed'[e]
                                   ELSE steady[e] \cap DOMAIN consumers']
    /\ UNCHANGED filter

NotifyNext ==
    /\ \/ \E k \in Keys, age \in Age : Subscribe(k, age)
       \/ Source
       \/ \E t \in Transactions : Commit(t) \/ Rollback(t)
       \/ \E e \in Events : Job(e)
       \/ Background
    /\ Remember

NotifySpec == NotifyInit /\ [][NotifyNext]_allVars

(* Workers take up queued jobs and run them.                               *)
FairNotifySpec == NotifySpec /\ \A e \in Events : WF_systemVars(Job(e))

-----------------------------------------------------------------------------
Running == {"next", "transform", "log", "complete", "completing", "restore"}
Started == Running \cup {"done", "failed"}
Stages == Started \cup {"new", "unheard", "buffered", "dropped", "queued"}

(* A job holds a consumer exactly while it notifies one, and completes no  *)
(* other; whoever it knows to be registered is on its list.                *)
JobsHoldTheirs ==
    \A e \in Events :
        /\ steady[e] \subseteq listed[e]
        /\ compStage[e] # "idle" => stage[e] = "completing" /\ compKey[e] = current[e]
        /\ current[e] = NoKey <=> stage[e] \notin {"transform", "log", "complete",
                                      "completing", "restore", "failed"}

(* Every variable stays in its range.                                      *)
NotifyTypeOK ==
    /\ TypeOK
    /\ filter \in Filters
    /\ stage \in [Events -> Stages]
    /\ tx \in [Events -> Transactions \cup {Null}]
    /\ about \in [Events -> [field : Subscriptions, doctype : DocTypes \cup {Null},
                             user : Users \cup {Guest}]]
    /\ listed \in [Events -> SUBSET Keys]
    /\ todo \in [Events -> SUBSET Keys]
    /\ current \in [Events -> Keys \cup {NoKey}]
    /\ session \in [Events -> Users \cup {Guest}]
    /\ sent \subseteq Events \X Keys \X (Users \cup {Guest})
    /\ committed \subseteq Events
    /\ steady \in [Events -> SUBSET Keys]
    /\ JobsHoldTheirs

(* Nobody is told of a change that was rolled back: the job runs only once *)
(* the transaction of on_change is committed (enqueue_after_commit).       *)
OnlyCommittedIsHeard == \A m \in sent : m[1] \in committed

(* A message is resolved with the permissions of its subscriber, never of  *)
(* the user who triggered it or of the subscriber served before; no guest  *)
(* hears document events (set_user in notify_consumer, doc_events_resolver)*)
ResolvedAsSubscriber ==
    \A m \in sent : /\ m[3] = UserOf[m[2][2]]
                    /\ m[2][1] = DocEvents => m[3] # Guest

(* Whichever way notify_consumer returns, the job is the user's again who  *)
(* triggered the event.                                                    *)
SessionRestored ==
    \A e \in Events : stage[e] \in {"next", "done"} => session[e] = about[e].user

(* A consumer hears only of the field it subscribed to and of the DocTypes *)
(* it asked for, although the list was made long before the message.       *)
OnlyAskedFor ==
    \A m \in sent : /\ m[2][1] = about[m[1]].field
                    /\ m[2][1] = DocEvents => Matches(m[2], about[m[1]].doctype)

(* A job that ends normally has reached everybody who was listed for it    *)
(* and stayed registered.                                                  *)
EndedJobReachedAll ==
    [][\A e \in Events : JobEnd(e) =>
          \A k \in steady[e] : \E u \in Users : <<e, k, u>> \in sent]_allVars

(* Nobody hears of an event twice from its job.                            *)
HeardOnce ==
    [][\A e \in Events, errors \in BOOLEAN : JobDeliver(e, errors) =>
          \A u \in Users : <<e, current[e], u>> \notin sent]_allVars

(* Why.  Nobody who listens to documents is a guest, nor does a keepalive  *)
(* in flight write a guest back.                                           *)
NoGuestListens ==
    \A k \in (Registered \cup {reqKey[r] : r \in Requests}) \ {NoKey} :
        k[1] = DocEvents => UserOf[k[2]] # Guest

(* A job is enqueued for a committed event only.                           *)
OnlyCommittedRuns == \A e \in Events : stage[e] \in Started \cup {"queued"} => e \in committed

(* The job is its consumer's user from hget to the message, and otherwise, *)
(* between two consumers, the user's again who triggered the event.        *)
SessionIsRight ==
    /\ SessionRestored
    /\ \A e \in Events : stage[e] = "transform" =>
          /\ session[e] = UserOf[current[e][2]]
          /\ current[e][1] = DocEvents => session[e] # Guest

(* Whoever is listed asked for the event; the loop's consumer is one of    *)
(* them and is not ahead of it any more.                                   *)
ListedAsked ==
    \A e \in Events :
        /\ stage[e] = "new" => listed[e] = {}
        /\ todo[e] \subseteq listed[e]
        /\ stage[e] = "transform" => current[e] \in listed[e] \ todo[e]
        /\ \A k \in listed[e] :
              /\ k[1] = about[e].field
              /\ k[1] = DocEvents => Matches(k, about[e].doctype)

(* The loop is past those who were told, and at or before those who are    *)
(* still owed a message.                                                   *)
ToldAreBehind ==
    \A m \in sent :
        /\ stage[m[1]] \in Started
        /\ m[2] \in listed[m[1]] \ todo[m[1]]
        /\ stage[m[1]] = "transform" => m[2] # current[m[1]]

OwedAreAhead ==
    \A e \in Events : stage[e] \in Running =>
        \A k \in steady[e] :
            \/ k \in todo[e]
            \/ stage[e] = "transform" /\ k = current[e]
            \/ \E u \in Users : <<e, k, u>> \in sent

NotifyInv ==
    /\ NotifyTypeOK /\ NoGuestListens
    /\ OnlyCommittedRuns /\ OnlyCommittedIsHeard
    /\ SessionIsRight /\ ResolvedAsSubscriber
    /\ ListedAsked /\ ToldAreBehind /\ OwedAreAhead

(* Every job of a committed event comes to its end, whatever happens to    *)
(* the consumers on its list.                                              *)
JobsEnd ==
    \A e \in Events : e \in committed ~> stage[e] \in {"done", "failed"}

-----------------------------------------------------------------------------
(* What the texts of the repository say, which the code does not keep.     *)

(* doc_events.py:39 "Verify DocType type has beed defined in SDL": a       *)
(* change of a DocType that the schema has a type for, with somebody       *)
(* listening and no import under way, is not left unheard.                 *)
TypedChangeIsHeard ==
    [][\A e \in Events, dt \in SdlDocTypes :
          ~(OnChangeUnheard(e, dt, FALSE) /\ Audience(dt) # {})]_allVars

(* types/root.graphql:77 "doc_events(doctypes: [String!]): DocEvent": the  *)
(* argument may be null, so that no consumer makes a save fail.            *)
SaveSurvivesConsumers ==
    [][\A e \in Events : stage[e] = "new" => stage'[e] # "dropped"]_allVars
=============================================================================
