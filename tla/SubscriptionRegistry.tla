------------------------ MODULE SubscriptionRegistry ------------------------
(***************************************************************************)
(* The registry of GraphQL subscription consumers that                     *)
(* frappe_graphql/utils/subscriptions.py keeps in redis: one hash per      *)
(* subscription field, from a subscription id to the consumer's record.    *)
(*                                                                         *)
(* Four kinds of actors share it without a lock, each in a process of its  *)
(* own: web requests that subscribe (setup_subscription), web requests     *)
(* that keep a subscription alive (subscription_keepalive), callers of     *)
(* complete_subscription, and the scheduler job remove_inactive_consumers. *)
(* Every redis call is one step; whatever the others do happens between.   *)
(*                                                                         *)
(* Of a consumer's record only last_ping ever changes after it is created  *)
(* and ids are never minted twice, so that the record is abstracted to the *)
(* AGE of its last_ping: the time since it was stamped, saturated once it  *)
(* is past the threshold, the only value the code compares it with.  Time  *)
(* is discrete and its unit arbitrary: Threshold is five minutes of it.    *)
(***************************************************************************)
EXTENDS Naturals

CONSTANTS
    Subscriptions,  \* the fields of the schema's Subscription type
    Ids,            \* the subscription ids generate_hash can return
    Requests,       \* the keepalive requests that can be in flight at once
    Completers,     \* the complete_subscription calls in flight at once
    Threshold,      \* THRESHOLD_MINUTES of remove_inactive_consumers
    NoKey           \* what an actor that holds no consumer holds

Keys == Subscriptions \X Ids    \* <<the hash, the field of the hash>>

ASSUME ThresholdAssumption == Threshold \in Nat
ASSUME NoKeyAssumption == NoKey \notin Keys

VARIABLES
    consumers,      \* redis: the age of last_ping, for each registered key
    minted,         \* the ids generate_hash has returned so far
    reqStage,       \* where each keepalive request stands
    reqKey,         \* the consumer whose record it read
    reqAge,         \* the age of the last_ping it is about to write
    compStage,      \* where each complete_subscription call stands
    compKey,        \* the consumer it found
    sweepStage,     \* where remove_inactive_consumers stands
    fieldsLeft,     \* the subscription fields it has not reached
    unread,         \* the keys it listed and has not read yet
    subject,        \* the consumer whose record it read and has to judge
    subjectAge,     \* the age of the last_ping in that record
    toRemove,       \* its to_remove list
    owed            \* history: keys that were inactive when the sweep began
                    \* and were neither pinged nor removed since

reqVars == <<reqStage, reqKey, reqAge>>
compVars == <<compStage, compKey>>
sweepVars == <<sweepStage, fieldsLeft, unread, subject, subjectAge, toRemove>>
vars == <<consumers, minted, reqVars, compVars, sweepVars, owed>>

-----------------------------------------------------------------------------
Age == 0 .. Threshold + 1
Older(age) == IF age > Threshold THEN age ELSE age + 1

Registered == DOMAIN consumers
(* Mutant of Expired: the boundary itself counts as too late.              *)
ExpiredEarly(age) == age >= Threshold

Expired(age) == age > Threshold     \* last_ping + THRESHOLD_MINUTES < now

(* What hset and hdel make of the hash.                                    *)
HSet(k, age) ==
    consumers' = [j \in Registered \cup {k} |->
                      IF j = k THEN age ELSE consumers[j]]
HDel(S) == consumers' = [j \in Registered \ S |-> consumers[j]]

Init ==
    /\ consumers = [k \in {} |-> 0]
    /\ minted = {}
    /\ reqStage = [r \in Requests |-> "idle"]
    /\ reqKey = [r \in Requests |-> NoKey]
    /\ reqAge = [r \in Requests |-> 0]
    /\ compStage = [c \in Completers |-> "idle"]
    /\ compKey = [c \in Completers |-> NoKey]
    /\ sweepStage = "off"
    /\ fieldsLeft = {}
    /\ unread = {}
    /\ subject = NoKey
    /\ subjectAge = 0
    /\ toRemove = {}
    /\ owed = {}

-----------------------------------------------------------------------------
(* setup_subscription: a fresh id, last_ping is now, hset.  Nobody knows   *)
(* the id before the hset, so that the handler is one step; the stamp may  *)
(* have grown old by the time of the hset.                                 *)
Setup(k, age) ==
    /\ k[2] \notin minted
    /\ minted' = minted \cup {k[2]}
    /\ HSet(k, age)
    /\ UNCHANGED <<reqVars, compVars, sweepVars, owed>>

(* Mutant of KeepaliveRead: no "if not subscription_info".                 *)
KeepaliveReadUnchecked(r, k) ==
    /\ reqStage[r] = "idle"
    /\ reqStage' = [reqStage EXCEPT ![r] = "read"]
    /\ reqKey' = [reqKey EXCEPT ![r] = k]
    /\ UNCHANGED <<consumers, minted, reqAge, compVars, sweepVars, owed>>

(* subscription_keepalive: hget finds the consumer, or the request ends in *)
(* frappe.throw with nothing changed (also for an unknown subscription).   *)
KeepaliveRead(r, k) ==
    /\ reqStage[r] = "idle"
    /\ k \in Registered
    /\ reqStage' = [reqStage EXCEPT ![r] = "read"]
    /\ reqKey' = [reqKey EXCEPT ![r] = k]
    /\ UNCHANGED <<consumers, minted, reqAge, compVars, sweepVars, owed>>

(* subscription_info.last_ping = now_datetime()                            *)
KeepaliveStamp(r) ==
    /\ reqStage[r] = "read"
    /\ reqStage' = [reqStage EXCEPT ![r] = "stamped"]
    /\ reqAge' = [reqAge EXCEPT ![r] = 0]
    /\ UNCHANGED <<consumers, minted, reqKey, compVars, sweepVars, owed>>

(* Mutant of KeepaliveWrite: the record goes back with the last_ping that  *)
(* the registry has already.                                               *)
KeepaliveWriteOld(r) ==
    /\ reqStage[r] = "stamped"
    /\ HSet(reqKey[r], IF reqKey[r] \in Registered THEN consumers[reqKey[r]]
                       ELSE reqAge[r])
    /\ owed' = owed \ {reqKey[r]}
    /\ reqStage' = [reqStage EXCEPT ![r] = "idle"]
    /\ reqKey' = [reqKey EXCEPT ![r] = NoKey]
    /\ reqAge' = [reqAge EXCEPT ![r] = 0]
    /\ UNCHANGED <<minted, compVars, sweepVars>>

(* hset of the record read earlier: there is no test that it still exists. *)
KeepaliveWrite(r) ==
    /\ reqStage[r] = "stamped"
    /\ HSet(reqKey[r], reqAge[r])
    /\ owed' = owed \ {reqKey[r]}
    /\ reqStage' = [reqStage EXCEPT ![r] = "idle"]
    /\ reqKey' = [reqKey EXCEPT ![r] = NoKey]
    /\ reqAge' = [reqAge EXCEPT ![r] = 0]
    /\ UNCHANGED <<minted, compVars, sweepVars>>

-----------------------------------------------------------------------------
(* complete_subscription: hget (absent: return), emit GQL_COMPLETE, hdel.  *)
CompleteRead(c, k) ==
    /\ compStage[c] = "idle"
    /\ k \in Registered
    /\ compStage' = [compStage EXCEPT ![c] = "found"]
    /\ compKey' = [compKey EXCEPT ![c] = k]
    /\ UNCHANGED <<consumers, minted, reqVars, sweepVars, owed>>

CompleteEmit(c) ==
    /\ compStage[c] = "found"
    /\ compStage' = [compStage EXCEPT ![c] = "emitted"]
    /\ UNCHANGED <<consumers, minted, reqVars, compKey, sweepVars, owed>>

CompleteDelete(c) ==
    /\ compStage[c] = "emitted"
    /\ HDel({compKey[c]})
    /\ owed' = owed \ {compKey[c]}
    /\ compStage' = [compStage EXCEPT ![c] = "idle"]
    /\ compKey' = [compKey EXCEPT ![c] = NoKey]
    /\ UNCHANGED <<minted, reqVars, sweepVars>>

-----------------------------------------------------------------------------
(* remove_inactive_consumers, from hooks.scheduler_events["all"]; the      *)
(* scheduler runs one at a time.                                           *)
SweepStart ==
    /\ sweepStage = "off"
    /\ sweepStage' = "fields"
    /\ fieldsLeft' = Subscriptions
    /\ owed' = {k \in Registered : Expired(consumers[k])}
    /\ UNCHANGED <<consumers, minted, reqVars, compVars, unread, subject,
                   subjectAge, toRemove>>

(* The next field of the loop: to_remove = [], hkeys.                      *)
SweepList(s) ==
    /\ sweepStage = "fields"
    /\ s \in fieldsLeft
    /\ sweepStage' = "consumers"
    /\ fieldsLeft' = fieldsLeft \ {s}
    /\ unread' = {k \in Registered : k[1] = s}
    /\ toRemove' = {}
    /\ UNCHANGED <<consumers, minted, reqVars, compVars, subject, subjectAge,
                   owed>>

(* hget of one listed consumer.                                            *)
SweepRead(k) ==
    /\ sweepStage = "consumers"
    /\ k \in unread
    /\ k \in Registered
    /\ sweepStage' = "judging"
    /\ unread' = unread \ {k}
    /\ subject' = k
    /\ subjectAge' = consumers[k]
    /\ UNCHANGED <<consumers, minted, reqVars, compVars, fieldsLeft, toRemove,
                   owed>>

(* Mutants of SweepJudge: to_remove is assigned instead of appended to;    *)
(* should_remove is inverted.                                              *)
SweepJudgeOverwrites ==
    /\ sweepStage = "judging"
    /\ sweepStage' = "consumers"
    /\ toRemove' = IF Expired(subjectAge) THEN {subject} ELSE toRemove
    /\ subject' = NoKey
    /\ subjectAge' = 0
    /\ UNCHANGED <<consumers, minted, reqVars, compVars, fieldsLeft, unread,
                   owed>>

SweepJudgeInverted ==
    /\ sweepStage = "judging"
    /\ sweepStage' = "consumers"
    /\ toRemove' = toRemove \cup (IF Expired(subjectAge) THEN {} ELSE {subject})
    /\ subject' = NoKey
    /\ subjectAge' = 0
    /\ UNCHANGED <<consumers, minted, reqVars, compVars, fieldsLeft, unread,
                   owed>>

(* should_remove: last_ping as it was read against the clock as it is now. *)
SweepJudge ==
    /\ sweepStage = "judging"
    /\ sweepStage' = "consumers"
    /\ toRemove' = toRemove \cup (IF Expired(subjectAge) THEN {subject} ELSE {})
    /\ subject' = NoKey
    /\ subjectAge' = 0
    /\ UNCHANGED <<consumers, minted, reqVars, compVars, fieldsLeft, unread,
                   owed>>

(* hget returns None for a consumer that left since hkeys: None.last_ping  *)
(* raises AttributeError and the job ends, to_remove unused.               *)
SweepCrash(k) ==
    /\ sweepStage = "consumers"
    /\ k \in unread
    /\ k \notin Registered
    /\ sweepStage' = "off"
    /\ fieldsLeft' = {}
    /\ unread' = {}
    /\ toRemove' = {}
    /\ owed' = {}
    /\ UNCHANGED <<consumers, minted, reqVars, compVars, subject, subjectAge>>

(* All listed consumers are read: hdel of the whole to_remove list.        *)
SweepDelete ==
    /\ sweepStage = "consumers"
    /\ unread = {}
    /\ HDel(toRemove)
    /\ owed' = owed \ toRemove
    /\ sweepStage' = "fields"
    /\ toRemove' = {}
    /\ UNCHANGED <<minted, reqVars, compVars, fieldsLeft, unread, subject,
                   subjectAge>>

(* The loop over the fields is through.                                    *)
SweepFinish ==
    /\ sweepStage = "fields"
    /\ fieldsLeft = {}
    /\ sweepStage' = "off"
    /\ owed' = {}
    /\ UNCHANGED <<consumers, minted, reqVars, compVars, fieldsLeft, unread,
                   subject, subjectAge, toRemove>>

-----------------------------------------------------------------------------
(* Time passes: every last_ping, stored or held by a process, grows older. *)
Tick ==
    /\ consumers' = [k \in Registered |-> Older(consumers[k])]
    /\ reqAge' = [r \in Requests |-> IF reqStage[r] = "stamped"
                                     THEN Older(reqAge[r]) ELSE reqAge[r]]
    /\ subjectAge' = IF sweepStage = "judging" THEN Older(subjectAge)
                      ELSE subjectAge
    /\ UNCHANGED <<minted, reqStage, reqKey, compVars, sweepStage, fieldsLeft,
                   unread, subject, toRemove, owed>>

Keepalive(r) == KeepaliveStamp(r) \/ KeepaliveWrite(r)
Complete(c) == CompleteEmit(c) \/ CompleteDelete(c)
Sweep ==
    \/ SweepStart
    \/ \E s \in Subscriptions : SweepList(s)
    \/ \E k \in Keys : SweepRead(k) \/ SweepCrash(k)
    \/ SweepJudge
    \/ SweepDelete
    \/ SweepFinish

Next ==
    \/ \E k \in Keys, age \in Age : Setup(k, age)
    \/ \E r \in Requests, k \in Keys : KeepaliveRead(r, k)
    \/ \E r \in Requests : Keepalive(r)
    \/ \E c \in Completers, k \in Keys : CompleteRead(c, k)
    \/ \E c \in Completers : Complete(c)
    \/ Sweep
    \/ Tick

Spec == Init /\ [][Next]_vars

(* Started requests and calls finish, the scheduler keeps running the job  *)
(* and the clock keeps running; no client has to do anything.              *)
Fairness ==
    /\ \A r \in Requests : WF_vars(Keepalive(r))
    /\ \A c \in Completers : WF_vars(Complete(c))
    /\ WF_vars(Sweep)
    /\ WF_vars(Tick)

FairSpec == Spec /\ Fairness

-----------------------------------------------------------------------------
(* Every variable stays in its range, only consumers with a minted id are  *)
(* registered or in somebody's hands, and an actor holds a consumer        *)
(* exactly while it is at work on one.                                     *)
TypeOK ==
    /\ Registered \subseteq Keys
    /\ consumers \in [Registered -> Age]
    /\ minted \subseteq Ids
    /\ \A k \in Registered : k[2] \in minted
    /\ reqStage \in [Requests -> {"idle", "read", "stamped"}]
    /\ reqKey \in [Requests -> Keys \cup {NoKey}]
    /\ \A r \in Requests : reqKey[r] = NoKey <=> reqStage[r] = "idle"
    /\ \A r \in Requests : reqKey[r] # NoKey => reqKey[r][2] \in minted
    /\ reqAge \in [Requests -> Age]
    /\ compStage \in [Completers -> {"idle", "found", "emitted"}]
    /\ compKey \in [Completers -> Keys \cup {NoKey}]
    /\ \A c \in Completers : compKey[c] = NoKey <=> compStage[c] = "idle"
    /\ sweepStage \in {"off", "fields", "consumers", "judging"}
    /\ fieldsLeft \subseteq Subscriptions
    /\ unread \subseteq Keys
    /\ subject \in Keys \cup {NoKey}
    /\ subject = NoKey <=> sweepStage # "judging"
    /\ subjectAge \in Age
    /\ toRemove \subseteq Keys
    /\ \A k \in unread \cup toRemove : k[2] \in minted
    /\ subject # NoKey => subject[2] \in minted
    /\ owed \subseteq Registered

(* A run of remove_inactive_consumers that ends normally leaves behind no  *)
(* consumer that was inactive when the run began and was not pinged during *)
(* it, whatever joined, left or was pinged while it worked.                *)
SweepComplete == [][SweepFinish => owed = {}]_vars

(* Why: whoever is owed a removal has an expired last_ping and is still in *)
(* the job's hands, in a field to come, in its list or on to_remove; and   *)
(* between two fields its hands are empty.                                 *)
OwedIsPending ==
    \A k \in owed :
        /\ Expired(consumers[k])
        /\ \/ k[1] \in fieldsLeft
           \/ k \in unread \cup toRemove
           \/ subject = k /\ Expired(subjectAge)

HandsEmpty ==
    sweepStage \in {"off", "fields"} => unread = {} /\ toRemove = {}

RegistryInv == TypeOK /\ OwedIsPending /\ HandsEmpty

(* A consumer that was completed or swept, and that no keepalive in flight *)
(* has read before, is gone for good: it is neither registered again nor   *)
(* picked up by another keepalive (subscription_keepalive throws for an    *)
(* unknown consumer, setup_subscription mints a new id).                   *)
Retired(k) ==
    /\ k[2] \in minted
    /\ k \notin Registered
    /\ \A r \in Requests : reqKey[r] # k

RetiredIsForever == [][\A k \in Keys : Retired(k) => Retired(k)']_vars

(* A consumer nobody pings any more is removed for good in the end, though *)
(* the job may start late, be overtaken by setups and keepalives of others *)
(* or crash: once no complete_subscription call gets in its way.           *)
AbandonedIsRemoved ==
    \A k \in Keys :
        /\ <>[][\A r \in Requests : ~KeepaliveRead(r, k)]_vars
        /\ <>[][\A c \in Completers, j \in Keys : ~CompleteRead(c, j)]_vars
        => <>[](k \notin Registered)

-----------------------------------------------------------------------------
(* What a text of the repository says, which the code does not keep.       *)

(* subscriptions.py:269 "Removes Inactive Consumers if they don't send in  *)
(* a ping within the THRESHOLD_MINUTES time": the job removes no consumer  *)
(* whose last_ping in the registry is recent.                              *)
OnlyInactiveRemoved ==
    [][SweepDelete =>
          \A k \in toRemove \cap Registered : Expired(consumers[k])]_vars
=============================================================================
