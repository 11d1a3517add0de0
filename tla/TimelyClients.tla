--------------------------- MODULE TimelyClients ---------------------------
(***************************************************************************)
(* The registry used the way docs/subscriptions.md asks for (step 4 of the *)
(* protocol: "send in keep alive requests ... perhaps every minute"): a    *)
(* client starts a keepalive at least every Period, and no process sleeps  *)
(* longer than Delay between two steps that take a last_ping from one      *)
(* place to another (stamp to hset in setup_subscription, hget to hset in  *)
(* subscription_keepalive, hget to the clock in remove_inactive_consumers).*)
(*                                                                         *)
(* The timing is an assumption about clients and processes, put on top of  *)
(* the registry's own actions: Advance is its Tick, held back while a      *)
(* deadline is due.  Anybody may keep any consumer alive (the command is   *)
(* whitelisted for guests), so that a ping needs no active client.         *)
(***************************************************************************)
EXTENDS SubscriptionRegistry

CONSTANTS
    Period,     \* the longest time between two keepalives of a client
    Delay       \* the longest time between two such steps of a process

ASSUME PeriodAssumption == Period \in Nat
ASSUME DelayAssumption == Delay \in Nat
ASSUME ThresholdIsAmple == Threshold >= Period + 3 * Delay

VARIABLES
    active,     \* consumers whose client is there and keeps the period
    since,      \* the time since a keepalive of each active one started
    elapsed,    \* the time since each keepalive request read the record
    judgeTime   \* the time since the sweep read the record it judges

clientVars == <<active, since, elapsed, judgeTime>>
timelyVars == <<vars, clientVars>>

-----------------------------------------------------------------------------
TimelyInit ==
    /\ Init
    /\ active = {}
    /\ since = [k \in Keys |-> 0]
    /\ elapsed = [r \in Requests |-> 0]
    /\ judgeTime = 0

Subscribe(k, age) ==
    /\ age <= Delay
    /\ Setup(k, age)
    /\ active' = active \cup {k}
    /\ since' = [since EXCEPT ![k] = 0]
    /\ UNCHANGED <<elapsed, judgeTime>>

Ping(r, k) ==
    /\ KeepaliveRead(r, k)
    /\ since' = [since EXCEPT ![k] = 0]
    /\ elapsed' = [elapsed EXCEPT ![r] = 0]
    /\ UNCHANGED <<active, judgeTime>>

(* The client goes away without a word.                                    *)
Abandon(k) ==
    /\ k \in active
    /\ active' = active \ {k}
    /\ since' = [since EXCEPT ![k] = 0]
    /\ UNCHANGED <<vars, elapsed, judgeTime>>

(* GQL_COMPLETE was emitted: a client that is completed stops pinging.     *)
Finish(c) ==
    /\ CompleteDelete(c)
    /\ active' = active \ {compKey[c]}
    /\ since' = [since EXCEPT ![compKey[c]] = 0]
    /\ UNCHANGED <<elapsed, judgeTime>>

Judge(k) ==
    /\ SweepRead(k)
    /\ judgeTime' = 0
    /\ UNCHANGED <<active, since, elapsed>>

Advance ==
    /\ \A k \in active : since[k] < Period
    /\ \A r \in Requests : reqStage[r] # "idle" => elapsed[r] < Delay
    /\ sweepStage = "judging" => judgeTime < Delay
    /\ Tick
    /\ since' = [k \in Keys |-> IF k \in active THEN since[k] + 1 ELSE 0]
    /\ elapsed' = [r \in Requests |-> IF reqStage[r] = "idle" THEN elapsed[r]
                                      ELSE elapsed[r] + 1]
    /\ judgeTime' = IF sweepStage = "judging" THEN judgeTime + 1 ELSE judgeTime
    /\ UNCHANGED active

(* Every other step of the registry takes no notice of the clients.        *)
Unnoticed ==
    /\ \/ \E r \in Requests : Keepalive(r)
       \/ \E c \in Completers, k \in Keys : CompleteRead(c, k)
       \/ \E c \in Completers : CompleteEmit(c)
       \/ SweepStart
       \/ \E s \in Subscriptions : SweepList(s)
       \/ \E k \in Keys : SweepCrash(k)
       \/ SweepJudge
       \/ SweepDelete
       \/ SweepFinish
    /\ UNCHANGED clientVars

TimelyNext ==
    \/ \E k \in Keys, age \in Age : Subscribe(k, age)
    \/ \E r \in Requests, k \in Keys : Ping(r, k)
    \/ \E k \in Keys : Abandon(k)
    \/ \E c \in Completers : Finish(c)
    \/ \E k \in Keys : Judge(k)
    \/ Advance
    \/ Unnoticed

TimelySpec == TimelyInit /\ [][TimelyNext]_timelyVars

-----------------------------------------------------------------------------
ClientsOK ==
    /\ active \subseteq Keys
    /\ since \in [Keys -> 0 .. Period]
    /\ elapsed \in [Requests -> 0 .. Delay]
    /\ judgeTime \in 0 .. Delay

(* A client that pings in time is never dropped: whatever the order of the *)
(* requests and of the job, its consumer stays registered until it is      *)
(* completed (remove_inactive_consumers, subscription_keepalive).          *)
ActiveStaysRegistered == active \subseteq Registered

(* Nor does the job ever put it on its to_remove list.                     *)
ActiveIsSpared == active \cap toRemove = {}

(* The age of an active client's last_ping has a bound below the threshold *)
(* even when two of its pings overtake each other and the older stamp is   *)
(* written last.                                                           *)
ActiveIsFresh ==
    \A k \in active \cap Registered : consumers[k] <= Period + 2 * Delay

(* Why they hold: the stamp a request carries is no older than the request *)
(* and the age of the stored one is bounded by the time since the latest   *)
(* ping began or, while one is under way, by how long that one has run.    *)
InFlight(k) == {r \in Requests : reqKey[r] = k}

PingBound(k) ==
    \/ consumers[k] <= since[k] + Delay
    \/ \E r \in InFlight(k) : consumers[k] <= Period + Delay + elapsed[r]

TimelyInv ==
    /\ TypeOK
    /\ ClientsOK
    /\ ActiveStaysRegistered
    /\ ActiveIsSpared
    /\ \A r \in Requests : reqStage[r] = "stamped" => reqAge[r] <= elapsed[r]
    /\ \A k \in active \cap Registered : PingBound(k)
    /\ subject \in active => subjectAge <= Period + 2 * Delay + judgeTime

(* The registry with timely clients is a lease table: whatever keepalives, *)
(* completions and the sweep do between two redis calls, a consumer leaves *)
(* the hashes by its completion or after its client has gone, and comes    *)
(* back, if ever, only after that.                                         *)
Lease == INSTANCE LeaseTable WITH
             leases <- Registered, clients <- active, ids <- minted

LeaseSpec == Lease!Spec
=============================================================================
