------------------------ MODULE TimelyClientsProofs ------------------------
(***************************************************************************)
(* The proof that a client that pings in time keeps its subscription, for  *)
(* every period, delay and threshold that ThresholdIsAmple allows and any  *)
(* number of clients, requests and callers.                                *)
(***************************************************************************)
EXTENDS TimelyClients, SubscriptionRegistryProofs

(* The timing only restricts the registry.                                 *)
LEMMA TimelyIsRegistryStep == [TimelyNext]_timelyVars => [Next]_vars
BY DEF TimelyNext, timelyVars, Next, Subscribe, Ping, Abandon, Finish, Judge,
       Advance, Unnoticed, Complete, Sweep

(* What the two disjuncts of PingBound have in common.                     *)
LEMMA BoundIsFresh ==
    ASSUME TypeOK, ClientsOK, NEW k \in active \cap Registered, PingBound(k)
    PROVE  consumers[k] <= Period + 2 * Delay
<1>1. consumers[k] \in Nat /\ since[k] \in 0 .. Period
  BY ThresholdAssumption DEF TypeOK, Age, ClientsOK
<1>2. \A r \in InFlight(k) : elapsed[r] \in 0 .. Delay
  BY DEF InFlight, ClientsOK
<1> QED BY <1>1, <1>2, PeriodAssumption, DelayAssumption DEF PingBound

LEMMA TimelyInitInv == TimelyInit => TimelyInv
BY InitType, NoKeyAssumption, PeriodAssumption, DelayAssumption
DEF TimelyInit, TimelyInv, ClientsOK, ActiveStaysRegistered, ActiveIsSpared, Init

-----------------------------------------------------------------------------
(* The part of the invariant that is about time, action by action.  The    *)
(* types of the registry are kept by TypeStep.                             *)
TimedPart ==
    /\ ClientsOK
    /\ ActiveStaysRegistered
    /\ ActiveIsSpared
    /\ \A r \in Requests : reqStage[r] = "stamped" => reqAge[r] <= elapsed[r]
    /\ \A k \in active \cap Registered : PingBound(k)
    /\ subject \in active => subjectAge <= Period + 2 * Delay + judgeTime

LEMMA SubscribeKeepsTime ==
    ASSUME TimelyInv, NEW k \in Keys, NEW age \in Age, Subscribe(k, age)
    PROVE  TimedPart'
<1> USE DEF TimelyInv
<1>1. /\ Registered' = Registered \cup {k}
      /\ \A j \in Registered \ {k} : consumers'[j] = consumers[j]
      /\ consumers'[k] = age
  BY HSetEffect DEF Subscribe, Setup, TypeOK, Registered
<1>2. k \notin toRemove /\ k # subject
  BY NoKeyAssumption DEF Subscribe, Setup, TypeOK
<1>3. ClientsOK'
  BY PeriodAssumption DEF ClientsOK, Subscribe
<1>4. PingBound(k)'
  BY <1>1, DelayAssumption DEF PingBound, Subscribe, ClientsOK, Age
<1>5. ASSUME NEW j \in (active \cap Registered) \ {k}
      PROVE  PingBound(j)'
  <2>1. consumers'[j] = consumers[j] /\ since'[j] = since[j] /\ PingBound(j)
    BY <1>1, <1>5 DEF Subscribe, ClientsOK
  <2> QED BY <2>1 DEF PingBound, InFlight, Subscribe, Setup, reqVars
<1>6. \A j \in (active \cap Registered)' : PingBound(j)'
  BY <1>1, <1>4, <1>5 DEF Subscribe, ActiveStaysRegistered
<1> QED
  BY <1>1, <1>2, <1>3, <1>6
  DEF TimedPart, ActiveStaysRegistered, ActiveIsSpared, Subscribe, Setup,
      reqVars, sweepVars

LEMMA PingKeepsTime ==
    ASSUME TimelyInv, NEW r \in Requests, NEW k \in Keys, Ping(r, k)
    PROVE  TimedPart'
<1> USE DEF TimelyInv
<1>1. reqStage[r] = "idle" /\ reqKey[r] = NoKey /\ consumers' = consumers
  BY DEF Ping, KeepaliveRead, TypeOK
<1>2. ClientsOK'
  BY PeriodAssumption, DelayAssumption DEF ClientsOK, Ping
<1>3. ASSUME NEW j \in active \cap Registered
      PROVE  PingBound(j)'
  <2>1. j \in Keys /\ j # NoKey /\ PingBound(j)
    BY NoKeyAssumption DEF ClientsOK
  <2>2. \A q \in InFlight(j) : q \in InFlight(j)' /\ elapsed'[q] = elapsed[q]
    BY <1>1, <2>1 DEF InFlight, Ping, KeepaliveRead, ClientsOK, TypeOK
  <2>3. CASE \E q \in InFlight(j) : consumers[j] <= Period + Delay + elapsed[q]
    BY <1>1, <2>2, <2>3 DEF PingBound
  <2>4. CASE consumers[j] <= since[j] + Delay /\ j # k
    BY <1>1, <2>4 DEF PingBound, Ping, ClientsOK
  <2>5. CASE consumers[j] <= since[j] + Delay /\ j = k
    <3>1. r \in InFlight(j)' /\ elapsed'[r] = 0
      BY <2>5 DEF InFlight, Ping, KeepaliveRead, TypeOK, ClientsOK
    <3>2. consumers[j] \in Nat /\ since[j] \in 0 .. Period
      BY <2>1, ThresholdAssumption DEF TypeOK, Age, ClientsOK
    <3>3. consumers'[j] <= Period + Delay + elapsed'[r]
      BY <1>1, <2>5, <3>1, <3>2, PeriodAssumption, DelayAssumption
    <3> QED BY <3>1, <3>3 DEF PingBound
  <2> QED BY <2>1, <2>3, <2>4, <2>5 DEF PingBound
<1>4. \A q \in Requests : reqStage'[q] = "stamped" => reqAge'[q] <= elapsed'[q]
  BY DEF Ping, KeepaliveRead, TypeOK, ClientsOK
<1> QED
  BY <1>1, <1>2, <1>3, <1>4
  DEF TimedPart, ActiveStaysRegistered, ActiveIsSpared, Ping, KeepaliveRead,
      sweepVars, Registered

LEMMA AbandonKeepsTime ==
    ASSUME TimelyInv, NEW k \in Keys, Abandon(k)
    PROVE  TimedPart'
<1> USE DEF TimelyInv
<1>1. ClientsOK'
  BY PeriodAssumption DEF ClientsOK, Abandon
<1>2. \A j \in (active \cap Registered)' : PingBound(j)'
  BY DEF PingBound, InFlight, Abandon, ClientsOK, vars, reqVars, Registered
<1> QED
  BY <1>1, <1>2
  DEF TimedPart, ActiveStaysRegistered, ActiveIsSpared, Abandon, vars, reqVars,
      sweepVars, Registered

LEMMA FinishKeepsTime ==
    ASSUME TimelyInv, NEW c \in Completers, Finish(c)
    PROVE  TimedPart'
<1> USE DEF TimelyInv
<1>1. /\ Registered' = Registered \ {compKey[c]}
      /\ \A j \in Registered' : consumers'[j] = consumers[j]
  BY HDelEffect DEF Finish, CompleteDelete, TypeOK, Registered
<1>2. ClientsOK'
  <2>1. \A j \in Keys : since'[j] \in 0 .. Period
    BY PeriodAssumption DEF Finish, ClientsOK
  <2>2. since' \in [Keys -> 0 .. Period]
    BY <2>1 DEF Finish, ClientsOK
  <2> QED BY <2>2 DEF ClientsOK, Finish
<1>3. \A j \in (active \cap Registered)' : PingBound(j)'
  <2> SUFFICES ASSUME NEW j \in active \cap Registered, j # compKey[c]
               PROVE  PingBound(j)'
    BY <1>1 DEF Finish
  <2>1. consumers'[j] = consumers[j] /\ since'[j] = since[j] /\ PingBound(j)
    BY <1>1 DEF Finish, ClientsOK
  <2> QED BY <2>1 DEF PingBound, InFlight, Finish, CompleteDelete, reqVars
<1> QED
  BY <1>1, <1>2, <1>3
  DEF TimedPart, ActiveStaysRegistered, ActiveIsSpared, Finish, CompleteDelete,
      reqVars, sweepVars

LEMMA JudgeKeepsTime ==
    ASSUME TimelyInv, NEW k \in Keys, Judge(k)
    PROVE  TimedPart'
<1> USE DEF TimelyInv
<1>1. k \in active => consumers[k] <= Period + 2 * Delay
  BY BoundIsFresh DEF Judge, SweepRead
<1>2. ClientsOK'
  BY DelayAssumption DEF ClientsOK, Judge
<1>3. \A j \in (active \cap Registered)' : PingBound(j)'
  BY DEF PingBound, InFlight, Judge, SweepRead, reqVars, Registered
<1>4. (subject \in active => subjectAge <= Period + 2 * Delay + judgeTime)'
  BY <1>1, PeriodAssumption, DelayAssumption DEF Judge, SweepRead
<1> QED
  BY <1>2, <1>3, <1>4
  DEF TimedPart, ActiveStaysRegistered, ActiveIsSpared, Judge, SweepRead,
      reqVars, Registered

LEMMA AdvanceKeepsTime ==
    ASSUME TimelyInv, Advance
    PROVE  TimedPart'
<1> USE DEF TimelyInv
<1>1. Registered' = Registered
  BY DEF Advance, Tick, Registered
<1>2. \A age \in Age : Older(age) \in Nat /\ Older(age) <= age + 1
  BY ThresholdAssumption DEF Age, Older
<1>3. ClientsOK'
  <2>1. since' \in [Keys -> 0 .. Period]
    BY PeriodAssumption DEF Advance, ClientsOK
  <2>2. elapsed' \in [Requests -> 0 .. Delay]
    BY DelayAssumption DEF Advance, ClientsOK
  <2>3. judgeTime' \in 0 .. Delay
    BY DelayAssumption DEF Advance, ClientsOK
  <2> QED BY <2>1, <2>2, <2>3 DEF Advance, ClientsOK
<1>4. \A r \in Requests : reqStage'[r] = "stamped" => reqAge'[r] <= elapsed'[r]
  <2> SUFFICES ASSUME NEW r \in Requests, reqStage'[r] = "stamped"
               PROVE  reqAge'[r] <= elapsed'[r]
    OBVIOUS
  <2>1. reqAge'[r] = Older(reqAge[r]) /\ elapsed'[r] = elapsed[r] + 1
    BY DEF Advance, Tick
  <2>2. reqAge[r] <= elapsed[r] /\ reqAge[r] \in Age /\ reqAge[r] \in Nat
    BY ThresholdAssumption DEF Advance, Tick, TypeOK, Age
  <2>3. elapsed[r] \in Nat
    BY DelayAssumption DEF ClientsOK
  <2> QED BY <1>2, <2>1, <2>2, <2>3
<1>5. ASSUME NEW k \in active \cap Registered
      PROVE  PingBound(k)'
  <2>1. k \in Keys /\ k # NoKey /\ PingBound(k)
    BY NoKeyAssumption DEF ClientsOK
  <2>2. /\ consumers'[k] \in Nat /\ consumers[k] \in Nat
        /\ consumers'[k] <= consumers[k] + 1
    BY <1>2, ThresholdAssumption DEF Advance, Tick, TypeOK, Age
  <2>3. since'[k] = since[k] + 1 /\ since[k] \in Nat
    BY <2>1, PeriodAssumption DEF Advance, ClientsOK
  <2>4. ASSUME NEW r \in InFlight(k)
        PROVE  /\ r \in InFlight(k)'
               /\ elapsed'[r] = elapsed[r] + 1 /\ elapsed[r] \in Nat
    BY <2>1, DelayAssumption DEF InFlight, Advance, Tick, TypeOK, ClientsOK
  <2>5. CASE consumers[k] <= since[k] + Delay
    BY <2>2, <2>3, <2>5, DelayAssumption DEF PingBound
  <2>6. CASE \E r \in InFlight(k) : consumers[k] <= Period + Delay + elapsed[r]
    <3>1. PICK r \in InFlight(k) : consumers[k] <= Period + Delay + elapsed[r]
      BY <2>6
    <3>2. consumers'[k] <= Period + Delay + elapsed'[r]
      BY <2>2, <2>4, <3>1, PeriodAssumption, DelayAssumption
    <3> QED BY <2>4, <3>2 DEF PingBound
  <2> QED BY <2>1, <2>5, <2>6 DEF PingBound
<1>6. (subject \in active => subjectAge <= Period + 2 * Delay + judgeTime)'
  <2> SUFFICES ASSUME subject \in active
               PROVE  subjectAge' <= Period + 2 * Delay + judgeTime'
    BY DEF Advance, Tick
  <2>1. subject # NoKey /\ sweepStage = "judging"
    BY NoKeyAssumption DEF TypeOK, ClientsOK
  <2>2. subjectAge' = Older(subjectAge) /\ judgeTime' = judgeTime + 1
    BY <2>1 DEF Advance, Tick
  <2>3. subjectAge \in Age /\ subjectAge \in Nat /\ judgeTime \in Nat
    BY ThresholdAssumption, DelayAssumption DEF TypeOK, ClientsOK, Age
  <2> QED BY <1>2, <2>2, <2>3, PeriodAssumption, DelayAssumption
<1> QED
  BY <1>1, <1>3, <1>4, <1>5, <1>6
  DEF TimedPart, ActiveStaysRegistered, ActiveIsSpared, Advance, Tick

LEMMA KeepaliveKeepsTime ==
    ASSUME TimelyInv, NEW r \in Requests, Keepalive(r), UNCHANGED clientVars
    PROVE  TimedPart'
<1> USE DEF TimelyInv, clientVars
<1>1. elapsed[r] \in Nat /\ elapsed[r] <= Delay
  BY DelayAssumption DEF ClientsOK
<1>2. CASE KeepaliveStamp(r)
  <2>1. \A q \in Requests : reqStage'[q] = "stamped" => reqAge'[q] <= elapsed'[q]
    BY <1>1, <1>2 DEF KeepaliveStamp, TypeOK
  <2> QED
    BY <1>2, <2>1
    DEF KeepaliveStamp, TimedPart, ClientsOK, ActiveStaysRegistered,
        ActiveIsSpared, PingBound, InFlight, Registered, sweepVars
<1>3. CASE KeepaliveWrite(r)
  <2>1. reqAge[r] \in Nat /\ reqAge[r] \in Age /\ reqAge[r] <= elapsed[r]
    BY <1>3, ThresholdAssumption DEF KeepaliveWrite, TypeOK, Age
  <2>2. /\ Registered' = Registered \cup {reqKey[r]}
        /\ \A j \in Registered \ {reqKey[r]} : consumers'[j] = consumers[j]
        /\ consumers'[reqKey[r]] = reqAge[r]
    BY <1>3, <2>1, HSetEffect DEF KeepaliveWrite, TypeOK, Registered
  <2>3. ASSUME NEW k \in active
        PROVE  PingBound(k)'
    <3>1. CASE k = reqKey[r]
      <4>1. since[k] \in Nat
        BY PeriodAssumption DEF ClientsOK
      <4> QED BY <1>1, <2>1, <2>2, <3>1, <4>1, DelayAssumption DEF PingBound
    <3>2. CASE k # reqKey[r]
      <4>1. consumers'[k] = consumers[k] /\ PingBound(k)
        BY <2>2, <3>2 DEF ActiveStaysRegistered
      <4>2. InFlight(k) \subseteq InFlight(k)'
        BY <1>3, <3>2 DEF KeepaliveWrite, InFlight, TypeOK
      <4> QED BY <4>1, <4>2 DEF PingBound
    <3> QED BY <3>1, <3>2
  <2>4. \A q \in Requests : reqStage'[q] = "stamped" => reqAge'[q] <= elapsed'[q]
    BY <1>3 DEF KeepaliveWrite, TypeOK
  <2> QED
    BY <1>3, <2>2, <2>3, <2>4
    DEF KeepaliveWrite, TimedPart, ClientsOK, ActiveStaysRegistered,
        ActiveIsSpared, sweepVars
<1> QED BY <1>2, <1>3 DEF Keepalive

LEMMA SweepKeepsTime ==
    ASSUME TimelyInv, UNCHANGED clientVars,
           \/ SweepStart
           \/ \E s \in Subscriptions : SweepList(s)
           \/ \E k \in Keys : SweepCrash(k)
           \/ SweepJudge
           \/ SweepDelete
           \/ SweepFinish
    PROVE  TimedPart'
<1> USE DEF TimelyInv, clientVars
<1>1. /\ UNCHANGED reqVars
      /\ active \subseteq Registered'
      /\ \A k \in active : consumers'[k] = consumers[k]
  <2>1. CASE SweepDelete
    <3>1. /\ Registered' = Registered \ toRemove
          /\ \A j \in Registered \ toRemove : consumers'[j] = consumers[j]
      BY <2>1, HDelEffect DEF SweepDelete, TypeOK, Registered
    <3> QED BY <2>1, <3>1 DEF SweepDelete, ActiveStaysRegistered, ActiveIsSpared
  <2>2. CASE UNCHANGED consumers /\ UNCHANGED reqVars
    BY <2>2 DEF ActiveStaysRegistered, Registered
  <2> QED BY <2>1, <2>2
          DEF SweepStart, SweepList, SweepCrash, SweepJudge, SweepFinish
<1>2. active \cap toRemove' = {}
  <2>1. CASE SweepJudge
    <3>1. subject \in active => ~Expired(subjectAge)
      BY PeriodAssumption, DelayAssumption, ThresholdAssumption, ThresholdIsAmple
      DEF TypeOK, Age, ClientsOK, Expired
    <3> QED BY <2>1, <3>1 DEF SweepJudge, ActiveIsSpared
  <2>2. CASE toRemove' \subseteq toRemove
    BY <2>2 DEF ActiveIsSpared
  <2> QED BY <2>1, <2>2
          DEF SweepStart, SweepList, SweepCrash, SweepDelete, SweepFinish
<1>3. subject' \in active => subject' = subject /\ subjectAge' = subjectAge
  BY NoKeyAssumption
  DEF ClientsOK, SweepStart, SweepList, SweepCrash, SweepJudge, SweepDelete, SweepFinish
<1> QED
  BY <1>1, <1>2, <1>3
  DEF TimedPart, ClientsOK, ActiveStaysRegistered, ActiveIsSpared, PingBound,
      InFlight, reqVars

LEMMA OthersKeepTime ==
    ASSUME TimelyInv, UNCHANGED clientVars,
           \/ \E c \in Completers, k \in Keys : CompleteRead(c, k)
           \/ \E c \in Completers : CompleteEmit(c)
           \/ UNCHANGED vars
    PROVE  TimedPart'
BY DEF TimelyInv, TimedPart, ClientsOK, ActiveStaysRegistered, ActiveIsSpared,
       PingBound, InFlight, Registered, CompleteRead, CompleteEmit, vars,
       reqVars, sweepVars, clientVars

LEMMA TimelyStep ==
    ASSUME TimelyInv, [TimelyNext]_timelyVars
    PROVE  TimelyInv'
<1>1. TypeOK'
  BY TimelyIsRegistryStep, TypeStep DEF TimelyInv
<1>2. TimedPart'
  <2>1. CASE \E k \in Keys, age \in Age : Subscribe(k, age)
    BY <2>1, SubscribeKeepsTime
  <2>2. CASE \E r \in Requests, k \in Keys : Ping(r, k)
    BY <2>2, PingKeepsTime
  <2>3. CASE \E k \in Keys : Abandon(k)
    BY <2>3, AbandonKeepsTime
  <2>4. CASE \E c \in Completers : Finish(c)
    BY <2>4, FinishKeepsTime
  <2>5. CASE \E k \in Keys : Judge(k)
    BY <2>5, JudgeKeepsTime
  <2>6. CASE Advance
    BY <2>6, AdvanceKeepsTime
  <2>7. CASE Unnoticed
    BY <2>7, KeepaliveKeepsTime, SweepKeepsTime, OthersKeepTime DEF Unnoticed
  <2>8. CASE UNCHANGED timelyVars
    BY <2>8, OthersKeepTime DEF timelyVars, clientVars
  <2> QED BY <2>1, <2>2, <2>3, <2>4, <2>5, <2>6, <2>7, <2>8 DEF TimelyNext
<1> QED BY <1>1, <1>2 DEF TimedPart, TimelyInv

THEOREM TimelySafe == TimelySpec => []TimelyInv
<1> QED BY TimelyInitInv, TimelyStep, PTL DEF TimelySpec

(* A client that pings in time stays registered until it is completed: the *)
(* sweep can neither judge its record old nor remove it.                   *)
THEOREM ActiveNeverDropped == TimelySpec => []ActiveStaysRegistered
<1>1. TimelyInv => ActiveStaysRegistered
  BY DEF TimelyInv
<1> QED BY <1>1, TimelySafe, PTL

(* And its last_ping is at most a period and two delays old.               *)
THEOREM ActiveAlwaysFresh == TimelySpec => []ActiveIsFresh
<1>1. TimelyInv => ActiveIsFresh
  BY BoundIsFresh DEF TimelyInv, ActiveIsFresh
<1> QED BY <1>1, TimelySafe, PTL

-----------------------------------------------------------------------------
(* The refinement: every step of the registry with timely clients is a     *)
(* step of the lease table or changes nothing of it.                       *)
LEMMA LeaseInit == TimelyInit => Lease!Init
BY DEF TimelyInit, Init, Lease!Init, Registered

LEMMA LeaseStep ==
    ASSUME TimelyInv, [TimelyNext]_timelyVars
    PROVE  [Lease!Next]_(Lease!leaseVars)
<1> USE DEF TimelyInv
<1> SUFFICES ASSUME ~ UNCHANGED <<Registered, active, minted>>
             PROVE  Lease!Next
  BY DEF Lease!leaseVars
<1>1. CASE \E k \in Keys, age \in Age : Subscribe(k, age)
  <2>1. PICK k \in Keys, age \in Age : Subscribe(k, age)
    BY <1>1
  <2>2. Registered' = Registered \cup {k}
    BY <2>1, HSetEffect DEF Subscribe, Setup, TypeOK, Registered
  <2> QED BY <2>1, <2>2 DEF Subscribe, Setup, Lease!Next, Lease!Grant
<1>2. CASE \E k \in Keys : Abandon(k)
  BY <1>2 DEF Abandon, vars, Registered, Lease!Next, Lease!Leave
<1>3. CASE \E c \in Completers : Finish(c)
  <2>1. PICK c \in Completers : Finish(c)
    BY <1>3
  <2>2. Registered' = Registered \ {compKey[c]} /\ compKey[c] \in Keys
    BY <2>1, HDelEffect DEF Finish, CompleteDelete, TypeOK, Registered
  <2> QED BY <2>1, <2>2 DEF Finish, CompleteDelete, Lease!Next, Lease!End
<1>4. CASE Advance
  BY <1>4 DEF Advance, Tick, Registered
<1>5. CASE Unnoticed
  <2>1. CASE SweepDelete
    <3>1. Registered' = Registered \ toRemove /\ toRemove \in SUBSET Keys
      BY <2>1, HDelEffect DEF SweepDelete, TypeOK, Registered
    <3>2. toRemove \cap active = {}
      BY DEF ActiveIsSpared
    <3>3. Lease!Lapse(toRemove)
      BY <1>5, <2>1, <3>1, <3>2 DEF Lease!Lapse, SweepDelete, Unnoticed, clientVars
    <3> QED BY <3>1, <3>3 DEF Lease!Next
  <2>2. CASE \E r \in Requests : KeepaliveWrite(r)
    <3>1. PICK r \in Requests : KeepaliveWrite(r)
      BY <2>2
    <3>2. /\ Registered' = Registered \cup {reqKey[r]}
          /\ reqKey[r] \in Keys
          /\ reqKey[r][2] \in minted
      <4>1. reqKey[r] \in Keys /\ reqKey[r][2] \in minted
        BY <3>1 DEF KeepaliveWrite, TypeOK
      <4> QED BY <3>1, <4>1, HSetEffect DEF KeepaliveWrite, TypeOK, Registered
    <3>3. UNCHANGED <<active, minted>>
      BY <1>5, <3>1 DEF KeepaliveWrite, Unnoticed, clientVars
    <3>4. reqKey[r] \notin active
      BY <3>2, <3>3 DEF ActiveStaysRegistered
    <3> QED BY <3>2, <3>3, <3>4 DEF Lease!Next, Lease!Linger
  <2>3. CASE UNCHANGED <<consumers, minted, active>>
    BY <2>3 DEF Registered
  <2> QED
    BY <1>5, <2>1, <2>2, <2>3
    DEF Unnoticed, Keepalive, KeepaliveStamp, CompleteRead, CompleteEmit,
        SweepStart, SweepList, SweepCrash, SweepJudge, SweepFinish, clientVars
<1>6. CASE UNCHANGED <<consumers, minted, active>>
  BY <1>6 DEF Registered
<1> QED
  BY <1>1, <1>2, <1>3, <1>4, <1>5, <1>6
  DEF TimelyNext, Ping, KeepaliveRead, Judge, SweepRead, timelyVars, vars,
      clientVars

(* The registry with timely clients implements the lease table, for any    *)
(* number of clients, requests, callers and any timing ThresholdIsAmple    *)
(* allows (subscriptions.py:29-60, 113-132, 268-314).                      *)
THEOREM RegistryIsLeaseTable == TimelySpec => LeaseSpec
<1> QED
  BY LeaseInit, LeaseStep, TimelySafe, PTL DEF TimelySpec, LeaseSpec, Lease!Spec
=============================================================================
