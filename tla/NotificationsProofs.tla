------------------------ MODULE NotificationsProofs ------------------------
(***************************************************************************)
(* Proofs about Notifications.  The jobs do to the registry only what its  *)
(* own specification allows, so that the theorems about it hold with them; *)
(* and NotifyInv is inductive, one lemma for each kind of step.            *)
(***************************************************************************)
EXTENDS Notifications, SubscriptionRegistryProofs

(* A job, as one of the Completers, takes the registry's own steps.        *)
LEMMA JobIsRegistryStep ==
    ASSUME TypeOK, NEW e \in Events, Job(e)
    PROVE  \/ \E k \in Keys : CompleteRead(e, k)
           \/ Complete(e)
           \/ UNCHANGED vars
<1>1. CASE JobStart(e)
  BY <1>1 DEF JobStart
<1>2. CASE \E k \in Keys : JobRead(e, k) \/ JobSkip(e, k)
  BY <1>2 DEF JobRead, JobSkip
<1>3. CASE \E errors \in BOOLEAN : JobDeliver(e, errors)
  BY <1>3 DEF JobDeliver
<1>4. CASE JobRaise(e) \/ JobLog(e) \/ JobLogRaise(e) \/ JobCompleteGone(e)
  BY <1>4 DEF JobRaise, JobLog, JobLogRaise, JobCompleteGone
<1>5. CASE JobComplete(e)
  <2>1. CompleteRead(e, current[e])
    BY <1>5 DEF JobComplete
  <2> QED BY <2>1 DEF CompleteRead, TypeOK
<1>6. CASE JobCompleting(e)
  BY <1>6 DEF JobCompleting
<1>7. CASE JobRestore(e) \/ JobEnd(e)
  BY <1>7 DEF JobRestore, JobEnd
<1> QED BY <1>1, <1>2, <1>3, <1>4, <1>5, <1>6, <1>7 DEF Job

LEMMA NotifyIsRegistryStep ==
    ASSUME TypeOK, [NotifyNext]_allVars
    PROVE  [Next]_vars
<1>1. CASE \E k \in Keys, age \in Age : Subscribe(k, age)
  BY <1>1 DEF Subscribe, Next
<1>2. CASE Source
  BY <1>2 DEF Source, OnChange, OnChangeUnheard, OnChangeRaise, Announce
<1>3. CASE \E t \in Transactions : Commit(t) \/ Rollback(t)
  BY <1>3 DEF Commit, Rollback, Settle
<1>4. CASE \E e \in Events : Job(e)
  BY <1>4, JobIsRegistryStep, JobsAssumption DEF Next
<1>5. CASE Background
  BY <1>5 DEF Background, Next
<1>6. CASE UNCHANGED allVars
  BY <1>6 DEF allVars, systemVars
<1> QED BY <1>1, <1>2, <1>3, <1>4, <1>5, <1>6 DEF NotifyNext

LEMMA NotifyInitInv == NotifyInit => NotifyInv
BY InitType, JobsAssumption, NoKeyAssumption, FieldsAssumption
   DEF NotifyInit, Nothing, NotifyInv, NotifyTypeOK, JobsHoldTheirs, NoGuestListens,
       OnlyCommittedRuns, OnlyCommittedIsHeard, SessionIsRight, SessionRestored,
       ResolvedAsSubscriber, ListedAsked, ToldAreBehind, OwedAreAhead, Running, Started,
       Stages, Init, Registered

-----------------------------------------------------------------------------
(* What the steps have in common.  Nobody but the job works on the         *)
(* completion it has begun ...                                             *)
LEMMA BackgroundLeavesJobs ==
    ASSUME NotifyTypeOK, Background
    PROVE  \A e \in Events : compStage'[e] = compStage[e] /\ compKey'[e] = compKey[e]
<1>1. CASE \E c \in Completers \ Events, k \in Keys : CompleteRead(c, k)
  BY <1>1, JobsAssumption DEF CompleteRead, NotifyTypeOK, TypeOK
<1>2. CASE \E c \in Completers \ Events : Complete(c)
  BY <1>2, JobsAssumption DEF Complete, CompleteEmit, CompleteDelete, NotifyTypeOK, TypeOK
<1>3. CASE \E r \in Requests : (\E k \in Keys : KeepaliveRead(r, k)) \/ Keepalive(r)
  BY <1>3 DEF KeepaliveRead, Keepalive, KeepaliveStamp, KeepaliveWrite, compVars
<1>4. CASE Sweep
  BY <1>4 DEF Sweep, SweepStart, SweepList, SweepRead, SweepCrash, SweepJudge, SweepDelete,
              SweepFinish, compVars
<1>5. CASE Tick
  BY <1>5 DEF Tick, compVars
<1> QED BY <1>1, <1>2, <1>3, <1>4, <1>5 DEF Background

(* ... and the job completes the consumer it is notifying, nobody else's.  *)
LEMMA JobCompletesItsOwn ==
    ASSUME NotifyTypeOK, NEW e \in Events,
           JobComplete(e) \/ JobCompleteGone(e) \/ JobCompleting(e)
    PROVE  /\ \A f \in Events \ {e} :
                 compStage'[f] = compStage[f] /\ compKey'[f] = compKey[f]
           /\ compStage'[e] # "idle" => stage'[e] = "completing" /\ compKey'[e] = current[e]
           /\ stage[e] \in {"complete", "completing"}
           /\ stage' = [stage EXCEPT ![e] = stage'[e]]
           /\ stage'[e] \in {"completing", "restore"}
           /\ UNCHANGED <<tx, about, listed, todo, current, session, sent, committed>>
<1> USE DEF Stages, Started, Running
<1>1. CASE JobComplete(e)
  BY <1>1, JobsAssumption
     DEF JobComplete, CompleteRead, NotifyTypeOK, TypeOK, eventVars, jobVars
<1>2. CASE JobCompleteGone(e)
  BY <1>2, JobsAssumption
     DEF JobCompleteGone, vars, compVars, NotifyTypeOK, JobsHoldTheirs, TypeOK, eventVars,
         jobVars
<1>3. CASE JobCompleting(e)
  BY <1>3, JobsAssumption
     DEF JobCompleting, Complete, CompleteEmit, CompleteDelete, NotifyTypeOK, JobsHoldTheirs,
         TypeOK, eventVars, jobVars
<1> QED BY <1>1, <1>2, <1>3

(* The steps of a job that only move it on: it tells nobody, and it leaves *)
(* a consumer it has not told only to fail.                                *)
MovesOn(e) ==
    \/ JobRaise(e) \/ JobLog(e) \/ JobLogRaise(e) \/ JobEnd(e)
    \/ JobComplete(e) \/ JobCompleteGone(e) \/ JobCompleting(e)

MovedOn(e) ==
    /\ stage[e] \in Running
    /\ stage' = [stage EXCEPT ![e] = stage'[e]]
    /\ stage'[e] \in Started \ {"next", "transform"}
    /\ stage'[e] = "failed" => stage[e] \in {"transform", "log"}
    /\ stage[e] = "transform" => stage'[e] = "failed"
    /\ stage'[e] = "done" <=> stage[e] = "next"
    /\ UNCHANGED <<tx, about, listed, todo, current, session, sent, committed>>

LEMMA JobMovesOn ==
    ASSUME NotifyTypeOK, NEW e \in Events, MovesOn(e)
    PROVE  MovedOn(e)
<1> USE DEF MovedOn
<1>1. CASE JobRaise(e)
  BY <1>1 DEF JobRaise, Running, Started, NotifyTypeOK, eventVars, jobVars
<1>2. CASE JobLog(e)
  BY <1>2 DEF JobLog, Running, Started, NotifyTypeOK, eventVars, jobVars
<1>3. CASE JobLogRaise(e)
  BY <1>3 DEF JobLogRaise, Running, Started, NotifyTypeOK, eventVars, jobVars
<1>4. CASE JobEnd(e)
  BY <1>4 DEF JobEnd, Running, Started, NotifyTypeOK, eventVars, jobVars
<1>5. CASE JobComplete(e) \/ JobCompleteGone(e) \/ JobCompleting(e)
  BY <1>5, JobCompletesItsOwn DEF Running, Started, NotifyTypeOK
<1> QED BY <1>1, <1>2, <1>3, <1>4, <1>5 DEF MovesOn

(* Before its job starts, an event is only put off or dropped, or it is    *)
(* queued with the commit of its transaction.                              *)
Settles ==
    \/ \E e \in Events, dt \in DocTypes, inImport \in BOOLEAN :
          OnChangeUnheard(e, dt, inImport)
    \/ \E e \in Events, t \in Transactions : OnChangeRaise(t, e)
    \/ \E t \in Transactions : Commit(t) \/ Rollback(t)

Settled ==
    /\ \A f \in Events : stage'[f] # stage[f] =>
          /\ stage[f] \in {"new", "buffered"}
          /\ stage'[f] \notin Started \cup {"new"}
          /\ stage'[f] = "queued" => f \in committed'
    /\ committed \subseteq committed' /\ committed' \subseteq Events
    /\ UNCHANGED vars
    /\ UNCHANGED <<tx, about, listed, todo, current, session, sent>>

LEMMA EventSettles ==
    ASSUME NotifyTypeOK, Settles
    PROVE  Settled /\ stage' \in [Events -> Stages]
<1> USE DEF Settled, Started, Running, Stages
<1>1. CASE \E e \in Events, dt \in DocTypes, inImport \in BOOLEAN :
                OnChangeUnheard(e, dt, inImport)
  BY <1>1 DEF OnChangeUnheard, NotifyTypeOK, eventVars, jobVars
<1>2. CASE \E e \in Events, t \in Transactions : OnChangeRaise(t, e)
  BY <1>2 DEF OnChangeRaise, NotifyTypeOK, eventVars, jobVars
<1>3. CASE \E t \in Transactions : Commit(t)
  BY <1>3 DEF Commit, Settle, Buffered, NotifyTypeOK, eventVars, jobVars
<1>4. CASE \E t \in Transactions : Rollback(t)
  BY <1>4 DEF Rollback, Settle, Buffered, NotifyTypeOK, eventVars, jobVars
<1> QED BY <1>1, <1>2, <1>3, <1>4 DEF Settles

(* What the clients and the scheduler do besides concerns no job.          *)
Aside ==
    /\ UNCHANGED <<stage, tx, about, listed, todo, current, session, sent, committed>>
    /\ \A e \in Events : compStage'[e] = compStage[e] /\ compKey'[e] = compKey[e]

LEMMA OthersStepAside ==
    ASSUME NotifyTypeOK, (\E k \in Keys, age \in Age : Subscribe(k, age)) \/ Background
    PROVE  Aside
<1>1. CASE \E k \in Keys, age \in Age : Subscribe(k, age)
  BY <1>1 DEF Subscribe, Setup, compVars, notifyVars, eventVars, jobVars, Aside
<1>2. CASE Background
  BY <1>2, BackgroundLeavesJobs DEF Background, notifyVars, eventVars, jobVars, Aside
<1> QED BY <1>1, <1>2

(* The kinds of steps there are.                                           *)
LEMMA NotifyCases ==
    ASSUME NotifyTypeOK, NotifyNext
    PROVE  \/ Aside
           \/ Settled /\ stage' \in [Events -> Stages]
           \/ \E e \in Events, t \in Transactions, u \in Users :
                 \/ \E dt \in DocTypes : OnChange(t, e, dt, u)
                 \/ \E s \in Subscriptions : Announce(t, e, s, u)
           \/ \E e \in Events : JobStart(e) \/ JobRestore(e) \/ (MovesOn(e) /\ MovedOn(e))
           \/ \E e \in Events, k \in Keys : JobRead(e, k) \/ JobSkip(e, k)
           \/ \E e \in Events, errors \in BOOLEAN : JobDeliver(e, errors)
BY EventSettles, JobMovesOn, OthersStepAside
   DEF NotifyNext, Source, Job, MovesOn, Settles

-----------------------------------------------------------------------------
(* The parts of NotifyInv, one by one.  A job completes what it holds.     *)
LEMMA JobsHoldKept ==
    ASSUME NotifyInv, TypeOK', NotifyNext
    PROVE  JobsHoldTheirs'
<1>0. NotifyTypeOK /\ Remember
  BY DEF NotifyInv, NotifyNext
<1> USE DEF NotifyInv, NotifyTypeOK
<1>1. CASE Aside
  BY <1>0, <1>1 DEF Aside, JobsHoldTheirs, Remember
<1>2. ASSUME NEW e \in Events, NEW t \in Transactions, NEW dt \in DocTypes,
             NEW u \in Users, OnChange(t, e, dt, u)
      PROVE  JobsHoldTheirs'
  BY <1>0, <1>2 DEF OnChange, vars, jobVars, compVars, JobsHoldTheirs, Remember
<1>3. ASSUME NEW e \in Events, NEW t \in Transactions, NEW s \in Subscriptions,
             NEW u \in Users, Announce(t, e, s, u)
      PROVE  JobsHoldTheirs'
  BY <1>0, <1>3 DEF Announce, vars, jobVars, compVars, JobsHoldTheirs, Remember
<1>4. CASE Settled /\ stage' \in [Events -> Stages]
  <2>1. \A f \in Events :
            \/ stage[f] \in Running \cup {"failed"}
            \/ stage'[f] \in Running \cup {"failed"}
            => stage'[f] = stage[f]
    BY <1>4 DEF Settled, Started, Running
  <2>2. \A f \in Events : steady'[f] \subseteq steady[f]
    BY <1>0, <1>4 DEF Settled, Remember
  <2> QED BY <1>0, <1>4, <2>1, <2>2 DEF Settled, vars, compVars, JobsHoldTheirs, Running
<1>5. ASSUME NEW e \in Events, JobStart(e)
      PROVE  JobsHoldTheirs'
  BY <1>0, <1>5 DEF JobStart, vars, compVars, JobsHoldTheirs, Remember
<1>6. ASSUME NEW e \in Events, NEW k \in Keys, JobRead(e, k)
      PROVE  JobsHoldTheirs'
  BY NoKeyAssumption, <1>0, <1>6 DEF JobRead, vars, compVars, JobsHoldTheirs, Remember
<1>7. ASSUME NEW e \in Events, NEW k \in Keys, JobSkip(e, k)
      PROVE  JobsHoldTheirs'
  BY <1>0, <1>7 DEF JobSkip, vars, compVars, JobsHoldTheirs, Remember
<1>8. ASSUME NEW e \in Events, NEW errors \in BOOLEAN, JobDeliver(e, errors)
      PROVE  JobsHoldTheirs'
  BY <1>0, <1>8 DEF JobDeliver, vars, jobVars, compVars, JobsHoldTheirs, Remember
<1>9. ASSUME NEW e \in Events, MovesOn(e), MovedOn(e)
      PROVE  JobsHoldTheirs'
  <2>1. /\ listed' = listed /\ current' = current
        /\ stage'[e] \in {"log", "complete", "completing", "restore", "failed", "done"}
        /\ stage[e] = "next" => stage'[e] = "done"
        /\ stage[e] # "next" => stage'[e] # "done"
        /\ \A f \in Events \ {e} : stage'[f] = stage[f]
    BY <1>0, <1>9 DEF MovedOn, Started, Running
  <2>2. \A f \in Events : steady'[f] \subseteq steady[f]
    BY <1>0, <2>1 DEF Remember
  <2>3. /\ compStage'[e] # "idle" => stage'[e] = "completing" /\ compKey'[e] = current[e]
        /\ \A f \in Events \ {e} : compStage'[f] = compStage[f] /\ compKey'[f] = compKey[f]
    BY <1>0, <1>9, JobCompletesItsOwn
       DEF MovesOn, JobRaise, JobLog, JobLogRaise, JobEnd, vars, compVars, JobsHoldTheirs
  <2>4. stage[e] \in Running
    BY <1>9 DEF MovedOn
  <2> QED BY <2>1, <2>2, <2>3, <2>4 DEF JobsHoldTheirs, Running
<1>10. ASSUME NEW e \in Events, JobRestore(e)
      PROVE  JobsHoldTheirs'
  BY <1>0, <1>10 DEF JobRestore, vars, compVars, JobsHoldTheirs, Remember
<1> QED BY <1>0, NotifyCases, <1>1, <1>2, <1>3, <1>4, <1>5, <1>6, <1>7, <1>8, <1>9,
           <1>10

(* Every variable stays in its range.                                      *)
LEMMA NotifyTypeKept ==
    ASSUME NotifyInv, TypeOK', NotifyNext
    PROVE  JobsHoldTheirs' => NotifyTypeOK'
<1>0. NotifyTypeOK /\ Remember
  BY DEF NotifyInv, NotifyNext
<1> USE DEF NotifyInv, NotifyTypeOK
<1>1. CASE Aside
  BY <1>0, <1>1 DEF Aside, Remember
<1>2. ASSUME NEW e \in Events, NEW t \in Transactions, NEW dt \in DocTypes,
             NEW u \in Users, OnChange(t, e, dt, u)
      PROVE  JobsHoldTheirs' => NotifyTypeOK'
  BY <1>0, <1>2, FieldsAssumption
     DEF OnChange, Audience, Listeners, jobVars, Stages, Remember, TypeOK
<1>3. ASSUME NEW e \in Events, NEW t \in Transactions, NEW s \in Subscriptions,
             NEW u \in Users, Announce(t, e, s, u)
      PROVE  JobsHoldTheirs' => NotifyTypeOK'
  BY <1>0, <1>3 DEF Announce, jobVars, Stages, Remember
<1>4. CASE Settled /\ stage' \in [Events -> Stages]
  BY <1>0, <1>4 DEF Settled, Remember
<1>5. ASSUME NEW e \in Events, JobStart(e)
      PROVE  JobsHoldTheirs' => NotifyTypeOK'
  BY <1>0, <1>5 DEF JobStart, eventVars, Stages, Started, Running, Remember, TypeOK
<1>6. ASSUME NEW e \in Events, NEW k \in Keys, JobRead(e, k)
      PROVE  JobsHoldTheirs' => NotifyTypeOK'
  BY <1>0, <1>6, RecordsAssumption
     DEF JobRead, eventVars, Keys, Stages, Started, Running, Remember
<1>7. ASSUME NEW e \in Events, NEW k \in Keys, JobSkip(e, k)
      PROVE  JobsHoldTheirs' => NotifyTypeOK'
  BY <1>0, <1>7 DEF JobSkip, eventVars, Remember
<1>8. ASSUME NEW e \in Events, NEW errors \in BOOLEAN, JobDeliver(e, errors)
      PROVE  JobsHoldTheirs' => NotifyTypeOK'
  BY <1>0, <1>8
     DEF JobDeliver, eventVars, jobVars, JobsHoldTheirs, Stages, Started, Running,
         Remember
<1>9. ASSUME NEW e \in Events, MovesOn(e), MovedOn(e)
      PROVE  JobsHoldTheirs' => NotifyTypeOK'
  BY <1>0, <1>9 DEF MovedOn, Stages, Remember
<1>10. ASSUME NEW e \in Events, JobRestore(e)
      PROVE  JobsHoldTheirs' => NotifyTypeOK'
  BY <1>0, <1>10 DEF JobRestore, eventVars, Stages, Started, Running, Remember
<1> QED BY <1>0, NotifyCases, <1>1, <1>2, <1>3, <1>4, <1>5, <1>6, <1>7, <1>8, <1>9,
           <1>10

(* A job is queued at the commit and never tells anybody before.           *)
LEMMA CommittedKept ==
    ASSUME NotifyInv, TypeOK', NotifyNext
    PROVE  OnlyCommittedRuns' /\ OnlyCommittedIsHeard'
<1>0. NotifyTypeOK /\ Remember
  BY DEF NotifyInv, NotifyNext
<1> USE DEF NotifyInv, NotifyTypeOK
<1>1. CASE Aside
  BY <1>0, <1>1 DEF Aside, OnlyCommittedRuns, OnlyCommittedIsHeard
<1>2. ASSUME NEW e \in Events, NEW t \in Transactions, NEW dt \in DocTypes,
             NEW u \in Users, OnChange(t, e, dt, u)
      PROVE  OnlyCommittedRuns' /\ OnlyCommittedIsHeard'
  BY <1>0, <1>2 DEF OnChange, OnlyCommittedRuns, OnlyCommittedIsHeard, Started, Running
<1>3. ASSUME NEW e \in Events, NEW t \in Transactions, NEW s \in Subscriptions,
             NEW u \in Users, Announce(t, e, s, u)
      PROVE  OnlyCommittedRuns' /\ OnlyCommittedIsHeard'
  BY <1>0, <1>3 DEF Announce, OnlyCommittedRuns, OnlyCommittedIsHeard, Started, Running
<1>4. CASE Settled /\ stage' \in [Events -> Stages]
  BY <1>0, <1>4 DEF Settled, OnlyCommittedRuns, OnlyCommittedIsHeard
<1>5. ASSUME NEW e \in Events, JobStart(e)
      PROVE  OnlyCommittedRuns' /\ OnlyCommittedIsHeard'
  BY <1>0, <1>5 DEF JobStart, OnlyCommittedRuns, OnlyCommittedIsHeard
<1>6. ASSUME NEW e \in Events, NEW k \in Keys, JobRead(e, k)
      PROVE  OnlyCommittedRuns' /\ OnlyCommittedIsHeard'
  BY <1>0, <1>6 DEF JobRead, OnlyCommittedRuns, OnlyCommittedIsHeard, Started, Running
<1>7. ASSUME NEW e \in Events, NEW k \in Keys, JobSkip(e, k)
      PROVE  OnlyCommittedRuns' /\ OnlyCommittedIsHeard'
  BY <1>0, <1>7 DEF JobSkip, OnlyCommittedRuns, OnlyCommittedIsHeard
<1>8. ASSUME NEW e \in Events, NEW errors \in BOOLEAN, JobDeliver(e, errors)
      PROVE  OnlyCommittedRuns' /\ OnlyCommittedIsHeard'
  BY <1>0, <1>8
     DEF JobDeliver, OnlyCommittedRuns, OnlyCommittedIsHeard, Started, Running
<1>9. ASSUME NEW e \in Events, MovesOn(e), MovedOn(e)
      PROVE  OnlyCommittedRuns' /\ OnlyCommittedIsHeard'
  BY <1>0, <1>9 DEF MovedOn, OnlyCommittedRuns, OnlyCommittedIsHeard, Started
<1>10. ASSUME NEW e \in Events, JobRestore(e)
      PROVE  OnlyCommittedRuns' /\ OnlyCommittedIsHeard'
  BY <1>0, <1>10
     DEF JobRestore, OnlyCommittedRuns, OnlyCommittedIsHeard, Started, Running
<1> QED BY <1>0, NotifyCases, <1>1, <1>2, <1>3, <1>4, <1>5, <1>6, <1>7, <1>8, <1>9,
           <1>10

(* set_user goes there and back: a message leaves the job as its consumer, *)
(* who is no guest because the registry holds none.                        *)
LEMMA SessionKept ==
    ASSUME NotifyInv, TypeOK', NotifyNext
    PROVE  SessionIsRight' /\ ResolvedAsSubscriber'
<1>0. NotifyTypeOK /\ Remember
  BY DEF NotifyInv, NotifyNext
<1> USE DEF NotifyInv, NotifyTypeOK
<1>1. CASE Aside
  BY <1>0, <1>1 DEF Aside, SessionIsRight, SessionRestored, ResolvedAsSubscriber
<1>2. ASSUME NEW e \in Events, NEW t \in Transactions, NEW dt \in DocTypes,
             NEW u \in Users, OnChange(t, e, dt, u)
      PROVE  SessionIsRight' /\ ResolvedAsSubscriber'
  BY <1>0, <1>2
     DEF OnChange, jobVars, SessionIsRight, SessionRestored, ResolvedAsSubscriber
<1>3. ASSUME NEW e \in Events, NEW t \in Transactions, NEW s \in Subscriptions,
             NEW u \in Users, Announce(t, e, s, u)
      PROVE  SessionIsRight' /\ ResolvedAsSubscriber'
  BY <1>0, <1>3
     DEF Announce, jobVars, SessionIsRight, SessionRestored, ResolvedAsSubscriber
<1>4. CASE Settled /\ stage' \in [Events -> Stages]
  BY <1>0, <1>4
     DEF Settled, vars, SessionIsRight, SessionRestored, ResolvedAsSubscriber, Stages
<1>5. ASSUME NEW e \in Events, JobStart(e)
      PROVE  SessionIsRight' /\ ResolvedAsSubscriber'
  BY <1>0, <1>5
     DEF JobStart, eventVars, SessionIsRight, SessionRestored, ResolvedAsSubscriber
<1>6. ASSUME NEW e \in Events, NEW k \in Keys, JobRead(e, k)
      PROVE  SessionIsRight' /\ ResolvedAsSubscriber'
  BY <1>0, <1>6, NoKeyAssumption
     DEF JobRead, eventVars, NoGuestListens, SessionIsRight, SessionRestored,
         ResolvedAsSubscriber
<1>7. ASSUME NEW e \in Events, NEW k \in Keys, JobSkip(e, k)
      PROVE  SessionIsRight' /\ ResolvedAsSubscriber'
  BY <1>0, <1>7
     DEF JobSkip, eventVars, SessionIsRight, SessionRestored, ResolvedAsSubscriber
<1>8. ASSUME NEW e \in Events, NEW errors \in BOOLEAN, JobDeliver(e, errors)
      PROVE  SessionIsRight' /\ ResolvedAsSubscriber'
  BY <1>0, <1>8
     DEF JobDeliver, eventVars, jobVars, SessionIsRight, SessionRestored,
         ResolvedAsSubscriber
<1>9. ASSUME NEW e \in Events, MovesOn(e), MovedOn(e)
      PROVE  SessionIsRight' /\ ResolvedAsSubscriber'
  BY <1>0, <1>9 DEF MovedOn, SessionIsRight, SessionRestored, ResolvedAsSubscriber
<1>10. ASSUME NEW e \in Events, JobRestore(e)
      PROVE  SessionIsRight' /\ ResolvedAsSubscriber'
  BY <1>0, <1>10
     DEF JobRestore, eventVars, SessionIsRight, SessionRestored, ResolvedAsSubscriber
<1> QED BY <1>0, NotifyCases, <1>1, <1>2, <1>3, <1>4, <1>5, <1>6, <1>7, <1>8, <1>9,
           <1>10

(* What was listed when the event happened stays true of the consumers,    *)
(* because neither the event nor their filters change.                     *)
LEMMA ListedKept ==
    ASSUME NotifyInv, TypeOK', NotifyNext
    PROVE  ListedAsked'
<1>0. NotifyTypeOK /\ Remember
  BY DEF NotifyInv, NotifyNext
<1> USE DEF NotifyInv, NotifyTypeOK
<1>1. CASE Aside
  BY <1>0, <1>1 DEF Aside, ListedAsked, Matches, Remember
<1>2. ASSUME NEW e \in Events, NEW t \in Transactions, NEW dt \in DocTypes,
             NEW u \in Users, OnChange(t, e, dt, u)
      PROVE  ListedAsked'
  <2>1. /\ listed'[e] = Audience(dt) /\ about'[e].field = DocEvents /\ about'[e].doctype = dt
        /\ stage'[e] = "buffered" /\ todo'[e] = todo[e] /\ todo[e] = {}
        /\ \A k \in listed'[e] : k[1] = DocEvents /\ Matches(k, dt)
    BY <1>0, <1>2 DEF OnChange, jobVars, Audience, Listeners, ListedAsked
  <2>2. \A d \in Events \ {e} :
            /\ listed'[d] = listed[d] /\ about'[d] = about[d] /\ stage'[d] = stage[d]
            /\ todo'[d] = todo[d] /\ current'[d] = current[d]
    BY <1>0, <1>2 DEF OnChange, jobVars
  <2>3. filter' = filter
    BY <1>0 DEF Remember
  <2> QED BY <2>1, <2>2, <2>3 DEF ListedAsked, Matches
<1>3. ASSUME NEW e \in Events, NEW t \in Transactions, NEW s \in Subscriptions,
             NEW u \in Users, Announce(t, e, s, u)
      PROVE  ListedAsked'
  BY <1>0, <1>3 DEF Announce, jobVars, ListedAsked, Matches, Started, Remember
<1>4. CASE Settled /\ stage' \in [Events -> Stages]
  BY <1>0, <1>4 DEF Settled, vars, ListedAsked, Matches, Stages, Running, Remember
<1>5. ASSUME NEW e \in Events, JobStart(e)
      PROVE  ListedAsked'
  BY <1>0, <1>5 DEF JobStart, eventVars, ListedAsked, Matches, Started, Remember
<1>6. ASSUME NEW e \in Events, NEW k \in Keys, JobRead(e, k)
      PROVE  ListedAsked'
  BY <1>0, <1>6 DEF JobRead, eventVars, ListedAsked, Matches, Remember
<1>7. ASSUME NEW e \in Events, NEW k \in Keys, JobSkip(e, k)
      PROVE  ListedAsked'
  BY <1>0, <1>7 DEF JobSkip, eventVars, ListedAsked, Matches, Remember
<1>8. ASSUME NEW e \in Events, NEW errors \in BOOLEAN, JobDeliver(e, errors)
      PROVE  ListedAsked'
  BY <1>0, <1>8 DEF JobDeliver, eventVars, jobVars, ListedAsked, Matches, Remember
<1>9. ASSUME NEW e \in Events, MovesOn(e), MovedOn(e)
      PROVE  ListedAsked'
  BY <1>0, <1>9 DEF MovedOn, Started, Running, ListedAsked, Matches, Remember
<1>10. ASSUME NEW e \in Events, JobRestore(e)
      PROVE  ListedAsked'
  BY <1>0, <1>10 DEF JobRestore, eventVars, ListedAsked, Matches, Remember
<1> QED BY <1>0, NotifyCases, <1>1, <1>2, <1>3, <1>4, <1>5, <1>6, <1>7, <1>8, <1>9,
           <1>10

(* Who is told leaves the list first ...                                   *)
LEMMA ToldKept ==
    ASSUME NotifyInv, TypeOK', NotifyNext
    PROVE  ToldAreBehind'
<1>0. NotifyTypeOK /\ Remember
  BY DEF NotifyInv, NotifyNext
<1> USE DEF NotifyInv, NotifyTypeOK
<1>1. CASE Aside
  BY <1>0, <1>1 DEF Aside, ToldAreBehind
<1>2. ASSUME NEW e \in Events, NEW t \in Transactions, NEW dt \in DocTypes,
             NEW u \in Users, OnChange(t, e, dt, u)
      PROVE  ToldAreBehind'
  BY <1>0, <1>2 DEF OnChange, jobVars, ToldAreBehind, ListedAsked
<1>3. ASSUME NEW e \in Events, NEW t \in Transactions, NEW s \in Subscriptions,
             NEW u \in Users, Announce(t, e, s, u)
      PROVE  ToldAreBehind'
  BY <1>0, <1>3 DEF Announce, jobVars, ToldAreBehind, ListedAsked
<1>4. CASE Settled /\ stage' \in [Events -> Stages]
  <2>1. \A f \in Events : stage[f] \in Started => stage'[f] = stage[f]
    BY <1>4 DEF Settled, Started, Running
  <2> QED BY <1>0, <1>4, <2>1 DEF Settled, ToldAreBehind
<1>5. ASSUME NEW e \in Events, JobStart(e)
      PROVE  ToldAreBehind'
  BY <1>0, <1>5 DEF JobStart, ToldAreBehind, Started, Running
<1>6. ASSUME NEW e \in Events, NEW k \in Keys, JobRead(e, k)
      PROVE  ToldAreBehind'
  BY <1>0, <1>6 DEF JobRead, ToldAreBehind, Started, Running
<1>7. ASSUME NEW e \in Events, NEW k \in Keys, JobSkip(e, k)
      PROVE  ToldAreBehind'
  BY <1>0, <1>7 DEF JobSkip, ToldAreBehind
<1>8. ASSUME NEW e \in Events, NEW errors \in BOOLEAN, JobDeliver(e, errors)
      PROVE  ToldAreBehind'
  BY <1>0, <1>8 DEF JobDeliver, jobVars, ToldAreBehind, ListedAsked, Started, Running
<1>9. ASSUME NEW e \in Events, MovesOn(e), MovedOn(e)
      PROVE  ToldAreBehind'
  BY <1>0, <1>9 DEF MovedOn, ToldAreBehind
<1>10. ASSUME NEW e \in Events, JobRestore(e)
      PROVE  ToldAreBehind'
  BY <1>0, <1>10 DEF JobRestore, ToldAreBehind, Started, Running
<1> QED BY <1>0, NotifyCases, <1>1, <1>2, <1>3, <1>4, <1>5, <1>6, <1>7, <1>8, <1>9,
           <1>10

(* ... and who leaves the list is told, or is not registered any more, or  *)
(* the job fails.                                                          *)
LEMMA OwedKept ==
    ASSUME NotifyInv, TypeOK', NotifyNext
    PROVE  OwedAreAhead'
<1>0. NotifyTypeOK /\ Remember
  BY DEF NotifyInv, NotifyNext
<1> USE DEF NotifyInv, NotifyTypeOK
<1>00. \A f \in Events : IF listed'[f] = listed[f] THEN steady'[f] \subseteq steady[f]
                                             ELSE steady'[f] = listed'[f]
  BY <1>0 DEF Remember
<1>01. \A f \in Events : stage[f] = "transform" => session[f] \in Users
  BY RecordsAssumption DEF SessionIsRight, JobsHoldTheirs, Keys
<1>1. CASE Aside
  BY <1>00, <1>0, <1>1 DEF Aside, OwedAreAhead
<1>2. ASSUME NEW e \in Events, NEW t \in Transactions, NEW dt \in DocTypes,
             NEW u \in Users, OnChange(t, e, dt, u)
      PROVE  OwedAreAhead'
  BY <1>00, <1>0, <1>2 DEF OnChange, jobVars, OwedAreAhead, Running
<1>3. ASSUME NEW e \in Events, NEW t \in Transactions, NEW s \in Subscriptions,
             NEW u \in Users, Announce(t, e, s, u)
      PROVE  OwedAreAhead'
  BY <1>00, <1>0, <1>3 DEF Announce, jobVars, OwedAreAhead, Running
<1>4. CASE Settled /\ stage' \in [Events -> Stages]
  BY <1>00, <1>0, <1>4 DEF Settled, OwedAreAhead, Started
<1>5. ASSUME NEW e \in Events, JobStart(e)
      PROVE  OwedAreAhead'
  <2>1. todo'[e] = listed'[e] /\ steady'[e] \subseteq listed'[e]
    BY <1>00, <1>0, <1>5 DEF JobStart, JobsHoldTheirs
  <2>2. \A f \in Events \ {e} :
            /\ steady'[f] \subseteq steady[f] /\ stage'[f] = stage[f] /\ todo'[f] = todo[f]
            /\ current'[f] = current[f] /\ sent' = sent
    BY <1>00, <1>0, <1>5 DEF JobStart
  <2> QED BY <2>1, <2>2 DEF OwedAreAhead
<1>6. ASSUME NEW e \in Events, NEW k \in Keys, JobRead(e, k)
      PROVE  OwedAreAhead'
  BY <1>00, <1>0, <1>6 DEF JobRead, OwedAreAhead, Running
<1>7. ASSUME NEW e \in Events, NEW k \in Keys, JobSkip(e, k)
      PROVE  OwedAreAhead'
  BY <1>00, <1>0, <1>7 DEF JobSkip, vars, Remember, Registered, OwedAreAhead
<1>8. ASSUME NEW e \in Events, NEW errors \in BOOLEAN, JobDeliver(e, errors)
      PROVE  OwedAreAhead'
  BY <1>00, <1>0, <1>8, <1>01 DEF JobDeliver, jobVars, OwedAreAhead, Running
<1>9. ASSUME NEW e \in Events, MovesOn(e), MovedOn(e)
      PROVE  OwedAreAhead'
  BY <1>00, <1>0, <1>9 DEF MovedOn, OwedAreAhead, Running
<1>10. ASSUME NEW e \in Events, JobRestore(e)
      PROVE  OwedAreAhead'
  BY <1>00, <1>0, <1>10 DEF JobRestore, OwedAreAhead, Running
<1> QED BY <1>0, NotifyCases, <1>1, <1>2, <1>3, <1>4, <1>5, <1>6, <1>7, <1>8, <1>9,
           <1>10

(* No guest is let in: setups, which refuse them, are all that brings a    *)
(* consumer into the registry or into the hands of a keepalive.            *)
InHands == Registered \cup {reqKey[r] : r \in Requests}

LEMMA OnlySetupAdds ==
    ASSUME TypeOK,
           \/ \E r \in Requests : (\E k \in Keys : KeepaliveRead(r, k)) \/ Keepalive(r)
           \/ \E c \in Completers : (\E k \in Keys : CompleteRead(c, k)) \/ Complete(c)
           \/ Sweep \/ Tick \/ UNCHANGED vars
    PROVE  InHands' \subseteq InHands \cup {NoKey}
<1>1. CASE \E r \in Requests : (\E k \in Keys : KeepaliveRead(r, k)) \/ Keepalive(r)
  BY <1>1 DEF KeepaliveRead, Keepalive, KeepaliveStamp, KeepaliveWrite, HSet, InHands,
              Registered, TypeOK
<1>2. CASE \E c \in Completers : (\E k \in Keys : CompleteRead(c, k)) \/ Complete(c)
  BY <1>2 DEF CompleteRead, Complete, CompleteEmit, CompleteDelete, HDel, InHands,
              Registered, reqVars
<1>3. CASE Sweep
  BY <1>3 DEF Sweep, SweepStart, SweepList, SweepRead, SweepJudge, SweepCrash, SweepDelete,
              SweepFinish, HDel, InHands, Registered, reqVars
<1>4. CASE Tick \/ UNCHANGED vars
  BY <1>4 DEF Tick, InHands, Registered, vars, reqVars
<1> QED BY <1>1, <1>2, <1>3, <1>4

LEMMA NoGuestKept ==
    ASSUME NotifyInv, NotifyNext
    PROVE  NoGuestListens'
<1> USE DEF NotifyInv, NotifyTypeOK
<1>1. CASE \E k \in Keys, age \in Age : Subscribe(k, age)
  BY <1>1 DEF Subscribe, Setup, HSet, NoGuestListens, Registered, reqVars
<1>2. CASE ~\E k \in Keys, age \in Age : Subscribe(k, age)
  <2>1. InHands' \subseteq InHands \cup {NoKey}
    <3>1. CASE Source
      BY <3>1, OnlySetupAdds DEF Source, OnChange, OnChangeUnheard, OnChangeRaise, Announce
    <3>2. CASE \E t \in Transactions : Commit(t) \/ Rollback(t)
      BY <3>2, OnlySetupAdds DEF Commit, Rollback, Settle
    <3>3. CASE \E e \in Events : Job(e)
      BY <3>3, OnlySetupAdds, JobIsRegistryStep, JobsAssumption
    <3>4. CASE Background
      BY <3>4, OnlySetupAdds DEF Background
    <3> QED BY <1>2, <3>1, <3>2, <3>3, <3>4 DEF NotifyNext
  <2> QED BY <2>1 DEF NoGuestListens, InHands
<1> QED BY <1>1, <1>2

-----------------------------------------------------------------------------
LEMMA NotifyInvStep ==
    ASSUME NotifyInv, [NotifyNext]_allVars
    PROVE  NotifyInv'
<1>1. TypeOK'
  BY NotifyIsRegistryStep, TypeStep DEF NotifyInv, NotifyTypeOK
<1>2. CASE NotifyNext
  BY <1>1, <1>2, JobsHoldKept, NotifyTypeKept, NoGuestKept, CommittedKept, SessionKept,
     ListedKept, ToldKept, OwedKept DEF NotifyInv
<1>3. CASE UNCHANGED allVars
  <2>1. UNCHANGED <<consumers, reqKey, compStage, compKey, filter, steady>>
    BY <1>3 DEF allVars, systemVars, vars, reqVars, compVars
  <2>2. UNCHANGED <<stage, tx, about, listed, todo, current, session, sent, committed>>
    BY <1>3 DEF allVars, systemVars, notifyVars, eventVars, jobVars
  <2>3. NotifyTypeOK' /\ NoGuestListens'
    BY <1>1, <2>1, <2>2 DEF NotifyInv, NotifyTypeOK, JobsHoldTheirs, NoGuestListens, Registered
  <2>4. OnlyCommittedRuns' /\ OnlyCommittedIsHeard' /\ SessionIsRight' /\ ResolvedAsSubscriber'
    BY <2>2 DEF NotifyInv, OnlyCommittedRuns, OnlyCommittedIsHeard, SessionIsRight,
                SessionRestored, ResolvedAsSubscriber
  <2>5. ListedAsked' /\ ToldAreBehind' /\ OwedAreAhead'
    BY <2>1, <2>2 DEF NotifyInv, ListedAsked, Matches, ToldAreBehind, OwedAreAhead
  <2> QED BY <2>3, <2>4, <2>5 DEF NotifyInv
<1> QED BY <1>2, <1>3

(* Types, and the reasons why consumers hear what they should: the         *)
(* inductive invariant of the notification jobs.                           *)
THEOREM NotifySafe == NotifySpec => []NotifyInv
<1> QED BY NotifyInitInv, NotifyInvStep, PTL DEF NotifySpec

THEOREM NotifyTyped == NotifySpec => []NotifyTypeOK
<1>1. NotifyInv => NotifyTypeOK
  BY DEF NotifyInv
<1> QED BY <1>1, NotifySafe, PTL

(* What the jobs and the changes do to the registry is what its own        *)
(* specification lets requests, callers and the scheduler do: its theorems *)
(* hold while notifications run, in particular the two about the sweep and *)
(* about consumers that are gone.                                          *)
THEOREM NotifyKeepsRegistry == NotifySpec => Spec
<1>1. NotifyInit => Init
  BY DEF NotifyInit
<1>2. NotifyInv /\ [NotifyNext]_allVars => [Next]_vars
  BY NotifyIsRegistryStep DEF NotifyInv, NotifyTypeOK
<1> QED BY <1>1, <1>2, NotifySafe, PTL DEF NotifySpec, Spec

COROLLARY NotifyKeepsPromises == NotifySpec => SweepComplete /\ RetiredIsForever
<1> QED BY NotifyKeepsRegistry, SweepIsComplete, RetiredStaysAway, PTL

(* Nobody is told of a change that is not committed                        *)
(* (enqueue_after_commit in on_change).                                    *)
THEOREM CommittedOnly == NotifySpec => []OnlyCommittedIsHeard
<1>1. NotifyInv => OnlyCommittedIsHeard
  BY DEF NotifyInv
<1> QED BY <1>1, NotifySafe, PTL

(* Every message is resolved as its subscriber, who is no guest when it is *)
(* about documents (set_user in notify_consumer).                          *)
THEOREM SubscribersEyesOnly == NotifySpec => []ResolvedAsSubscriber
<1>1. NotifyInv => ResolvedAsSubscriber
  BY DEF NotifyInv
<1> QED BY <1>1, NotifySafe, PTL

(* Between consumers and at the end of the job, its user is the one who    *)
(* triggered the event (set_user(original_user)).                          *)
THEOREM SessionIsRestored == NotifySpec => []SessionRestored
<1>1. NotifyInv => SessionRestored
  BY DEF NotifyInv, SessionIsRight
<1> QED BY <1>1, NotifySafe, PTL

(* A consumer hears of the field and of the DocTypes it asked for alone    *)
(* (the filter of on_change, the list of notify_all_consumers).            *)
THEOREM AskedForOnly == NotifySpec => []OnlyAskedFor
<1>1. NotifyInv => OnlyAskedFor
  BY DEF NotifyInv, NotifyTypeOK, ToldAreBehind, ListedAsked, OnlyAskedFor
<1> QED BY <1>1, NotifySafe, PTL

(* A job that reaches the end of its loop has told everybody on its list   *)
(* who stayed registered (the loop of notify_consumers).                   *)
THEOREM JobReachesAll == NotifySpec => EndedJobReachedAll
<1>1. NotifyInv /\ [NotifyNext]_allVars
      => [\A e \in Events : JobEnd(e) =>
             \A k \in steady[e] : \E u \in Users : <<e, k, u>> \in sent]_allVars
  BY DEF JobEnd, NotifyInv, OwedAreAhead, Running
<1> QED BY <1>1, NotifySafe, PTL DEF NotifySpec, EndedJobReachedAll

(* And it tells nobody twice.                                              *)
THEOREM ToldOnce == NotifySpec => HeardOnce
<1>1. NotifyInv /\ [NotifyNext]_allVars
      => [\A e \in Events, errors \in BOOLEAN : JobDeliver(e, errors) =>
             \A u \in Users : <<e, current[e], u>> \notin sent]_allVars
  BY DEF JobDeliver, NotifyInv, ToldAreBehind
<1> QED BY <1>1, NotifySafe, PTL DEF NotifySpec, HeardOnce
=============================================================================
