--------------------- MODULE SubscriptionRegistryProofs ---------------------
(***************************************************************************)
(* Proofs about SubscriptionRegistry, for any sets of fields, ids,         *)
(* requests and calls and any threshold.                                   *)
(***************************************************************************)
EXTENDS SubscriptionRegistry, TLAPS

(* What hset and hdel leave in the hash.                                   *)
LEMMA HSetEffect ==
    ASSUME consumers \in [Registered -> Age],
           NEW k, NEW age \in Age, HSet(k, age)
    PROVE  /\ DOMAIN consumers' = Registered \cup {k}
           /\ consumers' \in [DOMAIN consumers' -> Age]
           /\ \A j \in Registered \ {k} : consumers'[j] = consumers[j]
           /\ consumers'[k] = age
BY DEF HSet, Registered

LEMMA HDelEffect ==
    ASSUME consumers \in [Registered -> Age], NEW S, HDel(S)
    PROVE  /\ DOMAIN consumers' = Registered \ S
           /\ consumers' \in [DOMAIN consumers' -> Age]
           /\ \A j \in Registered \ S : consumers'[j] = consumers[j]
BY DEF HDel, Registered

LEMMA OlderIsAge == \A age \in Age : Older(age) \in Age /\ (Expired(age) => Expired(Older(age)))
BY ThresholdAssumption DEF Age, Older, Expired

LEMMA InitType == Init => TypeOK
BY ThresholdAssumption DEF Init, TypeOK, Registered, Age

(* Each kind of actor keeps the types.                                     *)
LEMMA SetupKeepsType ==
    ASSUME TypeOK, NEW k \in Keys, NEW age \in Age, Setup(k, age)
    PROVE  TypeOK'
<1>1. /\ DOMAIN consumers' = Registered \cup {k}
      /\ consumers' \in [DOMAIN consumers' -> Age]
  BY HSetEffect DEF TypeOK, Setup
<1>2. k[2] \in Ids
  BY DEF Keys
<1> QED BY <1>1, <1>2 DEF Setup, TypeOK, Registered, reqVars, compVars, sweepVars

LEMMA KeepaliveReadKeepsType ==
    ASSUME TypeOK, NEW r \in Requests, NEW k \in Keys, KeepaliveRead(r, k)
    PROVE  TypeOK'
BY NoKeyAssumption DEF KeepaliveRead, TypeOK, Registered, compVars, sweepVars

LEMMA KeepaliveKeepsType ==
    ASSUME TypeOK, NEW r \in Requests, Keepalive(r)
    PROVE  TypeOK'
<1>1. 0 \in Age
  BY ThresholdAssumption DEF Age
<1>2. CASE KeepaliveStamp(r)
  BY <1>1, <1>2 DEF KeepaliveStamp, TypeOK, Registered, compVars, sweepVars
<1>3. CASE KeepaliveWrite(r)
  <2>1. HSet(reqKey[r], reqAge[r]) /\ reqAge[r] \in Age /\ reqKey[r] \in Keys
    BY <1>3 DEF KeepaliveWrite, TypeOK
  <2>2. /\ DOMAIN consumers' = Registered \cup {reqKey[r]}
        /\ consumers' \in [DOMAIN consumers' -> Age]
    BY <2>1, HSetEffect DEF TypeOK
  <2> QED BY <1>1, <1>3, <2>1, <2>2
          DEF KeepaliveWrite, TypeOK, Registered, compVars, sweepVars
<1> QED BY <1>2, <1>3 DEF Keepalive

LEMMA CompleteReadKeepsType ==
    ASSUME TypeOK, NEW c \in Completers, NEW k \in Keys, CompleteRead(c, k)
    PROVE  TypeOK'
BY NoKeyAssumption DEF CompleteRead, TypeOK, Registered, reqVars, sweepVars

LEMMA CompleteKeepsType ==
    ASSUME TypeOK, NEW c \in Completers, Complete(c)
    PROVE  TypeOK'
<1>1. CASE CompleteEmit(c)
  BY <1>1 DEF CompleteEmit, TypeOK, Registered, reqVars, sweepVars
<1>2. CASE CompleteDelete(c)
  <2>1. /\ DOMAIN consumers' = Registered \ {compKey[c]}
        /\ consumers' \in [DOMAIN consumers' -> Age]
    BY <1>2, HDelEffect DEF CompleteDelete, TypeOK
  <2> QED BY <1>2, <2>1 DEF CompleteDelete, TypeOK, Registered, reqVars, sweepVars
<1> QED BY <1>1, <1>2 DEF Complete

LEMMA SweepKeepsType ==
    ASSUME TypeOK, Sweep
    PROVE  TypeOK'
<1> USE DEF TypeOK, Registered, reqVars, compVars
<1>1. CASE SweepStart
  BY <1>1 DEF SweepStart
<1>2. ASSUME NEW s \in Subscriptions, SweepList(s)
      PROVE  TypeOK'
  BY <1>2 DEF SweepList
<1>3. ASSUME NEW k \in Keys, SweepRead(k)
      PROVE  TypeOK'
  BY <1>3, NoKeyAssumption DEF SweepRead
<1>4. ASSUME NEW k \in Keys, SweepCrash(k)
      PROVE  TypeOK'
  BY <1>4 DEF SweepCrash
<1>5. CASE SweepJudge
  <2>1. 0 \in Age
    BY ThresholdAssumption DEF Age
  <2> QED BY <1>5, <2>1 DEF SweepJudge
<1>6. CASE SweepDelete
  <2>1. /\ DOMAIN consumers' = Registered \ toRemove
        /\ consumers' \in [DOMAIN consumers' -> Age]
    BY <1>6, HDelEffect DEF SweepDelete
  <2> QED BY <1>6, <2>1 DEF SweepDelete
<1>7. CASE SweepFinish
  BY <1>7 DEF SweepFinish
<1> QED BY <1>1, <1>2, <1>3, <1>4, <1>5, <1>6, <1>7 DEF Sweep

LEMMA TickKeepsType ==
    ASSUME TypeOK, Tick
    PROVE  TypeOK'
<1>1. /\ DOMAIN consumers' = Registered
      /\ consumers' \in [DOMAIN consumers' -> Age]
  BY OlderIsAge DEF Tick, TypeOK, Registered
<1>2. reqAge' \in [Requests -> Age] /\ subjectAge' \in Age
  BY OlderIsAge DEF Tick, TypeOK
<1> QED BY <1>1, <1>2 DEF Tick, TypeOK, Registered, compVars

LEMMA TypeStep ==
    ASSUME TypeOK, [Next]_vars
    PROVE  TypeOK'
<1>1. CASE Next
  <2>1. CASE \E k \in Keys, age \in Age : Setup(k, age)
    BY <2>1, SetupKeepsType
  <2>2. CASE \E r \in Requests, k \in Keys : KeepaliveRead(r, k)
    BY <2>2, KeepaliveReadKeepsType
  <2>3. CASE \E r \in Requests : Keepalive(r)
    BY <2>3, KeepaliveKeepsType
  <2>4. CASE \E c \in Completers, k \in Keys : CompleteRead(c, k)
    BY <2>4, CompleteReadKeepsType
  <2>5. CASE \E c \in Completers : Complete(c)
    BY <2>5, CompleteKeepsType
  <2> QED BY <1>1, <2>1, <2>2, <2>3, <2>4, <2>5, SweepKeepsType, TickKeepsType DEF Next
<1>2. CASE UNCHANGED vars
  BY <1>2 DEF TypeOK, Registered, vars, reqVars, compVars, sweepVars
<1> QED BY <1>1, <1>2

(* Every variable stays in its range in every behaviour of the registry.   *)
THEOREM RegistryTyped == Spec => []TypeOK
<1> QED BY InitType, TypeStep, PTL DEF Spec

-----------------------------------------------------------------------------
(* Whoever is owed a removal stays in the sweep's hands: first the steps   *)
(* of the clients and callers, who only add to the registry, freshen a     *)
(* last_ping, which settles the debt, or remove the consumer.              *)
LEMMA SetupKeepsOwed ==
    ASSUME RegistryInv, NEW k \in Keys, NEW age \in Age, Setup(k, age)
    PROVE  OwedIsPending' /\ HandsEmpty'
<1>1. \A j \in Registered \ {k} : consumers'[j] = consumers[j]
  BY HSetEffect DEF RegistryInv, TypeOK, Setup
<1>2. k \notin owed
  BY DEF RegistryInv, TypeOK, Setup
<1> QED BY <1>1, <1>2 DEF Setup, RegistryInv, TypeOK, OwedIsPending, HandsEmpty, sweepVars

LEMMA KeepaliveKeepsOwed ==
    ASSUME RegistryInv, NEW r \in Requests, Keepalive(r)
    PROVE  OwedIsPending' /\ HandsEmpty'
<1>1. CASE KeepaliveStamp(r)
  BY <1>1 DEF KeepaliveStamp, RegistryInv, OwedIsPending, HandsEmpty, sweepVars
<1>2. CASE KeepaliveWrite(r)
  <2>1. \A j \in Registered \ {reqKey[r]} : consumers'[j] = consumers[j]
    BY <1>2, HSetEffect DEF RegistryInv, TypeOK, KeepaliveWrite
  <2> QED BY <1>2, <2>1
          DEF KeepaliveWrite, RegistryInv, TypeOK, OwedIsPending, HandsEmpty, sweepVars
<1> QED BY <1>1, <1>2 DEF Keepalive

LEMMA CompleteKeepsOwed ==
    ASSUME RegistryInv, NEW c \in Completers, Complete(c)
    PROVE  OwedIsPending' /\ HandsEmpty'
<1>1. CASE CompleteEmit(c)
  BY <1>1 DEF CompleteEmit, RegistryInv, OwedIsPending, HandsEmpty, sweepVars
<1>2. CASE CompleteDelete(c)
  <2>1. \A j \in Registered \ {compKey[c]} : consumers'[j] = consumers[j]
    BY <1>2, HDelEffect DEF RegistryInv, TypeOK, CompleteDelete
  <2> QED BY <1>2, <2>1
          DEF CompleteDelete, RegistryInv, TypeOK, OwedIsPending, HandsEmpty, sweepVars
<1> QED BY <1>1, <1>2 DEF Complete

(* Then the steps of the sweep: it hands each owed consumer on from the    *)
(* fields to come to its list, to the judgement and to to_remove.          *)
LEMMA SweepKeepsOwed ==
    ASSUME RegistryInv, Sweep
    PROVE  OwedIsPending' /\ HandsEmpty'
<1> USE DEF RegistryInv, TypeOK, OwedIsPending, HandsEmpty
<1>1. CASE SweepStart
  <2>1. \A k \in Registered : k[1] \in Subscriptions
    BY DEF Keys
  <2> QED BY <1>1, <2>1 DEF SweepStart
<1>2. ASSUME NEW s \in Subscriptions, SweepList(s)
      PROVE  OwedIsPending' /\ HandsEmpty'
  BY <1>2 DEF SweepList
<1>3. ASSUME NEW k \in Keys, SweepRead(k)
      PROVE  OwedIsPending' /\ HandsEmpty'
  BY <1>3, NoKeyAssumption DEF SweepRead
<1>4. ASSUME NEW k \in Keys, SweepCrash(k)
      PROVE  OwedIsPending' /\ HandsEmpty'
  BY <1>4 DEF SweepCrash
<1>5. CASE SweepJudge
  BY <1>5 DEF SweepJudge
<1>6. CASE SweepDelete
  <2>1. \A j \in Registered \ toRemove : consumers'[j] = consumers[j]
    BY <1>6, HDelEffect DEF SweepDelete
  <2> QED BY <1>6, <2>1 DEF SweepDelete
<1>7. CASE SweepFinish
  BY <1>7 DEF SweepFinish
<1> QED BY <1>1, <1>2, <1>3, <1>4, <1>5, <1>6, <1>7 DEF Sweep

LEMMA TickKeepsOwed ==
    ASSUME RegistryInv, Tick
    PROVE  OwedIsPending' /\ HandsEmpty'
<1>1. \A k \in owed : Expired(consumers[k]) => Expired(consumers'[k])
  BY OlderIsAge DEF Tick, RegistryInv, TypeOK
<1>2. \A k \in owed : subject = k => subject' = k /\ sweepStage = "judging"
  BY NoKeyAssumption DEF Tick, RegistryInv, TypeOK
<1>3. Expired(subjectAge) => Expired(subjectAge')
  BY OlderIsAge DEF Tick, RegistryInv, TypeOK
<1> QED BY <1>1, <1>2, <1>3 DEF Tick, RegistryInv, OwedIsPending, HandsEmpty

LEMMA RegistryInvStep ==
    ASSUME RegistryInv, [Next]_vars
    PROVE  RegistryInv'
<1>1. TypeOK'
  BY TypeStep DEF RegistryInv
<1>2. CASE Next
  <2>1. CASE \E k \in Keys, age \in Age : Setup(k, age)
    BY <2>1, <1>1, SetupKeepsOwed DEF RegistryInv
  <2>2. CASE \E r \in Requests, k \in Keys : KeepaliveRead(r, k)
    BY <2>2, <1>1 DEF KeepaliveRead, RegistryInv, OwedIsPending, HandsEmpty, sweepVars
  <2>3. CASE \E r \in Requests : Keepalive(r)
    BY <2>3, <1>1, KeepaliveKeepsOwed DEF RegistryInv
  <2>4. CASE \E c \in Completers, k \in Keys : CompleteRead(c, k)
    BY <2>4, <1>1 DEF CompleteRead, RegistryInv, OwedIsPending, HandsEmpty, sweepVars
  <2>5. CASE \E c \in Completers : Complete(c)
    BY <2>5, <1>1, CompleteKeepsOwed DEF RegistryInv
  <2> QED BY <1>1, <1>2, <2>1, <2>2, <2>3, <2>4, <2>5, SweepKeepsOwed, TickKeepsOwed
          DEF Next, RegistryInv
<1>3. CASE UNCHANGED vars
  BY <1>1, <1>3 DEF RegistryInv, OwedIsPending, HandsEmpty, vars, sweepVars
<1> QED BY <1>2, <1>3

LEMMA RegistryInvInit == Init => RegistryInv
BY InitType DEF Init, RegistryInv, OwedIsPending, HandsEmpty

THEOREM RegistrySafe == Spec => []RegistryInv
<1> QED BY RegistryInvInit, RegistryInvStep, PTL DEF Spec

(* A run of remove_inactive_consumers that ends normally owes nothing: at  *)
(* SweepFinish no field is left and the job's hands are empty.             *)
THEOREM SweepIsComplete == Spec => SweepComplete
<1>1. RegistryInv => [SweepFinish => owed = {}]_vars
  <2> SUFFICES ASSUME RegistryInv, SweepFinish, NEW k \in owed
               PROVE  FALSE
    OBVIOUS
  <2>1. subject = NoKey /\ k # NoKey
    BY NoKeyAssumption DEF SweepFinish, RegistryInv, TypeOK
  <2> QED BY <2>1 DEF SweepFinish, RegistryInv, OwedIsPending, HandsEmpty
<1> QED BY <1>1, RegistrySafe, PTL DEF SweepComplete

-----------------------------------------------------------------------------
(* Retirement: only setup_subscription and the last step of a keepalive    *)
(* ever put a consumer into the registry, and a keepalive picks up only    *)
(* what is registered.                                                     *)
LEMMA RetiredStep ==
    ASSUME TypeOK, [Next]_vars, NEW k \in Keys, Retired(k)
    PROVE  Retired(k)'
<1> USE DEF Retired, TypeOK
<1>1. CASE \E j \in Keys, age \in Age : Setup(j, age)
  <2>1. PICK j \in Keys, age \in Age : Setup(j, age)
    BY <1>1
  <2>2. Registered' = Registered \cup {j} /\ j # k
    BY <2>1, HSetEffect DEF Setup, Registered
  <2> QED BY <2>1, <2>2 DEF Setup, reqVars
<1>2. CASE \E r \in Requests, j \in Keys : KeepaliveRead(r, j)
  BY <1>2 DEF KeepaliveRead, Registered
<1>3. CASE \E r \in Requests : KeepaliveStamp(r)
  BY <1>3 DEF KeepaliveStamp, Registered
<1>4. CASE \E r \in Requests : KeepaliveWrite(r)
  <2>1. PICK r \in Requests : KeepaliveWrite(r)
    BY <1>4
  <2>2. Registered' = Registered \cup {reqKey[r]} /\ reqKey[r] # k
    BY <2>1, HSetEffect DEF KeepaliveWrite, Registered
  <2>3. k # NoKey
    BY NoKeyAssumption
  <2> QED BY <2>1, <2>2, <2>3 DEF KeepaliveWrite
<1>5. CASE UNCHANGED <<consumers, minted, reqVars>>
  BY <1>5 DEF Registered, reqVars
<1>6. ASSUME NEW S, HDel(S), UNCHANGED <<minted, reqVars>>
      PROVE  Retired(k)'
  BY <1>6 DEF HDel, Registered, reqVars
<1>7. CASE Tick
  BY <1>7 DEF Tick, Registered
<1> QED
  BY <1>1, <1>2, <1>3, <1>4, <1>5, <1>6, <1>7
  DEF Next, Keepalive, Complete, CompleteRead, CompleteEmit, CompleteDelete,
      Sweep, SweepStart, SweepList, SweepRead, SweepCrash, SweepJudge,
      SweepDelete, SweepFinish, vars

(* A consumer that was completed or swept, and that no keepalive in flight *)
(* has read before, never comes back.                                      *)
THEOREM RetiredStaysAway == Spec => RetiredIsForever
<1>1. TypeOK /\ [Next]_vars =>
        [\A k \in Keys : Retired(k) => Retired(k)']_vars
  BY RetiredStep
<1> QED BY <1>1, RegistryTyped, PTL DEF Spec, RetiredIsForever
=============================================================================
