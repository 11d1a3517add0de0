------------------------- MODULE ApiRequestProofs -------------------------
(***************************************************************************)
(* Proofs about ApiRequest and the dataloaders it works with: ApiInv is    *)
(* inductive.  The loaders come first; what they do changes nothing in the *)
(* rest of the request but the rows and the errors.                        *)
(***************************************************************************)
EXTENDS ApiRequest, QueryDocsProofs

-----------------------------------------------------------------------------
(* A path that leads to one DocType leads to that of its loader.           *)
LEMMA OneType ==
    ASSUME NEW p \in Paths, NEW dt \in TypesAt[p], Cardinality(TypesAt[p]) = 1
    PROVE  TypesAt[p] = {dt}
<1>1. IsFiniteSet(TypesAt[p])
  BY DocTypesAssumption, TypesAssumption, FS_Subset
<1>2. PICK x : TypesAt[p] = {x}
  BY <1>1, FS_Singleton
<1> QED BY <1>2

LEMMA FoundType ==
    ASSUME NEW db \in [Docs -> Versions \cup {Absent}], NEW l, NEW key
    PROVE  Found(db, l, key) \in Finds
<1> DEFINE found == {d \in Docs : /\ db[d] # Absent
                                 /\ TypeOf[d] = l.dt
                                 /\ IF l.parent = None THEN d = key /\ d \in Listed
                                                       ELSE ParentOf[d] = key}
<1>1. found \in SUBSET Docs /\ \A d \in found : db[d] \in Versions
  OBVIOUS
<1>2. Found(db, l, key) = [d \in found |-> db[d]]
  BY DEF Found
<1> HIDE DEF found
<1>3. Found(db, l, key) \in [found -> Versions]
  BY <1>1, <1>2
<1> QED BY <1>1, <1>3 DEF Finds

(* A batch without a key twice has its results in the places of the keys.  *)
LEMMA NthOfAll ==
    ASSUME NEW n \in Nat, NEW k \in 1 .. n
    PROVE  Nth(1 .. n, k) = k
<1>1. \A i \in 1 .. n : Cardinality({j \in 1 .. n : j <= i}) = i
  <2> TAKE i \in 1 .. n
  <2>1. {j \in 1 .. n : j <= i} = 1 .. i
    OBVIOUS
  <2>2. Cardinality(1 .. i) = i
    BY FS_Interval
  <2> QED BY <2>1, <2>2
<1> QED BY <1>1 DEF Nth

LEMMA ResultsInPlace ==
    ASSUME NEW l, NEW keys \in Seq(Docs), \A i, j \in DOMAIN keys : keys[i] = keys[j] => i = j,
           NEW i \in DOMAIN keys
    PROVE  i \in DOMAIN Results(l, keys) /\ Results(l, keys)[i] = Found(rows, l, keys[i])
<1>1. /\ DOMAIN keys = 1 .. Len(keys) /\ Len(keys) \in Nat
      /\ keys[i] \in Docs
  OBVIOUS
<1>2. Firsts(keys) = 1 .. Len(keys) /\ i \in 1 .. Len(keys)
  BY <1>1 DEF Firsts
<1>3. CASE l.parent = None
  <2>1. {x \in Fetched(l, keys) : x = keys[i] /\ i \in Firsts(keys)} =
        {d \in Docs : rows[d] # Absent /\ TypeOf[d] = l.dt /\ d = keys[i] /\ d \in Listed}
    BY <1>1, <1>2 DEF Fetched
  <2>2. Found(rows, l, keys[i]) = [d \in {x \in Fetched(l, keys) : x = keys[i] /\ i \in Firsts(keys)} |-> rows[d]]
    BY <1>3, <2>1 DEF Found
  <2> QED BY <1>3, <2>2 DEF Results, LoadDocuments
<1>4. CASE l.parent # None
  <2>1. Cardinality(Firsts(keys)) = Len(keys) /\ Nth(Firsts(keys), i) = i
    <3>1. Cardinality(1 .. Len(keys)) = Len(keys)
      <4> DEFINE n == Len(keys)
      <4>1. n \in Nat /\ 1 <= n
        BY <1>1
      <4> HIDE DEF n
      <4>2. Cardinality(1 .. n) = n
        BY <4>1, FS_Interval
      <4> QED BY <4>2 DEF n
    <3>2. Nth(1 .. Len(keys), i) = i
      BY <1>1, <1>2, NthOfAll
    <3> QED BY <1>2, <3>1, <3>2
  <2>2. Found(rows, l, keys[i]) =
        [d \in {x \in Docs : /\ rows[x] # Absent /\ TypeOf[x] = l.dt
                             /\ ParentOf[x] = keys[Nth(Firsts(keys), i)]} |-> rows[d]]
    BY <1>4, <2>1 DEF Found
  <2> QED BY <1>1, <1>4, <2>1, <2>2 DEF Results, LoadTables
<1> QED BY <1>3, <1>4

(* An open ask is answered what a query finds for its key, and that is not *)
(* taken for no answer.                                                    *)
LEMMA AnswerType ==
    ASSUME rows \in [Docs -> Versions \cup {Absent}], NEW l \in DOMAIN loaders,
           LoaderIsRight(l), NEW a \in Pending(l), asks[a].key \in Docs
    PROVE  /\ AnswerOf(l, asks[a].key) \in Answers
           /\ AnswerOf(l, asks[a].key) # None
           /\ AnswerOf(l, asks[a].key) # Refusal =>
                 AnswerOf(l, asks[a].key) =
                    [rows |-> Found(rows, l, asks[a].key), fields |-> loaders[l].fields]
<1> DEFINE key == asks[a].key
           queue == loaders[l].queue
           place == CHOOSE i \in DOMAIN queue : queue[i] = key
<1>1. /\ queue \in Seq(Docs) /\ loaders[l].fields \subseteq Fields
      /\ \A i, j \in DOMAIN queue : queue[i] = queue[j] => i = j
      /\ \E i \in DOMAIN queue : queue[i] = key
  <2>1. /\ QueueIsRight(queue, DOMAIN loaders[l].memo) /\ loaders[l].fields \subseteq Fields
        /\ DOMAIN loaders[l].memo = {asks[b].key : b \in Pending(l)}
    <3> DEFINE waiting == {asks[b].key : b \in Pending(l)}
    <3>1. loaders[l] = [fields |-> loaders[l].fields, memo |-> [k \in waiting |-> None],
                        queue |-> loaders[l].queue]
      BY DEF LoaderIsRight
    <3> HIDE DEF waiting
    <3>2. DOMAIN loaders[l].memo = waiting
      BY <3>1
    <3> QED BY <3>2 DEF LoaderIsRight, waiting
  <2> QED BY <2>1 DEF QueueIsRight
<1>2. place \in DOMAIN queue /\ queue[place] = key
  BY <1>1
<1>3. place \in DOMAIN Results(l, queue) /\ Results(l, queue)[place] = Found(rows, l, key)
  <2> HIDE DEF queue, place
  <2> QED BY <1>1, <1>2, ResultsInPlace
<1>4. AnswerOf(l, key) = IF Refused(l) THEN Refusal
                         ELSE [rows |-> Found(rows, l, key), fields |-> loaders[l].fields]
  BY <1>3 DEF AnswerOf
<1>5. Found(rows, l, key) \in Finds
  BY FoundType
<1> HIDE DEF key, queue, place
<1>6. AnswerOf(l, key) \in Answers
  BY <1>1, <1>4, <1>5 DEF Answers, Refusal
<1>7. AnswerOf(l, key) # None
  BY <1>6, NoneAssumption
<1> QED BY <1>4, <1>6, <1>7 DEF key

LEMMA WantedType ==
    ASSUME NEW p \in Paths, NEW dt \in DocTypes, NEW parent
    PROVE  Wanted(p, dt, parent) \subseteq Fields
BY DEF Wanted, Allowed, Mandatory, Fields

-----------------------------------------------------------------------------
(* A load: its key joins the loader's queue, which was cleared of all keys *)
(* that have their answers.                                                *)
LEMMA LoadKeeps ==
    ASSUME LoadersInv, NEW a \in Asks, NEW p \in Paths, NEW dt \in TypesAt[p],
           NEW parent, parent = TableOf[p], NEW key \in Docs, Load(a, p, dt, parent, key)
    PROVE  LoadersInv'
<1> DEFINE l == LoaderKey(p, dt, parent)
           fields == RequestedFields(p, dt, parent)
           waiting == {asks[b].key : b \in Pending(l)}
<1>1. /\ l.path = p /\ l.dt = dt /\ l.parent = parent
      /\ dt \in DocTypes
  BY TypesAssumption DEF LoaderKey
<1>2. /\ fields \subseteq Fields
      /\ TypesAt[p] = {dt} => fields = Wanted(p, dt, parent)
  BY <1>1, WantedType DEF RequestedFields, LoadersInv
<1>3. /\ a \notin DOMAIN asks
      /\ requested' = [requested EXCEPT ![p] = fields]
      /\ rows' = rows /\ selected' = selected
      /\ DOMAIN loaders' = DOMAIN loaders \cup {l}
      /\ \A m \in DOMAIN loaders : m # l => loaders'[m] = loaders[m]
      /\ DOMAIN asks' = DOMAIN asks \cup {a}
      /\ \A b \in DOMAIN asks : asks'[b] = asks[b]
  BY DEF Load
<1> DEFINE queue == IF l \in DOMAIN loaders THEN loaders[l].queue ELSE <<>>
<1>4. /\ loaders'[l] = [fields |-> IF l \in DOMAIN loaders THEN loaders[l].fields ELSE fields,
                        memo |-> [k \in waiting \cup {key} |-> None],
                        queue |-> IF key \in waiting THEN queue ELSE Append(queue, key)]
      /\ asks'[a] = [path |-> p, loader |-> l, key |-> key,
                     seen |-> {Found(rows, l, key)}, answer |-> None]
      /\ QueueIsRight(queue, waiting)
  <2>1. CASE l \in DOMAIN loaders
    <3>1. /\ loaders[l] = [fields |-> loaders[l].fields, memo |-> [k \in waiting |-> None],
                           queue |-> loaders[l].queue]
          /\ QueueIsRight(loaders[l].queue, DOMAIN loaders[l].memo)
      BY <2>1 DEF LoadersInv, LoaderIsRight
    <3>2. DOMAIN loaders[l].memo = waiting /\ \A k \in waiting : loaders[l].memo[k] = None
      <4> HIDE DEF waiting, l, queue
      <4> QED BY <3>1
    <3>3. loaders'[l] = [loaders[l] EXCEPT !.memo = [k \in waiting \cup {key} |-> None],
                                           !.queue = IF key \in waiting THEN @ ELSE Append(@, key)]
      <4> HIDE DEF waiting, queue
      <4> QED BY <2>1, <3>2 DEF Load
    <3>4. asks'[a] = [path |-> p, loader |-> l, key |-> key,
                      seen |-> {Found(rows, l, key)}, answer |-> None]
      <4> HIDE DEF waiting, queue
      <4> QED BY <2>1, <3>2 DEF Load
    <3>5. queue = loaders[l].queue /\ QueueIsRight(queue, waiting)
      BY <2>1, <3>1, <3>2
    <3> HIDE DEF waiting, l, queue
    <3>6. loaders'[l] = [fields |-> loaders[l].fields,
                         memo |-> [k \in waiting \cup {key} |-> None],
                         queue |-> IF key \in waiting THEN queue ELSE Append(queue, key)]
      BY <3>1, <3>3, <3>5
    <3> QED BY <2>1, <3>4, <3>5, <3>6
  <2>2. CASE l \notin DOMAIN loaders
    <3>1. waiting = {}
      BY <2>2 DEF LoadersInv, AskIsRight, Pending
    <3>2. queue = <<>>
      BY <2>2
    <3> HIDE DEF waiting, l, queue
    <3>3. QueueIsRight(queue, waiting)
      BY <3>1, <3>2 DEF QueueIsRight
    <3> QED BY <2>2, <3>1, <3>2, <3>3 DEF Load, l
  <2> QED BY <2>1, <2>2
<1> DEFINE longer == IF key \in waiting THEN queue ELSE Append(queue, key)
<1>12. QueueIsRight(longer, waiting \cup {key})
  <2>1. CASE key \in waiting
    <3> HIDE DEF queue, waiting
    <3> QED BY <1>4, <2>1 DEF QueueIsRight
  <2>2. CASE key \notin waiting
    <3>1. longer = Append(queue, key) /\ queue \in Seq(Docs)
      BY <1>4, <2>2 DEF QueueIsRight
    <3>2. \A i \in DOMAIN queue : queue[i] # key
      BY <1>4, <2>2 DEF QueueIsRight
    <3> HIDE DEF queue, longer, waiting
    <3>3. /\ longer \in Seq(Docs) /\ DOMAIN longer = DOMAIN queue \cup {Len(queue) + 1}
          /\ Len(queue) + 1 \notin DOMAIN queue
          /\ longer[Len(queue) + 1] = key
          /\ \A i \in DOMAIN queue : longer[i] = queue[i]
      BY <3>1
    <3> QED BY <1>4, <3>2, <3>3 DEF QueueIsRight
  <2> QED BY <2>1, <2>2
<1> HIDE DEF queue, longer
<1> HIDE DEF l, fields
<1>5. /\ \A m \in DOMAIN loaders \ {l} : Pending(m)' = Pending(m)
      /\ Pending(l)' = Pending(l) \cup {a}
      /\ {asks'[b].key : b \in Pending(l)'} = waiting \cup {key}
  BY <1>3, <1>4 DEF Pending
<1>6. /\ \A q \in Paths : \A t, u : Wanted(q, t, u)' = Wanted(q, t, u)
      /\ \A m, k : Found(rows, m, k)' = Found(rows, m, k)
  BY <1>3 DEF Wanted, Found
<1>7. \A m \in DOMAIN loaders' : LoaderIsRight(m)'
  <2>1. ASSUME NEW m \in DOMAIN loaders, m # l
        PROVE  LoaderIsRight(m)'
    <3>1. {asks'[b].key : b \in Pending(m)'} = {asks[b].key : b \in Pending(m)}
      BY <1>3, <1>5, <2>1 DEF Pending
    <3>2. LoaderIsRight(m) /\ loaders'[m] = loaders[m]
      BY <1>3, <2>1 DEF LoadersInv
    <3>3. Wanted(m.path, m.dt, m.parent)' = Wanted(m.path, m.dt, m.parent)
      BY <1>6, <3>2 DEF LoaderIsRight
    <3> QED BY <3>1, <3>2, <3>3 DEF LoaderIsRight
  <2>2. LoaderIsRight(l)'
    <3>1. LET f == IF l \in DOMAIN loaders THEN loaders[l].fields ELSE fields
          IN  f \subseteq Fields /\ (TypesAt[l.path] = {l.dt} => f = Wanted(l.path, l.dt, l.parent))
      BY <1>1, <1>2 DEF LoadersInv, LoaderIsRight, l
    <3>2. Wanted(l.path, l.dt, l.parent)' = Wanted(l.path, l.dt, l.parent)
      BY <1>1, <1>6 DEF l
    <3>3. /\ loaders'[l] = [fields |-> loaders'[l].fields, memo |-> [k \in waiting \cup {key} |-> None],
                            queue |-> loaders'[l].queue]
          /\ loaders'[l].queue = longer
      BY <1>4 DEF longer
    <3>4. l.path \in Paths /\ l.dt \in TypesAt[l.path] /\ l.parent = TableOf[l.path]
      BY <1>1 DEF l
    <3> HIDE DEF waiting
    <3>5. QueueIsRight(loaders[l].queue, DOMAIN loaders[l].memo)'
      BY <1>12, <3>3
    <3>6. loaders'[l] = [fields |-> loaders'[l].fields,
                         memo |-> [k \in {asks'[b].key : b \in Pending(l)'} |-> None],
                         queue |-> loaders'[l].queue]
      BY <1>5, <3>3
    <3>7. loaders'[l].fields = IF l \in DOMAIN loaders THEN loaders[l].fields ELSE fields
      BY <1>4
    <3> QED BY <3>1, <3>2, <3>4, <3>5, <3>6, <3>7 DEF LoaderIsRight
  <2> QED BY <1>3, <2>1, <2>2
<1>8. \A b \in DOMAIN asks' : AskIsRight(b)'
  <2>1. ASSUME NEW b \in DOMAIN asks
        PROVE  AskIsRight(b)'
    BY <1>3, <1>6, <2>1 DEF LoadersInv, AskIsRight
  <2>2. AskIsRight(a)'
    <3>1. Found(rows, l, key) \in Finds
      BY FoundType DEF LoadersInv
    <3> QED BY <1>1, <1>3, <1>4, <1>6, <3>1 DEF AskIsRight, l
  <2> QED BY <1>3, <2>1, <2>2
<1>9. OwnAnswer'
  BY <1>3, <1>4 DEF LoadersInv, OwnAnswer, Answered
<1>10. AskedFieldsArrive'
  <2> SUFFICES ASSUME NEW b \in DOMAIN asks', b \in Answered',
                      Cardinality(TypesAt[asks'[b].path]) = 1
               PROVE  FieldsArrive(b)'
    BY DEF AskedFieldsArrive, Answered
  <2>1. b \in DOMAIN asks /\ b \in Answered /\ asks'[b] = asks[b]
    BY <1>3, <1>4 DEF Answered
  <2>2. FieldsArrive(b)
    BY <2>1 DEF LoadersInv, AskedFieldsArrive
  <2>3. asks[b].path \in Paths
    BY <2>1 DEF LoadersInv, AskIsRight
  <2> QED BY <1>6, <2>1, <2>2, <2>3 DEF FieldsArrive
<1>11. /\ requested' \in [Paths -> (SUBSET Fields) \cup {None}]
       /\ \A q \in Paths, t \in DocTypes :
             TypesAt[q] = {t} => requested'[q] \in {None, Wanted(q, t, TableOf[q])'}
  BY <1>1, <1>2, <1>3, <1>6 DEF LoadersInv
<1> QED BY <1>3, <1>7, <1>8, <1>9, <1>10, <1>11 DEF LoadersInv

(* A dispatch: all of the queue is answered and forgotten.                 *)
LEMMA DispatchKeeps ==
    ASSUME LoadersInv, NEW l \in DOMAIN loaders, Dispatch(l)
    PROVE  LoadersInv'
<1>1. /\ rows' = rows /\ selected' = selected /\ requested' = requested
      /\ DOMAIN asks' = DOMAIN asks /\ DOMAIN loaders' = DOMAIN loaders
      /\ \A m \in DOMAIN loaders \ {l} : loaders'[m] = loaders[m]
      /\ \A a \in DOMAIN asks \ Pending(l) : asks'[a] = asks[a]
      /\ \A a \in Pending(l) :
            asks'[a] = [asks[a] EXCEPT !.answer = AnswerOf(l, asks[a].key)]
  <2> HIDE DEF LoadersInv
  <2> QED BY DEF Dispatch, Pending
<1>2. loaders'[l] = [fields |-> loaders[l].fields, memo |-> [k \in {} |-> None], queue |-> <<>>]
  <2>1. loaders'[l] = [loaders[l] EXCEPT !.memo = [k \in {} |-> None], !.queue = <<>>]
    BY DEF Dispatch
  <2>2. \E memo, queue : loaders[l] = [fields |-> loaders[l].fields, memo |-> memo, queue |-> queue]
    BY DEF LoadersInv, LoaderIsRight
  <2> QED BY <2>1, <2>2
<1>3. /\ \A a \in DOMAIN asks : AskIsRight(a)
      /\ LoaderIsRight(l) /\ loaders[l].fields \subseteq Fields
      /\ rows \in [Docs -> Versions \cup {Absent}]
  BY DEF LoadersInv, LoaderIsRight
<1>4. ASSUME NEW a \in Pending(l)
      PROVE  /\ a \in DOMAIN asks /\ asks[a].loader = l /\ asks[a].answer = None
             /\ asks'[a].path = asks[a].path /\ asks'[a].key = asks[a].key
             /\ asks'[a].loader = l /\ asks'[a].seen = asks[a].seen
             /\ asks'[a].answer = AnswerOf(l, asks[a].key)
             /\ asks'[a] \in [path : Paths, loader : DOMAIN loaders, key : Docs,
                              seen : SUBSET Finds, answer : Answers \cup {None}]
             /\ asks'[a].answer # None
  <2>1. a \in DOMAIN asks /\ asks[a].loader = l /\ asks[a].answer = None
    BY DEF Pending
  <2>2. AnswerOf(l, asks[a].key) \in Answers /\ AnswerOf(l, asks[a].key) # None
    BY <1>3, <2>1, AnswerType DEF AskIsRight
  <2>3. asks[a] \in [path : Paths, loader : DOMAIN loaders, key : Docs,
                    seen : SUBSET Finds, answer : Answers \cup {None}]
    BY <1>3, <2>1 DEF AskIsRight
  <2>4. asks'[a] = [asks[a] EXCEPT !.answer = AnswerOf(l, asks[a].key)]
    BY <1>1
  <2> HIDE DEF Answers, Finds
  <2>5. asks'[a] = [path |-> asks[a].path, loader |-> asks[a].loader, key |-> asks[a].key,
                    seen |-> asks[a].seen, answer |-> AnswerOf(l, asks[a].key)]
    BY <2>3, <2>4
  <2> QED BY <2>1, <2>2, <2>3, <2>5
<1>5. /\ \A m \in DOMAIN loaders \ {l} : Pending(m)' = Pending(m)
      /\ Pending(l)' = {}
  BY <1>1, <1>4 DEF Pending
<1>6. /\ \A q \in Paths : \A t, u : Wanted(q, t, u)' = Wanted(q, t, u)
      /\ \A m, k : Found(rows, m, k)' = Found(rows, m, k)
  BY <1>1 DEF Wanted, Found
<1>7. \A m \in DOMAIN loaders' : LoaderIsRight(m)'
  <2>1. ASSUME NEW m \in DOMAIN loaders, m # l
        PROVE  LoaderIsRight(m)'
    <3>1. {asks'[b].key : b \in Pending(m)'} = {asks[b].key : b \in Pending(m)}
      BY <1>1, <1>5, <2>1 DEF Pending
    <3>2. LoaderIsRight(m) /\ loaders'[m] = loaders[m]
      BY <1>1, <2>1 DEF LoadersInv
    <3>3. Wanted(m.path, m.dt, m.parent)' = Wanted(m.path, m.dt, m.parent)
      BY <1>6, <3>2 DEF LoaderIsRight
    <3> QED BY <3>1, <3>2, <3>3 DEF LoaderIsRight
  <2>2. LoaderIsRight(l)'
    <3>1. {asks'[b].key : b \in Pending(l)'} = {}
      BY <1>5
    <3>2. LoaderIsRight(l) /\ loaders'[l].fields = loaders[l].fields
      BY <1>2 DEF LoadersInv
    <3>3. Wanted(l.path, l.dt, l.parent)' = Wanted(l.path, l.dt, l.parent)
      BY <1>6, <3>2 DEF LoaderIsRight
    <3>4. QueueIsRight(loaders[l].queue, DOMAIN loaders[l].memo)'
      BY <1>2 DEF QueueIsRight
    <3>5. loaders'[l] = [fields |-> loaders'[l].fields,
                         memo |-> [k \in {asks'[b].key : b \in Pending(l)'} |-> None],
                         queue |-> loaders'[l].queue]
      <4> DEFINE waiting == {asks'[b].key : b \in Pending(l)'}
      <4>1. waiting = {}
        BY <3>1
      <4> HIDE DEF waiting
      <4>2. loaders'[l] = [fields |-> loaders'[l].fields, memo |-> [k \in waiting |-> None],
                           queue |-> loaders'[l].queue]
        BY <1>2, <4>1
      <4> QED BY <4>2 DEF waiting
    <3> QED BY <3>2, <3>3, <3>4, <3>5 DEF LoaderIsRight
  <2> QED BY <1>1, <2>1, <2>2
<1>8. \A a \in DOMAIN asks' : AskIsRight(a)'
  <2>1. ASSUME NEW a \in Pending(l)
        PROVE  AskIsRight(a)'
    BY <1>1, <1>3, <1>4, <2>1 DEF AskIsRight
  <2>2. ASSUME NEW a \in DOMAIN asks \ Pending(l)
        PROVE  AskIsRight(a)'
    BY <1>1, <1>3, <1>6, <2>2 DEF AskIsRight
  <2> QED BY <1>1, <2>1, <2>2
<1>9. OwnAnswer'
  <2>1. ASSUME NEW a \in Pending(l), asks'[a].answer # Refusal
        PROVE  asks'[a].answer.rows \in asks'[a].seen
    <3>1. asks'[a].answer.rows = Found(rows, l, asks[a].key)
      <4> DEFINE r == AnswerOf(l, asks[a].key)
      <4>1. r = [rows |-> Found(rows, l, asks[a].key), fields |-> loaders[l].fields]
        BY <1>3, <1>4, <2>1, AnswerType DEF AskIsRight
      <4> HIDE DEF r
      <4>2. r.rows = Found(rows, l, asks[a].key)
        BY <4>1
      <4> QED BY <1>4, <4>2 DEF r
    <3> QED BY <1>3, <1>4, <2>1, <3>1 DEF AskIsRight
  <2> QED BY <1>1, <2>1 DEF LoadersInv, OwnAnswer, Answered
<1>10. AskedFieldsArrive'
  <2>1. ASSUME NEW a \in Pending(l), Cardinality(TypesAt[asks'[a].path]) = 1
        PROVE  FieldsArrive(a)'
    <3>1. TypesAt[l.path] = {l.dt} /\ asks'[a].path = l.path
      <4>1. asks'[a].path = l.path
        BY <1>3, <1>4 DEF AskIsRight
      <4> QED BY <1>3, <2>1, <4>1, OneType DEF LoaderIsRight
    <3>2. loaders[l].fields = Wanted(l.path, l.dt, l.parent)
      BY <3>1 DEF LoadersInv, LoaderIsRight
    <3>3. asks'[a].answer # Refusal => asks'[a].answer.fields = loaders[l].fields
      <4> DEFINE r == AnswerOf(l, asks[a].key)
      <4>1. r # Refusal => r = [rows |-> Found(rows, l, asks[a].key), fields |-> loaders[l].fields]
        BY <1>3, <1>4, AnswerType DEF AskIsRight
      <4> HIDE DEF r
      <4>2. r # Refusal => r.fields = loaders[l].fields
        BY <4>1
      <4> QED BY <1>4, <4>2 DEF r
    <3>4. Wanted(l.path, l.dt, l.parent)' = Wanted(l.path, l.dt, l.parent)
      BY <1>3, <1>6 DEF LoaderIsRight
    <3> QED BY <1>4, <3>1, <3>2, <3>3, <3>4 DEF FieldsArrive
  <2>2. ASSUME NEW a \in DOMAIN asks \ Pending(l), a \in Answered',
               Cardinality(TypesAt[asks'[a].path]) = 1
        PROVE  FieldsArrive(a)'
    <3>1. asks'[a] = asks[a] /\ a \in Answered
      BY <1>1, <2>2 DEF Answered
    <3>2. FieldsArrive(a) /\ asks[a].path \in Paths
      BY <1>3, <2>2, <3>1 DEF LoadersInv, AskedFieldsArrive, AskIsRight
    <3> QED BY <1>6, <3>1, <3>2 DEF FieldsArrive
  <2> QED BY <1>1, <2>1, <2>2 DEF AskedFieldsArrive, Answered
<1> QED BY <1>1, <1>6, <1>7, <1>8, <1>9, <1>10 DEF LoadersInv

(* A document is changed: the open asks may be answered either way.        *)
LEMMA MutateKeeps ==
    ASSUME LoadersInv, NEW d \in Docs, NEW version \in Versions \cup {Absent},
           Mutate(d, version)
    PROVE  LoadersInv'
<1>1. /\ rows' \in [Docs -> Versions \cup {Absent}]
      /\ requested' = requested /\ selected' = selected /\ loaders' = loaders
      /\ DOMAIN asks' = DOMAIN asks
      /\ \A a \in Answered : asks'[a] = asks[a]
      /\ \A a \in DOMAIN asks \ Answered :
            asks'[a] = [asks[a] EXCEPT !.seen = @ \cup {Found(rows', asks[a].loader, asks[a].key)}]
  BY DEF Mutate, LoadersInv, Answered
<1>2. /\ \A a \in DOMAIN asks : AskIsRight(a)
      /\ \A l \in DOMAIN loaders : LoaderIsRight(l)
  BY DEF LoadersInv
<1>3. \A l, key : /\ Found(rows, l, key)' = Found(rows', l, key)
                  /\ Found(rows', l, key) \in Finds
  <2>1. \A l, key : Found(rows', l, key) \in Finds
    BY <1>1, FoundType
  <2>2. \A l, key : Found(rows, l, key)' = Found(rows', l, key)
    BY DEF Found
  <2> QED BY <2>1, <2>2
<1>4. \A q \in Paths : \A t, u : Wanted(q, t, u)' = Wanted(q, t, u)
  BY <1>1 DEF Wanted
<1>5. ASSUME NEW a \in DOMAIN asks
      PROVE  /\ asks'[a].path = asks[a].path /\ asks'[a].loader = asks[a].loader
             /\ asks'[a].key = asks[a].key /\ asks'[a].answer = asks[a].answer
             /\ AskIsRight(a)'
  <2>1. CASE a \in Answered
    BY <1>1, <1>2, <2>1 DEF AskIsRight, Answered
  <2>2. CASE a \notin Answered
    <3> DEFINE found == Found(rows', asks[a].loader, asks[a].key)
    <3>1. asks[a] \in [path : Paths, loader : DOMAIN loaders, key : Docs,
                      seen : SUBSET Finds, answer : Answers \cup {None}]
      BY <1>2 DEF AskIsRight
    <3>2. found \in Finds
      BY <1>3
    <3>3. asks'[a] = [asks[a] EXCEPT !.seen = @ \cup {found}]
      BY <1>1, <2>2
    <3> HIDE DEF found, Finds, Answers
    <3>4. /\ asks'[a].path = asks[a].path /\ asks'[a].loader = asks[a].loader
          /\ asks'[a].key = asks[a].key /\ asks'[a].answer = asks[a].answer
          /\ asks'[a].seen = asks[a].seen \cup {found}
          /\ asks'[a] \in [path : Paths, loader : DOMAIN loaders, key : Docs,
                           seen : SUBSET Finds, answer : Answers \cup {None}]
      BY <3>1, <3>2, <3>3
    <3>5. Found(rows, asks[a].loader, asks[a].key)' = found
      BY <1>3, <3>4 DEF found
    <3> QED BY <1>1, <1>2, <3>4, <3>5 DEF AskIsRight
  <2> QED BY <2>1, <2>2
<1>6. Answered' = Answered /\ \A l : Pending(l)' = Pending(l)
  BY <1>1, <1>5 DEF Answered, Pending
<1>7. \A l \in DOMAIN loaders' : LoaderIsRight(l)'
  <2> SUFFICES ASSUME NEW l \in DOMAIN loaders PROVE LoaderIsRight(l)'
    BY <1>1
  <2>1. {asks'[b].key : b \in Pending(l)'} = {asks[b].key : b \in Pending(l)}
    BY <1>5, <1>6 DEF Pending
  <2>2. LoaderIsRight(l) /\ l.path \in Paths
    BY <1>2 DEF LoaderIsRight
  <2>3. Wanted(l.path, l.dt, l.parent)' = Wanted(l.path, l.dt, l.parent)
    BY <1>4, <2>2
  <2> QED BY <1>1, <2>1, <2>2, <2>3 DEF LoaderIsRight
<1>8. OwnAnswer'
  BY <1>1, <1>6 DEF LoadersInv, OwnAnswer
<1>9. AskedFieldsArrive'
  <2> SUFFICES ASSUME NEW a \in Answered, Cardinality(TypesAt[asks[a].path]) = 1
               PROVE  FieldsArrive(a)'
    BY <1>1, <1>6 DEF AskedFieldsArrive
  <2>1. FieldsArrive(a) /\ asks[a].path \in Paths
    BY <1>2 DEF LoadersInv, AskedFieldsArrive, Answered, AskIsRight
  <2> QED BY <1>1, <1>4, <2>1 DEF FieldsArrive
<1> QED BY <1>1, <1>4, <1>5, <1>7, <1>8, <1>9 DEF LoadersInv

(* When nothing is waited for, the rows may be any (a rollback).           *)
LEMMA RollbackKeeps ==
    ASSUME LoadersInv, DOMAIN asks = Answered, rows' \in [Docs -> Versions \cup {Absent}],
           UNCHANGED <<selected, requested, loaders, asks>>
    PROVE  LoadersInv'
<1>1. \A q \in Paths : \A t, u : Wanted(q, t, u)' = Wanted(q, t, u)
  BY DEF Wanted
<1>2. \A l \in DOMAIN loaders : LoaderIsRight(l)'
  <2> TAKE l \in DOMAIN loaders
  <2>1. LoaderIsRight(l) /\ Wanted(l.path, l.dt, l.parent)' = Wanted(l.path, l.dt, l.parent)
    <3>1. LoaderIsRight(l)
      BY DEF LoadersInv
    <3>2. l.path \in Paths
      BY <3>1 DEF LoaderIsRight
    <3> QED BY <1>1, <3>1, <3>2
  <2> QED BY <2>1 DEF LoaderIsRight, Pending
<1>3. \A a \in DOMAIN asks : AskIsRight(a)'
  BY DEF LoadersInv, AskIsRight, Answered
<1>4. OwnAnswer'
  BY DEF LoadersInv, OwnAnswer, Answered
<1>5. AskedFieldsArrive'
  <2> SUFFICES ASSUME NEW a \in Answered, Cardinality(TypesAt[asks[a].path]) = 1
               PROVE  FieldsArrive(a)'
    BY DEF AskedFieldsArrive, Answered
  <2>1. FieldsArrive(a) /\ asks[a].path \in Paths
    BY DEF LoadersInv, AskedFieldsArrive, Answered, AskIsRight
  <2> QED BY <1>1, <2>1 DEF FieldsArrive
<1> QED BY <1>1, <1>2, <1>3, <1>4, <1>5 DEF LoadersInv

(* Before the first load, the operation may select anything.               *)
LEMMA ExecuteKeeps ==
    ASSUME LoadersInv, DOMAIN loaders = {}, DOMAIN asks = {},
           \A p \in Paths : requested[p] = None, UNCHANGED <<rows, requested, loaders, asks>>
    PROVE  LoadersInv'
BY DEF LoadersInv, OwnAnswer, AskedFieldsArrive, Answered

-----------------------------------------------------------------------------
(* The status of a response: the greatest one, and at least 400.           *)
LEMMA GreatestStatus ==
    ASSUME NEW codes \in SUBSET Nat, IsFiniteSet(codes)
    PROVE  /\ MaxStatus(codes) \in codes \cup {400}
           /\ \A code \in codes \cup {400} : MaxStatus(codes) >= code
<1> DEFINE S == codes \cup {400}
           R == {d \in S \X S : d[1] < d[2]}
<1>1. IsFiniteSet(S) /\ S # {} /\ S \in SUBSET Nat
  BY FS_AddElement
<1>2. \A x, y \in S : <<x, y>> \in R <=> x < y
  OBVIOUS
<1> HIDE DEF R, S
<1>3. \E x \in S : \A y \in S : <<x, y>> \notin R
  <2>1. \A x \in S : <<x, x>> \notin R
    BY <1>1, <1>2
  <2>2. \A x, y, z \in S : <<x, y>> \in R /\ <<y, z>> \in R => <<x, z>> \in R
    BY <1>1, <1>2
  <2> QED BY <1>1, <2>1, <2>2, LastMember
<1>4. \E x \in S : \A y \in S : x >= y
  <2>1. PICK x \in S : \A y \in S : <<x, y>> \notin R
    BY <1>3
  <2>2. \A y \in S : ~(x < y) /\ x \in Nat /\ y \in Nat
    BY <1>1, <1>2, <2>1
  <2> QED BY <2>2
<1>5. MaxStatus(codes) = CHOOSE x \in S : \A y \in S : x >= y
  BY DEF MaxStatus, Max, S
<1>6. MaxStatus(codes) \in S /\ \A y \in S : MaxStatus(codes) >= y
  BY <1>4, <1>5
<1> QED BY <1>6 DEF S

ErrorCodes == Codes \cup {400, 403, InternalError}

LEMMA StatusType ==
    ASSUME errors \subseteq ErrorCodes, IsFiniteSet(errors)
    PROVE  /\ MaxStatus(errors) \in ErrorCodes
           /\ MaxStatus(errors) >= 400
           /\ \A code \in errors : MaxStatus(errors) >= code
<1>1. errors \in SUBSET Nat
  BY CodesAssumption DEF ErrorCodes, InternalError
<1>2. /\ MaxStatus(errors) \in errors \cup {400}
      /\ \A code \in errors \cup {400} : MaxStatus(errors) >= code
  BY <1>1, GreatestStatus
<1> QED BY <1>2 DEF ErrorCodes

(* What a step of the handler other than a load, a dispatch or a mutation  *)
(* leaves alone.                                                           *)
LEMMA LoadersAlone ==
    ASSUME LoadersInv, UNCHANGED loaderVars
    PROVE  LoadersInv' /\ Answered' = Answered
<1>1. UNCHANGED <<rows, selected, requested, loaders, asks>>
  BY DEF loaderVars
<1>2. /\ \A q \in Paths : \A t, u : Wanted(q, t, u)' = Wanted(q, t, u)
      /\ \A m, k : Found(rows, m, k)' = Found(rows, m, k)
      /\ \A m : Pending(m)' = Pending(m)
      /\ Answered' = Answered
  BY <1>1 DEF Wanted, Found, Pending, Answered
<1>3. \A l \in DOMAIN loaders : LoaderIsRight(l)'
  <2> TAKE l \in DOMAIN loaders
  <2>1. LoaderIsRight(l) /\ l.path \in Paths
    BY DEF LoadersInv, LoaderIsRight
  <2>2. Wanted(l.path, l.dt, l.parent)' = Wanted(l.path, l.dt, l.parent)
    BY <1>2, <2>1
  <2>3. {asks'[a].key : a \in Pending(l)'} = {asks[a].key : a \in Pending(l)}
    BY <1>1, <1>2
  <2> QED BY <1>1, <2>1, <2>2, <2>3 DEF LoaderIsRight
<1>4. \A a \in DOMAIN asks : AskIsRight(a)'
  BY <1>1, <1>2 DEF LoadersInv, AskIsRight
<1>5. OwnAnswer'
  BY <1>1, <1>2 DEF LoadersInv, OwnAnswer
<1>6. AskedFieldsArrive'
  <2> SUFFICES ASSUME NEW a \in Answered, Cardinality(TypesAt[asks[a].path]) = 1
               PROVE  FieldsArrive(a)'
    BY <1>1, <1>2 DEF AskedFieldsArrive
  <2>1. FieldsArrive(a) /\ asks[a].path \in Paths
    BY DEF LoadersInv, AskedFieldsArrive, Answered, AskIsRight
  <2> QED BY <1>1, <1>2, <2>1 DEF FieldsArrive
<1> QED BY <1>1, <1>2, <1>3, <1>4, <1>5, <1>6 DEF LoadersInv

(* The part of ApiTypeOK about the loaders' caches follows from LoadersInv. *)
LEMMA CachesHoldQueues ==
    ASSUME LoadersInv'
    PROVE  \A l \in DOMAIN loaders' :
              DOMAIN loaders'[l].memo = {asks'[a].key : a \in Pending(l)'}
<1> TAKE l \in DOMAIN loaders'
<1> DEFINE waiting == {asks'[a].key : a \in Pending(l)'}
<1>1. loaders'[l] = [fields |-> loaders'[l].fields, memo |-> [k \in waiting |-> None],
                     queue |-> loaders'[l].queue]
  BY DEF LoadersInv, LoaderIsRight
<1> HIDE DEF waiting
<1>2. DOMAIN loaders'[l].memo = waiting
  BY <1>1
<1> QED BY <1>2 DEF waiting

LEMMA ApiInit == Init => ApiInv
<1> SUFFICES ASSUME Init PROVE ApiInv
  OBVIOUS
<1>1. /\ requested = [p \in Paths |-> None]
      /\ DOMAIN loaders = {} /\ DOMAIN asks = {} /\ Answered = {}
      /\ rows \in [Docs -> Versions \cup {Absent}]
  BY InitialRowsAssumption DEF Init, LoadersInit, Answered
<1>2. LoadersInv
  BY <1>1 DEF LoadersInv, OwnAnswer, AskedFieldsArrive
<1>3. IsFiniteSet(errors) /\ errors = {}
  BY FS_EmptySet DEF Init
<1>4. ApiTypeOK
  <2>1. stored = rows /\ stage = "received" /\ status = Ok /\ logged = FALSE /\ logStored = FALSE
    BY DEF Init
  <2> QED BY <1>1, <1>3, <2>1 DEF ApiTypeOK
<1>5. StageIsRight /\ FailureIsLogged
  <2>1. WellFormed(doc)
    BY DocumentsAssumption DEF Init
  <2> QED BY <1>1, <1>3, <2>1 DEF Init, StageIsRight, FailureIsLogged
<1> QED BY <1>2, <1>3, <1>4, <1>5 DEF ApiInv

-----------------------------------------------------------------------------
(* The steps in which the handler takes a decision.                        *)
LEMMA DecisionKeeps ==
    ASSUME ApiInv, Escape \/ Validate \/ Reject \/ Finish \/ Close
    PROVE  ApiInv'
<1>1. LoadersInv' /\ Answered' = Answered /\ UNCHANGED <<rows, requested, loaders, asks, made>>
  BY LoadersAlone DEF ApiInv, Escape, Validate, Reject, Finish, Close, loaderVars
<1>2. IsFiniteSet(errors')
  <2>1. \A x : IsFiniteSet({x})
    BY FS_Singleton
  <2>2. errors' = errors \/ \E x : errors' = {x}
    BY DEF Escape, Validate, Reject, Finish, Close
  <2> QED BY <2>1, <2>2 DEF ApiInv
<1>3. ApiTypeOK' /\ StageIsRight' /\ FailureIsLogged'
  <2> USE DEF ApiInv, ApiTypeOK, StageIsRight, FailureIsLogged, InternalError, Ok
  <2>1. CASE Escape
    BY <1>1, <2>1, CachesHoldQueues DEF Escape
  <2>2. CASE Validate
    BY <1>1, <2>2, CachesHoldQueues DEF Validate
  <2>3. CASE Reject
    BY <1>1, <2>3, CachesHoldQueues DEF Reject
  <2>4. CASE Finish
    BY <1>1, <2>4, CachesHoldQueues DEF Finish
  <2>5. CASE Close
    BY <1>1, <2>5, CachesHoldQueues DEF Close
  <2> QED BY <2>1, <2>2, <2>3, <2>4, <2>5
<1> QED BY <1>1, <1>2, <1>3 DEF ApiInv

(* The execution: Execute, then resolvers and loaders.                     *)
LEMMA ExecuteStep == ApiInv /\ Execute => ApiInv'
<1> SUFFICES ASSUME ApiInv, Execute PROVE ApiInv'
  OBVIOUS
<1>1. LoadersInv'
  BY ExecuteKeeps DEF ApiInv, StageIsRight, Execute
<1> QED BY <1>1, CachesHoldQueues
    DEF ApiInv, ApiTypeOK, StageIsRight, FailureIsLogged, Execute, Answered

LEMMA ResolveStep == ApiInv /\ Resolve => ApiInv'
<1> SUFFICES ASSUME ApiInv, Resolve PROVE ApiInv'
  OBVIOUS
<1>1. /\ LoadersInv'
      /\ rows' = made'
      /\ errors' \subseteq ErrorCodes /\ IsFiniteSet(errors')
  <2>1. ASSUME NEW a \in Asks, NEW p \in Paths, NEW key \in Docs,
               \/ LoadLink(a, p, key)
               \/ \E dt \in ChildTables : LoadTable(a, p, dt, key),
               UNCHANGED <<errors, made>>
        PROVE  LoadersInv' /\ rows' = rows
    <3>1. PICK dt \in TypesAt[p] : \E parent : parent = TableOf[p] /\ Load(a, p, dt, parent, key)
      BY <2>1 DEF LoadLink, LoadTable
    <3>2. LoadersInv'
      <4> HIDE DEF LoadersInv
      <4>1. LoadersInv
        BY DEF ApiInv
      <4> QED BY <3>1, <4>1, LoadKeeps
    <3> QED BY <3>1, <3>2 DEF Load
  <2>2. ASSUME NEW d \in Changing, SetValue(d) \/ SaveDoc(d) \/ DeleteDoc(d)
        PROVE  LoadersInv'
    <3>1. PICK version \in Versions \cup {Absent} : Mutate(d, version)
      <4>1. d \in Docs /\ rows[d] \in Versions \cup {Absent}
        BY ChangingAssumption DEF ApiInv, LoadersInv
      <4>2. CASE DeleteDoc(d)
        BY <4>2 DEF DeleteDoc
      <4>3. CASE SetValue(d)
        BY <4>1, <4>3, MaxVersionAssumption DEF SetValue, Versions
      <4>4. CASE SaveDoc(d)
        BY <4>1, <4>4, MaxVersionAssumption DEF SaveDoc, SetValue, Versions
      <4> QED BY <2>2, <4>2, <4>3, <4>4
    <3>2. d \in Docs
      BY ChangingAssumption
    <3> QED BY <3>1, <3>2, MutateKeeps DEF ApiInv
  <2>3. ASSUME NEW code \in Codes, errors' = errors \cup {code}, UNCHANGED <<loaderVars, made>>
        PROVE  LoadersInv' /\ rows' = rows /\ IsFiniteSet(errors') /\ errors' \subseteq ErrorCodes
    BY <2>3, LoadersAlone, FS_AddElement DEF ApiInv, ApiTypeOK, ErrorCodes, loaderVars
  <2> QED BY <2>1, <2>2, <2>3 DEF Resolve, ApiInv, ApiTypeOK, ErrorCodes, StageIsRight
<1> QED BY <1>1, CachesHoldQueues
    DEF ApiInv, ApiTypeOK, StageIsRight, FailureIsLogged, Resolve, LoadersInv, ErrorCodes

LEMMA RunLoaderStep == ApiInv /\ (\E l \in DOMAIN loaders : RunLoader(l)) => ApiInv'
<1> SUFFICES ASSUME ApiInv, NEW l \in DOMAIN loaders, RunLoader(l) PROVE ApiInv'
  OBVIOUS
<1>1. LoadersInv' /\ rows' = rows
  BY DispatchKeeps DEF ApiInv, RunLoader, Dispatch
<1>2. IsFiniteSet(errors')
  BY FS_AddElement DEF ApiInv, RunLoader
<1> QED BY <1>1, <1>2, CachesHoldQueues
    DEF ApiInv, ApiTypeOK, StageIsRight, FailureIsLogged, RunLoader, LoadersInv

(* A failure undoes what was made.                                         *)
LEMMA FailureKeeps ==
    ASSUME ApiInv, Fail \/ FailUnlogged
    PROVE  ApiInv'
<1>1. /\ stage = "failed" /\ rows' = stored
      /\ UNCHANGED <<selected, requested, loaders, asks, errors, stored>>
  BY DEF Fail, FailUnlogged
<1>2. LoadersInv'
  BY <1>1, RollbackKeeps DEF ApiInv, ApiTypeOK
<1>3. Answered' = Answered
  BY <1>1 DEF Answered
<1>4. MaxStatus(errors) \in ErrorCodes /\ MaxStatus(errors)' = MaxStatus(errors)
  BY <1>1, StatusType DEF ApiInv, ApiTypeOK, ErrorCodes, MaxStatus
<1>5. ApiTypeOK'
  <2>1. /\ stage' \in {"answered", "closed"} /\ status' \in ErrorCodes
        /\ logged' \in BOOLEAN /\ logStored' = logStored
    <3>1. InternalError \in ErrorCodes /\ logged \in BOOLEAN
      BY DEF ErrorCodes, ApiInv, ApiTypeOK
    <3> QED BY <1>4, <3>1 DEF Fail, FailUnlogged
  <2>2. /\ rows' \in [Docs -> Versions \cup {Absent}]
        /\ DOMAIN asks' = Answered'
    BY <1>1, <1>2, <1>3 DEF ApiInv, ApiTypeOK, LoadersInv
  <2>3. \A l \in DOMAIN loaders' :
            DOMAIN loaders'[l].memo = {asks'[a].key : a \in Pending(l)'}
    BY <1>2, CachesHoldQueues
  <2> QED BY <1>1, <2>1, <2>2, <2>3 DEF ApiInv, ApiTypeOK, ErrorCodes
<1>6. StageIsRight' /\ FailureIsLogged'
  BY <1>1, <1>4 DEF ApiInv, StageIsRight, FailureIsLogged, Fail, FailUnlogged
<1> QED BY <1>1, <1>2, <1>5, <1>6 DEF ApiInv

LEMMA ApiStep == ApiInv /\ [Next]_allVars => ApiInv'
<1> SUFFICES ASSUME ApiInv, [Next]_allVars PROVE ApiInv'
  OBVIOUS
<1>1. CASE UNCHANGED allVars
  <2>1. LoadersInv' /\ Answered' = Answered
    BY <1>1, LoadersAlone DEF allVars, ApiInv
  <2> QED BY <1>1, <2>1, CachesHoldQueues
      DEF allVars, loaderVars, apiVars, ApiInv, ApiTypeOK, StageIsRight, FailureIsLogged
<1> QED BY <1>1, DecisionKeeps, ExecuteStep, ResolveStep, RunLoaderStep, FailureKeeps
    DEF Next, Step

(* The invariant of a request and its dataloaders.                         *)
THEOREM RequestSafe == Spec => []ApiInv
<1> QED BY ApiInit, ApiStep, PTL DEF Spec

(* Every variable stays in its range; the cache of a loader holds just the *)
(* keys that are waiting.                                                  *)
COROLLARY RequestTyped == Spec => []ApiTypeOK
<1>1. ApiInv => ApiTypeOK
  BY DEF ApiInv
<1> QED BY <1>1, RequestSafe, PTL

(* Whoever asks a dataloader gets the rows of its key, as they were at     *)
(* some moment after it asked, whatever the request changed in between.    *)
COROLLARY AnswersAreOwn == Spec => []OwnAnswer
<1>1. ApiInv => OwnAnswer
  BY DEF ApiInv, LoadersInv
<1> QED BY <1>1, RequestSafe, PTL

(* With exactly the fields it asked for and may read, where the path leads *)
(* to one DocType.                                                         *)
COROLLARY FieldsAreAsked == Spec => []AskedFieldsArrive
<1>1. ApiInv => AskedFieldsArrive
  BY DEF ApiInv, LoadersInv
<1> QED BY <1>1, RequestSafe, PTL

(* The log of a failed POST outlives the rollback, if it could be written. *)
COROLLARY FailuresAreLogged == Spec => []FailureIsLogged
<1>1. ApiInv => FailureIsLogged
  BY DEF ApiInv
<1> QED BY <1>1, RequestSafe, PTL

(* No response is milder than an error of its request.                     *)
COROLLARY StatusSaysWorst == Spec => []StatusIsWorst
<1>1. ApiInv => StatusIsWorst
  <2> SUFFICES ASSUME ApiInv, stage = "closed" PROVE StatusIsWorst
    BY DEF StatusIsWorst
  <2>1. CASE errors = {}
    BY <2>1 DEF ApiInv, StageIsRight, StatusIsWorst
  <2>2. CASE errors # {}
    BY <2>2, StatusType DEF ApiInv, ApiTypeOK, ErrorCodes, StageIsRight, StatusIsWorst, Ok, InternalError
  <2> QED BY <2>1, <2>2
<1> QED BY <1>1, RequestSafe, PTL

(* Others see all of a request's mutations if it was a POST and went well, *)
(* and none of them otherwise.                                             *)
THEOREM AnswersAreTrue == Spec => AnswerIsTrue
<1>1. ApiInv /\ [Next]_allVars =>
        [stage # "closed" /\ stage' = "closed" =>
           stored' = IF status' = Ok /\ method = "POST" THEN made ELSE stored]_allVars
  <2> SUFFICES ASSUME ApiInv, Next, stage # "closed", stage' = "closed"
               PROVE  stored' = IF status' = Ok /\ method = "POST" THEN made ELSE stored
    OBVIOUS
  <2>1. CASE Escape \/ FailUnlogged
    BY <2>1 DEF Escape, FailUnlogged, Ok, InternalError
  <2>2. CASE Close
    <3>1. errors # {} => status # Ok
      BY <2>2, StatusType DEF Close, ApiInv, ApiTypeOK, ErrorCodes, StageIsRight, Ok
    <3> QED BY <2>2, <3>1 DEF Close, ApiInv, StageIsRight
  <2>3. CASE Validate \/ Reject \/ Execute \/ Finish \/ Fail
    BY <2>3 DEF Validate, Reject, Execute, Finish, Fail
  <2>4. CASE Resolve \/ \E l \in DOMAIN loaders : RunLoader(l)
    BY <2>4 DEF Resolve, RunLoader
  <2> QED BY <2>1, <2>2, <2>3, <2>4 DEF Next, Step
<1> QED BY <1>1, RequestSafe, PTL DEF Spec, AnswerIsTrue

(* The depth limit measures what it should: a document that can be         *)
(* crawled at all is too deep for it just if a path of fields is.          *)
THEOREM DepthIsMeasured == Spec => []DepthIsExact
<1>1. ApiInv => DepthIsExact
  BY DepthErrorsAreExact DEF ApiInv, StageIsRight, DepthIsExact
<1> QED BY <1>1, RequestSafe, PTL

(* The resolvers are given fields that were asked for, and all of them in  *)
(* documents that are Plain.                                               *)
THEOREM CollectsWhatWasAsked == Spec => []CollectedWasAsked
<1>1. ApiInv => CollectedWasAsked
  <2> SUFFICES ASSUME ApiInv, stage = "received", \A n \in DOMAIN doc : ~Dangling(doc, n),
                      NEW n \in DOMAIN doc
               PROVE  /\ Collected(doc)[n] \subseteq AskedBelow(doc, n)
                      /\ Plain(doc) => Collected(doc)[n] = AskedBelow(doc, n)
    BY DEF CollectedWasAsked, AskedBelow
  <2>1. WellFormed(doc)
    BY DEF ApiInv, StageIsRight
  <2> QED BY <2>1, CollectedIsAsked
<1> QED BY <1>1, RequestSafe, PTL

(* Only the last operation of a name is measured, but no other can be      *)
(* executed that is too deep: names are unique by then.                    *)
THEOREM DeepIsNotExecuted == Spec => ExecutedIsShallow
<1>1. ApiInv /\ [Next]_allVars =>
        [Execute => \A op \in Chosen(doc, operationName) : ~TooDeep(doc, op)]_allVars
  <2> SUFFICES ASSUME ApiInv, Execute, NEW op \in Chosen(doc, operationName)
               PROVE  ~TooDeep(doc, op)
    OBVIOUS
  <2>1. WellFormed(doc) /\ ~DepthErrors(doc) /\ Standard(doc)
    BY DEF Execute, ApiInv, StageIsRight
  <2>2. \A n \in DOMAIN doc : ~Dangling(doc, n)
    BY <2>1 DEF Standard
  <2>3. GetQueries(doc) = OfKind(doc, "operation")
    BY <2>1, AllAreMeasured DEF Standard
  <2>4. op \in OfKind(doc, "operation")
    BY DEF Chosen
  <2> QED BY <2>1, <2>2, <2>3, <2>4, DepthErrorsAreExact
<1> QED BY <1>1, RequestSafe, PTL DEF Spec, ExecutedIsShallow
=============================================================================
