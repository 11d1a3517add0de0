----------------------------- MODULE ApiRequest -----------------------------
(***************************************************************************)
(* One HTTP request to execute_gql_query (api.py): the query is parsed and *)
(* measured, executed with the dataloaders of RequestLoaders, and answered *)
(* in one database transaction that an error in any field undoes, but for  *)
(* an error log.  frappe commits the transaction of a POST in the end and  *)
(* undoes that of a GET, or of a request whose handler raises.             *)
(***************************************************************************)
EXTENDS RequestLoaders

CONSTANTS
    Documents,      \* the documents clients send
    InitialRows,    \* the database before the request
    Changing,       \* the documents its mutations are about
    Codes           \* the http_status_code of exceptions resolvers raise

ASSUME DocumentsAssumption == \A d \in Documents : WellFormed(d)
ASSUME InitialRowsAssumption == InitialRows \in [Docs -> Versions \cup {Absent}]
ASSUME ChangingAssumption == Changing \subseteq Docs
ASSUME CodesAssumption == Codes \subseteq Nat

VARIABLES
    method,         \* of the HTTP request
    doc,            \* the document, until it is executed
    operationName,
    stage,          \* where the handler stands
    errors,         \* the http_status_code of each error, 400 without one
    status,         \* of the response
    logged,         \* whether the transaction holds a GraphQL Error Log
    stored,         \* the database as others see it
    logStored,      \* and whether they see the log
    made            \* history: the rows with every mutation that was made

apiVars == <<method, doc, operationName, stage, errors, status, logged, stored,
             logStored, made>>
allVars == <<loaderVars, apiVars>>

NoDoc == <<>>       \* of a request get_query or parse raises for
Ok == 200
InternalError == 500

-----------------------------------------------------------------------------
(* The standard rules of graphql-core that are about definitions: names    *)
(* are unique, an operation without a name is alone, fragments exist.      *)
Standard(d) ==
    /\ \A kind \in {"operation", "fragment"} : \A n, m \in OfKind(d, kind) :
          d[n].name = d[m].name => n = m
    /\ \A n, m \in OfKind(d, "operation") : d[n].name = Anonymous => n = m
    /\ \A n \in DOMAIN d : ~Dangling(d, n)

(* The operation to execute: the one that is named, or the only one.       *)
Chosen(d, name) ==
    IF name = Anonymous
    THEN {n \in OfKind(d, "operation") : OfKind(d, "operation") = {n}}
    ELSE {n \in OfKind(d, "operation") : d[n].name = name}

Init ==
    /\ LoadersInit
    /\ rows = InitialRows
    /\ method \in {"GET", "POST"}
    /\ doc \in Documents
    /\ operationName \in {Anonymous} \cup {doc[n].name : n \in OfKind(doc, "operation")}
    /\ stage = "received"
    /\ errors = {}
    /\ status = Ok
    /\ logged = FALSE
    /\ stored = rows
    /\ logStored = FALSE
    /\ made = rows

(* get_query, get_schema, parse or the crawl of determine_depth raise, or  *)
(* execute does before it runs the operation, as for variables that are no *)
(* dict (those of a GET stay a string): frappe undoes the transaction and  *)
(* answers.                                                                *)
Escape ==
    /\ stage \in {"received", "validated"}
    /\ stage' = "closed"
    /\ errors' = {InternalError}
    /\ status' = InternalError
    /\ UNCHANGED <<loaderVars, method, doc, operationName, logged, stored, logStored, made>>

(* validate with the depth limit as its only rule.                         *)
Validate ==
    /\ stage = "received"
    /\ doc # NoDoc /\ ~CrawlRaises(doc)
    /\ IF DepthErrors(doc) THEN stage' = "failed" /\ errors' = {400}
                           ELSE stage' = "validated" /\ UNCHANGED errors
    /\ UNCHANGED <<loaderVars, method, doc, operationName, status, logged, stored,
                   logStored, made>>

(* graphql_sync validates by the standard rules, of which those about      *)
(* types may turn down any document, and looks for the operation.          *)
Reject ==
    /\ stage = "validated"
    /\ stage' = "failed"
    /\ errors' = {400}
    /\ UNCHANGED <<loaderVars, method, doc, operationName, status, logged, stored,
                   logStored, made>>

(* Mutant of Execute: no validation by the standard rules.                 *)
ExecuteUnvalidated ==
    /\ stage = "validated"
    /\ \E op \in Chosen(doc, operationName) :
          selected' = [p \in Paths |-> Heads(FieldTree(doc, op, p))]
    /\ stage' = "running"
    /\ doc' = NoDoc /\ operationName' = Anonymous
    /\ UNCHANGED <<rows, requested, loaders, asks, method, errors, status, logged,
                   stored, logStored, made>>

(* It executes the operation, with an empty context.                       *)
Execute ==
    /\ stage = "validated"
    /\ Standard(doc)
    /\ \E op \in Chosen(doc, operationName) :
          selected' = [p \in Paths |-> Heads(FieldTree(doc, op, p))]
    /\ stage' = "running"
    /\ doc' = NoDoc /\ operationName' = Anonymous
    /\ UNCHANGED <<rows, requested, loaders, asks, method, errors, status, logged,
                   stored, logStored, made>>

(* The resolvers at work: they load, change documents, and raise, which    *)
(* leaves null in the field's place and lets the others go on.             *)
Resolve ==
    /\ stage = "running"
    /\ \/ \E a \in Asks, p \in Paths, key \in Docs :
             /\ \/ LoadLink(a, p, key)
                \/ \E dt \in ChildTables : LoadTable(a, p, dt, key)
             /\ UNCHANGED <<errors, made>>
       \/ \E d \in Changing :
             /\ SetValue(d) \/ SaveDoc(d) \/ DeleteDoc(d)
             /\ made' = rows'
             /\ UNCHANGED errors
       \/ \E code \in Codes :
             /\ errors' = errors \cup {code}
             /\ UNCHANGED <<loaderVars, made>>
    /\ UNCHANGED <<method, doc, operationName, stage, status, logged, stored, logStored>>

(* A loader's turn; a refused query is an error of every field it serves.  *)
RunLoader(l) ==
    /\ stage = "running"
    /\ Dispatch(l)
    /\ errors' = IF Refused(l) THEN errors \cup {403} ELSE errors
    /\ UNCHANGED <<method, doc, operationName, stage, status, logged, stored, logStored, made>>

(* No field is left waiting for a loader.                                  *)
Finish ==
    /\ stage = "running"
    /\ DOMAIN asks = Answered
    /\ stage' = IF errors = {} THEN "answered" ELSE "failed"
    /\ UNCHANGED <<loaderVars, method, doc, operationName, errors, status, logged,
                   stored, logStored, made>>

(* get_max_http_status_code.                                               *)
MaxStatus(codes) == Max(codes \cup {400})

(* Mutants of Fail: nothing is rolled back; the log is written before the  *)
(* rollback; an error's own status replaces the one so far.                *)
FailKeepsRows ==
    /\ stage = "failed"
    /\ logged' = TRUE
    /\ status' = MaxStatus(errors)
    /\ stage' = "answered"
    /\ UNCHANGED <<loaderVars, method, doc, operationName, errors, stored, logStored, made>>

FailLogsFirst ==
    /\ stage = "failed"
    /\ rows' = stored
    /\ logged' = FALSE
    /\ status' = MaxStatus(errors)
    /\ stage' = "answered"
    /\ UNCHANGED <<selected, requested, loaders, asks, method, doc, operationName,
                   errors, stored, logStored, made>>

FailLastStatus ==
    /\ stage = "failed"
    /\ rows' = stored
    /\ logged' = TRUE
    /\ status' \in errors
    /\ stage' = "answered"
    /\ UNCHANGED <<selected, requested, loaders, asks, method, doc, operationName,
                   errors, stored, logStored, made>>

(* Errors: rollback, log_error, and the response's status.                 *)
Fail ==
    /\ stage = "failed"
    /\ rows' = stored
    /\ logged' = TRUE
    /\ status' = MaxStatus(errors)
    /\ stage' = "answered"
    /\ UNCHANGED <<selected, requested, loaders, asks, method, doc, operationName,
                   errors, stored, logStored, made>>

(* The log cannot be inserted, as when the operation's name is longer than *)
(* its field: the exception leaves execute_gql_query.                      *)
FailUnlogged ==
    /\ stage = "failed"
    /\ rows' = stored
    /\ status' = InternalError
    /\ stage' = "closed"
    /\ UNCHANGED <<selected, requested, loaders, asks, method, doc, operationName,
                   errors, logged, stored, logStored, made>>

(* The end of the request in frappe.                                       *)
Close ==
    /\ stage = "answered"
    /\ stage' = "closed"
    /\ IF method = "POST" THEN stored' = rows /\ logStored' = logged
                          ELSE UNCHANGED <<stored, logStored>>
    /\ UNCHANGED <<loaderVars, method, doc, operationName, errors, status, logged, made>>

Step == Escape \/ Validate \/ Reject \/ Execute \/ Finish \/ Fail \/ FailUnlogged \/ Close

Next ==
    \/ Step
    \/ Resolve
    \/ \E l \in DOMAIN loaders : RunLoader(l)

Spec == Init /\ [][Next]_allVars

(* One thread works on the request until it is answered: a loader whose    *)
(* queue is not empty is dispatched, and a document has an end.            *)
FairSpec ==
    /\ Spec
    /\ WF_allVars(Step)
    /\ WF_allVars(\E l \in DOMAIN loaders : RunLoader(l))

-----------------------------------------------------------------------------
(* Every variable stays in its range, and a loader's cache holds just the  *)
(* keys that are waiting in its queue.                                     *)
ApiTypeOK ==
    /\ rows \in [Docs -> Versions \cup {Absent}]
    /\ stored \in [Docs -> Versions \cup {Absent}]
    /\ stage \in {"received", "validated", "running", "failed", "answered", "closed"}
    /\ errors \subseteq Codes \cup {400, 403, InternalError}
    /\ status \in {Ok, 400, 403, InternalError} \cup Codes
    /\ logged \in BOOLEAN /\ logStored \in BOOLEAN
    /\ DOMAIN asks \subseteq Asks
    /\ \A l \in DOMAIN loaders :
          DOMAIN loaders[l].memo = {asks[a].key : a \in Pending(l)}
    /\ stage # "running" => DOMAIN asks = Answered

(* determine_depth finds a document too deep just if it nests fields more  *)
(* deeply than the limit, through fragments of either kind.                *)
DepthIsExact ==
    stage = "received" /\ (\A n \in DOMAIN doc : ~Dangling(doc, n)) =>
        (DepthErrors(doc) <=> \E op \in GetQueries(doc) : TooDeep(doc, op))

(* No operation is executed that is deeper than the limit, whichever one   *)
(* the client names, although only the last operation of a name is         *)
(* measured (get_queries_and_mutations).                                   *)
ExecutedIsShallow ==
    [][Execute => \A op \in Chosen(doc, operationName) : ~TooDeep(doc, op)]_allVars

(* collect_fields finds nothing that was not asked for, and all of it in a *)
(* document without inline fragments and repeated fields.                  *)
CollectedWasAsked ==
    stage = "received" /\ (\A n \in DOMAIN doc : ~Dangling(doc, n)) =>
        \A n \in DOMAIN doc :
            LET asked == UNION {Asked(doc)[m] : m \in Sels(doc, n)}
            IN  /\ Collected(doc)[n] \subseteq asked
                /\ Plain(doc) => Collected(doc)[n] = asked

(* The answer tells what has become of the request's mutations: others see *)
(* all of them after a POST that went well, and none of them otherwise.    *)
AnswerIsTrue ==
    [][stage # "closed" /\ stage' = "closed" =>
          stored' = IF status' = Ok /\ method = "POST" THEN made ELSE stored]_allVars

(* The log of a POST that failed outlives the rollback, unless it could    *)
(* not be written at all.                                                  *)
FailureIsLogged ==
    stage = "closed" /\ method = "POST" /\ status \notin {Ok, InternalError} => logStored

(* The status is no milder than any error of the request, and an error it  *)
(* is (get_max_http_status_code).                                          *)
StatusIsWorst ==
    stage = "closed" =>
        /\ status = Ok <=> errors = {}
        /\ \A code \in errors : status >= code \/ status = InternalError
        /\ errors # {} => status >= 400

(* Why all that holds: what the handler has reached at each of its stages. *)
StageIsRight ==
    /\ stage \in {"received", "validated"} =>
          /\ WellFormed(doc)
          /\ \A p \in Paths : requested[p] = None
          /\ DOMAIN loaders = {} /\ DOMAIN asks = {}
          /\ errors = {}
    /\ stage \notin {"answered", "closed"} => status = Ok /\ ~logged
    /\ stage \in {"received", "validated", "running"} => rows = made
    /\ stage = "validated" => ~DepthErrors(doc)
    /\ stage = "failed" => errors # {}
    /\ stage = "answered" =>
          IF errors = {} THEN status = Ok /\ rows = made
                         ELSE status = MaxStatus(errors) /\ rows = stored /\ logged
    /\ stage = "closed" =>
          IF errors = {} THEN status = Ok ELSE status \in {MaxStatus(errors), InternalError}

ApiInv == /\ ApiTypeOK /\ LoadersInv /\ StageIsRight /\ FailureIsLogged
          /\ IsFiniteSet(errors)

(* Every request is answered.                                              *)
RequestEnds == <>(stage = "closed")

-----------------------------------------------------------------------------
(* What a text of the repository says, which the code does not keep.       *)

(* gql_fields.py:24 "A dict mapping each field found, along with their sub *)
(* fields.": every field the query selects is in the dict.                 *)
FieldsFound ==
    stage = "received" /\ Standard(doc) =>
        \A op \in OfKind(doc, "operation"), p \in Paths :
            FieldTree(doc, op, p) = AskedTree(doc, op, p)
=============================================================================
