----------------------------- MODULE ApiRequests -----------------------------
(***************************************************************************)
(* What the API says about its requests: the request-context middleware,   *)
(* the exception filter and the structured logger they and the services    *)
(* share, with requests interleaved at every await.  AsyncLocalStorage     *)
(* gives every continuation the store it was created under; `store` is     *)
(* that of the continuations of each request.  A client may pipeline: send *)
(* a request on a connection before its earlier ones are answered.  Node   *)
(* handles such requests at once and sends their responses in order.       *)
(*                                                                         *)
(* While the application starts, Nest logs through the same logger, and    *)
(* outside any request, whatever objects it likes.                         *)
(***************************************************************************)
EXTENDS Redaction, Bags

CONSTANTS
    HttpRequest,    \* the requests that may be in flight at once
    CorrelationId,  \* correlation ids that clients send, well formed
    Root,           \* the node that is logged or thrown
    Details,        \* the node that an application error carries as details
    Metadata,       \* the graphs that Nest logs
    Thrown,         \* the graphs that handlers throw
    None

ASSUME RootAssumption == {Root, Details} \subseteq Node /\ None \notin HttpRequest \cup CorrelationId \cup Text
ASSUME GraphAssumption == Metadata \cup Thrown \subseteq Graph

VARIABLES
    level,          \* LOG_LEVEL
    serving,        \* the application listens
    phase,          \* how far each request is
    before,         \* the request that was last on its connection and unfinished
    store,          \* the AsyncLocalStorage store of its continuations
    exception,      \* what its handler threw
    response,       \* its response as far as it is made
    finishStore,    \* the store that its 'finish' listeners ran in
    records         \* the records in the log, with their number of copies

requestVars == <<phase, before, store, exception, response, finishStore>>
apiRequestVars == <<level, serving, requestVars, records>>

\* randomUUID(): an id for a request that nothing else has.
NewRequestId(r) == <<"request", r>>
NewCorrelationId(r) == <<"correlation", r>>
ReplacementId(r) == <<"replacement", r>>

ASSUME IdAssumption == \A r \in HttpRequest : NewRequestId(r) # None

-----------------------------------------------------------------------------
(* The logger and the request context                                       *)

NoContext == [requestId |-> None, correlationId |-> None]

\* runWithRequestContext: the store of everything the operation starts.
\* Mutant: one store for the whole process.
RunWithRequestContextGlobal(r, context) == store' = [q \in HttpRequest |-> context]

RunWithRequestContext(r, context) == store' = [store EXCEPT ![r] = context]

\* RepositoryLogger.write: the ids of the context, if there is one, go over
\* those that the metadata gives, and everything is redacted.
\* Its graph is remembered for the properties; None when it holds no object.
Record(event, status, metadata, context, graph) ==
    LET ids == IF context = NoContext THEN metadata ELSE context
    IN  [event |-> event, status |-> status, graph |-> graph,
         requestId |-> ids.requestId, correlationId |-> ids.correlationId,
         leaves |-> IF graph = None THEN {} ELSE RedactSensitiveValues(graph, Root)]

LogLevel == {"debug", "info", "warn", "error"}

\* What pino writes at each level.
Logged(threshold) ==
    CASE threshold = "debug" -> {"debug", "info", "warn", "error", "fatal"}
      [] threshold = "info"  -> {"info", "warn", "error", "fatal"}
      [] threshold = "warn"  -> {"warn", "error", "fatal"}
      [] threshold = "error" -> {"error", "fatal"}

Write(severity, record) ==
    records' = IF severity \in Logged(level) THEN records (+) SetToBag({record}) ELSE records

\* NestLoggerAdapter: an object or an error among what the framework logs.
\* Bound: one such record at a time.
NestLog ==
    /\ ~serving /\ records = EmptyBag
    /\ \E severity \in Logged("debug"), graph \in Metadata :
          Write(severity, Record("nest.framework", None, NoContext, NoContext, graph))
    /\ UNCHANGED <<level, serving, requestVars>>

\* Bound: the records of the start are not looked at any more.
Serve ==
    /\ ~serving
    /\ serving' = TRUE
    /\ records' = EmptyBag
    /\ UNCHANGED <<level, requestVars>>

-----------------------------------------------------------------------------
(* The middleware and the handlers                                          *)

NoResponse == [requestId |-> None, correlationId |-> None, status |-> None,
               code |-> None, message |-> None, bodyId |-> None, details |-> {}]

\* The inbound x-request-id is never looked at; a malformed or missing
\* correlation id is replaced.
ResolveCorrelationId(r, inbound) ==
    IF inbound \in CorrelationId THEN inbound ELSE NewCorrelationId(r)

Underway(r) == phase[r] \in {"handling", "logged", "thrown", "answered", "queued"}

\* The request behind which a new one may come: an open one, last on its connection.
Predecessors == {p \in HttpRequest : Underway(p) /\ \A q \in HttpRequest : before[q] # p}

Receive(r, inbound, predecessor) ==
    /\ serving /\ phase[r] = "none"
    /\ phase' = [phase EXCEPT ![r] = "handling"]
    /\ before' = [before EXCEPT ![r] = predecessor]
    /\ LET ids == [requestId |-> NewRequestId(r),
                   correlationId |-> ResolveCorrelationId(r, inbound)]
       IN  /\ response' = [response EXCEPT ![r].requestId = ids.requestId,
                                           ![r].correlationId = ids.correlationId]
           /\ RunWithRequestContext(r, ids)
    /\ UNCHANGED <<level, serving, exception, finishStore, records>>

\* A service logs after an await of its own, as AuthService does; once here.
HandlerLogs(r) ==
    /\ phase[r] = "handling"
    /\ phase' = [phase EXCEPT ![r] = "logged"]
    /\ \E severity \in {"info", "warn", "error"} :
          Write(severity, Record("service", None, NoContext, store[r], None))
    /\ UNCHANGED <<level, serving, before, store, exception, response, finishStore>>

Handling(r) == phase[r] \in {"handling", "logged"}

Answered(r) == phase[r] \in {"answered", "queued", "finished", "lost"}

\* getRequestId() ?? randomUUID()
AnswerId(r) == IF store[r] = NoContext THEN ReplacementId(r) ELSE store[r].requestId

\* The response is made; Node keeps it back while an earlier one is to be sent.
Respond(r) ==
    phase' = [phase EXCEPT ![r] =
        IF before[r] # None /\ phase[before[r]] # "finished" THEN "queued" ELSE "answered"]

\* A handler returns a body, with the request's id (businessResponse) or without,
\* having set the status itself if it is not ready.
Returned == [status : {200}, tellsId : BOOLEAN] \cup [status : {503}, tellsId : {FALSE}]

HandlerReturns(r, returned) ==
    /\ Handling(r)
    /\ Respond(r)
    /\ response' = [response EXCEPT ![r].status = returned.status,
                       ![r].bodyId = IF returned.tellsId THEN AnswerId(r) ELSE None]
    /\ UNCHANGED <<level, serving, before, store, exception, finishStore, records>>

\* What handlers, guards and pipes throw: an ApplicationError with or without
\* details, an HttpException, or anything else.
Exception ==
    [type : {"application"}, status : {409, 500}, details : BOOLEAN]
       \cup [type : {"http"}, status : {302, 404, 418, 500}, details : {FALSE}]
       \cup [type : {"unknown"}, status : {None}, details : {FALSE}]

ASSUME ExceptionAssumption ==
    \A thrown \in Exception, graph \in Thrown \cup {None} : [error |-> thrown, graph |-> graph] # None

\* The values of that type: the first two are errors, and every safeMessage in
\* the source is a fixed text; of the third, None is undefined.
MayBe(thrown, graph) ==
    IF graph = None THEN thrown.type = "unknown"
    ELSE /\ thrown.type # "unknown" => graph[Root].kind = "error"
         /\ thrown.type = "application" => graph[Root].own["message"] = "plain"

HandlerThrows(r, thrown, graph) ==
    /\ Handling(r) /\ MayBe(thrown, graph)
    /\ phase' = [phase EXCEPT ![r] = "thrown"]
    /\ exception' = [exception EXCEPT ![r] = [error |-> thrown, graph |-> graph]]
    /\ UNCHANGED <<level, serving, before, store, response, finishStore, records>>

-----------------------------------------------------------------------------
(* ApiExceptionFilter                                                       *)

\* `unexpected` is the exception itself, or undefined.
NormalizedError(status, code, message, details, unexpected) ==
    [status |-> status, code |-> code, message |-> message,
     details |-> details, unexpected |-> unexpected]

FixedText == "plain"

\* Mutant: the client is told what went wrong.
GenericTelling(graph) ==
    NormalizedError(500, "INTERNAL_SERVER_ERROR",
                    IF graph = None THEN FixedText ELSE graph[Root].own["message"], {}, graph)

Generic(graph) == NormalizedError(500, "INTERNAL_SERVER_ERROR", FixedText, {}, graph)

\* Of the HTTP statuses thrown here, httpErrorDefinitions lists 404 and 500.
NormalizeError(error, graph) ==
    LET unexpected == IF error.status >= 500 THEN graph ELSE None
    IN  CASE error.type = "application" ->
                NormalizedError(error.status, "its own", graph[Root].own["message"],
                       IF error.details THEN RedactSensitiveValues(graph, Details) ELSE {},
                       unexpected)
          [] error.type = "http" /\ error.status \in {404, 500} ->
                NormalizedError(error.status, "by status", FixedText, {}, unexpected)
          [] error.type = "http" /\ error.status = 418 ->
                NormalizedError(418, "BAD_REQUEST", FixedText, {}, None)
          [] OTHER -> Generic(graph)

Catch(r) ==
    /\ phase[r] = "thrown"
    /\ Respond(r)
    /\ LET normalized == NormalizeError(exception[r].error, exception[r].graph)
           Error(event) ==
               Record(event, normalized.status, NoContext, store[r], normalized.unexpected)
       IN  /\ response' = [response EXCEPT
                 ![r].requestId = AnswerId(r), ![r].bodyId = AnswerId(r),
                 ![r].status = normalized.status, ![r].code = normalized.code,
                 ![r].message = normalized.message, ![r].details = normalized.details]
           /\ IF normalized.unexpected = None
              THEN Write("warn", Error("api.error.handled"))
              ELSE Write("error", Error("api.error.unhandled"))
    /\ UNCHANGED <<level, serving, before, store, exception, finishStore>>

-----------------------------------------------------------------------------
(* The response's 'finish' event, if the client is still there.             *)

\* A listener runs in the store of what emits the event: the last write of the
\* response, which is the request's own unless Node had kept it back: then what
\* sends it is the 'finish' of the response before, and its store may be there.
FinishStores(r) ==
    {store[r]} \cup (IF phase[r] = "queued" THEN {finishStore[before[r]]} ELSE {})

\* Responses are sent in the order of their requests.
Finish(r) ==
    /\ \/ phase[r] = "answered"
       \/ phase[r] = "queued" /\ phase[before[r]] = "finished"
    /\ phase' = [phase EXCEPT ![r] = "finished"]
    /\ \E context \in FinishStores(r) :
          /\ finishStore' = [finishStore EXCEPT ![r] = context]
          /\ Write("info", Record("http.request.completed", response[r].status,
                                  response[r], context, None))
    /\ UNCHANGED <<level, serving, before, store, exception, response>>

\* The connection is gone: the response never finishes, nor do those behind it.
ClientLost(r) ==
    /\ phase[r] \in {"answered", "queued"}
    /\ before[r] # None => phase[before[r]] \in {"finished", "lost"}
    /\ phase' = [phase EXCEPT ![r] = "lost"]
    /\ UNCHANGED <<level, serving, before, store, exception, response, finishStore, records>>

-----------------------------------------------------------------------------

ApiRequestsInit ==
    /\ level \in LogLevel
    /\ serving = FALSE
    /\ phase = [r \in HttpRequest |-> "none"]
    /\ before = [r \in HttpRequest |-> None]
    /\ store = [r \in HttpRequest |-> NoContext]
    /\ finishStore = [r \in HttpRequest |-> NoContext]
    /\ exception = [r \in HttpRequest |-> None]
    /\ response = [r \in HttpRequest |-> NoResponse]
    /\ records = EmptyBag

ApiRequestsNext ==
    \/ Serve
    \/ NestLog
    \/ \E r \in HttpRequest :
          \/ \E inbound \in CorrelationId \cup {None}, predecessor \in Predecessors \cup {None} :
                Receive(r, inbound, predecessor)
          \/ HandlerLogs(r)
          \/ \E returned \in Returned : HandlerReturns(r, returned)
          \/ \E thrown \in Exception, graph \in Thrown \cup {None} :
                HandlerThrows(r, thrown, graph)
          \/ Catch(r) \/ Finish(r) \/ ClientLost(r)

ApiRequestsSpec == ApiRequestsInit /\ [][ApiRequestsNext]_apiRequestVars
-----------------------------------------------------------------------------
(* Properties.                                                              *)

\* The records of one kind that name a request by its id.
About(id, events) == {record \in BagToSet(records) : record.requestId = id /\ record.event \in events}

ErrorEvents == {"api.error.handled", "api.error.unhandled"}

\* A request that shares its connection with no other that is under way.
Alone(r) == before[r] = None /\ \A q \in HttpRequest : before[q] # r

\* What is answered with a server error because something was thrown.
Unexpected(r) == exception[r] # None /\ exception[r].graph # None /\ response[r].status >= 500

\* OBSERVABILITY.md: the id in the header of an answer, and in its body, if it
\* is there, is the request's own.  If it answers an exception, exactly one record
\* of the error has that id, the answer's status and correlation id, however
\* requests interleave and are pipelined: at every LOG_LEVEL if the exception
\* was unexpected, else at every one but "error".  At "info" or "debug" a request
\* alone on its connection completes with exactly one record of its ids and status.
AnswersTraceable ==
    \A r \in HttpRequest : Answered(r) =>
        LET id == response[r].requestId
            thrown == exception[r] # None
            errors == About(id, ErrorEvents)
            completions == About(id, {"http.request.completed"})
            Told(record) == /\ records[record] = 1
                            /\ record.status = response[r].status
                            /\ record.correlationId = response[r].correlationId
        IN  /\ id = NewRequestId(r)
            /\ response[r].bodyId \in IF thrown THEN {id} ELSE {id, None}
            /\ Cardinality(errors) =
                  IF thrown /\ (Unexpected(r) \/ level # "error") THEN 1 ELSE 0
            /\ \A record \in errors :
                  Told(record) /\ (record.event = "api.error.unhandled" <=> Unexpected(r))
            /\ Alone(r) =>
                  /\ Cardinality(completions) =
                        IF phase[r] = "finished" /\ level \in {"debug", "info"} THEN 1 ELSE 0
                  /\ \A record \in completions : Told(record)

\* What the process lets out: the records, the answers' details and messages.
Output == {record.leaves : record \in BagToSet(records)}
             \cup {response[r].details : r \in HttpRequest}
             \cup {Leaf(response[r].message) : r \in HttpRequest}

\* Logging and redaction: neither a record nor an answer holds a credential, as
\* a text or under a sensitive key, at any depth, in errors and their causes as
\* in plain objects, and in graphs that share objects or are cyclic.  The one
\* text that is never looked at is the `type` of an error, its name.
NothingSecretLeaves ==
    \A leaves \in Output : \A leaf \in leaves :
        /\ leaf[2] = "credential" => leaf[1] # <<>> /\ Last(leaf[1]) = "type"
        /\ \A i \in 1..Len(leaf[1]) : leaf[1][i] \in SensitiveKey =>
              i = Len(leaf[1]) /\ leaf[2] = Censor

\* ... and everything else is still there: the walk yields what stands at the
\* end of every path, and calls circular only what is its own ancestor.
RedactionKeepsTheRest ==
    \A record \in BagToSet(records) :
        record.graph # None => record.leaves = Reference(record.graph, Root)
=============================================================================
