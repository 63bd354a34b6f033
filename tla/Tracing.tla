------------------------------- MODULE Tracing -------------------------------
(***************************************************************************)
(* What is known of a version 1 request when it is over: the spans          *)
(* (libTracing and the tracing middleware of each adapter), the user of the *)
(* audit trail (libContext), the status in the outcome and the log entries  *)
(* (webFramework/logger.go).  The request goes through the tracing          *)
(* middleware, the middleware of the application, BaseHandler and Recovery. *)
(* The record of the request and its errors are in V1Handler.               *)
(*                                                                         *)
(* A span is recorded only while it is open: attributes, statuses and       *)
(* errors given to it later are lost.                                       *)
(***************************************************************************)
EXTENDS RequestParser

CONSTANTS
  Confs,      (* The settings of the application and its handler.           *)
  MaxSetups   (* Bound: how often tracing is initialised.                   *)

(* tracing: the tracing middleware; enable: EnableTracing; audit: the        *)
(* handler has a Persistence; recovery: it has a RecoveryHandler; header:    *)
(* the request has a User-Id; app: the middleware of the application, in its *)
(* order; trailing: a function is registered behind the handler.             *)
AppMiddleware == {"auth", "logs", "reader"}
ConfType == [adapter : Adapters, tracing : {"none", "custom", "official"}, enable : BOOLEAN,
             audit : BOOLEAN, recovery : BOOLEAN, header : BOOLEAN, app : Seq(AppMiddleware),
             trailing : BOOLEAN]

ASSUME TracingAssumption == MaxSetups \in Nat /\ \A c \in Confs : c \in ConfType

VARIABLES
  conf,
  manager,     (* globalTracingManager: "nil", "off" (Enabled false), "on".  *)
  provider,    (* The provider of otel records: a manager has set it.        *)
  setups,
  pc,
  todo,        (* The middleware still to run.                               *)
  spans,       (* The spans of the request, in the order they started.       *)
  middleSpan,  (* The span of the tracing middleware, 0 for none.            *)
  handlerSpan, (* HandlerRequest.Span.                                       *)
  running,     (* The span of the phase that runs.                           *)
  note,        (* History: an attribute the application added, and the span  *)
               (* that has it; 0 when it was lost.                           *)
  user,        (* The user in the context of the handler's queries.          *)
  outcome,     (* HandlerRequest.Outcome.HTTPStatus.                         *)
  panic

tracingVars == <<manager, provider, setups>>
spanVars == <<spans, middleSpan, handlerSpan, running, note>>
vars == <<parserVars, tracingVars, spanVars, conf, pc, todo, user, outcome, panic>>

Users == {"caller", "unknown", "none"}

(* What is noted: tags (the title, the status of each answer, the details of *)
(* an error that was answered, the elapsed time), arrays and errors.         *)
Tags == {"title", "status", "details", "elapsed"}
Arrays == {"nouser", "request", "initialize", "main-handler", "response", "sending", "next"}
Logs == [tags : Seq(Tags), arrays : Seq(Arrays), errors : Seq({"error"})]
AttrType == [key : Tags \cup {"handler", "error"}, group : Seq(Arrays)]

Phases == {"initialize", "handle", "finalize"}
During(p) == CASE p = "initialize" -> "initializing"
               [] p = "handle" -> "handling"
               [] p = "finalize" -> "finalizing"
PCs == {"setup", "trace", "app", "init", "span", "parse", "answer", "next", "outcome", "endspan",
        "recovery", "collect", "unwind", "crash", "done"} \cup Phases \cup {During(p) : p \in Phases}

SpanNames == {"middleware", "handler", "call"} \cup Phases
NoNote == [phase |-> "none", by |-> "none", span |-> 0]

TypeOK ==
  /\ conf \in Confs /\ adapter = conf.adapter
  /\ locals \in [Stores -> LocalType(Users, Logs)]
  /\ context \in [Stores -> 0..Len(spans)]
  /\ bodyRead \in BOOLEAN /\ wire \in WireType /\ attrs \in Seq(AttrType)
  /\ manager \in {"nil", "off", "on"} /\ provider \in BOOLEAN /\ setups \in 0..MaxSetups
  /\ manager = "on" => provider
  /\ pc \in PCs /\ todo \in Seq(AppMiddleware)
  /\ spans \in Seq([name : SpanNames, parent : Nat, live : BOOLEAN, open : BOOLEAN, status : Nat])
  /\ {middleSpan, handlerSpan, running} \subseteq 0..Len(spans)
  /\ user \in Users /\ outcome \in Nat /\ panic \in BOOLEAN

Init ==
  /\ conf \in Confs
  /\ adapter = conf.adapter
  /\ locals = [s \in Stores |-> [user |-> "none", status |-> 0, log |-> NoNotes]]
  /\ context = [s \in Stores |-> 0]
  /\ bodyRead = FALSE /\ wire = NothingSent /\ attrs = <<>>
  /\ manager = "nil" /\ provider = FALSE /\ setups = 0
  /\ pc = "setup" /\ todo = conf.app
  /\ spans = <<>> /\ middleSpan = 0 /\ handlerSpan = 0 /\ running = 0 /\ note = NoNote
  /\ user = "none" /\ outcome = 0 /\ panic = FALSE

Go(from, to) == pc = from /\ pc' = to

-----------------------------------------------------------------------------
(* Initialisation of tracing.                                               *)

Configs == [enabled : BOOLEAN, exporter : {"supported", "unsupported"}]
Unreadable == [enabled |-> FALSE, exporter |-> "unreadable"]
Files == Configs \cup {Unreadable}

(* LoadConfigFromEnv: TRACING_CONFIG_PATH, when set, names a file to load.  *)
FromEnv(pathSet, file, variables) == IF pathSet THEN file ELSE variables

Environments == {FromEnv(p, f, v) : p \in BOOLEAN, f \in Files, v \in Configs}

(* InitGlobalTracingConfig: the file, or else the environment.              *)
FromConfig(file, environment) == IF file # Unreadable THEN file ELSE environment

(* NewTracingManager; an enabled one sets the provider of otel as well.     *)
NewTracingManager(config) ==
  CASE ~config.enabled -> "off"
    [] config.enabled /\ config.exporter = "supported" -> "on"
    [] OTHER -> "error"

(* InitializeTracing, from a file or from the environment: on an error the  *)
(* manager of before stays.                                                 *)
InitializeTracing ==
  /\ pc = "setup" /\ setups < MaxSetups
  /\ setups' = setups + 1
  /\ \E config \in Environments \cup {FromConfig(f, e) : f \in Files, e \in Environments} :
       LET new == IF config = Unreadable THEN "error" ELSE NewTracingManager(config)
       IN  /\ manager' = IF new = "error" THEN manager ELSE new
           /\ provider' = (provider \/ new = "on")
  /\ UNCHANGED <<parserVars, spanVars, conf, pc, todo, user, outcome, panic>>

Arrive ==
  /\ Go("setup", "trace")
  /\ UNCHANGED <<parserVars, tracingVars, spanVars, conf, todo, user, outcome, panic>>

-----------------------------------------------------------------------------
(* Spans.  A tracer that records nothing gives a span that is never          *)
(* recording: 0 here.                                                        *)

IsRecording(span) == span # 0 /\ spans[span].open

(* Tracer.Start under the span of a context.                                *)
Started(name, parent) ==
  Append(spans, [name |-> name, parent |-> parent, live |-> parent = 0 \/ IsRecording(parent),
                 open |-> TRUE, status |-> 0])

Ended(span) == IF span = 0 THEN spans ELSE [spans EXCEPT ![span].open = FALSE]

(* CustomTracingMiddleware of gin leaves the Request as it is: its span is   *)
(* only among the locals, for libGin's own helpers.                          *)
GinTrace ==
  /\ adapter = "gin" /\ conf.tracing = "custom"
  /\ IF manager = "on"
       THEN spans' = Started("middleware", 0) /\ middleSpan' = 1
       ELSE UNCHANGED <<spans, middleSpan>>
  /\ UNCHANGED context

NetHTTPTrace ==
  /\ adapter = "nethttp" /\ conf.tracing = "custom"
  /\ IF manager = "on"
       THEN spans' = Started("middleware", 0) /\ middleSpan' = 1 /\ SetRequestContext(1)
       ELSE UNCHANGED <<spans, middleSpan, context>>

(* otelgin, otelhttp and otelfiber; Fiber's custom middleware is otelfiber.  *)
OfficialTrace ==
  /\ conf.tracing = "official" \/ (conf.tracing = "custom" /\ adapter = "fiber")
  /\ IF provider
       THEN spans' = Started("middleware", 0) /\ middleSpan' = 1 /\ SetRequestContext(1)
       ELSE UNCHANGED <<spans, middleSpan, context>>

NoTrace == conf.tracing = "none" /\ UNCHANGED <<spans, middleSpan, context>>

(* The custom middleware of gin and net/http uses the manager unchecked.     *)
NilManager == conf.tracing = "custom" /\ adapter # "fiber" /\ manager = "nil"

TracePanics ==
  /\ NilManager /\ Go("trace", "unwind")
  /\ panic' = TRUE
  /\ UNCHANGED <<parserVars, tracingVars, spanVars, conf, todo, user, outcome>>

Trace ==
  /\ ~NilManager /\ Go("trace", "app")
  /\ GinTrace \/ NetHTTPTrace \/ OfficialTrace \/ NoTrace
  /\ UNCHANGED <<adapter, locals, bodyRead, wire, attrs, tracingVars, handlerSpan, running, note,
                 conf, todo, user, outcome, panic>>

-----------------------------------------------------------------------------
(* The middleware of the application.                                       *)

AppUnchanged == UNCHANGED <<adapter, context, attrs, tracingVars, spanVars, conf, user, outcome, panic>>
NextMiddleware(name) ==
  /\ pc = "app" /\ todo # <<>> /\ Head(todo) = name
  /\ todo' = Tail(todo)

(* On gin and Fiber it stores the user it has authenticated; on net/http     *)
(* libNetHttp.AuthMiddleware refuses a request without the header, and the   *)
(* user it puts in the context is under a key no other code has.             *)
AppAuth ==
  /\ NextMiddleware("auth")
  /\ IF adapter = "nethttp"
       THEN /\ UNCHANGED locals
            /\ IF conf.header THEN UNCHANGED <<pc, wire>>
               ELSE pc' = "unwind" /\ wire' = NetHTTPSend(wire, 401, TRUE)
       ELSE /\ locals' = [locals EXCEPT ![Store("middleware")].user = "caller"]
            /\ UNCHANGED <<pc, wire>>
  /\ UNCHANGED bodyRead /\ AppUnchanged

(* AddWebHandlerLogs: an InitContextNoAuditTrail, which stores the unknown   *)
(* user whoever is there.  Its entries have a tag of their own.              *)
AppLogs ==
  /\ NextMiddleware("logs")
  /\ locals' = [locals EXCEPT ![Store("middleware")].user = "unknown"]
  /\ UNCHANGED <<pc, bodyRead, wire>> /\ AppUnchanged

AppReader ==
  /\ NextMiddleware("reader")
  /\ bodyRead' = TRUE
  /\ UNCHANGED <<pc, locals, wire>> /\ AppUnchanged

(* No route matches: an ErrorHandler answers, gin does by itself.            *)
Unmatched ==
  /\ pc = "app" /\ todo = <<>> /\ pc' = "unwind" /\ UNCHANGED todo
  /\ \E code \in {404, 405} :
       wire' = CASE adapter = "gin" -> GinSend(wire, code, TRUE)
                 [] adapter = "fiber" -> FiberErrorHandler(wire, code)
                 [] adapter = "nethttp" -> NetHTTPErrorHandler(wire, code)
  /\ UNCHANGED <<locals, bodyRead>> /\ AppUnchanged

-----------------------------------------------------------------------------
(* BaseHandler.                                                             *)

H == Store("handler")
Log(new) == locals' = [locals EXCEPT ![H] = WithLogs(@, new)]

(* Mutant: the locals come before the header.                               *)
UserLocalFirst(store) == IF store.user # "none" THEN store.user
                         ELSE IF conf.header THEN "caller" ELSE "none"

(* The User-Id header, or else the local.                                   *)
UserID(store) == IF conf.header THEN "caller" ELSE store.user

(* initContext and AddWebLogs: without an audit trail the unknown user is    *)
(* stored first; without any user a note says that the audit trail will      *)
(* fail.                                                                     *)
InitContext ==
  /\ pc = "app" /\ todo = <<>> /\ pc' = "span"
  /\ LET store == IF conf.audit THEN locals[H] ELSE [locals[H] EXCEPT !.user = "unknown"]
         missing == IF UserID(store) = "none" THEN <<"nouser">> ELSE <<>>
     IN  /\ locals' = [locals EXCEPT ![H] = WithLogs(store, Notes(<<"title">>, missing, <<>>))]
         /\ user' = UserID(store)
  /\ UNCHANGED <<adapter, context, bodyRead, wire, attrs, tracingVars, spanVars, conf, todo, outcome, panic>>

(* The context of the handler's request, which is not that of the parser:    *)
(* gin's and Fiber's do not show the span of the request.                    *)
CtxSpan == IF adapter = "nethttp" THEN context["handler"] ELSE 0

(* EnableTracing.  Without a manager StartSpanWithAttributes panics, before  *)
(* Recovery is deferred.                                                     *)
StartHandlerSpan ==
  /\ pc = "span"
  /\ IF conf.enable /\ manager = "nil"
       THEN pc' = "unwind" /\ panic' = TRUE /\ UNCHANGED <<spans, handlerSpan>>
       ELSE /\ pc' = "parse" /\ UNCHANGED panic
            /\ IF conf.enable /\ manager = "on"
                 THEN spans' = Started("handler", CtxSpan) /\ handlerSpan' = Len(spans')
                 ELSE UNCHANGED <<spans, handlerSpan>>
  /\ UNCHANGED <<parserVars, tracingVars, middleSpan, running, note, conf, todo, user, outcome>>

(* respond: the status among the locals and the notes, then the answer; an   *)
(* error of the send is noted where the adapter reports it.                  *)
AnswerNotes(code, encoded) ==
  Notes(IF code = 200 THEN <<"status">> ELSE <<"status", "details">>,
        IF encoded \/ adapter = "gin" THEN <<>> ELSE <<"sending">>,
        IF code = 200 THEN <<>> ELSE <<"error">>)

WithAnswer(store, code, encoded) == WithLogs([store EXCEPT !.status = code], AnswerNotes(code, encoded))

Respond(store, code, encoded) ==
  /\ wire' = (IF code = 200 THEN Send(wire, code, encoded) ELSE Abort(Send(wire, code, encoded)))
  /\ locals' = [locals EXCEPT ![store] = WithAnswer(@, code, encoded)]

(* respondError, with the outcome read back from the locals.                *)
RespondError(from, code, arrays) ==
  /\ Go(from, "endspan")
  /\ \E encoded \in BOOLEAN :
       /\ wire' = Abort(Send(wire, code, encoded))
       /\ locals' = [locals EXCEPT ![H] =
                       WithAnswer(WithLogs(@, Notes(<<>>, arrays, <<>>)), code, encoded)]
  /\ outcome' = code

Parse ==
  /\ Go("parse", "initialize")
  /\ \E r \in GetBody \ {"error"} : bodyRead' = TRUE
  /\ Log(Notes(<<>>, <<"request">>, <<>>))
  /\ UNCHANGED <<adapter, context, wire, attrs, tracingVars, spanVars, conf, todo, user, outcome, panic>>

(* An error of the body, or of the validation of what was bound.            *)
FailToParse ==
  /\ RespondError("parse", 400, <<>>)
  /\ bodyRead' = TRUE
  /\ UNCHANGED <<adapter, context, attrs, tracingVars, spanVars, conf, todo, user, panic>>

-----------------------------------------------------------------------------
(* The phases of the handler, each through TraceError, TraceFunc, TraceVoid. *)

(* Mutant: isTracingEnabled is not asked.                                   *)
StartAnyway(p) ==
  /\ pc = p /\ pc' = During(p)
  /\ IF context[H] # 0 /\ manager = "on"
       THEN spans' = Started(p, context[H]) /\ running' = Len(spans')
       ELSE UNCHANGED <<spans, running>>
  /\ UNCHANGED <<parserVars, tracingVars, middleSpan, handlerSpan, note, conf, todo, user, outcome, panic>>

(* A child of the span in the parser's context, if that one is recording.    *)
Start(p) ==
  /\ pc = p /\ pc' = During(p)
  /\ IF IsRecording(context[H]) /\ manager = "on"
       THEN spans' = Started(p, context[H]) /\ running' = Len(spans')
       ELSE UNCHANGED <<spans, running>>
  /\ UNCHANGED <<parserVars, tracingVars, middleSpan, handlerSpan, note, conf, todo, user, outcome, panic>>

TraceError == Start("initialize")
TraceFunc == Start("handle")
TraceVoid == Start("finalize")

(* When the function has returned its span ends, and only then becomes the   *)
(* span of the parser's context.                                             *)
End ==
  /\ spans' = Ended(running)
  /\ running' = 0
  /\ IF running = 0 THEN UNCHANGED context ELSE SetContext("handler", running)

(* The code of a phase adds an attribute, an event or an error: through its  *)
(* HandlerRequest, the WebFramework, the parser, the helpers of the adapter  *)
(* (given the context of the handler), or libTracing's own (given SpanCtx).  *)
TrxSpan == handlerSpan
GlobalSpan == handlerSpan
WebSpan == IF adapter = "nethttp" /\ conf.tracing # "none" THEN middleSpan ELSE 0
GinParserSpan == context["request"]
FiberParserSpan == context["request"]
NetHTTPParserSpan == context["handler"]
GinSpan == IF conf.tracing = "custom" THEN middleSpan ELSE 0
FiberSpan == context["request"]
NetHTTPSpan == WebSpan

SpanOf(by) ==
  CASE by = "trx" -> TrxSpan [] by = "global" -> GlobalSpan [] by = "web" -> WebSpan
    [] by = "parser" -> (CASE adapter = "gin" -> GinParserSpan [] adapter = "fiber" -> FiberParserSpan
                           [] adapter = "nethttp" -> NetHTTPParserSpan)
    [] by = "adapter" -> (CASE adapter = "gin" -> GinSpan [] adapter = "fiber" -> FiberSpan
                            [] adapter = "nethttp" -> NetHTTPSpan)

AddSpanAttribute ==
  /\ note = NoNote
  /\ \E p \in Phases, by \in {"trx", "global", "web", "parser", "adapter"} :
       /\ pc = During(p)
       /\ note' = [phase |-> p, by |-> by,
                   span |-> IF IsRecording(SpanOf(by)) THEN SpanOf(by) ELSE 0]
  /\ UNCHANGED <<parserVars, tracingVars, spans, middleSpan, handlerSpan, running, conf, pc, todo,
                 user, outcome, panic>>

(* Handler calls a function that takes a context, under that of its parser   *)
(* or of its own span, once.  The error of the function is on the span, and  *)
(* the span has ended when its context is returned: what libCallApi then     *)
(* sets on it, the status of the response among it, is lost.                 *)
CallUnder(parent, open, status) ==
  /\ pc = "handling" /\ manager = "on"
  /\ parent \in {context[H], handlerSpan} /\ IsRecording(parent)
  /\ \A i \in DOMAIN spans : spans[i].name # "call"
  /\ spans' = Append(spans, [name |-> "call", parent |-> parent, live |-> TRUE,
                             open |-> open, status |-> status])

Call(statuses) ==
  /\ \E parent \in 0..Len(spans), status \in statuses : CallUnder(parent, FALSE, status)
  /\ UNCHANGED <<parserVars, tracingVars, middleSpan, handlerSpan, running, note, conf, pc, todo,
                 user, outcome, panic>>

TraceFuncWithContext == Call({200, 500})
TraceErrorWithContext == Call({200, 500})
TraceVoidWithContext == Call({200})
TraceFuncWithSpanName == Call({200, 500})

PhaseUnchanged == UNCHANGED <<adapter, bodyRead, attrs, tracingVars, middleSpan, handlerSpan, note,
                              conf, todo, user>>

Initialized ==
  /\ Go("initializing", "handle") /\ End
  /\ Log(Notes(<<>>, <<"initialize">>, <<>>))
  /\ UNCHANGED <<wire, outcome, panic>> /\ PhaseUnchanged

FailToInitialize ==
  /\ End /\ RespondError("initializing", 422, <<"initialize">>)
  /\ UNCHANGED panic /\ PhaseUnchanged

Handled ==
  /\ Go("handling", "answer") /\ End
  /\ Log(Notes(<<>>, <<"main-handler", "response">>, <<>>))
  /\ UNCHANGED <<wire, outcome, panic>> /\ PhaseUnchanged

FailToHandle ==
  /\ End /\ RespondError("handling", 404, <<"main-handler">>)
  /\ UNCHANGED panic /\ PhaseUnchanged

(* The span of a function that panics is never ended: End is not deferred.  *)
Panics == pc' = "endspan" /\ panic' = TRUE /\ running' = 0

PhasePanics ==
  /\ pc \in {"initializing", "handling"} /\ Panics
  /\ UNCHANGED <<spans, context, locals, wire, outcome>> /\ PhaseUnchanged

(* The function that Handler called panics, and Handler with it.            *)
CallPanics ==
  /\ \E parent \in 0..Len(spans) : CallUnder(parent, TRUE, 0)
  /\ Panics
  /\ UNCHANGED <<context, locals, wire, outcome>> /\ PhaseUnchanged

(* respondOK: the answer, and then whatever is registered behind it.        *)
AnswerUnchanged == UNCHANGED <<adapter, context, bodyRead, attrs, tracingVars, spanVars, conf, todo, user>>

Answer ==
  /\ Go("answer", "next")
  /\ \E encoded \in BOOLEAN : Respond(H, 200, encoded)
  /\ UNCHANGED <<outcome, panic>> /\ AnswerUnchanged

(* On gin and Fiber the trailing function runs inside Next; it may answer,   *)
(* with the same locals, or panic.  gin has aborted when it could not encode *)
(* the answer.                                                               *)
Trailing ==
  /\ pc = "next" /\ NextCalls /\ conf.trailing
  /\ adapter = "gin" => wire.bodies # <<>>
  /\ \/ pc' = "outcome" /\ Respond(Store("trailing"), 503, TRUE) /\ UNCHANGED panic
     \/ pc' = "endspan" /\ panic' = TRUE /\ UNCHANGED <<wire, locals>>
  /\ UNCHANGED outcome /\ AnswerUnchanged

(* Fiber's Next has an error when no function is registered behind.          *)
NextReturns ==
  /\ Go("next", "outcome")
  /\ Log(Notes(<<>>, IF adapter = "fiber" /\ ~conf.trailing THEN <<"next">> ELSE <<>>, <<>>))
  /\ UNCHANGED <<wire, outcome, panic>> /\ AnswerUnchanged

(* SetOutcome with LastHTTPStatus, read after Next.                         *)
SetOutcome ==
  /\ Go("outcome", "endspan")
  /\ outcome' = GetLocal("handler", "status")
  /\ UNCHANGED <<wire, locals, panic>> /\ AnswerUnchanged

-----------------------------------------------------------------------------
(* The deferred functions, last one first: the handler's span ends before    *)
(* Recovery calls the Finalizer.                                             *)

(* Mutant: the span is ended only when the handler did not panic.            *)
EndSpanUnlessPanicked ==
  /\ Go("endspan", "recovery")
  /\ spans' = IF panic THEN spans ELSE Ended(handlerSpan)
  /\ UNCHANGED <<parserVars, tracingVars, middleSpan, handlerSpan, running, note, conf, todo, user,
                 outcome, panic>>

EndHandlerSpan ==
  /\ Go("endspan", "recovery")
  /\ spans' = Ended(handlerSpan)
  /\ UNCHANGED <<parserVars, tracingVars, middleSpan, handlerSpan, running, note, conf, todo, user,
                 outcome, panic>>

(* A RecoveryHandler has the panic to itself and the outcome stays as it is; *)
(* without one the outcome says 500.                                         *)
Elapsed == Log(Notes(<<"elapsed">>, <<>>, <<>>))

Recovery ==
  /\ Go("recovery", "finalize")
  /\ Elapsed
  /\ outcome' = IF panic /\ ~conf.recovery THEN 500 ELSE outcome
  /\ UNCHANGED <<adapter, context, bodyRead, wire, attrs, tracingVars, spanVars, conf, todo, user, panic>>

(* The rest of Recovery is not reached.                                      *)
RecoveryHandlerPanics ==
  /\ panic /\ conf.recovery
  /\ Go("recovery", "unwind")
  /\ Elapsed
  /\ UNCHANGED <<adapter, context, bodyRead, wire, attrs, tracingVars, spanVars, conf, todo, user, outcome, panic>>

Finalized ==
  /\ Go("finalizing", "collect") /\ End
  /\ UNCHANGED <<locals, wire, outcome, panic>> /\ PhaseUnchanged

FinalizerPanics ==
  /\ Go("finalizing", "unwind")
  /\ panic' = TRUE /\ running' = 0
  /\ UNCHANGED <<spans, context, locals, wire, outcome>> /\ PhaseUnchanged

(* CollectLogTags gives each tag as an attribute, CollectLogArrays gives the *)
(* arrays as one, a group under the title of the log; Recovery collects tags *)
(* and arrays of the handler, and then the list of errors.  (Logs of remote  *)
(* calls and of the application come behind and are left out.)               *)
Attribute(key, group) == [key |-> key, group |-> group]
Each(names) == [i \in 1..Len(names) |-> Attribute(names[i], <<>>)]
Attributes(log) ==
  Each(log.tags) \o (IF log.arrays = <<>> THEN <<>> ELSE <<Attribute("handler", log.arrays)>>)
    \o Each(log.errors)

(* A panic goes on to the framework, answered when no RecoveryHandler has it.*)
AfterCollect == IF panic /\ ~conf.recovery THEN "crash" ELSE "unwind"

(* Mutant: the tags are collected before the elapsed time is added.          *)
CollectBeforeElapsed ==
  /\ Go("collect", AfterCollect)
  /\ attrs' = AddCustomAttributes(Attributes([locals[H].log EXCEPT !.tags = SubSeq(@, 1, Len(@) - 1)]))
  /\ UNCHANGED <<adapter, locals, context, bodyRead, wire, tracingVars, spanVars, conf, todo, user,
                 outcome, panic>>

CollectLogs ==
  /\ Go("collect", AfterCollect)
  /\ attrs' = AddCustomAttributes(Attributes(locals[H].log))
  /\ UNCHANGED <<adapter, locals, context, bodyRead, wire, tracingVars, spanVars, conf, todo, user,
                 outcome, panic>>

(* The answer of a panic comes after the logs were collected.  Its status is *)
(* that of the panic's own libError, if it has one, or 500; the outcome is   *)
(* not touched.                                                              *)
AnswerPanic ==
  /\ Go("crash", "unwind")
  /\ \E code \in {400, 500}, encoded \in BOOLEAN : Respond(H, code, encoded)
  /\ UNCHANGED <<outcome, panic>> /\ AnswerUnchanged

(* The status net/http's custom middleware has seen is the last one its      *)
(* wrapper of the ResponseWriter was asked for, superfluous or not.          *)
SeenStatus == IF adapter = "nethttp" /\ conf.tracing = "custom"
              THEN IF wire.asked = 0 THEN 200 ELSE wire.asked
              ELSE FrameworkStatus

(* Back in the tracing middleware: status, then End; a panic skips the       *)
(* status, and the framework or RecoveryMiddleware answers it.               *)
Unwind ==
  /\ Go("unwind", "done")
  /\ spans' = IF middleSpan = 0 THEN spans
              ELSE [spans EXCEPT ![middleSpan].open = FALSE,
                                 ![middleSpan].status = IF panic THEN 0 ELSE SeenStatus]
  /\ wire' = IF panic THEN FrameworkRecovery(wire) ELSE wire
  /\ UNCHANGED <<adapter, locals, context, bodyRead, attrs, tracingVars, middleSpan, handlerSpan,
                 running, note, conf, todo, user, outcome, panic>>

Terminated == pc = "done" /\ UNCHANGED vars

Next ==
  \/ InitializeTracing \/ Arrive \/ Trace \/ TracePanics
  \/ AppAuth \/ AppLogs \/ AppReader \/ Unmatched
  \/ InitContext \/ StartHandlerSpan \/ Parse \/ FailToParse
  \/ TraceError \/ Initialized \/ FailToInitialize
  \/ TraceFunc \/ Handled \/ FailToHandle
  \/ PhasePanics \/ CallPanics \/ AddSpanAttribute
  \/ TraceFuncWithContext \/ TraceErrorWithContext \/ TraceVoidWithContext \/ TraceFuncWithSpanName
  \/ Answer \/ Trailing \/ NextReturns \/ SetOutcome
  \/ EndHandlerSpan \/ Recovery \/ RecoveryHandlerPanics \/ TraceVoid \/ Finalized \/ FinalizerPanics
  \/ CollectLogs \/ AnswerPanic \/ Unwind \/ Terminated

Spec == Init /\ [][Next]_vars

-----------------------------------------------------------------------------
(* Properties.                                                              *)

(* Every span starts under one that is still open, or is a root, and every   *)
(* span has ended with the request, except those of the phase that panicked  *)
(* and of the function it called (instrumentation.go:127-135, 364-374).      *)
(* What Initializer and Handler add through their HandlerRequest is on the   *)
(* handler's span; what the Finalizer adds there is lost, for the deferred   *)
(* End runs before Recovery (baseHandler.go:218-227).  What is added through *)
(* the WebFramework of net/http is on the span of the middleware.            *)
SpanTree ==
  /\ \A i \in DOMAIN spans : spans[i].parent < i /\ spans[i].live
  /\ pc = "done" => \A i \in DOMAIN spans : spans[i].open => panic /\ spans[i].name \in Phases \cup {"call"}
  /\ note.by = "trx" => note.span = IF note.phase = "finalize" THEN 0 ELSE handlerSpan
  /\ note.by = "web" => note.span = WebSpan

(* The audit trail never has another user than the caller, except unknown    *)
(* after an InitContextNoAuditTrail of a middleware on a shared store, and    *)
(* none when nobody has said: on net/http that is every request without the  *)
(* header, whatever a middleware stored (init.go:105-110).                   *)
LastOf(name) == IF \E i \in DOMAIN conf.app : conf.app[i] = name
                THEN CHOOSE i \in DOMAIN conf.app :
                       conf.app[i] = name /\ \A j \in DOMAIN conf.app : j > i => conf.app[j] # name
                ELSE 0

AuditedUser ==
  conf.audit /\ pc \in {"parse", "initialize", "handle", "answer", "done"} /\ locals[H].log.tags # <<>> =>
    user = CASE conf.header -> "caller"
             [] ~conf.header /\ adapter = "nethttp" -> "none"
             [] OTHER -> IF LastOf("auth") > LastOf("logs") THEN "caller"
                         ELSE IF LastOf("logs") > 0 THEN "unknown" ELSE "none"

(* Once Recovery is through without a panic, the status in the outcome is    *)
(* the one the client got, except when a second answer could not change the  *)
(* first (gin, net/http).  After a panic it is 500, or nothing with a        *)
(* RecoveryHandler, and the client has the status of the panic's own error,  *)
(* or 500, which on Fiber the error handler of the framework always answers  *)
(* in the end.  Without a panic the status on the span of the middleware is  *)
(* the client's too, except that the custom one of net/http takes the 500    *)
(* that Abort asks for after every answered error.                           *)
Superseded == adapter # "fiber" /\ wire.sent > 1

StatusesAgree ==
  pc = "done" =>
    /\ attrs # <<>> =>
         CASE ~panic -> outcome = wire.status \/ Superseded
           [] panic /\ conf.recovery -> outcome = 0
           [] panic /\ ~conf.recovery ->
                /\ outcome = 500
                /\ wire.status = 500 \/ (adapter # "fiber" /\ wire.status = locals[H].status)
                     \/ Superseded
    /\ middleSpan # 0 /\ ~panic =>
         \/ spans[middleSpan].status = FrameworkStatus
         \/ /\ adapter = "nethttp" /\ conf.tracing = "custom"
            /\ wire.status >= 400 /\ spans[middleSpan].status = 500

(* What Recovery hands on of a request has all that was noted: the tags, the *)
(* arrays as a group, then the errors, each in order; and, unless something  *)
(* panicked, an error if and only if the outcome is one.  Of the answer to a *)
(* panic, which comes later, everything is missing (recovery.go:60-64, 81).  *)
(* On net/http each key is kept once, among the locals of the parser.        *)
LogsCollected ==
  pc = "done" /\ attrs # <<>> =>
    /\ \E sending \in 0..1 :
         LET late == panic /\ ~conf.recovery
             But(noted, n) == SubSeq(noted, 1, Len(noted) - IF late THEN n ELSE 0)
             log == locals[H].log
             all == Attributes(Notes(But(log.tags, 2), But(log.arrays, sending), But(log.errors, 1)))
         IN  IF adapter = "nethttp"
               THEN /\ {attrs[i] : i \in DOMAIN attrs} = {all[i] : i \in DOMAIN all}
                    /\ \A i, j \in DOMAIN attrs : attrs[i].key = attrs[j].key => i = j
               ELSE attrs = all
    /\ ~panic => ((\E i \in DOMAIN attrs : attrs[i].key = "error") <=> outcome # 200)

(* libTracing says of TraceFunc that it traces the function it is given      *)
(* (instrumentation.go:75-77): a Handler called in a request whose tracing   *)
(* middleware is recording runs inside a span of its own.                    *)
HandlerTraced ==
  pc = "handling" /\ manager = "on" /\ conf.tracing = "official" => running # 0
=============================================================================
