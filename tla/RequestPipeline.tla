-------------------------- MODULE RequestPipeline --------------------------
(***************************************************************************)
(* The life of one request in v2, from the middleware chain of an adapter  *)
(* through the endpoint lifecycle, the response handler with its registry  *)
(* of error handlers, the before-commit hook of the session middleware,    *)
(* and back to the adapter.                                                *)
(*                                                                         *)
(* One goroutine serves a request, so the steps are sequential; what       *)
(* varies is the configuration, what user code does (stages, handlers,     *)
(* error handlers: return, fail, write a response themselves, panic),      *)
(* whether the session is saved and whether a write gets through.          *)
(***************************************************************************)
EXTENDS Naturals, Sequences

CONSTANTS
  Setups,   (* The configurations considered, see SetupType.               *)
  Errors,   (* The errors user code returns or panics with, see ErrorKinds.*)
  nil       (* No error.                                                   *)

(* Adapter: the framework.  Mode: without session middleware, or its        *)
(* SaveFailureMode.  Registered: the error handlers in the registry, none,  *)
(* the presets of DefaultErrorHandlers, or the application's.  Fallback:    *)
(* LegacyFallback, as Bootstrap installs it, or the application's.  Hooks:  *)
(* what the endpoint was given besides its handler.                         *)
HookNames == {"id", "insert", "initialize", "finalizer"}
SetupType == [Adapter    : {"nethttp", "chi", "gin", "fiber"},
              Mode       : {"none", "strict", "besteffort"},
              Registered : {"none", "default", "custom"},
              Fallback   : {"legacy", "custom"},
              Hooks      : SUBSET HookNames]

(* An ErrorData of status 404 or 405, an error that only has HTTPStatus()   *)
(* (404 again), or any other value.                                         *)
ErrorKinds == {"notFound", "methodNA", "typed", "plain"}

ASSUME SetupAssumption == Setups \subseteq SetupType
ASSUME ErrorAssumption == Errors \subseteq ErrorKinds /\ nil \notin ErrorKinds \cup {"hook", "write"}

VARIABLES
  setup,      (* The configuration; it never changes.                      *)
  pc,         (* The stage or call the request is at.                      *)
  from,       (* Who asked for the answer under way.                       *)
  cur,        (* The error being answered.                                 *)
  result,     (* What the last write or error handler returned.            *)
  life,       (* The error the lifecycle returned.                         *)
  panicked,   (* Whether a panic was recovered.                            *)
  committed,  (* The status in CommitState, 0 when not committed.          *)
  wire,       (* History: the responses written to the transport.          *)
  saves,      (* History: runs of the before-commit hooks.                 *)
  inserted,   (* requestInserted: Insert succeeded.                        *)
  outcome,    (* HandlerRequest.Outcome.                                   *)
  finalized,  (* History: runs of the finalizer.                           *)
  updates     (* History: the outcome each Update call was given.          *)

control == <<from, cur, life, panicked>>
books   == <<inserted, outcome, finalized, updates>>
answer  == <<result, committed, wire, saves>>
vars    == <<setup, pc, control, books, answer>>

AllErrors == ErrorKinds \cup {"hook", "write"}
Successes == {200, 204}
Statuses  == Successes \cup {404, 405, 500}

(* The stages, and the one that follows each but the last.                  *)
StageNames == {"parse", "id", "insert", "initialize", "handle", "render"}
NextStage  == [parse |-> "id", id |-> "insert", insert |-> "initialize",
               initialize |-> "handle", handle |-> "render"]

(* DefaultStatusResolver, and the status the v1 error handler writes: it    *)
(* does not know HTTPStatus().                                              *)
Resolve(e) == CASE e \in {"notFound", "typed"} -> 404
                [] e = "methodNA" -> 405
                [] OTHER -> 500
LegacyStatus(e) == IF e = "typed" THEN 500 ELSE Resolve(e)

(* The error of a panic joins the value with a 500 ErrorData, which the     *)
(* resolver finds before it asks for HTTPStatus().                          *)
PanicError(e) == IF e = "typed" THEN "plain" ELSE e

(* NewEndpoint gives the carrier a function for each hook that was set.  The*)
(* lifecycle calls it at its stage, and passes the stage by without one; a  *)
(* request is always parsed, handled and rendered.                          *)
Carries(hook) == hook \in HookNames => hook \in setup.Hooks

Outcome(e, status) == [err |-> e, status |-> status]
CommittedOr(status) == IF committed = 0 THEN status ELSE committed

(* MarkCommitted: the first status is kept.                                 *)
MarkCommitted(status) == committed' = IF committed = 0 THEN status ELSE committed

-----------------------------------------------------------------------------
Init ==
  /\ setup \in Setups
  /\ pc = "middleware"
  /\ from = "middleware"
  /\ cur = nil
  /\ life = nil
  /\ panicked = FALSE
  /\ inserted = FALSE
  /\ outcome = Outcome(nil, 0)
  /\ finalized = 0
  /\ updates = <<>>
  /\ result = nil
  /\ committed = 0
  /\ wire = <<>>
  /\ saves = <<>>

-----------------------------------------------------------------------------
(* Writing.                                                                 *)

(* A write may break off after its head on chi, which writes to the         *)
(* connection, and on gin, which does not look at the error.  Fiber writes  *)
(* to memory, and so does net/http behind intercept405.                     *)
Writes == IF setup.Adapter \in {"chi", "gin"} THEN BOOLEAN ELSE {TRUE}

Put(status, by, whole) ==
  wire' = Append(wire, [status |-> status, by |-> by, whole |-> whole, saved |-> saves' # <<>>])

(* The end of SendResponse.                                                 *)
Transmit(status, by) ==
  \E whole \in Writes :
    /\ Put(status, by, whole)
    /\ IF whole \/ setup.Adapter = "gin"
       THEN MarkCommitted(status) /\ result' = nil
       ELSE committed' = committed /\ result' = "write"

(* RunBeforeCommitHooks: only the first call runs them.                     *)
HookResults == IF setup.Mode = "none" THEN {"none"} ELSE {"saved", "failed"}
RunHooks == saves' \in IF saves # <<>> THEN {saves} ELSE {<<r>> : r \in HookResults}
(* Faulty: strict mode propagates nothing.                                  *)
HookErrorLogged == FALSE
HookError == setup.Mode = "strict" /\ saves' # saves /\ saves'[Len(saves')] = "failed"

(* SendResponse of the parsers, and Handler.commit, which checks the same   *)
(* things before it calls it.                                               *)
SendResponse(status, by) ==
  \/ /\ committed # 0
     /\ result' = nil
     /\ UNCHANGED <<committed, wire, saves>>
  \/ /\ committed = 0
     /\ RunHooks
     /\ IF HookError
        THEN result' = "hook" /\ UNCHANGED <<committed, wire>>
        ELSE Transmit(status, by)

(* commitError: a failed hook is logged, and the parser does not run it     *)
(* again.                                                                   *)
CommitError(status, by) == RunHooks /\ Transmit(status, by)

-----------------------------------------------------------------------------
(* Before and in the lifecycle.                                             *)

(* The middleware chain reaches the endpoint, or a middleware refuses the   *)
(* request with an error, which goes to the adapter.                        *)
Pass ==
  /\ pc = "middleware"
  /\ pc' = "parse"
  /\ from' = "lifecycle"
  /\ UNCHANGED <<setup, cur, life, panicked, books, answer>>

Reject(e) ==
  /\ pc = "middleware"
  /\ pc' = "error"
  /\ cur' = e
  /\ UNCHANGED <<setup, from, life, panicked, books, answer>>

(* A stage of runLifecycle returns without an error.                        *)
StagePasses(s) ==
  /\ pc = s
  /\ s \in StageNames \ {"render"}
  /\ s = "handle" => result = nil      (* see HandlerWrites *)
  /\ pc' = NextStage[s]
  /\ inserted' = (inserted \/ (s = "insert" /\ Carries(s)))
  /\ UNCHANGED <<setup, control, outcome, finalized, updates, answer>>

(* ... or with one, which it answers through respondErrorV2.                *)
StageFails(s, e) ==
  /\ pc = s
  /\ s \in StageNames \ {"render"}
  /\ Carries(s)
  /\ pc' = "error"
  /\ cur' = e
  /\ UNCHANGED <<setup, from, life, panicked, books, answer>>

(* User code of a stage, or an encoder, panics; the wrapper recovers.       *)
StagePanics(s, e) ==
  /\ pc = s
  /\ s \in StageNames \ {"parse"}
  /\ Carries(s)
  /\ pc' = "finalize"
  /\ panicked' = TRUE
  /\ cur' = PanicError(e)
  /\ UNCHANGED <<setup, from, life, books, answer>>

(* The handler answers itself, through the response handler (OKWithStatus,  *)
(* NoContent, Redirect, all of which commit) or the parser.  It must not go *)
(* on as if it had answered when that returned an error.                    *)
HandlerWrites ==
  /\ pc = "handle"
  /\ wire = <<>>
  /\ saves = <<>>
  /\ \E status \in Successes : SendResponse(status, "user")
  /\ UNCHANGED <<setup, pc, control, books>>

(* ... but its renderer fails, which Handler.OKWithRenderer answers through *)
(* Handler.Error; what that returns is all the endpoint's handler gets.     *)
HandlerEncodeFails ==
  /\ pc = "handle"
  /\ wire = <<>>
  /\ saves = <<>>
  /\ pc' = "error"
  /\ from' = "handle"
  /\ cur' = "plain"
  /\ UNCHANGED <<setup, life, panicked, books, answer>>

HandlerAnswered ==
  /\ pc = "answered"
  /\ from = "handle"
  /\ pc' = "handle"
  /\ from' = "lifecycle"
  /\ UNCHANGED <<setup, cur, life, panicked, books, answer>>

(* respondOKV2: Handler.OK encodes and commits; when the encoder fails it   *)
(* passes the error to Handler.Error and returns what that returns.         *)
Render ==
  /\ pc = "render"
  /\ pc' = "answered"
  /\ from' = "render"
  /\ SendResponse(200, "render")
  /\ UNCHANGED <<setup, cur, life, panicked, books>>

EncodeFails ==
  /\ pc = "render"
  /\ pc' = "error"
  /\ from' = "render"
  /\ cur' = "plain"
  /\ UNCHANGED <<setup, life, panicked, books, answer>>

-----------------------------------------------------------------------------
(* Handler.Error and DefaultRegistry.Handle.                                *)

(* The presets of DefaultErrorHandlers have none for 405.                   *)
HasHandler(status) ==
  \/ setup.Registered = "custom"
  \/ setup.Registered = "default" /\ status # 405

(* Nothing can be written any more: the error is returned.                  *)
ErrorAfterCommit ==
  /\ pc = "error"
  /\ committed # 0
  /\ pc' = "answered"
  /\ result' = cur
  /\ UNCHANGED <<setup, control, books, committed, wire, saves>>

(* Faulty: the check of Committed is missing.                               *)
LookUpUnchecked ==
  /\ pc = "error"
  /\ pc' = IF HasHandler(Resolve(cur)) THEN "registered" ELSE "fallback"
  /\ UNCHANGED <<setup, control, books, answer>>

LookUp ==
  /\ pc = "error"
  /\ committed = 0
  /\ pc' = IF HasHandler(Resolve(cur)) THEN "registered" ELSE "fallback"
  /\ UNCHANGED <<setup, control, books, answer>>

(* A registered handler that left the response uncommitted, whatever it     *)
(* returned, is followed by the fallback.                                   *)
AfterRegistered == pc' = IF committed' = 0 THEN "fallback" ELSE "answered"

DefaultHandler ==
  /\ pc = "registered"
  /\ setup.Registered = "default"
  /\ CommitError(Resolve(cur), "default")
  /\ AfterRegistered
  /\ UNCHANGED <<setup, control, books>>

(* An error handler of the application: writes in either way, or does not.  *)
CustomAnswer(name) ==
  \/ CommitError(Resolve(cur), name)
  \/ SendResponse(Resolve(cur), name)
  \/ result' \in {nil, "plain"} /\ UNCHANGED <<committed, wire, saves>>

CustomHandler ==
  /\ pc = "registered"
  /\ setup.Registered = "custom"
  /\ CustomAnswer("custom")
  /\ AfterRegistered
  /\ UNCHANGED <<setup, control, books>>

(* LegacyFallback: WebHanlder.Error writes with the v1 methods of the       *)
(* parser, which know neither the hooks nor CommitState.                    *)
LegacyFallback ==
  /\ pc = "fallback"
  /\ setup.Fallback = "legacy"
  /\ pc' = "answered"
  /\ saves' = saves
  /\ \E whole \in Writes : Put(LegacyStatus(cur), "legacy", whole)
  /\ MarkCommitted(Resolve(cur))
  /\ result' = nil
  /\ UNCHANGED <<setup, control, books>>

CustomFallback ==
  /\ pc = "fallback"
  /\ setup.Fallback = "custom"
  /\ pc' = "answered"
  /\ CustomAnswer("fallback")
  /\ UNCHANGED <<setup, control, books>>

(* A panic of an error handler is recovered when runLifecycle called it,    *)
(* and leaves the request's goroutine otherwise.                            *)
ErrorHandlerPanics(e) ==
  /\ \/ pc = "registered" /\ setup.Registered = "custom"
     \/ pc = "fallback" /\ setup.Fallback = "custom"
  /\ IF from \in {"lifecycle", "handle", "render"}
     THEN pc' = "finalize" /\ panicked' = TRUE /\ cur' = PanicError(e)
     ELSE pc' = "escaped" /\ UNCHANGED <<panicked, cur>>
  /\ UNCHANGED <<setup, from, life, books, answer>>

-----------------------------------------------------------------------------
(* The answer is back with the one who asked for it.                        *)

(* respondErrorV2 in runLifecycle.                                          *)
StageAnswered ==
  /\ pc = "answered"
  /\ from = "lifecycle"
  /\ pc' = "finalize"
  /\ life' = IF result = nil THEN cur ELSE result
  /\ outcome' = Outcome(life', IF result = nil THEN CommittedOr(500) ELSE 500)
  /\ UNCHANGED <<setup, from, cur, panicked, inserted, finalized, updates, answer>>

(* respondOKV2.                                                             *)
Rendered ==
  /\ pc = "answered"
  /\ from = "render"
  /\ pc' = "finalize"
  /\ life' = result
  /\ outcome' = Outcome(result, IF result = nil THEN CommittedOr(200) ELSE 500)
  /\ UNCHANGED <<setup, from, cur, panicked, inserted, finalized, updates, answer>>

(* The finalizer runs, and its panics are recovered.                        *)
RunFinalizer == finalized' = IF Carries("finalizer") THEN finalized + 1 ELSE finalized

(* Faulty: Update is skipped after a panic.                                 *)
UpdateUnlessPanicked == updates' = IF inserted /\ ~panicked THEN Append(updates, outcome') ELSE updates
Update == updates' = IF inserted THEN Append(updates, outcome') ELSE updates

(* finalize: the outcome of a panic, the finalizer, Update, and the answer  *)
(* to a panic.                                                              *)
Finalize ==
  /\ pc = "finalize"
  /\ outcome' = IF panicked THEN Outcome(cur, 500) ELSE outcome
  /\ RunFinalizer
  /\ Update
  /\ IF panicked /\ committed = 0
     THEN pc' = "error" /\ from' = "panic"
     ELSE pc' = "return" /\ UNCHANGED from
  /\ UNCHANGED <<setup, cur, life, panicked, inserted, answer>>

(* ... but Update panics: nothing recovers that, and a panic of the handler *)
(* stays unanswered.                                                        *)
UpdatePanics ==
  /\ pc = "finalize"
  /\ inserted
  /\ outcome' = IF panicked THEN Outcome(cur, 500) ELSE outcome
  /\ RunFinalizer
  /\ Update
  /\ pc' = "escaped"
  /\ UNCHANGED <<setup, control, inserted, answer>>

PanicAnswered ==
  /\ pc = "answered"
  /\ from = "panic"
  /\ pc' = "return"
  /\ outcome' = IF result = nil THEN Outcome(cur, CommittedOr(500)) ELSE Outcome(result, 500)
  /\ UNCHANGED <<setup, control, inserted, finalized, updates, answer>>

(* The endpoint returns: an error only when nothing was committed, and      *)
(* never after a panic.  The adapter dispatches it.                         *)
Return ==
  /\ pc = "return"
  /\ IF ~panicked /\ life # nil /\ committed = 0
     THEN pc' = "error" /\ from' = "router" /\ cur' = life
     ELSE pc' = "adapter" /\ UNCHANGED <<from, cur>>
  /\ UNCHANGED <<setup, life, panicked, books, answer>>

(* DispatchError: the last resort is a fixed 500, committed in any case.    *)
Dispatched ==
  /\ pc = "answered"
  /\ from \in {"middleware", "router"}
  /\ pc' = "adapter"
  /\ IF committed # 0
     THEN UNCHANGED answer
     ELSE /\ RunHooks
          /\ IF HookError
             THEN wire' = wire
             ELSE \E whole \in Writes : Put(500, "adapter", whole)
          /\ MarkCommitted(500)
          /\ result' = nil
  /\ UNCHANGED <<setup, control, books>>

(* The Fiber catch-all looks at the status the response ended with: at 404  *)
(* it runs the NotFound handler on a context of its own.  The net/http      *)
(* router replaces a buffered 405 in the same way.                          *)
Unmatched ==
  /\ wire # <<>>
  /\ LET status == wire[Len(wire)].status
     IN  \/ setup.Adapter = "fiber" /\ status = 404
         \/ setup.Adapter = "nethttp" /\ status = 405

Finish ==
  /\ pc = "adapter"
  /\ pc' = "done"
  /\ wire' = IF Unmatched
             THEN Append(wire, [status |-> wire[Len(wire)].status, by |-> "unmatched",
                                whole |-> TRUE, saved |-> FALSE])
             ELSE wire
  /\ UNCHANGED <<setup, control, books, result, committed, saves>>

Lifecycle ==
  \/ \E s \in StageNames : StagePasses(s) \/ \E e \in Errors : StageFails(s, e) \/ StagePanics(s, e)
  \/ HandlerWrites \/ HandlerEncodeFails \/ HandlerAnswered \/ Render \/ EncodeFails
  \/ StageAnswered \/ Rendered \/ Finalize \/ UpdatePanics \/ PanicAnswered \/ Return

ErrorDispatch ==
  \/ ErrorAfterCommit \/ LookUp \/ DefaultHandler \/ CustomHandler
  \/ LegacyFallback \/ CustomFallback \/ \E e \in Errors : ErrorHandlerPanics(e)

Adapter == Pass \/ (\E e \in Errors : Reject(e)) \/ Dispatched \/ Finish

Next == Adapter \/ Lifecycle \/ ErrorDispatch

Spec == Init /\ [][Next]_vars

-----------------------------------------------------------------------------
(* Properties.                                                              *)

Writers == {"user", "render", "default", "custom", "legacy", "fallback", "adapter", "unmatched"}
Response == [status : Statuses, by : Writers, whole : BOOLEAN, saved : BOOLEAN]
Outcomes == [err : AllErrors \cup {nil}, status : Statuses \cup {0}]

(* Types of the variables.                                                  *)
TypeOK ==
  /\ setup \in Setups
  /\ pc \in StageNames \cup {"middleware", "error", "registered", "fallback", "answered",
                            "finalize", "return", "adapter", "done", "escaped"}
  /\ from \in {"middleware", "lifecycle", "handle", "render", "panic", "router"}
  /\ {cur, result, life} \subseteq AllErrors \cup {nil}
  /\ panicked \in BOOLEAN
  /\ committed \in Statuses \cup {0}
  /\ wire \in Seq(Response)
  /\ saves \in Seq({"none", "saved", "failed"})
  /\ inserted \in BOOLEAN
  /\ outcome \in Outcomes
  /\ finalized \in Nat
  /\ updates \in Seq(Outcomes)

(* CommitState keeps the layers from answering twice (commit.go:8-11): once *)
(* a complete response is out, neither the endpoint, an error handler, the  *)
(* fallback, panic recovery nor the adapter's dispatch writes another.  Only*)
(* the routing for unmatched requests may replace it.                       *)
NoSecondAnswer ==
  \A i, k \in 1 .. Len(wire) :
    i < k /\ wire[i].whole => wire[k].by = "unmatched"

(* Every request that ends has been answered, whatever failed or panicked.  *)
(* The exceptions need a fallback of the application's that stays silent:   *)
(* asked about an encoding failure or a panic, which do not come back to    *)
(* the adapter, or with a session that cannot be saved for the last write.  *)
Answered ==
  pc = "done" /\ wire = <<>> =>
    /\ setup.Fallback = "custom"
    /\ from \in {"render", "panic"} \/ (setup.Mode = "strict" /\ saves = <<"failed">>)

(* A request is answered by exactly one layer: NoSecondAnswer and Answered. *)
AnsweredOnce == NoSecondAnswer /\ Answered

(* The session is saved once and before the first byte of any response but  *)
(* that of LegacyFallback, whichever of the write paths is taken and however*)
(* often one is (commit.go:73-79: RunBeforeCommitHooks runs hooks once).    *)
SavedOnceBefore ==
  /\ Len(saves) <= 1
  /\ \A i \in 1 .. Len(wire) : wire[i].by \notin {"legacy", "unmatched"} => wire[i].saved

(* Strict mode (session/middleware.go:19-22): when the session could not be *)
(* saved, no success leaves, although the error passes the response handler,*)
(* the endpoint and the adapter before it is answered.  The hooks' error is *)
(* reported once: the exception needs a fallback of the application's that  *)
(* stays silent about it when the handler's own answer failed to encode, so *)
(* that the handler goes on and the endpoint renders what it returns.       *)
StrictNoSuccess ==
  setup.Mode = "strict" /\ saves = <<"failed">> =>
    \A i \in 1 .. Len(wire) :
      wire[i].status \in Successes => wire[i].by = "render" /\ setup.Fallback = "custom"

(* The session goes first: SavedOnceBefore and StrictNoSuccess.             *)
SessionFirst == SavedOnceBefore /\ StrictNoSuccess

(* A request that entered the lifecycle is finalized once, and Update is    *)
(* called once with a decided outcome exactly if Insert had succeeded, also *)
(* when a stage or an error handler panicked.                               *)
Bookkeeping ==
  /\ \A i \in 1 .. Len(updates) : updates[i].status # 0 /\ (panicked => updates[i].err # nil)
  /\ pc \in {"adapter", "done", "escaped"} =>
       /\ finalized = IF from = "middleware" \/ ~Carries("finalizer") THEN 0 ELSE 1
       /\ Len(updates) = IF inserted THEN 1 ELSE 0
=============================================================================
