---------------------------- MODULE RequestParser ----------------------------
(***************************************************************************)
(* The RequestParser of version 1 (webFramework/model.go) on its three      *)
(* adapters: libGin, libFiber and libNetHttp (which libChi uses).  One      *)
(* request; every part of the program that calls InitContext for it has a   *)
(* parser of its own.  What the adapters do not agree on is which of these  *)
(* parsers share their locals and their context, what a second answer does  *)
(* to the first, and whether the body can be read twice.                    *)
(***************************************************************************)
EXTENDS Naturals, Sequences

VARIABLES
  adapter,   (* The framework of the application.                            *)
  locals,    (* The locals of each store: the user, the status of the last   *)
             (* answer (0: none) and the notes for the log.                  *)
  context,   (* The span in the context of each store, 0 for none.           *)
  bodyRead,  (* The body of the request was read.                            *)
  wire,      (* What the client gets: the status, 0 before any; the bodies;  *)
             (* the answers tried; the status the last WriteHeader asked for.*)
  attrs      (* The custom attributes, for the log of the framework.         *)

parserVars == <<adapter, locals, context, bodyRead, wire, attrs>>

Adapters == {"gin", "fiber", "nethttp"}

(* The parts of the program that have a parser.                             *)
Parsers == {"middleware", "handler", "trailing"}
Stores == Parsers \cup {"request"}

Text == 0   (* The body of an answer that no handler gave; else its status.  *)

LocalType(Users, Logs) == [user : Users, status : Nat, log : Logs]

WireType == [status : Nat, bodies : Seq(Nat), sent : Nat, asked : Nat]

NothingSent == [status |-> 0, bodies |-> <<>>, sent |-> 0, asked |-> 0]

-----------------------------------------------------------------------------
(* Locals and context.                                                      *)

(* On gin they are the gin.Context's and its Request's, on Fiber the         *)
(* fiber.Ctx's; on net/http every InitContext makes a map of locals, and     *)
(* SetContext replaces the Request of one parser.                            *)
GinStore(p) == "request"
FiberStore(p) == "request"
NetHTTPStore(p) == p

Store(p) == CASE adapter = "gin" -> GinStore(p)
              [] adapter = "fiber" -> FiberStore(p)
              [] adapter = "nethttp" -> NetHTTPStore(p)

GetLocal(p, name) == locals[Store(p)][name]

(* The notes of a request: tags and arrays of the handler, tags of the list  *)
(* of errors.  Each kind has a local of its own; addLog appends to one.      *)
Notes(tags, arrays, errors) == [tags |-> tags, arrays |-> arrays, errors |-> errors]
NoNotes == Notes(<<>>, <<>>, <<>>)

WithLogs(store, new) ==
  [store EXCEPT !.log = Notes(@.tags \o new.tags, @.arrays \o new.arrays, @.errors \o new.errors)]

SetContext(p, span) == context' = [context EXCEPT ![Store(p)] = span]

(* The middleware hands a request with the span to all that follows.        *)
SetRequestContext(span) == context' = [s \in Stores |-> span]

-----------------------------------------------------------------------------
(* Answers.  A body that cannot be encoded is not written, but its status   *)
(* is set; only Fiber and net/http report it.                               *)

Bodies(w, code, encoded) == IF encoded THEN Append(w.bodies, code) ELSE w.bodies

(* gin keeps the status once a body is written, and adds the new body.      *)
GinSend(w, code, encoded) ==
  [w EXCEPT !.status = IF w.bodies = <<>> THEN code ELSE @,
            !.bodies = Bodies(w, code, encoded), !.sent = @ + 1]

(* Mutant: the status is set only when the body could be encoded.           *)
FiberSendOrNothing(w, code, encoded) ==
  [w EXCEPT !.status = IF encoded THEN code ELSE 200,
            !.bodies = IF encoded THEN <<code>> ELSE @, !.sent = @ + 1]

(* Fiber replaces status and body.                                          *)
FiberSend(w, code, encoded) ==
  [w EXCEPT !.status = code,
            !.bodies = IF encoded THEN <<code>> ELSE @, !.sent = @ + 1]

(* The status goes out first: a later one is superfluous.                   *)
WriteHeader(w, code) ==
  [w EXCEPT !.status = IF @ = 0 THEN code ELSE @, !.asked = code]

NetHTTPSend(w, code, encoded) ==
  LET after == WriteHeader(w, code)
  IN  [after EXCEPT !.bodies = Bodies(w, code, encoded), !.sent = @ + 1]

Send(w, code, encoded) == CASE adapter = "gin" -> GinSend(w, code, encoded)
                            [] adapter = "fiber" -> FiberSend(w, code, encoded)
                            [] adapter = "nethttp" -> NetHTTPSend(w, code, encoded)

(* Abort: Fiber sends the status as text when there is no body yet,          *)
(* net/http asks for a status of its own.                                    *)
GinAbort(w) == w
FiberAbort(w) == IF w.bodies = <<>> THEN [w EXCEPT !.bodies = <<Text>>] ELSE w
NetHTTPAbort(w) == WriteHeader(w, 500)

Abort(w) == CASE adapter = "gin" -> GinAbort(w)
              [] adapter = "fiber" -> FiberAbort(w)
              [] adapter = "nethttp" -> NetHTTPAbort(w)

(* Whether Next calls the function behind the handler.                      *)
NextCalls == adapter # "nethttp"

(* The status the framework knows of when the handlers have returned.       *)
FrameworkStatus == IF wire.status = 0 THEN 200 ELSE wire.status

(* The framework, or RecoveryMiddleware, answers a panic that reaches it.    *)
GinRecovery(w) == [w EXCEPT !.status = IF w.bodies = <<>> THEN 500 ELSE @]
NetHTTPRecovery(w) ==
  LET after == WriteHeader(w, 500) IN [after EXCEPT !.bodies = Append(@, Text)]

(* libFiber.ErrorHandler: a fiber.Error of 404 and an error of another type  *)
(* (code 500 here) have one answer; a fiber.Error of another code has two,   *)
(* of which the last stays.                                                  *)
FiberErrorHandler(w, code) ==
  LET answer(x, c) == FiberAbort(FiberSend(x, c, TRUE))
  IN  IF code \in {404, 500} THEN answer(w, code) ELSE answer(answer(w, 500), 500)

FrameworkRecovery(w) == CASE adapter = "gin" -> GinRecovery(w)
                          [] adapter = "fiber" -> FiberErrorHandler(w, 500)
                          [] adapter = "nethttp" -> NetHTTPRecovery(w)

(* NetHTTPErrorHandler: one answer, 404 for another path than its own.       *)
NetHTTPErrorHandler(w, code) ==
  NetHTTPAbort(NetHTTPSend(w, IF code \in {404, 405} THEN code ELSE 500, TRUE))

-----------------------------------------------------------------------------
(* The body.                                                                *)

(* What GetBody may return: on gin a body that was read is an error, on      *)
(* net/http it is nothing to bind and no error, Fiber keeps the bytes.       *)
GinBody == IF bodyRead THEN {"error"} ELSE {"bound", "error"}
FiberBody == {"bound", "error"}
NetHTTPBody == IF bodyRead THEN {"empty"} ELSE {"bound", "error"}

GetBody == CASE adapter = "gin" -> GinBody
             [] adapter = "fiber" -> FiberBody
             [] adapter = "nethttp" -> NetHTTPBody

-----------------------------------------------------------------------------
(* Custom attributes.                                                       *)

(* gin and Fiber hand them to the logger of the framework; net/http puts     *)
(* them among the locals of its parser, by key: the last one of a key stays. *)
GinAttributes(new) == attrs \o new
FiberAttributes(new) == attrs \o new
NetHTTPAttributes(new) ==
  LET all == attrs \o new
      last(i) == \A j \in (i + 1)..Len(all) : all[j].key # all[i].key
      keep[i \in 0..Len(all)] == IF i = 0 THEN <<>>
                                 ELSE IF last(i) THEN Append(keep[i - 1], all[i]) ELSE keep[i - 1]
  IN  keep[Len(all)]

AddCustomAttributes(new) == CASE adapter = "gin" -> GinAttributes(new)
                              [] adapter = "fiber" -> FiberAttributes(new)
                              [] adapter = "nethttp" -> NetHTTPAttributes(new)
=============================================================================
