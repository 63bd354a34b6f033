------------------------------ MODULE V1Handler ------------------------------
(***************************************************************************)
(* The life of a version 1 request: BaseHandler and its deferred Recovery  *)
(* (handlers/baseHandler.go, handlers/recovery.go), the responder they     *)
(* answer with (response/webHandler.go), the parsing of the request and    *)
(* its record (libRequest), kept by a persister that delegates to          *)
(* InitRequest and UpdateRequestWithContext as handlers/README.md shows.   *)
(*                                                                         *)
(* Requests are concurrent; they meet in the table of records.  A step     *)
(* that calls the code of a handler chooses how that code ends: it         *)
(* returns, returns an error or panics, with an error or with any value.   *)
(***************************************************************************)
EXTENDS Naturals, Sequences

CONSTANTS
  Requests,     (* The requests, each with its goroutine.                  *)
  Id,           (* The identifier in the header of each request.           *)
  Confs,        (* The settings a handler may have, see ConfType.          *)
  ErrorStatus,  (* The status of each error the code may return, by name.  *)
  NoError,      (* nil.                                                    *)
  Panicked,     (* The error Recovery makes of a panic whose value has no   *)
                (* libError in it.                                         *)
  NotClosed,    (* The record of the request was not updated ...           *)
  UpdateFailed  (* ... or its update was tried and failed.                 *)

ErrorNames == DOMAIN ErrorStatus

(* Of HandlerParameters: Persistence, HasReceipt, FileResponse and          *)
(* RecoveryHandler; the simulation argument; whether the table of records   *)
(* has a unique key on the identifier.                                      *)
ConfType == [persist : BOOLEAN, receipt : BOOLEAN, file : BOOLEAN,
             recovery : BOOLEAN, simulation : BOOLEAN, unique : BOOLEAN]

ASSUME HandlerAssumption ==
  /\ Confs \subseteq ConfType
  /\ ErrorStatus \in [ErrorNames -> Nat \ {0}]
  /\ NoError \notin ErrorNames \cup {Panicked}
  /\ Panicked \notin ErrorNames
  /\ 500 \in {ErrorStatus[e] : e \in ErrorNames}

Outcomes == [err : ErrorNames \cup {NoError, Panicked}, status : Nat]

ASSUME ClosedAssumption == {NotClosed, UpdateFailed} \cap Outcomes = {} /\ NotClosed # UpdateFailed

VARIABLES
  conf,       (* The settings of the handler; they never change.           *)
  pc,         (* Where each request is.                                    *)
  todo,       (* The answers a handler that succeeded still has to give.   *)
  panic,      (* The requests that panicked.                               *)
  outcome,    (* HandlerRequest.Outcome.                                   *)
  respSent,   (* HandlerRequest.RespSent.                                  *)
  status,     (* The local LastHTTPStatusLocal, 0 when it is not set.      *)
  answers,    (* What was given to the framework to send, and whether it   *)
              (* was sent.                                                 *)
  rows,       (* The requests with a row in the table.                     *)
  inserted,   (* requestInserted.                                          *)
  closed,     (* The outcome in the row after its update.                  *)
  handled     (* History: the requests whose Handler was called.           *)

recordVars == <<rows, inserted, closed>>
answerVars == <<outcome, respSent, status, answers>>
vars == <<conf, pc, todo, panic, answerVars, recordVars, handled>>

Phases == {"parse", "simulate", "check", "insert", "init", "handle", "answer",
           "finalize", "update", "reraise", "done", "crashed", "escaped"}
(* "escaped": a panic of a RecoveryHandler or a Finalizer has left Recovery.  *)
Ended == {"done", "crashed", "escaped"}

TypeOK ==
  /\ conf \in Confs
  /\ pc \in [Requests -> Phases]
  /\ todo \in [Requests -> Seq({"receipt", "file", "json"})]
  /\ panic \subseteq Requests
  /\ outcome \in [Requests -> Outcomes]
  /\ respSent \in [Requests -> BOOLEAN]
  /\ status \in [Requests -> Nat]
  /\ answers \in [Requests -> Seq([code : Nat, sent : BOOLEAN])]
  /\ rows \subseteq Requests
  /\ inserted \subseteq Requests
  /\ closed \in [Requests -> Outcomes \cup {NotClosed, UpdateFailed}]
  /\ handled \subseteq Requests

Init ==
  /\ conf \in Confs
  /\ pc = [r \in Requests |-> "parse"]
  /\ todo = [r \in Requests |-> <<>>]
  /\ panic = {}
  /\ outcome = [r \in Requests |-> [err |-> NoError, status |-> 0]]
  /\ respSent = [r \in Requests |-> FALSE]
  /\ status = [r \in Requests |-> 0]
  /\ answers = [r \in Requests |-> <<>>]
  /\ rows = {}
  /\ inserted = {}
  /\ closed = [r \in Requests |-> NotClosed]
  /\ handled = {}

Go(r, from, to) == pc[r] = from /\ pc' = [pc EXCEPT ![r] = to]

-----------------------------------------------------------------------------
(* The responder.                                                           *)

(* respond records the status, then sends; an error of the send is only     *)
(* logged.                                                                  *)
Respond(r, code, sent) ==
  /\ status' = [status EXCEPT ![r] = code]
  /\ answers' = [answers EXCEPT ![r] = Append(@, [code |-> code, sent |-> sent])]

(* Mutant: the outcome is set before the answer is given.                   *)
RespondErrorLate(r, e) ==
  /\ \E sent \in BOOLEAN : Respond(r, ErrorStatus[e], sent)
  /\ outcome' = [outcome EXCEPT ![r] = [err |-> e, status |-> status[r]]]
  /\ UNCHANGED respSent

(* respondError: Error aborts the chain of handlers; RespSent stays FALSE.  *)
RespondError(r, e) ==
  /\ \E sent \in BOOLEAN : Respond(r, ErrorStatus[e], sent)
  /\ outcome' = [outcome EXCEPT ![r] = [err |-> e, status |-> ErrorStatus[e]]]
  /\ UNCHANGED respSent

(* The request ends with an error; Recovery comes next.                     *)
Fail(r, from) ==
  /\ \E e \in ErrorNames : RespondError(r, e)
  /\ Go(r, from, "finalize")
  /\ UNCHANGED <<conf, todo, panic, inserted, closed, handled>>

(* recover() is not nil: a RecoveryHandler has the panic to itself and the  *)
(* outcome stays as it is.  It may panic in turn.  Without one the value of *)
(* the panic is joined with an error of 500, and the outcome says 500       *)
(* whatever the value is: an error of the code, or something else.          *)
Panic(r) ==
  /\ panic' = panic \cup {r}
  /\ IF conf.recovery
       THEN /\ \E to \in {"finalize", "escaped"} : pc' = [pc EXCEPT ![r] = to]
            /\ UNCHANGED outcome
       ELSE /\ pc' = [pc EXCEPT ![r] = "finalize"]
            /\ \E e \in ErrorNames \cup {Panicked} :
                 outcome' = [outcome EXCEPT ![r] = [err |-> e, status |-> 500]]
  /\ UNCHANGED <<conf, todo, respSent, recordVars>>

-----------------------------------------------------------------------------
(* BaseHandler.                                                             *)

(* ParseRequest: headers, body, query and path bound as the mode says, then *)
(* validated; whatever fails is an error with a status of its own.          *)
Parse(r) ==
  /\ Go(r, "parse", IF conf.simulation THEN "simulate"
                    ELSE IF conf.persist THEN "check" ELSE "init")
  /\ UNCHANGED <<conf, todo, panic, answerVars, recordVars, handled>>

FailToParse(r) == Fail(r, "parse") /\ UNCHANGED rows

(* CheckDuplicateRequest: a row of the same identifier is a duplicate; an   *)
(* error of the query other than "no data" refuses the request as well.     *)
Duplicates(r) == {q \in rows : Id[q] = Id[r]}

Check(r) ==
  /\ Duplicates(r) = {}
  /\ Go(r, "check", "insert")
  /\ UNCHANGED <<conf, todo, panic, answerVars, recordVars, handled>>

FailToCheck(r) == Fail(r, "check") /\ UNCHANGED rows

(* InsertRequestWithContext, in a transaction of its own.                   *)
Insert(r) ==
  /\ conf.unique => Duplicates(r) = {}
  /\ Go(r, "insert", "init")
  /\ rows' = rows \cup {r}
  /\ inserted' = inserted \cup {r}
  /\ UNCHANGED <<conf, todo, panic, answerVars, closed, handled>>

(* Mutant: the error of the insert is not looked at.                        *)
InsertAnyway(r) ==
  /\ Go(r, "insert", "init")
  /\ UNCHANGED <<conf, todo, panic, answerVars, recordVars, handled>>

(* The error of a commit does not say whether the row is there.             *)
FailToInsert(r) ==
  /\ Fail(r, "insert")
  /\ \/ UNCHANGED rows
     \/ ~(conf.unique /\ Duplicates(r) # {}) /\ rows' = rows \cup {r}

Initialize(r) ==
  /\ Go(r, "init", "handle")
  /\ UNCHANGED <<conf, todo, panic, answerVars, recordVars, handled>>

FailToInitialize(r) == Fail(r, "init") /\ UNCHANGED rows

(* Mutant: the plain answer is given without a look at RespSent.            *)
HandleAnswersAgain(r) ==
  /\ Go(r, "handle", "answer")
  /\ handled' = handled \cup {r}
  /\ todo' \in {[todo EXCEPT ![r] = <<"json">>],
                [todo EXCEPT ![r] = IF conf.receipt THEN <<"receipt", "file", "json", "json">>
                                    ELSE <<"json">>]}
  /\ UNCHANGED <<conf, panic, answerVars, recordVars>>

(* Handler returns; with HasReceipt and FileResponse it may have left a     *)
(* receipt and an attachment in the locals.  Each of them is answered, and  *)
(* the plain answer follows when nothing was.                               *)
Handle(r) ==
  /\ Go(r, "handle", "answer")
  /\ handled' = handled \cup {r}
  /\ \E receipt \in SUBSET {"receipt"}, file \in SUBSET {"file"} :
       /\ receipt # {} => conf.receipt
       /\ file # {} => conf.file
       /\ todo' = [todo EXCEPT ![r] =
                     IF receipt \cup file = {} THEN <<"json">>
                     ELSE (IF receipt = {} THEN <<>> ELSE <<"receipt">>)
                          \o (IF file = {} THEN <<>> ELSE <<"file">>)]
  /\ UNCHANGED <<conf, panic, answerVars, recordVars>>

FailToHandle(r) ==
  /\ \E e \in ErrorNames : RespondError(r, e)
  /\ Go(r, "handle", "finalize")
  /\ handled' = handled \cup {r}
  /\ UNCHANGED <<conf, todo, panic, recordVars>>

Simulate(r) ==
  /\ Go(r, "simulate", "answer")
  /\ todo' = [todo EXCEPT ![r] = <<"json">>]
  /\ UNCHANGED <<conf, panic, answerVars, recordVars, handled>>

FailToSimulate(r) == Fail(r, "simulate") /\ UNCHANGED rows

(* respondOK and its variants.                                              *)
Answer(r) ==
  /\ pc[r] = "answer"
  /\ \E sent \in BOOLEAN : Respond(r, 200, sent)
  /\ outcome' = [outcome EXCEPT ![r] = [err |-> NoError, status |-> 200]]
  /\ respSent' = [respSent EXCEPT ![r] = TRUE]
  /\ todo' = [todo EXCEPT ![r] = Tail(@)]
  /\ pc' = [pc EXCEPT ![r] = IF Len(todo[r]) = 1 THEN "finalize" ELSE "answer"]
  /\ UNCHANGED <<conf, panic, recordVars, handled>>

(* The code of the handler, or of the persister, panics.                    *)
UserPanics(r) ==
  /\ pc[r] \in {"simulate", "check", "insert", "init", "handle"}
  /\ Panic(r)
  /\ handled' = IF pc[r] = "handle" THEN handled \cup {r} ELSE handled
  /\ UNCHANGED <<status, answers>>

(* A handler further down the chain panics when respond, with its answer    *)
(* sent, calls Next: outcome and RespSent are not reached.                  *)
NextPanics(r) ==
  /\ pc[r] = "answer"
  /\ \E sent \in BOOLEAN : Respond(r, 200, sent)
  /\ Panic(r)
  /\ UNCHANGED handled

-----------------------------------------------------------------------------
(* Recovery.                                                                *)

Finalize(r) ==
  /\ Go(r, "finalize", "update")
  /\ UNCHANGED <<conf, todo, panic, answerVars, recordVars, handled>>

(* A panic of Finalizer leaves Recovery: no update and no answer.           *)
FinalizerPanics(r) ==
  /\ Go(r, "finalize", "escaped")
  /\ panic' = panic \cup {r}
  /\ UNCHANGED <<conf, todo, answerVars, recordVars, handled>>

AfterUpdate(r) == IF r \in panic THEN "reraise" ELSE "done"

(* Mutant: requests that panicked are not updated.                          *)
UpdateUnlessPanicked(r) ==
  /\ Go(r, "update", AfterUpdate(r))
  /\ closed' = [closed EXCEPT ![r] = IF r \in inserted \ panic THEN outcome[r] ELSE @]
  /\ UNCHANGED <<conf, todo, panic, answerVars, rows, inserted, handled>>

Update(r) ==
  /\ Go(r, "update", AfterUpdate(r))
  /\ closed' = [closed EXCEPT ![r] = IF r \in inserted THEN outcome[r] ELSE @]
  /\ UNCHANGED <<conf, todo, panic, answerVars, rows, inserted, handled>>

(* Logged, not retried.                                                     *)
FailToUpdate(r) ==
  /\ r \in inserted
  /\ Go(r, "update", AfterUpdate(r))
  /\ closed' = [closed EXCEPT ![r] = UpdateFailed]
  /\ UNCHANGED <<conf, todo, panic, answerVars, rows, inserted, handled>>

(* The responder answers with the first libError of the joined ones: that   *)
(* of the panic's own value, if it has one.                                 *)
PanicStatus(e) == IF e \in ErrorNames THEN ErrorStatus[e] ELSE 500

(* The panic goes on to the framework, after an answer of its own when no   *)
(* RecoveryHandler has it.                                                  *)
Reraise(r) ==
  /\ Go(r, "reraise", "crashed")
  /\ IF conf.recovery THEN UNCHANGED <<status, answers>>
     ELSE \E sent \in BOOLEAN : Respond(r, PanicStatus(outcome[r].err), sent)
  /\ UNCHANGED <<conf, todo, panic, outcome, respSent, recordVars, handled>>

RequestStep(r) ==
  \/ Parse(r) \/ FailToParse(r)
  \/ Check(r) \/ FailToCheck(r)
  \/ Insert(r) \/ FailToInsert(r)
  \/ Initialize(r) \/ FailToInitialize(r)
  \/ Handle(r) \/ FailToHandle(r)
  \/ Simulate(r) \/ FailToSimulate(r)
  \/ Answer(r) \/ UserPanics(r) \/ NextPanics(r)
  \/ Finalize(r) \/ FinalizerPanics(r)
  \/ Update(r) \/ FailToUpdate(r) \/ Reraise(r)

Next == \E r \in Requests : RequestStep(r)

Spec == Init /\ [][Next]_vars

-----------------------------------------------------------------------------
(* Properties.                                                              *)

Last(r) == answers[r][Len(answers[r])]

(* A request gets one answer: none only when a RecoveryHandler, or a         *)
(* Finalizer that panics, has kept it, and a second one only from a handler  *)
(* with both a receipt and a file (lines 289-315) or from a panic after an   *)
(* answer (recovery.go:81).                                                  *)
OneAnswer ==
  \A r \in Requests :
    /\ pc[r] \in Ended /\ answers[r] = <<>> => r \in panic /\ (conf.recovery \/ pc[r] = "escaped")
    /\ Len(answers[r]) > 1 => (conf.receipt /\ conf.file) \/ (r \in panic /\ ~conf.recovery)
    /\ Len(answers[r]) <= 3

(* What the update of a record may rely on (handlers/README.md:336-353).     *)
(* Without a panic the outcome is that of the last answer: its status, no    *)
(* error when it was OK, and else the error that was answered.  After a panic *)
(* the record has its error and 500, but the client gets the status of the   *)
(* panic's own libError when there is one (webHandler.go:56).  With a         *)
(* RecoveryHandler it has no error, and 200 exactly when an answer was       *)
(* complete; an answer whose Next panicked leaves 0.                         *)
RecordMatchesAnswer ==
  \A r \in Requests :
    LET record == closed[r]
    IN  pc[r] \in Ended /\ record \in Outcomes =>
          CASE r \notin panic ->
                 /\ record.status = Last(r).code
                 /\ record.status = IF record.err = NoError THEN 200 ELSE ErrorStatus[record.err]
            [] r \in panic /\ ~conf.recovery ->
                 /\ record.status = 500 /\ record.err # NoError
                 /\ Last(r).code = PanicStatus(record.err)
            [] r \in panic /\ conf.recovery ->
                 record = [err |-> NoError, status |-> IF respSent[r] THEN 200 ELSE 0]

(* A row that stays as inserted has an explanation: a commit whose answer    *)
(* was an error, or a panic of Finalizer or RecoveryHandler.                 *)
OpenRowsExplained ==
  \A r \in Requests :
    pc[r] \in Ended /\ r \in rows /\ closed[r] = NotClosed =>
      \/ r \notin inserted /\ outcome[r].err \in ErrorNames
      \/ pc[r] = "escaped"

(* Two copies of a request both pass the duplicate check (init.go:16), but   *)
(* with a unique key only one of them is handled; an insert that failed      *)
(* never reaches the handler.                                                *)
HandledOnce ==
  \A r, q \in Requests :
    conf.persist /\ ~conf.simulation =>
      /\ r \in handled => r \in inserted
      /\ conf.unique /\ {r, q} \subseteq handled /\ Id[r] = Id[q] => r = q
=============================================================================
