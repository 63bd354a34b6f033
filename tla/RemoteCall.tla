----------------------------- MODULE RemoteCall -----------------------------
(***************************************************************************)
(* Calls of a remote API by several goroutines: the entry points of        *)
(* handlers/callApi.go, libCallApi/call.go and libCallApi/callApi.go, what *)
(* each makes of a response, the retry loop libRetry.WithRetry, and        *)
(* PrepareCall with the HTTP client it shares.                             *)
(*                                                                         *)
(* A client is a goroutine that makes some calls one after the other with  *)
(* one RemoteCallParamData, whose header map, query and query stack live   *)
(* from call to call.  All clients call one API, whose current token is    *)
(* numbered by "live" (TokenCache says how it is kept).                    *)
(*                                                                         *)
(* A timeout is a number; what matters is whether two are the same, and    *)
(* that 0 means to wait for ever, as in http.Client.                       *)
(***************************************************************************)
EXTENDS Naturals, Sequences, FiniteSets

CONSTANTS
  Clients,         (* The goroutines.                                      *)
  Setups,          (* The parameters and options each of them may have.    *)
  Asks,            (* Timeouts asked for in a Time-Out header or in        *)
                   (* CallParam.Timeout; 0 is no timeout.                  *)
  unset,           (* Asking for none.                                     *)
  DefaultTimeOut,  (* The 30 seconds of model.go.                          *)
  OwnTimeout,      (* What a supplied HTTP client was created with.        *)
  MaxRetries,      (* RetryPolicy.MaxRetries.                              *)
  MaxCalls,        (* Bound: calls of each client.                         *)
  MaxLive,         (* Bound: tokens of the API.                            *)
  Queries          (* The queries on a QueryStack at first.                *)

Causes == {"timeout", "status", "code"}

(* CallAPIJSONWithOpts; RemoteCall, as CallAPIJSON, CallAPIForm and the    *)
(* handlers use it; Call, as CallAPI and its variants use it;              *)
(* ConsumeRestBasicAuthAPI or ConsumeRestAPI, alone and below              *)
(* TransmitRequestWithAuth; TransmitSoap.                                  *)
Entries == {"opts", "json", "call", "basic", "transmit", "soap"}

(* The ones that go through PrepareCall and its CallData.                  *)
Prepared == {"opts", "json", "call"}

(* client: the HTTP client used.  map: the caller gave a header map.       *)
(* retry: it gave a policy, which retries for these causes, has a backoff, *)
(* watches the request's context.  guard: it gave a limit for the elapsed  *)
(* time.                                                                   *)
SetupType ==
  [entry : Entries, client : {"package", "supplied"},
   map : BOOLEAN, retry : BOOLEAN, causes : SUBSET Causes, backoff : BOOLEAN,
   watch : BOOLEAN, guard : BOOLEAN]

ASSUME SetupAssumption ==
  /\ Setups \in [Clients -> SUBSET SetupType]
  /\ \A c \in Clients : \A s \in Setups[c] :
       /\ s.retry \/ s.guard => s.entry = "opts"
       /\ s.entry \notin Prepared => s.client = "package"

ASSUME TimeoutAssumption ==
  /\ unset \notin Nat
  /\ Asks \subseteq Nat \cup {unset}
  /\ DefaultTimeOut \in Nat \ {0}
  /\ OwnTimeout \in Nat \ {0}

ASSUME BoundAssumption ==
  /\ MaxRetries \in Nat
  /\ MaxCalls \in [Clients -> Nat]
  /\ MaxLive \in Nat \ {0}
  /\ Queries \in Nat

none == 0

VARIABLES
  opt,       (* The setup of each client.                                  *)
  pc,        (* Where it is in its call.                                   *)
  calls,     (* History: the calls it has begun.                           *)
  ask,       (* The timeout it asks for in this call.                      *)
  query,     (* param.Query.                                               *)
  stack,     (* param.QueryStack.                                          *)
  headers,   (* The token in the caller's header map.                      *)
  ctx,       (* The request's context: alive, cancelled, past its deadline.*)
  limit,     (* http.Client.Timeout of the two clients.                    *)
  deadline,  (* The timeout the attempt runs under, while it does.         *)
  token,     (* The token the attempt sends, while it does.                *)
  live,      (* The API's current token; the lower ones have expired.      *)
  sent,      (* History: the queries sent in this call.                    *)
  accepted,  (* History: the calls whose last response had a status 2xx.   *)
  outcomes,  (* History: how each attempt of this call ended.              *)
  result     (* What the call returned.                                    *)

param == <<query, stack, headers>>
try   == <<deadline, token>>
hist  == <<sent, accepted, outcomes, result>>
vars  == <<opt, pc, calls, ask, param, ctx, limit, try, live, hist>>

Stages   == {"idle", "prepare", "authorize", "send", "waiting", "backoff", "returned"}
Contexts == {"alive", "cancelled", "deadline"}
Values   == {"ok", "busy"}
Outcomes == Values \cup {"timeout", "late", "unavailable", "failed"}
Results  == {"none", "value", "error", "both"}

-----------------------------------------------------------------------------
(* "busy" is a decoded response whose status, code or key the policy may   *)
(* list; "timeout" is API_CONNECT_TIMED_OUT, "late" API_CALL_TIME_OUT,     *)
(* "unavailable" a status that RetryOnStatus may list.  "failed" is every  *)
(* error no policy lists: another status, a body that cannot be read or    *)
(* decoded, no connection, a cancelled request, a request that could not   *)
(* be prepared; API_READ_TIMED_OUT too, which is no timeout to             *)
(* defaultIsTimeoutError.                                                  *)
Retryable(s, o) ==
  \/ "timeout" \in s.causes /\ o \in {"timeout", "late"}
  \/ "status" \in s.causes /\ o = "unavailable"
  \/ "code" \in s.causes /\ o = "busy"

(* Faulty: every error is worth another attempt.                            *)
RetriedAnyError(c, o) ==
  opt[c].retry /\ Len(outcomes[c]) < MaxRetries /\ (o \in Values => Retryable(opt[c], o))

Again(c, o) ==
  opt[c].retry /\ Len(outcomes[c]) < MaxRetries /\ Retryable(opt[c], o)

(* A response: its status (200, another 2xx, one that RetryOnStatus may     *)
(* list, another) and its body, which decodes to a value (to one whose code *)
(* or key the policy may list), is empty, does not decode or breaks off.    *)
Replies == [status : {"ok", "accepted", "unavailable", "refused"},
            body : Values \cup {"empty", "junk", "broken"}]

Success(r) == r.status \in {"ok", "accepted"}
Decoded(r) == IF r.body \in Values THEN r.body ELSE "failed"
StatusError(r) == IF r.status = "unavailable" THEN "unavailable" ELSE "failed"

(* Faulty: the body of an error is decoded like any other.                  *)
BuilderForAll(r) == Decoded(r)

(* 200 and nothing else has a body to decode.                               *)
DefaultBuilderfunc(r) == IF r.status = "ok" THEN Decoded(r) ELSE StatusError(r)

(* Any 2xx has one, or none and then the zero value is what it says.        *)
StatusPreservingBuilder(r) ==
  CASE ~Success(r) -> StatusError(r)
    [] Success(r) /\ r.body = "empty" -> "ok"
    [] OTHER -> Decoded(r)

(* executeSingleAttempt puts itself before the caller's builder.            *)
AttemptBuilder(r) ==
  IF Success(r) THEN StatusPreservingBuilder(r) ELSE StatusError(r)

GetJSONResp(r, built) == IF r.body = "broken" THEN "failed" ELSE built

(* An error of the API, which WsRemoteResponse decodes, is no error of      *)
(* ConsumeRest: it is a response next to the zero value.                    *)
GetResp(r) ==
  CASE r.body = "broken" -> "failed"
    [] r.body # "broken" /\ r.status = "ok" -> Decoded(r)
    [] OTHER -> IF r.body \in Values THEN "decoded" ELSE StatusError(r)

CallAPIInternal(r) == IF GetResp(r) = "decoded" THEN StatusError(r) ELSE GetResp(r)

(* The bytes are the value, those of an error too if they decode.           *)
ConsumeRestAPI(r) ==
  CASE r.body = "broken" -> "failed"
    [] r.body # "broken" /\ r.status = "ok" -> "ok"
    [] OTHER -> IF r.body \in Values THEN "ok" ELSE "failed"
ConsumeRestBasicAuthAPI(r) == ConsumeRestAPI(r)

(* ParseRemoteRespJSON and ParseWsRemoteResp on what ConsumeRestAPI gives.  *)
ParseRemoteRespJSON(r) ==
  IF r.body \in Values /\ r.status = "ok" THEN "ok" ELSE "failed"
TransmitRequestWithAuth(r) ==
  IF ConsumeRestAPI(r) = "failed" THEN "failed" ELSE ParseRemoteRespJSON(r)

(* No look at the status.                                                   *)
TransmitSoap(r) == IF r.body \in Values THEN "ok" ELSE "failed"

(* The value or error that a response is to a caller; the guard of the      *)
(* elapsed time replaces a value only.                                      *)
Verdict(s, r) ==
  CASE s.entry = "opts" -> GetJSONResp(r, AttemptBuilder(r))
    [] s.entry = "json" -> GetJSONResp(r, DefaultBuilderfunc(r))
    [] s.entry = "call" -> CallAPIInternal(r)
    [] s.entry = "basic" -> ConsumeRestBasicAuthAPI(r)
    [] s.entry = "transmit" -> TransmitRequestWithAuth(r)
    [] s.entry = "soap" -> TransmitSoap(r)

Verdicts(s, r) ==
  {Verdict(s, r)} \cup (IF s.guard /\ Verdict(s, r) \in Values THEN {"late"} ELSE {})

Init ==
  /\ opt \in [Clients -> UNION {Setups[c] : c \in Clients}]
  /\ \A c \in Clients : opt[c] \in Setups[c]
  /\ pc = [c \in Clients |-> "idle"]
  /\ calls = [c \in Clients |-> 0]
  /\ ask = [c \in Clients |-> unset]
  /\ query = [c \in Clients |-> none]
  /\ stack = [c \in Clients |-> [q \in 1 .. Queries |-> q]]
  /\ headers = [c \in Clients |-> none]
  /\ ctx = [c \in Clients |-> "alive"]
  /\ limit = [package |-> DefaultTimeOut, supplied |-> OwnTimeout]
  /\ deadline = [c \in Clients |-> 0]
  /\ token = [c \in Clients |-> none]
  /\ live = 1
  /\ sent = [c \in Clients |-> {}]
  /\ accepted = {}
  /\ outcomes = [c \in Clients |-> <<>>]
  /\ result = [c \in Clients |-> "none"]

(* The API's token expires and another one takes its place.                 *)
Expire ==
  /\ live < MaxLive
  /\ live' = live + 1
  /\ UNCHANGED <<opt, pc, calls, ask, param, ctx, limit, try, hist>>

(* http.NewRequest gives a request no context.                              *)
ContextEnds(c) ==
  /\ pc[c] \notin {"idle", "returned"}
  /\ opt[c].entry \in Prepared
  /\ ctx[c] = "alive"
  /\ \E e \in Contexts \ {"alive"} : ctx' = [ctx EXCEPT ![c] = e]
  /\ UNCHANGED <<opt, pc, calls, ask, param, limit, try, live, hist>>

-----------------------------------------------------------------------------
Start(c) ==
  /\ pc[c] \in {"idle", "returned"}
  /\ calls[c] < MaxCalls[c]
  /\ pc' = [pc EXCEPT ![c] = "prepare"]
  /\ calls' = [calls EXCEPT ![c] = @ + 1]
  /\ \E t \in Asks : ask' = [ask EXCEPT ![c] = t]
  /\ sent' = [sent EXCEPT ![c] = {}]
  /\ accepted' = accepted \ {c}
  /\ outcomes' = [outcomes EXCEPT ![c] = <<>>]
  /\ result' = [result EXCEPT ![c] = "none"]
  /\ UNCHANGED <<opt, headers, ctx, limit, try, live>>

(* Faulty: the attempts take their query from the stack.                    *)
QueryNotPinned(c) == Start(c) /\ UNCHANGED <<query, stack>>

(* CallAPIJSONWithOpts takes the first query for all attempts and drops     *)
(* param.QueryStack.                                                        *)
Begin(c) ==
  /\ Start(c)
  /\ IF opt[c].entry = "opts" /\ stack[c] # <<>>
       THEN /\ query' = [query EXCEPT ![c] = Head(stack[c])]
            /\ stack' = [stack EXCEPT ![c] = <<>>]
       ELSE UNCHANGED <<query, stack>>

(* RemoteCall and Call take their query from the stack.                     *)
TakeQuery(c) ==
  IF opt[c].entry \in Prepared /\ stack[c] # <<>>
    THEN /\ query' = [query EXCEPT ![c] = Head(stack[c])]
         /\ stack' = [stack EXCEPT ![c] = Tail(stack[c])]
    ELSE UNCHANGED <<query, stack>>

(* Faulty: the package's client is treated like a supplied one.             *)
LimitKept(c) == IF ask[c] = unset THEN limit[opt[c].client] ELSE ask[c]

(* Faulty: no default timeout.                                              *)
LimitUnset(c) == IF ask[c] = unset THEN 0 ELSE ask[c]

(* A Time-Out header only; TransmitSoap does not use its own argument.      *)
BasicLimit(c) ==
  IF ask[c] = unset \/ opt[c].entry = "soap" THEN limit.package ELSE ask[c]

(* The Timeout PrepareCall leaves in the HTTP client: an explicit timeout   *)
(* equal to the default is not told from none.                              *)
Limit(c) ==
  LET to == IF ask[c] = unset THEN DefaultTimeOut ELSE ask[c]
  IN  CASE opt[c].entry \notin Prepared -> BasicLimit(c)
        [] opt[c].entry \in Prepared /\ opt[c].client = "supplied" /\ to = DefaultTimeOut -> limit.supplied
        [] OTHER -> to

Prepare(c) ==
  /\ pc[c] = "prepare"
  /\ pc' = [pc EXCEPT ![c] = "authorize"]
  /\ TakeQuery(c)
  /\ limit' = [limit EXCEPT ![opt[c].client] = Limit(c)]
  /\ UNCHANGED <<opt, calls, ask, headers, ctx, try, live, hist>>

(* The call ends, and with it the use of its timeout and its context.       *)
Return(c, r) ==
  /\ pc' = [pc EXCEPT ![c] = "returned"]
  /\ result' = [result EXCEPT ![c] = r]
  /\ ask' = [ask EXCEPT ![c] = unset]
  /\ ctx' = [ctx EXCEPT ![c] = "alive"]

(* What the TransactionLogger and OnComplete are told, once an attempt.      *)
LogTransaction(c, o) == outcomes' = [outcomes EXCEPT ![c] = Append(@, o)]

(* The attempt ends: WithRetry goes on or the call returns.                 *)
Finish(c, o) ==
  /\ LogTransaction(c, o)
  /\ deadline' = [deadline EXCEPT ![c] = 0]
  /\ token' = [token EXCEPT ![c] = none]
  /\ IF Again(c, o)
       THEN /\ pc' = [pc EXCEPT ![c] = IF opt[c].backoff THEN "backoff" ELSE "prepare"]
            /\ UNCHANGED <<result, ask, ctx>>
       ELSE Return(c, IF o \in Values THEN "value" ELSE "error")

(* EnsureAuthorization, with a header map of the attempt or the caller's;   *)
(* TransmitSoap sends no header.                                            *)
SetHeader(c, own) ==
  LET t == IF headers[c] = none THEN live ELSE headers[c]
  IN  IF opt[c].entry = "soap"
        THEN UNCHANGED <<token, headers>>
        ELSE /\ token' = [token EXCEPT ![c] = t]
             /\ headers' = IF own THEN headers ELSE [headers EXCEPT ![c] = t]

(* Faulty: the attempts of a retry share the caller's header map.           *)
HeadersShared(c) ==
  /\ pc[c] = "authorize"
  /\ pc' = [pc EXCEPT ![c] = "send"]
  /\ SetHeader(c, ~opt[c].map)
  /\ UNCHANGED <<opt, calls, ask, query, stack, ctx, limit, deadline, live, hist>>

Authorize(c) ==
  /\ pc[c] = "authorize"
  /\ pc' = [pc EXCEPT ![c] = "send"]
  /\ SetHeader(c, opt[c].retry \/ ~opt[c].map)
  /\ UNCHANGED <<opt, calls, ask, query, stack, ctx, limit, deadline, live, hist>>

(* The body cannot be encoded, or no token is to be had.                    *)
FailToPrepare(c) ==
  /\ pc[c] = "authorize"
  /\ Finish(c, "failed")
  /\ accepted' = accepted \ {c}
  /\ UNCHANGED <<opt, calls, param, limit, live, sent>>

-----------------------------------------------------------------------------
(* What http.Client.Do makes of a context that has ended.                   *)
Cut(c) == IF ctx[c] = "deadline" THEN "timeout" ELSE "failed"

(* http.Client.Do reads the client's Timeout when it begins.                *)
Send(c) ==
  /\ pc[c] = "send"
  /\ IF ctx[c] = "alive"
       THEN /\ pc' = [pc EXCEPT ![c] = "waiting"]
            /\ deadline' = [deadline EXCEPT ![c] = limit[opt[c].client]]
            /\ sent' = [sent EXCEPT ![c] = @ \cup {query[c]}]
            /\ UNCHANGED <<ask, ctx, token, accepted, outcomes, result>>
       ELSE Finish(c, Cut(c)) /\ accepted' = accepted \ {c} /\ UNCHANGED sent
  /\ UNCHANGED <<opt, calls, param, limit, live>>

Ends(c, o) ==
  /\ pc[c] = "waiting"
  /\ Finish(c, o)
  /\ UNCHANGED <<opt, calls, param, limit, live, sent>>

Respond(c) ==
  \E r \in Replies : \E o \in Verdicts(opt[c], r) :
    /\ Ends(c, o)
    /\ accepted' = IF Success(r) THEN accepted \cup {c} ELSE accepted \ {c}

(* Before the headers are there, or when the body is read.                  *)
TimeOut(c) ==
  /\ deadline[c] > 0
  /\ \E o \in {"timeout", "failed"} : Ends(c, o)
  /\ accepted' = accepted \ {c}

Abort(c) ==
  /\ ctx[c] # "alive"
  /\ \E o \in {Cut(c), "failed"} : Ends(c, o)
  /\ accepted' = accepted \ {c}

-----------------------------------------------------------------------------
(* The timer of defaultSleep fires; the context may have ended as well.     *)
Wake(c) ==
  /\ pc[c] = "backoff"
  /\ pc' = [pc EXCEPT ![c] = "prepare"]
  /\ UNCHANGED <<opt, calls, ask, param, ctx, limit, try, live, hist>>

(* Faulty: the error of the context is not put into the result.             *)
InterruptSilently(c) ==
  /\ pc[c] = "backoff"
  /\ opt[c].watch /\ ctx[c] # "alive"
  /\ Return(c, IF outcomes[c][Len(outcomes[c])] \in Values THEN "value" ELSE "error")
  /\ UNCHANGED <<opt, calls, param, limit, try, live, sent, accepted, outcomes>>

(* The context of the policy ends the backoff; the response is kept.        *)
Interrupt(c) ==
  /\ pc[c] = "backoff"
  /\ opt[c].watch /\ ctx[c] # "alive"
  /\ Return(c, IF outcomes[c][Len(outcomes[c])] \in Values THEN "both" ELSE "error")
  /\ UNCHANGED <<opt, calls, param, limit, try, live, sent, accepted, outcomes>>

Proceed(c) ==
  \/ Prepare(c) \/ Authorize(c) \/ FailToPrepare(c) \/ Send(c) \/ Wake(c) \/ Interrupt(c)

Next ==
  \/ Expire
  \/ \E c \in Clients :
       \/ Begin(c) \/ Proceed(c) \/ ContextEnds(c)
       \/ Respond(c) \/ TimeOut(c) \/ Abort(c)

Spec == Init /\ [][Next]_vars

(* Goroutines are scheduled and timers fire; nothing is assumed of the      *)
(* server, and a client need not call.                                      *)
FairSpec == Spec /\ \A c \in Clients : WF_vars(Proceed(c)) /\ WF_vars(TimeOut(c))

-----------------------------------------------------------------------------
(* Properties.                                                              *)

(* Types of the variables; no call makes more than MaxRetries + 1 attempts. *)
TypeOK ==
  /\ opt \in [Clients -> SetupType]
  /\ pc \in [Clients -> Stages]
  /\ \A c \in Clients : calls[c] \in 0 .. MaxCalls[c]
  /\ ask \in [Clients -> Asks \cup {unset}]
  /\ query \in [Clients -> 0 .. Queries]
  /\ stack \in [Clients -> Seq(1 .. Queries)]
  /\ headers \in [Clients -> 0 .. MaxLive]
  /\ ctx \in [Clients -> Contexts]
  /\ limit \in [{"package", "supplied"} -> Nat]
  /\ deadline \in [Clients -> Nat]
  /\ token \in [Clients -> 0 .. live]
  /\ live \in 1 .. MaxLive
  /\ sent \in [Clients -> SUBSET (0 .. Queries)]
  /\ accepted \subseteq Clients
  /\ outcomes \in [Clients -> Seq(Outcomes)]
  /\ \A c \in Clients : Len(outcomes[c]) <= MaxRetries + 1
  /\ result \in [Clients -> Results]

(* A request that got an answer, or none, is not repeated behind the        *)
(* caller's back: every attempt but the last of a call ended in a way the   *)
(* policy lists (libRetry/retry.go shouldRetryError, shouldRetryResponse).  *)
RepeatedWithConsent ==
  \A c \in Clients : \A i \in 1 .. Len(outcomes[c]) - 1 :
    opt[c].retry /\ Retryable(opt[c], outcomes[c][i])

(* A call that returns a value and no error had that value from its last    *)
(* attempt, and it is one to keep: a response that the policy would retry   *)
(* is only returned so when no attempt is left, never because a backoff was *)
(* interrupted.                                                             *)
ValueIsFinal ==
  \A c \in Clients : result[c] = "value" =>
    /\ outcomes[c] # <<>>
    /\ LET o == outcomes[c][Len(outcomes[c])]
       IN  /\ o \in Values
           /\ opt[c].retry /\ Retryable(opt[c], o) => Len(outcomes[c]) = MaxRetries + 1

(* With a retry policy, and no Authorization header of the caller, every    *)
(* attempt sends the token the API has when the attempt asks for one: one   *)
(* that expired between two attempts is not sent again.                     *)
RetryRefreshesToken ==
  [][\A c \in Clients :
       opt[c].retry /\ pc[c] = "authorize" /\ pc'[c] = "send" => token'[c] = live]_vars

(* No failure passes for a value.  Of the entry points that look at the     *)
(* status, each with its own code and through builders of the caller's,     *)
(* none returns a value without an error for a response that was not 2xx    *)
(* (libCallApi/builder.go:9-14), be it that its body decodes.  The ones     *)
(* that hand out bytes, and TransmitSoap, do not promise it.                *)
ValueIsSuccess ==
  \A c \in Clients :
    result[c] = "value" /\ opt[c].entry \notin {"basic", "soap"} => c \in accepted

(* All attempts of a call send one query (TestCallAPIJSONWithOpts_RetryQuery*)
(* StackPinned), and the calls of RemoteCall and Call take the queries of   *)
(* the stack in order, one each, whether or not they got to send it; the    *)
(* last one stays.                                                          *)
OneQueryPerCall ==
  \A c \in Clients :
    LET nth == IF calls[c] < Queries THEN calls[c] ELSE Queries
    IN  sent[c] \subseteq CASE opt[c].entry \in {"json", "call"} -> {nth}
                            [] opt[c].entry = "opts" -> {IF Queries = 0 THEN none ELSE 1}
                            [] opt[c].entry \notin Prepared -> {none}

Alone(c) == \A d \in Clients \ {c} : opt[d].client # opt[c].client

(* As long as no other goroutine uses its HTTP client, a call that goes     *)
(* through PrepareCall runs under the timeout it asks for, with the         *)
(* package's client under the default one otherwise, whatever earlier calls *)
(* left in the client.  With a supplied client this needs a timeout that is *)
(* not the default one.                                                     *)
OwnLimit ==
  \A c \in Clients :
    /\ pc[c] = "waiting" /\ Alone(c) /\ opt[c].entry \in Prepared
    /\ opt[c].client = "package" \/ ask[c] \notin {unset, DefaultTimeOut}
    => deadline[c] = IF ask[c] = unset THEN DefaultTimeOut ELSE ask[c]

(* What a call sends is its own: query and timeout are kept where other     *)
(* calls leave theirs.                                                      *)
OwnRequest == OneQueryPerCall /\ OwnLimit

(* Every call returns though the server may never answer, the calls share   *)
(* their HTTP client and overwrite its timeout: unless somebody asks for no *)
(* timeout at all, each attempt runs under one, and attempts are counted.   *)
CallsReturn == \A c \in Clients : pc[c] = "prepare" ~> pc[c] = "returned"
=============================================================================
