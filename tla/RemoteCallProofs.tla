-------------------------- MODULE RemoteCallProofs --------------------------
(* Proofs about RemoteCall: what a retry policy may do to a call, for any   *)
(* number of clients, retries, calls and tokens.                            *)
EXTENDS RemoteCall, TLAPS

Running == Stages \ {"idle", "returned"}

(* The part of the types that the argument needs.                           *)
Types ==
  /\ opt \in [Clients -> SetupType]
  /\ pc \in [Clients -> Stages]
  /\ headers \in [Clients -> Nat]
  /\ token \in [Clients -> Nat]
  /\ live \in Nat
  /\ outcomes \in [Clients -> Seq(Outcomes)]
  /\ result \in [Clients -> Results]

(* While a call runs, each of its attempts ended in a way the policy lists, *)
(* and there is one left.  In a backoff there was one.                      *)
RunningInv ==
  \A c \in Clients : pc[c] \in Running =>
    /\ result[c] = "none"
    /\ Len(outcomes[c]) <= MaxRetries
    /\ \A i \in 1 .. Len(outcomes[c]) : opt[c].retry /\ Retryable(opt[c], outcomes[c][i])
    /\ pc[c] = "backoff" => outcomes[c] # <<>>

(* When it does not, all but the last did, and the value is the last one's. *)
EndedInv ==
  \A c \in Clients :
    /\ Len(outcomes[c]) <= MaxRetries + 1
    /\ \A i \in 1 .. Len(outcomes[c]) - 1 :
         opt[c].retry /\ Retryable(opt[c], outcomes[c][i])
    /\ result[c] = "value" =>
         /\ outcomes[c] # <<>>
         /\ LET o == outcomes[c][Len(outcomes[c])]
            IN  /\ o \in Values
                /\ opt[c].retry /\ Retryable(opt[c], o) => Len(outcomes[c]) = MaxRetries + 1

(* With a policy the caller's header map stays as it was.                   *)
HeaderInv ==
  \A c \in Clients : opt[c].retry => opt[c].entry = "opts" /\ headers[c] = none

IInv == Types /\ RunningInv /\ EndedInv /\ HeaderInv

-----------------------------------------------------------------------------
(* What a caller may be told of a response.                                 *)
LEMMA VerdictTypes ==
  ASSUME NEW s \in SetupType, NEW r \in Replies
  PROVE  Verdicts(s, r) \subseteq Outcomes
<1>1. Verdict(s, r) \in Outcomes
  BY DEF SetupType, Entries, Replies, Verdict, GetJSONResp, AttemptBuilder, StatusPreservingBuilder,
         DefaultBuilderfunc, CallAPIInternal, GetResp, ConsumeRestBasicAuthAPI, ConsumeRestAPI,
         TransmitRequestWithAuth, ParseRemoteRespJSON, TransmitSoap, Success, Decoded, StatusError,
         Values, Outcomes
<1> QED
  BY <1>1 DEF Verdicts, Outcomes

LEMMA IInvInit == Init => IInv
<1> SUFFICES ASSUME Init PROVE IInv
  OBVIOUS
<1> USE SetupAssumption, BoundAssumption DEF Init
<1>1. Types
  <2>1. opt \in [Clients -> SetupType]
    OBVIOUS
  <2> QED
    BY <2>1 DEF Types, Stages, Results, none
<1>2. RunningInv
  BY DEF RunningInv, Running
<1>3. EndedInv
  BY DEF EndedInv
<1>4. HeaderInv
  <2>1. \A c \in Clients : opt[c] \in Setups[c]
    OBVIOUS
  <2> QED
    BY <2>1 DEF HeaderInv
<1> QED
  BY <1>1, <1>2, <1>3, <1>4 DEF IInv

(* What happens to the call of c when its attempt ends with o.              *)
LEMMA FinishKeeps ==
  ASSUME IInv, NEW c \in Clients, NEW o \in Outcomes, pc[c] \in Running,
         Finish(c, o), UNCHANGED <<opt, headers, live>>
  PROVE  IInv'
<1> USE BoundAssumption
<1>1. outcomes' = [outcomes EXCEPT ![c] = Append(@, o)]
  BY DEF Finish, LogTransaction
<1>2. \/ Again(c, o) /\ pc' = [pc EXCEPT ![c] = IF opt[c].backoff THEN "backoff" ELSE "prepare"]
                     /\ result' = result
      \/ ~Again(c, o) /\ pc' = [pc EXCEPT ![c] = "returned"]
                      /\ result' = [result EXCEPT ![c] = IF o \in Values THEN "value" ELSE "error"]
  BY DEF Finish, Return
<1>3. outcomes[c] \in Seq(Outcomes) /\ Len(outcomes[c]) \in Nat
  BY DEF IInv, Types
<1>4. /\ outcomes'[c] = Append(outcomes[c], o)
      /\ outcomes'[c] \in Seq(Outcomes)
      /\ Len(outcomes'[c]) = Len(outcomes[c]) + 1
      /\ \A i \in 1 .. Len(outcomes[c]) : outcomes'[c][i] = outcomes[c][i]
      /\ outcomes'[c][Len(outcomes'[c])] = o
  BY <1>1, <1>3 DEF IInv, Types
<1>5. \A d \in Clients \ {c} : outcomes'[d] = outcomes[d] /\ pc'[d] = pc[d] /\ result'[d] = result[d]
  BY <1>1, <1>2 DEF IInv, Types
<1>6. Types'
  <2>1. outcomes' \in [Clients -> Seq(Outcomes)]
    BY <1>1, <1>4 DEF IInv, Types
  <2>2. pc' \in [Clients -> Stages] /\ result' \in [Clients -> Results]
    BY <1>2 DEF IInv, Types, Stages, Results
  <2>3. token' \in [Clients -> Nat]
    BY DEF Finish, IInv, Types, none
  <2> QED
    BY <2>1, <2>2, <2>3 DEF IInv, Types
<1>7. \A i \in 1 .. Len(outcomes[c]) : opt[c].retry /\ Retryable(opt[c], outcomes[c][i])
  BY DEF IInv, RunningInv
<1>8. RunningInv'
  <2> SUFFICES ASSUME NEW d \in Clients, pc'[d] \in Running
               PROVE  /\ result'[d] = "none"
                      /\ Len(outcomes'[d]) <= MaxRetries
                      /\ \A i \in 1 .. Len(outcomes'[d]) :
                           opt[d].retry /\ Retryable(opt[d], outcomes'[d][i])
                      /\ pc'[d] = "backoff" => outcomes'[d] # <<>>
    BY DEF RunningInv, Retryable
  <2>1. CASE d # c
    BY <2>1, <1>5 DEF IInv, RunningInv
  <2>2. CASE d = c
    <3>1. Again(c, o) /\ result'[c] = "none"
      BY <2>2, <1>2 DEF IInv, Types, RunningInv, Running
    <3>2. opt[c].retry /\ Len(outcomes[c]) < MaxRetries /\ Retryable(opt[c], o)
      BY <3>1 DEF Again
    <3>3. \A i \in 1 .. Len(outcomes'[c]) : opt[c].retry /\ Retryable(opt[c], outcomes'[c][i])
      <4> TAKE i \in 1 .. Len(outcomes'[c])
      <4>1. CASE i = Len(outcomes'[c])
        BY <4>1, <3>2, <1>4
      <4>2. CASE i \in 1 .. Len(outcomes[c])
        BY <4>2, <1>4, <1>7
      <4> QED
        BY <4>1, <4>2, <1>3, <1>4
    <3>4. outcomes'[c] # <<>>
      BY <1>3, <1>4
    <3> QED
      BY <2>2, <3>1, <3>2, <3>3, <3>4, <1>3, <1>4
  <2> QED
    BY <2>1, <2>2
<1>9. EndedInv'
  <2> SUFFICES ASSUME NEW d \in Clients
               PROVE  /\ Len(outcomes'[d]) <= MaxRetries + 1
                      /\ \A i \in 1 .. Len(outcomes'[d]) - 1 :
                           opt[d].retry /\ Retryable(opt[d], outcomes'[d][i])
                      /\ result'[d] = "value" =>
                           /\ outcomes'[d] # <<>>
                           /\ outcomes'[d][Len(outcomes'[d])] \in Values
                           /\ opt[d].retry /\ Retryable(opt[d], outcomes'[d][Len(outcomes'[d])])
                                => Len(outcomes'[d]) = MaxRetries + 1
    BY DEF EndedInv, Retryable
  <2>1. CASE d # c
    BY <2>1, <1>5 DEF IInv, EndedInv
  <2>2. CASE d = c
    <3>1. Len(outcomes[c]) <= MaxRetries
      BY DEF IInv, RunningInv
    <3>2. Len(outcomes'[c]) <= MaxRetries + 1 /\ outcomes'[c] # <<>>
      BY <3>1, <1>3, <1>4
    <3>3. \A i \in 1 .. Len(outcomes'[c]) - 1 :
            opt[c].retry /\ Retryable(opt[c], outcomes'[c][i])
      BY <1>3, <1>4, <1>7
    <3>4. result'[c] = "value" => ~Again(c, o) /\ o \in Values
      BY <1>2 DEF IInv, Types, RunningInv
    <3>5. ~Again(c, o) /\ opt[c].retry /\ Retryable(opt[c], o) =>
            Len(outcomes'[c]) = MaxRetries + 1
      BY <3>1, <1>3, <1>4 DEF Again
    <3> QED
      BY <2>2, <3>2, <3>3, <3>4, <3>5, <1>4
  <2> QED
    BY <2>1, <2>2
<1>10. HeaderInv'
  BY DEF IInv, HeaderInv
<1> QED
  BY <1>6, <1>8, <1>9, <1>10 DEF IInv

(* A step of c that leaves what its attempts did alone, and ends nothing.   *)
LEMMA MoveKeeps ==
  ASSUME IInv, NEW c \in Clients, pc[c] \in Running, NEW p \in Running \ {"backoff"},
         pc' = [pc EXCEPT ![c] = p],
         token' \in [Clients -> Nat], headers' \in [Clients -> Nat],
         \A d \in Clients : opt[d].retry => headers'[d] = headers[d],
         UNCHANGED <<opt, live, outcomes, result>>
  PROVE  IInv'
<1>1. Types'
  BY DEF IInv, Types, Running
<1>2. RunningInv'
  BY DEF IInv, Types, RunningInv, Running, Retryable
<1>3. EndedInv' /\ HeaderInv'
  BY DEF IInv, EndedInv, HeaderInv, Retryable
<1> QED
  BY <1>1, <1>2, <1>3 DEF IInv

LEMMA NothingChanges ==
  ASSUME IInv, UNCHANGED <<opt, pc, headers, token, outcomes, result>>, live' \in Nat
  PROVE  IInv'
<1>1. Types'
  BY DEF IInv, Types
<1>2. RunningInv' /\ EndedInv' /\ HeaderInv'
  BY DEF IInv, RunningInv, EndedInv, HeaderInv, Retryable
<1> QED
  BY <1>1, <1>2 DEF IInv

LEMMA TypeFacts ==
  ASSUME IInv, NEW c \in Clients
  PROVE  headers[c] \in Nat /\ token[c] \in Nat /\ live \in Nat /\ none \in Nat
  BY DEF IInv, Types, none

-----------------------------------------------------------------------------
LEMMA BeginKeeps ==
  ASSUME IInv, NEW c \in Clients, Begin(c)
  PROVE  IInv'
<1> USE BoundAssumption
<1>1. /\ pc' = [pc EXCEPT ![c] = "prepare"]
      /\ outcomes' = [outcomes EXCEPT ![c] = <<>>]
      /\ result' = [result EXCEPT ![c] = "none"]
      /\ UNCHANGED <<opt, headers, token, live>>
  BY DEF Begin, Start, try
<1>2. Types'
  BY <1>1 DEF IInv, Types, Stages, Results
<1>3. outcomes'[c] = <<>> /\ Len(outcomes'[c]) = 0 /\ pc'[c] = "prepare" /\ result'[c] = "none"
  BY <1>1 DEF IInv, Types
<1>4. \A d \in Clients \ {c} : outcomes'[d] = outcomes[d] /\ pc'[d] = pc[d] /\ result'[d] = result[d]
  BY <1>1 DEF IInv, Types
<1>5. RunningInv'
  <2> SUFFICES ASSUME NEW d \in Clients, pc'[d] \in Running
               PROVE  /\ result'[d] = "none"
                      /\ Len(outcomes'[d]) <= MaxRetries
                      /\ \A i \in 1 .. Len(outcomes'[d]) :
                           opt[d].retry /\ Retryable(opt[d], outcomes'[d][i])
                      /\ pc'[d] = "backoff" => outcomes'[d] # <<>>
    BY <1>1 DEF RunningInv, Retryable
  <2>1. CASE d # c
    BY <2>1, <1>4 DEF IInv, RunningInv
  <2>2. CASE d = c
    BY <2>2, <1>3
  <2> QED
    BY <2>1, <2>2
<1>6. EndedInv'
  <2> SUFFICES ASSUME NEW d \in Clients
               PROVE  /\ Len(outcomes'[d]) <= MaxRetries + 1
                      /\ \A i \in 1 .. Len(outcomes'[d]) - 1 :
                           opt[d].retry /\ Retryable(opt[d], outcomes'[d][i])
                      /\ result'[d] = "value" =>
                           /\ outcomes'[d] # <<>>
                           /\ outcomes'[d][Len(outcomes'[d])] \in Values
                           /\ opt[d].retry /\ Retryable(opt[d], outcomes'[d][Len(outcomes'[d])])
                                => Len(outcomes'[d]) = MaxRetries + 1
    BY <1>1 DEF EndedInv, Retryable
  <2>1. CASE d # c
    BY <2>1, <1>4 DEF IInv, EndedInv
  <2>2. CASE d = c
    BY <2>2, <1>3
  <2> QED
    BY <2>1, <2>2
<1>7. HeaderInv'
  BY <1>1 DEF IInv, HeaderInv
<1> QED
  BY <1>2, <1>5, <1>6, <1>7 DEF IInv

LEMMA InterruptKeeps ==
  ASSUME IInv, NEW c \in Clients, Interrupt(c)
  PROVE  IInv'
<1> USE BoundAssumption
<1>1. /\ pc[c] = "backoff"
      /\ pc' = [pc EXCEPT ![c] = "returned"]
      /\ \E r \in {"both", "error"} : result' = [result EXCEPT ![c] = r]
      /\ UNCHANGED <<opt, headers, token, live, outcomes>>
  BY DEF Interrupt, Return, param, try
<1>2. Types'
  BY <1>1 DEF IInv, Types, Stages, Results
<1>3. RunningInv'
  BY <1>1 DEF IInv, Types, RunningInv, Running, Retryable
<1>4. EndedInv' /\ HeaderInv'
  BY <1>1 DEF IInv, Types, EndedInv, HeaderInv, Retryable
<1> QED
  BY <1>2, <1>3, <1>4 DEF IInv

(* One step for each action.                                                *)
LEMMA IInvStep == IInv /\ [Next]_vars => IInv'
<1> SUFFICES ASSUME IInv, [Next]_vars PROVE IInv'
  OBVIOUS
<1> USE DEF param, try, hist
<1>1. CASE Expire
  <2>1. live' \in Nat /\ UNCHANGED <<opt, pc, headers, token, outcomes, result>>
    BY <1>1 DEF Expire, IInv, Types
  <2> QED
    BY <2>1, NothingChanges
<1>2. ASSUME NEW c \in Clients, Begin(c) PROVE IInv'
  BY <1>2, BeginKeeps
<1>3. ASSUME NEW c \in Clients, Prepare(c) PROVE IInv'
  <2>1. /\ pc[c] = "prepare" /\ pc' = [pc EXCEPT ![c] = "authorize"]
        /\ UNCHANGED <<opt, headers, token, live, outcomes, result>>
    BY <1>3 DEF Prepare
  <2> QED
    BY <2>1, MoveKeeps DEF IInv, Types, Running, Stages
<1>4. ASSUME NEW c \in Clients, Authorize(c) PROVE IInv'
  <2>1. /\ pc[c] = "authorize" /\ pc' = [pc EXCEPT ![c] = "send"]
        /\ SetHeader(c, opt[c].retry \/ ~opt[c].map)
        /\ UNCHANGED <<opt, live, outcomes, result>>
    BY <1>4 DEF Authorize
  <2>2. token' \in [Clients -> Nat] /\ headers' \in [Clients -> Nat]
    BY <2>1, TypeFacts DEF SetHeader, IInv, Types
  <2>3. \A d \in Clients : opt[d].retry => headers'[d] = headers[d]
    BY <2>1 DEF SetHeader, IInv, Types
  <2> QED
    BY <2>1, <2>2, <2>3, MoveKeeps DEF Running, Stages
<1>5. ASSUME NEW c \in Clients, FailToPrepare(c) PROVE IInv'
  <2>1. pc[c] \in Running /\ "failed" \in Outcomes /\ UNCHANGED <<opt, headers, live>>
    BY <1>5 DEF FailToPrepare, Running, Stages, Outcomes
  <2> QED
    BY <1>5, <2>1, FinishKeeps DEF FailToPrepare
<1>6. ASSUME NEW c \in Clients, Send(c) PROVE IInv'
  <2>1. pc[c] \in Running /\ UNCHANGED <<opt, headers, live>>
    BY <1>6 DEF Send, Running, Stages
  <2>2. CASE ctx[c] = "alive"
    <3>1. pc' = [pc EXCEPT ![c] = "waiting"] /\ UNCHANGED <<token, outcomes, result>>
      BY <1>6, <2>2 DEF Send
    <3> QED
      BY <2>1, <3>1, MoveKeeps DEF IInv, Types, Running, Stages
  <2>3. CASE ctx[c] # "alive"
    <3>1. Cut(c) \in Outcomes /\ Finish(c, Cut(c))
      BY <1>6, <2>3 DEF Send, Cut, Outcomes
    <3> QED
      BY <2>1, <3>1, FinishKeeps
  <2> QED
    BY <2>2, <2>3
<1>7. ASSUME NEW c \in Clients, Wake(c) PROVE IInv'
  <2>1. /\ pc[c] = "backoff" /\ pc' = [pc EXCEPT ![c] = "prepare"]
        /\ UNCHANGED <<opt, headers, token, live, outcomes, result>>
    BY <1>7 DEF Wake
  <2> QED
    BY <2>1, MoveKeeps DEF IInv, Types, Running, Stages
<1>8. ASSUME NEW c \in Clients, Interrupt(c) PROVE IInv'
  BY <1>8, InterruptKeeps
<1>9. ASSUME NEW c \in Clients, ContextEnds(c) PROVE IInv'
  <2>1. live' \in Nat /\ UNCHANGED <<opt, pc, headers, token, outcomes, result>>
    BY <1>9 DEF ContextEnds, IInv, Types
  <2> QED
    BY <2>1, NothingChanges
<1>10. ASSUME NEW c \in Clients, Respond(c) \/ TimeOut(c) \/ Abort(c) PROVE IInv'
  <2>1. PICK o \in Outcomes : Ends(c, o)
    BY <1>10, VerdictTypes DEF Respond, TimeOut, Abort, Cut, Outcomes, Values, IInv, Types
  <2>2. pc[c] \in Running /\ Finish(c, o) /\ UNCHANGED <<opt, headers, live>>
    BY <2>1 DEF Ends, Running, Stages
  <2> QED
    BY <2>2, FinishKeeps
<1>11. CASE UNCHANGED vars
  <2>1. live' \in Nat /\ UNCHANGED <<opt, pc, headers, token, outcomes, result>>
    BY <1>11 DEF vars, IInv, Types
  <2> QED
    BY <2>1, NothingChanges
<1>12. ASSUME NEW c \in Clients, Proceed(c) PROVE IInv'
  BY <1>3, <1>4, <1>5, <1>6, <1>7, <1>8, <1>12 DEF Proceed
<1> QED
  BY <1>1, <1>2, <1>9, <1>10, <1>11, <1>12 DEF Next

-----------------------------------------------------------------------------
(* A request is repeated only when the attempt before ended in a way that   *)
(* the policy lists (shouldRetryError, shouldRetryResponse), whatever the   *)
(* number of clients and retries and the policies.                          *)
THEOREM NothingRepeatedUnasked == Spec => []RepeatedWithConsent
<1>1. IInv => RepeatedWithConsent
  BY DEF IInv, EndedInv, RepeatedWithConsent
<1> QED
  BY <1>1, IInvInit, IInvStep, PTL DEF Spec

(* A value without an error is the last attempt's, and no response that the *)
(* policy would have retried while an attempt was left.                     *)
THEOREM FinalValues == Spec => []ValueIsFinal
<1>1. IInv => ValueIsFinal
  BY DEF IInv, EndedInv, ValueIsFinal
<1> QED
  BY <1>1, IInvInit, IInvStep, PTL DEF Spec

(* The end of an attempt makes no value of anything but a value.            *)
LEMMA FinishValue ==
  ASSUME IInv, NEW c \in Clients, NEW o \in Outcomes, pc[c] \in Running, Finish(c, o)
  PROVE  /\ \A d \in Clients \ {c} : result'[d] = result[d]
         /\ result'[c] = "value" => o \in Values
<1>1. \/ result' = result
      \/ result' = [result EXCEPT ![c] = IF o \in Values THEN "value" ELSE "error"]
  BY DEF Finish, Return
<1>2. result[c] = "none"
  BY DEF IInv, RunningInv
<1> QED
  BY <1>1, <1>2 DEF IInv, Types

(* A value of an entry point that looks at the status is that of a success. *)
LEMMA VerdictSuccess ==
  ASSUME NEW s \in SetupType, NEW r \in Replies, s.entry \notin {"basic", "soap"},
         NEW o \in Verdicts(s, r), o \in Values
  PROVE  Success(r)
<1>1. Verdict(s, r) \in Values => Success(r)
  BY DEF SetupType, Entries, Replies, Verdict, GetJSONResp, AttemptBuilder, StatusPreservingBuilder,
         DefaultBuilderfunc, CallAPIInternal, GetResp, TransmitRequestWithAuth, ConsumeRestAPI,
         ParseRemoteRespJSON, Success, Decoded, StatusError, Values
<1> QED
  BY <1>1 DEF Verdicts, Values

LEMMA SuccessStep == IInv /\ ValueIsSuccess /\ [Next]_vars => ValueIsSuccess'
<1> SUFFICES ASSUME IInv, ValueIsSuccess, [Next]_vars PROVE ValueIsSuccess'
  OBVIOUS
<1> USE DEF param, try, hist
<1>1. ASSUME UNCHANGED <<opt, accepted, result>> PROVE ValueIsSuccess'
  BY <1>1 DEF ValueIsSuccess
<1>2. ASSUME NEW c \in Clients, NEW o \in Outcomes \ Values, pc[c] \in Running, Finish(c, o),
             accepted' = accepted \ {c}, opt' = opt
      PROVE  ValueIsSuccess'
  BY <1>2, FinishValue DEF ValueIsSuccess
<1>3. ASSUME NEW c \in Clients, Respond(c) PROVE ValueIsSuccess'
  <2>0. PICK r \in Replies : \E o \in Verdicts(opt[c], r) :
          Ends(c, o) /\ accepted' = IF Success(r) THEN accepted \cup {c} ELSE accepted \ {c}
    BY <1>3 DEF Respond
  <2>1. PICK o \in Verdicts(opt[c], r) :
          Ends(c, o) /\ accepted' = IF Success(r) THEN accepted \cup {c} ELSE accepted \ {c}
    BY <2>0
  <2>2. opt[c] \in SetupType /\ o \in Outcomes /\ pc[c] \in Running /\ Finish(c, o) /\ opt' = opt
    BY <2>1, VerdictTypes DEF Ends, IInv, Types, Running, Stages
  <2>3. result'[c] = "value" /\ opt[c].entry \notin {"basic", "soap"} => Success(r)
    BY <2>2, FinishValue, VerdictSuccess
  <2> QED
    BY <2>1, <2>2, <2>3, FinishValue DEF ValueIsSuccess
<1>4. ASSUME NEW c \in Clients, TimeOut(c) \/ Abort(c) PROVE ValueIsSuccess'
  <2>1. PICK o \in Outcomes \ Values : Ends(c, o)
    BY <1>4 DEF TimeOut, Abort, Cut, Outcomes, Values
  <2>2. pc[c] \in Running /\ Finish(c, o) /\ opt' = opt /\ accepted' = accepted \ {c}
    BY <2>1, <1>4 DEF Ends, TimeOut, Abort, Running, Stages
  <2> QED
    BY <2>2, <1>2
<1>5. ASSUME NEW c \in Clients, FailToPrepare(c) PROVE ValueIsSuccess'
  <2>1. /\ "failed" \in Outcomes \ Values /\ pc[c] \in Running
        /\ Finish(c, "failed") /\ opt' = opt /\ accepted' = accepted \ {c}
    BY <1>5 DEF FailToPrepare, Running, Stages, Outcomes, Values
  <2> QED
    BY <2>1, <1>2
<1>6. ASSUME NEW c \in Clients, Send(c) PROVE ValueIsSuccess'
  <2>1. CASE ctx[c] = "alive"
    BY <1>6, <2>1, <1>1 DEF Send
  <2>2. CASE ctx[c] # "alive"
    <3>1. /\ Cut(c) \in Outcomes \ Values /\ pc[c] \in Running
          /\ Finish(c, Cut(c)) /\ opt' = opt /\ accepted' = accepted \ {c}
      BY <1>6, <2>2 DEF Send, Cut, Running, Stages, Outcomes, Values
    <3> QED
      BY <3>1, <1>2
  <2> QED
    BY <2>1, <2>2
<1>7. ASSUME NEW c \in Clients, Begin(c) PROVE ValueIsSuccess'
  <2>1. opt' = opt /\ accepted' = accepted \ {c} /\ result' = [result EXCEPT ![c] = "none"]
    BY <1>7 DEF Begin, Start
  <2> QED
    BY <2>1 DEF ValueIsSuccess, IInv, Types
<1>8. ASSUME NEW c \in Clients, Interrupt(c) PROVE ValueIsSuccess'
  <2>1. opt' = opt /\ accepted' = accepted /\ \E r \in {"both", "error"} : result' = [result EXCEPT ![c] = r]
    BY <1>8 DEF Interrupt, Return
  <2> QED
    BY <2>1 DEF ValueIsSuccess, IInv, Types
<1>9. ASSUME NEW c \in Clients, Prepare(c) \/ Authorize(c) \/ Wake(c) \/ ContextEnds(c)
      PROVE  ValueIsSuccess'
  BY <1>9, <1>1 DEF Prepare, Authorize, Wake, ContextEnds
<1>10. Expire \/ UNCHANGED vars => ValueIsSuccess'
  BY <1>1 DEF Expire, vars
<1> QED
  BY <1>3, <1>4, <1>5, <1>6, <1>7, <1>8, <1>9, <1>10 DEF Next, Proceed

(* No entry point that looks at the status returns a failure as a value,    *)
(* whatever the settings and the number of clients and attempts.            *)
THEOREM SuccessfulValues == Spec => []ValueIsSuccess
<1>1. Init => ValueIsSuccess
  BY DEF Init, ValueIsSuccess
<1> QED
  BY <1>1, IInvInit, IInvStep, SuccessStep, PTL DEF Spec

(* With a policy, every attempt sends the token the API has by then: no     *)
(* attempt leaves its own in the caller's headers (CallAPIJSONWithOpts      *)
(* clones them), so EnsureAuthorization finds none.                         *)
THEOREM RetriesRefreshToken == Spec => RetryRefreshesToken
<1> DEFINE Fresh ==
      \A c \in Clients :
        opt[c].retry /\ pc[c] = "authorize" /\ pc'[c] = "send" => token'[c] = live
<1>1. ASSUME IInv, Next PROVE Fresh
  <2> SUFFICES ASSUME NEW c \in Clients, opt[c].retry, pc[c] = "authorize", pc'[c] = "send"
               PROVE  token'[c] = live
    OBVIOUS
  <2>1. headers[c] = none /\ opt[c].entry # "soap"
    BY <1>1 DEF IInv, HeaderInv
  <2>2. ASSUME Authorize(c) PROVE token'[c] = live
    BY <1>1, <2>1, <2>2 DEF Authorize, SetHeader, IInv, Types
  <2>3. ASSUME NEW d \in Clients, NEW p, pc' = [pc EXCEPT ![d] = p], d # c \/ p # "send"
        PROVE  FALSE
    BY <1>1, <2>3 DEF IInv, Types
  <2>4. ASSUME NEW d \in Clients, d # c, Authorize(d) PROVE FALSE
    BY <2>3, <2>4 DEF Authorize
  <2>5. ASSUME NEW d \in Clients, NEW o, Finish(d, o) PROVE FALSE
    BY <2>3, <2>5 DEF Finish, Return
  <2>6. ASSUME NEW d \in Clients, Send(d) PROVE FALSE
    <3>1. CASE ctx[d] = "alive"
      BY <2>3, <2>6, <3>1 DEF Send
    <3>2. CASE ctx[d] # "alive"
      BY <2>5, <2>6, <3>2 DEF Send
    <3> QED
      BY <3>1, <3>2
  <2>7. ASSUME NEW d \in Clients,
               Begin(d) \/ Prepare(d) \/ Wake(d) \/ Interrupt(d) PROVE FALSE
    BY <2>3, <2>7 DEF Begin, Start, Prepare, Wake, Interrupt, Return
  <2>8. ASSUME NEW d \in Clients,
               FailToPrepare(d) \/ Respond(d) \/ TimeOut(d) \/ Abort(d) PROVE FALSE
    BY <2>5, <2>8 DEF FailToPrepare, Respond, TimeOut, Abort, Ends
  <2>9. Expire => FALSE
    BY DEF Expire
  <2>10. ASSUME NEW d \in Clients, ContextEnds(d) PROVE FALSE
    BY <2>10 DEF ContextEnds
  <2> QED
    BY <1>1, <2>2, <2>4, <2>6, <2>7, <2>8, <2>9, <2>10 DEF Next, Proceed
<1>2. IInv /\ [Next]_vars => [Fresh]_vars
  BY <1>1
<1> QED
  BY <1>2, IInvInit, IInvStep, PTL DEF Spec, RetryRefreshesToken

-----------------------------------------------------------------------------
(* What a call sends is its own.                                            *)

First == IF Queries = 0 THEN none ELSE 1

(* The queries a caller of RemoteCall or Call has taken from the stack.     *)
Taken(c) ==
  LET n == IF pc[c] = "prepare" THEN calls[c] - 1 ELSE calls[c]
  IN  IF n < Queries THEN n ELSE Queries

OwnTypes ==
  /\ calls \in [Clients -> Nat]
  /\ ask \in [Clients -> Asks \cup {unset}]
  /\ query \in [Clients -> Nat]
  /\ stack \in [Clients -> Seq(Nat)]
  /\ limit \in [{"package", "supplied"} -> Nat]
  /\ deadline \in [Clients -> Nat]
  /\ sent \in [Clients -> SUBSET Nat]

(* Where the queries are, by the way the caller takes them.                 *)
QueryInv(c) ==
  /\ pc[c] = "idle" \/ calls[c] > 0
  /\ pc[c] = "idle" => sent[c] = {}
  /\ opt[c].entry \in {"json", "call"} =>
       /\ pc[c] = "prepare" => sent[c] = {}
       /\ query[c] = Taken(c)
       /\ Len(stack[c]) = Queries - Taken(c)
       /\ \A i \in 1 .. Len(stack[c]) : stack[c][i] = Taken(c) + i
       /\ sent[c] \subseteq {Taken(c)}
  /\ opt[c].entry = "opts" =>
       /\ calls[c] = 0 => /\ Len(stack[c]) = Queries /\ query[c] = none
                          /\ \A i \in 1 .. Queries : stack[c][i] = i
       /\ calls[c] > 0 => stack[c] = <<>> /\ query[c] = First
       /\ sent[c] \subseteq {First}
  /\ opt[c].entry \notin Prepared => query[c] = none /\ sent[c] \subseteq {none}

Asked(c) == IF ask[c] = unset THEN DefaultTimeOut ELSE ask[c]
Limited(c) ==
  /\ Alone(c) /\ opt[c].entry \in Prepared
  /\ opt[c].client = "package" \/ ask[c] \notin {unset, DefaultTimeOut}

(* From PrepareCall to http.Client.Do the client keeps the call's timeout.  *)
LimitInv(c) ==
  /\ pc[c] \in {"authorize", "send"} /\ Limited(c) => limit[opt[c].client] = Asked(c)
  /\ pc[c] = "waiting" /\ Limited(c) => deadline[c] = Asked(c)

OwnInv == OwnTypes /\ \A c \in Clients : QueryInv(c) /\ LimitInv(c)

(* A call of another client leaves what this one has; it may set the        *)
(* timeout of the HTTP client it uses.                                      *)
LEMMA OthersKeepOwn ==
  ASSUME IInv, NEW c \in Clients, NEW d \in Clients \ {c}, OwnTypes, QueryInv(d), LimitInv(d), opt' = opt,
         pc'[d] = pc[d], calls'[d] = calls[d], ask'[d] = ask[d], query'[d] = query[d],
         stack'[d] = stack[d], sent'[d] = sent[d], deadline'[d] = deadline[d],
         limit' = limit \/ \E v : limit' = [limit EXCEPT ![opt[c].client] = v]
  PROVE  QueryInv(d)' /\ LimitInv(d)'
<1>1. Taken(d)' = Taken(d) /\ Asked(d)' = Asked(d) /\ (Limited(d)' <=> Limited(d))
  BY DEF Taken, Asked, Limited, Alone
<1>2. Limited(d) => limit'[opt[d].client] = limit[opt[d].client]
  <2>1. opt[d].client \in {"package", "supplied"}
    BY DEF IInv, Types, SetupType
  <2>2. Limited(d) => opt[c].client # opt[d].client
    BY DEF Limited, Alone
  <2> QED
    BY <2>1, <2>2 DEF OwnTypes
<1>3. QueryInv(d)'
  BY <1>1 DEF QueryInv
<1>4. LimitInv(d)'
  BY <1>1, <1>2 DEF LimitInv
<1> QED
  BY <1>3, <1>4

(* The call after PrepareCall: it sends its query, and nothing else of it   *)
(* changes.                                                                 *)
LEMMA LaterKeepsOwn ==
  ASSUME IInv, OwnInv, OwnTypes', NEW c \in Clients, NEW to \in Stages \ {"idle", "authorize"},
         pc[c] \in Running \ {"prepare"}, pc' = [pc EXCEPT ![c] = to],
         UNCHANGED <<opt, calls, query, stack, limit>>,
         sent' \in {sent, [sent EXCEPT ![c] = sent[c] \cup {query[c]}]},
         \A d \in Clients \ {c} : ask'[d] = ask[d] /\ deadline'[d] = deadline[d],
         to = "prepare" => opt[c].entry = "opts",
         to = "send" => pc[c] = "authorize" /\ ask'[c] = ask[c],
         to = "waiting" => /\ pc[c] = "send" /\ ask'[c] = ask[c]
                           /\ deadline'[c] = limit[opt[c].client]
  PROVE  OwnInv'
<1>1. pc'[c] = to /\ \A d \in Clients \ {c} : pc'[d] = pc[d]
  BY DEF IInv, Types
<1>2. sent'[c] \in {sent[c], sent[c] \cup {query[c]}} /\ \A d \in Clients \ {c} : sent'[d] = sent[d]
  BY DEF OwnInv, OwnTypes
<1>3. ASSUME NEW d \in Clients \ {c} PROVE QueryInv(d)' /\ LimitInv(d)'
  BY <1>1, <1>2, OthersKeepOwn DEF OwnInv
<1>4. QueryInv(c)'
  <2>1. QueryInv(c) /\ pc[c] \notin {"idle", "prepare"}
    BY DEF OwnInv, Running
  <2>2. opt[c].entry \in {"json", "call"} => Taken(c)' = Taken(c) /\ pc'[c] # "prepare"
    BY <1>1, <2>1 DEF Taken
  <2>3. CASE opt[c].entry \in {"json", "call"}
    BY <1>1, <1>2, <2>1, <2>2, <2>3 DEF QueryInv, Prepared
  <2>4. CASE opt[c].entry = "opts"
    BY <1>1, <1>2, <2>1, <2>4 DEF QueryInv, Prepared, OwnInv, OwnTypes
  <2>5. CASE opt[c].entry \notin Prepared
    BY <1>1, <1>2, <2>1, <2>5 DEF QueryInv, Prepared
  <2> QED
    BY <2>3, <2>4, <2>5 DEF Prepared
<1>5. LimitInv(c)'
  <2>1. LimitInv(c) /\ (ask'[c] = ask[c] => Asked(c)' = Asked(c) /\ (Limited(c)' <=> Limited(c)))
    BY DEF OwnInv, Asked, Limited, Alone
  <2> QED
    BY <1>1, <2>1 DEF LimitInv
<1> QED
  BY <1>3, <1>4, <1>5 DEF OwnInv

LEMMA PrepareKeepsOwn ==
  ASSUME IInv, OwnInv, NEW c \in Clients, Prepare(c)
  PROVE  OwnInv'
<1> USE TimeoutAssumption, BoundAssumption
<1>1. /\ pc[c] = "prepare" /\ pc'[c] = "authorize" /\ \A d \in Clients \ {c} : pc'[d] = pc[d]
      /\ UNCHANGED <<opt, calls, ask, deadline, sent>>
  BY DEF Prepare, IInv, Types, try, hist
<1>2. /\ query' \in [Clients -> Nat] /\ stack' \in [Clients -> Seq(Nat)]
      /\ \A d \in Clients \ {c} : query'[d] = query[d] /\ stack'[d] = stack[d]
      /\ IF opt[c].entry \in Prepared /\ stack[c] # <<>>
           THEN query'[c] = Head(stack[c]) /\ stack'[c] = Tail(stack[c])
           ELSE query'[c] = query[c] /\ stack'[c] = stack[c]
  <2>1. query \in [Clients -> Nat] /\ stack \in [Clients -> Seq(Nat)] /\ TakeQuery(c)
    BY DEF Prepare, OwnInv, OwnTypes
  <2>2. CASE opt[c].entry \in Prepared /\ stack[c] # <<>>
    <3>1. Head(stack[c]) \in Nat /\ Tail(stack[c]) \in Seq(Nat)
      BY <2>1, <2>2
    <3>2. /\ query' = [query EXCEPT ![c] = Head(stack[c])]
          /\ stack' = [stack EXCEPT ![c] = Tail(stack[c])]
      BY <2>1, <2>2 DEF TakeQuery
    <3> QED
      BY <2>1, <2>2, <3>1, <3>2
  <2>3. CASE ~(opt[c].entry \in Prepared /\ stack[c] # <<>>)
    BY <2>1, <2>3 DEF TakeQuery
  <2> QED
    BY <2>2, <2>3
<1>3. /\ opt[c].client \in {"package", "supplied"} /\ opt[c] \in SetupType
      /\ limit' = [limit EXCEPT ![opt[c].client] = Limit(c)]
  BY DEF Prepare, IInv, Types, SetupType
<1>4. /\ Limit(c) \in Nat
      /\ Limited(c) => Limit(c) = Asked(c)
  <2>1. /\ ask[c] \in Nat \cup {unset} /\ limit.package \in Nat /\ limit.supplied \in Nat
        /\ Asked(c) \in Nat
    BY DEF OwnInv, OwnTypes, Asked
  <2>2. Limit(c) \in {BasicLimit(c), limit.supplied, Asked(c)} /\ BasicLimit(c) \in {limit.package, ask[c]}
        /\ (BasicLimit(c) = ask[c] => ask[c] # unset \/ limit.package = ask[c])
    BY DEF Limit, BasicLimit, Asked
  <2>3. BasicLimit(c) \in Nat
    BY <2>1 DEF BasicLimit
  <2>4. Limited(c) => Limit(c) = Asked(c)
    BY <1>3 DEF Limited, Limit, Asked, SetupType
  <2> QED
    BY <2>1, <2>2, <2>3, <2>4
<1>5. OwnTypes'
  BY <1>1, <1>2, <1>3, <1>4 DEF OwnInv, OwnTypes
<1>6. ASSUME NEW d \in Clients \ {c} PROVE QueryInv(d)' /\ LimitInv(d)'
  BY <1>1, <1>2, <1>3, OthersKeepOwn DEF OwnInv
<1>7. QueryInv(c)'
  <2>1. QueryInv(c) /\ calls[c] \in Nat \ {0} /\ stack[c] \in Seq(Nat)
    BY <1>1 DEF OwnInv, OwnTypes, QueryInv
  <2>2. CASE opt[c].entry \in {"json", "call"}
    <3>1. /\ Taken(c) = (IF calls[c] - 1 < Queries THEN calls[c] - 1 ELSE Queries)
          /\ Taken(c)' = (IF calls[c] < Queries THEN calls[c] ELSE Queries)
      BY <1>1 DEF Taken
    <3>2. /\ query[c] = Taken(c) /\ Len(stack[c]) = Queries - Taken(c) /\ sent[c] = {}
          /\ \A i \in 1 .. Len(stack[c]) : stack[c][i] = Taken(c) + i
      BY <1>1, <2>1, <2>2 DEF QueryInv
    <3>3. CASE stack[c] = <<>>
      <4>1. Len(stack[c]) = 0
        BY <3>3
      <4>2. Taken(c)' = Taken(c) /\ Taken(c) = Queries
        BY <2>1, <3>1, <3>2, <4>1
      <4>3. query'[c] = query[c] /\ stack'[c] = stack[c]
        BY <1>2, <3>3
      <4> QED
        BY <1>1, <2>1, <2>2, <3>2, <4>2, <4>3 DEF QueryInv, Prepared
    <3>4. CASE stack[c] # <<>>
      <4>1. Len(stack[c]) \in Nat \ {0}
        BY <2>1, <3>4
      <4>2. Taken(c)' = Taken(c) + 1 /\ Taken(c) \in Nat
        <5>1. calls[c] - 1 < Queries
          BY <2>1, <3>1, <3>2, <4>1
        <5>2. Taken(c) = calls[c] - 1
          BY <3>1, <5>1
        <5>3. Taken(c)' = calls[c]
          BY <2>1, <3>1, <5>1
        <5> QED
          BY <2>1, <5>2, <5>3
      <4>3. query'[c] = stack[c][1] /\ stack'[c] = Tail(stack[c])
        BY <1>2, <2>2, <3>4 DEF Prepared
      <4>4. /\ Len(stack'[c]) = Len(stack[c]) - 1
            /\ \A i \in 1 .. Len(stack'[c]) : stack'[c][i] = stack[c][i + 1]
        BY <2>1, <3>4, <4>1, <4>3
      <4>5. query'[c] = Taken(c)' /\ Len(stack'[c]) = Queries - Taken(c)'
        BY <3>2, <4>1, <4>2, <4>3, <4>4
      <4>6. \A i \in 1 .. Len(stack'[c]) : stack'[c][i] = Taken(c)' + i
        <5> TAKE i \in 1 .. Len(stack'[c])
        <5>1. i + 1 \in 1 .. Len(stack[c]) /\ i \in Nat
          BY <4>1, <4>4
        <5>2. stack'[c][i] = Taken(c) + (i + 1)
          BY <3>2, <4>4, <5>1
        <5> QED
          BY <4>2, <5>1, <5>2
      <4> QED
        BY <1>1, <2>1, <2>2, <3>2, <4>5, <4>6 DEF QueryInv, Prepared
    <3> QED
      BY <3>3, <3>4
  <2>3. CASE opt[c].entry = "opts"
    <3>1. stack[c] = <<>>
      BY <1>1, <2>1, <2>3 DEF QueryInv
    <3>2. query'[c] = query[c] /\ stack'[c] = stack[c]
      BY <1>2, <3>1
    <3> QED
      BY <1>1, <2>1, <2>3, <3>2 DEF QueryInv, Prepared
  <2>4. CASE opt[c].entry \notin Prepared
    BY <1>1, <1>2, <2>1, <2>4 DEF QueryInv, Prepared
  <2> QED
    BY <2>2, <2>3, <2>4 DEF Prepared
<1>8. LimitInv(c)'
  <2>1. Asked(c)' = Asked(c) /\ (Limited(c)' <=> Limited(c))
    BY <1>1 DEF Asked, Limited, Alone
  <2>2. limit'[opt[c].client] = Limit(c)
    BY <1>3 DEF OwnInv, OwnTypes
  <2> QED
    BY <1>1, <1>4, <2>1, <2>2 DEF LimitInv
<1> QED
  BY <1>5, <1>6, <1>7, <1>8 DEF OwnInv

LEMMA BeginKeepsOwn ==
  ASSUME IInv, OwnInv, NEW c \in Clients, Begin(c)
  PROVE  OwnInv'
<1> USE TimeoutAssumption, BoundAssumption
<1>1. /\ pc[c] \in {"idle", "returned"} /\ pc'[c] = "prepare"
      /\ \A d \in Clients \ {c} : pc'[d] = pc[d]
      /\ UNCHANGED <<opt, limit, deadline>>
  BY DEF Begin, Start, IInv, Types, try
<1>2. /\ calls' = [calls EXCEPT ![c] = @ + 1] /\ sent' = [sent EXCEPT ![c] = {}]
      /\ \E t \in Asks : ask' = [ask EXCEPT ![c] = t]
  BY DEF Begin, Start
<1>3. calls'[c] = calls[c] + 1 /\ calls[c] \in Nat /\ sent'[c] = {}
  BY <1>2 DEF OwnInv, OwnTypes
<1>4. /\ query' \in [Clients -> Nat] /\ stack' \in [Clients -> Seq(Nat)]
      /\ \A d \in Clients \ {c} : query'[d] = query[d] /\ stack'[d] = stack[d]
      /\ IF opt[c].entry = "opts" /\ stack[c] # <<>>
           THEN query'[c] = Head(stack[c]) /\ stack'[c] = <<>>
           ELSE query'[c] = query[c] /\ stack'[c] = stack[c]
  <2>1. query \in [Clients -> Nat] /\ stack \in [Clients -> Seq(Nat)]
    BY DEF OwnInv, OwnTypes
  <2>2. CASE opt[c].entry = "opts" /\ stack[c] # <<>>
    <3>1. Head(stack[c]) \in Nat /\ <<>> \in Seq(Nat)
      BY <2>1, <2>2
    <3>2. /\ query' = [query EXCEPT ![c] = Head(stack[c])]
          /\ stack' = [stack EXCEPT ![c] = <<>>]
      BY <2>2 DEF Begin
    <3> QED
      BY <2>1, <2>2, <3>1, <3>2
  <2>3. CASE ~(opt[c].entry = "opts" /\ stack[c] # <<>>)
    BY <2>1, <2>3 DEF Begin
  <2> QED
    BY <2>2, <2>3
<1>5. OwnTypes'
  <2>1. calls' \in [Clients -> Nat] /\ sent' \in [Clients -> SUBSET Nat]
    BY <1>2, <1>3 DEF OwnInv, OwnTypes
  <2>2. ask' \in [Clients -> Asks \cup {unset}]
    BY <1>2 DEF OwnInv, OwnTypes
  <2> QED
    BY <1>1, <1>4, <2>1, <2>2 DEF OwnInv, OwnTypes
<1>6. ASSUME NEW d \in Clients \ {c} PROVE QueryInv(d)' /\ LimitInv(d)'
  <2>1. calls'[d] = calls[d] /\ sent'[d] = sent[d] /\ ask'[d] = ask[d]
    BY <1>2 DEF OwnInv, OwnTypes
  <2> QED
    BY <1>1, <1>4, <2>1, OthersKeepOwn DEF OwnInv
<1>7. QueryInv(c)'
  <2>1. QueryInv(c) /\ stack[c] \in Seq(Nat)
    BY DEF OwnInv, OwnTypes
  <2>2. CASE opt[c].entry \in {"json", "call"}
    <3>1. Taken(c)' = Taken(c)
      BY <1>1, <1>3 DEF Taken
    <3>2. query'[c] = query[c] /\ stack'[c] = stack[c]
      BY <1>4, <2>2
    <3> QED
      BY <1>1, <1>3, <2>1, <2>2, <3>1, <3>2 DEF QueryInv, Prepared
  <2>3. CASE opt[c].entry = "opts"
    <3>1. stack'[c] = <<>> /\ query'[c] = First
      <4>1. CASE calls[c] > 0
        BY <1>4, <2>1, <2>3, <4>1 DEF QueryInv
      <4>2. CASE calls[c] = 0
        <5>1. /\ Len(stack[c]) = Queries /\ query[c] = none
              /\ \A i \in 1 .. Queries : stack[c][i] = i
          BY <2>1, <2>3, <4>2 DEF QueryInv
        <5>2. CASE stack[c] = <<>>
          BY <1>4, <5>1, <5>2 DEF First
        <5>3. CASE stack[c] # <<>>
          <6>1. Queries # 0 /\ 1 \in 1 .. Queries /\ Head(stack[c]) = stack[c][1]
            BY <2>1, <5>1, <5>3
          <6> QED
            BY <1>4, <2>3, <5>1, <5>3, <6>1 DEF First
        <5> QED
          BY <5>2, <5>3
      <4> QED
        BY <1>3, <4>1, <4>2
    <3> QED
      BY <1>1, <1>3, <2>3, <3>1 DEF QueryInv, Prepared, First
  <2>4. CASE opt[c].entry \notin Prepared
    BY <1>1, <1>3, <1>4, <2>1, <2>4 DEF QueryInv, Prepared
  <2> QED
    BY <2>2, <2>3, <2>4 DEF Prepared
<1>8. LimitInv(c)'
  BY <1>1 DEF LimitInv
<1> QED
  BY <1>5, <1>6, <1>7, <1>8 DEF OwnInv

(* The types, when an attempt ends with o.                                  *)
LEMMA FinishKeepsOwn ==
  ASSUME IInv, OwnInv, NEW c \in Clients, NEW o, Finish(c, o), pc[c] \in Running \ {"prepare"},
         UNCHANGED <<opt, calls, query, stack, limit, sent>>
  PROVE  OwnInv'
<1>1. deadline' = [deadline EXCEPT ![c] = 0] /\ (ask' = ask \/ ask' = [ask EXCEPT ![c] = unset])
  BY DEF Finish, Return
<1>2. OwnTypes'
  BY <1>1 DEF OwnInv, OwnTypes
<1>3. \A d \in Clients \ {c} : ask'[d] = ask[d] /\ deadline'[d] = deadline[d]
  BY <1>1 DEF OwnInv, OwnTypes
<1>4. PICK to \in {"prepare", "backoff", "returned"} :
        pc' = [pc EXCEPT ![c] = to] /\ (to = "prepare" => opt[c].entry = "opts")
  BY DEF Finish, Return, Again, IInv, HeaderInv
<1>5. to \in Stages \ {"idle", "authorize"} /\ to # "send" /\ to # "waiting"
  BY <1>4 DEF Stages
<1> QED
  BY <1>2, <1>3, <1>4, <1>5, LaterKeepsOwn

LEMMA NothingChangesOwn ==
  ASSUME OwnInv, UNCHANGED <<opt, pc, calls, ask, query, stack, limit, deadline, sent>>
  PROVE  OwnInv'
<1>1. OwnTypes'
  BY DEF OwnInv, OwnTypes
<1>2. ASSUME NEW c \in Clients PROVE QueryInv(c)' /\ LimitInv(c)'
  <2>1. /\ Taken(c)' = Taken(c) /\ Asked(c)' = Asked(c) /\ (Limited(c)' <=> Limited(c))
        /\ QueryInv(c) /\ LimitInv(c)
    BY DEF Taken, Asked, Limited, Alone, OwnInv
  <2> QED
    BY <2>1 DEF QueryInv, LimitInv
<1> QED
  BY <1>1, <1>2 DEF OwnInv

LEMMA OwnInit == Init => OwnInv
<1> SUFFICES ASSUME Init PROVE OwnInv
  OBVIOUS
<1> USE TimeoutAssumption, BoundAssumption DEF Init, none
<1>1. [q \in 1 .. Queries |-> q] \in Seq(Nat) /\ Len([q \in 1 .. Queries |-> q]) = Queries
  OBVIOUS
<1>2. OwnTypes
  BY <1>1 DEF OwnTypes
<1>3. ASSUME NEW c \in Clients PROVE QueryInv(c) /\ LimitInv(c)
  <2>1. /\ pc[c] = "idle" /\ calls[c] = 0 /\ query[c] = 0 /\ sent[c] = {}
        /\ stack[c] = [q \in 1 .. Queries |-> q]
    OBVIOUS
  <2>2. Taken(c) = 0 /\ Queries - 0 = Queries
    BY <2>1 DEF Taken
  <2>3. Len(stack[c]) = Queries /\ \A i \in 1 .. Queries : stack[c][i] = i /\ 0 + i = i
    BY <1>1, <2>1
  <2> HIDE DEF Init
  <2>4. QueryInv(c)
    BY <2>1, <2>2, <2>3 DEF QueryInv
  <2> QED
    BY <2>1, <2>4 DEF LimitInv
<1> QED
  BY <1>2, <1>3 DEF OwnInv

(* One step for each action.                                                *)
LEMMA OwnStep == IInv /\ OwnInv /\ [Next]_vars => OwnInv'
<1> SUFFICES ASSUME IInv, OwnInv, [Next]_vars PROVE OwnInv'
  OBVIOUS
<1> USE DEF param, try, hist
<1>1. ASSUME NEW c \in Clients, Authorize(c) PROVE OwnInv'
  <2>1. /\ pc[c] \in Running \ {"prepare"} /\ pc' = [pc EXCEPT ![c] = "send"] /\ ask' = ask
        /\ UNCHANGED <<opt, calls, query, stack, limit, deadline, sent>> /\ pc[c] = "authorize"
    BY <1>1 DEF Authorize, Running, Stages
  <2>2. OwnTypes'
    BY <2>1 DEF OwnInv, OwnTypes
  <2>3. "send" \in Stages \ {"idle", "authorize"}
    BY DEF Stages
  <2> QED
    BY <2>1, <2>2, <2>3, LaterKeepsOwn
<1>2. ASSUME NEW c \in Clients, FailToPrepare(c) PROVE OwnInv'
  <2>1. /\ pc[c] \in Running \ {"prepare"} /\ Finish(c, "failed")
        /\ UNCHANGED <<opt, calls, query, stack, limit, sent>>
    BY <1>2 DEF FailToPrepare, Running, Stages
  <2> QED
    BY <2>1, FinishKeepsOwn
<1>3. ASSUME NEW c \in Clients, Send(c) PROVE OwnInv'
  <2>1. pc[c] \in Running \ {"prepare"} /\ pc[c] = "send" /\ UNCHANGED <<opt, calls, query, stack, limit>>
    BY <1>3 DEF Send, Running, Stages
  <2>2. CASE ctx[c] = "alive"
    <3>1. /\ pc' = [pc EXCEPT ![c] = "waiting"] /\ ask' = ask
          /\ deadline' = [deadline EXCEPT ![c] = limit[opt[c].client]]
          /\ sent' = [sent EXCEPT ![c] = sent[c] \cup {query[c]}]
      BY <1>3, <2>2 DEF Send
    <3>2. opt[c].client \in {"package", "supplied"}
      BY DEF IInv, Types, SetupType
    <3>3. limit[opt[c].client] \in Nat /\ query[c] \in Nat /\ sent[c] \in SUBSET Nat
      BY <3>2 DEF OwnInv, OwnTypes
    <3>4. OwnTypes'
      BY <2>1, <3>1, <3>3 DEF OwnInv, OwnTypes
    <3>5. /\ deadline'[c] = limit[opt[c].client]
          /\ \A d \in Clients \ {c} : ask'[d] = ask[d] /\ deadline'[d] = deadline[d]
      BY <3>1 DEF OwnInv, OwnTypes
    <3>6. "waiting" \in Stages \ {"idle", "authorize"}
      BY DEF Stages
    <3> QED
      BY <2>1, <3>1, <3>4, <3>5, <3>6, LaterKeepsOwn
  <2>3. CASE ctx[c] # "alive"
    <3>1. Finish(c, Cut(c)) /\ sent' = sent
      BY <1>3, <2>3 DEF Send
    <3> QED
      BY <2>1, <3>1, FinishKeepsOwn
  <2> QED
    BY <2>2, <2>3
<1>4. ASSUME NEW c \in Clients, Wake(c) PROVE OwnInv'
  <2>1. /\ pc[c] \in Running \ {"prepare"} /\ pc' = [pc EXCEPT ![c] = "prepare"]
        /\ UNCHANGED <<opt, calls, ask, query, stack, limit, deadline, sent>> /\ pc[c] = "backoff"
    BY <1>4 DEF Wake, Running, Stages
  <2>2. opt[c].entry = "opts"
    <3>1. outcomes[c] # <<>> /\ outcomes[c] \in Seq(Outcomes)
      BY <2>1 DEF IInv, RunningInv, Types
    <3>2. 1 \in 1 .. Len(outcomes[c])
      BY <3>1
    <3> QED
      BY <2>1, <3>2 DEF IInv, RunningInv, HeaderInv
  <2>3. OwnTypes'
    BY <2>1 DEF OwnInv, OwnTypes
  <2>4. "prepare" \in Stages \ {"idle", "authorize"}
    BY DEF Stages
  <2> QED
    BY <2>1, <2>2, <2>3, <2>4, LaterKeepsOwn
<1>5. ASSUME NEW c \in Clients, Interrupt(c) PROVE OwnInv'
  <2>1. /\ pc[c] \in Running \ {"prepare"} /\ pc' = [pc EXCEPT ![c] = "returned"]
        /\ ask' = [ask EXCEPT ![c] = unset]
        /\ UNCHANGED <<opt, calls, query, stack, limit, deadline, sent>>
    BY <1>5 DEF Interrupt, Return, Running, Stages
  <2>2. OwnTypes' /\ \A d \in Clients \ {c} : ask'[d] = ask[d]
    BY <2>1 DEF OwnInv, OwnTypes
  <2>3. "returned" \in Stages \ {"idle", "authorize"}
    BY DEF Stages
  <2> QED
    BY <2>1, <2>2, <2>3, LaterKeepsOwn
<1>6. ASSUME NEW c \in Clients, Respond(c) \/ TimeOut(c) \/ Abort(c) PROVE OwnInv'
  <2>1. PICK o : Ends(c, o)
    BY <1>6 DEF Respond, TimeOut, Abort
  <2>2. /\ pc[c] \in Running \ {"prepare"} /\ Finish(c, o)
        /\ UNCHANGED <<opt, calls, query, stack, limit, sent>>
    BY <2>1 DEF Ends, Running, Stages
  <2> QED
    BY <2>2, FinishKeepsOwn
<1>7. ASSUME NEW c \in Clients, Proceed(c) PROVE OwnInv'
  BY <1>1, <1>2, <1>3, <1>4, <1>5, <1>7, PrepareKeepsOwn DEF Proceed
<1>8. ASSUME NEW c \in Clients, ContextEnds(c) PROVE OwnInv'
  BY <1>8, NothingChangesOwn DEF ContextEnds
<1>9. Expire \/ UNCHANGED vars => OwnInv'
  BY NothingChangesOwn DEF Expire, vars
<1> QED
  BY <1>6, <1>7, <1>8, <1>9, BeginKeepsOwn DEF Next

(* The query and the timeout of a call are its own, for any number of       *)
(* clients that share an HTTP client, of queries on their stacks, of calls  *)
(* and attempts, and whatever timeouts they ask for.                        *)
THEOREM RequestsAreOwn == Spec => []OwnRequest
<1>1. OwnInv => OwnRequest
  <2> SUFFICES ASSUME OwnInv PROVE OwnRequest
    OBVIOUS
  <2> USE BoundAssumption
  <2>1. ASSUME NEW c \in Clients
        PROVE  LET nth == IF calls[c] < Queries THEN calls[c] ELSE Queries
               IN  sent[c] \subseteq CASE opt[c].entry \in {"json", "call"} -> {nth}
                                       [] opt[c].entry = "opts" -> {IF Queries = 0 THEN none ELSE 1}
                                       [] opt[c].entry \notin Prepared -> {none}
    <3>1. QueryInv(c)
      BY DEF OwnInv
    <3>2. CASE opt[c].entry \in {"json", "call"}
      BY <3>1, <3>2 DEF QueryInv, Taken, Prepared
    <3>3. CASE opt[c].entry = "opts"
      BY <3>1, <3>3 DEF QueryInv, First, Prepared
    <3>4. CASE opt[c].entry \notin Prepared
      BY <3>1, <3>4 DEF QueryInv, Prepared
    <3> QED
      BY <3>2, <3>3, <3>4 DEF Prepared
  <2>2. OneQueryPerCall
    BY <2>1 DEF OneQueryPerCall
  <2>3. OwnLimit
    BY DEF OwnInv, OwnLimit, LimitInv, Limited, Asked
  <2> QED
    BY <2>2, <2>3 DEF OwnRequest
<1> QED
  BY <1>1, IInvInit, IInvStep, OwnInit, OwnStep, PTL DEF Spec
=============================================================================
