----------------------- MODULE RequestPipelineProofs -----------------------
(* Proofs about RequestPipeline: in every configuration, whatever user code *)
(* does, a request is answered by one layer, its session goes first and its *)
(* record is closed.                                                        *)
EXTENDS RequestPipeline, TLAPS

Answering == {"error", "registered", "fallback", "answered"}
InEndpoint == {"lifecycle", "handle", "render"}

(* Who can be waiting for an answer, by the place the request is at.        *)
ControlInv ==
  /\ pc \in StageNames => from = "lifecycle"
  /\ pc = "middleware" => from = "middleware"
  /\ pc = "finalize" => from \in InEndpoint
  /\ pc = "return" => from \in InEndpoint \cup {"panic"}
  /\ panicked => cur # nil
  /\ pc \in {"error", "registered", "fallback"} => cur # nil
  /\ pc = "answered" /\ from \in {"lifecycle", "panic"} => cur # nil
  /\ from = "panic" => panicked

(* The responses written so far: a whole one is committed, an answer that   *)
(* went through the hooks comes after the save, and only the endpoint sends *)
(* a success.                                                               *)
AnswerInv ==
  /\ committed = 0 /\ pc # "done" => \A i \in 1 .. Len(wire) : ~wire[i].whole
  /\ NoSecondAnswer
  /\ SavedOnceBefore
  /\ StrictNoSuccess
  /\ \A i \in 1 .. Len(wire) : wire[i].saved => saves # <<>>
  /\ \A i \in 1 .. Len(wire) : wire[i].status \in Successes => wire[i].by \in {"user", "render"}

(* What committed says about the request's place and what was written.      *)
CommitInv ==
  /\ pc \in {"registered", "fallback"} => committed = 0
  /\ pc \notin {"adapter", "done"} /\ committed # 0 => wire # <<>>
  /\ pc = "answered" /\ setup.Fallback = "legacy" /\ committed = 0 =>
       from = "render" /\ result # nil

(* With LegacyFallback, a handler whose answer did not get through knows.   *)
HandlerInv ==
  /\ pc \in {"middleware", "parse", "id", "insert", "initialize"} => saves = <<>>
  /\ pc \in {"handle", "render"} /\ saves # <<>> /\ committed = 0 /\ setup.Fallback = "legacy" =>
       pc = "handle" /\ result # nil

(* How the endpoint may return with nothing committed and no error.         *)
ReturnInv ==
  /\ pc \in {"finalize", "return"} /\ ~panicked /\ life = nil /\ committed = 0 =>
       from = "render" /\ setup.Fallback = "custom"
  /\ pc = "return" /\ panicked /\ committed = 0 => from = "panic" /\ setup.Fallback = "custom"
  /\ pc \in {"adapter", "done"} /\ wire = <<>> =>
       /\ setup.Fallback = "custom"
       /\ from \in {"render", "panic"} \/ (setup.Mode = "strict" /\ saves = <<"failed">>)

(* The finalizer and Update are still to run.                               *)
Unfinished == pc \in StageNames \cup {"finalize"} \/ (pc \in Answering /\ from \in InEndpoint)

BooksInv ==
  /\ from = "middleware" => finalized = 0 /\ updates = <<>> /\ ~inserted /\ ~panicked
  /\ Unfinished => finalized = 0 /\ updates = <<>>
  /\ from # "middleware" /\ ~Unfinished =>
       /\ finalized = IF Carries("finalizer") THEN 1 ELSE 0
       /\ Len(updates) = IF inserted THEN 1 ELSE 0
  /\ pc = "finalize" /\ ~panicked => outcome.status # 0
  /\ \A i \in 1 .. Len(updates) : updates[i].status # 0 /\ (panicked => updates[i].err # nil)

IInv == TypeOK /\ ControlInv /\ AnswerInv /\ CommitInv /\ HandlerInv /\ ReturnInv /\ BooksInv

-----------------------------------------------------------------------------
(* The answer's variables.                                                  *)

SaveResults == {"none", "saved", "failed"}

AnswerTypes ==
  /\ committed \in Statuses \cup {0}
  /\ wire \in Seq(Response)
  /\ saves \in Seq(SaveResults)
  /\ result \in AllErrors \cup {nil}

(* The hooks run once.                                                      *)
Saved == saves' = saves \/ (saves = <<>> /\ \E r \in SaveResults : saves' = <<r>>)

LEMMA SavedOnce ==
  ASSUME AnswerInv, Saved
  PROVE  Len(saves') <= 1
<1>1. CASE saves' = saves
  BY <1>1 DEF AnswerInv, SavedOnceBefore
<1>2. ASSUME NEW r \in SaveResults, saves' = <<r>>
      PROVE  Len(saves') <= 1
  BY <1>2
<1> QED
  BY <1>1, <1>2 DEF Saved

LEMMA HooksRunOnce ==
  ASSUME AnswerTypes, RunHooks
  PROVE  /\ Saved
         /\ saves' # <<>>
         /\ saves' \in Seq(SaveResults)
         /\ saves # <<>> => ~HookError
         /\ saves = <<>> => (HookError <=> setup.Mode = "strict" /\ saves' = <<"failed">>)
<1>1. CASE saves # <<>>
  BY <1>1 DEF RunHooks, HookError, Saved, AnswerTypes
<1>2. CASE saves = <<>>
  <2>1. PICK r \in SaveResults : saves' = <<r>>
    BY <1>2 DEF RunHooks, HookResults, SaveResults
  <2>2. saves' # saves /\ Len(saves') = 1 /\ saves'[Len(saves')] = r
    BY <1>2, <2>1
  <2>3. saves' = <<"failed">> <=> r = "failed"
    BY <2>1
  <2> QED
    BY <1>2, <2>1, <2>2, <2>3 DEF HookError, Saved
<1> QED
  BY <1>1, <1>2

(* A step that writes nothing, whether the hooks run or not.                *)
LEMMA NothingWritten ==
  ASSUME AnswerTypes, AnswerInv, UNCHANGED <<setup, wire>>, Saved, pc # "done",
         committed' = 0 => committed = 0
  PROVE  AnswerInv'
<1>1. Len(saves') <= 1
  BY SavedOnce
<1>2. StrictNoSuccess'
  <2>1. CASE saves' = saves
    BY <2>1 DEF AnswerInv, StrictNoSuccess
  <2>2. CASE saves = <<>>
    BY <2>2 DEF AnswerInv, SavedOnceBefore, StrictNoSuccess
  <2> QED
    BY <2>1, <2>2 DEF Saved
<1>3. \A i \in 1 .. Len(wire) : wire[i].saved => saves' # <<>>
  BY DEF AnswerInv, Saved
<1> QED
  BY <1>1, <1>2, <1>3 DEF AnswerInv, NoSecondAnswer, SavedOnceBefore

(* A step that writes e.                                                    *)
LEMMA OneWritten ==
  ASSUME AnswerTypes, AnswerInv, setup' = setup, Saved, pc # "done",
         NEW e \in Response, wire' = Append(wire, e),
         \/ committed = 0 /\ (e.whole => committed' # 0)
         \/ e.by = "unmatched" /\ pc' = "done",
         e.saved => saves' # <<>>,
         e.by \notin {"legacy", "unmatched"} => e.saved,
         e.status \in Successes =>
           /\ e.by \in {"user", "render"}
           /\ setup.Mode = "strict" /\ saves' = <<"failed">> =>
                e.by = "render" /\ setup.Fallback = "custom"
  PROVE  AnswerInv'
<1>1. /\ Len(wire) \in Nat
      /\ Len(wire') = Len(wire) + 1
      /\ wire'[Len(wire) + 1] = e
      /\ \A i \in 1 .. Len(wire) : wire'[i] = wire[i]
  BY DEF AnswerTypes
<1>2. \A i \in 1 .. Len(wire') : i = Len(wire) + 1 \/ i \in 1 .. Len(wire)
  BY <1>1
<1>3. committed' = 0 /\ pc' # "done" => \A i \in 1 .. Len(wire') : ~wire'[i].whole
  BY <1>1, <1>2 DEF AnswerInv
<1>4. NoSecondAnswer'
  <2> SUFFICES ASSUME NEW i \in 1 .. Len(wire'), NEW k \in 1 .. Len(wire'), i < k, wire'[i].whole
               PROVE  wire'[k].by = "unmatched"
    BY DEF NoSecondAnswer
  <2>1. i \in 1 .. Len(wire)
    BY <1>1
  <2>2. CASE k \in 1 .. Len(wire)
    BY <1>1, <2>1, <2>2 DEF AnswerInv, NoSecondAnswer
  <2>3. CASE k = Len(wire) + 1
    BY <1>1, <2>1, <2>3 DEF AnswerInv
  <2> QED
    BY <1>2, <2>2, <2>3
<1>5. SavedOnceBefore'
  <2>1. Len(saves') <= 1
    BY SavedOnce
  <2> QED
    BY <1>1, <1>2, <2>1 DEF AnswerInv, SavedOnceBefore
<1>6. StrictNoSuccess'
  <2>1. ASSUME NEW i \in 1 .. Len(wire), setup.Mode = "strict", saves' = <<"failed">>,
               wire[i].status \in Successes
        PROVE  wire[i].by = "render" /\ setup.Fallback = "custom"
    <3>1. CASE saves' = saves
      BY <2>1, <3>1 DEF AnswerInv, StrictNoSuccess
    <3>2. CASE saves = <<>>
      BY <2>1, <3>2 DEF AnswerInv, SavedOnceBefore
    <3> QED
      BY <3>1, <3>2 DEF Saved
  <2> QED
    BY <1>1, <1>2, <2>1 DEF StrictNoSuccess
<1>7. \A i \in 1 .. Len(wire') : wire'[i].saved => saves' # <<>>
  BY <1>1, <1>2 DEF AnswerInv, Saved
<1>8. \A i \in 1 .. Len(wire') : wire'[i].status \in Successes => wire'[i].by \in {"user", "render"}
  BY <1>1, <1>2 DEF AnswerInv
<1> QED
  BY <1>3, <1>4, <1>5, <1>6, <1>7, <1>8 DEF AnswerInv

(* Transmit, with the hooks run.                                            *)
LEMMA Transmitted ==
  ASSUME AnswerTypes, AnswerInv, setup' = setup, Saved, saves' # <<>>, pc # "done",
         saves' \in Seq(SaveResults), committed = 0,
         NEW status \in Statuses, NEW by \in Writers \ {"legacy", "unmatched"},
         Transmit(status, by),
         status \in Successes =>
           /\ by \in {"user", "render"}
           /\ setup.Mode = "strict" /\ saves' = <<"failed">> =>
                by = "render" /\ setup.Fallback = "custom"
  PROVE  /\ AnswerInv' /\ AnswerTypes'
         /\ wire' # <<>>
         /\ committed' = 0 => result' # nil
<1>1. PICK whole \in BOOLEAN :
        /\ wire' = Append(wire, [status |-> status, by |-> by, whole |-> whole, saved |-> TRUE])
        /\ IF whole \/ setup.Adapter = "gin"
           THEN committed' = status /\ result' = nil
           ELSE committed' = 0 /\ result' = "write"
  BY DEF Transmit, Put, Writes, MarkCommitted
<1> DEFINE e == [status |-> status, by |-> by, whole |-> whole, saved |-> TRUE]
<1>2. e \in Response /\ wire' = Append(wire, e)
  BY <1>1 DEF Response
<1>3. status # 0 /\ "write" # nil
  BY ErrorAssumption DEF Statuses, Successes
<1>4. AnswerInv'
  BY <1>1, <1>2, <1>3, OneWritten
<1>5. AnswerTypes'
  BY <1>1, <1>2 DEF AnswerTypes, AllErrors
<1>6. wire' # <<>>
  BY <1>2 DEF AnswerTypes
<1> QED
  BY <1>1, <1>3, <1>4, <1>5, <1>6

LEMMA Sent ==
  ASSUME AnswerTypes, AnswerInv, setup' = setup, pc # "done",
         committed # 0 => wire # <<>>,
         NEW status \in Statuses, NEW by \in Writers \ {"legacy", "unmatched"},
         SendResponse(status, by),
         status \in Successes =>
           /\ by \in {"user", "render"}
           /\ committed = 0 /\ saves # <<>> => by = "render" /\ setup.Fallback = "custom"
  PROVE  /\ AnswerInv' /\ AnswerTypes'
         /\ committed' # 0 => wire' # <<>>
         /\ committed' = 0 => result' # nil
         /\ committed # 0 => committed' = committed /\ saves' = saves
<1>1. CASE committed # 0
  <2>1. result' = nil /\ UNCHANGED <<committed, wire, saves>>
    BY <1>1 DEF SendResponse
  <2> QED
    BY <1>1, <2>1, NothingWritten DEF Saved, AnswerTypes
<1>2. CASE committed = 0
  <2>1. /\ RunHooks
        /\ IF HookError
           THEN result' = "hook" /\ UNCHANGED <<committed, wire>>
           ELSE Transmit(status, by)
    BY <1>2 DEF SendResponse
  <2>2. /\ Saved /\ saves' # <<>> /\ saves' \in Seq(SaveResults)
        /\ saves # <<>> => ~HookError
        /\ saves = <<>> => (HookError <=> setup.Mode = "strict" /\ saves' = <<"failed">>)
    BY <2>1, HooksRunOnce
  <2>3. CASE HookError
    <3>1. "hook" # nil
      BY ErrorAssumption
    <3> QED
      BY <1>2, <2>1, <2>2, <2>3, <3>1, NothingWritten DEF AnswerTypes, AllErrors
  <2>4. CASE ~HookError
    <3>1. Transmit(status, by)
      BY <2>1, <2>4
    <3>2. status \in Successes =>
            /\ by \in {"user", "render"}
            /\ setup.Mode = "strict" /\ saves' = <<"failed">> =>
                 by = "render" /\ setup.Fallback = "custom"
      BY <1>2, <2>2, <2>4
    <3> QED
      BY <1>2, <2>2, <3>1, <3>2, Transmitted
  <2> QED
    BY <2>3, <2>4
<1> QED
  BY <1>1, <1>2

LEMMA ErrorCommitted ==
  ASSUME AnswerTypes, AnswerInv, setup' = setup, pc # "done", committed = 0,
         NEW status \in Statuses \ Successes, NEW by \in Writers \ {"legacy", "unmatched"},
         CommitError(status, by)
  PROVE  /\ AnswerInv' /\ AnswerTypes'
         /\ wire' # <<>>
         /\ committed' = 0 => result' # nil
<1>1. RunHooks /\ Transmit(status, by)
  BY DEF CommitError
<1>2. Saved /\ saves' # <<>> /\ saves' \in Seq(SaveResults)
  BY <1>1, HooksRunOnce
<1> QED
  BY <1>1, <1>2, Transmitted

LEMMA CustomAnswered ==
  ASSUME AnswerTypes, AnswerInv, setup' = setup, pc # "done", committed = 0,
         NEW by \in {"custom", "fallback"}, CustomAnswer(by)
  PROVE  /\ AnswerInv' /\ AnswerTypes'
         /\ committed' # 0 => wire' # <<>>
<1>1. Resolve(cur) \in Statuses \ Successes /\ by \in Writers \ {"legacy", "unmatched"}
  BY DEF Resolve, Statuses, Successes, Writers
<1>2. CASE CommitError(Resolve(cur), by)
  BY <1>1, <1>2, ErrorCommitted
<1>3. CASE SendResponse(Resolve(cur), by)
  BY <1>1, <1>3, Sent
<1>4. CASE result' \in {nil, "plain"} /\ UNCHANGED <<committed, wire, saves>>
  BY <1>4, NothingWritten DEF Saved, AnswerTypes, AllErrors, ErrorKinds
<1> QED
  BY <1>2, <1>3, <1>4 DEF CustomAnswer

(* Errors, statuses and stages.                                             *)
LEMMA Resolved ==
  \A e \in AllErrors : /\ Resolve(e) \in Statuses \ Successes
                       /\ LegacyStatus(e) \in Statuses \ Successes
                       /\ PanicError(e) \in AllErrors
<1> SUFFICES ASSUME NEW e \in AllErrors
             PROVE  /\ Resolve(e) \in Statuses \ Successes
                    /\ LegacyStatus(e) \in Statuses \ Successes
                    /\ PanicError(e) \in AllErrors
  OBVIOUS
<1>1. {404, 405, 500} \subseteq Statuses \ Successes
  BY DEF Statuses, Successes
<1>2. Resolve(e) \in {404, 405, 500}
  BY DEF Resolve
<1>3. LegacyStatus(e) \in {404, 405, 500}
  BY <1>2 DEF LegacyStatus
<1>4. PanicError(e) \in AllErrors
  BY DEF PanicError, AllErrors, ErrorKinds
<1> QED
  BY <1>1, <1>2, <1>3, <1>4

LEMMA NotNil ==
  /\ nil \notin AllErrors
  /\ Errors \subseteq AllErrors
  /\ "plain" \in AllErrors
BY ErrorAssumption DEF AllErrors, ErrorKinds

LEMMA Codes == {200, 204, 404, 405, 500} \subseteq Statuses /\ 0 \notin Statuses
BY DEF Statuses, Successes

LEMMA OutcomeTyped ==
  \A e \in AllErrors \cup {nil}, status \in Statuses \cup {0} : Outcome(e, status) \in Outcomes
BY DEF Outcome, Outcomes

LEMMA Fallbacks == \A c \in Setups : c.Fallback \in {"legacy", "custom"}
BY SetupAssumption DEF SetupType

LEMMA Stages ==
  \A s \in StageNames \ {"render"} :
    /\ NextStage[s] \in StageNames \ {"parse"}
    /\ NextStage[s] = "handle" <=> s = "initialize"
    /\ NextStage[s] = "render" <=> s = "handle"
BY DEF StageNames, NextStage

-----------------------------------------------------------------------------
LEMMA InitInv == Init => IInv
<1> SUFFICES ASSUME Init PROVE IInv
  OBVIOUS
<1>1. <<>> \in Seq(Response) /\ <<>> \in Seq(SaveResults) /\ <<>> \in Seq(Outcomes)
  OBVIOUS
<1>2. TypeOK
  BY <1>1 DEF Init, TypeOK, Outcome, Outcomes, SaveResults, StageNames
<1>3. ControlInv /\ CommitInv /\ HandlerInv /\ ReturnInv
  BY DEF Init, ControlInv, CommitInv, HandlerInv, ReturnInv, StageNames, Answering
<1>4. AnswerInv
  BY DEF Init, AnswerInv, NoSecondAnswer, SavedOnceBefore, StrictNoSuccess
<1>5. BooksInv
  BY DEF Init, BooksInv, Unfinished, StageNames, InEndpoint, Answering
<1> QED
  BY <1>2, <1>3, <1>4, <1>5 DEF IInv

-----------------------------------------------------------------------------
(* The steps that write nothing.                                            *)

Silent ==
  \/ Pass
  \/ \E e \in Errors : Reject(e)
  \/ \E s \in StageNames : StagePasses(s)
  \/ \E s \in StageNames, e \in Errors : StageFails(s, e)
  \/ \E s \in StageNames, e \in Errors : StagePanics(s, e)
  \/ HandlerEncodeFails
  \/ HandlerAnswered
  \/ EncodeFails
  \/ ErrorAfterCommit
  \/ LookUp
  \/ \E e \in Errors : ErrorHandlerPanics(e)
  \/ StageAnswered
  \/ Rendered
  \/ Finalize
  \/ UpdatePanics
  \/ PanicAnswered
  \/ Return

(* They leave the responses and the session alone.                          *)
LEMMA SilentKeeps == IInv /\ Silent => UNCHANGED <<setup, committed, wire, saves>> /\ pc # "done" /\ pc' # "done"
<1> SUFFICES ASSUME IInv, Silent PROVE UNCHANGED <<setup, committed, wire, saves>> /\ pc # "done" /\ pc' # "done"
  OBVIOUS
<1> USE Stages DEF IInv, control, books, answer, ControlInv, StageNames
<1>1. CASE Pass
  BY <1>1 DEF Pass
<1>2. ASSUME NEW e \in Errors, Reject(e) PROVE UNCHANGED <<setup, committed, wire, saves>> /\ pc # "done" /\ pc' # "done"
  BY <1>2 DEF Reject
<1>3. ASSUME NEW s \in StageNames, StagePasses(s) PROVE UNCHANGED <<setup, committed, wire, saves>> /\ pc # "done" /\ pc' # "done"
  BY <1>3 DEF StagePasses
<1>4. ASSUME NEW s \in StageNames, NEW e \in Errors, StageFails(s, e) PROVE UNCHANGED <<setup, committed, wire, saves>> /\ pc # "done" /\ pc' # "done"
  BY <1>4 DEF StageFails
<1>5. ASSUME NEW s \in StageNames, NEW e \in Errors, StagePanics(s, e) PROVE UNCHANGED <<setup, committed, wire, saves>> /\ pc # "done" /\ pc' # "done"
  BY <1>5 DEF StagePanics
<1>6. CASE HandlerEncodeFails
  BY <1>6 DEF HandlerEncodeFails
<1>7. CASE HandlerAnswered
  BY <1>7 DEF HandlerAnswered
<1>8. CASE EncodeFails
  BY <1>8 DEF EncodeFails
<1>9. CASE ErrorAfterCommit
  BY <1>9 DEF ErrorAfterCommit
<1>10. CASE LookUp
  BY <1>10 DEF LookUp
<1>11. ASSUME NEW e \in Errors, ErrorHandlerPanics(e) PROVE UNCHANGED <<setup, committed, wire, saves>> /\ pc # "done" /\ pc' # "done"
  BY <1>11 DEF ErrorHandlerPanics
<1>12. CASE StageAnswered
  BY <1>12 DEF StageAnswered
<1>13. CASE Rendered
  BY <1>13 DEF Rendered
<1>14. CASE Finalize
  BY <1>14 DEF Finalize
<1>15. CASE UpdatePanics
  BY <1>15 DEF UpdatePanics
<1>16. CASE PanicAnswered
  BY <1>16 DEF PanicAnswered
<1>17. CASE Return
  BY <1>17 DEF Return
<1> QED
  BY <1>1, <1>2, <1>3, <1>4, <1>5, <1>6, <1>7, <1>8, <1>9, <1>10, <1>11, <1>12, <1>13, <1>14, <1>15, <1>16, <1>17 DEF Silent

LEMMA SilentAnswer == IInv /\ Silent => AnswerInv'
<1> SUFFICES ASSUME IInv, Silent PROVE AnswerInv'
  OBVIOUS
<1>1. UNCHANGED <<setup, committed, wire, saves>> /\ pc # "done" /\ pc' # "done"
  BY SilentKeeps
<1> QED
  BY <1>1 DEF IInv, AnswerInv, NoSecondAnswer, SavedOnceBefore, StrictNoSuccess

LEMMA SilentControl == IInv /\ Silent => ControlInv'
<1> SUFFICES ASSUME IInv, Silent PROVE ControlInv'
  OBVIOUS
<1> USE Stages, NotNil, Resolved DEF IInv, control, books, answer, TypeOK, ControlInv, StageNames, Answering, InEndpoint
<1>1. CASE Pass
  BY <1>1 DEF Pass
<1>2. ASSUME NEW e \in Errors, Reject(e) PROVE ControlInv'
  BY <1>2 DEF Reject
<1>3. ASSUME NEW s \in StageNames, StagePasses(s) PROVE ControlInv'
  BY <1>3 DEF StagePasses
<1>4. ASSUME NEW s \in StageNames, NEW e \in Errors, StageFails(s, e) PROVE ControlInv'
  BY <1>4 DEF StageFails
<1>5. ASSUME NEW s \in StageNames, NEW e \in Errors, StagePanics(s, e) PROVE ControlInv'
  BY <1>5 DEF StagePanics
<1>6. CASE HandlerEncodeFails
  BY <1>6 DEF HandlerEncodeFails
<1>7. CASE HandlerAnswered
  BY <1>7 DEF HandlerAnswered
<1>8. CASE EncodeFails
  BY <1>8 DEF EncodeFails
<1>9. CASE ErrorAfterCommit
  BY <1>9 DEF ErrorAfterCommit
<1>10. CASE LookUp
  BY <1>10 DEF LookUp
<1>11. ASSUME NEW e \in Errors, ErrorHandlerPanics(e) PROVE ControlInv'
  BY <1>11 DEF ErrorHandlerPanics
<1>12. CASE StageAnswered
  BY <1>12 DEF StageAnswered
<1>13. CASE Rendered
  BY <1>13 DEF Rendered
<1>14. CASE Finalize
  BY <1>14 DEF Finalize
<1>15. CASE UpdatePanics
  BY <1>15 DEF UpdatePanics
<1>16. CASE PanicAnswered
  BY <1>16 DEF PanicAnswered
<1>17. CASE Return
  BY <1>17 DEF Return
<1> QED
  BY <1>1, <1>2, <1>3, <1>4, <1>5, <1>6, <1>7, <1>8, <1>9, <1>10, <1>11, <1>12, <1>13, <1>14, <1>15, <1>16, <1>17 DEF Silent

LEMMA SilentCommit == IInv /\ Silent => CommitInv'
<1> SUFFICES ASSUME IInv, Silent PROVE CommitInv'
  OBVIOUS
<1> USE Stages, NotNil DEF IInv, control, books, answer, TypeOK, ControlInv, StageNames, Answering, InEndpoint, CommitInv
<1>1. CASE Pass
  BY <1>1 DEF Pass
<1>2. ASSUME NEW e \in Errors, Reject(e) PROVE CommitInv'
  BY <1>2 DEF Reject
<1>3. ASSUME NEW s \in StageNames, StagePasses(s) PROVE CommitInv'
  BY <1>3 DEF StagePasses
<1>4. ASSUME NEW s \in StageNames, NEW e \in Errors, StageFails(s, e) PROVE CommitInv'
  BY <1>4 DEF StageFails
<1>5. ASSUME NEW s \in StageNames, NEW e \in Errors, StagePanics(s, e) PROVE CommitInv'
  BY <1>5 DEF StagePanics
<1>6. CASE HandlerEncodeFails
  BY <1>6 DEF HandlerEncodeFails
<1>7. CASE HandlerAnswered
  BY <1>7 DEF HandlerAnswered
<1>8. CASE EncodeFails
  BY <1>8 DEF EncodeFails
<1>9. CASE ErrorAfterCommit
  BY <1>9 DEF ErrorAfterCommit
<1>10. CASE LookUp
  BY <1>10 DEF LookUp
<1>11. ASSUME NEW e \in Errors, ErrorHandlerPanics(e) PROVE CommitInv'
  BY <1>11 DEF ErrorHandlerPanics
<1>12. CASE StageAnswered
  BY <1>12 DEF StageAnswered
<1>13. CASE Rendered
  BY <1>13 DEF Rendered
<1>14. CASE Finalize
  BY <1>14 DEF Finalize
<1>15. CASE UpdatePanics
  BY <1>15 DEF UpdatePanics
<1>16. CASE PanicAnswered
  BY <1>16 DEF PanicAnswered
<1>17. CASE Return
  BY <1>17 DEF Return
<1> QED
  BY <1>1, <1>2, <1>3, <1>4, <1>5, <1>6, <1>7, <1>8, <1>9, <1>10, <1>11, <1>12, <1>13, <1>14, <1>15, <1>16, <1>17 DEF Silent

LEMMA SilentHandler == IInv /\ Silent => HandlerInv'
<1> SUFFICES ASSUME IInv, Silent PROVE HandlerInv'
  OBVIOUS
<1> USE Stages, NotNil DEF IInv, control, books, answer, TypeOK, ControlInv, StageNames, Answering, InEndpoint, HandlerInv, CommitInv
<1>1. CASE Pass
  BY <1>1 DEF Pass
<1>2. ASSUME NEW e \in Errors, Reject(e) PROVE HandlerInv'
  BY <1>2 DEF Reject
<1>3. ASSUME NEW s \in StageNames, StagePasses(s) PROVE HandlerInv'
  BY <1>3 DEF StagePasses
<1>4. ASSUME NEW s \in StageNames, NEW e \in Errors, StageFails(s, e) PROVE HandlerInv'
  BY <1>4 DEF StageFails
<1>5. ASSUME NEW s \in StageNames, NEW e \in Errors, StagePanics(s, e) PROVE HandlerInv'
  BY <1>5 DEF StagePanics
<1>6. CASE HandlerEncodeFails
  BY <1>6 DEF HandlerEncodeFails
<1>7. CASE HandlerAnswered
  BY <1>7 DEF HandlerAnswered
<1>8. CASE EncodeFails
  BY <1>8 DEF EncodeFails
<1>9. CASE ErrorAfterCommit
  BY <1>9 DEF ErrorAfterCommit
<1>10. CASE LookUp
  BY <1>10 DEF LookUp
<1>11. ASSUME NEW e \in Errors, ErrorHandlerPanics(e) PROVE HandlerInv'
  BY <1>11 DEF ErrorHandlerPanics
<1>12. CASE StageAnswered
  BY <1>12 DEF StageAnswered
<1>13. CASE Rendered
  BY <1>13 DEF Rendered
<1>14. CASE Finalize
  BY <1>14 DEF Finalize
<1>15. CASE UpdatePanics
  BY <1>15 DEF UpdatePanics
<1>16. CASE PanicAnswered
  BY <1>16 DEF PanicAnswered
<1>17. CASE Return
  BY <1>17 DEF Return
<1> QED
  BY <1>1, <1>2, <1>3, <1>4, <1>5, <1>6, <1>7, <1>8, <1>9, <1>10, <1>11, <1>12, <1>13, <1>14, <1>15, <1>16, <1>17 DEF Silent

LEMMA SilentReturn == IInv /\ Silent => ReturnInv'
<1> SUFFICES ASSUME IInv, Silent PROVE ReturnInv'
  OBVIOUS
<1> USE Stages, NotNil, Fallbacks DEF IInv, control, books, answer, TypeOK, ControlInv, StageNames, Answering, InEndpoint, ReturnInv, CommitInv
<1>1. CASE Pass
  BY <1>1 DEF Pass
<1>2. ASSUME NEW e \in Errors, Reject(e) PROVE ReturnInv'
  BY <1>2 DEF Reject
<1>3. ASSUME NEW s \in StageNames, StagePasses(s) PROVE ReturnInv'
  BY <1>3 DEF StagePasses
<1>4. ASSUME NEW s \in StageNames, NEW e \in Errors, StageFails(s, e) PROVE ReturnInv'
  BY <1>4 DEF StageFails
<1>5. ASSUME NEW s \in StageNames, NEW e \in Errors, StagePanics(s, e) PROVE ReturnInv'
  BY <1>5 DEF StagePanics
<1>6. CASE HandlerEncodeFails
  BY <1>6 DEF HandlerEncodeFails
<1>7. CASE HandlerAnswered
  BY <1>7 DEF HandlerAnswered
<1>8. CASE EncodeFails
  BY <1>8 DEF EncodeFails
<1>9. CASE ErrorAfterCommit
  BY <1>9 DEF ErrorAfterCommit
<1>10. CASE LookUp
  BY <1>10 DEF LookUp
<1>11. ASSUME NEW e \in Errors, ErrorHandlerPanics(e) PROVE ReturnInv'
  BY <1>11 DEF ErrorHandlerPanics
<1>12. CASE StageAnswered
  BY <1>12 DEF StageAnswered
<1>13. CASE Rendered
  BY <1>13 DEF Rendered
<1>14. CASE Finalize
  BY <1>14 DEF Finalize
<1>15. CASE UpdatePanics
  BY <1>15 DEF UpdatePanics
<1>16. CASE PanicAnswered
  BY <1>16 DEF PanicAnswered
<1>17. CASE Return
  BY <1>17 DEF Return
<1> QED
  BY <1>1, <1>2, <1>3, <1>4, <1>5, <1>6, <1>7, <1>8, <1>9, <1>10, <1>11, <1>12, <1>13, <1>14, <1>15, <1>16, <1>17 DEF Silent

LEMMA SilentBooks == IInv /\ Silent => BooksInv'
<1> SUFFICES ASSUME IInv, Silent PROVE BooksInv'
  OBVIOUS
<1> USE Stages, NotNil, Resolved DEF IInv, control, books, answer, TypeOK, ControlInv, StageNames, Answering, InEndpoint, BooksInv, Unfinished, Carries, Outcome, CommittedOr, RunFinalizer, Update
<1>1. CASE Pass
  BY <1>1 DEF Pass
<1>2. ASSUME NEW e \in Errors, Reject(e) PROVE BooksInv'
  BY <1>2 DEF Reject
<1>3. ASSUME NEW s \in StageNames, StagePasses(s) PROVE BooksInv'
  BY <1>3 DEF StagePasses
<1>4. ASSUME NEW s \in StageNames, NEW e \in Errors, StageFails(s, e) PROVE BooksInv'
  BY <1>4 DEF StageFails
<1>5. ASSUME NEW s \in StageNames, NEW e \in Errors, StagePanics(s, e) PROVE BooksInv'
  BY <1>5 DEF StagePanics
<1>6. CASE HandlerEncodeFails
  BY <1>6 DEF HandlerEncodeFails
<1>7. CASE HandlerAnswered
  BY <1>7 DEF HandlerAnswered
<1>8. CASE EncodeFails
  BY <1>8 DEF EncodeFails
<1>9. CASE ErrorAfterCommit
  BY <1>9 DEF ErrorAfterCommit
<1>10. CASE LookUp
  BY <1>10 DEF LookUp
<1>11. ASSUME NEW e \in Errors, ErrorHandlerPanics(e) PROVE BooksInv'
  BY <1>11 DEF ErrorHandlerPanics
<1>12. CASE StageAnswered
  BY <1>12 DEF StageAnswered
<1>13. CASE Rendered
  BY <1>13 DEF Rendered
<1>14. CASE Finalize
  BY <1>14 DEF Finalize
<1>15. CASE UpdatePanics
  BY <1>15 DEF UpdatePanics
<1>16. CASE PanicAnswered
  BY <1>16 DEF PanicAnswered
<1>17. CASE Return
  BY <1>17 DEF Return
<1> QED
  BY <1>1, <1>2, <1>3, <1>4, <1>5, <1>6, <1>7, <1>8, <1>9, <1>10, <1>11, <1>12, <1>13, <1>14, <1>15, <1>16, <1>17 DEF Silent

LEMMA SilentType == IInv /\ Silent => TypeOK'
<1> SUFFICES ASSUME IInv, Silent PROVE TypeOK'
  OBVIOUS
<1> USE Stages, NotNil, Resolved, Codes, OutcomeTyped DEF IInv, control, books, answer, TypeOK, ControlInv, StageNames, Answering, InEndpoint, CommittedOr, RunFinalizer, Update
<1>1. CASE Pass
  BY <1>1 DEF Pass
<1>2. ASSUME NEW e \in Errors, Reject(e) PROVE TypeOK'
  BY <1>2 DEF Reject
<1>3. ASSUME NEW s \in StageNames, StagePasses(s) PROVE TypeOK'
  BY <1>3 DEF StagePasses
<1>4. ASSUME NEW s \in StageNames, NEW e \in Errors, StageFails(s, e) PROVE TypeOK'
  BY <1>4 DEF StageFails
<1>5. ASSUME NEW s \in StageNames, NEW e \in Errors, StagePanics(s, e) PROVE TypeOK'
  BY <1>5 DEF StagePanics
<1>6. CASE HandlerEncodeFails
  BY <1>6 DEF HandlerEncodeFails
<1>7. CASE HandlerAnswered
  BY <1>7 DEF HandlerAnswered
<1>8. CASE EncodeFails
  BY <1>8 DEF EncodeFails
<1>9. CASE ErrorAfterCommit
  BY <1>9 DEF ErrorAfterCommit
<1>10. CASE LookUp
  BY <1>10 DEF LookUp
<1>11. ASSUME NEW e \in Errors, ErrorHandlerPanics(e) PROVE TypeOK'
  <2>1. PanicError(e) \in AllErrors
    OBVIOUS
  <2>2. cur' \in {cur, PanicError(e)} /\ panicked' \in {panicked, TRUE}
    <3> HIDE Stages, NotNil, Codes, Resolved, OutcomeTyped
    <3>1. CASE from \in InEndpoint
      BY <1>11, <3>1 DEF ErrorHandlerPanics
    <3>2. CASE from \notin InEndpoint
      BY <1>11, <3>2 DEF ErrorHandlerPanics
    <3> QED
      BY <3>1, <3>2
  <2>3. /\ pc' \in {"finalize", "escaped"}
        /\ UNCHANGED <<setup, from, life, books, answer>>
    BY <1>11 DEF ErrorHandlerPanics
  <2>4. cur \in AllErrors \cup {nil} /\ panicked \in BOOLEAN
    OBVIOUS
  <2> HIDE Stages, NotNil, Codes, Resolved, OutcomeTyped
  <2>5. cur' \in AllErrors \cup {nil} /\ panicked' \in BOOLEAN
    <3> HIDE DEF IInv
    <3> QED
      BY <2>1, <2>2, <2>4
  <2> QED
    BY <2>3, <2>5
<1>12. CASE StageAnswered
  BY <1>12 DEF StageAnswered
<1>13. CASE Rendered
  BY <1>13 DEF Rendered
<1>14. CASE Finalize
  BY <1>14 DEF Finalize
<1>15. CASE UpdatePanics
  BY <1>15 DEF UpdatePanics
<1>16. CASE PanicAnswered
  BY <1>16 DEF PanicAnswered
<1>17. CASE Return
  BY <1>17 DEF Return
<1> QED
  BY <1>1, <1>2, <1>3, <1>4, <1>5, <1>6, <1>7, <1>8, <1>9, <1>10, <1>11, <1>12, <1>13, <1>14, <1>15, <1>16, <1>17 DEF Silent

-----------------------------------------------------------------------------
(* The steps that write.                                                    *)

(* What is left to show when the answer's variables are known to be well.   *)
LEMMA Types ==
  IInv => AnswerTypes /\ AnswerInv /\ setup.Fallback \in {"legacy", "custom"}
BY Fallbacks DEF IInv, TypeOK, AnswerTypes, SaveResults

LEMMA HandlerWritesStep == IInv /\ HandlerWrites => IInv'
<1> SUFFICES ASSUME IInv, HandlerWrites PROVE IInv'
  OBVIOUS
<1>1. PICK status \in Successes : SendResponse(status, "user")
  BY DEF HandlerWrites
<1>2. /\ UNCHANGED <<setup, pc, control, books>>
      /\ pc = "handle" /\ saves = <<>>
      /\ committed # 0 => wire # <<>>
  BY DEF HandlerWrites, IInv, CommitInv
<1>3. status \in Statuses /\ "user" \in Writers \ {"legacy", "unmatched"}
  BY DEF Statuses, Writers
<1>4. /\ AnswerInv' /\ AnswerTypes'
      /\ committed' # 0 => wire' # <<>>
      /\ committed' = 0 => result' # nil
  BY <1>1, <1>2, <1>3, Types, Sent
<1> QED
  BY <1>2, <1>4 DEF IInv, TypeOK, AnswerTypes, SaveResults, ControlInv, CommitInv, HandlerInv,
     ReturnInv, BooksInv, Unfinished, Carries, control, books, StageNames, Answering, InEndpoint

LEMMA RenderStep == IInv /\ Render => IInv'
<1> SUFFICES ASSUME IInv, Render PROVE IInv'
  OBVIOUS
<1>1. /\ SendResponse(200, "render")
      /\ UNCHANGED <<setup, cur, life, panicked, books>>
      /\ pc = "render" /\ pc' = "answered" /\ from' = "render"
      /\ committed # 0 => wire # <<>>
      /\ committed = 0 /\ saves # <<>> => setup.Fallback = "custom"
  BY Types DEF Render, IInv, CommitInv, HandlerInv
<1>2. 200 \in Statuses /\ "render" \in Writers \ {"legacy", "unmatched"}
  BY DEF Statuses, Successes, Writers
<1>3. /\ AnswerInv' /\ AnswerTypes'
      /\ committed' # 0 => wire' # <<>>
      /\ committed' = 0 => result' # nil
  BY <1>1, <1>2, Types, Sent
<1> QED
  BY <1>1, <1>3 DEF IInv, TypeOK, AnswerTypes, SaveResults, ControlInv, CommitInv, HandlerInv,
     ReturnInv, BooksInv, Unfinished, Carries, books, StageNames, Answering, InEndpoint

(* An error handler: the fallback is next, or the answer is there.          *)
LEMMA HandlerStep ==
  ASSUME IInv, pc \in {"registered", "fallback"}, UNCHANGED <<setup, control, books>>,
         AnswerInv', AnswerTypes', committed' # 0 => wire' # <<>>,
         pc' \in {"fallback", "answered"},
         pc' = "fallback" => committed' = 0,
         pc' = "answered" /\ committed' = 0 => setup.Fallback = "custom"
  PROVE  IInv'
BY DEF IInv, TypeOK, AnswerTypes, SaveResults, ControlInv, CommitInv, HandlerInv, ReturnInv,
   BooksInv, Unfinished, Carries, control, books, StageNames, Answering, InEndpoint

LEMMA DefaultHandlerStep == IInv /\ DefaultHandler => IInv'
<1> SUFFICES ASSUME IInv, DefaultHandler PROVE IInv'
  OBVIOUS
<1>1. /\ CommitError(Resolve(cur), "default") /\ AfterRegistered
      /\ UNCHANGED <<setup, control, books>>
      /\ pc = "registered" /\ committed = 0
      /\ cur \in AllErrors
  BY DEF DefaultHandler, IInv, CommitInv, ControlInv, TypeOK
<1>2. Resolve(cur) \in Statuses \ Successes /\ "default" \in Writers \ {"legacy", "unmatched"}
  BY <1>1, Resolved DEF Writers
<1>3. AnswerInv' /\ AnswerTypes' /\ wire' # <<>>
  BY <1>1, <1>2, Types, ErrorCommitted
<1> QED
  BY <1>1, <1>3, HandlerStep DEF AfterRegistered

LEMMA CustomHandlerStep == IInv /\ CustomHandler => IInv'
<1> SUFFICES ASSUME IInv, CustomHandler PROVE IInv'
  OBVIOUS
<1>1. /\ CustomAnswer("custom") /\ AfterRegistered
      /\ UNCHANGED <<setup, control, books>>
      /\ pc = "registered" /\ committed = 0
  BY DEF CustomHandler, IInv, CommitInv
<1>2. AnswerInv' /\ AnswerTypes' /\ (committed' # 0 => wire' # <<>>)
  BY <1>1, Types, CustomAnswered
<1> QED
  BY <1>1, <1>2, HandlerStep DEF AfterRegistered

LEMMA CustomFallbackStep == IInv /\ CustomFallback => IInv'
<1> SUFFICES ASSUME IInv, CustomFallback PROVE IInv'
  OBVIOUS
<1>1. /\ CustomAnswer("fallback")
      /\ UNCHANGED <<setup, control, books>>
      /\ pc = "fallback" /\ pc' = "answered" /\ committed = 0 /\ setup.Fallback = "custom"
  BY DEF CustomFallback, IInv, CommitInv
<1>2. AnswerInv' /\ AnswerTypes' /\ (committed' # 0 => wire' # <<>>)
  BY <1>1, Types, CustomAnswered
<1> QED
  BY <1>1, <1>2, HandlerStep

LEMMA LegacyFallbackStep == IInv /\ LegacyFallback => IInv'
<1> SUFFICES ASSUME IInv, LegacyFallback PROVE IInv'
  OBVIOUS
<1>1. PICK whole \in BOOLEAN : Put(LegacyStatus(cur), "legacy", whole)
  BY DEF LegacyFallback, Writes
<1> DEFINE e == [status |-> LegacyStatus(cur), by |-> "legacy", whole |-> whole,
                 saved |-> saves # <<>>]
<1>2. /\ UNCHANGED <<setup, control, books>>
      /\ pc = "fallback" /\ pc' = "answered" /\ committed = 0
      /\ saves' = saves /\ result' = nil /\ committed' = Resolve(cur)
      /\ wire' = Append(wire, e)
      /\ cur \in AllErrors
  BY <1>1 DEF LegacyFallback, IInv, CommitInv, ControlInv, TypeOK, MarkCommitted, Put
<1>3. /\ LegacyStatus(cur) \in Statuses \ Successes
      /\ committed' \in Statuses
      /\ committed' # 0
      /\ e \in Response
  BY <1>2, Resolved, Codes DEF Response, Writers
<1>4. AnswerInv'
  BY <1>2, <1>3, Types, OneWritten DEF Saved
<1>5. AnswerTypes' /\ wire' # <<>>
  BY <1>2, <1>3, Types DEF AnswerTypes
<1> QED
  BY <1>2, <1>3, <1>4, <1>5, HandlerStep

LEMMA DispatchedStep == IInv /\ Dispatched => IInv'
<1> SUFFICES ASSUME IInv, Dispatched PROVE IInv'
  OBVIOUS
<1>1. /\ UNCHANGED <<setup, control, books>>
      /\ pc = "answered" /\ pc' = "adapter" /\ from \in {"middleware", "router"}
      /\ committed # 0 => wire # <<>>
      /\ committed = 0 => setup.Fallback = "custom"
  BY Types DEF Dispatched, IInv, CommitInv
<1>2. /\ AnswerInv' /\ AnswerTypes'
      /\ wire' = <<>> => setup.Mode = "strict" /\ saves' = <<"failed">> /\ committed = 0
  <2>1. CASE committed # 0
    <3>1. UNCHANGED answer
      BY <2>1 DEF Dispatched
    <3> QED
      BY <1>1, <2>1, <3>1, Types, NothingWritten DEF answer, Saved, AnswerTypes
  <2>2. CASE committed = 0
    <3>1. /\ RunHooks
          /\ IF HookError
             THEN wire' = wire
             ELSE \E whole \in Writes : Put(500, "adapter", whole)
          /\ committed' = 500 /\ result' = nil
      BY <2>2 DEF Dispatched, MarkCommitted
    <3>2. /\ Saved /\ saves' # <<>> /\ saves' \in Seq(SaveResults)
          /\ saves # <<>> => ~HookError
          /\ saves = <<>> => (HookError <=> setup.Mode = "strict" /\ saves' = <<"failed">>)
      BY <3>1, Types, HooksRunOnce
    <3>3. CASE HookError
      <4>1. AnswerInv'
        BY <1>1, <2>2, <3>1, <3>2, <3>3, Codes, Types, NothingWritten
      <4> QED
        BY <2>2, <3>1, <3>2, <3>3, <4>1, Types, Codes DEF AnswerTypes
    <3>4. CASE ~HookError
      <4>1. PICK whole \in BOOLEAN : Put(500, "adapter", whole)
        BY <3>1, <3>4 DEF Writes
      <4> DEFINE e == [status |-> 500, by |-> "adapter", whole |-> whole, saved |-> TRUE]
      <4>2. wire' = Append(wire, e)
        BY <3>2, <4>1 DEF Put
      <4>3. e \in Response /\ 500 \notin Successes /\ committed' # 0
        BY <3>1, Codes DEF Response, Writers, Successes
      <4>4. AnswerInv'
        BY <1>1, <2>2, <3>2, <4>2, <4>3, Types, OneWritten
      <4>5. AnswerTypes' /\ wire' # <<>>
        BY SMTT(20), <3>1, <3>2, <4>2, <4>3, Types, Codes DEF AnswerTypes
      <4> QED
        BY <4>4, <4>5
    <3> QED
      BY <3>3, <3>4
  <2> QED
    BY <2>1, <2>2
<1> QED
  BY <1>1, <1>2 DEF IInv, TypeOK, AnswerTypes, SaveResults, ControlInv, CommitInv, HandlerInv,
     ReturnInv, BooksInv, Unfinished, Carries, control, books, StageNames, Answering, InEndpoint

LEMMA FinishStep == IInv /\ Finish => IInv'
<1> SUFFICES ASSUME IInv, Finish PROVE IInv'
  OBVIOUS
<1>1. /\ UNCHANGED <<setup, control, books, result, committed, saves>>
      /\ pc = "adapter" /\ pc' = "done"
  BY DEF Finish
<1>2. AnswerInv' /\ AnswerTypes' /\ (wire' = <<>> => wire = <<>>)
  <2>1. CASE wire' = wire
    BY <1>1, <2>1, Types, NothingWritten DEF AnswerTypes, Saved
  <2>2. CASE wire' # wire
    <3> DEFINE e == [status |-> wire[Len(wire)].status, by |-> "unmatched", whole |-> TRUE,
                     saved |-> FALSE]
    <3>1. Unmatched /\ wire' = Append(wire, e)
      BY <2>2 DEF Finish
    <3>2. wire \in Seq(Response) /\ wire[Len(wire)].status \in {404, 405}
      BY <3>1, Types DEF Unmatched, AnswerTypes
    <3>3. e \in Response /\ e.status \notin Successes /\ e.by = "unmatched" /\ ~e.saved
      BY <3>2, Codes DEF Response, Writers, Successes
    <3>4. AnswerInv'
      BY <1>1, <3>1, <3>3, Types, OneWritten DEF Saved
    <3>5. AnswerTypes' /\ wire' # <<>>
      BY <1>1, <3>1, <3>2, <3>3, Types DEF AnswerTypes
    <3> QED
      BY <3>4, <3>5
  <2> QED
    BY <2>1, <2>2
<1> QED
  BY <1>1, <1>2 DEF IInv, TypeOK, AnswerTypes, SaveResults, ControlInv, CommitInv, HandlerInv,
     ReturnInv, BooksInv, Unfinished, Carries, control, books, StageNames, Answering, InEndpoint

-----------------------------------------------------------------------------
LEMMA Invariance == Spec => []IInv
<1>1. IInv /\ [Next]_vars => IInv'
  <2> SUFFICES ASSUME IInv, [Next]_vars PROVE IInv'
    OBVIOUS
  <2>1. CASE Silent
    BY <2>1, SilentType, SilentControl, SilentAnswer, SilentCommit, SilentHandler, SilentReturn,
       SilentBooks DEF IInv
  <2>2. CASE HandlerWrites \/ Render
    BY <2>2, HandlerWritesStep, RenderStep
  <2>3. CASE DefaultHandler \/ CustomHandler \/ CustomFallback \/ LegacyFallback
    BY <2>3, DefaultHandlerStep, CustomHandlerStep, CustomFallbackStep, LegacyFallbackStep
  <2>4. CASE Dispatched \/ Finish
    BY <2>4, DispatchedStep, FinishStep
  <2>5. CASE UNCHANGED vars
    BY <2>5 DEF vars, control, books, answer, IInv, TypeOK, ControlInv, AnswerInv, NoSecondAnswer,
       SavedOnceBefore, StrictNoSuccess, CommitInv, HandlerInv, ReturnInv, BooksInv, Unfinished, Carries
  <2>6. Next => Silent \/ HandlerWrites \/ Render \/ DefaultHandler \/ CustomHandler
                \/ CustomFallback \/ LegacyFallback \/ Dispatched \/ Finish
    BY DEF Next, Adapter, Lifecycle, ErrorDispatch, Silent
  <2> QED
    BY <2>1, <2>2, <2>3, <2>4, <2>5, <2>6
<1> QED
  BY InitInv, <1>1, PTL DEF Spec

(* One layer answers: CommitState (commit.go:8-11) keeps every other from   *)
(* writing after a whole response, and a request that is done without any   *)
(* has a fallback of the application's that stayed silent.                  *)
THEOREM OneAnswer == Spec => []AnsweredOnce
<1>1. IInv => AnsweredOnce
  BY DEF IInv, AnswerInv, ReturnInv, AnsweredOnce, Answered
<1> QED
  BY Invariance, <1>1, PTL

(* The session is saved once and before the answer, and with strict mode a  *)
(* save that failed is followed by no success (session/middleware.go:19-22).*)
THEOREM SavedFirst == Spec => []SessionFirst
<1>1. IInv => SessionFirst
  BY DEF IInv, AnswerInv, SessionFirst
<1> QED
  BY Invariance, <1>1, PTL

(* Whatever fails or panics, the finalizer runs once, and Update closes the *)
(* record of an inserted request, and of no other, with a decided outcome.  *)
THEOREM RecordClosed == Spec => []Bookkeeping
<1>1. IInv => Bookkeeping
  <2> SUFFICES ASSUME IInv, pc \in {"adapter", "done", "escaped"}
               PROVE  /\ finalized = IF from = "middleware" \/ ~Carries("finalizer") THEN 0 ELSE 1
                      /\ Len(updates) = IF inserted THEN 1 ELSE 0
    BY DEF IInv, BooksInv, Bookkeeping
  <2>1. ~Unfinished
    BY DEF Unfinished, StageNames, Answering
  <2> QED
    BY <2>1 DEF IInv, BooksInv
<1> QED
  BY Invariance, <1>1, PTL

(* The types of the variables.                                              *)
THEOREM TypeCorrect == Spec => []TypeOK
BY Invariance, PTL DEF IInv

=============================================================================
