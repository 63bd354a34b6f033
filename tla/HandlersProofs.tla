--------------------------- MODULE HandlersProofs ---------------------------
(* Proofs about the version 1 handlers, for any number of requests, any      *)
(* identifiers, settings and errors: what a client gets and what the record  *)
(* of its request says (V1Handler), that the DML and the query handler are    *)
(* such handlers, and what each of the two promises of its own.              *)
EXTENDS QueryHandler, SequenceTheorems, TLAPS

Given == [code : Nat, sent : BOOLEAN]
Early == {"parse", "simulate", "check", "insert", "init", "handle"}
Recovering == {"finalize", "update", "reraise"}

(* The answers a request may get when nothing panics.                        *)
Limit == IF conf.receipt /\ conf.file THEN 2 ELSE 1

(* The outcome is what the last answer was.                                  *)
Agrees(r) ==
  /\ answers[r] # <<>>
  /\ Last(r).code = outcome[r].status
  /\ outcome[r].status = IF outcome[r].err = NoError THEN 200 ELSE ErrorStatus[outcome[r].err]

(* The outcome of a request that has met no error: OK when an answer was     *)
(* complete.                                                                 *)
Fresh(r) == outcome[r] = [err |-> NoError, status |-> IF respSent[r] THEN 200 ELSE 0]

(* The outcome of a panic that no RecoveryHandler has.                       *)
Broken(r) == outcome[r].err # NoError /\ outcome[r].status = 500

(* Answers given, and still to give, at every place of a request.            *)
CountInv(r) ==
  /\ pc[r] \in Early => answers[r] = <<>>
  /\ pc[r] = "answer" => todo[r] # <<>> /\ Len(answers[r]) + Len(todo[r]) <= Limit
  /\ pc[r] \in Recovering \cup {"done", "escaped"} => Len(answers[r]) <= Limit
  /\ pc[r] = "crashed" => Len(answers[r]) <= IF conf.recovery THEN Limit ELSE Limit + 1

(* What the last of them was.  A RecoveryHandler leaves the outcome as it    *)
(* was; without one the panic is the outcome until it is answered.           *)
OutcomeInv(r) ==
  /\ pc[r] \in Early \cup {"answer", "done"} => r \notin panic
  /\ pc[r] \in {"reraise", "crashed", "escaped"} => r \in panic
  /\ pc[r] \in {"finalize", "update", "done"} /\ r \notin panic => Agrees(r)
  /\ pc[r] \in Early \cup {"answer"} => Fresh(r)
  /\ pc[r] \in Recovering \cup {"crashed"} /\ r \in panic =>
       IF conf.recovery THEN Fresh(r) ELSE Broken(r)
  /\ pc[r] = "crashed" /\ ~conf.recovery =>
       answers[r] # <<>> /\ Last(r).code = PanicStatus(outcome[r].err)

(* The row of a request, from its insert to its update.                      *)
RowInv(r) ==
  /\ closed[r] \in Outcomes => pc[r] \in {"reraise", "done", "crashed"} /\ closed[r] = outcome[r]
  /\ pc[r] \in {"parse", "simulate", "check", "insert"} => r \notin rows
  /\ r \in inserted => r \in rows
  /\ r \in inserted /\ pc[r] \in {"reraise", "done", "crashed"} => closed[r] # NotClosed
  /\ r \in rows \ inserted =>
       /\ pc[r] \in {"finalize", "update", "done", "escaped"}
       /\ pc[r] # "escaped" => r \notin panic
       /\ outcome[r].err \in ErrorNames
  /\ conf.persist /\ ~conf.simulation =>
       (pc[r] \in {"init", "handle"} \/ r \in handled => r \in inserted)

(* With a unique key no two rows have the same identifier.                   *)
KeyInv == conf.unique => \A r, q \in rows : (Id[r] = Id[q] => r = q)

IInv == TypeOK /\ (\A r \in Requests : CountInv(r) /\ OutcomeInv(r) /\ RowInv(r)) /\ KeyInv

-----------------------------------------------------------------------------
(* One step of one request.                                                  *)

(* Nothing of q changes.                                                     *)
Same(q) ==
  /\ pc'[q] = pc[q] /\ todo'[q] = todo[q] /\ answers'[q] = answers[q]
  /\ outcome'[q] = outcome[q] /\ respSent'[q] = respSent[q] /\ closed'[q] = closed[q]
  /\ q \in panic' <=> q \in panic
  /\ q \in rows' <=> q \in rows
  /\ q \in inserted' <=> q \in inserted
  /\ q \in handled' <=> q \in handled

LEMMA SameKeeps ==
  ASSUME NEW q \in Requests, CountInv(q), OutcomeInv(q), RowInv(q), Same(q), conf' = conf
  PROVE  CountInv(q)' /\ OutcomeInv(q)' /\ RowInv(q)'
<1>1. Limit' = Limit
  BY DEF Limit
<1>2. CountInv(q)'
  BY <1>1 DEF CountInv, Same, Early, Recovering
<1>3. /\ Last(q)' = Last(q) /\ (Agrees(q) => Agrees(q)')
      /\ Fresh(q)' = Fresh(q) /\ Broken(q)' = Broken(q)
  BY DEF Agrees, Fresh, Broken, Last, Same
<1>4. OutcomeInv(q)'
  BY <1>3 DEF OutcomeInv, Same, Early, Recovering, PanicStatus
<1>5. RowInv(q)'
  BY DEF RowInv, Same
<1> QED
  BY <1>2, <1>4, <1>5

LEMMA OneStepKeeps ==
  ASSUME IInv, NEW r \in Requests, TypeOK', conf' = conf, \A q \in Requests \ {r} : Same(q),
         CountInv(r)', OutcomeInv(r)', RowInv(r)', KeyInv'
  PROVE  IInv'
<1>1. \A q \in Requests \ {r} : CountInv(q)' /\ OutcomeInv(q)' /\ RowInv(q)'
  BY SameKeeps DEF IInv
<1> QED
  BY <1>1 DEF IInv

(* respond adds one answer.                                                  *)
LEMMA RespondAdds ==
  ASSUME TypeOK, NEW r \in Requests, NEW code \in Nat, NEW sent \in BOOLEAN, Respond(r, code, sent)
  PROVE  /\ answers' \in [Requests -> Seq(Given)] /\ status' \in [Requests -> Nat]
         /\ Len(answers[r]) \in Nat /\ Len(answers'[r]) = Len(answers[r]) + 1
         /\ answers'[r] # <<>> /\ answers'[r][Len(answers'[r])].code = code
         /\ \A q \in Requests \ {r} : answers'[q] = answers[q]
<1> DEFINE a == [code |-> code, sent |-> sent]
<1>1. a \in Given /\ a.code = code
  BY DEF Given
<1>2. answers \in [Requests -> Seq(Given)] /\ answers[r] \in Seq(Given)
  BY DEF TypeOK, Given
<1>3. answers' = [answers EXCEPT ![r] = Append(@, a)] /\ status' = [status EXCEPT ![r] = code]
  BY DEF Respond
<1> HIDE DEF a
<1>4. /\ Append(answers[r], a) \in Seq(Given)
      /\ Len(Append(answers[r], a)) = Len(answers[r]) + 1
      /\ Append(answers[r], a)[Len(answers[r]) + 1] = a
      /\ Len(answers[r]) \in Nat
  BY <1>1, <1>2
<1>5. answers'[r] = Append(answers[r], a)
  BY <1>2, <1>3
<1>6. answers'[r] # <<>>
  <2>1. Len(answers'[r]) # 0
    BY <1>4, <1>5
  <2> QED
    BY <2>1
<1> QED
  BY <1>1, <1>2, <1>3, <1>4, <1>5, <1>6 DEF TypeOK

(* A move of r from one place to another.                                    *)
LEMMA MoveFacts ==
  ASSUME TypeOK, NEW r \in Requests, NEW from, NEW to \in Phases, Go(r, from, to)
  PROVE  /\ pc[r] = from /\ pc'[r] = to /\ pc' \in [Requests -> Phases]
         /\ \A q \in Requests \ {r} : pc'[q] = pc[q]
  BY DEF TypeOK, Go

(* Parse, Check, Initialize, Finalize.                                       *)
LEMMA MoveKeeps ==
  ASSUME IInv, NEW r \in Requests, NEW from \in Phases, NEW to \in Phases, Go(r, from, to),
         UNCHANGED <<conf, todo, panic, answerVars, recordVars, handled>>,
         \/ from \in Early /\ to \in Early
         \/ from = "finalize" /\ to = "update",
         r \in inserted \/ to \notin {"init", "handle"} \/ ~(conf.persist /\ ~conf.simulation),
         r \notin rows \/ to \notin {"parse", "simulate", "check", "insert"}
  PROVE  IInv'
<1> USE DEF answerVars, recordVars
<1>1. /\ pc[r] = from /\ pc'[r] = to /\ pc' \in [Requests -> Phases]
      /\ \A q \in Requests \ {r} : pc'[q] = pc[q]
  BY MoveFacts DEF IInv
<1>2. TypeOK'
  BY <1>1 DEF IInv, TypeOK
<1>3. \A q \in Requests \ {r} : Same(q)
  BY <1>1 DEF Same
<1>4. CountInv(r)'
  BY <1>1 DEF IInv, CountInv, Early, Recovering, Limit
<1>5. OutcomeInv(r)'
  BY <1>1 DEF IInv, OutcomeInv, Early, Recovering, Agrees, Fresh, Broken, Last
<1>6. RowInv(r)'
  BY <1>1 DEF IInv, RowInv, Early
<1>7. KeyInv'
  BY DEF IInv, KeyInv
<1> QED
  BY <1>2, <1>3, <1>4, <1>5, <1>6, <1>7, OneStepKeeps

(* An error is answered: the first answer of the request.                    *)
LEMMA ErrorKeeps ==
  ASSUME IInv, NEW r \in Requests, NEW from \in Early, NEW e \in ErrorNames,
         RespondError(r, e), Go(r, from, "finalize"),
         UNCHANGED <<conf, todo, panic, inserted, closed>>,
         rows' = rows \/ (from = "insert" /\ r \notin inserted /\ rows' = rows \cup {r}),
         handled' = handled \/ (from = "handle" /\ handled' = handled \cup {r}),
         KeyInv'
  PROVE  IInv'
<1> USE HandlerAssumption
<1>1. /\ pc[r] = from /\ pc'[r] = "finalize" /\ pc' \in [Requests -> Phases]
      /\ \A q \in Requests \ {r} : pc'[q] = pc[q]
  BY MoveFacts DEF IInv, Phases
<1>2. ErrorStatus[e] \in Nat /\ e # NoError
  OBVIOUS
<1>3. /\ answers' \in [Requests -> Seq(Given)] /\ status' \in [Requests -> Nat]
      /\ Len(answers[r]) \in Nat /\ Len(answers'[r]) = Len(answers[r]) + 1
      /\ answers'[r] # <<>> /\ answers'[r][Len(answers'[r])].code = ErrorStatus[e]
      /\ \A q \in Requests \ {r} : answers'[q] = answers[q]
  <2>1. PICK sent \in BOOLEAN : Respond(r, ErrorStatus[e], sent)
    BY DEF RespondError
  <2> QED
    BY <1>2, <2>1, RespondAdds DEF IInv
<1>4. /\ outcome' \in [Requests -> Outcomes] /\ respSent' = respSent
      /\ outcome'[r].err = e /\ outcome'[r].status = ErrorStatus[e]
      /\ \A q \in Requests \ {r} : outcome'[q] = outcome[q]
  BY <1>2 DEF RespondError, IInv, TypeOK, Outcomes
<1>5. answers[r] = <<>> /\ r \notin panic /\ closed[r] \notin Outcomes
  BY <1>1 DEF IInv, CountInv, OutcomeInv, RowInv, Early
<1>6. TypeOK'
  BY <1>1, <1>3, <1>4 DEF IInv, TypeOK, Given
<1>7. \A q \in Requests \ {r} : Same(q)
  BY <1>1, <1>3, <1>4 DEF Same
<1>8. CountInv(r)'
  BY <1>1, <1>3, <1>5, EmptySeq DEF CountInv, Early, Recovering, Limit
<1>9. OutcomeInv(r)'
  BY <1>1, <1>2, <1>3, <1>4, <1>5 DEF OutcomeInv, Early, Recovering, Agrees, Last
<1>10. RowInv(r)'
  BY <1>1, <1>4, <1>5 DEF IInv, RowInv, Early
<1> QED
  BY <1>6, <1>7, <1>8, <1>9, <1>10, OneStepKeeps

LEMMA FailKeeps ==
  ASSUME IInv, NEW r \in Requests, NEW from \in Early, Fail(r, from), rows' = rows
  PROVE  IInv'
<1>1. PICK e \in ErrorNames : RespondError(r, e)
  BY DEF Fail
<1>2. KeyInv'
  BY DEF IInv, KeyInv, Fail
<1> QED
  BY <1>1, <1>2, ErrorKeeps DEF Fail

LEMMA InsertKeeps ==
  ASSUME IInv, NEW r \in Requests, Insert(r)
  PROVE  IInv'
<1> USE DEF Insert, answerVars
<1>1. /\ pc[r] = "insert" /\ pc'[r] = "init" /\ pc' \in [Requests -> Phases]
      /\ \A q \in Requests \ {r} : pc'[q] = pc[q]
  BY MoveFacts DEF IInv, Phases
<1>2. TypeOK'
  BY <1>1 DEF IInv, TypeOK
<1>3. \A q \in Requests \ {r} : Same(q)
  BY DEF Same, Go, IInv, TypeOK
<1>4. CountInv(r)' /\ OutcomeInv(r)'
  BY <1>1 DEF IInv, CountInv, OutcomeInv, Early, Recovering, Fresh
<1>5. RowInv(r)'
  BY <1>1 DEF IInv, RowInv
<1>6. KeyInv'
  BY DEF IInv, KeyInv, Duplicates
<1> QED
  BY <1>2, <1>3, <1>4, <1>5, <1>6, OneStepKeeps

LEMMA FailToInsertKeeps ==
  ASSUME IInv, NEW r \in Requests, FailToInsert(r)
  PROVE  IInv'
<1>1. PICK e \in ErrorNames : RespondError(r, e)
  BY DEF FailToInsert, Fail
<1>2. pc[r] = "insert" /\ r \notin inserted
  BY DEF FailToInsert, Fail, Go, IInv, RowInv
<1>3. KeyInv'
  BY DEF IInv, KeyInv, FailToInsert, Fail, Duplicates
<1> QED
  BY <1>1, <1>2, <1>3, ErrorKeeps DEF FailToInsert, Fail, Early

LEMMA FailToHandleKeeps ==
  ASSUME IInv, NEW r \in Requests, FailToHandle(r)
  PROVE  IInv'
<1> USE DEF FailToHandle, recordVars
<1>1. PICK e \in ErrorNames : RespondError(r, e)
  OBVIOUS
<1>2. KeyInv'
  BY DEF IInv, KeyInv
<1> QED
  BY <1>1, <1>2, ErrorKeeps DEF Early

(* Handle and Simulate: what is left to answer.                              *)
LEMMA HandleKeeps ==
  ASSUME IInv, NEW r \in Requests, NEW from \in {"handle", "simulate"}, Go(r, from, "answer"),
         NEW new \in Seq({"receipt", "file", "json"}), Len(new) \in 1 .. Limit,
         todo' = [todo EXCEPT ![r] = new],
         handled' = handled \/ (from = "handle" /\ handled' = handled \cup {r}),
         UNCHANGED <<conf, panic, answerVars, recordVars>>
  PROVE  IInv'
<1> USE DEF answerVars, recordVars
<1>1. /\ pc[r] = from /\ pc'[r] = "answer" /\ pc' \in [Requests -> Phases]
      /\ \A q \in Requests \ {r} : pc'[q] = pc[q]
  BY MoveFacts DEF IInv, Phases
<1>2. /\ todo'[r] = new /\ todo' \in [Requests -> Seq({"receipt", "file", "json"})]
      /\ \A q \in Requests \ {r} : todo'[q] = todo[q]
  BY DEF IInv, TypeOK
<1>3. TypeOK'
  BY <1>1, <1>2 DEF IInv, TypeOK
<1>4. \A q \in Requests \ {r} : Same(q)
  BY <1>1, <1>2 DEF Same
<1>5. answers[r] = <<>> /\ r \notin panic
  BY <1>1 DEF IInv, CountInv, OutcomeInv, Early
<1>6. CountInv(r)'
  <2>1. Len(new) \in Nat /\ Len(new) <= Limit /\ new # <<>>
    BY DEF Limit
  <2> QED
    BY <1>1, <1>2, <1>5, <2>1, EmptySeq DEF CountInv, Early, Recovering, Limit
<1>7. OutcomeInv(r)'
  BY <1>1, <1>5 DEF IInv, OutcomeInv, Early, Recovering, Fresh
<1>8. RowInv(r)'
  BY <1>1 DEF IInv, RowInv
<1>9. KeyInv'
  BY DEF IInv, KeyInv
<1> QED
  BY <1>3, <1>4, <1>6, <1>7, <1>8, <1>9, OneStepKeeps

LEMMA HandleReturns ==
  ASSUME IInv, NEW r \in Requests, Handle(r)
  PROVE  IInv'
<1>1. PICK receipt \in SUBSET {"receipt"}, file \in SUBSET {"file"} :
        /\ receipt # {} => conf.receipt
        /\ file # {} => conf.file
        /\ todo' = [todo EXCEPT ![r] =
                      IF receipt \cup file = {} THEN <<"json">>
                      ELSE (IF receipt = {} THEN <<>> ELSE <<"receipt">>)
                           \o (IF file = {} THEN <<>> ELSE <<"file">>)]
  BY DEF Handle
<1> DEFINE new == IF receipt \cup file = {} THEN <<"json">>
                  ELSE (IF receipt = {} THEN <<>> ELSE <<"receipt">>)
                       \o (IF file = {} THEN <<>> ELSE <<"file">>)
<1> DEFINE S == {"receipt", "file", "json"}
<1>2. Limit \in {1, 2} /\ (receipt # {} /\ file # {} => Limit = 2)
  BY <1>1 DEF Limit
<1>3. new \in Seq(S) /\ Len(new) \in 1 .. Limit
  <2>1. \A s \in S : <<s>> \in Seq(S) /\ Len(<<s>>) = 1
    OBVIOUS
  <2>2. ASSUME NEW s \in S, new = <<s>>
        PROVE  new \in Seq(S) /\ Len(new) \in 1 .. Limit
    <3> HIDE DEF new, S
    <3> QED
      BY <1>2, <2>1, <2>2
  <2>3. CASE receipt = {} /\ file = {}
    BY <2>2, <2>3
  <2>4. CASE receipt = {} /\ file # {}
    <3>1. new = <<>> \o <<"file">>
      BY <2>4
    <3>2. new = <<"file">>
      BY <2>1, <3>1, ConcatEmptySeq
    <3> QED
      BY <2>2, <3>2
  <2>5. CASE receipt # {} /\ file = {}
    <3>1. new = <<"receipt">> \o <<>>
      BY <2>5
    <3>2. new = <<"receipt">>
      BY <2>1, <3>1, ConcatEmptySeq
    <3> QED
      BY <2>2, <3>2
  <2>6. CASE receipt # {} /\ file # {}
    <3>1. new = <<"receipt">> \o <<"file">>
      BY <2>6
    <3>2. /\ <<"receipt">> \in Seq(S) /\ Len(<<"receipt">>) = 1
          /\ <<"file">> \in Seq(S) /\ Len(<<"file">>) = 1
      BY <2>1
    <3> HIDE DEF new, S
    <3>3. new \in Seq(S) /\ Len(new) = 1 + 1
      BY <3>1, <3>2, ConcatProperties
    <3> QED
      BY <1>2, <2>6, <3>3
  <2> QED
    BY <2>3, <2>4, <2>5, <2>6
<1> HIDE DEF new
<1>4. todo' = [todo EXCEPT ![r] = new]
  BY <1>1 DEF new
<1> QED
  BY <1>3, <1>4, HandleKeeps DEF Handle

LEMMA SimulateReturns ==
  ASSUME IInv, NEW r \in Requests, Simulate(r)
  PROVE  IInv'
<1>1. <<"json">> \in Seq({"receipt", "file", "json"}) /\ Len(<<"json">>) \in 1 .. Limit
  BY DEF Limit
<1> QED
  BY <1>1, HandleKeeps DEF Simulate

(* One of the answers of a handler that succeeded.                           *)
LEMMA AnswerKeeps ==
  ASSUME IInv, NEW r \in Requests, Answer(r)
  PROVE  IInv'
<1> USE DEF Answer, recordVars
<1>1. /\ pc[r] = "answer" /\ pc' \in [Requests -> Phases]
      /\ pc'[r] = IF Len(todo[r]) = 1 THEN "finalize" ELSE "answer"
      /\ \A q \in Requests \ {r} : pc'[q] = pc[q]
  BY DEF IInv, TypeOK, Phases
<1>2. /\ todo[r] # <<>> /\ r \notin panic
      /\ Len(answers[r]) + Len(todo[r]) <= Limit
      /\ todo[r] \in Seq({"receipt", "file", "json"})
  BY <1>1 DEF IInv, TypeOK, CountInv, OutcomeInv
<1>3. /\ answers' \in [Requests -> Seq(Given)] /\ status' \in [Requests -> Nat]
      /\ Len(answers[r]) \in Nat /\ Len(answers'[r]) = Len(answers[r]) + 1
      /\ answers'[r] # <<>> /\ answers'[r][Len(answers'[r])].code = 200
      /\ \A q \in Requests \ {r} : answers'[q] = answers[q]
  <2>1. PICK sent \in BOOLEAN : Respond(r, 200, sent)
    OBVIOUS
  <2> QED
    BY <2>1, RespondAdds DEF IInv
<1>4. /\ outcome' \in [Requests -> Outcomes] /\ respSent' \in [Requests -> BOOLEAN]
      /\ outcome'[r] = [err |-> NoError, status |-> 200] /\ respSent'[r]
      /\ \A q \in Requests \ {r} : outcome'[q] = outcome[q] /\ respSent'[q] = respSent[q]
  BY DEF IInv, TypeOK, Outcomes
<1>5. /\ Tail(todo[r]) \in Seq({"receipt", "file", "json"})
      /\ Len(todo[r]) \in Nat \ {0} /\ Len(Tail(todo[r])) = Len(todo[r]) - 1
      /\ Len(todo[r]) # 1 => Tail(todo[r]) # <<>>
  <2>1. Len(todo[r]) \in Nat \ {0}
    BY <1>2, EmptySeq
  <2>2. /\ Tail(todo[r]) \in Seq({"receipt", "file", "json"})
        /\ Len(Tail(todo[r])) = Len(todo[r]) - 1
    BY <1>2, HeadTailProperties
  <2>3. ASSUME Tail(todo[r]) = <<>> PROVE Len(todo[r]) = 1
    <3>1. Len(Tail(todo[r])) = 0
      BY <2>3, EmptySeq
    <3> QED
      BY <2>1, <2>2, <3>1
  <2> QED
    BY <2>1, <2>2, <2>3
<1>6. /\ todo' \in [Requests -> Seq({"receipt", "file", "json"})] /\ todo'[r] = Tail(todo[r])
      /\ \A q \in Requests \ {r} : todo'[q] = todo[q]
  BY <1>5 DEF IInv, TypeOK
<1>7. TypeOK'
  BY <1>1, <1>3, <1>4, <1>6 DEF IInv, TypeOK, Given
<1>8. \A q \in Requests \ {r} : Same(q)
  BY <1>1, <1>3, <1>4, <1>6 DEF Same
<1>9. CountInv(r)'
  <2>1. Limit' = Limit /\ Limit \in Nat
    BY DEF Limit
  <2>2. \A a \in Nat, t \in Nat \ {0}, l \in Nat : a + t <= l => a + 1 <= l /\ a + 1 + (t - 1) <= l
    OBVIOUS
  <2>3. Len(answers'[r]) <= Limit /\ Len(answers'[r]) + Len(Tail(todo[r])) <= Limit
    <3> HIDE DEF Answer
    <3>1. /\ Len(answers[r]) \in Nat /\ Len(todo[r]) \in Nat \ {0}
          /\ Len(answers[r]) + Len(todo[r]) <= Limit
      BY <1>2, <1>3, <1>5
    <3>2. Len(answers[r]) + 1 <= Limit /\ Len(answers[r]) + 1 + (Len(todo[r]) - 1) <= Limit
      BY <2>1, <2>2, <3>1
    <3>3. Len(answers'[r]) = Len(answers[r]) + 1
      BY <1>3
    <3>4. Len(Tail(todo[r])) = Len(todo[r]) - 1
      BY <1>5
    <3> QED
      BY <3>2, <3>3, <3>4
  <2>4. pc'[r] = "finalize" \/ (pc'[r] = "answer" /\ todo'[r] # <<>>)
    BY <1>1, <1>5, <1>6
  <2> QED
    BY <1>6, <2>1, <2>3, <2>4 DEF CountInv, Early, Recovering
<1>10. OutcomeInv(r)'
  <2>1. Fresh(r)' /\ Agrees(r)'
    BY <1>3, <1>4 DEF Fresh, Agrees, Last
  <2> QED
    BY <1>1, <1>2, <2>1 DEF OutcomeInv, Early, Recovering
<1>11. RowInv(r)'
  BY <1>1, <1>4 DEF IInv, RowInv
<1>12. KeyInv'
  BY DEF IInv, KeyInv
<1> QED
  BY <1>7, <1>8, <1>9, <1>10, <1>11, <1>12, OneStepKeeps

(* A panic before the response is through.                                   *)
LEMMA PanicKeeps ==
  ASSUME IInv, NEW r \in Requests, pc[r] \in Early \cup {"answer"}, Panic(r),
         handled' = handled \/ (pc[r] = "handle" /\ handled' = handled \cup {r}),
         answers' \in [Requests -> Seq(Given)], status' \in [Requests -> Nat],
         Len(answers'[r]) \in 0 .. Limit,
         \A q \in Requests \ {r} : answers'[q] = answers[q]
  PROVE  IInv'
<1> USE DEF Panic, recordVars
<1>1. /\ pc'[r] \in {"finalize", "escaped"} /\ pc' \in [Requests -> Phases]
      /\ ~conf.recovery => pc'[r] = "finalize"
      /\ \A q \in Requests \ {r} : pc'[q] = pc[q]
  <2>1. PICK to \in {"finalize", "escaped"} :
          pc' = [pc EXCEPT ![r] = to] /\ (~conf.recovery => to = "finalize")
    <3>1. CASE conf.recovery
      BY <3>1
    <3>2. CASE ~conf.recovery
      BY <3>2
    <3> QED
      BY <3>1, <3>2
  <2> QED
    BY <2>1 DEF IInv, TypeOK, Phases
<1>2. /\ r \in panic' /\ r \notin panic
      /\ \A q \in Requests \ {r} : q \in panic' <=> q \in panic
  BY DEF IInv, OutcomeInv, Early
<1>3. /\ outcome' \in [Requests -> Outcomes]
      /\ IF conf.recovery THEN Fresh(r)' ELSE Broken(r)'
      /\ \A q \in Requests \ {r} : outcome'[q] = outcome[q]
  <2>1. CASE conf.recovery
    BY <2>1 DEF IInv, TypeOK, OutcomeInv, Fresh
  <2>2. CASE ~conf.recovery
    <3>1. PICK e \in ErrorNames \cup {Panicked} :
            outcome' = [outcome EXCEPT ![r] = [err |-> e, status |-> 500]]
      BY <2>2
    <3> DEFINE new == [err |-> e, status |-> 500]
    <3>2. new \in Outcomes /\ new.err # NoError /\ new.status = 500
      BY HandlerAssumption DEF Outcomes
    <3>3. outcome \in [Requests -> Outcomes]
      BY DEF IInv, TypeOK
    <3> HIDE DEF new, Panic
    <3>4. /\ outcome' \in [Requests -> Outcomes] /\ outcome'[r] = new
          /\ \A q \in Requests \ {r} : outcome'[q] = outcome[q]
      BY <3>1, <3>2, <3>3 DEF new
    <3>5. Broken(r)'
      BY <3>2, <3>4 DEF Broken
    <3> QED
      BY <2>2, <3>4, <3>5
  <2> QED
    BY <2>1, <2>2
<1>4. TypeOK'
  BY <1>1, <1>3 DEF IInv, TypeOK, Given
<1>5. \A q \in Requests \ {r} : Same(q)
  BY <1>1, <1>2, <1>3 DEF Same
<1>6. CountInv(r)'
  <2>1. Limit' = Limit /\ Limit \in Nat
    BY DEF Limit
  <2> QED
    BY <1>1, <2>1 DEF CountInv, Early, Recovering
<1>7. OutcomeInv(r)'
  BY <1>1, <1>2, <1>3 DEF OutcomeInv, Early, Recovering
<1>8. RowInv(r)'
  BY <1>1 DEF IInv, RowInv, Early
<1>9. KeyInv'
  BY DEF IInv, KeyInv
<1> QED
  BY <1>4, <1>5, <1>6, <1>7, <1>8, <1>9, OneStepKeeps

LEMMA UserPanicsKeeps ==
  ASSUME IInv, NEW r \in Requests, UserPanics(r)
  PROVE  IInv'
<1> USE DEF UserPanics
<1>1. answers[r] = <<>> /\ pc[r] \in Early
  BY DEF IInv, CountInv, Early
<1>2. answers' \in [Requests -> Seq(Given)] /\ status' \in [Requests -> Nat]
  BY DEF IInv, TypeOK, Given
<1>3. Len(answers'[r]) \in 0 .. Limit
  BY <1>1, EmptySeq DEF Limit
<1> QED
  BY <1>1, <1>2, <1>3, PanicKeeps

LEMMA NextPanicsKeeps ==
  ASSUME IInv, NEW r \in Requests, NextPanics(r)
  PROVE  IInv'
<1> USE DEF NextPanics
<1>1. PICK sent \in BOOLEAN : Respond(r, 200, sent)
  OBVIOUS
<1>2. /\ answers' \in [Requests -> Seq(Given)] /\ status' \in [Requests -> Nat]
      /\ Len(answers[r]) \in Nat /\ Len(answers'[r]) = Len(answers[r]) + 1
      /\ \A q \in Requests \ {r} : answers'[q] = answers[q]
  <2>1. TypeOK /\ 200 \in Nat /\ Respond(r, 200, sent)
    BY <1>1 DEF IInv
  <2> HIDE DEF NextPanics
  <2>2. /\ answers' \in [Requests -> Seq(Given)] /\ status' \in [Requests -> Nat]
        /\ Len(answers[r]) \in Nat /\ Len(answers'[r]) = Len(answers[r]) + 1
        /\ answers'[r] # <<>> /\ answers'[r][Len(answers'[r])].code = 200
        /\ \A q \in Requests \ {r} : answers'[q] = answers[q]
    BY <2>1, RespondAdds
  <2> QED
    BY <2>2
<1>3. Len(answers[r]) + Len(todo[r]) <= Limit /\ Len(todo[r]) \in Nat \ {0}
  <2>1. /\ todo[r] # <<>> /\ todo[r] \in Seq({"receipt", "file", "json"})
        /\ Len(answers[r]) + Len(todo[r]) <= Limit
    BY DEF IInv, TypeOK, CountInv
  <2>2. Len(todo[r]) \in Nat \ {0}
    BY <2>1, EmptySeq
  <2> QED
    BY <2>1, <2>2
<1>4. Len(answers'[r]) \in 0 .. Limit
  <2>1. Limit \in Nat
    BY DEF Limit
  <2>2. \A a \in Nat, t \in Nat \ {0}, l \in Nat : a + t <= l => a + 1 \in 0 .. l
    OBVIOUS
  <2>3. Len(answers[r]) \in Nat /\ Len(answers'[r]) = Len(answers[r]) + 1
    BY <1>2
  <2> HIDE DEF NextPanics
  <2>4. Len(answers[r]) + 1 \in 0 .. Limit
    BY <1>3, <2>1, <2>2, <2>3
  <2> QED
    BY <2>3, <2>4
<1> QED
  BY <1>2, <1>4, PanicKeeps

LEMMA FinalizerPanicsKeeps ==
  ASSUME IInv, NEW r \in Requests, FinalizerPanics(r)
  PROVE  IInv'
<1> USE DEF FinalizerPanics, answerVars, recordVars
<1>1. /\ pc[r] = "finalize" /\ pc'[r] = "escaped" /\ pc' \in [Requests -> Phases]
      /\ \A q \in Requests \ {r} : pc'[q] = pc[q]
  BY MoveFacts DEF IInv, Phases
<1>2. TypeOK'
  BY <1>1 DEF IInv, TypeOK
<1>3. \A q \in Requests \ {r} : Same(q)
  BY <1>1 DEF Same
<1>4. CountInv(r)'
  BY <1>1 DEF IInv, CountInv, Early, Recovering, Limit
<1>5. OutcomeInv(r)'
  BY <1>1 DEF IInv, OutcomeInv, Early, Recovering
<1>6. RowInv(r)'
  BY <1>1 DEF IInv, RowInv
<1>7. KeyInv'
  BY DEF IInv, KeyInv
<1> QED
  BY <1>2, <1>3, <1>4, <1>5, <1>6, <1>7, OneStepKeeps

(* Update and FailToUpdate: the row gets the outcome, or is tried.           *)
LEMMA UpdateKeeps ==
  ASSUME IInv, NEW r \in Requests, Go(r, "update", AfterUpdate(r)),
         NEW new \in {outcome[r], UpdateFailed, NotClosed}, closed' = [closed EXCEPT ![r] = new],
         r \in inserted => new # NotClosed,
         UNCHANGED <<conf, todo, panic, answerVars, rows, inserted, handled>>
  PROVE  IInv'
<1> USE DEF answerVars
<1>1. /\ pc[r] = "update" /\ pc' \in [Requests -> Phases]
      /\ pc'[r] = IF r \in panic THEN "reraise" ELSE "done"
      /\ \A q \in Requests \ {r} : pc'[q] = pc[q]
  BY MoveFacts DEF IInv, Phases, AfterUpdate
<1>2. /\ closed' \in [Requests -> Outcomes \cup {NotClosed, UpdateFailed}]
      /\ closed'[r] = new
      /\ \A q \in Requests \ {r} : closed'[q] = closed[q]
  BY DEF IInv, TypeOK
<1>3. TypeOK'
  BY <1>1, <1>2 DEF IInv, TypeOK
<1>4. \A q \in Requests \ {r} : Same(q)
  BY <1>1, <1>2 DEF Same
<1>5. CountInv(r)'
  BY <1>1 DEF IInv, CountInv, Early, Recovering, Limit
<1>6. OutcomeInv(r)'
  BY <1>1 DEF IInv, OutcomeInv, Early, Recovering, Agrees, Fresh, Broken, Last
<1>7. RowInv(r)'
  BY <1>1, <1>2, ClosedAssumption DEF IInv, RowInv
<1>8. KeyInv'
  BY DEF IInv, KeyInv
<1> QED
  BY <1>3, <1>4, <1>5, <1>6, <1>7, <1>8, OneStepKeeps

LEMMA ReraiseKeeps ==
  ASSUME IInv, NEW r \in Requests, Reraise(r)
  PROVE  IInv'
<1> USE DEF Reraise, recordVars
<1>1. /\ pc[r] = "reraise" /\ pc'[r] = "crashed" /\ pc' \in [Requests -> Phases]
      /\ \A q \in Requests \ {r} : pc'[q] = pc[q]
  BY MoveFacts DEF IInv, Phases
<1>2. r \in panic /\ Len(answers[r]) <= Limit /\ Limit' = Limit /\ Limit \in Nat
  BY <1>1 DEF IInv, CountInv, OutcomeInv, Recovering, Limit
<1>3. /\ answers' \in [Requests -> Seq(Given)] /\ status' \in [Requests -> Nat]
      /\ Len(answers'[r]) <= IF conf.recovery THEN Limit ELSE Limit + 1
      /\ ~conf.recovery => /\ answers'[r] # <<>>
                           /\ answers'[r][Len(answers'[r])].code = PanicStatus(outcome[r].err)
      /\ \A q \in Requests \ {r} : answers'[q] = answers[q]
  <2>1. CASE conf.recovery
    BY <1>2, <2>1 DEF IInv, TypeOK, Given
  <2>2. CASE ~conf.recovery
    <3>1. PICK sent \in BOOLEAN : Respond(r, PanicStatus(outcome[r].err), sent)
      BY <2>2
    <3>2. PanicStatus(outcome[r].err) \in Nat
      BY HandlerAssumption DEF PanicStatus
    <3> QED
      BY <1>2, <2>2, <3>1, <3>2, RespondAdds DEF IInv
  <2> QED
    BY <2>1, <2>2
<1>4. TypeOK'
  BY <1>1, <1>3 DEF IInv, TypeOK, Given
<1>5. \A q \in Requests \ {r} : Same(q)
  BY <1>1, <1>3 DEF Same
<1>6. CountInv(r)'
  BY <1>1, <1>2, <1>3 DEF CountInv, Early, Recovering
<1>7. OutcomeInv(r)'
  <2>1. outcome' = outcome /\ respSent' = respSent /\ panic' = panic /\ conf' = conf
    OBVIOUS
  <2>2. (IF conf.recovery THEN Fresh(r) ELSE Broken(r))
    BY <1>1, <1>2 DEF IInv, OutcomeInv, Recovering
  <2> QED
    BY <1>1, <1>2, <1>3, <2>1, <2>2
       DEF OutcomeInv, Early, Recovering, Last, Fresh, Broken, PanicStatus
<1>8. RowInv(r)'
  BY <1>1 DEF IInv, RowInv
<1>9. KeyInv'
  BY DEF IInv, KeyInv
<1> QED
  BY <1>4, <1>5, <1>6, <1>7, <1>8, <1>9, OneStepKeeps

(* Every request waits to be parsed.                                         *)
LEMMA IInvInit == Init => IInv
<1> SUFFICES ASSUME Init
             PROVE  IInv
  OBVIOUS
<1> USE DEF Init
<1>1. Len(<<>>) = 0
  BY EmptySeq
<1>2. TypeOK
  <2>1. [err |-> NoError, status |-> 0] \in Outcomes
    BY DEF Outcomes
  <2>2. outcome \in [Requests -> Outcomes]
    BY <2>1
  <2> QED
    BY <2>2 DEF TypeOK, Phases
<1>3. ASSUME NEW r \in Requests PROVE CountInv(r) /\ OutcomeInv(r) /\ RowInv(r)
  <2>1. CountInv(r)
    BY DEF CountInv, Early, Recovering
  <2>2. OutcomeInv(r)
    BY DEF OutcomeInv, Early, Recovering, Fresh
  <2>3. RowInv(r)
    BY ClosedAssumption DEF RowInv
  <2> QED
    BY <2>1, <2>2, <2>3
<1>4. KeyInv
  BY DEF KeyInv
<1> QED
  BY <1>2, <1>3, <1>4 DEF IInv

(* Parse, Check, Initialize and Finalize move a request and change nothing   *)
(* else.                                                                     *)
LEMMA WaysKeep ==
  ASSUME IInv, NEW r \in Requests,
         Parse(r) \/ Check(r) \/ Initialize(r) \/ Finalize(r)
  PROVE  IInv'
<1>1. CASE Parse(r)
  <2> DEFINE to == IF conf.simulation THEN "simulate"
                   ELSE IF conf.persist THEN "check" ELSE "init"
  <2>1. Go(r, "parse", to) /\ UNCHANGED <<conf, todo, panic, answerVars, recordVars, handled>>
    BY <1>1 DEF Parse
  <2>2. /\ to \in {"simulate", "check", "init"}
        /\ to = "init" => ~conf.persist
    OBVIOUS
  <2>3. r \notin rows
    BY <2>1 DEF IInv, RowInv, Go
  <2> HIDE DEF to
  <2> QED
    BY <2>1, <2>2, <2>3, MoveKeeps DEF Early, Phases
<1>2. CASE Check(r)
  <2>1. Go(r, "check", "insert") /\ UNCHANGED <<conf, todo, panic, answerVars, recordVars, handled>>
    BY <1>2 DEF Check
  <2>2. r \notin rows
    BY <2>1 DEF IInv, RowInv, Go
  <2> QED
    BY <2>1, <2>2, MoveKeeps DEF Early, Phases
<1>3. CASE Initialize(r)
  <2>1. /\ Go(r, "init", "handle")
        /\ UNCHANGED <<conf, todo, panic, answerVars, recordVars, handled>>
    BY <1>3 DEF Initialize
  <2>2. r \in inserted \/ ~(conf.persist /\ ~conf.simulation)
    BY <2>1 DEF IInv, RowInv, Go
  <2> QED
    BY <2>1, <2>2, MoveKeeps DEF Early, Phases
<1>4. CASE Finalize(r)
  <2>1. /\ Go(r, "finalize", "update")
        /\ UNCHANGED <<conf, todo, panic, answerVars, recordVars, handled>>
    BY <1>4 DEF Finalize
  <2> QED
    BY <2>1, MoveKeeps DEF Early, Phases
<1> QED
  BY <1>1, <1>2, <1>3, <1>4

(* Every step of a request keeps the invariant.                              *)
LEMMA IInvStep == IInv /\ [Next]_vars => IInv'
<1> SUFFICES ASSUME IInv, [Next]_vars
             PROVE  IInv'
  OBVIOUS
<1>1. ASSUME NEW r \in Requests, RequestStep(r) PROVE IInv'
  <2>1. CASE Parse(r) \/ Check(r) \/ Initialize(r) \/ Finalize(r)
    BY <2>1, WaysKeep
  <2>2. CASE FailToParse(r)
    BY <2>2, FailKeeps DEF FailToParse, Early
  <2>3. CASE FailToCheck(r)
    BY <2>3, FailKeeps DEF FailToCheck, Early
  <2>4. CASE FailToInitialize(r)
    BY <2>4, FailKeeps DEF FailToInitialize, Early
  <2>5. CASE FailToSimulate(r)
    BY <2>5, FailKeeps DEF FailToSimulate, Early
  <2>6. CASE Insert(r)
    BY <2>6, InsertKeeps
  <2>7. CASE FailToInsert(r)
    BY <2>7, FailToInsertKeeps
  <2>8. CASE Handle(r)
    BY <2>8, HandleReturns
  <2>9. CASE FailToHandle(r)
    BY <2>9, FailToHandleKeeps
  <2>10. CASE Simulate(r)
    BY <2>10, SimulateReturns
  <2>11. CASE Answer(r)
    BY <2>11, AnswerKeeps
  <2>12. CASE UserPanics(r)
    BY <2>12, UserPanicsKeeps
  <2>13. CASE NextPanics(r)
    BY <2>13, NextPanicsKeeps
  <2>14. CASE FinalizerPanics(r)
    BY <2>14, FinalizerPanicsKeeps
  <2>15. CASE Update(r)
    <3> DEFINE new == IF r \in inserted THEN outcome[r] ELSE closed[r]
    <3>1. /\ Go(r, "update", AfterUpdate(r)) /\ closed' = [closed EXCEPT ![r] = new]
          /\ UNCHANGED <<conf, todo, panic, answerVars, rows, inserted, handled>>
      BY <2>15 DEF Update
    <3>2. closed[r] \in {NotClosed, UpdateFailed}
      BY <3>1 DEF IInv, TypeOK, RowInv, Go
    <3>3. outcome[r] # NotClosed
      BY ClosedAssumption DEF IInv, TypeOK
    <3>4. new \in {outcome[r], UpdateFailed, NotClosed} /\ (r \in inserted => new # NotClosed)
      BY <3>2, <3>3
    <3> HIDE DEF new
    <3> QED
      BY <3>1, <3>4, UpdateKeeps
  <2>16. CASE FailToUpdate(r)
    <3>1. /\ Go(r, "update", AfterUpdate(r)) /\ closed' = [closed EXCEPT ![r] = UpdateFailed]
          /\ UNCHANGED <<conf, todo, panic, answerVars, rows, inserted, handled>>
      BY <2>16 DEF FailToUpdate
    <3>2. UpdateFailed # NotClosed
      BY ClosedAssumption
    <3> QED
      BY <3>1, <3>2, UpdateKeeps
  <2>17. CASE Reraise(r)
    BY <2>17, ReraiseKeeps
  <2> QED
    BY <1>1, <2>1, <2>2, <2>3, <2>4, <2>5, <2>6, <2>7, <2>8, <2>9, <2>10, <2>11, <2>12,
       <2>13, <2>14, <2>15, <2>16, <2>17 DEF RequestStep
<1>2. CASE UNCHANGED vars
  <2>1. \A q \in Requests : Same(q)
    BY <1>2 DEF vars, answerVars, recordVars, Same
  <2>2. TypeOK' /\ KeyInv'
    BY <1>2 DEF vars, answerVars, recordVars, IInv, TypeOK, KeyInv
  <2>3. conf' = conf
    BY <1>2 DEF vars
  <2>4. ASSUME NEW q \in Requests PROVE CountInv(q)' /\ OutcomeInv(q)' /\ RowInv(q)'
    BY <2>1, <2>3, SameKeeps DEF IInv
  <2> QED
    BY <2>2, <2>4 DEF IInv
<1> QED
  BY <1>1, <1>2 DEF Next

LEMMA Invariance == Spec => []IInv
BY IInvInit, IInvStep, PTL DEF Spec

(* A request has the state that its place in BaseHandler and Recovery calls  *)
(* for; no index, tail or sum goes out of its range.                         *)
THEOREM HandlersTypeCorrect == Spec => []TypeOK
<1>1. IInv => TypeOK
  BY DEF IInv
<1> QED
  BY <1>1, Invariance, PTL

(* A client gets one answer, whatever fails and wherever its request         *)
(* panics; the exceptions are the ones OneAnswer names.                      *)
THEOREM ClientsGetOneAnswer == Spec => []OneAnswer
<1>1. IInv => OneAnswer
  <2> SUFFICES ASSUME IInv, NEW r \in Requests
               PROVE  /\ pc[r] \in Ended /\ answers[r] = <<>> =>
                           r \in panic /\ (conf.recovery \/ pc[r] = "escaped")
                      /\ Len(answers[r]) > 1 =>
                           (conf.receipt /\ conf.file) \/ (r \in panic /\ ~conf.recovery)
                      /\ Len(answers[r]) <= 3
    BY DEF OneAnswer
  <2>1. CountInv(r) /\ OutcomeInv(r) /\ pc[r] \in Phases
    BY DEF IInv, TypeOK
  <2>2. answers[r] = <<>> => Len(answers[r]) = 0
    BY EmptySeq
  <2>3. ASSUME pc[r] \in Ended, answers[r] = <<>>
        PROVE  r \in panic /\ (conf.recovery \/ pc[r] = "escaped")
    BY <2>1, <2>3 DEF OutcomeInv, Agrees, Ended
  <2>4. Len(answers[r]) \in Nat /\ Len(todo[r]) \in Nat
    BY DEF IInv, TypeOK
  <2>5. Len(answers[r]) <= Limit \/ (pc[r] = "crashed" /\ ~conf.recovery /\ Len(answers[r]) <= Limit + 1)
    <3>1. Limit \in Nat
      BY DEF Limit
    <3>2. CASE pc[r] \in Early
      BY <2>1, <2>2, <3>1, <3>2 DEF CountInv
    <3>3. CASE pc[r] = "answer"
      <4>1. Len(answers[r]) + Len(todo[r]) <= Limit
        BY <2>1, <3>3 DEF CountInv
      <4>2. \A a \in Nat, t \in Nat, l \in Nat : a + t <= l => a <= l
        OBVIOUS
      <4> QED
        BY <2>4, <3>1, <4>1, <4>2
    <3>4. CASE pc[r] \in Recovering \cup {"done", "escaped"}
      BY <2>1, <3>4 DEF CountInv
    <3>5. CASE pc[r] = "crashed"
      BY <2>1, <3>5 DEF CountInv
    <3> QED
      BY <2>1, <3>2, <3>3, <3>4, <3>5 DEF Phases, Early, Recovering
  <2>6. pc[r] = "crashed" => r \in panic
    BY <2>1 DEF OutcomeInv
  <2> QED
    BY <2>3, <2>4, <2>5, <2>6 DEF Limit
<1> QED
  BY <1>1, Invariance, PTL

(* The outcome an update of a record writes is that of the last answer.      *)
(* After a panic it is an error and 500, answered with the status of the     *)
(* panic's own error if it has one; with a RecoveryHandler it is what the    *)
(* request was up to the panic.                                              *)
THEOREM RecordsTellTheAnswer == Spec => []RecordMatchesAnswer
<1>1. IInv => RecordMatchesAnswer
  <2> SUFFICES ASSUME IInv, NEW r \in Requests, pc[r] \in Ended, closed[r] \in Outcomes
               PROVE  /\ r \notin panic =>
                           /\ closed[r].status = Last(r).code
                           /\ closed[r].status = IF closed[r].err = NoError THEN 200
                                                 ELSE ErrorStatus[closed[r].err]
                      /\ r \in panic /\ ~conf.recovery =>
                           /\ closed[r].status = 500 /\ closed[r].err # NoError
                           /\ Last(r).code = PanicStatus(closed[r].err)
                      /\ r \in panic /\ conf.recovery =>
                           closed[r] = [err |-> NoError, status |-> IF respSent[r] THEN 200 ELSE 0]
    BY DEF RecordMatchesAnswer
  <2>1. OutcomeInv(r) /\ RowInv(r)
    BY DEF IInv
  <2>2. closed[r] = outcome[r] /\ pc[r] \in {"done", "crashed"}
    BY <2>1 DEF RowInv, Ended
  <2> QED
    BY <2>1, <2>2 DEF OutcomeInv, Agrees, Fresh, Broken, Recovering
<1> QED
  BY <1>1, Invariance, PTL

(* A row that is never updated has an explanation.                           *)
THEOREM OpenRowsHaveReasons == Spec => []OpenRowsExplained
<1>1. IInv => OpenRowsExplained
  BY DEF IInv, OpenRowsExplained, RowInv, Ended
<1> QED
  BY <1>1, Invariance, PTL

(* With a unique key one copy of a request is handled, and only after its    *)
(* insert.                                                                   *)
THEOREM CopiesAreHandledOnce == Spec => []HandledOnce
<1>1. IInv => HandledOnce
  BY DEF IInv, HandledOnce, RowInv, KeyInv
<1> QED
  BY <1>1, Invariance, PTL

-----------------------------------------------------------------------------
(* The DML and the query handler are version 1 handlers: between the steps   *)
(* of V1Handler theirs change nothing that V1Handler sees.                   *)

LEMMA FailedMaps ==
  ASSUME NEW r \in Requests, Failed(r)
  PROVE  FailToInitialize(r) \/ FailToHandle(r) \/ UNCHANGED vars
BY DEF Failed, Continue, Return

LEMMA DmlStepMaps ==
  ASSUME NEW r \in Requests, DmlStep(r)
  PROVE  RequestStep(r) \/ UNCHANGED vars
<1>1. CASE PhaseEnds(r)
  BY <1>1 DEF PhaseEnds, RequestStep
<1>2. CASE \/ CheckExists(r) \/ CheckNotExists(r) \/ QueryFails(r)
           \/ FailToSetVariables(r) \/ Rollback(r) \/ Commit(r) \/ FailToCommit(r)
  <2>1. Failed(r) \/ Continue(r, TRUE)
    BY <1>2 DEF CheckExists, CheckNotExists, QueryFails, FailToSetVariables, Rollback, Commit,
                FailToCommit
  <2> QED
    BY <2>1, FailedMaps DEF Continue, RequestStep
<1>3. CASE Begin(r) \/ SetModifVariables(r) \/ Exec(r) \/ ContextDone(r)
  BY <1>3 DEF Begin, SetModifVariables, Exec, ContextDone
<1> QED
  BY <1>1, <1>2, <1>3 DEF DmlStep

LEMMA QueryStepMaps ==
  ASSUME NEW r \in Requests, QueryStep(r)
  PROVE  RequestStep(r) \/ UNCHANGED vars
<1>1. CASE GetArguments(r) \/ Touch(r) \/ CheckCache(r) \/ Delete(r) \/ CacheResult(r) \/ QueryToStruct(r)
  BY <1>1 DEF GetArguments, Touch, CheckCache, Delete, CacheResult, QueryToStruct, Inner
<1>2. CASE ArgumentMissing(r) \/ NoDataFound(r) \/ DBReadError(r)
  BY <1>2 DEF ArgumentMissing, NoDataFound, DBReadError, Fails, RequestStep
<1>3. CASE Translate(r)
  BY <1>3 DEF Translate, RequestStep
<1>4. CASE Paginate(r)
  <2>1. UserPanics(r) \/ Handle(r)
    BY <1>4 DEF Paginate
  <2> QED
    BY <2>1 DEF RequestStep
<1>5. CASE QueryAnswer(r) \/ QueryPhase(r)
  BY <1>5 DEF QueryAnswer, QueryPhase, RequestStep
<1> QED
  BY <1>1, <1>2, <1>3, <1>4, <1>5 DEF QueryStep

(* Whatever its kind, a handler implements V1Handler: its settings are some  *)
(* that V1Handler allows, and each of its steps is a step of V1Handler or    *)
(* leaves the state of V1Handler as it is.                                   *)
THEOREM HandlersImplementV1 == HandlersSpec => HandlerSpec
<1>1. HandlersInit => Init
  BY DEF HandlersInit, DmlInit
<1>2. [HandlersNext]_allVars => [Next]_vars
  <2>1. ASSUME NEW r \in Requests, HandlerStep(r) PROVE [Next]_vars
    BY <2>1, DmlStepMaps, QueryStepMaps DEF HandlerStep, Next
  <2>2. ASSUME Tick PROVE UNCHANGED vars
    BY <2>2 DEF Tick
  <2>3. ASSUME UNCHANGED allVars PROVE UNCHANGED vars
    BY <2>3 DEF allVars
  <2> QED
    BY <2>1, <2>2, <2>3 DEF HandlersNext
<1> QED
  BY <1>1, <1>2, PTL DEF HandlersSpec, HandlerSpec, Spec

(* A DML or a query handler has no receipt and no file to answer with.       *)
PlainAnswers == kind # "plain" => ~conf.receipt /\ ~conf.file

LEMMA StepsKeepSettings == [HandlersNext]_allVars => conf' = conf /\ kind' = kind
<1>1. ASSUME NEW r \in Requests, RequestStep(r) PROVE conf' = conf
  BY <1>1 DEF RequestStep, Parse, FailToParse, Check, FailToCheck, Insert, FailToInsert, Initialize,
     FailToInitialize, Handle, FailToHandle, Simulate, FailToSimulate, Answer, UserPanics,
     NextPanics, Panic, Finalize, FinalizerPanics, Update, FailToUpdate, Reraise, Fail
<1>2. ASSUME NEW r \in Requests, HandlerStep(r) PROVE conf' = conf
  <2>1. RequestStep(r) \/ UNCHANGED vars
    BY <1>2, DmlStepMaps, QueryStepMaps DEF HandlerStep
  <2> QED
    BY <1>1, <2>1 DEF vars
<1>3. ASSUME NEW r \in Requests, QueryStep(r) PROVE kind' = kind
  BY <1>3 DEF QueryStep, GetArguments, ArgumentMissing, Touch, CheckCache, Delete, CacheResult,
     QueryToStruct, NoDataFound, DBReadError, Translate, Paginate, QueryAnswer, QueryPhase, Fails,
     Inner, Still
<1>4. ASSUME NEW r \in Requests, HandlerStep(r) PROVE kind' = kind
  BY <1>3, <1>4 DEF HandlerStep, queryVars
<1> QED
  BY <1>2, <1>4 DEF HandlersNext, Tick, allVars, vars, queryVars

(* So a request of the DML or the query handler gets one answer, whatever    *)
(* fails: none only when a RecoveryHandler or a Finalizer that panics keeps   *)
(* it, and a second one only from a panic after the first.                   *)
THEOREM HandlersAnswerOnce ==
  HandlersSpec => [](OneAnswer /\ (kind # "plain" =>
                       \A r \in Requests : Len(answers[r]) > 1 => r \in panic /\ ~conf.recovery))
<1>1. HandlersInit => PlainAnswers
  <2>1. SUFFICES ASSUME HandlersInit, kind # "plain" PROVE ~conf.receipt /\ ~conf.file
    BY DEF PlainAnswers
  <2>2. kind \in {"dml", "query"} /\ conf \in ConfType
    BY <2>1, HandlerAssumption, QueryAssumption DEF HandlersInit, DmlInit, Init
  <2>3. CASE kind = "dml"
    BY <2>1, <2>3 DEF HandlersInit, Parameters
  <2>4. CASE kind = "query"
    <3>1. [conf EXCEPT !.simulation = FALSE, !.recovery = FALSE] = Parameters
      BY <2>1, <2>4 DEF HandlersInit
    <3> QED
      BY <2>2, <3>1 DEF ConfType, Parameters
  <2> QED
    BY <2>2, <2>3, <2>4
<1>2. PlainAnswers /\ [HandlersNext]_allVars => PlainAnswers'
  <2>1. [HandlersNext]_allVars => conf' = conf /\ kind' = kind
    BY StepsKeepSettings
  <2> QED
    BY <2>1 DEF PlainAnswers
<1>3. OneAnswer /\ PlainAnswers =>
        (kind # "plain" => \A r \in Requests : Len(answers[r]) > 1 => r \in panic /\ ~conf.recovery)
  BY DEF OneAnswer, PlainAnswers
<1> QED
  BY <1>1, <1>2, <1>3, HandlersImplementV1, ClientsGetOneAnswer, PTL DEF HandlersSpec, HandlerSpec

-----------------------------------------------------------------------------
(* The commands of the DML handler.                                          *)

Succeeded(r, phase, i) == <<<<r, phase, i>>, TRUE>> \in ended
Controlled(r) == \A i \in 1 .. Len(PreControl) : Succeeded(r, "init", i)

(* The DML commands before the n-th have succeeded, and the writes among     *)
(* them are in the database.                                                 *)
Done(r, n) ==
  \A i \in 1 .. n - 1 :
    Succeeded(r, "handle", i) /\ (Dml[i] = "write" => <<r, "handle", i>> \in committed)

(* How far a request is, and what it has left in the database.  A            *)
(* transaction belongs to the write that is next, so a phase that ends       *)
(* leaves none open.                                                         *)
CommandsInv(r) ==
  /\ tx[r] # "none" => Pending(r) /\ Commands(r)[next[r]] = "write"
  /\ pc[r] = "init" => \A i \in 1 .. next[r] - 1 : Succeeded(r, "init", i)
  /\ pc[r] \in {"handle", "answer"} => Controlled(r)
  /\ pc[r] = "handle" => Done(r, next[r])
  /\ pc[r] = "answer" \/ respSent[r] => Done(r, Len(Dml) + 1)
  /\ \A i \in Nat : /\ <<r, "handle", i>> \in committed =>
                         Controlled(r) /\ \A j \in 1 .. i - 1 : Succeeded(r, "handle", j)
                    /\ <<r, "finalize", i>> \in committed => respSent[r]

DmlTypes ==
  /\ next \in [Requests -> Nat \ {0}]
  /\ tx \in [Requests -> {"none", "begun", "ready", "executed"}]

DmlInv == DmlTypes /\ \A r \in Requests : CommandsInv(r)

LEMMA CommandsOf ==
  ASSUME NEW r \in Requests
  PROVE  /\ pc[r] = "init" => Commands(r) = PreControl
         /\ pc[r] = "handle" => Commands(r) = Dml
         /\ pc[r] = "finalize" /\ respSent[r] => Commands(r) = FinalizeCmds
         /\ pc[r] \notin {"init", "handle", "finalize"} => Commands(r) = <<>>
         /\ pc[r] = "finalize" /\ ~respSent[r] => Commands(r) = <<>>
         /\ Len(Commands(r)) \in Nat /\ Len(Dml) \in Nat /\ Len(PreControl) \in Nat
<1>1. Len(<<>>) = 0
  BY EmptySeq
<1> QED
  BY <1>1, CommandAssumption DEF Commands

LEMMA PendingWhere ==
  ASSUME DmlInv, NEW r \in Requests, Pending(r)
  PROVE  pc[r] \in {"init", "handle"} \/ (pc[r] = "finalize" /\ respSent[r])
<1>1. next[r] \in Nat \ {0} /\ Len(<<>>) = 0
  BY EmptySeq DEF DmlInv, DmlTypes
<1> QED
  BY <1>1, CommandsOf DEF Pending

(* What a step of one request does to the commands of another: nothing.      *)
Untouched(q) ==
  /\ pc'[q] = pc[q] /\ respSent'[q] = respSent[q] /\ next'[q] = next[q] /\ tx'[q] = tx[q]
  /\ ended \subseteq ended' /\ committed \subseteq committed'
  /\ \A phase \in {"handle", "finalize"}, i \in Nat :
       <<q, phase, i>> \in committed' => <<q, phase, i>> \in committed

LEMMA UntouchedKeeps ==
  ASSUME NEW q \in Requests, CommandsInv(q), Untouched(q)
  PROVE  CommandsInv(q)'
<1> USE DEF Untouched
<1>1. Commands(q)' = Commands(q) /\ (Pending(q)' <=> Pending(q))
  BY DEF Commands, Pending
<1>2. \A phase, i : Succeeded(q, phase, i) => Succeeded(q, phase, i)'
  BY DEF Succeeded
<1>3. Controlled(q) => Controlled(q)'
  BY <1>2 DEF Controlled
<1>4. ASSUME NEW n \in {next[q], Len(Dml) + 1}, Done(q, n)
      PROVE  \A i \in 1 .. n - 1 : Succeeded(q, "handle", i)'
                /\ (Dml[i] = "write" => <<q, "handle", i>> \in committed')
  BY <1>2, <1>4 DEF Done
<1>5. /\ Done(q, next[q]) => Done(q, next[q])'
      /\ Done(q, Len(Dml) + 1) => Done(q, Len(Dml) + 1)'
  BY <1>4 DEF Done
<1> QED
  BY <1>1, <1>2, <1>3, <1>5 DEF CommandsInv

(* A command ends well, or badly in FinalizeDML; committed may have grown by *)
(* the command.                                                              *)
LEMMA ContinueKeeps ==
  ASSUME TypeOK, DmlInv, NEW r \in Requests, NEW ok \in BOOLEAN, Pending(r), Continue(r, ok),
         ok \/ pc[r] = "finalize",
         committed' \in {committed, committed \cup {Current(r)}},
         ok /\ Commands(r)[next[r]] = "write" => Current(r) \in committed',
         tx' \in [Requests -> {"none", "begun", "ready", "executed"}],
         tx'[r] = "none", \A q \in Requests \ {r} : tx'[q] = tx[q]
  PROVE  DmlInv'
<1>1. /\ next' = [next EXCEPT ![r] = next[r] + 1]
      /\ ended' = ended \cup {<<Current(r), ok>>}
      /\ pc' = pc /\ respSent' = respSent
  BY DEF Continue, vars, answerVars
<1>2. next[r] \in Nat \ {0} /\ next' \in [Requests -> Nat \ {0}] /\ next'[r] = next[r] + 1
      /\ \A q \in Requests \ {r} : next'[q] = next[q]
  BY <1>1 DEF DmlInv, DmlTypes
<1>3. \A q \in Requests \ {r} : CommandsInv(q)'
  <2>1. \A q \in Requests \ {r} : Untouched(q)
    BY <1>1, <1>2 DEF Untouched, Current
  <2> QED
    BY <2>1, UntouchedKeeps DEF DmlInv
<1>4. CommandsInv(r)'
  <2>1. CommandsInv(r) /\ (pc[r] \in {"init", "handle"} \/ (pc[r] = "finalize" /\ respSent[r]))
    BY PendingWhere DEF DmlInv
  <2>2. \A phase, i : Succeeded(r, phase, i) => Succeeded(r, phase, i)'
    BY <1>1 DEF Succeeded
  <2>3. ok => <<<<r, pc[r], next[r]>>, TRUE>> \in ended'
    BY <1>1 DEF Current
  <2>4. Controlled(r) => Controlled(r)'
    BY <2>2 DEF Controlled
  <2>5. \A i \in 1 .. next'[r] - 1 : i \in 1 .. next[r] - 1 \/ i = next[r]
    BY <1>2
  <2>6. pc[r] = "init" => \A i \in 1 .. next'[r] - 1 : Succeeded(r, "init", i)'
    <3> SUFFICES ASSUME pc[r] = "init", NEW i \in 1 .. next'[r] - 1
                 PROVE  Succeeded(r, "init", i)'
      OBVIOUS
    <3>1. CASE i \in 1 .. next[r] - 1
      BY <2>1, <2>2, <3>1 DEF CommandsInv
    <3>2. CASE i = next[r]
      BY <2>3, <3>2 DEF Succeeded
    <3> QED
      BY <2>5, <3>1, <3>2
  <2>7. pc[r] = "handle" => \A i \in 1 .. next'[r] - 1 :
          Succeeded(r, "handle", i)' /\ (Dml[i] = "write" => <<r, "handle", i>> \in committed')
    <3> SUFFICES ASSUME pc[r] = "handle", NEW i \in 1 .. next'[r] - 1
                 PROVE  Succeeded(r, "handle", i)' /\ (Dml[i] = "write" => <<r, "handle", i>> \in committed')
      OBVIOUS
    <3>1. CASE i \in 1 .. next[r] - 1
      BY <2>1, <2>2, <3>1 DEF CommandsInv, Done
    <3>2. CASE i = next[r]
      BY <2>3, <3>2, CommandsOf DEF Current, Succeeded
    <3> QED
      BY <2>5, <3>1, <3>2
  <2>8. Done(r, Len(Dml) + 1) => Done(r, Len(Dml) + 1)'
    BY <2>2 DEF Done
  <2>9. ASSUME NEW i \in Nat, <<r, "handle", i>> \in committed'
         PROVE  Controlled(r)' /\ \A j \in 1 .. i - 1 : Succeeded(r, "handle", j)'
    <3>1. CASE <<r, "handle", i>> \in committed
      BY <2>1, <2>2, <2>4, <3>1 DEF CommandsInv
    <3>2. CASE <<r, "handle", i>> = Current(r)
      <4>1. pc[r] = "handle" /\ i = next[r]
        BY <3>2 DEF Current
      <4> QED
        BY <2>1, <2>2, <2>4, <4>1 DEF CommandsInv, Done
    <3> QED
      BY <2>9, <3>1, <3>2
  <2>10. ASSUME NEW i \in Nat, <<r, "finalize", i>> \in committed'
         PROVE  respSent'[r]
    <3>1. CASE <<r, "finalize", i>> \in committed
      BY <1>1, <2>1, <3>1 DEF CommandsInv
    <3>2. CASE <<r, "finalize", i>> = Current(r)
      BY <1>1, <2>1, <3>2 DEF Current
    <3> QED
      BY <2>10, <3>1, <3>2
  <2> QED
    BY <1>1, <2>1, <2>4, <2>6, <2>7, <2>8, <2>9, <2>10 DEF CommandsInv, Done
<1> QED
  BY <1>2, <1>3, <1>4 DEF DmlInv, DmlTypes

(* A command of PreControlDML or ExecuteDML fails, and the phase with it;    *)
(* the write may be in the database all the same.                            *)
LEMMA ReturnKeeps ==
  ASSUME TypeOK, DmlInv, NEW r \in Requests, Pending(r), Return(r),
         committed' \in {committed, committed \cup {Current(r)}},
         tx' \in [Requests -> {"none", "begun", "ready", "executed"}],
         tx'[r] = "none", \A q \in Requests \ {r} : tx'[q] = tx[q]
  PROVE  DmlInv'
<1>1. /\ next' = [next EXCEPT ![r] = 1] /\ ended' = ended \cup {<<Current(r), FALSE>>}
      /\ respSent' = respSent /\ pc[r] \in {"init", "handle"} /\ pc' = [pc EXCEPT ![r] = "finalize"]
  BY DEF Return, FailToInitialize, FailToHandle, Fail, RespondError, Go
<1>2. /\ next' \in [Requests -> Nat \ {0}] /\ next'[r] = 1 /\ pc'[r] = "finalize"
      /\ \A q \in Requests \ {r} : next'[q] = next[q] /\ pc'[q] = pc[q]
  BY <1>1 DEF DmlInv, DmlTypes, TypeOK
<1>3. \A q \in Requests \ {r} : CommandsInv(q)'
  <2>1. \A q \in Requests \ {r}, phase \in {"handle", "finalize"}, i \in Nat :
          <<q, phase, i>> \in committed' => <<q, phase, i>> \in committed
    BY DEF Current
  <2>2. ended \subseteq ended' /\ committed \subseteq committed'
    BY <1>1
  <2>3. \A q \in Requests \ {r} : Untouched(q)
    BY <1>1, <1>2, <2>1, <2>2 DEF Untouched
  <2> QED
    BY <2>3, UntouchedKeeps DEF DmlInv
<1>4. CommandsInv(r)'
  <2>1. CommandsInv(r)
    BY DEF DmlInv
  <2>2. \A phase, i : Succeeded(r, phase, i) => Succeeded(r, phase, i)'
    BY <1>1 DEF Succeeded
  <2>3. Controlled(r) => Controlled(r)'
    BY <2>2 DEF Controlled
  <2>4. Done(r, Len(Dml) + 1) => Done(r, Len(Dml) + 1)'
    BY <2>2 DEF Done
  <2>5. ASSUME NEW i \in Nat, <<r, "handle", i>> \in committed'
         PROVE  Controlled(r)' /\ \A j \in 1 .. i - 1 : Succeeded(r, "handle", j)'
    <3>1. CASE <<r, "handle", i>> \in committed
      BY <2>1, <2>2, <2>3, <3>1 DEF CommandsInv
    <3>2. CASE <<r, "handle", i>> = Current(r)
      <4>1. pc[r] = "handle" /\ i = next[r]
        BY <3>2 DEF Current
      <4> QED
        BY <2>1, <2>2, <2>3, <4>1 DEF CommandsInv, Done
    <3> QED
      BY <2>5, <3>1, <3>2
  <2>6. \A i \in Nat : <<r, "finalize", i>> \in committed' => <<r, "finalize", i>> \in committed
    BY <1>1 DEF Current
  <2> QED
    BY <1>1, <1>2, <2>1, <2>4, <2>5, <2>6 DEF CommandsInv
<1> QED
  BY <1>2, <1>3, <1>4 DEF DmlInv, DmlTypes

(* BeginTx, SetModifVariables and Exec of a write that is next.              *)
LEMMA TransactionKeeps ==
  ASSUME DmlInv, NEW r \in Requests, Begin(r) \/ SetModifVariables(r) \/ Exec(r)
  PROVE  DmlInv'
<1>1. PICK state \in {"begun", "ready", "executed"} : tx' = [tx EXCEPT ![r] = state]
  BY DEF Begin, SetModifVariables, Exec
<1>2. UNCHANGED <<pc, respSent, next, ended, committed>>
  BY DEF Begin, SetModifVariables, Exec, vars, answerVars
<1>3. Pending(r) /\ Commands(r)[next[r]] = "write"
  <2>1. CASE Begin(r)
    BY <2>1 DEF Begin
  <2>2. CASE SetModifVariables(r) \/ Exec(r)
    BY <2>2 DEF SetModifVariables, Exec, DmlInv, CommandsInv
  <2> QED
    BY <2>1, <2>2
<1>4. \A q \in Requests : /\ Commands(q)' = Commands(q) /\ Pending(q)' = Pending(q)
                          /\ Controlled(q)' = Controlled(q)
                          /\ \A phase, i : Succeeded(q, phase, i)' = Succeeded(q, phase, i)
                          /\ \A n : Done(q, n)' = Done(q, n)
  BY <1>2 DEF Commands, Pending, Controlled, Succeeded, Done
<1>5. \A q \in Requests \ {r} : Untouched(q)
  BY <1>1, <1>2 DEF Untouched
<1>6. \A q \in Requests \ {r} : CommandsInv(q)'
  BY <1>5, UntouchedKeeps DEF DmlInv
<1>7. Done(r, next[r])' = Done(r, next[r]) /\ Done(r, Len(Dml) + 1)' = Done(r, Len(Dml) + 1)
  BY <1>2 DEF Done, Succeeded
<1>8. CommandsInv(r)'
  BY <1>2, <1>3, <1>4, <1>7 DEF CommandsInv, DmlInv
<1>9. tx' \in [Requests -> {"none", "begun", "ready", "executed"}]
  BY <1>1 DEF DmlInv, DmlTypes
<1> QED
  BY <1>2, <1>6, <1>8, <1>9 DEF DmlInv, DmlTypes

(* A phase without a command left ends: in Handle and Answer the commands    *)
(* of all phases before have succeeded.                                      *)
LEMMA PhaseEndsKeeps ==
  ASSUME TypeOK, DmlInv, NEW r \in Requests, PhaseEnds(r)
  PROVE  DmlInv'
<1>1. /\ next' = [next EXCEPT ![r] = 1] /\ UNCHANGED <<tx, committed, ended>> /\ ~Pending(r)
      /\ Parse(r) \/ FailToParse(r) \/ Initialize(r) \/ Handle(r) \/ Answer(r) \/ Finalize(r) \/ Update(r)
  BY DEF PhaseEnds
<1>2. /\ next' \in [Requests -> Nat \ {0}] /\ next'[r] = 1
      /\ \A q \in Requests \ {r} : next'[q] = next[q]
  BY <1>1 DEF DmlInv, DmlTypes
<1>3. /\ \A q \in Requests \ {r} : pc'[q] = pc[q] /\ respSent'[q] = respSent[q]
      /\ \/ /\ pc[r] = "parse" /\ pc'[r] \in {"simulate", "check", "init", "finalize"}
            /\ respSent'[r] = respSent[r]
         \/ pc[r] = "init" /\ pc'[r] = "handle" /\ respSent'[r] = respSent[r]
         \/ pc[r] = "handle" /\ pc'[r] = "answer" /\ respSent'[r] = respSent[r]
         \/ pc[r] = "answer" /\ pc'[r] \in {"answer", "finalize"} /\ respSent'[r] = TRUE
         \/ /\ pc[r] \in {"finalize", "update"} /\ pc'[r] \in {"update", "reraise", "done"}
            /\ respSent'[r] = respSent[r]
  <2> USE DEF Go, answerVars, TypeOK
  <2>1. CASE Parse(r)
    BY <2>1 DEF Parse
  <2>2. CASE FailToParse(r)
    BY <2>2 DEF FailToParse, Fail, RespondError
  <2>3. CASE Initialize(r)
    BY <2>3 DEF Initialize
  <2>4. CASE Handle(r)
    BY <2>4 DEF Handle
  <2>5. CASE Answer(r)
    BY <2>5 DEF Answer
  <2>6. CASE Finalize(r) \/ Update(r)
    BY <2>6 DEF Finalize, Update, AfterUpdate
  <2> QED
    BY <1>1, <2>1, <2>2, <2>3, <2>4, <2>5, <2>6
<1>4. \A q \in Requests \ {r} : CommandsInv(q)'
  <2>1. \A q \in Requests \ {r} : Untouched(q)
    BY <1>1, <1>2, <1>3 DEF Untouched
  <2> QED
    BY <2>1, UntouchedKeeps DEF DmlInv
<1>5. CommandsInv(r)'
  <2>1. CommandsInv(r) /\ tx[r] = "none" /\ next[r] \in Nat \ {0}
    BY <1>1 DEF DmlInv, DmlTypes, CommandsInv
  <2>2. Controlled(r)' = Controlled(r) /\ \A phase, i : Succeeded(r, phase, i)' = Succeeded(r, phase, i)
    BY <1>1 DEF Controlled, Succeeded
  <2>3. Done(r, Len(Dml) + 1)' = Done(r, Len(Dml) + 1)
    BY <1>1 DEF Done, Succeeded
  <2>4. next[r] > Len(Commands(r)) /\ Len(Commands(r)) \in Nat
    BY <1>1, <2>1, CommandsOf DEF Pending
  <2>5. pc[r] = "init" => Controlled(r)
    BY <2>1, <2>4, CommandsOf DEF CommandsInv, Controlled
  <2>6. pc[r] = "handle" => Done(r, Len(Dml) + 1)
    BY <2>1, <2>4, CommandsOf DEF CommandsInv, Done
  <2>7. pc'[r] \in {"handle", "answer"} => Controlled(r)
    BY <1>3, <2>1, <2>5 DEF CommandsInv
  <2>8. pc'[r] = "answer" \/ respSent'[r] => Done(r, Len(Dml) + 1)
    BY <1>3, <2>1, <2>6 DEF CommandsInv
  <2>9. pc'[r] = "handle" => Done(r, next[r])'
    BY <1>2 DEF Done
  <2>10. respSent[r] => respSent'[r]
    BY <1>3
  <2> QED
    BY <1>1, <1>2, <2>1, <2>2, <2>3, <2>7, <2>8, <2>9, <2>10 DEF CommandsInv
<1> QED
  BY <1>1, <1>2, <1>4, <1>5 DEF DmlInv, DmlTypes

(* The context of an ended request gives its connections back.               *)
LEMMA ContextDoneKeeps ==
  ASSUME DmlInv, NEW r \in Requests, ContextDone(r)
  PROVE  DmlInv'
<1>1. UNCHANGED <<pc, respSent, next, tx, ended, committed>>
  BY DEF ContextDone, vars, answerVars
<1>2. \A q \in Requests : Untouched(q)
  BY <1>1 DEF Untouched
<1>3. \A q \in Requests : CommandsInv(q)'
  BY <1>2, UntouchedKeeps DEF DmlInv
<1> QED
  BY <1>1, <1>3 DEF DmlInv, DmlTypes

LEMMA DmlStepKeeps ==
  ASSUME TypeOK, DmlInv, NEW r \in Requests, DmlStep(r)
  PROVE  DmlInv'
<1> DEFINE txTypes == [Requests -> {"none", "begun", "ready", "executed"}]
<1>1. tx \in txTypes /\ CommandsInv(r)
  BY DEF DmlInv, DmlTypes
<1>2. CASE CheckExists(r) \/ CheckNotExists(r) \/ QueryFails(r)
  <2>1. PICK k \in {"exists", "notExists"} : Query(r, k) /\ (Failed(r) \/ Continue(r, TRUE))
    BY <1>2 DEF CheckExists, CheckNotExists, QueryFails
  <2>2. /\ Pending(r) /\ Commands(r)[next[r]] # "write"
        /\ tx' = tx /\ committed' = committed /\ tx[r] = "none"
    BY <1>1, <2>1 DEF Query, CommandsInv
  <2>3. Return(r) \/ Continue(r, TRUE) \/ (pc[r] = "finalize" /\ Continue(r, FALSE))
    BY <2>1 DEF Failed
  <2> QED
    BY <1>1, <2>2, <2>3, ContinueKeeps, ReturnKeeps
<1>3. CASE FailToSetVariables(r) \/ Rollback(r) \/ Commit(r) \/ FailToCommit(r)
  <2>1. /\ tx[r] # "none" /\ tx' = [tx EXCEPT ![r] = "none"]
        /\ committed' \in {committed, committed \cup {Current(r)}}
        /\ Failed(r) \/ (Continue(r, TRUE) /\ Current(r) \in committed')
    BY <1>3 DEF FailToSetVariables, Rollback, Commit, FailToCommit
  <2>2. Pending(r)
    BY <1>1, <2>1 DEF CommandsInv
  <2>3. \/ Return(r) \/ (Continue(r, TRUE) /\ Current(r) \in committed')
        \/ (pc[r] = "finalize" /\ Continue(r, FALSE))
    BY <2>1 DEF Failed
  <2>4. tx' \in txTypes /\ tx'[r] = "none" /\ \A q \in Requests \ {r} : tx'[q] = tx[q]
    BY <1>1, <2>1
  <2> QED
    BY <2>1, <2>2, <2>3, <2>4, ContinueKeeps, ReturnKeeps
<1> QED
  BY <1>2, <1>3, TransactionKeeps, PhaseEndsKeeps, ContextDoneKeeps DEF DmlStep

LEMMA KindStays == [HandlersNext]_allVars => kind' = kind
BY DEF HandlersNext, HandlerStep, Tick, QueryStep, GetArguments, ArgumentMissing, Touch,
       CheckCache, Delete, CacheResult, QueryToStruct, NoDataFound, DBReadError, Translate,
       Paginate, QueryAnswer, QueryPhase, Fails, Inner, Still, allVars, queryVars

(* The writes of a DML handler are what CommandsInOrder says: no command     *)
(* after one that failed, all of them when the answer was OK, and those of   *)
(* FinalizeDML only then, whatever the transactions of other requests do.    *)
THEOREM WritesInOrder == HandlersSpec => []DmlInOrder
<1> DEFINE Inv == kind = "dml" => DmlInv
<1>1. HandlersInit => Inv
  <2> SUFFICES ASSUME HandlersInit
               PROVE  DmlInv
    OBVIOUS
  <2>1. /\ next = [r \in Requests |-> 1] /\ tx = [r \in Requests |-> "none"]
        /\ committed = {} /\ pc = [r \in Requests |-> "parse"]
        /\ respSent = [r \in Requests |-> FALSE]
    BY DEF HandlersInit, DmlInit, Init
  <2>2. \A r \in Requests : CommandsInv(r)
    BY <2>1 DEF CommandsInv
  <2> QED
    BY <2>1, <2>2 DEF DmlInv, DmlTypes
<1>2. TypeOK /\ Inv /\ [HandlersNext]_allVars => Inv'
  <2> SUFFICES ASSUME TypeOK, DmlInv, [HandlersNext]_allVars, kind' = "dml", kind = "dml"
               PROVE  DmlInv'
    BY KindStays
  <2>1. CASE \E r \in Requests : HandlerStep(r)
    BY <2>1, DmlStepKeeps DEF HandlerStep
  <2>2. CASE ~fatal /\ Tick
    BY <2>2 DEF Tick
  <2>3. CASE UNCHANGED allVars
    <3>1. UNCHANGED <<pc, respSent, next, tx, ended, committed>>
      BY <2>3 DEF allVars, vars, dmlVars, answerVars
    <3>2. \A q \in Requests : Untouched(q)
      BY <3>1 DEF Untouched
    <3>3. \A q \in Requests : CommandsInv(q)'
      BY <3>2, UntouchedKeeps DEF DmlInv
    <3> QED
      BY <3>1, <3>3 DEF DmlInv, DmlTypes
  <2> QED
    BY <2>1, <2>2, <2>3 DEF HandlersNext
<1>3. TypeOK /\ Inv => DmlInOrder
  <2> SUFFICES ASSUME DmlInv, NEW r \in Requests
               PROVE  LET S(phase, i) == <<<<r, phase, i>>, TRUE>> \in ended
                          Contr == \A i \in 1 .. Len(PreControl) : S("init", i)
                      IN  /\ \A i \in 1 .. Len(Dml) :
                               <<r, "handle", i>> \in committed =>
                                 Contr /\ \A j \in 1 .. i - 1 : S("handle", j)
                          /\ respSent[r] => \A i \in Positions(Dml) : <<r, "handle", i>> \in committed
                          /\ \A i \in 1 .. Len(FinalizeCmds) :
                               <<r, "finalize", i>> \in committed => respSent[r]
    BY DEF DmlInOrder, CommandsInOrder
  <2>1. CommandsInv(r) /\ Len(Dml) \in Nat
    BY CommandsOf DEF DmlInv
  <2>2. /\ \A i \in 1 .. Len(Dml) : i \in Nat
        /\ \A i \in 1 .. Len(FinalizeCmds) : i \in Nat
    OBVIOUS
  <2>3. respSent[r] => \A i \in Positions(Dml) : <<r, "handle", i>> \in committed
    BY <2>1 DEF CommandsInv, Done, Positions
  <2>4. ASSUME NEW i \in 1 .. Len(Dml), <<r, "handle", i>> \in committed
        PROVE  /\ \A j \in 1 .. Len(PreControl) : <<<<r, "init", j>>, TRUE>> \in ended
               /\ \A j \in 1 .. i - 1 : <<<<r, "handle", j>>, TRUE>> \in ended
    <3>1. i \in Nat
      BY <2>2
    <3> QED
      BY <2>1, <2>4, <3>1 DEF CommandsInv, Controlled, Succeeded
  <2>5. \A i \in 1 .. Len(FinalizeCmds) : <<r, "finalize", i>> \in committed => respSent[r]
    BY <2>1, <2>2 DEF CommandsInv
  <2> QED
    BY <2>3, <2>4, <2>5
<1>4. HandlersSpec => []TypeOK
  BY HandlersImplementV1, HandlersTypeCorrect DEF HandlerSpec
<1> QED
  BY <1>1, <1>2, <1>3, <1>4, PTL DEF HandlersSpec

-----------------------------------------------------------------------------
(* The rows of the query handler.                                            *)

Keys == {Format[a] : a \in DOMAIN Format}
Steps == {"args", "lookup", "expire", "query", "store", "translate", "paginate"}

QueryTypes ==
  /\ setting \in SettingType /\ clock \in Times
  /\ input \in [Requests -> AllInputs]
  /\ heap \in Seq(RowsType)
  /\ cache \in [Keys -> 0 .. Len(heap)]
  /\ step \in [Requests -> Steps]
  /\ slice \in [Requests -> 0 .. Len(heap)]
  /\ asked \in [Requests -> Times]
  /\ DOMAIN got = Requests

(* Every slice is of a query that found rows, and the cache has them under   *)
(* the key of their arguments.                                               *)
RowsInv ==
  /\ \A i \in 1 .. Len(heap) : heap[i].at <= clock /\ RowCount[heap[i].at] > 0
  /\ \A k \in Keys : cache[k] # 0 => Format[heap[cache[k]].args] = k

(* Where in its Handler a request is, and what it has by then.               *)
PlaceInv(r) ==
  /\ pc[r] \in Early => r \notin handled /\ ~respSent[r] /\ outcome[r].err # "invalid"
  /\ pc[r] \in Early \ {"handle"} => step[r] = "args"
  /\ step[r] \in {"lookup", "expire", "store"} => setting.cache
  /\ step[r] = "paginate" => setting.translator = "paginate"
  /\ asked[r] <= clock
  /\ slice[r] = 0 <=> step[r] \in {"args", "lookup", "expire", "query"}
  /\ slice[r] # 0 => Format[heap[slice[r]].args] = Format[input[r].args]

(* Without a cache nobody else has the rows of a request, and so nobody else *)
(* sorts them.                                                               *)
OwnRows(r) ==
  ~setting.cache /\ slice[r] # 0 =>
    /\ \A q \in Requests \ {r} : slice[q] # slice[r]
    /\ heap[slice[r]].args = input[r].args
    /\ heap[slice[r]].page = input[r].page
    /\ heap[slice[r]].at >= asked[r]
    /\ ~heap[slice[r]].torn
    /\ setting.translator = "paginate" =>
         heap[slice[r]].order = IF pc[r] = "handle" THEN <<"db", FALSE>>
                                ELSE Arranged(<<"db", FALSE>>, input[r].page)

(* The page that an answer has of count rows, when the translator calls      *)
(* Paginate.                                                                 *)
IsPage(translator, from, to, page, count) ==
  /\ from <= to /\ to <= count
  /\ translator = "paginate" =>
       LET all == page.start <= 0 /\ page.end <= 0 /\ count > 1
       IN  {i \in 0 .. count - 1 : from <= i /\ i < to}
             = {i \in 0 .. count - 1 : all \/ (page.start <= i /\ i < page.end)}

GotInv(r) ==
  r \in handled /\ (pc[r] = "answer" \/ respSent[r]) =>
    /\ slice[r] # 0
    /\ got[r].rows.at = heap[slice[r]].at
    /\ got[r].rows.args = heap[slice[r]].args
    /\ got[r].rows.page = heap[slice[r]].page
    /\ IsPage(setting.translator, got[r].from, got[r].to, input[r].page,
              RowCount[heap[slice[r]].at])
    /\ ~setting.cache =>
         /\ ~got[r].rows.torn
         /\ setting.translator = "paginate" =>
              got[r].rows.order = Arranged(<<"db", FALSE>>, input[r].page)

(* Why a request has no rows.                                                *)
ReasonInv(r) ==
  r \in handled =>
    /\ outcome[r].err = "invalid" => \E t \in asked[r] .. clock : RowCount[t] = 0
    /\ r \in panic => slice[r] # 0 /\ input[r].page.start > RowCount[heap[slice[r]].at]

RequestInv(r) == PlaceInv(r) /\ OwnRows(r) /\ GotInv(r) /\ ReasonInv(r)
QueryInv == QueryTypes /\ RowsInv /\ \A r \in Requests : RequestInv(r)

(* The bounds that Paginate cuts with are those of the page.                 *)
LEMMA PageCuts ==
  ASSUME NEW page \in PageType, NEW count \in Nat \ {0}
  PROVE  LET from == Page(page, count)[1]
             to == Page(page, count)[2]
         IN  /\ from > to => page.start > count
             /\ from <= to => IsPage("paginate", from, to, page, count)
<1> DEFINE a == page.start
           b == page.end
           from == Larger(a, 0)
           end == Larger(b, from)
           cut == IF end = from /\ from = 0 /\ count > 1 THEN count ELSE end
           to == Smaller(cut, count)
<1>1. a \in Int /\ b \in Int /\ Page(page, count)[1] = from /\ Page(page, count)[2] = to
  BY DEF PageType, Page
<1>2. from = (IF a > 0 THEN a ELSE 0) /\ end = (IF b > from THEN b ELSE from)
  BY DEF Larger
<1>3. to = IF cut < count THEN cut ELSE count
  BY DEF Smaller
<1> HIDE DEF from, end, to
<1>4. from \in Nat /\ end \in Nat /\ end >= from
  BY <1>1, <1>2
<1>5. cut \in Nat /\ cut >= from
  BY <1>2, <1>4
<1>6. to \in Nat /\ to <= count
  BY <1>3, <1>5
<1>7. from > to => a > count
  <2> SUFFICES ASSUME from > to PROVE a > count
    OBVIOUS
  <2>1. to = count
    BY <1>3, <1>4, <1>5, <1>6
  <2> QED
    BY <1>1, <1>2, <2>1
<1>8. ASSUME from <= to, NEW i \in 0 .. count - 1
      PROVE  (from <= i /\ i < to) <=> ((a <= 0 /\ b <= 0 /\ count > 1) \/ (a <= i /\ i < b))
  <2>1. i < to <=> i < cut
    BY <1>3, <1>5
  <2>2. CASE end = from /\ from = 0 /\ count > 1
    BY <1>1, <1>2, <2>1, <2>2
  <2>3. CASE ~(end = from /\ from = 0 /\ count > 1)
    <3>1. (from <= i /\ i < end) <=> (a <= i /\ i < b)
      BY <1>1, <1>2
    <3>2. a <= 0 /\ b <= 0 /\ count > 1 => FALSE
      BY <1>1, <1>2, <2>3
    <3> QED
      BY <2>1, <2>3, <3>1, <3>2
  <2> QED
    BY <2>2, <2>3
<1> HIDE DEF cut
<1>9. from <= to => IsPage("paginate", from, to, page, count)
  BY <1>6, <1>8 DEF IsPage
<1> QED
  BY <1>1, <1>7, <1>9

(* A slice keeps its rows; only their order and their age may change.        *)
Grown ==
  /\ Len(heap) <= Len(heap') /\ heap' \in Seq(RowsType)
  /\ \A i \in 1 .. Len(heap) : /\ heap'[i].at = heap[i].at /\ heap'[i].args = heap[i].args
                               /\ heap'[i].page = heap[i].page

(* A step of another request does not touch q.                               *)
Calm(q) ==
  /\ pc'[q] = pc[q] /\ step'[q] = step[q] /\ slice'[q] = slice[q] /\ asked'[q] = asked[q]
  /\ respSent'[q] = respSent[q] /\ got'[q] = got[q] /\ outcome'[q] = outcome[q]
  /\ q \in handled' <=> q \in handled
  /\ q \in panic' <=> q \in panic

(* Its rows stay as they are when nobody else can have them.                 *)
RowsKept(q) ==
  ~setting.cache /\ slice[q] # 0 =>
    /\ \A p \in Requests \ {q} : slice'[p] # slice[q]
    /\ heap'[slice[q]] = heap[slice[q]]

LEMMA RowFacts ==
  ASSUME QueryTypes, NEW i \in 1 .. Len(heap)
  PROVE  /\ heap[i] \in RowsType /\ heap[i].at \in Nat /\ RowCount[heap[i].at] \in Nat
         /\ heap[i].torn \in BOOLEAN /\ heap[i].args \in DOMAIN Format
<1>1. heap[i] \in RowsType
  BY DEF QueryTypes
<1> QED
  BY <1>1, QueryAssumption DEF RowsType, Times

LEMMA SliceFacts ==
  ASSUME QueryTypes, NEW q \in Requests, slice[q] # 0
  PROVE  slice[q] \in 1 .. Len(heap)
<1>1. slice[q] \in 0 .. Len(heap) /\ Len(heap) \in Nat
  BY DEF QueryTypes
<1> QED
  BY <1>1

LEMMA CalmKeeps ==
  ASSUME QueryTypes, NEW q \in Requests, RequestInv(q), Calm(q), Grown, RowsKept(q),
         UNCHANGED <<setting, input>>, clock' \in Nat, clock' >= clock
  PROVE  RequestInv(q)'
<1>1. slice[q] # 0 => /\ heap'[slice[q]].at = heap[slice[q]].at
                      /\ heap'[slice[q]].args = heap[slice[q]].args
                      /\ heap'[slice[q]].page = heap[slice[q]].page
  BY SliceFacts DEF Grown
<1>2. clock \in Nat /\ asked[q] \in Nat
  BY QueryAssumption DEF QueryTypes, Times
<1>3. PlaceInv(q)'
  BY <1>1, <1>2 DEF RequestInv, PlaceInv, Calm
<1>4. OwnRows(q)'
  BY <1>1 DEF RequestInv, OwnRows, Calm, RowsKept
<1>5. GotInv(q)'
  BY <1>1 DEF RequestInv, GotInv, Calm
<1>6. ReasonInv(q)'
  <2>1. \A t \in asked[q] .. clock : t \in asked[q] .. clock'
    BY <1>2
  <2> QED
    BY <1>1, <2>1 DEF RequestInv, ReasonInv, Calm
<1> QED
  BY <1>3, <1>4, <1>5, <1>6 DEF RequestInv

LEMMA RequestKeeps ==
  ASSUME QueryInv, NEW r \in Requests, QueryTypes', RowsInv', Grown, clock' = clock,
         UNCHANGED <<setting, input>>, \A q \in Requests \ {r} : Calm(q) /\ RowsKept(q),
         RequestInv(r)'
  PROVE  QueryInv'
<1>1. clock' \in Nat /\ clock' >= clock
  BY QueryAssumption DEF QueryInv, QueryTypes, Times
<1>2. \A q \in Requests \ {r} : RequestInv(q)'
  BY <1>1, CalmKeeps DEF QueryInv
<1> QED
  BY <1>2 DEF QueryInv

(* Where no slice changes.                                                   *)
LEMMA HeapStays ==
  ASSUME QueryInv, UNCHANGED <<setting, clock, heap, cache, slice>>
  PROVE  RowsInv' /\ Grown /\ \A q \in Requests : RowsKept(q)
<1>1. RowsInv'
  BY DEF QueryInv, RowsInv
<1>2. Grown
  BY DEF QueryInv, QueryTypes, Grown
<1>3. \A q \in Requests : RowsKept(q)
  BY DEF QueryInv, RequestInv, OwnRows, RowsKept
<1> QED
  BY <1>1, <1>2, <1>3

(* A step of V1Handler outside of Handle and Answer.                         *)
LEMMA PhaseKeeps ==
  ASSUME QueryInv, NEW r \in Requests,
         UNCHANGED <<setting, input, clock, heap, cache, step, slice, asked, got>>,
         \A q \in Requests \ {r} : pc'[q] = pc[q] /\ outcome'[q] = outcome[q],
         UNCHANGED <<respSent, handled, panic>>,
         pc[r] # "handle" /\ (pc'[r] \in Early \cup {"answer"} => pc[r] \in Early),
         outcome'[r] = outcome[r] \/ (pc[r] \in Early /\ pc'[r] \notin Early)
  PROVE  QueryInv'
<1>1. QueryTypes'
  BY DEF QueryInv, QueryTypes
<1>2. \A q \in Requests \ {r} : Calm(q)
  BY DEF Calm
<1>3. PlaceInv(r)
  BY DEF QueryInv, RequestInv
<1>4. PlaceInv(r)'
  BY <1>3 DEF PlaceInv
<1>5. OwnRows(r)'
  <2>1. pc'[r] = "handle" => slice[r] = 0
    BY <1>3 DEF PlaceInv, Early
  <2> QED
    BY <2>1 DEF QueryInv, RequestInv, OwnRows
<1>6. GotInv(r)'
  <2>1. pc'[r] = "answer" => r \notin handled
    BY <1>3 DEF PlaceInv
  <2>2. GotInv(r)
    BY DEF QueryInv, RequestInv
  <2> QED
    BY <2>1, <2>2 DEF GotInv
<1>7. ReasonInv(r)'
  BY <1>3 DEF PlaceInv, QueryInv, RequestInv, ReasonInv
<1> QED
  BY <1>1, <1>2, <1>4, <1>5, <1>6, <1>7, HeapStays, RequestKeeps DEF RequestInv

LEMMA QueryPhaseKeeps ==
  ASSUME TypeOK, QueryInv, NEW r \in Requests, QueryPhase(r)
  PROVE  QueryInv'
<1>1. UNCHANGED <<setting, input, clock, heap, cache, step, slice, asked, got>>
  BY DEF QueryPhase, Still
<1>2. /\ \A q \in Requests \ {r} : pc'[q] = pc[q] /\ outcome'[q] = outcome[q]
      /\ UNCHANGED <<respSent, handled, panic>>
      /\ pc[r] # "handle" /\ (pc'[r] \in Early \cup {"answer"} => pc[r] \in Early)
      /\ outcome'[r] = outcome[r] \/ (pc[r] \in Early /\ pc'[r] \notin Early)
  <2> USE DEF Go, answerVars, TypeOK, Early
  <2>1. CASE Parse(r)
    BY <2>1 DEF Parse
  <2>2. CASE FailToParse(r)
    BY <2>2 DEF FailToParse, Fail, RespondError
  <2>3. CASE Simulate(r)
    BY <2>3 DEF Simulate
  <2>4. CASE Initialize(r)
    BY <2>4 DEF Initialize
  <2>5. CASE Finalize(r)
    BY <2>5 DEF Finalize
  <2>6. CASE Update(r)
    BY <2>6 DEF Update, AfterUpdate
  <2>7. CASE Reraise(r)
    BY <2>7 DEF Reraise
  <2> QED
    BY <2>1, <2>2, <2>3, <2>4, <2>5, <2>6, <2>7 DEF QueryPhase
<1> QED
  BY <1>1, <1>2, PhaseKeeps

(* An error of the handler: NoDataFound when the database has no rows.       *)
LEMMA FailsKeeps ==
  ASSUME IInv, QueryInv, NEW r \in Requests, NEW e, pc[r] = "handle", slice[r] = 0, Fails(r, e),
         e = "invalid" => RowCount[clock] = 0
  PROVE  QueryInv'
<1>1. /\ UNCHANGED <<setting, input, clock, heap, cache, step, slice, asked, got, respSent, panic>>
      /\ handled' = handled \cup {r} /\ outcome'[r].err = e
  BY DEF Fails, Still, FailToHandle, RespondError
<1>2. /\ pc'[r] = "finalize" /\ \A q \in Requests \ {r} : pc'[q] = pc[q] /\ outcome'[q] = outcome[q]
  BY DEF Fails, FailToHandle, RespondError, Go, IInv, TypeOK
<1>3. QueryTypes'
  BY <1>1 DEF QueryInv, QueryTypes
<1>4. \A q \in Requests \ {r} : Calm(q)
  BY <1>1, <1>2 DEF Calm
<1>5. PlaceInv(r) /\ r \notin panic /\ ~respSent[r]
  BY DEF IInv, OutcomeInv, QueryInv, RequestInv, PlaceInv, Early
<1>6. PlaceInv(r)'
  BY <1>1, <1>2, <1>5 DEF PlaceInv, Early
<1>7. OwnRows(r)'
  BY <1>1 DEF OwnRows
<1>8. GotInv(r)'
  BY <1>1, <1>2, <1>5 DEF GotInv
<1>9. ReasonInv(r)'
  <2>1. clock \in asked[r] .. clock
    BY <1>5, QueryAssumption DEF PlaceInv, QueryInv, QueryTypes, Times
  <2> QED
    BY <1>1, <1>5, <2>1 DEF ReasonInv
<1> QED
  BY <1>1, <1>3, <1>4, <1>6, <1>7, <1>8, <1>9, HeapStays, RequestKeeps DEF RequestInv

(* The steps inside of Handle: V1Handler does not see them.                  *)
LEMMA InnerKeeps ==
  ASSUME QueryInv, NEW r \in Requests, Inner, QueryTypes', RowsInv', Grown, got' = got,
         pc[r] = "handle", PlaceInv(r)', OwnRows(r)',
         \A q \in Requests \ {r} : /\ step'[q] = step[q] /\ slice'[q] = slice[q]
                                   /\ asked'[q] = asked[q] /\ RowsKept(q)
  PROVE  QueryInv'
<1>1. UNCHANGED <<setting, input, clock, pc, respSent, outcome, handled, panic>>
  BY DEF Inner, Still, vars, answerVars
<1>2. \A q \in Requests \ {r} : Calm(q)
  BY <1>1 DEF Calm
<1>3. r \notin handled
  BY DEF QueryInv, RequestInv, PlaceInv, Early
<1>4. GotInv(r)' /\ ReasonInv(r)'
  BY <1>1, <1>3 DEF GotInv, ReasonInv
<1> QED
  BY <1>1, <1>2, <1>4, RequestKeeps DEF RequestInv

LEMMA GetArgumentsKeeps ==
  ASSUME QueryInv, NEW r \in Requests, GetArguments(r)
  PROVE  QueryInv'
<1>1. /\ pc[r] = "handle" /\ step[r] = "args" /\ UNCHANGED <<heap, cache, slice, got>> /\ Inner
      /\ step' = [step EXCEPT ![r] = IF setting.cache THEN "lookup" ELSE "query"]
      /\ asked' = [asked EXCEPT ![r] = clock]
  BY DEF GetArguments, At, To
<1>2. UNCHANGED <<setting, input, clock, pc, respSent, handled, outcome>>
  BY <1>1 DEF Inner, Still, vars, answerVars
<1>3. QueryTypes'
  BY <1>1, <1>2 DEF QueryInv, QueryTypes, Steps
<1>4. step'[r] = (IF setting.cache THEN "lookup" ELSE "query") /\ asked'[r] = clock
  BY <1>1 DEF QueryInv, QueryTypes
<1>5. PlaceInv(r) /\ slice[r] = 0 /\ clock \in Nat
  BY <1>1, QueryAssumption DEF QueryInv, QueryTypes, RequestInv, PlaceInv, Times
<1>6. PlaceInv(r)'
  BY <1>1, <1>2, <1>4, <1>5 DEF PlaceInv, Early
<1>7. OwnRows(r)'
  BY <1>1, <1>5 DEF OwnRows
<1>8. \A q \in Requests \ {r} : step'[q] = step[q] /\ asked'[q] = asked[q]
  BY <1>1 DEF QueryInv, QueryTypes
<1> QED
  BY <1>1, <1>2, <1>3, <1>6, <1>7, <1>8, HeapStays, InnerKeeps

(* CheckCache and the delete: with a cache rows may have other owners.       *)
LEMMA CacheKeeps ==
  ASSUME QueryInv, NEW r \in Requests, CheckCache(r) \/ Delete(r)
  PROVE  QueryInv'
<1> DEFINE key == CacheKey(input[r].args)
<1>1. /\ pc[r] = "handle" /\ step[r] \in {"lookup", "expire"} /\ UNCHANGED <<heap, asked, got>> /\ Inner
      /\ \/ cache' = cache
         \/ cache' = [cache EXCEPT ![key] = 0]
      /\ \/ /\ cache[key] # 0 /\ step' = [step EXCEPT ![r] = "translate"]
            /\ slice' = [slice EXCEPT ![r] = cache[key]]
         \/ step' = [step EXCEPT ![r] = "query"] /\ slice' = slice
         \/ step' = [step EXCEPT ![r] = "expire"] /\ slice' = slice
  BY DEF CheckCache, Delete, Touched, At, To
<1>2. UNCHANGED <<setting, input, clock, pc, respSent, handled, outcome>>
  BY <1>1 DEF Inner, Still, vars, answerVars
<1>3. key \in Keys /\ key = Format[input[r].args] /\ cache[key] \in 0 .. Len(heap)
  BY QueryAssumption DEF CacheKey, Keys, QueryInv, QueryTypes
<1>4. PlaceInv(r) /\ setting.cache /\ slice[r] = 0
  BY <1>1 DEF QueryInv, RequestInv, PlaceInv
<1> HIDE DEF key
<1>5. QueryTypes'
  <2>1. 0 \in 0 .. Len(heap)
    BY DEF QueryInv, QueryTypes
  <2>2. cache' \in [Keys -> 0 .. Len(heap)]
    BY <1>1, <2>1 DEF QueryInv, QueryTypes
  <2>3. slice' \in [Requests -> 0 .. Len(heap)] /\ step' \in [Requests -> Steps]
    BY <1>1, <1>3 DEF QueryInv, QueryTypes, Steps
  <2> QED
    BY <1>1, <1>2, <2>2, <2>3 DEF QueryInv, QueryTypes
<1>6. RowsInv'
  BY <1>1, <1>2 DEF QueryInv, QueryTypes, RowsInv
<1>7. Grown
  BY <1>1 DEF QueryInv, QueryTypes, Grown
<1>8. \/ step'[r] = "translate" /\ slice'[r] = cache[key] /\ cache[key] # 0
      \/ step'[r] \in {"query", "expire"} /\ slice'[r] = 0
  BY <1>1, <1>4 DEF QueryInv, QueryTypes
<1>9. PlaceInv(r)'
  <2>1. cache[key] # 0 => Format[heap[cache[key]].args] = key
    BY <1>3 DEF QueryInv, RowsInv
  <2> QED
    BY <1>1, <1>2, <1>3, <1>4, <1>8, <2>1 DEF PlaceInv, Early
<1>10. OwnRows(r)' /\ \A q \in Requests \ {r} : RowsKept(q)
  BY <1>2, <1>4 DEF OwnRows, RowsKept
<1>11. \A q \in Requests \ {r} : step'[q] = step[q] /\ slice'[q] = slice[q] /\ asked'[q] = asked[q]
  BY <1>1 DEF QueryInv, QueryTypes
<1> QED
  BY <1>1, <1>5, <1>6, <1>7, <1>9, <1>10, <1>11, InnerKeeps

(* One slice is written to: its age, or its order.                           *)
LEMMA RowWritten ==
  ASSUME QueryTypes, NEW i \in 1 .. Len(heap), NEW row \in RowsType,
         row.at = heap[i].at, row.args = heap[i].args, row.page = heap[i].page,
         heap' = [heap EXCEPT ![i] = row]
  PROVE  /\ Grown /\ Len(heap') = Len(heap) /\ heap'[i] = row
         /\ \A j \in 1 .. Len(heap) \ {i} : heap'[j] = heap[j]
<1>1. heap \in Seq(RowsType) /\ Len(heap) \in Nat
  BY DEF QueryTypes
<1>2. heap' \in Seq(RowsType) /\ Len(heap') = Len(heap)
  BY <1>1
<1>3. heap'[i] = row /\ \A j \in 1 .. Len(heap) \ {i} : heap'[j] = heap[j]
  BY <1>1
<1> QED
  BY <1>1, <1>2, <1>3 DEF Grown

LEMMA GrownRows ==
  ASSUME QueryInv, Grown, Len(heap') = Len(heap), UNCHANGED clock,
         \A k \in Keys : cache'[k] # 0 =>
            cache'[k] \in 1 .. Len(heap) /\ Format[heap[cache'[k]].args] = k
  PROVE  RowsInv'
BY DEF QueryInv, RowsInv, Grown

LEMMA CacheResultKeeps ==
  ASSUME QueryInv, NEW r \in Requests, CacheResult(r)
  PROVE  QueryInv'
<1> DEFINE i == slice[r]
           key == CacheKey(input[r].args)
           row == [heap[i] EXCEPT !.stored = clock]
<1>1. /\ pc[r] = "handle" /\ step[r] = "store" /\ UNCHANGED <<slice, asked, got>> /\ Inner
      /\ step' = [step EXCEPT ![r] = "translate"]
      /\ cache' = [cache EXCEPT ![key] = i]
      /\ heap' = [heap EXCEPT ![i].stored = clock]
  BY DEF CacheResult, Touched, At, To
<1>2. UNCHANGED <<setting, input, clock, pc, respSent, handled, outcome>>
  BY <1>1 DEF Inner, Still, vars, answerVars
<1>3. PlaceInv(r) /\ setting.cache /\ i # 0 /\ QueryTypes
  BY <1>1 DEF QueryInv, RequestInv, PlaceInv
<1>4. i \in 1 .. Len(heap)
  BY <1>3, SliceFacts
<1>5. key \in Keys /\ key = Format[input[r].args] /\ Format[heap[i].args] = key
  BY <1>3, QueryAssumption DEF CacheKey, Keys, QueryTypes, PlaceInv
<1>6. heap[i] \in RowsType /\ clock \in Times
  BY <1>3, <1>4, RowFacts DEF QueryTypes
<1>7. row \in RowsType /\ row.at = heap[i].at /\ row.args = heap[i].args /\ row.page = heap[i].page
  BY <1>6 DEF RowsType
<1>8. heap' = [heap EXCEPT ![i] = row]
  BY <1>1
<1> HIDE DEF i, key, row
<1>9. Grown /\ Len(heap') = Len(heap)
  BY <1>3, <1>4, <1>7, <1>8, RowWritten
<1>10. QueryTypes'
  <2>1. cache' \in [Keys -> 0 .. Len(heap)]
    <3>1. i \in 0 .. Len(heap)
      BY <1>3 DEF QueryTypes, i
    <3> QED
      BY <1>1, <1>3, <3>1 DEF QueryTypes
  <2>2. step' \in [Requests -> Steps]
    BY <1>1, <1>3 DEF QueryTypes, Steps
  <2> QED
    BY <1>1, <1>2, <1>3, <1>9, <2>1, <2>2 DEF QueryTypes, Grown
<1>11. RowsInv'
  <2>1. ASSUME NEW k \in Keys, cache'[k] # 0
        PROVE  cache'[k] \in 1 .. Len(heap) /\ Format[heap[cache'[k]].args] = k
    <3>1. CASE k = key
      BY <1>1, <1>3, <1>4, <1>5, <3>1 DEF QueryTypes
    <3>2. CASE k # key
      BY <1>1, <2>1, <3>2 DEF QueryInv, QueryTypes, RowsInv
    <3> QED
      BY <3>1, <3>2
  <2> QED
    BY <1>2, <1>9, <2>1, GrownRows
<1>12. PlaceInv(r)'
  <2>1. slice'[r] = i /\ heap'[i].args = heap[i].args /\ step'[r] = "translate"
    BY <1>1, <1>3, <1>4, <1>9 DEF Grown, QueryTypes, i
  <2> QED
    BY <1>1, <1>2, <1>3, <1>5, <2>1 DEF PlaceInv, Early
<1>13. OwnRows(r)' /\ \A q \in Requests \ {r} : RowsKept(q)
  BY <1>2, <1>3 DEF OwnRows, RowsKept
<1>14. \A q \in Requests \ {r} : step'[q] = step[q]
  BY <1>1 DEF QueryInv, QueryTypes
<1> QED
  BY <1>1, <1>9, <1>10, <1>11, <1>12, <1>13, <1>14, InnerKeeps

(* GetQuery gives a request rows that nobody else has.                       *)
LEMMA QueryToStructKeeps ==
  ASSUME QueryInv, NEW r \in Requests, QueryToStruct(r)
  PROVE  QueryInv'
<1> DEFINE n == Len(heap) + 1
           row == [args |-> input[r].args, page |-> input[r].page, at |-> clock,
                   stored |-> clock, order |-> <<"db", FALSE>>, torn |-> FALSE]
           next_ == IF setting.cache THEN "store" ELSE "translate"
<1>1. /\ pc[r] = "handle" /\ step[r] = "query" /\ UNCHANGED <<cache, asked, got>> /\ Inner
      /\ step' = [step EXCEPT ![r] = next_]
      /\ heap' = Append(heap, row) /\ slice' = [slice EXCEPT ![r] = Len(heap')]
      /\ RowCount[clock] > 0
  BY DEF QueryToStruct, At, To
<1>2. UNCHANGED <<setting, input, clock, pc, respSent, handled, outcome>>
  BY <1>1 DEF Inner, Still, vars, answerVars
<1>3. PlaceInv(r) /\ slice[r] = 0 /\ QueryTypes /\ heap \in Seq(RowsType) /\ Len(heap) \in Nat
  BY <1>1 DEF QueryInv, RequestInv, PlaceInv, QueryTypes
<1>4. /\ row \in RowsType /\ row.at = clock /\ row.args = input[r].args /\ row.page = input[r].page
      /\ row.order = <<"db", FALSE>> /\ row.torn = FALSE
  <2>1. <<"db", FALSE>> \in Orders
    BY DEF Orders
  <2>2. input[r] \in AllInputs /\ clock \in Times
    BY <1>3 DEF QueryTypes
  <2> QED
    BY <2>1, <2>2, QueryAssumption DEF RowsType
<1> HIDE DEF row
<1>5. /\ heap' \in Seq(RowsType) /\ Len(heap') = n /\ heap'[n] = row
      /\ \A j \in 1 .. Len(heap) : heap'[j] = heap[j]
  BY <1>1, <1>3, <1>4
<1>6. Grown
  BY <1>3, <1>5 DEF Grown
<1>7. slice'[r] = n /\ step'[r] = next_ /\ \A q \in Requests \ {r} : slice'[q] = slice[q] /\ step'[q] = step[q]
  BY <1>1, <1>3, <1>5 DEF QueryTypes
<1>8. \A q \in Requests : slice[q] \in 0 .. Len(heap) /\ slice[q] # n
  BY <1>3 DEF QueryTypes
<1>9. QueryTypes'
  <2>1. slice' \in [Requests -> 0 .. Len(heap')] /\ cache' \in [Keys -> 0 .. Len(heap')]
    <3>1. \A m \in 0 .. Len(heap) : m \in 0 .. n
      BY <1>3
    <3>2. n \in 0 .. n
      BY <1>3
    <3> QED
      BY <1>1, <1>3, <1>5, <3>1, <3>2 DEF QueryTypes
  <2>2. step' \in [Requests -> Steps]
    BY <1>1, <1>3 DEF QueryTypes, Steps
  <2> QED
    BY <1>1, <1>2, <1>3, <1>5, <2>1, <2>2 DEF QueryTypes
<1>10. RowsInv'
  <2>1. ASSUME NEW j \in 1 .. Len(heap') PROVE heap'[j].at <= clock /\ RowCount[heap'[j].at] > 0
    <3>1. CASE j = n
      BY <1>1, <1>3, <1>4, <1>5, <3>1, QueryAssumption DEF QueryTypes, Times
    <3>2. CASE j # n
      <4>1. j \in 1 .. Len(heap)
        BY <1>3, <1>5, <3>2
      <4> QED
        BY <1>5, <4>1 DEF QueryInv, RowsInv
    <3> QED
      BY <3>1, <3>2
  <2>2. ASSUME NEW k \in Keys, cache[k] # 0 PROVE Format[heap'[cache[k]].args] = k
    <3>1. cache[k] \in 1 .. Len(heap)
      BY <1>3, <2>2 DEF QueryTypes
    <3> QED
      BY <1>5, <2>2, <3>1 DEF QueryInv, RowsInv
  <2> QED
    BY <1>1, <1>2, <2>1, <2>2 DEF RowsInv
<1>11. PlaceInv(r)'
  BY <1>1, <1>2, <1>3, <1>4, <1>5, <1>7 DEF PlaceInv, Early
<1>12. OwnRows(r)'
  <2>1. \A q \in Requests \ {r} : slice'[q] # slice'[r]
    BY <1>7, <1>8
  <2>2. heap'[slice'[r]] = row /\ pc'[r] = "handle"
    BY <1>1, <1>2, <1>5, <1>7
  <2>3. clock >= asked[r] /\ asked' = asked /\ input' = input
    BY <1>1, <1>2, <1>3, QueryAssumption DEF PlaceInv, QueryTypes, Times
  <2> QED
    BY <1>4, <2>1, <2>2, <2>3 DEF OwnRows
<1>13. \A q \in Requests \ {r} : RowsKept(q)
  <2> SUFFICES ASSUME NEW q \in Requests \ {r}, ~setting.cache, slice[q] # 0
               PROVE  /\ \A p \in Requests \ {q} : slice'[p] # slice[q]
                      /\ heap'[slice[q]] = heap[slice[q]]
    BY DEF RowsKept
  <2>1. \A p \in Requests \ {q} : slice[p] # slice[q]
    BY DEF QueryInv, RequestInv, OwnRows
  <2>2. slice[q] \in 1 .. Len(heap)
    BY <1>3, SliceFacts
  <2> QED
    BY <1>5, <1>7, <1>8, <2>1, <2>2
<1> QED
  BY <1>1, <1>6, <1>7, <1>9, <1>10, <1>11, <1>12, <1>13, InnerKeeps

(* What is answered of a slice, torn when somebody else arranges it.         *)
LEMMA AnsweredFacts ==
  ASSUME QueryInv, NEW r \in Requests, slice[r] # 0, NEW from, NEW to, Answered(r, from, to)
  PROVE  /\ DOMAIN got' = Requests /\ \A q \in Requests \ {r} : got'[q] = got[q]
         /\ got'[r].from = from /\ got'[r].to = to
         /\ got'[r].rows.at = heap[slice[r]].at /\ got'[r].rows.args = heap[slice[r]].args
         /\ got'[r].rows.page = heap[slice[r]].page /\ got'[r].rows.order = heap[slice[r]].order
         /\ ~setting.cache => ~got'[r].rows.torn
<1>1. PICK torn \in {FALSE, Arranging(r) # {}} :
        got' = [got EXCEPT ![r] = [from |-> from, to |-> to, rows |-> [Rows(r) EXCEPT !.torn = @ \/ torn]]]
  BY DEF Answered
<1>2. Rows(r) = heap[slice[r]] /\ heap[slice[r]] \in RowsType /\ DOMAIN got = Requests
  BY SliceFacts, RowFacts DEF Rows, QueryInv, QueryTypes
<1>3. ~setting.cache => Arranging(r) = {} /\ ~heap[slice[r]].torn
  BY DEF Arranging, QueryInv, RequestInv, OwnRows
<1>4. DOMAIN got' = Requests /\ \A q \in Requests \ {r} : got'[q] = got[q]
  BY <1>1, <1>2
<1>5. got'[r] = [from |-> from, to |-> to, rows |-> [heap[slice[r]] EXCEPT !.torn = @ \/ torn]]
  BY <1>1, <1>2
<1> DEFINE row == [heap[slice[r]] EXCEPT !.torn = @ \/ torn]
<1>6. /\ row.at = heap[slice[r]].at /\ row.args = heap[slice[r]].args
      /\ row.page = heap[slice[r]].page /\ row.order = heap[slice[r]].order
  BY <1>2 DEF RowsType
<1>7. row.torn = (heap[slice[r]].torn \/ torn)
  BY <1>2 DEF RowsType
<1>8. ~setting.cache => ~row.torn
  BY <1>1, <1>3, <1>7
<1> HIDE DEF row
<1>9. got'[r].from = from /\ got'[r].to = to /\ got'[r].rows = row
  BY <1>5 DEF row
<1> QED
  BY <1>4, <1>6, <1>8, <1>9

(* The handler is done, and r has an answer to give or an error.             *)
LEMMA HandledKeeps ==
  ASSUME IInv, QueryInv, NEW r \in Requests, pc[r] = "handle", slice[r] # 0,
         UNCHANGED <<setting, input, clock, cache, step, slice, asked, respSent>>,
         Grown, Len(heap') = Len(heap), \A q \in Requests \ {r} : RowsKept(q),
         \A q \in Requests \ {r} : pc'[q] = pc[q] /\ outcome'[q] = outcome[q],
         pc'[r] \in {"answer", "finalize", "escaped"}, handled' = handled \cup {r},
         outcome'[r].err # "invalid",
         DOMAIN got' = Requests, \A q \in Requests \ {r} : got'[q] = got[q],
         OwnRows(r)',
         \/ pc'[r] = "answer" /\ panic' = panic /\ GotInv(r)'
         \/ /\ pc'[r] # "answer" /\ panic' = panic \cup {r}
            /\ input[r].page.start > RowCount[heap[slice[r]].at]
  PROVE  QueryInv'
<1>1. QueryTypes'
  BY DEF QueryInv, QueryTypes, Grown
<1>2. RowsInv'
  <2>1. \A k \in Keys : cache[k] # 0 => cache[k] \in 1 .. Len(heap) /\ Format[heap[cache[k]].args] = k
    BY DEF QueryInv, QueryTypes, RowsInv
  <2> QED
    BY <2>1, GrownRows
<1>3. \A q \in Requests \ {r} : Calm(q)
  BY DEF Calm
<1>4. PlaceInv(r) /\ r \notin panic /\ ~respSent[r] /\ slice[r] \in 1 .. Len(heap)
  BY SliceFacts DEF IInv, OutcomeInv, QueryInv, RequestInv, PlaceInv, Early
<1>5. heap'[slice[r]].at = heap[slice[r]].at /\ heap'[slice[r]].args = heap[slice[r]].args
  BY <1>4 DEF Grown
<1>6. PlaceInv(r)'
  BY <1>4, <1>5 DEF PlaceInv, Early
<1>7. GotInv(r)'
  BY <1>4 DEF GotInv
<1>8. ReasonInv(r)'
  BY <1>4, <1>5 DEF ReasonInv
<1> QED
  BY <1>1, <1>2, <1>3, <1>6, <1>7, <1>8, RequestKeeps DEF RequestInv

LEMMA HandleFacts ==
  ASSUME IInv, NEW r \in Requests, Handle(r)
  PROVE  /\ pc[r] = "handle" /\ pc'[r] = "answer" /\ handled' = handled \cup {r}
         /\ UNCHANGED <<respSent, outcome, panic>> /\ \A q \in Requests \ {r} : pc'[q] = pc[q]
BY DEF Handle, Go, answerVars, IInv, TypeOK, Phases

LEMMA TranslateKeeps ==
  ASSUME IInv, QueryInv, NEW r \in Requests, Translate(r)
  PROVE  QueryInv'
<1>1. /\ pc[r] = "handle" /\ step[r] = "translate"
      /\ UNCHANGED <<setting, input, clock, heap, cache, slice, asked>>
  BY DEF Translate, At, Still
<1>2. PlaceInv(r) /\ slice[r] # 0 /\ OwnRows(r) /\ QueryTypes
  BY <1>1 DEF QueryInv, RequestInv, PlaceInv
<1>3. CASE setting.translator = "paginate"
  <2>1. UNCHANGED <<vars, got>> /\ step' = [step EXCEPT ![r] = "paginate"]
    BY <1>3 DEF Translate, To
  <2>2. UNCHANGED <<pc, respSent, handled, outcome>>
    BY <2>1 DEF vars, answerVars
  <2>3. QueryTypes'
    BY <1>1, <1>2, <2>1 DEF QueryTypes, Steps
  <2>4. step'[r] = "paginate" /\ \A q \in Requests \ {r} : step'[q] = step[q]
    BY <1>2, <2>1 DEF QueryTypes
  <2>5. PlaceInv(r)'
    BY <1>1, <1>2, <1>3, <2>2, <2>4 DEF PlaceInv, Early
  <2>6. OwnRows(r)'
    BY <1>1, <1>2, <2>2 DEF OwnRows
  <2>7. Inner
    BY <2>1 DEF Inner, Translate
  <2> QED
    BY <1>1, <2>1, <2>3, <2>4, <2>5, <2>6, <2>7, HeapStays, InnerKeeps
<1>4. CASE setting.translator # "paginate"
  <2> DEFINE count == RowCount[heap[slice[r]].at]
             to == IF setting.translator = "single" THEN 1 ELSE count
  <2>1. Handle(r) /\ step' = step /\ Answered(r, 0, to)
    BY <1>4 DEF Translate, Rows
  <2>2. count \in Nat /\ count > 0
    BY <1>2, SliceFacts, RowFacts DEF QueryInv, RowsInv
  <2>3. 0 <= to /\ to <= count
    BY <2>2
  <2>4. IsPage(setting.translator, 0, to, input[r].page, count)
    BY <1>4, <2>3 DEF IsPage
  <2> HIDE DEF to
  <2>5. /\ pc'[r] = "answer" /\ handled' = handled \cup {r}
        /\ UNCHANGED <<respSent, outcome, panic>> /\ \A q \in Requests \ {r} : pc'[q] = pc[q]
    BY <2>1, HandleFacts
  <2>6. /\ DOMAIN got' = Requests /\ \A q \in Requests \ {r} : got'[q] = got[q]
        /\ got'[r].from = 0 /\ got'[r].to = to
        /\ got'[r].rows.at = heap[slice[r]].at /\ got'[r].rows.args = heap[slice[r]].args
        /\ got'[r].rows.page = heap[slice[r]].page
        /\ ~setting.cache => ~got'[r].rows.torn
    BY <1>2, <2>1, AnsweredFacts
  <2>7. GotInv(r)'
    BY <1>1, <1>2, <1>4, <2>4, <2>6 DEF GotInv
  <2>8. OwnRows(r)'
    BY <1>1, <1>2, <1>4 DEF OwnRows
  <2>9. outcome'[r].err # "invalid"
    BY <1>1, <1>2, <2>5 DEF PlaceInv, Early
  <2> QED
    BY <1>1, <1>2, <2>1, <2>5, <2>6, <2>7, <2>8, <2>9, HeapStays, HandledKeeps
<1> QED
  BY <1>3, <1>4

(* Paginate arranges the rows it was given; without a cache they are nobody  *)
(* else's.                                                                   *)
LEMMA PaginateKeeps ==
  ASSUME IInv, QueryInv, NEW r \in Requests, Paginate(r)
  PROVE  QueryInv'
<1> DEFINE i == slice[r]
           count == RowCount[heap[i].at]
           page == input[r].page
           from == Page(page, count)[1]
           to == Page(page, count)[2]
<1>1. /\ pc[r] = "handle" /\ step[r] = "paginate"
      /\ UNCHANGED <<setting, input, clock, cache, step, slice, asked>>
  BY DEF Paginate, At, Still
<1>2. PlaceInv(r) /\ i # 0 /\ OwnRows(r) /\ QueryTypes /\ setting.translator = "paginate"
  BY <1>1 DEF QueryInv, RequestInv, PlaceInv
<1>3. i \in 1 .. Len(heap) /\ heap[i] \in RowsType /\ count \in Nat /\ count > 0
  BY <1>2, SliceFacts, RowFacts DEF QueryInv, RowsInv
<1>4. page \in PageType
  BY <1>2, QueryAssumption DEF QueryTypes
<1>5. PICK torn \in {FALSE, Arranging(r) # {}} :
        heap' = [heap EXCEPT ![i].order = Arranged(@, page), ![i].torn = @ \/ torn]
  BY DEF Paginate
<1> DEFINE row == [heap[i] EXCEPT !.order = Arranged(@, page), !.torn = @ \/ torn]
<1>6. heap' = [heap EXCEPT ![i] = row]
  BY <1>2, <1>3, <1>5 DEF QueryTypes
<1>7. Arranged(heap[i].order, page) \in Orders
  <2>1. heap[i].order \in Orders /\ page.sort \in BOOLEAN /\ page.dsc \in BOOLEAN
    BY <1>3, <1>4 DEF RowsType, PageType
  <2>2. \A o \in Orders : o[1] \in {"db", "sorted"} /\ o[2] \in BOOLEAN
    BY DEF Orders
  <2>3. <<"sorted", FALSE>> \in Orders
    BY DEF Orders
  <2> QED
    BY <2>1, <2>2, <2>3 DEF Arranged, Orders
<1>8. /\ row \in RowsType /\ row.at = heap[i].at /\ row.args = heap[i].args /\ row.page = heap[i].page
      /\ row.order = Arranged(heap[i].order, page) /\ row.torn = (heap[i].torn \/ torn)
  BY <1>3, <1>7 DEF RowsType
<1> HIDE DEF row
<1>9. /\ Grown /\ Len(heap') = Len(heap) /\ heap'[i] = row
      /\ \A j \in 1 .. Len(heap) \ {i} : heap'[j] = heap[j]
  BY <1>2, <1>3, <1>6, <1>8, RowWritten
<1>10. \A q \in Requests \ {r} : RowsKept(q)
  <2> SUFFICES ASSUME NEW q \in Requests \ {r}, ~setting.cache, slice[q] # 0
               PROVE  /\ \A p \in Requests \ {q} : slice'[p] # slice[q]
                      /\ heap'[slice[q]] = heap[slice[q]]
    BY DEF RowsKept
  <2>1. \A p \in Requests \ {q} : slice[p] # slice[q]
    BY DEF QueryInv, RequestInv, OwnRows
  <2>2. slice[q] \in 1 .. Len(heap) /\ slice[q] # i
    BY <1>2, <2>1, SliceFacts
  <2> QED
    BY <1>1, <1>9, <2>1, <2>2
<1>11. ~setting.cache => ~row.torn /\ row.order = Arranged(<<"db", FALSE>>, page)
  <2>1. ~setting.cache => Arranging(r) = {} /\ ~heap[i].torn /\ heap[i].order = <<"db", FALSE>>
    BY <1>1, <1>2 DEF Arranging, OwnRows
  <2> QED
    BY <1>5, <1>8, <2>1
<1>12. pc'[r] # "handle" => OwnRows(r)'
  BY <1>1, <1>2, <1>8, <1>9, <1>11 DEF OwnRows
<1>13. CASE from > to
  <2>1. UserPanics(r) /\ outcome'[r].err = Panicked /\ got' = got
    BY <1>13 DEF Paginate, Rows
  <2>2. page.start > count
    BY <1>3, <1>4, <1>13, PageCuts
  <2>3. /\ panic' = panic \cup {r} /\ handled' = handled \cup {r} /\ respSent' = respSent
        /\ pc'[r] \in {"finalize", "escaped"} /\ \A q \in Requests \ {r} : pc'[q] = pc[q] /\ outcome'[q] = outcome[q]
    BY <1>1, <2>1 DEF UserPanics, Panic, IInv, TypeOK
  <2>4. outcome'[r].err # "invalid"
    BY <2>1, QueryAssumption, HandlerAssumption
  <2>5. DOMAIN got' = Requests /\ OwnRows(r)'
    BY <1>2, <1>12, <2>1, <2>3 DEF QueryTypes
  <2> QED
    BY <1>1, <1>2, <1>9, <1>10, <2>1, <2>2, <2>3, <2>4, <2>5, HandledKeeps
<1>14. CASE ~(from > to)
  <2>1. Handle(r) /\ got' = [got EXCEPT ![r] = [from |-> from, to |-> to, rows |-> heap'[i]]]
    BY <1>14 DEF Paginate, Rows
  <2>2. IsPage(setting.translator, from, to, page, count)
    <3>1. from \in Int /\ to \in Int
      BY <1>3, <1>4 DEF Page, Larger, Smaller, PageType
    <3> QED
      BY <1>2, <1>3, <1>4, <1>14, <3>1, PageCuts
  <2>3. /\ pc'[r] = "answer" /\ handled' = handled \cup {r}
        /\ UNCHANGED <<respSent, outcome, panic>> /\ \A q \in Requests \ {r} : pc'[q] = pc[q]
    BY <2>1, HandleFacts
  <2> HIDE DEF from, to
  <2>4. /\ DOMAIN got' = Requests /\ \A q \in Requests \ {r} : got'[q] = got[q]
        /\ got'[r].from = from /\ got'[r].to = to /\ got'[r].rows = row
    BY <1>2, <1>9, <2>1 DEF QueryTypes
  <2>5. GotInv(r)'
    BY <1>1, <1>2, <1>8, <1>9, <1>11, <2>2, <2>4 DEF GotInv
  <2>6. outcome'[r].err # "invalid" /\ OwnRows(r)'
    BY <1>1, <1>2, <1>12, <2>3 DEF PlaceInv, Early
  <2> QED
    BY <1>1, <1>2, <1>9, <1>10, <2>3, <2>4, <2>5, <2>6, HandledKeeps
<1> QED
  BY <1>13, <1>14

LEMMA QueryAnswerKeeps ==
  ASSUME IInv, QueryInv, NEW r \in Requests, QueryAnswer(r)
  PROVE  QueryInv'
<1>1. /\ UNCHANGED <<setting, input, clock, heap, cache, step, slice, asked, panic, handled>>
      /\ Answer(r)
  BY DEF QueryAnswer, Still, Answer
<1>2. /\ pc[r] = "answer" /\ pc'[r] \in {"answer", "finalize"}
      /\ respSent'[r] /\ outcome'[r].err = NoError
      /\ \A q \in Requests \ {r} : pc'[q] = pc[q] /\ outcome'[q] = outcome[q] /\ respSent'[q] = respSent[q]
  BY <1>1 DEF Answer, IInv, TypeOK
<1>3. PlaceInv(r) /\ OwnRows(r) /\ GotInv(r) /\ ReasonInv(r) /\ QueryTypes
  BY DEF QueryInv, RequestInv
<1>4. /\ DOMAIN got' = Requests /\ \A q \in Requests \ {r} : got'[q] = got[q]
      /\ \/ got'[r] = got[r]
         \/ /\ slice[r] # 0 /\ got'[r].from = got[r].from /\ got'[r].to = got[r].to
            /\ got'[r].rows.at = heap[slice[r]].at /\ got'[r].rows.args = heap[slice[r]].args
            /\ got'[r].rows.page = heap[slice[r]].page /\ got'[r].rows.order = heap[slice[r]].order
            /\ ~setting.cache => ~got'[r].rows.torn
  <2>1. CASE slice[r] = 0 \/ setting.translator = "single"
    BY <1>3, <2>1 DEF QueryAnswer, QueryTypes
  <2>2. CASE ~(slice[r] = 0 \/ setting.translator = "single")
    <3>1. Answered(r, got[r].from, got[r].to) /\ slice[r] # 0
      BY <2>2 DEF QueryAnswer
    <3> QED
      BY <3>1, AnsweredFacts
  <2> QED
    BY <2>1, <2>2
<1>5. QueryTypes'
  BY <1>1, <1>3, <1>4 DEF QueryTypes
<1>6. \A q \in Requests \ {r} : Calm(q)
  BY <1>1, <1>2, <1>4 DEF Calm
<1>7. PlaceInv(r)'
  BY <1>1, <1>2, <1>3 DEF PlaceInv, Early
<1>8. OwnRows(r)'
  BY <1>1, <1>2, <1>3 DEF OwnRows
<1>9. GotInv(r)'
  <2> SUFFICES ASSUME r \in handled PROVE GotInv(r)'
    BY <1>1 DEF GotInv
  <2>1. /\ slice[r] # 0
        /\ got[r].rows.at = heap[slice[r]].at /\ got[r].rows.args = heap[slice[r]].args
        /\ got[r].rows.page = heap[slice[r]].page
        /\ IsPage(setting.translator, got[r].from, got[r].to, input[r].page, RowCount[heap[slice[r]].at])
        /\ ~setting.cache =>
             /\ ~got[r].rows.torn
             /\ setting.translator = "paginate" => got[r].rows.order = Arranged(<<"db", FALSE>>, input[r].page)
    BY <1>2, <1>3 DEF GotInv
  <2>2. CASE got'[r] = got[r]
    BY <1>1, <2>1, <2>2 DEF GotInv
  <2>3. CASE got'[r] # got[r]
    <3>1. ~setting.cache /\ setting.translator = "paginate" =>
            heap[slice[r]].order = Arranged(<<"db", FALSE>>, input[r].page)
      BY <1>2, <1>3, <2>1 DEF OwnRows
    <3> QED
      BY <1>1, <1>4, <2>1, <2>3, <3>1 DEF GotInv
  <2> QED
    BY <2>2, <2>3
<1>10. ReasonInv(r)'
  BY <1>1, <1>2, <1>3, QueryAssumption, HandlerAssumption DEF ReasonInv
<1>11. RowsInv' /\ Grown /\ \A q \in Requests : RowsKept(q)
  BY <1>1, HeapStays
<1> QED
  BY <1>1, <1>5, <1>6, <1>7, <1>8, <1>9, <1>10, <1>11, RequestKeeps DEF RequestInv

(* Nothing of the query handler changes but the clock and the accesses to    *)
(* the map.                                                                  *)
LEMMA QuietKeeps ==
  ASSUME QueryInv, clock' \in Times, clock' >= clock,
         UNCHANGED <<setting, input, heap, cache, step, slice, asked, got,
                     pc, respSent, outcome, handled, panic>>
  PROVE  QueryInv'
<1>1. QueryTypes'
  BY DEF QueryInv, QueryTypes
<1>2. clock \in Nat /\ clock' \in Nat
  BY QueryAssumption DEF QueryInv, QueryTypes, Times
<1>3. RowsInv'
  <2>1. \A i \in 1 .. Len(heap) : heap[i].at \in Nat
    BY RowFacts DEF QueryInv
  <2> QED
    BY <1>2, <2>1 DEF QueryInv, RowsInv
<1>4. Grown /\ \A q \in Requests : Calm(q) /\ RowsKept(q)
  BY DEF QueryInv, QueryTypes, Grown, Calm, RequestInv, OwnRows, RowsKept
<1>5. \A q \in Requests : RequestInv(q)'
  BY <1>2, <1>4, CalmKeeps DEF QueryInv
<1> QED
  BY <1>1, <1>3, <1>5 DEF QueryInv

LEMMA QueryStepKeeps ==
  ASSUME IInv, QueryInv, NEW r \in Requests, QueryStep(r)
  PROVE  QueryInv'
<1>1. CASE ArgumentMissing(r) \/ NoDataFound(r) \/ DBReadError(r)
  <2>1. PICK e \in {"invalid", "fault"} : Fails(r, e) /\ (e = "invalid" => RowCount[clock] = 0)
    BY <1>1 DEF ArgumentMissing, NoDataFound, DBReadError
  <2>2. pc[r] = "handle" /\ step[r] \in {"args", "query"}
    BY <1>1 DEF ArgumentMissing, NoDataFound, DBReadError, At
  <2>3. slice[r] = 0
    BY <2>2 DEF QueryInv, RequestInv, PlaceInv
  <2> QED
    BY <2>1, <2>2, <2>3, FailsKeeps
<1>2. CASE Touch(r)
  <2>1. UNCHANGED <<setting, input, clock, heap, cache, step, slice, asked, got,
                    pc, respSent, outcome, handled, panic>>
    BY <1>2 DEF Touch, Inner, Still, vars, answerVars
  <2>2. clock' \in Times /\ clock' >= clock
    BY <2>1, QueryAssumption DEF QueryInv, QueryTypes, Times
  <2> QED
    BY <2>1, <2>2, QuietKeeps
<1>3. CASE QueryPhase(r)
  BY <1>3, QueryPhaseKeeps DEF IInv
<1> QED
  BY <1>1, <1>2, <1>3, GetArgumentsKeeps, CacheKeeps, CacheResultKeeps, QueryToStructKeeps,
     TranslateKeeps, PaginateKeeps, QueryAnswerKeeps DEF QueryStep

LEMMA QueryInit == HandlersInit => QueryInv
<1> SUFFICES ASSUME HandlersInit
             PROVE  QueryInv
  OBVIOUS
<1>1. /\ setting \in Settings /\ clock = 0 /\ heap = <<>>
      /\ input \in [Requests -> AllInputs]
      /\ cache = [k \in Keys |-> 0] /\ step = [r \in Requests |-> "args"]
      /\ slice = [r \in Requests |-> 0] /\ asked = [r \in Requests |-> 0]
      /\ got = [r \in Requests |-> Nothing]
      /\ pc = [r \in Requests |-> "parse"] /\ respSent = [r \in Requests |-> FALSE]
      /\ outcome = [r \in Requests |-> [err |-> NoError, status |-> 0]] /\ handled = {}
  BY DEF HandlersInit, DmlInit, Init, Keys
<1>2. Len(heap) = 0 /\ heap \in Seq(RowsType)
  BY <1>1, EmptySeq
<1>3. QueryTypes
  BY <1>1, <1>2, QueryAssumption DEF QueryTypes, Times, Steps
<1>4. RowsInv
  BY <1>1, <1>2 DEF RowsInv
<1>5. ASSUME NEW r \in Requests PROVE RequestInv(r)
  <2>1. PlaceInv(r)
    BY <1>1, QueryAssumption, HandlerAssumption DEF PlaceInv, Early
  <2>2. OwnRows(r) /\ GotInv(r) /\ ReasonInv(r)
    BY <1>1 DEF OwnRows, GotInv, ReasonInv
  <2> QED
    BY <2>1, <2>2 DEF RequestInv
<1> QED
  BY <1>3, <1>4, <1>5 DEF QueryInv

(* Who asks gets what it asked for, whatever other requests, with the same   *)
(* slice or the same key, do between the steps of its Handler.               *)
THEOREM QueriesAnswerTheirRequest == HandlersSpec => []QueryAnswers
<1> DEFINE Inv == kind = "query" => QueryInv
<1>1. HandlersInit => Inv
  BY QueryInit
<1>2. IInv /\ Inv /\ [HandlersNext]_allVars => Inv'
  <2> SUFFICES ASSUME IInv, QueryInv, [HandlersNext]_allVars, kind = "query"
               PROVE  QueryInv'
    BY KindStays
  <2>1. CASE \E r \in Requests : HandlerStep(r)
    BY <2>1, QueryStepKeeps DEF HandlerStep
  <2>2. CASE ~fatal /\ Tick
    <3>1. /\ clock' = clock + 1 /\ clock' \in Times
          /\ UNCHANGED <<setting, input, heap, cache, step, slice, asked, got,
                         pc, respSent, outcome, handled, panic>>
      BY <2>2 DEF Tick, vars, answerVars
    <3>2. clock' >= clock
      BY <3>1, QueryAssumption DEF QueryInv, QueryTypes, Times
    <3> QED
      BY <3>1, <3>2, QuietKeeps
  <2>3. CASE UNCHANGED allVars
    <3>1. UNCHANGED <<setting, input, clock, heap, cache, step, slice, asked, got,
                      pc, respSent, outcome, handled, panic>>
      BY <2>3 DEF allVars, vars, queryVars, answerVars
    <3>2. clock' \in Times /\ clock' >= clock
      BY <3>1, QueryAssumption DEF QueryInv, QueryTypes, Times
    <3> QED
      BY <3>1, <3>2, QuietKeeps
  <2> QED
    BY <2>1, <2>2, <2>3 DEF HandlersNext
<1>3. Inv => QueryAnswers
  <2> SUFFICES ASSUME QueryInv, NEW r \in Requests, r \in handled
               PROVE  LET rows_ == got[r].rows
                          own == input[r]
                          count == RowCount[rows_.at]
                      IN  /\ respSent[r] =>
                               /\ count > 0 /\ Format[rows_.args] = Format[own.args]
                               /\ got[r].from <= got[r].to /\ got[r].to <= count
                               /\ setting.translator = "paginate" =>
                                    LET all == own.page.start <= 0 /\ own.page.end <= 0 /\ count > 1
                                    IN  {i \in 0 .. count - 1 : got[r].from <= i /\ i < got[r].to}
                                          = {i \in 0 .. count - 1 : all \/ (own.page.start <= i /\ i < own.page.end)}
                               /\ ~setting.cache =>
                                    /\ rows_.at >= asked[r] /\ ~rows_.torn
                                    /\ rows_.args = own.args /\ rows_.page = own.page
                                    /\ setting.translator = "paginate" =>
                                         rows_.order = Arranged(<<"db", FALSE>>, own.page)
                          /\ outcome[r].err = "invalid" => \E t \in asked[r] .. clock : RowCount[t] = 0
                          /\ r \in panic /\ answers[r] = <<>> => own.page.start > RowCount[Rows(r).at]
    BY DEF QueryAnswers
  <2>1. PlaceInv(r) /\ OwnRows(r) /\ GotInv(r) /\ ReasonInv(r) /\ QueryTypes
    BY DEF QueryInv, RequestInv
  <2>2. slice[r] # 0 => RowCount[heap[slice[r]].at] > 0
    BY SliceFacts DEF QueryInv, RowsInv
  <2>3. /\ outcome[r].err = "invalid" => \E t \in asked[r] .. clock : RowCount[t] = 0
        /\ r \in panic => input[r].page.start > RowCount[Rows(r).at]
    BY <2>1 DEF ReasonInv, Rows
  <2>4. ASSUME respSent[r]
        PROVE  /\ slice[r] # 0
               /\ got[r].rows.at = heap[slice[r]].at /\ got[r].rows.args = heap[slice[r]].args
               /\ got[r].rows.page = heap[slice[r]].page
               /\ IsPage(setting.translator, got[r].from, got[r].to, input[r].page, RowCount[got[r].rows.at])
               /\ ~setting.cache =>
                    /\ ~got[r].rows.torn
                    /\ setting.translator = "paginate" =>
                         got[r].rows.order = Arranged(<<"db", FALSE>>, input[r].page)
    BY <2>1, <2>4 DEF GotInv
  <2>5. respSent[r] =>
          /\ RowCount[got[r].rows.at] > 0 /\ Format[got[r].rows.args] = Format[input[r].args]
          /\ ~setting.cache => /\ got[r].rows.at >= asked[r] /\ got[r].rows.args = input[r].args
                               /\ got[r].rows.page = input[r].page
    BY <2>1, <2>2, <2>4 DEF PlaceInv, OwnRows
  <2> QED
    BY <2>3, <2>4, <2>5 DEF IsPage
<1>4. HandlersSpec => []IInv
  BY HandlersImplementV1, Invariance, PTL DEF HandlerSpec
<1> QED
  BY <1>1, <1>2, <1>3, <1>4, PTL DEF HandlersSpec
=============================================================================
