----------------------------- MODULE DmlHandler -----------------------------
(***************************************************************************)
(* The DML handler (handlers/dmlHandler.go) as a version 1 handler whose   *)
(* Initializer, Handler and Finalizer run commands (libQuery/exec.go),     *)
(* each write in a transaction of its own (libQuery/dml.go) on one of the  *)
(* connections of the pool of database/sql.                                *)
(*                                                                         *)
(* Its steps are those of V1Handler, taken when the commands of the phase  *)
(* have ended, and the steps of the transactions in between.               *)
(***************************************************************************)
EXTENDS V1Handler, FiniteSets

CONSTANTS
  PreControl,   (* The commands of each phase under the handler's key:     *)
  Dml,          (* sequences of "exists", "notExists" and "write".         *)
  FinalizeCmds,
  MaxConns      (* The connections of the pool.                            *)

ASSUME CommandAssumption ==
  /\ {PreControl, Dml, FinalizeCmds} \subseteq Seq({"exists", "notExists", "write"})
  /\ MaxConns \in Nat \ {0}

VARIABLES
  cancels,    (* Whether the framework cancels the context of a request    *)
              (* that ended: net/http does, gin and Fiber do not.          *)
  next,       (* The next command of the phase.                            *)
  tx,         (* The transaction of the command, if it has one.            *)
  leaked,     (* The transactions that were neither committed nor rolled   *)
              (* back; each keeps its connection.                          *)
  committed,  (* The commands whose write is in the database.              *)
  ended       (* History: the commands that returned, and their answer.    *)

dmlVars == <<cancels, next, tx, leaked, committed, ended>>

DmlTypeOK ==
  /\ cancels \in BOOLEAN
  /\ next \in [Requests -> Nat \ {0}]
  /\ tx \in [Requests -> {"none", "begun", "ready", "executed"}]
  /\ leaked \subseteq Requests \X Phases \X Nat
  /\ committed \subseteq Requests \X Phases \X Nat
  /\ ended \subseteq (Requests \X Phases \X Nat) \X BOOLEAN

DmlInit ==
  /\ Init
  /\ cancels \in BOOLEAN
  /\ next = [r \in Requests |-> 1]
  /\ tx = [r \in Requests |-> "none"]
  /\ leaked = {}
  /\ committed = {}
  /\ ended = {}

(* PreControlDML in Initializer, ExecuteDML in Handler, FinalizeDML in      *)
(* Finalizer when the answer was sent.                                      *)
Commands(r) ==
  CASE pc[r] = "init" -> PreControl
    [] pc[r] = "handle" -> Dml
    [] pc[r] = "finalize" /\ respSent[r] -> FinalizeCmds
    [] OTHER -> <<>>

Pending(r) == next[r] <= Len(Commands(r))
Current(r) == <<r, pc[r], next[r]>>
InUse == Cardinality({r \in Requests : tx[r] # "none"}) + Cardinality(leaked)

-----------------------------------------------------------------------------
(* ExecuteWithContext.                                                      *)

(* The command returned without an error, or with one that FinalizeDML only *)
(* logs: the loop goes on.                                                  *)
Continue(r, ok) ==
  /\ next' = [next EXCEPT ![r] = @ + 1]
  /\ ended' = ended \cup {<<Current(r), ok>>}
  /\ UNCHANGED vars

(* The command failed: the phase returns the error, and the handler with it.*)
Return(r) ==
  /\ next' = [next EXCEPT ![r] = 1]
  /\ ended' = ended \cup {<<Current(r), FALSE>>}
  /\ FailToInitialize(r) \/ FailToHandle(r)

(* Mutant: an error of FinalizeDML is answered like one of the handler.      *)
FailedAnswers(r) ==
  IF pc[r] = "finalize"
    THEN /\ \E e \in ErrorNames : RespondError(r, e)
         /\ next' = [next EXCEPT ![r] = @ + 1]
         /\ ended' = ended \cup {<<Current(r), FALSE>>}
         /\ UNCHANGED <<conf, pc, todo, panic, recordVars, handled>>
    ELSE Return(r)

(* Mutant: FinalizeDML tries a command again until it succeeds.              *)
FailedAgain(r) ==
  IF pc[r] = "finalize" THEN UNCHANGED <<vars, next, ended>> ELSE Return(r)

(* Mutant: errors of commands are only logged in every phase.                *)
FailedLogged(r) == Continue(r, FALSE)

Failed(r) == IF pc[r] = "finalize" THEN Continue(r, FALSE) ELSE Return(r)

(* A check is a query outside of any transaction.                           *)
Query(r, kind) ==
  /\ Pending(r)
  /\ Commands(r)[next[r]] = kind
  /\ InUse < MaxConns
  /\ UNCHANGED <<cancels, tx, leaked, committed>>

(* Every request asks for the row that the first DML command writes.        *)
RowThere == \E q \in Requests : <<q, "handle", 1>> \in committed

(* Its type is that of a query for all rows (QueryAll), and no row is no     *)
(* error of that: the check succeeds whether the row is there or not.        *)
CheckExists(r) == Query(r, "exists") /\ Continue(r, TRUE)

(* A query for a single row (QuerySingle): none is the error it wants.       *)
CheckNotExists(r) ==
  /\ Query(r, "notExists")
  /\ IF RowThere THEN Failed(r) ELSE Continue(r, TRUE)

QueryFails(r) ==
  /\ \E kind \in {"exists", "notExists"} : Query(r, kind)
  /\ Failed(r)

(* BeginTx waits for a connection.                                          *)
Begin(r) ==
  /\ Pending(r)
  /\ Commands(r)[next[r]] = "write"
  /\ tx[r] = "none"
  /\ InUse < MaxConns
  /\ tx' = [tx EXCEPT ![r] = "begun"]
  /\ UNCHANGED <<vars, cancels, next, leaked, committed, ended>>

SetModifVariables(r) ==
  /\ tx[r] = "begun"
  /\ tx' = [tx EXCEPT ![r] = "ready"]
  /\ UNCHANGED <<vars, cancels, next, leaked, committed, ended>>

(* Lines 38-41: no rollback here.                                           *)
FailToSetVariables(r) ==
  /\ tx[r] = "begun"
  /\ tx' = [tx EXCEPT ![r] = "none"]
  /\ leaked' = leaked \cup {Current(r)}
  /\ Failed(r)
  /\ UNCHANGED <<cancels, committed>>

Exec(r) ==
  /\ tx[r] = "ready"
  /\ tx' = [tx EXCEPT ![r] = "executed"]
  /\ UNCHANGED <<vars, cancels, next, leaked, committed, ended>>

Rollback(r) ==
  /\ tx[r] = "ready"
  /\ tx' = [tx EXCEPT ![r] = "none"]
  /\ Failed(r)
  /\ UNCHANGED <<cancels, leaked, committed>>

Commit(r) ==
  /\ tx[r] = "executed"
  /\ tx' = [tx EXCEPT ![r] = "none"]
  /\ committed' = committed \cup {Current(r)}
  /\ Continue(r, TRUE)
  /\ UNCHANGED <<cancels, leaked>>

(* The error of a commit: the database may have committed.                  *)
FailToCommit(r) ==
  /\ tx[r] = "executed"
  /\ tx' = [tx EXCEPT ![r] = "none"]
  /\ committed' \in {committed, committed \cup {Current(r)}}
  /\ Failed(r)
  /\ UNCHANGED <<cancels, leaked>>

(* database/sql rolls back the transactions of a context that is done.      *)
ContextDone(r) ==
  /\ cancels
  /\ pc[r] \in Ended
  /\ \E held \in leaked : held[1] = r
  /\ leaked' = {held \in leaked : held[1] # r}
  /\ UNCHANGED <<vars, cancels, next, tx, committed, ended>>

-----------------------------------------------------------------------------
(* The steps of the handler around the commands.                            *)
PhaseEnds(r) ==
  /\ ~Pending(r)
  /\ \/ Parse(r) \/ FailToParse(r) \/ Initialize(r) \/ Handle(r) \/ Answer(r)
     \/ Finalize(r) \/ Update(r)
  /\ next' = [next EXCEPT ![r] = 1]
  /\ UNCHANGED <<cancels, tx, leaked, committed, ended>>

DmlStep(r) ==
  \/ PhaseEnds(r)
  \/ CheckExists(r) \/ CheckNotExists(r) \/ QueryFails(r)
  \/ Begin(r) \/ SetModifVariables(r) \/ FailToSetVariables(r)
  \/ Exec(r) \/ Rollback(r) \/ Commit(r) \/ FailToCommit(r)
  \/ ContextDone(r)

-----------------------------------------------------------------------------
(* Properties.                                                              *)

Positions(commands) == {i \in 1 .. Len(commands) : commands[i] = "write"}

(* Each command has a transaction of its own (dmlHandler.go:54), so what a   *)
(* request leaves behind is: a DML write only when every command before it,  *)
(* of pre-control too, returned no error; all of them when the answer was    *)
(* OK; and finalize commands only after that.  A check that returned no       *)
(* error is no promise that the record is there (exec.go:136-147).           *)
CommandsInOrder ==
  \A r \in Requests :
    LET Succeeded(phase, i) == <<<<r, phase, i>>, TRUE>> \in ended
        Controlled == \A i \in 1 .. Len(PreControl) : Succeeded("init", i)
    IN  /\ \A i \in 1 .. Len(Dml) :
             <<r, "handle", i>> \in committed =>
               Controlled /\ \A j \in 1 .. i - 1 : Succeeded("handle", j)
        /\ respSent[r] => \A i \in Positions(Dml) : <<r, "handle", i>> \in committed
        /\ \A i \in 1 .. Len(FinalizeCmds) :
             <<r, "finalize", i>> \in committed => respSent[r]

(* Seen from outside the DML handler is a version 1 handler.                 *)
HandlerSpec == Spec
=============================================================================
