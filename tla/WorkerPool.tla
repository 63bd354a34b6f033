----------------------------- MODULE WorkerPool -----------------------------
(***************************************************************************)
(* The bounded in-process worker pool of v2/workers/worker.go.             *)
(*                                                                         *)
(* Every call of Submit, every call of Shutdown and every worker goroutine *)
(* is a process.  A step is what such a goroutine does between two points  *)
(* where another one can be observed to interleave: taking mu, a channel   *)
(* operation, an atomic load or store, a call of user code.                *)
(*                                                                         *)
(* A member of Jobs is one submission: the Job, its submission context and *)
(* the goroutine that calls Submit with them.  A member of Stoppers is one *)
(* call of Shutdown with its own context.                                  *)
(***************************************************************************)
EXTENDS Integers, Sequences, FiniteSets

CONSTANTS
  Jobs,         (* The submissions.                                        *)
  Invalid,      (* Those with an empty name or a nil handler.              *)
  Propagates,   (* Those whose options set PropagateCancel.                *)
  MaxAttempts,  (* JobOptions.MaxAttempts of each submission, as given.    *)
  Workers,      (* The worker goroutines (Config.WorkerCount).             *)
  Stoppers,     (* The calls of Shutdown.                                  *)
  Expiring,     (* Submissions and stoppers whose context may be done.     *)
  QueueSize,    (* Capacity of the job channel.                            *)
  Setups,       (* The settings a pool may have, see SetupType.            *)
  NoJob,        (* No submission.                                          *)
  Free          (* mu has no holder.                                       *)

ASSUME JobAssumption ==
  /\ IsFiniteSet(Jobs)
  /\ NoJob \notin Jobs
  /\ Invalid \subseteq Jobs
  /\ Propagates \subseteq Jobs
  /\ MaxAttempts \in [Jobs -> Int]

ASSUME PoolAssumption ==
  /\ IsFiniteSet(Workers)
  /\ Workers # {}
  /\ Jobs \cap Stoppers = {}
  /\ Free \notin Jobs \cup Stoppers
  /\ Expiring \subseteq Jobs \cup Stoppers
  /\ QueueSize \in Nat \ {0}

(* BlockOnFull is Config.BlockOnFull; Parent names, for each submission, the *)
(* one whose handler makes it, or NoJob when it comes from outside.          *)
SetupType == [BlockOnFull : BOOLEAN, Parent : [Jobs -> Jobs \cup {NoJob}]]

ASSUME SetupAssumption == Setups \subseteq SetupType

VARIABLES
  setup,      (* The settings of this pool; they never change.             *)
  mu,         (* Who holds the mutex: a submission, a stopper, or Free.    *)
  shutdown,   (* The atomic shutdown flag.                                 *)
  closed,     (* Whether the job channel is closed.                        *)
  queue,      (* The buffered job channel.                                 *)
  call,       (* Where each Submit call is, or what it returned.           *)
  stop,       (* Where each Shutdown call is, or what it returned.         *)
  once,       (* State of shutOnce.                                        *)
  waiter,     (* The goroutine that waits on wg and closes shutDone.       *)
  work,       (* Where each worker goroutine is.                           *)
  job,        (* The submission each worker goroutine has in hand.         *)
  attempt,    (* The loop variable of executeJob of each worker.           *)
  cancelled,  (* Submissions and stoppers whose context is done.           *)
  stats,      (* The counters behind Stats().                              *)
  outcome,    (* History: how each submission ended.                       *)
  runs,       (* History: handler invocations of each submission.          *)
  reports     (* History: the attempts argument of each OnFailure call.    *)

submitVars == <<call>>
stopVars   == <<stop, once, waiter>>
workVars   == <<work, job, attempt, outcome, runs, reports>>
vars == <<setup, mu, shutdown, closed, queue, call, stop, once, waiter, work, job,
          attempt, cancelled, stats, outcome, runs, reports>>

Returned  == {"accepted", "ErrShutdown", "ErrQueueFull", "ErrInvalidJob", "ctxErr"}
Active    == {"lock", "send", "undo", "recheck"}
Submitting == {"idle", "panicked"} \cup Active \cup Returned
Stopping  == {"idle", "once", "lock", "close", "spawn", "wait", "nil", "ctxErr"}
Working   == {"recv", "taken", "handler", "backoff", "report", "leave", "exited"}
Holding   == Working \ {"recv", "exited"}

(* Lines 290-293: a missing or negative MaxAttempts means one attempt.      *)
Attempts(j) == IF MaxAttempts[j] <= 0 THEN 1 ELSE MaxAttempts[j]

(* Lines 308-316: without PropagateCancel the job context is never done.    *)
JobCtxDone(j) == j \in Propagates /\ j \in cancelled

Elements(q) == {q[i] : i \in 1 .. Len(q)}

-----------------------------------------------------------------------------
(* NewInProcessWorker: the channel is empty and every worker is started.    *)
Init ==
  /\ setup \in Setups
  /\ mu = Free
  /\ shutdown = FALSE
  /\ closed = FALSE
  /\ queue = <<>>
  /\ call = [j \in Jobs |-> "idle"]
  /\ stop = [s \in Stoppers |-> "idle"]
  /\ once = "new"
  /\ waiter = "none"
  /\ work = [w \in Workers |-> "recv"]
  /\ job = [w \in Workers |-> NoJob]
  /\ attempt = [w \in Workers |-> 0]
  /\ cancelled = {}
  /\ stats = [Submitted |-> 0, Succeeded |-> 0, Failed |-> 0, InFlight |-> 0]
  /\ outcome = [j \in Jobs |-> "none"]
  /\ runs = [j \in Jobs |-> 0]
  /\ reports = [j \in Jobs |-> <<>>]

(* The deadline or cancellation of a context, at any time; a nil context is *)
(* replaced by context.Background, which is never done.                     *)
Cancel(x) ==
  /\ x \notin cancelled
  /\ cancelled' = cancelled \cup {x}
  /\ UNCHANGED <<setup, mu, shutdown, closed, queue, submitVars, stopVars, workVars, stats>>

-----------------------------------------------------------------------------
(* Submit.                                                                  *)

(* A top-level submission comes at any time, one made by a handler while    *)
(* that handler runs for the first time.                                    *)
MayCall(j) ==
  \/ setup.Parent[j] = NoJob
  \/ \E w \in Workers : work[w] = "handler" /\ job[w] = setup.Parent[j] /\ attempt[w] = 1

Call(j) ==
  /\ call[j] = "idle"
  /\ MayCall(j)
  /\ call' = [call EXCEPT ![j] = IF j \in Invalid THEN "ErrInvalidJob" ELSE "lock"]
  /\ UNCHANGED <<setup, mu, shutdown, closed, queue, stopVars, workVars, cancelled, stats>>

(* Refused under mu: no other goroutine can tell taking mu, the load and    *)
(* the release apart.                                                       *)
RefuseLate(j) ==
  /\ call[j] = "lock"
  /\ mu = Free
  /\ shutdown
  /\ call' = [call EXCEPT ![j] = "ErrShutdown"]
  /\ UNCHANGED <<setup, mu, shutdown, closed, queue, stopVars, workVars, cancelled, stats>>

(* Admitted: the counter grows before the send, and mu is kept.             *)
Admit(j) ==
  /\ call[j] = "lock"
  /\ mu = Free
  /\ ~shutdown
  /\ mu' = j
  /\ stats' = [stats EXCEPT !.Submitted = @ + 1]
  /\ call' = [call EXCEPT ![j] = "send"]
  /\ UNCHANGED <<setup, shutdown, closed, queue, stopVars, workVars, cancelled>>

(* A send on the channel; on a closed one it panics with mu still held.     *)
Send(j) ==
  /\ call[j] = "send"
  /\ closed \/ Len(queue) < QueueSize
  /\ queue' = IF closed THEN queue ELSE Append(queue, j)
  /\ mu' = IF closed THEN mu ELSE Free
  /\ call' = [call EXCEPT ![j] = IF closed THEN "panicked" ELSE "accepted"]
  /\ UNCHANGED <<setup, shutdown, closed, stopVars, workVars, cancelled, stats>>

(* Faulty: the give-up branches return without releasing mu.                *)
GiveUpLocked(j) ==
  /\ call[j] = "send"
  /\ IF setup.BlockOnFull THEN j \in cancelled ELSE ~closed /\ Len(queue) = QueueSize
  /\ call' = [call EXCEPT ![j] = "undo"]
  /\ UNCHANGED <<setup, mu, shutdown, closed, queue, stopVars, workVars, cancelled, stats>>

(* The other branch of either select: the context with BlockOnFull, the     *)
(* default case without it.  Both release mu before they undo the count.    *)
GiveUp(j) ==
  /\ call[j] = "send"
  /\ IF setup.BlockOnFull THEN j \in cancelled ELSE ~closed /\ Len(queue) = QueueSize
  /\ mu' = Free
  /\ call' = [call EXCEPT ![j] = "undo"]
  /\ UNCHANGED <<setup, shutdown, closed, queue, stopVars, workVars, cancelled, stats>>

(* Faulty: a submission that is given up stays counted.                     *)
UndoNothing(j) ==
  /\ call[j] = "undo"
  /\ call' = [call EXCEPT ![j] = IF setup.BlockOnFull THEN "ctxErr" ELSE "recheck"]
  /\ UNCHANGED <<setup, mu, shutdown, closed, queue, stopVars, workVars, cancelled, stats>>

Undo(j) ==
  /\ call[j] = "undo"
  /\ stats' = [stats EXCEPT !.Submitted = @ - 1]
  /\ call' = [call EXCEPT ![j] = IF setup.BlockOnFull THEN "ctxErr" ELSE "recheck"]
  /\ UNCHANGED <<setup, mu, shutdown, closed, queue, stopVars, workVars, cancelled>>

Recheck(j) ==
  /\ call[j] = "recheck"
  /\ call' = [call EXCEPT ![j] = IF shutdown THEN "ErrShutdown" ELSE "ErrQueueFull"]
  /\ UNCHANGED <<setup, mu, shutdown, closed, queue, stopVars, workVars, cancelled, stats>>

-----------------------------------------------------------------------------
(* Shutdown.                                                                *)

CallShutdown(s) ==
  /\ stop[s] = "idle"
  /\ stop' = [stop EXCEPT ![s] = "once"]
  /\ UNCHANGED <<setup, mu, shutdown, closed, queue, submitVars, once, waiter, workVars, cancelled, stats>>

(* shutOnce.Do: the first caller runs the function, the others wait for it. *)
EnterOnce(s) ==
  /\ stop[s] = "once"
  /\ once \in {"new", "done"}
  /\ once' = IF once = "new" THEN "running" ELSE once
  /\ stop' = [stop EXCEPT ![s] = IF once = "new" THEN "lock" ELSE "spawn"]
  /\ UNCHANGED <<setup, mu, shutdown, closed, queue, submitVars, waiter, workVars, cancelled, stats>>

(* Faulty: Shutdown sets the flag and closes the channel without mu.        *)
BeginShutdownUnlocked(s) ==
  /\ stop[s] = "lock"
  /\ shutdown' = TRUE
  /\ stop' = [stop EXCEPT ![s] = "close"]
  /\ UNCHANGED <<setup, mu, closed, queue, submitVars, once, waiter, workVars, cancelled, stats>>

BeginShutdown(s) ==
  /\ stop[s] = "lock"
  /\ mu = Free
  /\ mu' = s
  /\ shutdown' = TRUE
  /\ stop' = [stop EXCEPT ![s] = "close"]
  /\ UNCHANGED <<setup, closed, queue, submitVars, once, waiter, workVars, cancelled, stats>>

(* close(w.queue), the unlock and the end of shutOnce.Do.                   *)
CloseQueue(s) ==
  /\ stop[s] = "close"
  /\ closed' = TRUE
  /\ mu' = Free
  /\ once' = "done"
  /\ stop' = [stop EXCEPT ![s] = "spawn"]
  /\ UNCHANGED <<setup, shutdown, queue, submitVars, waiter, workVars, cancelled, stats>>

(* shutDoneOnce.Do: one waiter goroutine for all calls.                     *)
SpawnWaiter(s) ==
  /\ stop[s] = "spawn"
  /\ waiter' = IF waiter = "none" THEN "waiting" ELSE waiter
  /\ stop' = [stop EXCEPT ![s] = "wait"]
  /\ UNCHANGED <<setup, mu, shutdown, closed, queue, submitVars, once, workVars, cancelled, stats>>

(* wg.Wait returns and shutDone is closed.                                  *)
AllWorkersDone ==
  /\ waiter = "waiting"
  /\ \A w \in Workers : work[w] = "exited"
  /\ waiter' = "done"
  /\ UNCHANGED <<setup, mu, shutdown, closed, queue, submitVars, stop, once, workVars, cancelled, stats>>

(* The final select of Shutdown; either ready branch may be chosen.         *)
ShutdownDone(s) ==
  /\ stop[s] = "wait"
  /\ waiter = "done"
  /\ stop' = [stop EXCEPT ![s] = "nil"]
  /\ UNCHANGED <<setup, mu, shutdown, closed, queue, submitVars, once, waiter, workVars, cancelled, stats>>

ShutdownExpired(s) ==
  /\ stop[s] = "wait"
  /\ s \in cancelled
  /\ stop' = [stop EXCEPT ![s] = "ctxErr"]
  /\ UNCHANGED <<setup, mu, shutdown, closed, queue, submitVars, once, waiter, workVars, cancelled, stats>>

-----------------------------------------------------------------------------
(* workerLoop and executeJob.                                               *)

Receive(w) ==
  /\ work[w] = "recv"
  /\ queue # <<>>
  /\ job' = [job EXCEPT ![w] = Head(queue)]
  /\ queue' = Tail(queue)
  /\ work' = [work EXCEPT ![w] = "taken"]
  /\ UNCHANGED <<setup, mu, shutdown, closed, submitVars, stopVars, attempt, cancelled,
                 stats, outcome, runs, reports>>

(* Faulty: a worker leaves as soon as the channel is closed.                *)
ExitUndrained(w) ==
  /\ work[w] = "recv"
  /\ closed
  /\ work' = [work EXCEPT ![w] = "exited"]
  /\ UNCHANGED <<setup, mu, shutdown, closed, queue, submitVars, stopVars, job, attempt,
                 cancelled, stats, outcome, runs, reports>>

(* The range loop ends once the channel is closed and drained.              *)
Exit(w) ==
  /\ work[w] = "recv"
  /\ closed
  /\ queue = <<>>
  /\ work' = [work EXCEPT ![w] = "exited"]
  /\ UNCHANGED <<setup, mu, shutdown, closed, queue, submitVars, stopVars, job, attempt,
                 cancelled, stats, outcome, runs, reports>>

(* InFlight is counted and the first attempt calls the handler, whatever    *)
(* the state of the job context.                                            *)
Start(w) ==
  /\ work[w] = "taken"
  /\ attempt' = [attempt EXCEPT ![w] = 1]
  /\ work' = [work EXCEPT ![w] = "handler"]
  /\ runs' = [runs EXCEPT ![job[w]] = @ + 1]
  /\ stats' = [stats EXCEPT !.InFlight = @ + 1]
  /\ UNCHANGED <<setup, mu, shutdown, closed, queue, submitVars, stopVars, job, cancelled,
                 outcome, reports>>

(* A handler returns only after the Submit calls it makes have returned.    *)
HandlerFree(w) ==
  \A k \in Jobs : setup.Parent[k] = job[w] => call[k] \notin Active

(* Faulty: the loop goes on after a success.                                *)
SucceedAndRetry(w) ==
  /\ work[w] = "handler"
  /\ HandlerFree(w)
  /\ outcome' = [outcome EXCEPT ![job[w]] = "succeeded"]
  /\ stats' = [stats EXCEPT !.Succeeded = @ + 1]
  /\ work' = [work EXCEPT ![w] = IF attempt[w] < Attempts(job[w]) THEN "backoff" ELSE "leave"]
  /\ UNCHANGED <<setup, mu, shutdown, closed, queue, submitVars, stopVars, job, attempt,
                 cancelled, runs, reports>>

HandlerSucceeds(w) ==
  /\ work[w] = "handler"
  /\ HandlerFree(w)
  /\ outcome' = [outcome EXCEPT ![job[w]] = "succeeded"]
  /\ stats' = [stats EXCEPT !.Succeeded = @ + 1]
  /\ work' = [work EXCEPT ![w] = "leave"]
  /\ UNCHANGED <<setup, mu, shutdown, closed, queue, submitVars, stopVars, job, attempt,
                 cancelled, runs, reports>>

(* The job has failed for good: the counter, then OnFailure.                *)
Fail(w) ==
  /\ outcome' = [outcome EXCEPT ![job[w]] = "failed"]
  /\ stats' = [stats EXCEPT !.Failed = @ + 1]
  /\ work' = [work EXCEPT ![w] = "report"]

(* Faulty: one attempt too many.                                            *)
HandlerFailsLate(w) ==
  /\ work[w] = "handler"
  /\ HandlerFree(w)
  /\ IF attempt[w] <= Attempts(job[w])
     THEN work' = [work EXCEPT ![w] = "backoff"] /\ UNCHANGED <<outcome, stats>>
     ELSE Fail(w)
  /\ UNCHANGED <<setup, mu, shutdown, closed, queue, submitVars, stopVars, job, attempt,
                 cancelled, runs, reports>>

(* Faulty: a panic of the handler, not recovered, ends the goroutine.       *)
HandlerKillsWorker(w) ==
  /\ work[w] = "handler"
  /\ HandlerFree(w)
  /\ work' = [work EXCEPT ![w] = "exited"]
  /\ UNCHANGED <<setup, mu, shutdown, closed, queue, submitVars, stopVars, job, attempt,
                 cancelled, stats, outcome, runs, reports>>

(* An error, or a panic that runWithObservability turned into one.          *)
HandlerFails(w) ==
  /\ work[w] = "handler"
  /\ HandlerFree(w)
  /\ IF attempt[w] < Attempts(job[w])
     THEN work' = [work EXCEPT ![w] = "backoff"] /\ UNCHANGED <<outcome, stats>>
     ELSE Fail(w)
  /\ UNCHANGED <<setup, mu, shutdown, closed, queue, submitVars, stopVars, job, attempt,
                 cancelled, runs, reports>>

BackoffElapsed(w) ==
  /\ work[w] = "backoff"
  /\ attempt' = [attempt EXCEPT ![w] = @ + 1]
  /\ runs' = [runs EXCEPT ![job[w]] = @ + 1]
  /\ work' = [work EXCEPT ![w] = "handler"]
  /\ UNCHANGED <<setup, mu, shutdown, closed, queue, submitVars, stopVars, job, cancelled,
                 stats, outcome, reports>>

BackoffCancelled(w) ==
  /\ work[w] = "backoff"
  /\ JobCtxDone(job[w])
  /\ Fail(w)
  /\ UNCHANGED <<setup, mu, shutdown, closed, queue, submitVars, stopVars, job, attempt,
                 cancelled, runs, reports>>

(* OnFailure with the attempts made: attempt when the context ended the     *)
(* backoff, opts.MaxAttempts (= attempt) when they are exhausted.  A panic  *)
(* of the callback is recovered.                                            *)
CallOnFailure(w) ==
  /\ work[w] = "report"
  /\ reports' = [reports EXCEPT ![job[w]] = Append(@, attempt[w])]
  /\ work' = [work EXCEPT ![w] = "leave"]
  /\ UNCHANGED <<setup, mu, shutdown, closed, queue, submitVars, stopVars, job, attempt,
                 cancelled, stats, outcome, runs>>

Leave(w) ==
  /\ work[w] = "leave"
  /\ stats' = [stats EXCEPT !.InFlight = @ - 1]
  /\ job' = [job EXCEPT ![w] = NoJob]
  /\ attempt' = [attempt EXCEPT ![w] = 0]
  /\ work' = [work EXCEPT ![w] = "recv"]
  /\ UNCHANGED <<setup, mu, shutdown, closed, queue, submitVars, stopVars, cancelled,
                 outcome, runs, reports>>

-----------------------------------------------------------------------------
Submit(j) ==
  \/ RefuseLate(j)
  \/ Admit(j)
  \/ Send(j)
  \/ GiveUp(j)
  \/ Undo(j)
  \/ Recheck(j)

Shutdown(s) ==
  \/ EnterOnce(s)
  \/ BeginShutdown(s)
  \/ CloseQueue(s)
  \/ SpawnWaiter(s)
  \/ ShutdownDone(s)
  \/ ShutdownExpired(s)

(* What the pool itself does for a worker; the handler is user code.        *)
WorkerStep(w) ==
  \/ Receive(w)
  \/ Exit(w)
  \/ Start(w)
  \/ BackoffElapsed(w)
  \/ BackoffCancelled(w)
  \/ CallOnFailure(w)
  \/ Leave(w)

Handler(w) ==
  \/ HandlerSucceeds(w)
  \/ HandlerFails(w)

Next ==
  \/ \E x \in Expiring : Cancel(x)
  \/ \E j \in Jobs : Call(j) \/ Submit(j)
  \/ \E s \in Stoppers : CallShutdown(s) \/ Shutdown(s)
  \/ \E w \in Workers : WorkerStep(w) \/ Handler(w)
  \/ AllWorkersDone

Spec == Init /\ [][Next]_vars

(* The Go scheduler runs every goroutine that can run, and sync.Mutex in    *)
(* its starvation mode hands mu to every goroutine that waits for it.       *)
CodeFairness ==
  /\ \A j \in Jobs : WF_vars(Submit(j)) /\ SF_vars(RefuseLate(j) \/ Admit(j))
  /\ \A s \in Stoppers : WF_vars(Shutdown(s)) /\ SF_vars(BeginShutdown(s))
  /\ \A w \in Workers : WF_vars(WorkerStep(w))
  /\ WF_vars(AllWorkersDone)

FairSpec == Spec /\ CodeFairness

(* As FairSpec, for handlers that always come back.                         *)
LiveSpec == FairSpec /\ \A w \in Workers : WF_vars(Handler(w))

-----------------------------------------------------------------------------
Counters == [Submitted : Int, Succeeded : Int, Failed : Int, InFlight : Int]

TypeOK ==
  /\ setup \in Setups
  /\ mu \in Jobs \cup Stoppers \cup {Free}
  /\ shutdown \in BOOLEAN
  /\ closed \in BOOLEAN
  /\ queue \in Seq(Jobs) /\ Len(queue) <= QueueSize
  /\ call \in [Jobs -> Submitting]
  /\ stop \in [Stoppers -> Stopping]
  /\ once \in {"new", "running", "done"}
  /\ waiter \in {"none", "waiting", "done"}
  /\ work \in [Workers -> Working]
  /\ job \in [Workers -> Jobs \cup {NoJob}]
  /\ \A w \in Workers : work[w] \in Holding => job[w] \in Jobs
  /\ attempt \in [Workers -> Nat]
  /\ cancelled \subseteq Expiring
  /\ stats \in Counters
  /\ outcome \in [Jobs -> {"none", "succeeded", "failed"}]
  /\ runs \in [Jobs -> Nat]
  /\ reports \in [Jobs -> Seq(Nat)]

(* No Submit ever sends on the closed job channel, however it interleaves   *)
(* with Shutdown: the race the comment at worker.go:472-475 is about.       *)
NoSendOnClosed == \A j \in Jobs : call[j] # "panicked"

(* Shutdown answers nil only when every submission the pool accepted has    *)
(* been executed to its end and its OnFailure callback has returned: an     *)
(* accepted job is neither dropped by the close nor left in flight.         *)
DrainedOnNil ==
  (\E s \in Stoppers : stop[s] = "nil") =>
    \A j \in Jobs : call[j] = "accepted" =>
      /\ outcome[j] # "none"
      /\ Len(reports[j]) = (IF outcome[j] = "failed" THEN 1 ELSE 0)

(* The counters of Stats() account for every submission: what is counted    *)
(* as Submitted is being sent or taken back, in the channel, with a worker, *)
(* or has ended, in every interleaving of the five atomic counters.         *)
Sending  == {j \in Jobs : call[j] \in {"send", "undo"}}
Unended  == {w \in Workers : work[w] \in {"taken", "handler", "backoff"}}
Conservation ==
  /\ stats.Submitted = Cardinality(Sending) + Len(queue) + Cardinality(Unended)
                         + stats.Succeeded + stats.Failed
  /\ stats.InFlight = Cardinality({w \in Workers : work[w] \in Holding \ {"taken"}})

(* The retry contract: a job is called at most Attempts(j) times, it fails  *)
(* only when they are used up or its propagated context is done, and        *)
(* OnFailure is called once, only for a failure, with the number of times   *)
(* the handler was called.                                                  *)
RetryContract ==
  \A j \in Jobs :
    /\ runs[j] <= Attempts(j)
    /\ outcome[j] = "failed" => runs[j] = Attempts(j) \/ JobCtxDone(j)
    /\ reports[j] # <<>> => outcome[j] = "failed" /\ reports[j] = <<runs[j]>>

(* The pool implements the service: the handler and the backoffs of a job   *)
(* are its run; a job that is called again after it ended has no            *)
(* counterpart there.  The service is open until the flag is set, and       *)
(* drained when a Shutdown answered nil.                                    *)
Running(j) == \E w \in Workers : work[w] \in {"handler", "backoff"} /\ job[w] = j
Status(j) ==
  IF Running(j) THEN IF outcome[j] = "none" THEN "running" ELSE "again"
  ELSE IF outcome[j] # "none" THEN outcome[j]
  ELSE IF call[j] = "accepted" THEN "accepted"
  ELSE IF call[j] \in Returned THEN "refused" ELSE "new"

Service == INSTANCE JobService WITH
  status  <- [j \in Jobs |-> Status(j)],
  open    <- ~shutdown,
  drained <- \E s \in Stoppers : stop[s] = "nil"

(* In every interleaving a submission is accepted or refused once, an       *)
(* accepted one runs once and ends once, none is accepted after shutdown    *)
(* began, and nil is answered only when nothing is left.                    *)
ServiceSafety == Service!Spec

(* ... and what was accepted is run and ends, if the handlers return: a     *)
(* shutdown, a failing job or a full queue in between loses nothing.        *)
ServiceLiveness == Service!LiveSpec

(* Every Submit and every Shutdown returns, if the handlers do.             *)
CallsReturn ==
  /\ \A j \in Jobs : call[j] = "lock" ~> call[j] \in Returned
  /\ \A s \in Stoppers : stop[s] = "once" ~> stop[s] \in {"nil", "ctxErr"}
=============================================================================
