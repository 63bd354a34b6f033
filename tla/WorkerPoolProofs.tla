-------------------------- MODULE WorkerPoolProofs --------------------------
(***************************************************************************)
(* Proofs about WorkerPool, for any finite sets of submissions, workers    *)
(* and Shutdown calls, any queue size, both modes and any retry limits.    *)
(***************************************************************************)
EXTENDS WorkerPool, FiniteSetTheorems, TLAPS

-----------------------------------------------------------------------------
(* The inductive invariant, in parts.                                       *)

(* Whoever is inside a critical section that spans steps holds mu, and a    *)
(* sender is there only before the shutdown flag is set.                    *)
MutexInv ==
  /\ \A j \in Jobs : call[j] = "send" => mu = j /\ ~shutdown
  /\ \A s \in Stoppers : stop[s] = "close" => mu = s /\ shutdown
  /\ closed => shutdown
  /\ NoSendOnClosed

(* What each stage of a shutdown knows.                                     *)
ShutdownInv ==
  /\ once = "done" => closed
  /\ \A s \in Stoppers : stop[s] \in {"spawn", "wait", "nil", "ctxErr"} => closed
  /\ \A w \in Workers : work[w] = "exited" => closed /\ queue = <<>>
  /\ waiter = "done" => \A w \in Workers : work[w] = "exited"
  /\ \A s \in Stoppers : stop[s] = "nil" => waiter = "done"

(* A submission nobody has run yet, refused, on its way or in the channel.  *)
Fresh(j) == outcome[j] = "none" /\ runs[j] = 0 /\ reports[j] = <<>>

(* Every job is in one place: with one worker, or in one slot of the        *)
(* channel, or neither.                                                     *)
PlaceInv ==
  /\ \A w \in Workers : work[w] \in Holding => call[job[w]] = "accepted"
  /\ \A w, v \in Workers :
       work[w] \in Holding /\ work[v] \in Holding /\ job[w] = job[v] => w = v
  /\ \A i \in 1 .. Len(queue) : call[queue[i]] = "accepted" /\ Fresh(queue[i])
  /\ \A i, k \in 1 .. Len(queue) : queue[i] = queue[k] => i = k
  /\ \A i \in 1 .. Len(queue), w \in Workers : work[w] \in Holding => job[w] # queue[i]
  /\ \A j \in Jobs : call[j] # "accepted" => Fresh(j)

(* Nothing accepted is lost.                                                *)
Held(j) == \E w \in Workers : work[w] \in Holding /\ job[w] = j

KeptInv ==
  \A j \in Jobs : call[j] = "accepted" /\ outcome[j] = "none" =>
    j \in Elements(queue) \/ Held(j)

(* How far executeJob is with the job in the hand of w.                     *)
AttemptOK(w) ==
  /\ work[w] = "taken" => Fresh(job[w])
  /\ work[w] \in {"handler", "backoff"} =>
       /\ outcome[job[w]] = "none"
       /\ reports[job[w]] = <<>>
       /\ runs[job[w]] = attempt[w]
       /\ attempt[w] \in 1 .. Attempts(job[w])
  /\ work[w] = "backoff" => attempt[w] < Attempts(job[w])
  /\ work[w] = "report" =>
       /\ outcome[job[w]] = "failed"
       /\ reports[job[w]] = <<>>
       /\ runs[job[w]] = attempt[w]
  /\ work[w] = "leave" => outcome[job[w]] # "none"

AttemptInv == \A w \in Workers : AttemptOK(w)

(* A failure is reported once, unless its worker is just about to.          *)
ToReport(j) == \E w \in Workers : work[w] = "report" /\ job[w] = j

ReportOK(j) ==
  /\ runs[j] <= Attempts(j)
  /\ outcome[j] # "failed" => reports[j] = <<>>
  /\ outcome[j] = "failed" =>
       /\ runs[j] = Attempts(j) \/ JobCtxDone(j)
       /\ reports[j] = <<runs[j]>> \/ ToReport(j)

ReportInv == \A j \in Jobs : ReportOK(j)

IInv == TypeOK /\ MutexInv /\ ShutdownInv /\ PlaceInv /\ KeptInv /\ AttemptInv /\ ReportInv

-----------------------------------------------------------------------------
(* Facts about the channel.                                                 *)

LEMMA TailFacts ==
  ASSUME NEW S, NEW q \in Seq(S), q # <<>>
  PROVE  /\ Head(q) = q[1] /\ Head(q) \in S
         /\ Tail(q) \in Seq(S)
         /\ Len(q) \in Nat \ {0}
         /\ Len(Tail(q)) = Len(q) - 1
         /\ \A i \in 1 .. Len(Tail(q)) : Tail(q)[i] = q[i + 1]
OBVIOUS

LEMMA AppendFacts ==
  ASSUME NEW S, NEW q \in Seq(S), NEW e \in S
  PROVE  /\ Append(q, e) \in Seq(S)
         /\ Len(q) \in Nat
         /\ Len(Append(q, e)) = Len(q) + 1
         /\ \A i \in 1 .. Len(q) : Append(q, e)[i] = q[i]
         /\ Append(q, e)[Len(q) + 1] = e
OBVIOUS

LEMMA ElementsFacts ==
  ASSUME NEW S, NEW q \in Seq(S)
  PROVE  /\ \A e \in S : Elements(Append(q, e)) = Elements(q) \cup {e}
         /\ q # <<>> => Elements(q) = {Head(q)} \cup Elements(Tail(q))
<1>1. ASSUME NEW e \in S PROVE Elements(Append(q, e)) = Elements(q) \cup {e}
  <2> DEFINE n == Len(q)
  <2>1. \A i \in 1 .. n + 1 : i \in 1 .. n \/ i = n + 1
    BY AppendFacts
  <2>2. Elements(Append(q, e)) \subseteq Elements(q) \cup {e}
    BY <2>1, AppendFacts DEF Elements
  <2>3. Elements(q) \cup {e} \subseteq Elements(Append(q, e))
    <3>1. n \in Nat /\ n + 1 \in 1 .. n + 1 /\ 1 .. n \subseteq 1 .. n + 1
      BY AppendFacts
    <3>2. QED
      BY <3>1, AppendFacts DEF Elements
  <2>4. QED
    BY <2>2, <2>3
<1>2. ASSUME q # <<>> PROVE Elements(q) = {Head(q)} \cup Elements(Tail(q))
  <2> DEFINE t == Tail(q)
  <2>1. \A i \in 1 .. Len(q) : i = 1 \/ (i - 1 \in 1 .. Len(t) /\ q[i] = t[i - 1])
    BY <1>2, TailFacts
  <2>2. Elements(q) \subseteq {Head(q)} \cup Elements(t)
    BY <1>2, <2>1, TailFacts DEF Elements
  <2>3. \A i \in 1 .. Len(t) : i + 1 \in 1 .. Len(q) /\ q[i + 1] = t[i]
    BY <1>2, TailFacts
  <2>4. {Head(q)} \cup Elements(t) \subseteq Elements(q)
    BY <1>2, <2>3, TailFacts DEF Elements
  <2>5. QED
    BY <2>2, <2>4
<1>3. QED
  BY <1>1, <1>2

LEMMA AttemptsPositive ==
  ASSUME NEW j \in Jobs
  PROVE  Attempts(j) \in Nat \ {0}
BY JobAssumption DEF Attempts

LEMMA CounterFacts ==
  ASSUME stats \in Counters
  PROVE  /\ [stats EXCEPT !.Submitted = @ + 1] \in Counters
         /\ [stats EXCEPT !.Submitted = @ - 1] \in Counters
         /\ [stats EXCEPT !.Succeeded = @ + 1] \in Counters
         /\ [stats EXCEPT !.Failed = @ + 1] \in Counters
         /\ [stats EXCEPT !.InFlight = @ + 1] \in Counters
         /\ [stats EXCEPT !.InFlight = @ - 1] \in Counters
BY DEF Counters

-----------------------------------------------------------------------------
(* Type correctness.                                                        *)

LEMMA TypeInit == Init => TypeOK
<1> SUFFICES ASSUME Init PROVE TypeOK
  OBVIOUS
<1> USE PoolAssumption DEF Init, Submitting, Stopping, Working, Holding
<1>1. stats \in Counters
  BY DEF Counters
<1>2. queue \in Seq(Jobs) /\ Len(queue) <= QueueSize
  OBVIOUS
<1>3. reports \in [Jobs -> Seq(Nat)] /\ runs \in [Jobs -> Nat]
  OBVIOUS
<1>4. call \in [Jobs -> Submitting] /\ stop \in [Stoppers -> Stopping]
  OBVIOUS
<1>5. work \in [Workers -> Working]
  OBVIOUS
<1>6. QED
  BY <1>1, <1>2, <1>3, <1>4, <1>5 DEF TypeOK

LEMMA TypeStep == TypeOK /\ [Next]_vars => TypeOK'
<1> SUFFICES ASSUME TypeOK, [Next]_vars PROVE TypeOK'
  OBVIOUS
<1> USE PoolAssumption DEF TypeOK, submitVars, stopVars, workVars, Submitting, Stopping, Working, Holding,
          Active, Returned
<1>1. ASSUME NEW x \in Expiring, Cancel(x) PROVE TypeOK'
  BY <1>1 DEF Cancel
<1>2. ASSUME NEW j \in Jobs, Call(j) PROVE TypeOK'
  BY <1>2 DEF Call
<1>3. ASSUME NEW j \in Jobs, RefuseLate(j) PROVE TypeOK'
  BY <1>3 DEF RefuseLate
<1>4. ASSUME NEW j \in Jobs, Admit(j) PROVE TypeOK'
  BY <1>4, CounterFacts DEF Admit
<1>5. ASSUME NEW j \in Jobs, Send(j) PROVE TypeOK'
  BY <1>5, AppendFacts DEF Send
<1>6. ASSUME NEW j \in Jobs, GiveUp(j) PROVE TypeOK'
  BY <1>6 DEF GiveUp
<1>7. ASSUME NEW j \in Jobs, Undo(j) PROVE TypeOK'
  BY <1>7, CounterFacts DEF Undo
<1>8. ASSUME NEW j \in Jobs, Recheck(j) PROVE TypeOK'
  BY <1>8 DEF Recheck
<1>9. ASSUME NEW s \in Stoppers, CallShutdown(s) PROVE TypeOK'
  BY <1>9 DEF CallShutdown
<1>10. ASSUME NEW s \in Stoppers, EnterOnce(s) PROVE TypeOK'
  BY <1>10 DEF EnterOnce
<1>11. ASSUME NEW s \in Stoppers, BeginShutdown(s) PROVE TypeOK'
  BY <1>11 DEF BeginShutdown
<1>12. ASSUME NEW s \in Stoppers, CloseQueue(s) PROVE TypeOK'
  BY <1>12 DEF CloseQueue
<1>13. ASSUME NEW s \in Stoppers, SpawnWaiter(s) PROVE TypeOK'
  BY <1>13 DEF SpawnWaiter
<1>14. ASSUME NEW s \in Stoppers, ShutdownDone(s) PROVE TypeOK'
  BY <1>14 DEF ShutdownDone
<1>15. ASSUME NEW s \in Stoppers, ShutdownExpired(s) PROVE TypeOK'
  BY <1>15 DEF ShutdownExpired
<1>16. ASSUME NEW w \in Workers, Receive(w) PROVE TypeOK'
  <2> USE DEF Receive
  <2>1. Head(queue) \in Jobs /\ queue' \in Seq(Jobs) /\ Len(queue') <= QueueSize
    BY <1>16, TailFacts
  <2>2. work' \in [Workers -> Working]
    BY <1>16
  <2>3. job' \in [Workers -> Jobs \cup {NoJob}]
    BY <1>16, <2>1
  <2>4. \A v \in Workers : work'[v] \in Holding => job'[v] \in Jobs
    BY <1>16, <2>1
  <2>5. QED
    BY <1>16, <2>1, <2>2, <2>3, <2>4
<1>17. ASSUME NEW w \in Workers, Exit(w) PROVE TypeOK'
  BY <1>17 DEF Exit
<1>18. ASSUME NEW w \in Workers, Start(w) PROVE TypeOK'
  <2> USE DEF Start
  <2>1. job[w] \in Jobs
    BY <1>18
  <2>2. work' \in [Workers -> Working]
    BY <1>18
  <2>3. stats' \in Counters
    BY <1>18, CounterFacts
  <2>4. \A v \in Workers : work'[v] \in Holding => job'[v] \in Jobs
    BY <1>18
  <2>5. runs' \in [Jobs -> Nat]
    BY <1>18, <2>1
  <2>6. QED
    BY <1>18, <2>2, <2>3, <2>4, <2>5
<1>19. ASSUME NEW w \in Workers, HandlerSucceeds(w) PROVE TypeOK'
  BY <1>19, CounterFacts DEF HandlerSucceeds
<1>20. ASSUME NEW w \in Workers, HandlerFails(w) PROVE TypeOK'
  BY ZenonT(60), <1>20, CounterFacts DEF HandlerFails, Fail
<1>21. ASSUME NEW w \in Workers, BackoffElapsed(w) PROVE TypeOK'
  <2> USE DEF BackoffElapsed
  <2>1. job[w] \in Jobs
    BY <1>21
  <2>2. work' \in [Workers -> Working]
    BY <1>21
  <2>3. stats' \in Counters
    BY <1>21
  <2>4. \A v \in Workers : work'[v] \in Holding => job'[v] \in Jobs
    BY <1>21
  <2>5. runs' \in [Jobs -> Nat]
    BY <1>21, <2>1
  <2>6. QED
    BY SMTT(20), <1>21, <2>2, <2>3, <2>4, <2>5
<1>22. ASSUME NEW w \in Workers, BackoffCancelled(w) PROVE TypeOK'
  BY <1>22, CounterFacts DEF BackoffCancelled, Fail
<1>23. ASSUME NEW w \in Workers, CallOnFailure(w) PROVE TypeOK'
  <2> USE DEF CallOnFailure
  <2>1. job[w] \in Jobs /\ attempt[w] \in Nat
    BY <1>23
  <2>2. work' \in [Workers -> Working]
    BY <1>23
  <2>3. \A v \in Workers : work'[v] \in Holding => job'[v] \in Jobs
    BY <1>23
  <2>4. Append(reports[job[w]], attempt[w]) \in Seq(Nat)
    BY <2>1, AppendFacts
  <2>5. reports' \in [Jobs -> Seq(Nat)]
    BY <1>23, <2>1, <2>4
  <2>6. QED
    BY <1>23, <2>2, <2>3, <2>5
<1>24. ASSUME NEW w \in Workers, Leave(w) PROVE TypeOK'
  <2> USE DEF Leave
  <2>1. work' \in [Workers -> Working]
    BY <1>24
  <2>2. job' \in [Workers -> Jobs \cup {NoJob}]
    BY <1>24
  <2>3. \A v \in Workers : work'[v] \in Holding => job'[v] \in Jobs
    BY <1>24
  <2>4. stats' \in Counters
    BY <1>24, CounterFacts
  <2>5. QED
    BY <1>24, <2>1, <2>2, <2>3, <2>4
<1>25. CASE AllWorkersDone
  BY <1>25 DEF AllWorkersDone
<1>26. CASE UNCHANGED vars
  BY <1>26 DEF vars
<1>27. QED
  BY <1>1, <1>2, <1>3, <1>4, <1>5, <1>6, <1>7, <1>8, <1>9, <1>10, <1>11, <1>12, <1>13,
     <1>14, <1>15, <1>16, <1>17, <1>18, <1>19, <1>20, <1>21, <1>22, <1>23, <1>24, <1>25, <1>26
  DEF Next, Submit, Shutdown, WorkerStep, Handler

(* Every variable keeps its type, the channel its capacity, and a worker     *)
(* that is busy has a job, in every pool.                                   *)
THEOREM TypeCorrect == Spec => []TypeOK
<1>1. QED
  BY TypeInit, TypeStep, PTL DEF Spec

-----------------------------------------------------------------------------
(* The mutex and the stages of a shutdown.                                  *)

LEMMA MutexStep == TypeOK /\ MutexInv /\ [Next]_vars => MutexInv'
<1> SUFFICES ASSUME TypeOK, MutexInv, [Next]_vars PROVE MutexInv'
  OBVIOUS
<1> USE PoolAssumption DEF TypeOK, MutexInv, NoSendOnClosed, submitVars, stopVars, workVars,
          Submitting, Stopping
<1>1. ASSUME NEW x \in Expiring, Cancel(x) PROVE MutexInv'
  BY <1>1 DEF Cancel
<1>2. ASSUME NEW j \in Jobs, Call(j) PROVE MutexInv'
  BY <1>2 DEF Call
<1>3. ASSUME NEW j \in Jobs, RefuseLate(j) PROVE MutexInv'
  BY <1>3 DEF RefuseLate
<1>4. ASSUME NEW j \in Jobs, Admit(j) PROVE MutexInv'
  BY <1>4 DEF Admit
<1>5. ASSUME NEW j \in Jobs, Send(j) PROVE MutexInv'
  BY <1>5 DEF Send
<1>6. ASSUME NEW j \in Jobs, GiveUp(j) PROVE MutexInv'
  BY <1>6 DEF GiveUp
<1>7. ASSUME NEW j \in Jobs, Undo(j) PROVE MutexInv'
  BY <1>7 DEF Undo
<1>8. ASSUME NEW j \in Jobs, Recheck(j) PROVE MutexInv'
  BY <1>8 DEF Recheck
<1>9. ASSUME NEW s \in Stoppers, CallShutdown(s) PROVE MutexInv'
  BY <1>9 DEF CallShutdown
<1>10. ASSUME NEW s \in Stoppers, EnterOnce(s) PROVE MutexInv'
  BY <1>10 DEF EnterOnce
<1>11. ASSUME NEW s \in Stoppers, BeginShutdown(s) PROVE MutexInv'
  BY <1>11 DEF BeginShutdown
<1>12. ASSUME NEW s \in Stoppers, CloseQueue(s) PROVE MutexInv'
  BY <1>12 DEF CloseQueue
<1>13. ASSUME NEW s \in Stoppers, SpawnWaiter(s) PROVE MutexInv'
  BY <1>13 DEF SpawnWaiter
<1>14. ASSUME NEW s \in Stoppers, ShutdownDone(s) PROVE MutexInv'
  BY <1>14 DEF ShutdownDone
<1>15. ASSUME NEW s \in Stoppers, ShutdownExpired(s) PROVE MutexInv'
  BY <1>15 DEF ShutdownExpired
<1>16. ASSUME NEW w \in Workers, Receive(w) PROVE MutexInv'
  BY <1>16 DEF Receive
<1>17. ASSUME NEW w \in Workers, Exit(w) PROVE MutexInv'
  BY <1>17 DEF Exit
<1>18. ASSUME NEW w \in Workers, Start(w) PROVE MutexInv'
  BY <1>18 DEF Start
<1>19. ASSUME NEW w \in Workers, HandlerSucceeds(w) PROVE MutexInv'
  BY <1>19 DEF HandlerSucceeds
<1>20. ASSUME NEW w \in Workers, HandlerFails(w) PROVE MutexInv'
  BY <1>20 DEF HandlerFails, Fail
<1>21. ASSUME NEW w \in Workers, BackoffElapsed(w) PROVE MutexInv'
  BY <1>21 DEF BackoffElapsed
<1>22. ASSUME NEW w \in Workers, BackoffCancelled(w) PROVE MutexInv'
  BY <1>22 DEF BackoffCancelled, Fail
<1>23. ASSUME NEW w \in Workers, CallOnFailure(w) PROVE MutexInv'
  BY <1>23 DEF CallOnFailure
<1>24. ASSUME NEW w \in Workers, Leave(w) PROVE MutexInv'
  BY <1>24 DEF Leave
<1>25. CASE AllWorkersDone
  BY <1>25 DEF AllWorkersDone
<1>26. CASE UNCHANGED vars
  BY <1>26 DEF vars
<1>27. QED
  BY <1>1, <1>2, <1>3, <1>4, <1>5, <1>6, <1>7, <1>8, <1>9, <1>10, <1>11, <1>12, <1>13,
     <1>14, <1>15, <1>16, <1>17, <1>18, <1>19, <1>20, <1>21, <1>22, <1>23, <1>24, <1>25, <1>26
  DEF Next, Submit, Shutdown, WorkerStep, Handler

LEMMA ShutdownStep == TypeOK /\ MutexInv /\ ShutdownInv /\ [Next]_vars => ShutdownInv'
<1> SUFFICES ASSUME TypeOK, MutexInv, ShutdownInv, [Next]_vars PROVE ShutdownInv'
  OBVIOUS
<1> USE DEF TypeOK, MutexInv, ShutdownInv, submitVars, stopVars, workVars,
          Stopping, Working
<1>1. ASSUME NEW x \in Expiring, Cancel(x) PROVE ShutdownInv'
  BY <1>1 DEF Cancel
<1>2. ASSUME NEW j \in Jobs, Call(j) PROVE ShutdownInv'
  BY <1>2 DEF Call
<1>3. ASSUME NEW j \in Jobs, RefuseLate(j) PROVE ShutdownInv'
  BY <1>3 DEF RefuseLate
<1>4. ASSUME NEW j \in Jobs, Admit(j) PROVE ShutdownInv'
  BY <1>4 DEF Admit
<1>5. ASSUME NEW j \in Jobs, Send(j) PROVE ShutdownInv'
  BY <1>5 DEF Send
<1>6. ASSUME NEW j \in Jobs, GiveUp(j) PROVE ShutdownInv'
  BY <1>6 DEF GiveUp
<1>7. ASSUME NEW j \in Jobs, Undo(j) PROVE ShutdownInv'
  BY <1>7 DEF Undo
<1>8. ASSUME NEW j \in Jobs, Recheck(j) PROVE ShutdownInv'
  BY <1>8 DEF Recheck
<1>9. ASSUME NEW s \in Stoppers, CallShutdown(s) PROVE ShutdownInv'
  BY <1>9 DEF CallShutdown
<1>10. ASSUME NEW s \in Stoppers, EnterOnce(s) PROVE ShutdownInv'
  BY <1>10 DEF EnterOnce
<1>11. ASSUME NEW s \in Stoppers, BeginShutdown(s) PROVE ShutdownInv'
  BY <1>11 DEF BeginShutdown
<1>12. ASSUME NEW s \in Stoppers, CloseQueue(s) PROVE ShutdownInv'
  BY <1>12 DEF CloseQueue
<1>13. ASSUME NEW s \in Stoppers, SpawnWaiter(s) PROVE ShutdownInv'
  BY <1>13 DEF SpawnWaiter
<1>14. ASSUME NEW s \in Stoppers, ShutdownDone(s) PROVE ShutdownInv'
  BY <1>14 DEF ShutdownDone
<1>15. ASSUME NEW s \in Stoppers, ShutdownExpired(s) PROVE ShutdownInv'
  BY <1>15 DEF ShutdownExpired
<1>16. ASSUME NEW w \in Workers, Receive(w) PROVE ShutdownInv'
  BY <1>16, TailFacts DEF Receive
<1>17. ASSUME NEW w \in Workers, Exit(w) PROVE ShutdownInv'
  BY <1>17 DEF Exit
<1>18. ASSUME NEW w \in Workers, Start(w) PROVE ShutdownInv'
  BY <1>18 DEF Start
<1>19. ASSUME NEW w \in Workers, HandlerSucceeds(w) PROVE ShutdownInv'
  BY <1>19 DEF HandlerSucceeds
<1>20. ASSUME NEW w \in Workers, HandlerFails(w) PROVE ShutdownInv'
  BY <1>20 DEF HandlerFails, Fail
<1>21. ASSUME NEW w \in Workers, BackoffElapsed(w) PROVE ShutdownInv'
  BY <1>21 DEF BackoffElapsed
<1>22. ASSUME NEW w \in Workers, BackoffCancelled(w) PROVE ShutdownInv'
  BY <1>22 DEF BackoffCancelled, Fail
<1>23. ASSUME NEW w \in Workers, CallOnFailure(w) PROVE ShutdownInv'
  BY <1>23 DEF CallOnFailure
<1>24. ASSUME NEW w \in Workers, Leave(w) PROVE ShutdownInv'
  BY <1>24 DEF Leave
<1>25. CASE AllWorkersDone
  BY <1>25 DEF AllWorkersDone
<1>26. CASE UNCHANGED vars
  BY <1>26 DEF vars
<1>27. QED
  BY <1>1, <1>2, <1>3, <1>4, <1>5, <1>6, <1>7, <1>8, <1>9, <1>10, <1>11, <1>12, <1>13,
     <1>14, <1>15, <1>16, <1>17, <1>18, <1>19, <1>20, <1>21, <1>22, <1>23, <1>24, <1>25, <1>26
  DEF Next, Submit, Shutdown, WorkerStep, Handler

-----------------------------------------------------------------------------
(* Where the jobs are.                                                      *)

(* A step of a busy worker leaves what the others hold as it is.            *)
LEMMA PlaceFrame ==
  ASSUME TypeOK, PlaceInv, NEW w \in Workers, work[w] \in Holding,
         UNCHANGED <<queue, call, job>>,
         \A v \in Workers : work'[v] \in Holding => work[v] \in Holding,
         \A j \in Jobs : j # job[w] /\ Fresh(j) => Fresh(j)'
  PROVE  PlaceInv'
<1> USE DEF TypeOK, PlaceInv
<1>1. \A v \in Workers : work'[v] \in Holding => call'[job'[v]] = "accepted"
  OBVIOUS
<1>2. \A u, v \in Workers :
         work'[u] \in Holding /\ work'[v] \in Holding /\ job'[u] = job'[v] => u = v
  OBVIOUS
<1>3. \A i \in 1 .. Len(queue) : queue[i] \in Jobs /\ queue[i] # job[w]
  OBVIOUS
<1>4. \A i \in 1 .. Len(queue') : call'[queue'[i]] = "accepted" /\ Fresh(queue[i])'
  BY <1>3
<1>5. \A j \in Jobs : call'[j] # "accepted" => Fresh(j)'
  OBVIOUS
<1>6. QED
  BY <1>1, <1>2, <1>4, <1>5

LEMMA PlaceStep == TypeOK /\ MutexInv /\ PlaceInv /\ [Next]_vars => PlaceInv'
<1> SUFFICES ASSUME TypeOK, MutexInv, PlaceInv, [Next]_vars PROVE PlaceInv'
  OBVIOUS
<1> USE DEF TypeOK, PlaceInv, submitVars, stopVars, workVars
<1>1. ASSUME NEW x \in Expiring, Cancel(x) PROVE PlaceInv'
  BY <1>1 DEF Cancel, Fresh, Submitting, Working, Holding
<1>2. ASSUME NEW j \in Jobs, Call(j) PROVE PlaceInv'
  BY SMTT(20), <1>2 DEF Call, Fresh, Submitting, Working, Holding
<1>3. ASSUME NEW j \in Jobs, RefuseLate(j) PROVE PlaceInv'
  BY SMTT(20), <1>3 DEF RefuseLate, Fresh, Submitting, Working, Holding
<1>4. ASSUME NEW j \in Jobs, Admit(j) PROVE PlaceInv'
  BY <1>4 DEF Admit, Fresh, Submitting, Working, Holding
<1>5. ASSUME NEW j \in Jobs, Send(j) PROVE PlaceInv'
  <2>1. ~closed /\ queue' = Append(queue, j) /\ call' = [call EXCEPT ![j] = "accepted"]
    BY <1>5 DEF Send, MutexInv
  <2>2. /\ Len(queue) \in Nat
        /\ Len(queue') = Len(queue) + 1
        /\ \A i \in 1 .. Len(queue) : queue'[i] = queue[i] /\ queue[i] \in Jobs
        /\ queue'[Len(queue) + 1] = j
    BY <2>1, AppendFacts
  <2>3. \A i \in 1 .. Len(queue') : i \in 1 .. Len(queue) \/ i = Len(queue) + 1
    BY <2>2
  <2>4. call[j] # "accepted" /\ Fresh(j)
    BY <1>5 DEF Send
  <2>5. \A i \in 1 .. Len(queue) : queue[i] # j
    BY <2>4
  <2>6. \A v \in Workers : work[v] \in Holding => job[v] # j
    BY <2>4
  <2>7. \A k \in Jobs : Fresh(k) => Fresh(k)'
    BY <1>5 DEF Send, Fresh
  <2>8. \A i \in 1 .. Len(queue') : call'[queue'[i]] = "accepted" /\ Fresh(queue[i])'
    BY <2>1, <2>2, <2>3, <2>4, <2>7
  <2>9. \A i, k \in 1 .. Len(queue') : queue'[i] = queue'[k] => i = k
    <3>1. ASSUME NEW i \in 1 .. Len(queue'), NEW k \in 1 .. Len(queue'),
                 queue'[i] = queue'[k]
          PROVE  i = k
      <4>1. CASE i \in 1 .. Len(queue) /\ k \in 1 .. Len(queue)
        <5>1. queue[i] = queue[k]
          BY <2>2, <3>1, <4>1
        <5>2. QED
          BY <4>1, <5>1
      <4>2. CASE i = Len(queue) + 1 \/ k = Len(queue) + 1
        BY <2>2, <2>3, <2>5, <3>1, <4>2
      <4>3. QED
        BY <2>3, <4>1, <4>2
    <3>2. QED
      BY <3>1
  <2>10. UNCHANGED <<work, job>>
    BY <1>5 DEF Send
  <2>11. \A i \in 1 .. Len(queue'), v \in Workers : work'[v] \in Holding => job'[v] # queue'[i]
    BY <2>2, <2>3, <2>6, <2>10
  <2>12. \A v \in Workers : work'[v] \in Holding => call'[job'[v]] = "accepted"
    BY <2>1, <2>6, <2>10
  <2>13. \A u, v \in Workers :
            work'[u] \in Holding /\ work'[v] \in Holding /\ job'[u] = job'[v] => u = v
    BY <2>10
  <2>14. \A k \in Jobs : call'[k] # "accepted" => Fresh(k)'
    BY <2>1, <2>7
  <2>15. QED
    BY <2>8, <2>9, <2>11, <2>12, <2>13, <2>14
<1>6. ASSUME NEW j \in Jobs, GiveUp(j) PROVE PlaceInv'
  BY <1>6 DEF GiveUp, Fresh, Submitting, Working, Holding
<1>7. ASSUME NEW j \in Jobs, Undo(j) PROVE PlaceInv'
  BY <1>7 DEF Undo, Fresh, Submitting, Working, Holding
<1>8. ASSUME NEW j \in Jobs, Recheck(j) PROVE PlaceInv'
  BY SMTT(20), <1>8 DEF Recheck, Fresh, Submitting, Working, Holding
<1>9. ASSUME NEW s \in Stoppers, CallShutdown(s) PROVE PlaceInv'
  BY <1>9 DEF CallShutdown, Fresh, Submitting, Working, Holding
<1>10. ASSUME NEW s \in Stoppers, EnterOnce(s) PROVE PlaceInv'
  BY <1>10 DEF EnterOnce, Fresh, Submitting, Working, Holding
<1>11. ASSUME NEW s \in Stoppers, BeginShutdown(s) PROVE PlaceInv'
  BY <1>11 DEF BeginShutdown, Fresh, Submitting, Working, Holding
<1>12. ASSUME NEW s \in Stoppers, CloseQueue(s) PROVE PlaceInv'
  BY <1>12 DEF CloseQueue, Fresh, Submitting, Working, Holding
<1>13. ASSUME NEW s \in Stoppers, SpawnWaiter(s) PROVE PlaceInv'
  BY <1>13 DEF SpawnWaiter, Fresh, Submitting, Working, Holding
<1>14. ASSUME NEW s \in Stoppers, ShutdownDone(s) PROVE PlaceInv'
  BY <1>14 DEF ShutdownDone, Fresh, Submitting, Working, Holding
<1>15. ASSUME NEW s \in Stoppers, ShutdownExpired(s) PROVE PlaceInv'
  BY <1>15 DEF ShutdownExpired, Fresh, Submitting, Working, Holding
<1>16. ASSUME NEW w \in Workers, Receive(w) PROVE PlaceInv'
  <2>1. /\ Len(queue) \in Nat \ {0}
        /\ job' = [job EXCEPT ![w] = queue[1]]
        /\ Len(queue') = Len(queue) - 1
        /\ \A i \in 1 .. Len(queue') : queue'[i] = queue[i + 1]
    BY <1>16, TailFacts DEF Receive
  <2>2. \A i \in 1 .. Len(queue') : i + 1 \in 1 .. Len(queue) /\ i + 1 # 1
    BY <2>1
  <2>3. 1 \in 1 .. Len(queue) /\ queue[1] \in Jobs /\ call[queue[1]] = "accepted"
    BY <2>1
  <2>4. UNCHANGED <<call, outcome, runs, reports>>
    BY <1>16 DEF Receive
  <2>5. \A k \in Jobs : Fresh(k) => Fresh(k)'
    BY <2>4 DEF Fresh
  <2>6. \A v \in Workers : work'[v] \in Holding => v = w \/ work[v] \in Holding
    BY <1>16 DEF Receive
  <2>7. \A v \in Workers : v # w => job'[v] = job[v]
    BY <2>1
  <2>8. \A v \in Workers : work[v] \in Holding => job[v] # queue[1]
    BY <2>3
  <2>9. \A i \in 1 .. Len(queue') : queue'[i] \in Jobs /\ queue'[i] # queue[1]
    <3>1. ASSUME NEW i \in 1 .. Len(queue') PROVE queue'[i] \in Jobs /\ queue'[i] # queue[1]
      <4>1. queue'[i] = queue[i + 1] /\ i + 1 \in 1 .. Len(queue) /\ i + 1 # 1
        BY <2>1, <2>2
      <4>2. QED
        BY <2>3, <4>1
    <3>2. QED
      BY <3>1
  <2>10. job'[w] = queue[1]
    BY <2>1
  <2>11. \A v \in Workers : work'[v] \in Holding => call'[job'[v]] = "accepted"
    BY <2>3, <2>4, <2>6, <2>7, <2>10
  <2>12. \A u, v \in Workers :
            work'[u] \in Holding /\ work'[v] \in Holding /\ job'[u] = job'[v] => u = v
    BY ZenonT(60), <2>6, <2>7, <2>8, <2>10
  <2>13. \A i \in 1 .. Len(queue') : call'[queue'[i]] = "accepted" /\ Fresh(queue[i])'
    <3>1. ASSUME NEW i \in 1 .. Len(queue')
          PROVE  call'[queue'[i]] = "accepted" /\ Fresh(queue[i])'
      <4>1. queue'[i] = queue[i + 1] /\ i + 1 \in 1 .. Len(queue)
        BY <2>1, <2>2
      <4>2. call[queue'[i]] = "accepted" /\ Fresh(queue'[i])
        BY <4>1
      <4>3. QED
        BY <2>4, <4>2 DEF Fresh
    <3>2. QED
      BY <3>1
  <2>14. \A i, k \in 1 .. Len(queue') : queue'[i] = queue'[k] => i = k
    <3>1. ASSUME NEW i \in 1 .. Len(queue'), NEW k \in 1 .. Len(queue'),
                 queue'[i] = queue'[k]
          PROVE  i = k
      <4>1. queue[i + 1] = queue[k + 1]
        BY <2>1, <3>1
      <4>2. i + 1 \in 1 .. Len(queue) /\ k + 1 \in 1 .. Len(queue)
        BY <2>2
      <4>3. QED
        BY <4>1, <4>2
    <3>2. QED
      BY <3>1
  <2>15. \A i \in 1 .. Len(queue'), v \in Workers : work'[v] \in Holding => job'[v] # queue'[i]
    <3>1. ASSUME NEW i \in 1 .. Len(queue'), NEW v \in Workers, work'[v] \in Holding
          PROVE  job'[v] # queue'[i]
      <4>1. CASE v = w
        BY <2>9, <2>10, <4>1
      <4>2. CASE v # w
        <5>1. work[v] \in Holding /\ job'[v] = job[v]
          BY <2>6, <2>7, <3>1, <4>2
        <5>2. queue'[i] = queue[i + 1] /\ i + 1 \in 1 .. Len(queue)
          BY <2>1, <2>2
        <5>3. QED
          BY <5>1, <5>2
      <4>3. QED
        BY <4>1, <4>2
    <3>2. QED
      BY <3>1
  <2>16. \A k \in Jobs : call'[k] # "accepted" => Fresh(k)'
    BY <2>4, <2>5
  <2>17. QED
    BY <2>11, <2>12, <2>13, <2>14, <2>15, <2>16
<1>17. ASSUME NEW w \in Workers, Exit(w) PROVE PlaceInv'
  BY <1>17 DEF Exit, Fresh, Submitting, Working, Holding
<1>18. ASSUME NEW w \in Workers, Start(w) PROVE PlaceInv'
  <2>1. work[w] \in Holding /\ UNCHANGED <<queue, call, job>>
    BY <1>18 DEF Start, Holding
  <2>2. \A v \in Workers : work'[v] \in Holding => work[v] \in Holding
    BY <1>18 DEF Start, Holding
  <2>3. \A j \in Jobs : j # job[w] /\ Fresh(j) => Fresh(j)'
    BY <1>18 DEF Start, Fresh
  <2>4. QED
    BY <2>1, <2>2, <2>3, PlaceFrame
<1>19. ASSUME NEW w \in Workers, HandlerSucceeds(w) PROVE PlaceInv'
  <2>1. work[w] \in Holding /\ UNCHANGED <<queue, call, job>>
    BY <1>19 DEF HandlerSucceeds, Holding
  <2>2. \A v \in Workers : work'[v] \in Holding => work[v] \in Holding
    BY <1>19 DEF HandlerSucceeds, Holding
  <2>3. \A j \in Jobs : j # job[w] /\ Fresh(j) => Fresh(j)'
    BY <1>19 DEF HandlerSucceeds, Fresh
  <2>4. QED
    BY <2>1, <2>2, <2>3, PlaceFrame
<1>20. ASSUME NEW w \in Workers, HandlerFails(w) PROVE PlaceInv'
  <2>1. work[w] \in Holding /\ UNCHANGED <<queue, call, job>>
    BY <1>20 DEF HandlerFails, Fail, Holding
  <2>2. \A v \in Workers : work'[v] \in Holding => work[v] \in Holding
    BY <1>20 DEF HandlerFails, Fail, Holding
  <2>3. \A j \in Jobs : j # job[w] /\ Fresh(j) => Fresh(j)'
    BY <1>20 DEF HandlerFails, Fail, Fresh
  <2>4. QED
    BY <2>1, <2>2, <2>3, PlaceFrame
<1>21. ASSUME NEW w \in Workers, BackoffElapsed(w) PROVE PlaceInv'
  <2>1. work[w] \in Holding /\ UNCHANGED <<queue, call, job>>
    BY <1>21 DEF BackoffElapsed, Holding
  <2>2. \A v \in Workers : work'[v] \in Holding => work[v] \in Holding
    BY <1>21 DEF BackoffElapsed, Holding
  <2>3. \A j \in Jobs : j # job[w] /\ Fresh(j) => Fresh(j)'
    BY <1>21 DEF BackoffElapsed, Fresh
  <2>4. QED
    BY <2>1, <2>2, <2>3, PlaceFrame
<1>22. ASSUME NEW w \in Workers, BackoffCancelled(w) PROVE PlaceInv'
  <2>1. work[w] \in Holding /\ UNCHANGED <<queue, call, job>>
    BY <1>22 DEF BackoffCancelled, Fail, Holding
  <2>2. \A v \in Workers : work'[v] \in Holding => work[v] \in Holding
    BY <1>22 DEF BackoffCancelled, Fail, Holding
  <2>3. \A j \in Jobs : j # job[w] /\ Fresh(j) => Fresh(j)'
    BY <1>22 DEF BackoffCancelled, Fail, Fresh
  <2>4. QED
    BY <2>1, <2>2, <2>3, PlaceFrame
<1>23. ASSUME NEW w \in Workers, CallOnFailure(w) PROVE PlaceInv'
  <2>1. work[w] \in Holding /\ UNCHANGED <<queue, call, job>>
    BY <1>23 DEF CallOnFailure, Holding
  <2>2. \A v \in Workers : work'[v] \in Holding => work[v] \in Holding
    BY <1>23 DEF CallOnFailure, Holding
  <2>3. \A j \in Jobs : j # job[w] /\ Fresh(j) => Fresh(j)'
    BY <1>23 DEF CallOnFailure, Fresh
  <2>4. QED
    BY <2>1, <2>2, <2>3, PlaceFrame
<1>24. ASSUME NEW w \in Workers, Leave(w) PROVE PlaceInv'
  BY SMTT(20), <1>24 DEF Leave, Fresh, Submitting, Working, Holding
<1>25. CASE AllWorkersDone
  BY <1>25 DEF AllWorkersDone, Fresh, Submitting, Working, Holding
<1>26. CASE UNCHANGED vars
  BY <1>26 DEF vars, Fresh, Submitting, Working, Holding
<1>27. QED
  BY <1>1, <1>2, <1>3, <1>4, <1>5, <1>6, <1>7, <1>8, <1>9, <1>10, <1>11, <1>12, <1>13,
     <1>14, <1>15, <1>16, <1>17, <1>18, <1>19, <1>20, <1>21, <1>22, <1>23, <1>24, <1>25, <1>26
  DEF Next, Submit, Shutdown, WorkerStep, Handler

(* A step that puts no job down, forgets no outcome and accepts nothing.    *)
LEMMA KeptFrame ==
  ASSUME KeptInv, UNCHANGED <<queue, job>>,
         \A w \in Workers : work[w] \in Holding => work'[w] \in Holding,
         \A j \in Jobs : call'[j] = "accepted" => call[j] = "accepted",
         \A j \in Jobs : outcome'[j] = "none" => outcome[j] = "none"
  PROVE  KeptInv'
BY DEF KeptInv, Held

LEMMA KeptStep == TypeOK /\ MutexInv /\ AttemptInv /\ KeptInv /\ [Next]_vars => KeptInv'
<1> SUFFICES ASSUME TypeOK, MutexInv, AttemptInv, KeptInv, [Next]_vars PROVE KeptInv'
  OBVIOUS
<1> USE DEF TypeOK, submitVars, stopVars, workVars
<1>1. ASSUME NEW x \in Expiring, Cancel(x) PROVE KeptInv'
  BY <1>1, KeptFrame DEF Cancel
<1>2. ASSUME NEW j \in Jobs, Call(j) PROVE KeptInv'
  BY <1>2, KeptFrame DEF Call
<1>3. ASSUME NEW j \in Jobs, RefuseLate(j) PROVE KeptInv'
  BY <1>3, KeptFrame DEF RefuseLate
<1>4. ASSUME NEW j \in Jobs, Admit(j) PROVE KeptInv'
  BY <1>4, KeptFrame DEF Admit
<1>5. ASSUME NEW j \in Jobs, Send(j) PROVE KeptInv'
  <2>1. /\ call'[j] = "accepted" /\ \A k \in Jobs : k # j => call'[k] = call[k]
        /\ queue' = Append(queue, j)
        /\ UNCHANGED <<work, job, outcome>>
    BY <1>5 DEF Send, MutexInv
  <2>2. Elements(queue') = Elements(queue) \cup {j}
    BY <2>1, ElementsFacts
  <2>3. QED
    BY <2>1, <2>2 DEF KeptInv, Held
<1>6. ASSUME NEW j \in Jobs, GiveUp(j) PROVE KeptInv'
  BY <1>6, KeptFrame DEF GiveUp
<1>7. ASSUME NEW j \in Jobs, Undo(j) PROVE KeptInv'
  BY <1>7, KeptFrame DEF Undo
<1>8. ASSUME NEW j \in Jobs, Recheck(j) PROVE KeptInv'
  BY <1>8, KeptFrame DEF Recheck
<1>9. ASSUME NEW s \in Stoppers, CallShutdown(s) PROVE KeptInv'
  BY <1>9, KeptFrame DEF CallShutdown
<1>10. ASSUME NEW s \in Stoppers, EnterOnce(s) PROVE KeptInv'
  BY <1>10, KeptFrame DEF EnterOnce
<1>11. ASSUME NEW s \in Stoppers, BeginShutdown(s) PROVE KeptInv'
  BY <1>11, KeptFrame DEF BeginShutdown
<1>12. ASSUME NEW s \in Stoppers, CloseQueue(s) PROVE KeptInv'
  BY <1>12, KeptFrame DEF CloseQueue
<1>13. ASSUME NEW s \in Stoppers, SpawnWaiter(s) PROVE KeptInv'
  BY <1>13, KeptFrame DEF SpawnWaiter
<1>14. ASSUME NEW s \in Stoppers, ShutdownDone(s) PROVE KeptInv'
  BY <1>14, KeptFrame DEF ShutdownDone
<1>15. ASSUME NEW s \in Stoppers, ShutdownExpired(s) PROVE KeptInv'
  BY <1>15, KeptFrame DEF ShutdownExpired
<1>16. ASSUME NEW w \in Workers, Receive(w) PROVE KeptInv'
  <2>1. /\ UNCHANGED <<call, outcome>>
        /\ work' = [work EXCEPT ![w] = "taken"]
        /\ job' = [job EXCEPT ![w] = Head(queue)]
        /\ queue' = Tail(queue)
        /\ work[w] = "recv"
    BY <1>16 DEF Receive
  <2>2. Elements(queue) = {Head(queue)} \cup Elements(queue')
    BY <1>16, ElementsFacts DEF Receive
  <2>3. \A k \in Jobs : k = Head(queue) => Held(k)'
    BY <2>1 DEF Held, Holding, Working
  <2>4. \A k \in Jobs : Held(k) => Held(k)'
    BY <2>1 DEF Held, Holding
  <2>5. QED
    BY <2>1, <2>2, <2>3, <2>4 DEF KeptInv
<1>17. ASSUME NEW w \in Workers, Exit(w) PROVE KeptInv'
  BY <1>17, KeptFrame DEF Exit, Holding, Working
<1>18. ASSUME NEW w \in Workers, Start(w) PROVE KeptInv'
  BY <1>18, KeptFrame DEF Start, Holding, Working
<1>19. ASSUME NEW w \in Workers, HandlerSucceeds(w) PROVE KeptInv'
  BY <1>19, KeptFrame DEF HandlerSucceeds, Holding, Working
<1>20. ASSUME NEW w \in Workers, HandlerFails(w) PROVE KeptInv'
  BY <1>20, KeptFrame DEF HandlerFails, Fail, Holding, Working
<1>21. ASSUME NEW w \in Workers, BackoffElapsed(w) PROVE KeptInv'
  BY <1>21, KeptFrame DEF BackoffElapsed, Holding, Working
<1>22. ASSUME NEW w \in Workers, BackoffCancelled(w) PROVE KeptInv'
  BY <1>22, KeptFrame DEF BackoffCancelled, Fail, Holding, Working
<1>23. ASSUME NEW w \in Workers, CallOnFailure(w) PROVE KeptInv'
  BY <1>23, KeptFrame DEF CallOnFailure, Holding, Working
<1>24. ASSUME NEW w \in Workers, Leave(w) PROVE KeptInv'
  <2>1. /\ UNCHANGED <<call, outcome, queue>>
        /\ \A v \in Workers : v # w => work'[v] = work[v] /\ job'[v] = job[v]
        /\ outcome[job[w]] # "none"
    BY <1>24 DEF Leave, AttemptInv, AttemptOK
  <2>2. \A k \in Jobs : k # job[w] /\ Held(k) => Held(k)'
    BY <2>1 DEF Held
  <2>3. QED
    BY <2>1, <2>2 DEF KeptInv
<1>25. CASE AllWorkersDone
  BY <1>25, KeptFrame DEF AllWorkersDone
<1>26. CASE UNCHANGED vars
  BY <1>26, KeptFrame DEF vars
<1>27. QED
  BY <1>1, <1>2, <1>3, <1>4, <1>5, <1>6, <1>7, <1>8, <1>9, <1>10, <1>11, <1>12, <1>13,
     <1>14, <1>15, <1>16, <1>17, <1>18, <1>19, <1>20, <1>21, <1>22, <1>23, <1>24, <1>25, <1>26
  DEF Next, Submit, Shutdown, WorkerStep, Handler

-----------------------------------------------------------------------------
(* Attempts, outcomes and reports.                                          *)

(* A step of worker w with its job leaves the others where they are.        *)
LEMMA AttemptFrame ==
  ASSUME TypeOK, PlaceInv, AttemptInv, NEW w \in Workers,
         \A v \in Workers : v # w =>
           work'[v] = work[v] /\ job'[v] = job[v] /\ attempt'[v] = attempt[v],
         \A j \in Jobs : (work[w] \in Holding => j # job[w]) =>
           outcome'[j] = outcome[j] /\ runs'[j] = runs[j] /\ reports'[j] = reports[j],
         AttemptOK(w)'
  PROVE  AttemptInv'
<1>1. SUFFICES ASSUME NEW v \in Workers, v # w PROVE AttemptOK(v)'
  BY DEF AttemptInv
<1>2. CASE work[v] \notin Holding
  BY <1>1, <1>2 DEF AttemptOK, TypeOK, Holding, Working
<1>3. CASE work[v] \in Holding
  <2>1. job[v] \in Jobs /\ (work[w] \in Holding => job[v] # job[w])
    BY <1>1, <1>3 DEF TypeOK, PlaceInv
  <2>2. /\ work'[v] = work[v] /\ job'[v] = job[v] /\ attempt'[v] = attempt[v]
        /\ outcome'[job[v]] = outcome[job[v]]
        /\ runs'[job[v]] = runs[job[v]]
        /\ reports'[job[v]] = reports[job[v]]
    BY <1>1, <2>1
  <2>3. AttemptOK(v)
    BY DEF AttemptInv
  <2>4. QED
    BY <2>2, <2>3 DEF AttemptOK, Fresh
<1>4. QED
  BY <1>2, <1>3

LEMMA AttemptStep == TypeOK /\ PlaceInv /\ AttemptInv /\ [Next]_vars => AttemptInv'
<1> SUFFICES ASSUME TypeOK, PlaceInv, AttemptInv, [Next]_vars PROVE AttemptInv'
  OBVIOUS
<1> USE DEF TypeOK, submitVars, stopVars, workVars
<1>1. ASSUME NEW x \in Expiring, Cancel(x) PROVE AttemptInv'
  BY <1>1 DEF Cancel, AttemptInv, AttemptOK, Fresh
<1>2. ASSUME NEW j \in Jobs, Call(j) PROVE AttemptInv'
  BY <1>2 DEF Call, AttemptInv, AttemptOK, Fresh
<1>3. ASSUME NEW j \in Jobs, RefuseLate(j) PROVE AttemptInv'
  BY <1>3 DEF RefuseLate, AttemptInv, AttemptOK, Fresh
<1>4. ASSUME NEW j \in Jobs, Admit(j) PROVE AttemptInv'
  BY <1>4 DEF Admit, AttemptInv, AttemptOK, Fresh
<1>5. ASSUME NEW j \in Jobs, Send(j) PROVE AttemptInv'
  BY <1>5 DEF Send, AttemptInv, AttemptOK, Fresh
<1>6. ASSUME NEW j \in Jobs, GiveUp(j) PROVE AttemptInv'
  BY <1>6 DEF GiveUp, AttemptInv, AttemptOK, Fresh
<1>7. ASSUME NEW j \in Jobs, Undo(j) PROVE AttemptInv'
  BY <1>7 DEF Undo, AttemptInv, AttemptOK, Fresh
<1>8. ASSUME NEW j \in Jobs, Recheck(j) PROVE AttemptInv'
  BY <1>8 DEF Recheck, AttemptInv, AttemptOK, Fresh
<1>9. ASSUME NEW s \in Stoppers, CallShutdown(s) PROVE AttemptInv'
  BY <1>9 DEF CallShutdown, AttemptInv, AttemptOK, Fresh
<1>10. ASSUME NEW s \in Stoppers, EnterOnce(s) PROVE AttemptInv'
  BY <1>10 DEF EnterOnce, AttemptInv, AttemptOK, Fresh
<1>11. ASSUME NEW s \in Stoppers, BeginShutdown(s) PROVE AttemptInv'
  BY <1>11 DEF BeginShutdown, AttemptInv, AttemptOK, Fresh
<1>12. ASSUME NEW s \in Stoppers, CloseQueue(s) PROVE AttemptInv'
  BY <1>12 DEF CloseQueue, AttemptInv, AttemptOK, Fresh
<1>13. ASSUME NEW s \in Stoppers, SpawnWaiter(s) PROVE AttemptInv'
  BY <1>13 DEF SpawnWaiter, AttemptInv, AttemptOK, Fresh
<1>14. ASSUME NEW s \in Stoppers, ShutdownDone(s) PROVE AttemptInv'
  BY <1>14 DEF ShutdownDone, AttemptInv, AttemptOK, Fresh
<1>15. ASSUME NEW s \in Stoppers, ShutdownExpired(s) PROVE AttemptInv'
  BY <1>15 DEF ShutdownExpired, AttemptInv, AttemptOK, Fresh
<1>16. ASSUME NEW w \in Workers, Receive(w) PROVE AttemptInv'
  <2>1. Len(queue) \in Nat \ {0} /\ Fresh(queue[1]) /\ Head(queue) = queue[1]
    BY <1>16, TailFacts DEF Receive, PlaceInv
  <2>2. AttemptOK(w)'
    BY <1>16, <2>1 DEF Receive, AttemptOK, Fresh
  <2>3. QED
    BY <1>16, <2>2, AttemptFrame DEF Receive
<1>17. ASSUME NEW w \in Workers, Exit(w) PROVE AttemptInv'
  <2>1. AttemptOK(w)'
    BY <1>17 DEF Exit, AttemptOK
  <2>2. QED
    BY <1>17, <2>1, AttemptFrame DEF Exit
<1>18. ASSUME NEW w \in Workers, Start(w) PROVE AttemptInv'
  <2>1. job[w] \in Jobs /\ Attempts(job[w]) \in Nat \ {0} /\ AttemptOK(w)
    BY <1>18, AttemptsPositive DEF Start, AttemptInv, Holding, Working
  <2>2. AttemptOK(w)'
    BY <1>18, <2>1 DEF Start, AttemptOK, Fresh
  <2>3. QED
    BY <1>18, <2>1, <2>2, AttemptFrame DEF Start, Holding, Working
<1>19. ASSUME NEW w \in Workers, HandlerSucceeds(w) PROVE AttemptInv'
  <2>1. job[w] \in Jobs /\ Attempts(job[w]) \in Nat \ {0} /\ AttemptOK(w)
    BY <1>19, AttemptsPositive DEF HandlerSucceeds, AttemptInv, Holding, Working
  <2>2. AttemptOK(w)'
    BY <1>19, <2>1 DEF HandlerSucceeds, AttemptOK, Fresh
  <2>3. QED
    BY <1>19, <2>1, <2>2, AttemptFrame DEF HandlerSucceeds, Holding, Working
<1>20. ASSUME NEW w \in Workers, HandlerFails(w) PROVE AttemptInv'
  <2>1. job[w] \in Jobs /\ Attempts(job[w]) \in Nat \ {0} /\ AttemptOK(w)
    BY <1>20, AttemptsPositive DEF HandlerFails, Fail, AttemptInv, Holding, Working
  <2>2. AttemptOK(w)'
    BY <1>20, <2>1 DEF HandlerFails, Fail, AttemptOK, Fresh
  <2>3. QED
    BY <1>20, <2>1, <2>2, AttemptFrame DEF HandlerFails, Fail, Holding, Working
<1>21. ASSUME NEW w \in Workers, BackoffElapsed(w) PROVE AttemptInv'
  <2>1. job[w] \in Jobs /\ Attempts(job[w]) \in Nat \ {0} /\ AttemptOK(w)
    BY <1>21, AttemptsPositive DEF BackoffElapsed, AttemptInv, Holding, Working
  <2>2. AttemptOK(w)'
    BY <1>21, <2>1 DEF BackoffElapsed, AttemptOK, Fresh
  <2>3. QED
    BY <1>21, <2>1, <2>2, AttemptFrame DEF BackoffElapsed, Holding, Working
<1>22. ASSUME NEW w \in Workers, BackoffCancelled(w) PROVE AttemptInv'
  <2>1. job[w] \in Jobs /\ Attempts(job[w]) \in Nat \ {0} /\ AttemptOK(w)
    BY <1>22, AttemptsPositive DEF BackoffCancelled, Fail, AttemptInv, Holding, Working
  <2>2. AttemptOK(w)'
    BY <1>22, <2>1 DEF BackoffCancelled, Fail, AttemptOK, Fresh
  <2>3. QED
    BY <1>22, <2>1, <2>2, AttemptFrame DEF BackoffCancelled, Fail, Holding, Working
<1>23. ASSUME NEW w \in Workers, CallOnFailure(w) PROVE AttemptInv'
  <2>1. job[w] \in Jobs /\ Attempts(job[w]) \in Nat \ {0} /\ AttemptOK(w)
    BY <1>23, AttemptsPositive DEF CallOnFailure, AttemptInv, Holding, Working
  <2>2. AttemptOK(w)'
    BY <1>23, <2>1 DEF CallOnFailure, AttemptOK, Fresh
  <2>3. QED
    BY <1>23, <2>1, <2>2, AttemptFrame DEF CallOnFailure, Holding, Working
<1>24. ASSUME NEW w \in Workers, Leave(w) PROVE AttemptInv'
  <2>1. AttemptOK(w)'
    BY <1>24 DEF Leave, AttemptOK
  <2>2. QED
    BY <1>24, <2>1, AttemptFrame DEF Leave
<1>25. CASE AllWorkersDone
  BY <1>25 DEF AllWorkersDone, AttemptInv, AttemptOK, Fresh
<1>26. CASE UNCHANGED vars
  BY <1>26 DEF vars, AttemptInv, AttemptOK, Fresh
<1>27. QED
  BY <1>1, <1>2, <1>3, <1>4, <1>5, <1>6, <1>7, <1>8, <1>9, <1>10, <1>11, <1>12, <1>13,
     <1>14, <1>15, <1>16, <1>17, <1>18, <1>19, <1>20, <1>21, <1>22, <1>23, <1>24, <1>25, <1>26
  DEF Next, Submit, Shutdown, WorkerStep, Handler

(* A step of worker w with its job leaves the reports of the others.        *)
LEMMA ReportFrame ==
  ASSUME TypeOK, ReportInv, NEW w \in Workers, cancelled \subseteq cancelled',
         job' = job, \A v \in Workers : v # w => work'[v] = work[v],
         \A j \in Jobs : j # job[w] =>
           outcome'[j] = outcome[j] /\ runs'[j] = runs[j] /\ reports'[j] = reports[j],
         job[w] \in Jobs => ReportOK(job[w])'
  PROVE  ReportInv'
<1>0. \A j \in Jobs : j = job[w] => ReportOK(j)'
  OBVIOUS
<1>1. SUFFICES ASSUME NEW j \in Jobs, j # job[w] PROVE ReportOK(j)'
  BY <1>0 DEF ReportInv
<1>2. ReportOK(j)
  BY DEF ReportInv
<1>3. ToReport(j) => ToReport(j)'
  BY <1>1 DEF ToReport
<1>4. JobCtxDone(j) => JobCtxDone(j)'
  BY DEF JobCtxDone
<1>5. QED
  BY <1>1, <1>2, <1>3, <1>4 DEF ReportOK

LEMMA ReportStep == TypeOK /\ AttemptInv /\ ReportInv /\ [Next]_vars => ReportInv'
<1> SUFFICES ASSUME TypeOK, AttemptInv, ReportInv, [Next]_vars PROVE ReportInv'
  OBVIOUS
<1> USE DEF TypeOK, submitVars, stopVars, workVars
<1>1. ASSUME NEW x \in Expiring, Cancel(x) PROVE ReportInv'
  BY <1>1 DEF Cancel, ReportInv, ReportOK, ToReport, JobCtxDone
<1>2. ASSUME NEW j \in Jobs, Call(j) PROVE ReportInv'
  BY <1>2 DEF Call, ReportInv, ReportOK, ToReport, JobCtxDone
<1>3. ASSUME NEW j \in Jobs, RefuseLate(j) PROVE ReportInv'
  BY <1>3 DEF RefuseLate, ReportInv, ReportOK, ToReport, JobCtxDone
<1>4. ASSUME NEW j \in Jobs, Admit(j) PROVE ReportInv'
  BY <1>4 DEF Admit, ReportInv, ReportOK, ToReport, JobCtxDone
<1>5. ASSUME NEW j \in Jobs, Send(j) PROVE ReportInv'
  BY <1>5 DEF Send, ReportInv, ReportOK, ToReport, JobCtxDone
<1>6. ASSUME NEW j \in Jobs, GiveUp(j) PROVE ReportInv'
  BY <1>6 DEF GiveUp, ReportInv, ReportOK, ToReport, JobCtxDone
<1>7. ASSUME NEW j \in Jobs, Undo(j) PROVE ReportInv'
  BY <1>7 DEF Undo, ReportInv, ReportOK, ToReport, JobCtxDone
<1>8. ASSUME NEW j \in Jobs, Recheck(j) PROVE ReportInv'
  BY <1>8 DEF Recheck, ReportInv, ReportOK, ToReport, JobCtxDone
<1>9. ASSUME NEW s \in Stoppers, CallShutdown(s) PROVE ReportInv'
  BY <1>9 DEF CallShutdown, ReportInv, ReportOK, ToReport, JobCtxDone
<1>10. ASSUME NEW s \in Stoppers, EnterOnce(s) PROVE ReportInv'
  BY <1>10 DEF EnterOnce, ReportInv, ReportOK, ToReport, JobCtxDone
<1>11. ASSUME NEW s \in Stoppers, BeginShutdown(s) PROVE ReportInv'
  BY <1>11 DEF BeginShutdown, ReportInv, ReportOK, ToReport, JobCtxDone
<1>12. ASSUME NEW s \in Stoppers, CloseQueue(s) PROVE ReportInv'
  BY <1>12 DEF CloseQueue, ReportInv, ReportOK, ToReport, JobCtxDone
<1>13. ASSUME NEW s \in Stoppers, SpawnWaiter(s) PROVE ReportInv'
  BY <1>13 DEF SpawnWaiter, ReportInv, ReportOK, ToReport, JobCtxDone
<1>14. ASSUME NEW s \in Stoppers, ShutdownDone(s) PROVE ReportInv'
  BY <1>14 DEF ShutdownDone, ReportInv, ReportOK, ToReport, JobCtxDone
<1>15. ASSUME NEW s \in Stoppers, ShutdownExpired(s) PROVE ReportInv'
  BY <1>15 DEF ShutdownExpired, ReportInv, ReportOK, ToReport, JobCtxDone
<1>16. ASSUME NEW w \in Workers, Receive(w) PROVE ReportInv'
  BY <1>16 DEF Receive, ReportInv, ReportOK, ToReport, JobCtxDone
<1>17. ASSUME NEW w \in Workers, Exit(w) PROVE ReportInv'
  BY <1>17 DEF Exit, ReportInv, ReportOK, ToReport, JobCtxDone
<1>18. ASSUME NEW w \in Workers, Start(w) PROVE ReportInv'
  <2>1. /\ job[w] \in Jobs /\ Attempts(job[w]) \in Nat \ {0}
        /\ AttemptOK(w) /\ ReportOK(job[w])
    BY <1>18, AttemptsPositive DEF Start, AttemptInv, ReportInv, Holding, Working
  <2>2. ReportOK(job[w])'
    BY <1>18, <2>1 DEF Start, AttemptOK, ReportOK, ToReport, JobCtxDone, Fresh
  <2>3. QED
    BY <1>18, <2>2, ReportFrame DEF Start
<1>19. ASSUME NEW w \in Workers, HandlerSucceeds(w) PROVE ReportInv'
  <2>1. /\ job[w] \in Jobs /\ Attempts(job[w]) \in Nat \ {0}
        /\ AttemptOK(w) /\ ReportOK(job[w])
    BY <1>19, AttemptsPositive DEF HandlerSucceeds, AttemptInv, ReportInv, Holding, Working
  <2>2. ReportOK(job[w])'
    BY <1>19, <2>1 DEF HandlerSucceeds, AttemptOK, ReportOK, ToReport, JobCtxDone, Fresh
  <2>3. QED
    BY <1>19, <2>2, ReportFrame DEF HandlerSucceeds
<1>20. ASSUME NEW w \in Workers, HandlerFails(w) PROVE ReportInv'
  <2>1. /\ job[w] \in Jobs /\ Attempts(job[w]) \in Nat \ {0}
        /\ AttemptOK(w) /\ ReportOK(job[w])
    BY <1>20, AttemptsPositive DEF HandlerFails, Fail, AttemptInv, ReportInv, Holding, Working
  <2>2. ReportOK(job[w])'
    BY <1>20, <2>1 DEF HandlerFails, Fail, AttemptOK, ReportOK, ToReport, JobCtxDone, Fresh
  <2>3. QED
    BY <1>20, <2>2, ReportFrame DEF HandlerFails, Fail
<1>21. ASSUME NEW w \in Workers, BackoffElapsed(w) PROVE ReportInv'
  <2>1. /\ job[w] \in Jobs /\ Attempts(job[w]) \in Nat \ {0}
        /\ AttemptOK(w) /\ ReportOK(job[w])
    BY <1>21, AttemptsPositive DEF BackoffElapsed, AttemptInv, ReportInv, Holding, Working
  <2>2. ReportOK(job[w])'
    BY <1>21, <2>1 DEF BackoffElapsed, AttemptOK, ReportOK, ToReport, JobCtxDone, Fresh
  <2>3. QED
    BY <1>21, <2>2, ReportFrame DEF BackoffElapsed
<1>22. ASSUME NEW w \in Workers, BackoffCancelled(w) PROVE ReportInv'
  <2>1. /\ job[w] \in Jobs /\ Attempts(job[w]) \in Nat \ {0}
        /\ AttemptOK(w) /\ ReportOK(job[w])
    BY <1>22, AttemptsPositive DEF BackoffCancelled, Fail, AttemptInv, ReportInv, Holding, Working
  <2>2. ReportOK(job[w])'
    BY <1>22, <2>1 DEF BackoffCancelled, Fail, AttemptOK, ReportOK, ToReport, JobCtxDone, Fresh
  <2>3. QED
    BY <1>22, <2>2, ReportFrame DEF BackoffCancelled, Fail
<1>23. ASSUME NEW w \in Workers, CallOnFailure(w) PROVE ReportInv'
  <2>1. /\ job[w] \in Jobs /\ Attempts(job[w]) \in Nat \ {0}
        /\ AttemptOK(w) /\ ReportOK(job[w])
    BY <1>23, AttemptsPositive DEF CallOnFailure, AttemptInv, ReportInv, Holding, Working
  <2>2. ReportOK(job[w])'
    BY <1>23, <2>1 DEF CallOnFailure, AttemptOK, ReportOK, ToReport, JobCtxDone, Fresh
  <2>3. QED
    BY <1>23, <2>2, ReportFrame DEF CallOnFailure
<1>24. ASSUME NEW w \in Workers, Leave(w) PROVE ReportInv'
  BY <1>24 DEF Leave, ReportInv, ReportOK, ToReport, JobCtxDone
<1>25. CASE AllWorkersDone
  BY <1>25 DEF AllWorkersDone, ReportInv, ReportOK, ToReport, JobCtxDone
<1>26. CASE UNCHANGED vars
  BY <1>26 DEF vars, ReportInv, ReportOK, ToReport, JobCtxDone
<1>27. QED
  BY <1>1, <1>2, <1>3, <1>4, <1>5, <1>6, <1>7, <1>8, <1>9, <1>10, <1>11, <1>12, <1>13,
     <1>14, <1>15, <1>16, <1>17, <1>18, <1>19, <1>20, <1>21, <1>22, <1>23, <1>24, <1>25, <1>26
  DEF Next, Submit, Shutdown, WorkerStep, Handler

-----------------------------------------------------------------------------
(* The invariant and what follows from it.                                  *)

LEMMA IInvInit == Init => IInv
<1> SUFFICES ASSUME Init PROVE IInv
  OBVIOUS
<1> USE DEF Init
<1>1. TypeOK
  BY TypeInit
<1>2. MutexInv
  BY DEF MutexInv, NoSendOnClosed
<1>3. ShutdownInv
  BY DEF ShutdownInv
<1>4. PlaceInv
  BY DEF PlaceInv, Fresh, Holding, Working
<1>5. KeptInv
  BY DEF KeptInv
<1>6. AttemptInv
  BY DEF AttemptInv, AttemptOK
<1>7. ReportInv
  BY AttemptsPositive DEF ReportInv, ReportOK
<1>8. QED
  BY <1>1, <1>2, <1>3, <1>4, <1>5, <1>6, <1>7 DEF IInv

LEMMA IInvStep == IInv /\ [Next]_vars => IInv'
BY TypeStep, MutexStep, ShutdownStep, PlaceStep, KeptStep, AttemptStep, ReportStep
DEF IInv

(* The parts hold together in every reachable state of every pool.          *)
THEOREM Invariance == Spec => []IInv
<1>1. QED
  BY IInvInit, IInvStep, PTL DEF Spec

(* No interleaving of Submit and Shutdown calls sends on the closed job     *)
(* channel (worker.go:472-475).                                             *)
THEOREM NeverSendsOnClosed == Spec => []NoSendOnClosed
<1>1. IInv => NoSendOnClosed
  BY DEF IInv, MutexInv
<1>2. QED
  BY <1>1, Invariance, PTL

(* When every worker has left, nothing accepted is in the channel or with   *)
(* a worker.                                                                *)
LEMMA AllLeft ==
  ASSUME IInv, waiter = "done"
  PROVE  /\ shutdown
         /\ \A j \in Jobs : ~Running(j)
         /\ \A j \in Jobs : call[j] = "accepted" => outcome[j] # "none"
         /\ \A j \in Jobs : outcome[j] = "failed" => reports[j] = <<runs[j]>>
<1>1. PICK w \in Workers : TRUE
  BY PoolAssumption
<1>2. (\A v \in Workers : work[v] = "exited") /\ closed /\ queue = <<>>
  BY <1>1 DEF IInv, ShutdownInv
<1>3. shutdown /\ \A j \in Jobs : ~Running(j)
  BY <1>2 DEF IInv, MutexInv, Running
<1>4. \A j \in Jobs : ~Held(j) /\ ~ToReport(j)
  BY <1>2 DEF Held, ToReport, Holding, Working
<1>5. Elements(queue) = {}
  BY <1>2 DEF Elements
<1>6. QED
  BY <1>3, <1>4, <1>5 DEF IInv, KeptInv, ReportInv, ReportOK

(* Shutdown answers nil only when every accepted job has ended and its      *)
(* failure, if it failed, has been reported (worker.go:518-551).            *)
THEOREM DrainedWhenNil == Spec => []DrainedOnNil
<1>1. IInv => DrainedOnNil
  <2> SUFFICES ASSUME IInv, \E s \in Stoppers : stop[s] = "nil",
                      NEW j \in Jobs, call[j] = "accepted"
               PROVE  /\ outcome[j] # "none"
                      /\ Len(reports[j]) = (IF outcome[j] = "failed" THEN 1 ELSE 0)
    BY DEF DrainedOnNil
  <2>1. waiter = "done"
    BY DEF IInv, ShutdownInv
  <2>2. outcome[j] # "none" /\ (outcome[j] = "failed" => reports[j] = <<runs[j]>>)
    BY <2>1, AllLeft
  <2>3. outcome[j] # "failed" => reports[j] = <<>>
    BY DEF IInv, ReportInv, ReportOK
  <2>4. QED
    BY <2>2, <2>3
<1>2. QED
  BY <1>1, Invariance, PTL

(* A job is attempted within its limit, fails only at the limit or by a     *)
(* propagated cancellation, and reports a failure once with the number of   *)
(* its attempts (executeJob, worker.go:319-377).                            *)
THEOREM RetriesAsPromised == Spec => []RetryContract
<1>1. IInv => RetryContract
  <2> SUFFICES ASSUME IInv, NEW j \in Jobs
               PROVE  /\ runs[j] <= Attempts(j)
                      /\ outcome[j] = "failed" => runs[j] = Attempts(j) \/ JobCtxDone(j)
                      /\ reports[j] # <<>> => outcome[j] = "failed" /\ reports[j] = <<runs[j]>>
    BY DEF RetryContract
  <2>1. ReportOK(j)
    BY DEF IInv, ReportInv
  <2>2. ASSUME ToReport(j) PROVE reports[j] = <<>>
    BY <2>2 DEF ToReport, IInv, AttemptInv, AttemptOK
  <2>3. QED
    BY <2>1, <2>2 DEF ReportOK
<1>2. QED
  BY <1>1, Invariance, PTL

-----------------------------------------------------------------------------
(* The pool implements the service.                                         *)

StatusMap == [j \in Jobs |-> Status(j)]
AnyNil == \E s \in Stoppers : stop[s] = "nil"

LEMMA ServiceInit == Init => Service!Init
<1> SUFFICES ASSUME Init PROVE Service!Init
  OBVIOUS
<1>1. \A j \in Jobs : Status(j) = "new"
  BY DEF Init, Status, Running, Returned
<1>2. QED
  BY <1>1 DEF Init, Service!Init

(* A submission keeps its status when nothing it is read from changes.      *)
LEMMA StatusFrame ==
  ASSUME NEW j \in Jobs,
         outcome'[j] = outcome[j],
         Running(j)' <=> Running(j),
         call'[j] = "accepted" <=> call[j] = "accepted",
         call'[j] \in Returned <=> call[j] \in Returned
  PROVE  Status(j)' = Status(j)
BY DEF Status

(* One submission moves.                                                    *)
LEMMA ServiceMove ==
  ASSUME NEW j \in Jobs, NEW from, NEW to,
         Status(j) = from, Status(j)' = to,
         \A k \in Jobs : k # j => Status(k)' = Status(k),
         shutdown' = shutdown, stop' = stop
  PROVE  Service!Move(j, from, to)
<1>1. StatusMap' = [StatusMap EXCEPT ![j] = to]
  BY DEF StatusMap
<1>2. QED
  BY <1>1 DEF Service!Move, StatusMap

(* Nothing moves.                                                           *)
LEMMA ServiceStutter ==
  ASSUME \A k \in Jobs : Status(k)' = Status(k), shutdown' = shutdown, AnyNil' <=> AnyNil
  PROVE  UNCHANGED Service!vars
BY DEF Service!vars, AnyNil

LEMMA ServiceStep == IInv /\ [Next]_vars => [Service!Next]_(Service!vars)
<1> SUFFICES ASSUME IInv, [Next]_vars PROVE [Service!Next]_(Service!vars)
  OBVIOUS
<1> DEFINE Goal == [Service!Next]_(Service!vars)
<1> USE DEF IInv, TypeOK, submitVars, stopVars, workVars
<1>a. ASSUME UNCHANGED <<call, work, job, outcome>> PROVE \A k \in Jobs : Status(k)' = Status(k)
  BY <1>a DEF Status, Running
<1>b. ASSUME UNCHANGED <<work, job, outcome>>, NEW j \in Jobs,
             \A k \in Jobs : k # j => call'[k] = call[k]
      PROVE  /\ \A k \in Jobs : k # j => Status(k)' = Status(k)
             /\ ~Running(j) => ~Running(j)'
  BY <1>b DEF Status, Running
<1>c. ASSUME UNCHANGED <<call, job>>, NEW w \in Workers, work[w] \in Holding,
             \A v \in Workers : v # w => work'[v] = work[v],
             \A k \in Jobs : k # job[w] => outcome'[k] = outcome[k]
      PROVE  \A k \in Jobs : k # job[w] => Status(k)' = Status(k)
  <2>1. \A k \in Jobs : k # job[w] => (Running(k)' <=> Running(k))
    BY <1>c DEF Running
  <2>2. QED
    BY <1>c, <2>1, StatusFrame
<1>d. ASSUME NEW j \in Jobs, call[j] # "accepted" PROVE outcome[j] = "none" /\ ~Running(j)
  <2>1. outcome[j] = "none"
    BY <1>d DEF PlaceInv, Fresh
  <2>2. \A w \in Workers : work[w] \in Holding => job[w] # j
    BY <1>d DEF PlaceInv
  <2>3. ~Running(j)
    BY <2>2 DEF Running, Holding, Working
  <2>4. QED
    BY <2>1, <2>3
<1>e. ASSUME NEW w \in Workers, work[w] \in Holding, work[w] \notin {"handler", "backoff"}
      PROVE  ~Running(job[w])
  BY <1>e DEF PlaceInv, Running, Holding, Working
<1>1. ASSUME NEW x \in Expiring, Cancel(x) PROVE Goal
  <2>1. UNCHANGED <<call, work, job, outcome, shutdown, stop>>
    BY <1>1 DEF Cancel
  <2>2. QED
    BY <2>1, <1>a, ServiceStutter DEF AnyNil
<1>2. ASSUME NEW j \in Jobs, Call(j) PROVE Goal
  <2>1. UNCHANGED <<work, job, outcome, shutdown, stop>>
    BY <1>2 DEF Call
  <2>2. \A k \in Jobs : k # j => call'[k] = call[k]
    BY <1>2 DEF Call
  <2>3. call[j] # "accepted" /\ call[j] \notin Returned /\ call'[j] # "accepted"
    BY <1>2 DEF Call, Returned, Submitting, Active
  <2>4. Status(j) = "new" /\ Status(j)' = (IF call'[j] \in Returned THEN "refused" ELSE "new")
    BY <2>1, <2>2, <2>3, <1>b, <1>d DEF Status
  <2>5. CASE call'[j] \in Returned
    BY <2>1, <2>2, <2>4, <2>5, <1>b, ServiceMove DEF Service!Next, Service!Refuse
  <2>6. CASE call'[j] \notin Returned
    <3>1. \A k \in Jobs : Status(k)' = Status(k)
      BY <2>1, <2>2, <2>4, <2>6, <1>b
    <3>2. QED
      BY <2>1, <3>1, ServiceStutter DEF AnyNil
  <2>7. QED
    BY <2>5, <2>6
<1>3. ASSUME NEW j \in Jobs, RefuseLate(j) PROVE Goal
  <2>1. UNCHANGED <<work, job, outcome, shutdown, stop>>
    BY <1>3 DEF RefuseLate
  <2>2. \A k \in Jobs : k # j => call'[k] = call[k]
    BY <1>3 DEF RefuseLate
  <2>3. call[j] # "accepted" /\ call[j] \notin Returned /\ call'[j] # "accepted"
    BY <1>3 DEF RefuseLate, Returned, Submitting, Active
  <2>4. Status(j) = "new" /\ Status(j)' = (IF call'[j] \in Returned THEN "refused" ELSE "new")
    BY <2>1, <2>2, <2>3, <1>b, <1>d DEF Status
  <2>5. CASE call'[j] \in Returned
    BY <2>1, <2>2, <2>4, <2>5, <1>b, ServiceMove DEF Service!Next, Service!Refuse
  <2>6. CASE call'[j] \notin Returned
    <3>1. \A k \in Jobs : Status(k)' = Status(k)
      BY <2>1, <2>2, <2>4, <2>6, <1>b
    <3>2. QED
      BY <2>1, <3>1, ServiceStutter DEF AnyNil
  <2>7. QED
    BY <2>5, <2>6
<1>4. ASSUME NEW j \in Jobs, Admit(j) PROVE Goal
  <2>1. UNCHANGED <<work, job, outcome, shutdown, stop>>
    BY <1>4 DEF Admit
  <2>2. \A k \in Jobs : k # j => call'[k] = call[k]
    BY <1>4 DEF Admit
  <2>3. call[j] # "accepted" /\ call[j] \notin Returned /\ call'[j] # "accepted"
    BY <1>4 DEF Admit, Returned, Submitting, Active
  <2>4. Status(j) = "new" /\ Status(j)' = (IF call'[j] \in Returned THEN "refused" ELSE "new")
    BY <2>1, <2>2, <2>3, <1>b, <1>d DEF Status
  <2>5. CASE call'[j] \in Returned
    BY <2>1, <2>2, <2>4, <2>5, <1>b, ServiceMove DEF Service!Next, Service!Refuse
  <2>6. CASE call'[j] \notin Returned
    <3>1. \A k \in Jobs : Status(k)' = Status(k)
      BY <2>1, <2>2, <2>4, <2>6, <1>b
    <3>2. QED
      BY <2>1, <3>1, ServiceStutter DEF AnyNil
  <2>7. QED
    BY <2>5, <2>6
<1>5. ASSUME NEW j \in Jobs, Send(j) PROVE Goal
  <2>1. UNCHANGED <<work, job, outcome, shutdown, stop>> /\ ~shutdown
    BY <1>5 DEF Send, MutexInv
  <2>2. (\A k \in Jobs : k # j => call'[k] = call[k]) /\ call'[j] = "accepted"
    BY <1>5 DEF Send, MutexInv
  <2>3. call[j] = "send" /\ call[j] # "accepted" /\ call[j] \notin Returned
    BY <1>5 DEF Send, Returned
  <2>4. Status(j) = "new" /\ Status(j)' = "accepted"
    BY <2>1, <2>2, <2>3, <1>b, <1>d DEF Status
  <2>5. Service!Move(j, "new", "accepted")
    BY <2>1, <2>2, <2>4, <1>b, ServiceMove
  <2>6. QED
    BY <2>1, <2>5 DEF Service!Next, Service!Accept
<1>6. ASSUME NEW j \in Jobs, GiveUp(j) PROVE Goal
  <2>1. UNCHANGED <<work, job, outcome, shutdown, stop>>
    BY <1>6 DEF GiveUp
  <2>2. \A k \in Jobs : k # j => call'[k] = call[k]
    BY <1>6 DEF GiveUp
  <2>3. call[j] # "accepted" /\ call[j] \notin Returned /\ call'[j] # "accepted"
    BY <1>6 DEF GiveUp, Returned, Submitting, Active
  <2>4. Status(j) = "new" /\ Status(j)' = (IF call'[j] \in Returned THEN "refused" ELSE "new")
    BY <2>1, <2>2, <2>3, <1>b, <1>d DEF Status
  <2>5. CASE call'[j] \in Returned
    BY <2>1, <2>2, <2>4, <2>5, <1>b, ServiceMove DEF Service!Next, Service!Refuse
  <2>6. CASE call'[j] \notin Returned
    <3>1. \A k \in Jobs : Status(k)' = Status(k)
      BY <2>1, <2>2, <2>4, <2>6, <1>b
    <3>2. QED
      BY <2>1, <3>1, ServiceStutter DEF AnyNil
  <2>7. QED
    BY <2>5, <2>6
<1>7. ASSUME NEW j \in Jobs, Undo(j) PROVE Goal
  <2>1. UNCHANGED <<work, job, outcome, shutdown, stop>>
    BY <1>7 DEF Undo
  <2>2. \A k \in Jobs : k # j => call'[k] = call[k]
    BY <1>7 DEF Undo
  <2>3. call[j] # "accepted" /\ call[j] \notin Returned /\ call'[j] # "accepted"
    BY <1>7 DEF Undo, Returned, Submitting, Active
  <2>4. Status(j) = "new" /\ Status(j)' = (IF call'[j] \in Returned THEN "refused" ELSE "new")
    BY <2>1, <2>2, <2>3, <1>b, <1>d DEF Status
  <2>5. CASE call'[j] \in Returned
    BY <2>1, <2>2, <2>4, <2>5, <1>b, ServiceMove DEF Service!Next, Service!Refuse
  <2>6. CASE call'[j] \notin Returned
    <3>1. \A k \in Jobs : Status(k)' = Status(k)
      BY <2>1, <2>2, <2>4, <2>6, <1>b
    <3>2. QED
      BY <2>1, <3>1, ServiceStutter DEF AnyNil
  <2>7. QED
    BY <2>5, <2>6
<1>8. ASSUME NEW j \in Jobs, Recheck(j) PROVE Goal
  <2>1. UNCHANGED <<work, job, outcome, shutdown, stop>>
    BY <1>8 DEF Recheck
  <2>2. \A k \in Jobs : k # j => call'[k] = call[k]
    BY <1>8 DEF Recheck
  <2>3. call[j] # "accepted" /\ call[j] \notin Returned /\ call'[j] # "accepted"
    BY <1>8 DEF Recheck, Returned, Submitting, Active
  <2>4. Status(j) = "new" /\ Status(j)' = (IF call'[j] \in Returned THEN "refused" ELSE "new")
    BY <2>1, <2>2, <2>3, <1>b, <1>d DEF Status
  <2>5. CASE call'[j] \in Returned
    BY <2>1, <2>2, <2>4, <2>5, <1>b, ServiceMove DEF Service!Next, Service!Refuse
  <2>6. CASE call'[j] \notin Returned
    <3>1. \A k \in Jobs : Status(k)' = Status(k)
      BY <2>1, <2>2, <2>4, <2>6, <1>b
    <3>2. QED
      BY <2>1, <3>1, ServiceStutter DEF AnyNil
  <2>7. QED
    BY <2>5, <2>6
<1>9. ASSUME NEW s \in Stoppers, CallShutdown(s) PROVE Goal
  <2>1. UNCHANGED <<call, work, job, outcome, shutdown>> /\ (AnyNil' <=> AnyNil)
    BY <1>9 DEF CallShutdown, AnyNil, Stopping
  <2>2. QED
    BY <2>1, <1>a, ServiceStutter
<1>10. ASSUME NEW s \in Stoppers, EnterOnce(s) PROVE Goal
  <2>1. UNCHANGED <<call, work, job, outcome, shutdown>> /\ (AnyNil' <=> AnyNil)
    BY <1>10 DEF EnterOnce, AnyNil, Stopping
  <2>2. QED
    BY <2>1, <1>a, ServiceStutter
<1>11. ASSUME NEW s \in Stoppers, BeginShutdown(s) PROVE Goal
  <2>1. UNCHANGED <<call, work, job, outcome>> /\ shutdown' /\ (AnyNil' <=> AnyNil)
    BY <1>11 DEF BeginShutdown, AnyNil, Stopping
  <2>2. StatusMap' = StatusMap
    BY <2>1, <1>a DEF StatusMap
  <2>3. CASE shutdown
    BY <2>1, <2>3, <1>a, ServiceStutter
  <2>4. CASE ~shutdown
    BY <2>1, <2>2, <2>4 DEF Service!Next, Service!Close, StatusMap, AnyNil
  <2>5. QED
    BY <2>3, <2>4
<1>12. ASSUME NEW s \in Stoppers, CloseQueue(s) PROVE Goal
  <2>1. UNCHANGED <<call, work, job, outcome, shutdown>> /\ (AnyNil' <=> AnyNil)
    BY <1>12 DEF CloseQueue, AnyNil, Stopping
  <2>2. QED
    BY <2>1, <1>a, ServiceStutter
<1>13. ASSUME NEW s \in Stoppers, SpawnWaiter(s) PROVE Goal
  <2>1. UNCHANGED <<call, work, job, outcome, shutdown>> /\ (AnyNil' <=> AnyNil)
    BY <1>13 DEF SpawnWaiter, AnyNil, Stopping
  <2>2. QED
    BY <2>1, <1>a, ServiceStutter
<1>14. ASSUME NEW s \in Stoppers, ShutdownDone(s) PROVE Goal
  <2>1. UNCHANGED <<call, work, job, outcome, shutdown>> /\ AnyNil' /\ waiter = "done"
    BY <1>14 DEF ShutdownDone, AnyNil
  <2>2. StatusMap' = StatusMap
    BY <2>1, <1>a DEF StatusMap
  <2>3. shutdown /\ \A j \in Jobs : Status(j) \notin {"accepted", "running"}
    BY <2>1, AllLeft DEF Status
  <2>4. QED
    BY <2>1, <2>2, <2>3 DEF Service!Next, Service!Drain, StatusMap, AnyNil
<1>15. ASSUME NEW s \in Stoppers, ShutdownExpired(s) PROVE Goal
  <2>1. UNCHANGED <<call, work, job, outcome, shutdown>> /\ (AnyNil' <=> AnyNil)
    BY <1>15 DEF ShutdownExpired, AnyNil, Stopping
  <2>2. QED
    BY <2>1, <1>a, ServiceStutter
<1>16. ASSUME NEW w \in Workers, Receive(w) PROVE Goal
  <2>1. UNCHANGED <<call, outcome, shutdown, stop>>
    BY <1>16 DEF Receive
  <2>2. \A k \in Jobs : Running(k)' <=> Running(k)
    BY <1>16 DEF Receive, Running
  <2>3. QED
    BY <2>1, <2>2, StatusFrame, ServiceStutter DEF AnyNil
<1>17. ASSUME NEW w \in Workers, Exit(w) PROVE Goal
  <2>1. UNCHANGED <<call, outcome, shutdown, stop>>
    BY <1>17 DEF Exit
  <2>2. \A k \in Jobs : Running(k)' <=> Running(k)
    BY <1>17 DEF Exit, Running
  <2>3. QED
    BY <2>1, <2>2, StatusFrame, ServiceStutter DEF AnyNil
<1>18. ASSUME NEW w \in Workers, Start(w) PROVE Goal
  <2>1. /\ UNCHANGED <<call, job, outcome, shutdown, stop>> /\ work[w] \in Holding
        /\ work[w] = "taken" /\ work' = [work EXCEPT ![w] = "handler"]
    BY <1>18 DEF Start, Holding, Working
  <2>2. call[job[w]] = "accepted" /\ outcome[job[w]] = "none" /\ job[w] \in Jobs
    BY <2>1 DEF PlaceInv, AttemptInv, AttemptOK, Fresh
  <2>3. Status(job[w]) = "accepted"
    BY <2>1, <2>2, <1>e DEF Status
  <2>4. \A k \in Jobs : k = job[w] => Status(k)' = "running"
    BY <2>1, <2>2 DEF Status, Running
  <2>5. Service!Move(job[w], "accepted", "running")
    BY <2>1, <2>2, <2>3, <2>4, <1>c, ServiceMove
  <2>6. QED
    BY <2>2, <2>5 DEF Service!Next, Service!Begin
<1>19. ASSUME NEW w \in Workers, HandlerSucceeds(w) PROVE Goal
  <2>1. /\ UNCHANGED <<call, job, shutdown, stop>> /\ work[w] \in {"handler", "backoff"}
        /\ work[w] \in Holding /\ job[w] \in Jobs
        /\ \A v \in Workers : v # w => work'[v] = work[v]
    BY <1>19 DEF HandlerSucceeds, Holding, Working
  <2>2. Running(job[w]) /\ outcome[job[w]] = "none" /\ Status(job[w]) = "running"
    BY <2>1 DEF AttemptInv, AttemptOK, Running, Status
  <2>3. /\ outcome' = [outcome EXCEPT ![job[w]] = "succeeded"]
        /\ work' = [work EXCEPT ![w] = "leave"]
    BY <1>19 DEF HandlerSucceeds
  <2>4. \A k \in Jobs : k = job[w] => ~Running(k)'
    BY <2>1, <2>3 DEF Running, PlaceInv, Holding, Working
  <2>5. \A k \in Jobs : k = job[w] => Status(k)' = "succeeded"
    BY <2>1, <2>3, <2>4 DEF Status
  <2>6. Service!Move(job[w], "running", "succeeded")
    BY <2>1, <2>2, <2>3, <2>5, <1>c, ServiceMove
  <2>7. QED
    BY <2>1, <2>6 DEF Service!Next, Service!End, Service!Ended
<1>20. ASSUME NEW w \in Workers, HandlerFails(w) PROVE Goal
  <2>1. /\ UNCHANGED <<call, job, shutdown, stop>> /\ work[w] \in {"handler", "backoff"}
        /\ work[w] \in Holding /\ job[w] \in Jobs
        /\ \A v \in Workers : v # w => work'[v] = work[v]
    BY <1>20 DEF HandlerFails, Fail, Holding, Working
  <2>2. Running(job[w]) /\ outcome[job[w]] = "none" /\ Status(job[w]) = "running"
    BY <2>1 DEF AttemptInv, AttemptOK, Running, Status
  <2>3. CASE attempt[w] < Attempts(job[w])
    <3>1. outcome' = outcome /\ work' = [work EXCEPT ![w] = "backoff"]
      BY <1>20, <2>3 DEF HandlerFails, Fail
    <3>2. \A k \in Jobs : Running(k)' <=> Running(k)
      BY <2>1, <3>1 DEF Running
    <3>3. QED
      BY <2>1, <3>1, <3>2, StatusFrame, ServiceStutter DEF AnyNil
  <2>4. CASE ~(attempt[w] < Attempts(job[w]))
    <3>1. /\ outcome' = [outcome EXCEPT ![job[w]] = "failed"]
          /\ work' = [work EXCEPT ![w] = "report"]
      BY <1>20, <2>4 DEF HandlerFails, Fail
    <3>2. \A k \in Jobs : k = job[w] => ~Running(k)'
      BY <2>1, <3>1 DEF Running, PlaceInv, Holding, Working
    <3>3. \A k \in Jobs : k = job[w] => Status(k)' = "failed"
      BY <2>1, <3>1, <3>2 DEF Status
    <3>4. Service!Move(job[w], "running", "failed")
      BY <2>1, <2>2, <3>1, <3>3, <1>c, ServiceMove
    <3>5. QED
      BY <2>1, <3>4 DEF Service!Next, Service!End, Service!Ended
  <2>5. QED
    BY <2>3, <2>4
<1>21. ASSUME NEW w \in Workers, BackoffElapsed(w) PROVE Goal
  <2>1. /\ UNCHANGED <<call, job, shutdown, stop>> /\ work[w] \in {"handler", "backoff"}
        /\ work[w] \in Holding /\ job[w] \in Jobs
        /\ \A v \in Workers : v # w => work'[v] = work[v]
    BY <1>21 DEF BackoffElapsed, Holding, Working
  <2>2. Running(job[w]) /\ outcome[job[w]] = "none" /\ Status(job[w]) = "running"
    BY <2>1 DEF AttemptInv, AttemptOK, Running, Status
  <2>3. outcome' = outcome /\ work' = [work EXCEPT ![w] = "handler"]
    BY <1>21 DEF BackoffElapsed
  <2>4. \A k \in Jobs : Running(k)' <=> Running(k)
    BY <2>1, <2>3 DEF Running
  <2>5. QED
    BY <2>1, <2>3, <2>4, StatusFrame, ServiceStutter DEF AnyNil
<1>22. ASSUME NEW w \in Workers, BackoffCancelled(w) PROVE Goal
  <2>1. /\ UNCHANGED <<call, job, shutdown, stop>> /\ work[w] \in {"handler", "backoff"}
        /\ work[w] \in Holding /\ job[w] \in Jobs
        /\ \A v \in Workers : v # w => work'[v] = work[v]
    BY <1>22 DEF BackoffCancelled, Fail, Holding, Working
  <2>2. Running(job[w]) /\ outcome[job[w]] = "none" /\ Status(job[w]) = "running"
    BY <2>1 DEF AttemptInv, AttemptOK, Running, Status
  <2>3. /\ outcome' = [outcome EXCEPT ![job[w]] = "failed"]
        /\ work' = [work EXCEPT ![w] = "report"]
    BY <1>22 DEF BackoffCancelled, Fail
  <2>4. \A k \in Jobs : k = job[w] => ~Running(k)'
    BY <2>1, <2>3 DEF Running, PlaceInv, Holding, Working
  <2>5. \A k \in Jobs : k = job[w] => Status(k)' = "failed"
    BY <2>1, <2>3, <2>4 DEF Status
  <2>6. Service!Move(job[w], "running", "failed")
    BY <2>1, <2>2, <2>3, <2>5, <1>c, ServiceMove
  <2>7. QED
    BY <2>1, <2>6 DEF Service!Next, Service!End, Service!Ended
<1>23. ASSUME NEW w \in Workers, CallOnFailure(w) PROVE Goal
  <2>1. UNCHANGED <<call, outcome, shutdown, stop>>
    BY <1>23 DEF CallOnFailure
  <2>2. \A k \in Jobs : Running(k)' <=> Running(k)
    BY <1>23 DEF CallOnFailure, Running
  <2>3. QED
    BY <2>1, <2>2, StatusFrame, ServiceStutter DEF AnyNil
<1>24. ASSUME NEW w \in Workers, Leave(w) PROVE Goal
  <2>1. UNCHANGED <<call, outcome, shutdown, stop>>
    BY <1>24 DEF Leave
  <2>2. \A k \in Jobs : Running(k)' <=> Running(k)
    BY <1>24 DEF Leave, Running
  <2>3. QED
    BY <2>1, <2>2, StatusFrame, ServiceStutter DEF AnyNil
<1>25. CASE AllWorkersDone
  <2>1. UNCHANGED <<call, work, job, outcome, shutdown, stop>>
    BY <1>25 DEF AllWorkersDone
  <2>2. QED
    BY <2>1, <1>a, ServiceStutter DEF AnyNil
<1>26. CASE UNCHANGED vars
  <2>1. UNCHANGED <<call, work, job, outcome, shutdown, stop>>
    BY <1>26 DEF vars
  <2>2. QED
    BY <2>1, <1>a, ServiceStutter DEF AnyNil
<1>27. QED
  BY <1>1, <1>2, <1>3, <1>4, <1>5, <1>6, <1>7, <1>8, <1>9, <1>10, <1>11, <1>12, <1>13,
     <1>14, <1>15, <1>16, <1>17, <1>18, <1>19, <1>20, <1>21, <1>22, <1>23, <1>24, <1>25, <1>26
  DEF Next, Submit, Shutdown, WorkerStep, Handler

(* Every behaviour of every pool is one of the service: accepted or refused *)
(* once, run once, ended once, and drained only when nothing is left.       *)
THEOREM ImplementsService == Spec => ServiceSafety
<1>1. IInv /\ [Next]_vars => [Service!Next]_(Service!vars)
  BY ServiceStep
<1>2. QED
  BY <1>1, ServiceInit, Invariance, PTL DEF Spec, ServiceSafety, Service!Spec

-----------------------------------------------------------------------------
(* The counters account for every submission.  A sum over goroutines is the *)
(* size of a set that a step changes by one member.                         *)

Busy    == {"taken", "handler", "backoff"}
Counted == Holding \ {"taken"}
InHand  == {w \in Workers : work[w] \in Counted}
Due     == {"send", "undo"}

One(condition) == IF condition THEN 1 ELSE 0

-----------------------------------------------------------------------------
(* What a step of one goroutine makes of the sets.                          *)

(* A set that may only change at x changes its size by what x does.         *)
LEMMA SizeChange ==
  ASSUME NEW S, NEW T, NEW x, IsFiniteSet(S),
         \A y : y # x => (y \in T <=> y \in S)
  PROVE  /\ Cardinality(S) \in Nat
         /\ Cardinality(T) = Cardinality(S) + One(x \in T) - One(x \in S)
<1>1. Cardinality(S) \in Nat
  BY FS_CardinalityType
<1>2. CASE x \in S /\ x \notin T
  <2>1. T = S \ {x}
    BY <1>2
  <2>2. Cardinality(T) = Cardinality(S) - 1
    BY <1>2, <2>1, FS_RemoveElement
  <2> QED
    BY <1>1, <1>2, <2>2 DEF One
<1>3. CASE x \notin S /\ x \in T
  <2>1. T = S \cup {x}
    BY <1>3
  <2>2. Cardinality(T) = Cardinality(S) + 1
    BY <1>3, <2>1, FS_AddElement
  <2> QED
    BY <1>1, <1>3, <2>2 DEF One
<1>4. CASE x \in S <=> x \in T
  <2>1. T = S
    BY <1>4
  <2> QED
    BY <1>1, <1>4, <2>1 DEF One
<1> QED
  BY <1>2, <1>3, <1>4

(* They are finite.                                                         *)
LEMMA Finite ==
  /\ IsFiniteSet(Sending) /\ Cardinality(Sending) \in Nat
  /\ IsFiniteSet(Unended) /\ Cardinality(Unended) \in Nat
  /\ IsFiniteSet(InHand) /\ Cardinality(InHand) \in Nat
<1>1. IsFiniteSet(Sending)
  BY JobAssumption, FS_Subset DEF Sending
<1>2. IsFiniteSet(Unended) /\ IsFiniteSet(InHand)
  BY PoolAssumption, FS_Subset DEF Unended, InHand
<1> QED
  BY <1>1, <1>2, FS_CardinalityType

(* A set of goroutines grows, shrinks or stays as the one that moves does.  *)
Grows(T, S)   == Cardinality(T) = Cardinality(S) + 1
Shrinks(T, S) == Cardinality(T) = Cardinality(S) - 1
Keeps(T, S)   == Cardinality(T) = Cardinality(S)

LEMMA SizeMoves ==
  ASSUME NEW S, NEW T, NEW x, IsFiniteSet(S),
         \A y : y # x => (y \in T <=> y \in S)
  PROVE  /\ x \in T /\ x \notin S => Grows(T, S)
         /\ x \notin T /\ x \in S => Shrinks(T, S)
         /\ (x \in T <=> x \in S) => Keeps(T, S)
<1>1. /\ Cardinality(S) \in Nat
      /\ Cardinality(T) = Cardinality(S) + One(x \in T) - One(x \in S)
  BY SizeChange
<1> QED
  BY <1>1 DEF One, Grows, Shrinks, Keeps

LEMMA WorkerMoves ==
  ASSUME NEW w \in Workers, \A v \in Workers : v # w => work'[v] = work[v]
  PROVE  /\ work'[w] \in Busy /\ work[w] \notin Busy => Grows(Unended', Unended)
         /\ work'[w] \notin Busy /\ work[w] \in Busy => Shrinks(Unended', Unended)
         /\ (work'[w] \in Busy <=> work[w] \in Busy) => Keeps(Unended', Unended)
         /\ work'[w] \in Counted /\ work[w] \notin Counted => Grows(InHand', InHand)
         /\ work'[w] \notin Counted /\ work[w] \in Counted => Shrinks(InHand', InHand)
         /\ (work'[w] \in Counted <=> work[w] \in Counted) => Keeps(InHand', InHand)
<1>1. \A v : v # w => (v \in Unended' <=> v \in Unended)
  BY DEF Unended
<1>2. \A v : v # w => (v \in InHand' <=> v \in InHand)
  BY DEF InHand
<1>3. (w \in Unended' <=> work'[w] \in Busy) /\ (w \in Unended <=> work[w] \in Busy)
  BY DEF Unended, Busy
<1>4. (w \in InHand' <=> work'[w] \in Counted) /\ (w \in InHand <=> work[w] \in Counted)
  BY DEF InHand
<1>5. /\ w \in Unended' /\ w \notin Unended => Grows(Unended', Unended)
      /\ w \notin Unended' /\ w \in Unended => Shrinks(Unended', Unended)
      /\ (w \in Unended' <=> w \in Unended) => Keeps(Unended', Unended)
  BY <1>1, Finite, SizeMoves
<1>6. /\ w \in InHand' /\ w \notin InHand => Grows(InHand', InHand)
      /\ w \notin InHand' /\ w \in InHand => Shrinks(InHand', InHand)
      /\ (w \in InHand' <=> w \in InHand) => Keeps(InHand', InHand)
  BY <1>2, Finite, SizeMoves
<1> QED
  BY <1>3, <1>4, <1>5, <1>6

LEMMA CallMoves ==
  ASSUME NEW j \in Jobs, \A k \in Jobs : k # j => call'[k] = call[k]
  PROVE  /\ call'[j] \in Due /\ call[j] \notin Due => Grows(Sending', Sending)
         /\ call'[j] \notin Due /\ call[j] \in Due => Shrinks(Sending', Sending)
         /\ (call'[j] \in Due <=> call[j] \in Due) => Keeps(Sending', Sending)
<1>1. \A k : k # j => (k \in Sending' <=> k \in Sending)
  BY DEF Sending
<1>2. (j \in Sending' <=> call'[j] \in Due) /\ (j \in Sending <=> call[j] \in Due)
  BY DEF Sending, Due
<1>3. /\ j \in Sending' /\ j \notin Sending => Grows(Sending', Sending)
      /\ j \notin Sending' /\ j \in Sending => Shrinks(Sending', Sending)
      /\ (j \in Sending' <=> j \in Sending) => Keeps(Sending', Sending)
  BY <1>1, Finite, SizeMoves
<1> QED
  BY <1>2, <1>3

(* Nobody moves.                                                            *)
LEMMA NobodyMoves ==
  /\ UNCHANGED call => Keeps(Sending', Sending)
  /\ UNCHANGED work => Keeps(Unended', Unended) /\ Keeps(InHand', InHand)
<1>1. UNCHANGED call => Sending' = Sending
  BY DEF Sending
<1>2. UNCHANGED work => Unended' = Unended /\ InHand' = InHand
  BY DEF Unended, InHand
<1> QED
  BY <1>1, <1>2 DEF Keeps

(* The counters as two sums.                                                *)
LEMMA Sums ==
  Conservation <=>
    /\ stats.Submitted = Cardinality(Sending) + Len(queue) + Cardinality(Unended)
                           + stats.Succeeded + stats.Failed
    /\ stats.InFlight = Cardinality(InHand)
BY DEF Conservation, InHand, Counted

LEMMA SumsNext ==
  Conservation' <=>
    /\ stats'.Submitted = Cardinality(Sending') + Len(queue') + Cardinality(Unended')
                            + stats'.Succeeded + stats'.Failed
    /\ stats'.InFlight = Cardinality(InHand')
BY DEF Conservation, InHand, Counted

(* Who changes none of the sets, the channel and the counters.              *)
LEMMA BooksFrame ==
  ASSUME Conservation, UNCHANGED <<queue, stats>>,
         Keeps(Sending', Sending), Keeps(Unended', Unended), Keeps(InHand', InHand)
  PROVE  Conservation'
BY Sums, SumsNext DEF Keeps

-----------------------------------------------------------------------------
LEMMA BooksInit == Init => Conservation
<1> SUFFICES ASSUME Init PROVE Conservation
  OBVIOUS
<1>1. Sending = {} /\ Unended = {} /\ InHand = {}
  BY DEF Init, Sending, Unended, InHand, Counted, Holding, Working
<1>2. Cardinality({}) = 0
  BY FS_EmptySet
<1> QED
  BY <1>1, <1>2, Sums DEF Init

LEMMA BooksStep == IInv /\ Conservation /\ [Next]_vars => Conservation'
<1> SUFFICES ASSUME IInv, Conservation, [Next]_vars PROVE Conservation'
  OBVIOUS
<1>0. /\ TypeOK /\ stats \in Counters /\ queue \in Seq(Jobs) /\ Len(queue) \in Nat
      /\ \A j \in Jobs : call[j] = "send" => ~closed
  BY DEF IInv, TypeOK, MutexInv
<1> USE DEF submitVars, stopVars, workVars
<1>1. ASSUME NEW x \in Expiring, Cancel(x) PROVE Conservation'
  <2>1. UNCHANGED <<queue, stats, call, work>>
    BY <1>1 DEF Cancel
  <2> QED
    BY <2>1, NobodyMoves, BooksFrame
<1>2. ASSUME NEW j \in Jobs, Call(j) PROVE Conservation'
  <2>1. /\ UNCHANGED <<queue, stats, work>>
        /\ \A k \in Jobs : k # j => call'[k] = call[k]
        /\ call'[j] \in Due <=> call[j] \in Due
    BY <1>0, <1>2 DEF Call, Due, TypeOK
  <2> QED
    BY <2>1, CallMoves, NobodyMoves, BooksFrame
<1>3. ASSUME NEW j \in Jobs, RefuseLate(j) PROVE Conservation'
  <2>1. /\ UNCHANGED <<queue, stats, work>>
        /\ \A k \in Jobs : k # j => call'[k] = call[k]
        /\ call'[j] \in Due <=> call[j] \in Due
    BY <1>0, <1>3 DEF RefuseLate, Due, TypeOK
  <2> QED
    BY <2>1, CallMoves, NobodyMoves, BooksFrame
<1>4. ASSUME NEW j \in Jobs, Admit(j) PROVE Conservation'
  <2>1. /\ UNCHANGED <<queue, work>> /\ stats' = [stats EXCEPT !.Submitted = @ + 1]
        /\ \A k \in Jobs : k # j => call'[k] = call[k]
        /\ call'[j] \in Due /\ call[j] \notin Due
    BY <1>0, <1>4 DEF Admit, Due, TypeOK
  <2>2. Grows(Sending', Sending)
    BY <2>1, CallMoves
  <2> QED
    BY <1>0, <2>1, <2>2, NobodyMoves, Finite, Sums, SumsNext DEF Counters, Grows, Shrinks, Keeps
<1>5. ASSUME NEW j \in Jobs, Send(j) PROVE Conservation'
  <2>1. /\ UNCHANGED <<stats, work>> /\ queue' = Append(queue, j)
        /\ \A k \in Jobs : k # j => call'[k] = call[k]
        /\ call'[j] \notin Due /\ call[j] \in Due
    BY <1>0, <1>5 DEF Send, Due, TypeOK
  <2>2. Shrinks(Sending', Sending)
    BY <2>1, CallMoves
  <2>3. Len(queue') = Len(queue) + 1
    BY <1>0, <2>1, AppendFacts
  <2> QED
    BY <1>0, <2>1, <2>2, <2>3, NobodyMoves, Finite, Sums, SumsNext DEF Counters, Grows, Shrinks, Keeps
<1>6. ASSUME NEW j \in Jobs, GiveUp(j) PROVE Conservation'
  <2>1. /\ UNCHANGED <<queue, stats, work>>
        /\ \A k \in Jobs : k # j => call'[k] = call[k]
        /\ call'[j] \in Due <=> call[j] \in Due
    BY <1>0, <1>6 DEF GiveUp, Due, TypeOK
  <2> QED
    BY <2>1, CallMoves, NobodyMoves, BooksFrame
<1>7. ASSUME NEW j \in Jobs, Undo(j) PROVE Conservation'
  <2>1. /\ UNCHANGED <<queue, work>> /\ stats' = [stats EXCEPT !.Submitted = @ - 1]
        /\ \A k \in Jobs : k # j => call'[k] = call[k]
        /\ call'[j] \notin Due /\ call[j] \in Due
    BY <1>0, <1>7 DEF Undo, Due, TypeOK
  <2>2. Shrinks(Sending', Sending)
    BY <2>1, CallMoves
  <2> QED
    BY <1>0, <2>1, <2>2, NobodyMoves, Finite, Sums, SumsNext DEF Counters, Grows, Shrinks, Keeps
<1>8. ASSUME NEW j \in Jobs, Recheck(j) PROVE Conservation'
  <2>1. /\ UNCHANGED <<queue, stats, work>>
        /\ \A k \in Jobs : k # j => call'[k] = call[k]
        /\ call'[j] \in Due <=> call[j] \in Due
    BY <1>0, <1>8 DEF Recheck, Due, TypeOK
  <2> QED
    BY <2>1, CallMoves, NobodyMoves, BooksFrame
<1>9. ASSUME NEW s \in Stoppers, CallShutdown(s) PROVE Conservation'
  <2>1. UNCHANGED <<queue, stats, call, work>>
    BY <1>9 DEF CallShutdown
  <2> QED
    BY <2>1, NobodyMoves, BooksFrame
<1>10. ASSUME NEW s \in Stoppers, EnterOnce(s) PROVE Conservation'
  <2>1. UNCHANGED <<queue, stats, call, work>>
    BY <1>10 DEF EnterOnce
  <2> QED
    BY <2>1, NobodyMoves, BooksFrame
<1>11. ASSUME NEW s \in Stoppers, BeginShutdown(s) PROVE Conservation'
  <2>1. UNCHANGED <<queue, stats, call, work>>
    BY <1>11 DEF BeginShutdown
  <2> QED
    BY <2>1, NobodyMoves, BooksFrame
<1>12. ASSUME NEW s \in Stoppers, CloseQueue(s) PROVE Conservation'
  <2>1. UNCHANGED <<queue, stats, call, work>>
    BY <1>12 DEF CloseQueue
  <2> QED
    BY <2>1, NobodyMoves, BooksFrame
<1>13. ASSUME NEW s \in Stoppers, SpawnWaiter(s) PROVE Conservation'
  <2>1. UNCHANGED <<queue, stats, call, work>>
    BY <1>13 DEF SpawnWaiter
  <2> QED
    BY <2>1, NobodyMoves, BooksFrame
<1>14. ASSUME NEW s \in Stoppers, ShutdownDone(s) PROVE Conservation'
  <2>1. UNCHANGED <<queue, stats, call, work>>
    BY <1>14 DEF ShutdownDone
  <2> QED
    BY <2>1, NobodyMoves, BooksFrame
<1>15. ASSUME NEW s \in Stoppers, ShutdownExpired(s) PROVE Conservation'
  <2>1. UNCHANGED <<queue, stats, call, work>>
    BY <1>15 DEF ShutdownExpired
  <2> QED
    BY <2>1, NobodyMoves, BooksFrame
<1>16. ASSUME NEW w \in Workers, Receive(w) PROVE Conservation'
  <2>1. UNCHANGED call /\ stats' = stats
    BY <1>16 DEF Receive
  <2>2. /\ work[w] = "recv" /\ work'[w] = "taken"
        /\ \A v \in Workers : v # w => work'[v] = work[v]
    BY <1>0, <1>16 DEF Receive, TypeOK
  <2>3. Grows(Unended', Unended) /\ Keeps(InHand', InHand)
    BY <2>2, WorkerMoves DEF Busy, Counted, Holding, Working
  <2>4. Len(queue') = Len(queue) - 1
    BY <1>0, <1>16, TailFacts DEF Receive
  <2> QED
    BY <1>0, <2>1, <2>3, <2>4, NobodyMoves, Finite, Sums, SumsNext DEF Counters, Grows, Shrinks, Keeps
<1>17. ASSUME NEW w \in Workers, Exit(w) PROVE Conservation'
  <2>1. UNCHANGED <<queue, call>> /\ stats' = stats
    BY <1>17 DEF Exit
  <2>2. /\ work[w] = "recv" /\ work'[w] = "exited"
        /\ \A v \in Workers : v # w => work'[v] = work[v]
    BY <1>0, <1>17 DEF Exit, TypeOK
  <2>3. Keeps(Unended', Unended) /\ Keeps(InHand', InHand)
    BY <2>2, WorkerMoves DEF Busy, Counted, Holding, Working
  <2> QED
    BY <1>0, <2>1, <2>3, NobodyMoves, Finite, Sums, SumsNext DEF Counters, Grows, Shrinks, Keeps
<1>18. ASSUME NEW w \in Workers, Start(w) PROVE Conservation'
  <2>1. UNCHANGED <<queue, call>> /\ stats' = [stats EXCEPT !.InFlight = @ + 1]
    BY <1>18 DEF Start
  <2>2. /\ work[w] = "taken" /\ work'[w] = "handler"
        /\ \A v \in Workers : v # w => work'[v] = work[v]
    BY <1>0, <1>18 DEF Start, TypeOK
  <2>3. Keeps(Unended', Unended) /\ Grows(InHand', InHand)
    BY <2>2, WorkerMoves DEF Busy, Counted, Holding, Working
  <2> QED
    BY <1>0, <2>1, <2>3, NobodyMoves, Finite, Sums, SumsNext DEF Counters, Grows, Shrinks, Keeps
<1>19. ASSUME NEW w \in Workers, HandlerSucceeds(w) PROVE Conservation'
  <2>1. UNCHANGED <<queue, call>> /\ stats' = [stats EXCEPT !.Succeeded = @ + 1]
    BY <1>19 DEF HandlerSucceeds
  <2>2. /\ work[w] = "handler" /\ work'[w] = "leave"
        /\ \A v \in Workers : v # w => work'[v] = work[v]
    BY <1>0, <1>19 DEF HandlerSucceeds, TypeOK
  <2>3. Shrinks(Unended', Unended) /\ Keeps(InHand', InHand)
    BY <2>2, WorkerMoves DEF Busy, Counted, Holding, Working
  <2> QED
    BY <1>0, <2>1, <2>3, NobodyMoves, Finite, Sums, SumsNext DEF Counters, Grows, Shrinks, Keeps
<1>20. ASSUME NEW w \in Workers, HandlerFails(w) PROVE Conservation'
  <2>1. CASE attempt[w] < Attempts(job[w])
    <3>1. UNCHANGED <<queue, call>> /\ stats' = stats
      BY <1>20, <2>1 DEF HandlerFails
    <3>2. /\ work[w] = "handler" /\ work'[w] = "backoff"
          /\ \A v \in Workers : v # w => work'[v] = work[v]
      BY <1>0, <1>20, <2>1 DEF HandlerFails, TypeOK
    <3>3. Keeps(Unended', Unended) /\ Keeps(InHand', InHand)
      BY <3>2, WorkerMoves DEF Busy, Counted, Holding, Working
    <3> QED
      BY <1>0, <3>1, <3>3, NobodyMoves, Finite, Sums, SumsNext DEF Counters, Grows, Shrinks, Keeps
  <2>2. CASE ~(attempt[w] < Attempts(job[w]))
    <3>1. UNCHANGED <<queue, call>> /\ stats' = [stats EXCEPT !.Failed = @ + 1]
      BY <1>20, <2>2 DEF HandlerFails, Fail
    <3>2. /\ work[w] = "handler" /\ work'[w] = "report"
          /\ \A v \in Workers : v # w => work'[v] = work[v]
      BY <1>0, <1>20, <2>2 DEF HandlerFails, Fail, TypeOK
    <3>3. Shrinks(Unended', Unended) /\ Keeps(InHand', InHand)
      BY <3>2, WorkerMoves DEF Busy, Counted, Holding, Working
    <3> QED
      BY <1>0, <3>1, <3>3, NobodyMoves, Finite, Sums, SumsNext DEF Counters, Grows, Shrinks, Keeps
  <2> QED
    BY <2>1, <2>2
<1>21. ASSUME NEW w \in Workers, BackoffElapsed(w) PROVE Conservation'
  <2>1. UNCHANGED <<queue, call>> /\ stats' = stats
    BY <1>21 DEF BackoffElapsed
  <2>2. /\ work[w] = "backoff" /\ work'[w] = "handler"
        /\ \A v \in Workers : v # w => work'[v] = work[v]
    BY <1>0, <1>21 DEF BackoffElapsed, TypeOK
  <2>3. Keeps(Unended', Unended) /\ Keeps(InHand', InHand)
    BY <2>2, WorkerMoves DEF Busy, Counted, Holding, Working
  <2> QED
    BY <1>0, <2>1, <2>3, NobodyMoves, Finite, Sums, SumsNext DEF Counters, Grows, Shrinks, Keeps
<1>22. ASSUME NEW w \in Workers, BackoffCancelled(w) PROVE Conservation'
  <2>1. UNCHANGED <<queue, call>> /\ stats' = [stats EXCEPT !.Failed = @ + 1]
    BY <1>22 DEF BackoffCancelled, Fail
  <2>2. /\ work[w] = "backoff" /\ work'[w] = "report"
        /\ \A v \in Workers : v # w => work'[v] = work[v]
    BY <1>0, <1>22 DEF BackoffCancelled, Fail, TypeOK
  <2>3. Shrinks(Unended', Unended) /\ Keeps(InHand', InHand)
    BY <2>2, WorkerMoves DEF Busy, Counted, Holding, Working
  <2> QED
    BY <1>0, <2>1, <2>3, NobodyMoves, Finite, Sums, SumsNext DEF Counters, Grows, Shrinks, Keeps
<1>23. ASSUME NEW w \in Workers, CallOnFailure(w) PROVE Conservation'
  <2>1. UNCHANGED <<queue, call>> /\ stats' = stats
    BY <1>23 DEF CallOnFailure
  <2>2. /\ work[w] = "report" /\ work'[w] = "leave"
        /\ \A v \in Workers : v # w => work'[v] = work[v]
    BY <1>0, <1>23 DEF CallOnFailure, TypeOK
  <2>3. Keeps(Unended', Unended) /\ Keeps(InHand', InHand)
    BY <2>2, WorkerMoves DEF Busy, Counted, Holding, Working
  <2> QED
    BY <1>0, <2>1, <2>3, NobodyMoves, Finite, Sums, SumsNext DEF Counters, Grows, Shrinks, Keeps
<1>24. ASSUME NEW w \in Workers, Leave(w) PROVE Conservation'
  <2>1. UNCHANGED <<queue, call>> /\ stats' = [stats EXCEPT !.InFlight = @ - 1]
    BY <1>24 DEF Leave
  <2>2. /\ work[w] = "leave" /\ work'[w] = "recv"
        /\ \A v \in Workers : v # w => work'[v] = work[v]
    BY <1>0, <1>24 DEF Leave, TypeOK
  <2>3. Keeps(Unended', Unended) /\ Shrinks(InHand', InHand)
    BY <2>2, WorkerMoves DEF Busy, Counted, Holding, Working
  <2> QED
    BY <1>0, <2>1, <2>3, NobodyMoves, Finite, Sums, SumsNext DEF Counters, Grows, Shrinks, Keeps
<1>25. CASE AllWorkersDone
  <2>1. UNCHANGED <<queue, stats, call, work>>
    BY <1>25 DEF AllWorkersDone
  <2> QED
    BY <2>1, NobodyMoves, BooksFrame
<1>26. CASE UNCHANGED vars
  <2>1. UNCHANGED <<queue, stats, call, work>>
    BY <1>26 DEF vars
  <2> QED
    BY <2>1, NobodyMoves, BooksFrame
<1> QED
  BY <1>1, <1>2, <1>3, <1>4, <1>5, <1>6, <1>7, <1>8, <1>9, <1>10, <1>11, <1>12, <1>13, <1>14, <1>15, <1>16, <1>17, <1>18, <1>19, <1>20, <1>21, <1>22, <1>23, <1>24, <1>25, <1>26 DEF Next, Submit, Shutdown, WorkerStep, Handler

(* The counters of Stats() account for every submission in every state,     *)
(* for any number of goroutines: worker.go:476-505 and 303-371.             *)
THEOREM BooksBalance == Spec => []Conservation
<1>1. Init => Conservation
  BY BooksInit
<1>2. IInv /\ Conservation /\ [Next]_vars => Conservation'
  BY BooksStep
<1> QED
  BY <1>1, <1>2, Invariance, PTL DEF Spec
=============================================================================
