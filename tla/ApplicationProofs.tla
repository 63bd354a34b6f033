------------------------- MODULE ApplicationProofs -------------------------
(* Proofs about the application: its start and stop (AppLifecycle), what a   *)
(* Shutdown may rely on and what requests in flight may, for any number of   *)
(* starts, stops and requests; then the routes it registers (Routing), for   *)
(* any registrations on any of the frameworks.                               *)
EXTENDS AppLifecycle, Routing, SequenceTheorems, WellFoundedInduction, FiniteSetTheorems, TLAPS

-----------------------------------------------------------------------------
(* Start, stop and the requests in flight.                                  *)

(* The stops that are done with the server, and those that closed the pool. *)
Over == {"pool", "drain", "nil", "error"}
Gone == {"drain", "nil", "error"}

(* Whoever waited for the announcement finds a server.                      *)
AnnouncedInv ==
  registered > 0 \/ (\E s \in Starters : start[s] # "idle") => nativeServer # NoServer

(* Where a stop is says what it found and what the server answered.         *)
FoundInv ==
  \A p \in Stoppers :
    /\ stop[p] \in {"idle", "wait"} \/ p \in Closers =>
         found[p] = NoServer /\ httpErr[p] = "none" /\ stop[p] # "http"
    /\ p \in Closers => stop[p] # "wait"
    /\ stop[p] \notin {"idle", "wait"} /\ p \notin Closers /\ found[p] = NoServer =>
         p \in done /\ httpErr[p] = "none"
    /\ stop[p] = "http" => found[p] # NoServer
    /\ httpErr[p] # "none" => found[p] \in halted
    /\ stop[p] \in Over /\ found[p] # NoServer => httpErr[p] # "none"
    /\ stop[p] = "nil" => httpErr[p] # "ctxErr"
    /\ httpErr[p] = "notRunning" => framework = "fiber" /\ closed[p] = {}

(* A listener that was closed stays closed: an http.Server's shutdown is    *)
(* for good, and no start listens twice.                                    *)
ListenInv ==
  /\ \A s \in Starters : framework = "handler" /\ s \in halted => s \notin listening
  /\ \A s \in listening : start[s] = "serving"
  /\ \A p \in Stoppers : \A s \in closed[p] :
       s \notin listening /\ start[s] \in {"serving", "returned"}

(* A request is away or has come in somewhere; it submits once.             *)
RequestInv ==
  \A r \in Requests :
    /\ at[r] = NoServer <=> request[r] = "away"
    /\ status[r] = "refused" => request[r] \in {"waiting", "answered"}

(* The pool's side: who closed it, and what its answer nil means.           *)
PoolInv ==
  /\ drained => ~open /\ \A r \in Requests : status[r] \notin {"accepted", "running"}
  /\ \A p \in Stoppers : stop[p] = "nil" => drained
  /\ ~open => \E p \in Stoppers : stop[p] \in Gone

(* A stop that is over and was in no hurry has seen its requests answered.  *)
QuietInv ==
  \A p \in Stoppers, r \in Requests :
    stop[p] \in Over /\ at[r] # NoServer /\ ~Hurried(p, at[r]) => request[r] = "answered"

RefusedInv ==
  \A r \in Requests :
    status[r] = "refused" => \E p \in Stoppers : stop[p] \in Gone /\ Hurried(p, at[r])

IInv ==
  /\ TypeOK /\ AnnouncedInv /\ FoundInv /\ ListenInv
  /\ RequestInv /\ PoolInv /\ QuietInv /\ RefusedInv

-----------------------------------------------------------------------------
LEMMA InitInv == Init => IInv
<1> SUFFICES ASSUME Init PROVE IInv
  OBVIOUS
<1> USE ServerAssumption DEF Init, Pool!Init
<1>1. TypeOK
  BY DEF TypeOK, Pool!TypeOK, Pool!Ended, Servers
<1>2. AnnouncedInv /\ FoundInv /\ ListenInv
  BY DEF AnnouncedInv, FoundInv, ListenInv, Over
<1>3. RequestInv /\ PoolInv /\ QuietInv /\ RefusedInv
  BY DEF RequestInv, PoolInv, QuietInv, RefusedInv, Over, Gone
<1> QED
  BY <1>1, <1>2, <1>3 DEF IInv

(* What the actions of a request do to its job.                             *)
LEMMA JobSteps ==
  ASSUME TypeOK, NEW r \in Requests
  PROVE  /\ Submit(r) => /\ status' = [status EXCEPT ![r] = IF open THEN "accepted" ELSE "refused"]
                         /\ UNCHANGED <<open, drained>>
         /\ BeginJob(r) => /\ status[r] = "accepted"
                           /\ status' = [status EXCEPT ![r] = "running"]
                           /\ UNCHANGED <<open, drained>>
         /\ EndJob(r) => /\ status[r] = "running"
                         /\ \E result \in Pool!Ended : status' = [status EXCEPT ![r] = result]
                         /\ UNCHANGED <<open, drained>>
BY DEF Submit, BeginJob, EndJob, Pool!Accept, Pool!Refuse, Pool!Begin, Pool!End, Pool!Move

LEMMA TypeStep == IInv /\ [Next]_vars => TypeOK'
<1> SUFFICES ASSUME IInv, [Next]_vars PROVE TypeOK'
  OBVIOUS
<1> USE ServerAssumption, CallAssumption DEF IInv, TypeOK, Pool!TypeOK, Servers, Step
<1>1. ASSUME NEW s \in Starters, StartStep(s) PROVE TypeOK'
  <2>1. CASE Store(s)
    BY <2>1 DEF Store, ServerOf, stopVars, serverVars, requestVars, poolVars
  <2>2. CASE Announce(s)
    BY <2>2 DEF Announce, stopVars, serverVars, requestVars, poolVars
  <2>3. CASE Listen(s)
    BY <2>3 DEF Listen, stopVars, requestVars, poolVars
  <2>4. CASE FailToListen(s)
    BY <2>4 DEF FailToListen, serverVars, stopVars, requestVars, poolVars
  <2>5. CASE StopServing(s)
    BY <2>5 DEF StopServing, serverVars, stopVars, requestVars, poolVars
  <2>6. CASE WatcherHalts(s)
    BY <2>6 DEF WatcherHalts, Halt, Listeners, ServerOf, stopVars, requestVars, poolVars
  <2> QED
    BY <1>1, <2>1, <2>2, <2>3, <2>4, <2>5, <2>6 DEF StartStep
<1>2. ASSUME NEW p \in Stoppers, StopStep(p) PROVE TypeOK'
  <2>1. CASE CallStop(p)
    BY <2>1 DEF CallStop, startVars, serverVars, requestVars, poolVars
  <2>2. CASE Find(p)
    BY <2>2 DEF Find, startVars, serverVars, requestVars, poolVars
  <2>3. CASE HaltFound(p)
    BY <2>3 DEF FoundInv, HaltFound, Halt, Listeners, ServerOf, startVars, requestVars, poolVars
  <2>4. CASE HttpDone(p)
    BY <2>4 DEF HttpDone, startVars, serverVars, requestVars, poolVars
  <2>5. CASE HttpExpires(p)
    BY <2>5 DEF HttpExpires, startVars, serverVars, requestVars, poolVars
  <2>6. CASE ClosePool(p)
    BY <2>6 DEF ClosePool, Pool!Close, startVars, serverVars, requestVars, poolVars
  <2>7. CASE Drained(p)
    BY <2>7 DEF Drained, Pool!Drain, startVars, serverVars, requestVars
  <2>8. CASE DrainExpires(p)
    BY <2>8 DEF DrainExpires, startVars, serverVars, requestVars, poolVars
  <2> QED
    BY <1>2, <2>1, <2>2, <2>3, <2>4, <2>5, <2>6, <2>7, <2>8 DEF StopStep
<1>3. ASSUME NEW r \in Requests, RequestStep(r) PROVE TypeOK'
  <2> USE JobSteps DEF Pool!Ended
  <2>1. CASE \E s \in Starters : Arrive(r, s)
    BY <2>1 DEF Arrive, startVars, serverVars, stopVars, poolVars
  <2>2. CASE Submit(r)
    <3>1. status' = [status EXCEPT ![r] = IF open THEN "accepted" ELSE "refused"]
          /\ UNCHANGED <<open, drained>>
      BY <2>2
    <3> QED
      BY <2>2, <3>1 DEF Submit, startVars, serverVars, stopVars
  <2>3. CASE Answer(r)
    BY <2>3 DEF Answer, startVars, serverVars, stopVars, poolVars
  <2>4. CASE BeginJob(r)
    BY <2>4 DEF BeginJob, startVars, serverVars, stopVars, requestVars
  <2>5. CASE EndJob(r)
    BY <2>5 DEF EndJob, startVars, serverVars, stopVars, requestVars
  <2> QED
    BY <1>3, <2>1, <2>2, <2>3, <2>4, <2>5 DEF RequestStep
<1>4. ASSUME NEW c \in Expiring, Cancel(c) PROVE TypeOK'
  BY <1>4 DEF Cancel, startVars, serverVars, stopVars, requestVars, poolVars
<1>5. CASE UNCHANGED vars
  BY <1>5 DEF vars, startVars, serverVars, stopVars, requestVars, poolVars
<1> QED
  BY <1>1, <1>2, <1>3, <1>4, <1>5 DEF Next

(* Each conjunct is kept by every step. *)
LEMMA AnnouncedStep == IInv /\ [Next]_vars => AnnouncedInv'
<1> SUFFICES ASSUME IInv, [Next]_vars PROVE AnnouncedInv'
  OBVIOUS
<1> USE ServerAssumption, CallAssumption DEF IInv, TypeOK, Pool!TypeOK, AnnouncedInv, Step, ServerOf
<1>1. ASSUME NEW s \in Starters, StartStep(s) PROVE AnnouncedInv'
  <2>1. CASE Store(s)
    BY <2>1 DEF Store, stopVars, serverVars, requestVars, poolVars
  <2>2. CASE Announce(s)
    BY <2>2 DEF Announce, stopVars, serverVars, requestVars, poolVars
  <2>3. CASE Listen(s)
    BY <2>3 DEF Listen, stopVars, requestVars, poolVars
  <2>4. CASE FailToListen(s)
    BY <2>4 DEF FailToListen, serverVars, stopVars, requestVars, poolVars
  <2>5. CASE StopServing(s)
    BY <2>5 DEF StopServing, serverVars, stopVars, requestVars, poolVars
  <2>6. CASE WatcherHalts(s)
    BY <2>6 DEF WatcherHalts, Halt, Listeners, stopVars, requestVars, poolVars
  <2> QED
    BY <1>1, <2>1, <2>2, <2>3, <2>4, <2>5, <2>6 DEF StartStep
<1>2. ASSUME NEW p \in Stoppers, StopStep(p) PROVE AnnouncedInv'
  <2>1. CASE CallStop(p)
    BY <2>1 DEF CallStop, startVars, serverVars, requestVars, poolVars
  <2>2. CASE Find(p)
    BY <2>2 DEF Find, startVars, serverVars, requestVars, poolVars
  <2>3. CASE HaltFound(p)
    BY <2>3 DEF HaltFound, Halt, Listeners, startVars, requestVars, poolVars
  <2>4. CASE HttpDone(p)
    BY <2>4 DEF HttpDone, startVars, serverVars, requestVars, poolVars
  <2>5. CASE HttpExpires(p)
    BY <2>5 DEF HttpExpires, startVars, serverVars, requestVars, poolVars
  <2>6. CASE ClosePool(p)
    BY <2>6 DEF ClosePool, Pool!Close, startVars, serverVars, requestVars, poolVars
  <2>7. CASE Drained(p)
    BY <2>7 DEF Drained, Pool!Drain, startVars, serverVars, requestVars
  <2>8. CASE DrainExpires(p)
    BY <2>8 DEF DrainExpires, startVars, serverVars, requestVars, poolVars
  <2> QED
    BY <1>2, <2>1, <2>2, <2>3, <2>4, <2>5, <2>6, <2>7, <2>8 DEF StopStep
<1>3. ASSUME NEW r \in Requests, RequestStep(r) PROVE AnnouncedInv'
  <2> USE JobSteps
  <2>1. CASE \E s \in Starters : Arrive(r, s)
    BY <2>1 DEF Arrive, startVars, serverVars, stopVars, poolVars
  <2>2. CASE Submit(r)
    <3>1. /\ status' = [status EXCEPT ![r] = IF open THEN "accepted" ELSE "refused"]
          /\ UNCHANGED <<open, drained>>
      BY <2>2
    <3> QED
      BY <2>2, <3>1 DEF Submit, startVars, serverVars, stopVars
  <2>3. CASE Answer(r)
    BY <2>3 DEF Answer, startVars, serverVars, stopVars, poolVars
  <2>4. CASE BeginJob(r)
    BY <2>4 DEF BeginJob, startVars, serverVars, stopVars, requestVars
  <2>5. CASE EndJob(r)
    BY <2>5 DEF EndJob, Pool!Ended, startVars, serverVars, stopVars, requestVars
  <2> QED
    BY <1>3, <2>1, <2>2, <2>3, <2>4, <2>5 DEF RequestStep
<1>4. ASSUME NEW c \in Expiring, Cancel(c) PROVE AnnouncedInv'
  BY <1>4 DEF Cancel, startVars, serverVars, stopVars, requestVars, poolVars
<1>5. CASE UNCHANGED vars
  BY <1>5 DEF vars, startVars, serverVars, stopVars, requestVars, poolVars
<1> QED
  BY <1>1, <1>2, <1>3, <1>4, <1>5 DEF Next

LEMMA FoundStep == IInv /\ [Next]_vars => FoundInv'
<1> SUFFICES ASSUME IInv, [Next]_vars PROVE FoundInv'
  OBVIOUS
<1> USE ServerAssumption, CallAssumption DEF IInv, TypeOK, Pool!TypeOK, FoundInv, Step, Over
<1>1. ASSUME NEW s \in Starters, StartStep(s) PROVE FoundInv'
  <2>1. CASE Store(s)
    BY <2>1 DEF Store, stopVars, serverVars, requestVars, poolVars
  <2>2. CASE Announce(s)
    BY <2>2 DEF Announce, stopVars, serverVars, requestVars, poolVars
  <2>3. CASE Listen(s)
    BY <2>3 DEF Listen, stopVars, requestVars, poolVars
  <2>4. CASE FailToListen(s)
    BY <2>4 DEF FailToListen, serverVars, stopVars, requestVars, poolVars
  <2>5. CASE StopServing(s)
    BY <2>5 DEF StopServing, serverVars, stopVars, requestVars, poolVars
  <2>6. CASE WatcherHalts(s)
    BY <2>6 DEF WatcherHalts, Halt, Listeners, stopVars, requestVars, poolVars
  <2> QED
    BY <1>1, <2>1, <2>2, <2>3, <2>4, <2>5, <2>6 DEF StartStep
<1>2. ASSUME NEW p \in Stoppers, StopStep(p) PROVE FoundInv'
  <2>1. CASE CallStop(p)
    BY <2>1 DEF CallStop, startVars, serverVars, requestVars, poolVars
  <2>2. CASE Find(p)
    BY <2>2 DEF Find, startVars, serverVars, requestVars, poolVars, AnnouncedInv
  <2>3. CASE HaltFound(p)
    BY <2>3 DEF HaltFound, Halt, Listeners, startVars, requestVars, poolVars, ServerOf
  <2>4. CASE HttpDone(p)
    BY <2>4 DEF HttpDone, startVars, serverVars, requestVars, poolVars
  <2>5. CASE HttpExpires(p)
    BY <2>5 DEF HttpExpires, startVars, serverVars, requestVars, poolVars
  <2>6. CASE ClosePool(p)
    BY <2>6 DEF ClosePool, Pool!Close, startVars, serverVars, requestVars, poolVars
  <2>7. CASE Drained(p)
    BY <2>7 DEF Drained, Pool!Drain, startVars, serverVars, requestVars
  <2>8. CASE DrainExpires(p)
    BY <2>8 DEF DrainExpires, startVars, serverVars, requestVars, poolVars
  <2> QED
    BY <1>2, <2>1, <2>2, <2>3, <2>4, <2>5, <2>6, <2>7, <2>8 DEF StopStep
<1>3. ASSUME NEW r \in Requests, RequestStep(r) PROVE FoundInv'
  <2> USE JobSteps
  <2>1. CASE \E s \in Starters : Arrive(r, s)
    BY <2>1 DEF Arrive, startVars, serverVars, stopVars, poolVars
  <2>2. CASE Submit(r)
    <3>1. /\ status' = [status EXCEPT ![r] = IF open THEN "accepted" ELSE "refused"]
          /\ UNCHANGED <<open, drained>>
      BY <2>2
    <3> QED
      BY <2>2, <3>1 DEF Submit, startVars, serverVars, stopVars
  <2>3. CASE Answer(r)
    BY <2>3 DEF Answer, startVars, serverVars, stopVars, poolVars
  <2>4. CASE BeginJob(r)
    BY <2>4 DEF BeginJob, startVars, serverVars, stopVars, requestVars
  <2>5. CASE EndJob(r)
    BY <2>5 DEF EndJob, Pool!Ended, startVars, serverVars, stopVars, requestVars
  <2> QED
    BY <1>3, <2>1, <2>2, <2>3, <2>4, <2>5 DEF RequestStep
<1>4. ASSUME NEW c \in Expiring, Cancel(c) PROVE FoundInv'
  BY <1>4 DEF Cancel, startVars, serverVars, stopVars, requestVars, poolVars
<1>5. CASE UNCHANGED vars
  BY <1>5 DEF vars, startVars, serverVars, stopVars, requestVars, poolVars
<1> QED
  BY <1>1, <1>2, <1>3, <1>4, <1>5 DEF Next

LEMMA ListenStep == IInv /\ [Next]_vars => ListenInv'
<1> SUFFICES ASSUME IInv, [Next]_vars PROVE ListenInv'
  OBVIOUS
<1> USE ServerAssumption, CallAssumption DEF IInv, TypeOK, Pool!TypeOK, ListenInv, Step
<1>1. ASSUME NEW s \in Starters, StartStep(s) PROVE ListenInv'
  <2>1. CASE Store(s)
    BY <2>1 DEF Store, stopVars, serverVars, requestVars, poolVars
  <2>2. CASE Announce(s)
    BY <2>2 DEF Announce, stopVars, serverVars, requestVars, poolVars
  <2>3. CASE Listen(s)
    BY <2>3 DEF Listen, stopVars, requestVars, poolVars, ServerOf
  <2>4. CASE FailToListen(s)
    BY <2>4 DEF FailToListen, serverVars, stopVars, requestVars, poolVars
  <2>5. CASE StopServing(s)
    BY <2>5 DEF StopServing, serverVars, stopVars, requestVars, poolVars
  <2>6. CASE WatcherHalts(s)
    BY <2>6 DEF WatcherHalts, Halt, Listeners, stopVars, requestVars, poolVars, ServerOf
  <2> QED
    BY <1>1, <2>1, <2>2, <2>3, <2>4, <2>5, <2>6 DEF StartStep
<1>2. ASSUME NEW p \in Stoppers, StopStep(p) PROVE ListenInv'
  <2>1. CASE CallStop(p)
    BY <2>1 DEF CallStop, startVars, serverVars, requestVars, poolVars
  <2>2. CASE Find(p)
    BY <2>2 DEF Find, startVars, serverVars, requestVars, poolVars
  <2>3. CASE HaltFound(p)
    BY <2>3 DEF HaltFound, Halt, Listeners, startVars, requestVars, poolVars, ServerOf
  <2>4. CASE HttpDone(p)
    BY <2>4 DEF HttpDone, startVars, serverVars, requestVars, poolVars
  <2>5. CASE HttpExpires(p)
    BY <2>5 DEF HttpExpires, startVars, serverVars, requestVars, poolVars
  <2>6. CASE ClosePool(p)
    BY <2>6 DEF ClosePool, Pool!Close, startVars, serverVars, requestVars, poolVars
  <2>7. CASE Drained(p)
    BY <2>7 DEF Drained, Pool!Drain, startVars, serverVars, requestVars
  <2>8. CASE DrainExpires(p)
    BY <2>8 DEF DrainExpires, startVars, serverVars, requestVars, poolVars
  <2> QED
    BY <1>2, <2>1, <2>2, <2>3, <2>4, <2>5, <2>6, <2>7, <2>8 DEF StopStep
<1>3. ASSUME NEW r \in Requests, RequestStep(r) PROVE ListenInv'
  <2> USE JobSteps
  <2>1. CASE \E s \in Starters : Arrive(r, s)
    BY <2>1 DEF Arrive, startVars, serverVars, stopVars, poolVars
  <2>2. CASE Submit(r)
    <3>1. /\ status' = [status EXCEPT ![r] = IF open THEN "accepted" ELSE "refused"]
          /\ UNCHANGED <<open, drained>>
      BY <2>2
    <3> QED
      BY <2>2, <3>1 DEF Submit, startVars, serverVars, stopVars
  <2>3. CASE Answer(r)
    BY <2>3 DEF Answer, startVars, serverVars, stopVars, poolVars
  <2>4. CASE BeginJob(r)
    BY <2>4 DEF BeginJob, startVars, serverVars, stopVars, requestVars
  <2>5. CASE EndJob(r)
    BY <2>5 DEF EndJob, Pool!Ended, startVars, serverVars, stopVars, requestVars
  <2> QED
    BY <1>3, <2>1, <2>2, <2>3, <2>4, <2>5 DEF RequestStep
<1>4. ASSUME NEW c \in Expiring, Cancel(c) PROVE ListenInv'
  BY <1>4 DEF Cancel, startVars, serverVars, stopVars, requestVars, poolVars
<1>5. CASE UNCHANGED vars
  BY <1>5 DEF vars, startVars, serverVars, stopVars, requestVars, poolVars
<1> QED
  BY <1>1, <1>2, <1>3, <1>4, <1>5 DEF Next

LEMMA RequestStepInv == IInv /\ [Next]_vars => RequestInv'
<1> SUFFICES ASSUME IInv, [Next]_vars PROVE RequestInv'
  OBVIOUS
<1> USE ServerAssumption, CallAssumption DEF IInv, TypeOK, Pool!TypeOK, RequestInv, Step
<1>1. ASSUME NEW s \in Starters, StartStep(s) PROVE RequestInv'
  <2>1. CASE Store(s)
    BY <2>1 DEF Store, stopVars, serverVars, requestVars, poolVars
  <2>2. CASE Announce(s)
    BY <2>2 DEF Announce, stopVars, serverVars, requestVars, poolVars
  <2>3. CASE Listen(s)
    BY <2>3 DEF Listen, stopVars, requestVars, poolVars
  <2>4. CASE FailToListen(s)
    BY <2>4 DEF FailToListen, serverVars, stopVars, requestVars, poolVars
  <2>5. CASE StopServing(s)
    BY <2>5 DEF StopServing, serverVars, stopVars, requestVars, poolVars
  <2>6. CASE WatcherHalts(s)
    BY <2>6 DEF WatcherHalts, Halt, Listeners, stopVars, requestVars, poolVars
  <2> QED
    BY <1>1, <2>1, <2>2, <2>3, <2>4, <2>5, <2>6 DEF StartStep
<1>2. ASSUME NEW p \in Stoppers, StopStep(p) PROVE RequestInv'
  <2>1. CASE CallStop(p)
    BY <2>1 DEF CallStop, startVars, serverVars, requestVars, poolVars
  <2>2. CASE Find(p)
    BY <2>2 DEF Find, startVars, serverVars, requestVars, poolVars
  <2>3. CASE HaltFound(p)
    BY <2>3 DEF HaltFound, Halt, Listeners, startVars, requestVars, poolVars
  <2>4. CASE HttpDone(p)
    BY <2>4 DEF HttpDone, startVars, serverVars, requestVars, poolVars
  <2>5. CASE HttpExpires(p)
    BY <2>5 DEF HttpExpires, startVars, serverVars, requestVars, poolVars
  <2>6. CASE ClosePool(p)
    BY <2>6 DEF ClosePool, Pool!Close, startVars, serverVars, requestVars, poolVars
  <2>7. CASE Drained(p)
    BY <2>7 DEF Drained, Pool!Drain, startVars, serverVars, requestVars
  <2>8. CASE DrainExpires(p)
    BY <2>8 DEF DrainExpires, startVars, serverVars, requestVars, poolVars
  <2> QED
    BY <1>2, <2>1, <2>2, <2>3, <2>4, <2>5, <2>6, <2>7, <2>8 DEF StopStep
<1>3. ASSUME NEW r \in Requests, RequestStep(r) PROVE RequestInv'
  <2> USE JobSteps
  <2>1. CASE \E s \in Starters : Arrive(r, s)
    BY <2>1 DEF Arrive, startVars, serverVars, stopVars, poolVars
  <2>2. CASE Submit(r)
    <3>1. /\ status' = [status EXCEPT ![r] = IF open THEN "accepted" ELSE "refused"]
          /\ UNCHANGED <<open, drained>>
      BY <2>2
    <3> QED
      BY <2>2, <3>1 DEF Submit, startVars, serverVars, stopVars
  <2>3. CASE Answer(r)
    BY <2>3 DEF Answer, startVars, serverVars, stopVars, poolVars
  <2>4. CASE BeginJob(r)
    BY <2>4 DEF BeginJob, startVars, serverVars, stopVars, requestVars
  <2>5. CASE EndJob(r)
    BY <2>5 DEF EndJob, Pool!Ended, startVars, serverVars, stopVars, requestVars
  <2> QED
    BY <1>3, <2>1, <2>2, <2>3, <2>4, <2>5 DEF RequestStep
<1>4. ASSUME NEW c \in Expiring, Cancel(c) PROVE RequestInv'
  BY <1>4 DEF Cancel, startVars, serverVars, stopVars, requestVars, poolVars
<1>5. CASE UNCHANGED vars
  BY <1>5 DEF vars, startVars, serverVars, stopVars, requestVars, poolVars
<1> QED
  BY <1>1, <1>2, <1>3, <1>4, <1>5 DEF Next

LEMMA PoolStep == IInv /\ [Next]_vars => PoolInv'
<1> SUFFICES ASSUME IInv, [Next]_vars PROVE PoolInv'
  OBVIOUS
<1> USE ServerAssumption, CallAssumption DEF IInv, TypeOK, Pool!TypeOK, PoolInv, Step, Gone
<1>1. ASSUME NEW s \in Starters, StartStep(s) PROVE PoolInv'
  <2>1. CASE Store(s)
    BY <2>1 DEF Store, stopVars, serverVars, requestVars, poolVars
  <2>2. CASE Announce(s)
    BY <2>2 DEF Announce, stopVars, serverVars, requestVars, poolVars
  <2>3. CASE Listen(s)
    BY <2>3 DEF Listen, stopVars, requestVars, poolVars
  <2>4. CASE FailToListen(s)
    BY <2>4 DEF FailToListen, serverVars, stopVars, requestVars, poolVars
  <2>5. CASE StopServing(s)
    BY <2>5 DEF StopServing, serverVars, stopVars, requestVars, poolVars
  <2>6. CASE WatcherHalts(s)
    BY <2>6 DEF WatcherHalts, Halt, Listeners, stopVars, requestVars, poolVars
  <2> QED
    BY <1>1, <2>1, <2>2, <2>3, <2>4, <2>5, <2>6 DEF StartStep
<1>2. ASSUME NEW p \in Stoppers, StopStep(p) PROVE PoolInv'
  <2>1. CASE CallStop(p)
    BY <2>1 DEF CallStop, startVars, serverVars, requestVars, poolVars
  <2>2. CASE Find(p)
    BY <2>2 DEF Find, startVars, serverVars, requestVars, poolVars
  <2>3. CASE HaltFound(p)
    BY <2>3 DEF HaltFound, Halt, Listeners, startVars, requestVars, poolVars
  <2>4. CASE HttpDone(p)
    BY <2>4 DEF HttpDone, startVars, serverVars, requestVars, poolVars
  <2>5. CASE HttpExpires(p)
    BY <2>5 DEF HttpExpires, startVars, serverVars, requestVars, poolVars
  <2>6. CASE ClosePool(p)
    BY <2>6 DEF ClosePool, Pool!Close, startVars, serverVars, requestVars, poolVars
  <2>7. CASE Drained(p)
    BY <2>7 DEF Drained, Pool!Drain, startVars, serverVars, requestVars
  <2>8. CASE DrainExpires(p)
    BY <2>8 DEF DrainExpires, startVars, serverVars, requestVars, poolVars
  <2> QED
    BY <1>2, <2>1, <2>2, <2>3, <2>4, <2>5, <2>6, <2>7, <2>8 DEF StopStep
<1>3. ASSUME NEW r \in Requests, RequestStep(r) PROVE PoolInv'
  <2> USE JobSteps
  <2>1. CASE \E s \in Starters : Arrive(r, s)
    BY <2>1 DEF Arrive, startVars, serverVars, stopVars, poolVars
  <2>2. CASE Submit(r)
    <3>1. /\ status' = [status EXCEPT ![r] = IF open THEN "accepted" ELSE "refused"]
          /\ UNCHANGED <<open, drained>>
      BY <2>2
    <3> QED
      BY <2>2, <3>1 DEF Submit, startVars, serverVars, stopVars
  <2>3. CASE Answer(r)
    BY <2>3 DEF Answer, startVars, serverVars, stopVars, poolVars
  <2>4. CASE BeginJob(r)
    BY <2>4 DEF BeginJob, startVars, serverVars, stopVars, requestVars
  <2>5. CASE EndJob(r)
    BY <2>5 DEF EndJob, Pool!Ended, startVars, serverVars, stopVars, requestVars
  <2> QED
    BY <1>3, <2>1, <2>2, <2>3, <2>4, <2>5 DEF RequestStep
<1>4. ASSUME NEW c \in Expiring, Cancel(c) PROVE PoolInv'
  BY <1>4 DEF Cancel, startVars, serverVars, stopVars, requestVars, poolVars
<1>5. CASE UNCHANGED vars
  BY <1>5 DEF vars, startVars, serverVars, stopVars, requestVars, poolVars
<1> QED
  BY <1>1, <1>2, <1>3, <1>4, <1>5 DEF Next

(* What a step leaves alone: a stop that is over keeps what it found, and   *)
(* a request where it came in.                                              *)
Frame ==
  /\ framework' = framework
  /\ \A p \in Stoppers :
       /\ stop[p] \in Over => /\ stop'[p] \in Over
                              /\ found'[p] = found[p]
                              /\ closed'[p] = closed[p]
                              /\ httpErr'[p] = httpErr[p]
       /\ stop[p] \in Gone => stop'[p] \in Gone
       /\ stop[p] \notin Over /\ stop'[p] \in Over =>
            CallStop(p) \/ Find(p) \/ HttpDone(p) \/ HttpExpires(p)
  /\ \A r \in Requests :
       /\ request[r] = "answered" => request'[r] = "answered"
       /\ at'[r] = at[r] \/ (at[r] = NoServer /\ at'[r] \in listening)
       /\ status'[r] = "refused" => status[r] = "refused" \/ (request[r] = "active" /\ ~open)

LEMMA FrameStep == IInv /\ [Next]_vars => Frame
<1> SUFFICES ASSUME IInv, [Next]_vars PROVE Frame
  OBVIOUS
<1> USE ServerAssumption, CallAssumption DEF IInv, TypeOK, Pool!TypeOK, Frame, Step, Over, Gone
<1>1. ASSUME NEW s \in Starters, StartStep(s) PROVE Frame
  <2>1. CASE Store(s)
    BY <2>1 DEF Store, stopVars, serverVars, requestVars, poolVars
  <2>2. CASE Announce(s)
    BY <2>2 DEF Announce, stopVars, serverVars, requestVars, poolVars
  <2>3. CASE Listen(s)
    BY <2>3 DEF Listen, stopVars, requestVars, poolVars
  <2>4. CASE FailToListen(s)
    BY <2>4 DEF FailToListen, serverVars, stopVars, requestVars, poolVars
  <2>5. CASE StopServing(s)
    BY <2>5 DEF StopServing, serverVars, stopVars, requestVars, poolVars
  <2>6. CASE WatcherHalts(s)
    BY <2>6 DEF WatcherHalts, Halt, Listeners, stopVars, requestVars, poolVars
  <2> QED
    BY <1>1, <2>1, <2>2, <2>3, <2>4, <2>5, <2>6 DEF StartStep
<1>2. ASSUME NEW p \in Stoppers, StopStep(p) PROVE Frame
  <2>1. CASE CallStop(p)
    BY ZenonT(60), <2>1 DEF CallStop, startVars, serverVars, requestVars, poolVars
  <2>2. CASE Find(p)
    BY ZenonT(60), <2>2 DEF Find, startVars, serverVars, requestVars, poolVars
  <2>3. CASE HaltFound(p)
    BY <2>3 DEF HaltFound, Halt, Listeners, startVars, requestVars, poolVars
  <2>4. CASE HttpDone(p)
    BY <2>4 DEF HttpDone, startVars, serverVars, requestVars, poolVars
  <2>5. CASE HttpExpires(p)
    BY ZenonT(60), <2>5 DEF HttpExpires, startVars, serverVars, requestVars, poolVars
  <2>6. CASE ClosePool(p)
    BY <2>6 DEF ClosePool, Pool!Close, startVars, serverVars, requestVars, poolVars
  <2>7. CASE Drained(p)
    BY <2>7 DEF Drained, Pool!Drain, startVars, serverVars, requestVars
  <2>8. CASE DrainExpires(p)
    BY <2>8 DEF DrainExpires, startVars, serverVars, requestVars, poolVars
  <2> QED
    BY <1>2, <2>1, <2>2, <2>3, <2>4, <2>5, <2>6, <2>7, <2>8 DEF StopStep
<1>3. ASSUME NEW r \in Requests, RequestStep(r) PROVE Frame
  <2> USE JobSteps
  <2>1. CASE \E s \in Starters : Arrive(r, s)
    BY <2>1 DEF Arrive, startVars, serverVars, stopVars, poolVars, RequestInv
  <2>2. CASE Submit(r)
    <3>1. /\ status' = [status EXCEPT ![r] = IF open THEN "accepted" ELSE "refused"]
          /\ UNCHANGED <<open, drained>>
      BY <2>2
    <3> QED
      BY <2>2, <3>1 DEF Submit, startVars, serverVars, stopVars
  <2>3. CASE Answer(r)
    BY <2>3 DEF Answer, startVars, serverVars, stopVars, poolVars
  <2>4. CASE BeginJob(r)
    BY <2>4 DEF BeginJob, startVars, serverVars, stopVars, requestVars
  <2>5. CASE EndJob(r)
    BY <2>5 DEF EndJob, Pool!Ended, startVars, serverVars, stopVars, requestVars
  <2> QED
    BY <1>3, <2>1, <2>2, <2>3, <2>4, <2>5 DEF RequestStep
<1>4. ASSUME NEW c \in Expiring, Cancel(c) PROVE Frame
  BY <1>4 DEF Cancel, startVars, serverVars, stopVars, requestVars, poolVars
<1>5. CASE UNCHANGED vars
  BY <1>5 DEF vars, startVars, serverVars, stopVars, requestVars, poolVars
<1> QED
  BY <1>1, <1>2, <1>3, <1>4, <1>5 DEF Next

LEMMA QuietStep == IInv /\ [Next]_vars => QuietInv'
<1> SUFFICES ASSUME IInv, [Next]_vars, NEW p \in Stoppers, NEW r \in Requests,
                    stop'[p] \in Over, at'[r] # NoServer, ~Hurried(p, at[r])'
             PROVE  request'[r] = "answered"
  BY DEF QuietInv
<1>1. Frame /\ TypeOK /\ TypeOK'
  BY FrameStep, TypeStep DEF IInv
<1>2. /\ p \notin Closers
      /\ found'[p] = ServerOf(at'[r])
      /\ framework = "fiber" => at'[r] \in closed'[p]
      /\ httpErr'[p] # "ctxErr"
  BY <1>1 DEF Hurried, ServerOf, Frame
<1>3. at'[r] \in Starters /\ found'[p] # NoServer
  BY <1>1, <1>2, ServerAssumption DEF TypeOK, ServerOf
<1>4. CASE stop[p] \in Over
  <2>1. found'[p] = found[p] /\ closed'[p] = closed[p] /\ httpErr'[p] = httpErr[p]
    BY <1>1, <1>4 DEF Frame
  <2>2. CASE at'[r] = at[r]
    <3>1. ~Hurried(p, at[r])
      BY <1>2, <2>1, <2>2 DEF Hurried, ServerOf
    <3> QED
      BY <1>1, <1>4, <2>2, <3>1 DEF IInv, QuietInv, Frame
  <2>3. CASE at'[r] \in listening
    <3>1. found[p] \in halted
      BY <1>3, <1>4, <2>1 DEF IInv, FoundInv
    <3>2. framework = "fiber" => at'[r] \notin listening
      BY <1>2, <2>1 DEF IInv, ListenInv
    <3>3. framework = "handler" => at'[r] \notin listening
      BY <1>2, <1>3, <2>1, <3>1 DEF IInv, ListenInv, ServerOf
    <3> QED
      BY <1>1, <2>3, <3>2, <3>3, ServerAssumption DEF TypeOK
  <2> QED
    BY <1>1, <2>2, <2>3 DEF Frame
<1>5. CASE stop[p] \notin Over
  <2>1. CASE CallStop(p)
    BY <1>2, <1>5, <2>1 DEF CallStop, Step, Over, TypeOK, IInv
  <2>2. CASE Find(p)
    BY <1>1, <1>3, <2>2 DEF Find, Step, Over, TypeOK
  <2>3. CASE HttpDone(p)
    <3>1. /\ httpErr[p] = "nil" => Idle(found[p])
          /\ httpErr[p] \in {"nil", "notRunning"}
          /\ found' = found /\ at' = at /\ request' = request /\ closed' = closed
      BY <2>3 DEF HttpDone, requestVars
    <3>2. httpErr[p] # "notRunning"
      BY <1>2, <3>1 DEF IInv, FoundInv
    <3> QED
      BY <1>1, <1>2, <1>3, <3>1, <3>2 DEF Idle, ServerOf, Frame
  <2>4. CASE HttpExpires(p)
    BY <1>1, <1>2, <2>4 DEF HttpExpires, TypeOK
  <2> QED
    BY <1>1, <1>5, <2>1, <2>2, <2>3, <2>4 DEF Frame
<1> QED
  BY <1>4, <1>5

LEMMA RefusedStep == IInv /\ [Next]_vars => RefusedInv'
<1> SUFFICES ASSUME IInv, [Next]_vars, NEW r \in Requests, status'[r] = "refused"
             PROVE  \E p \in Stoppers : stop'[p] \in Gone /\ Hurried(p, at[r])'
  BY DEF RefusedInv
<1>1. Frame
  BY FrameStep
<1>2. \E p \in Stoppers : stop[p] \in Gone /\ Hurried(p, at[r])
  <2>1. CASE status[r] = "refused"
    BY <2>1 DEF IInv, RefusedInv
  <2>2. CASE request[r] = "active" /\ ~open
    <3>1. PICK p \in Stoppers : stop[p] \in Gone
      BY <2>2 DEF IInv, PoolInv
    <3>2. at[r] # NoServer /\ stop[p] \in Over
      BY <2>2, <3>1 DEF IInv, RequestInv, Gone, Over
    <3> QED
      BY <2>2, <3>1, <3>2 DEF IInv, QuietInv
  <2> QED
    BY <1>1, <2>1, <2>2 DEF Frame
<1>3. PICK p \in Stoppers : stop[p] \in Gone /\ Hurried(p, at[r])
  BY <1>2
<1>4. at'[r] = at[r]
  <2>1. request[r] # "away"
    BY <1>1 DEF IInv, RequestInv, Frame
  <2> QED
    BY <1>1, <2>1 DEF IInv, RequestInv, Frame
<1>5. /\ stop'[p] \in Gone
      /\ found'[p] = found[p] /\ closed'[p] = closed[p] /\ httpErr'[p] = httpErr[p]
  BY <1>1, <1>3 DEF Frame, Gone, Over
<1>6. Hurried(p, at[r])'
  BY <1>1, <1>3, <1>4, <1>5 DEF Hurried, ServerOf, Frame
<1> QED
  BY <1>5, <1>6

-----------------------------------------------------------------------------
LEMMA Invariance == Spec => []IInv
<1>1. IInv /\ [Next]_vars => IInv'
  BY TypeStep, AnnouncedStep, FoundStep, ListenStep, RequestStepInv, PoolStep, QuietStep,
     RefusedStep DEF IInv
<1> QED
  BY InitInv, <1>1, PTL DEF Spec

(* The comment at lines 408-410 of app.go: a Shutdown whose context is still*)
(* good finds the server.  Once it is announced it is stored, and only a    *)
(* Shutdown that gave up waiting goes on without an announcement.           *)
THEOREM ShutdownFinds == Spec => []ShutdownFindsServer
<1>1. IInv => ShutdownFindsServer
  BY DEF IInv, FoundInv, ShutdownFindsServer, Past
<1> QED
  BY Invariance, <1>1, PTL

(* The nil of Shutdown: the accepted jobs have ended and the http.Server it *)
(* found has neither a listener nor a request, and never will again.        *)
THEOREM NilIsStopped == Spec => []NilMeansStopped
<1>1. IInv => NilMeansStopped
  <2> SUFFICES ASSUME IInv, NEW p \in Stoppers, stop[p] = "nil"
               PROVE  /\ ~open
                      /\ \A r \in Requests : status[r] \notin {"accepted", "running"}
                      /\ framework = "handler" /\ found[p] # NoServer =>
                           Listeners(found[p]) = {} /\ Idle(found[p])
    BY DEF NilMeansStopped
  <2>1. ~open /\ \A r \in Requests : status[r] \notin {"accepted", "running"}
    BY DEF IInv, PoolInv
  <2>2. ASSUME framework = "handler", found[p] # NoServer
        PROVE  Listeners(found[p]) = {} /\ Idle(found[p])
    <3>1. /\ p \notin Closers
          /\ httpErr[p] = "nil"
          /\ found[p] \in halted
      BY <2>2 DEF IInv, FoundInv, TypeOK, Over
    <3>2. Listeners(found[p]) = {}
      BY <2>2, <3>1 DEF IInv, ListenInv, TypeOK, Listeners, ServerOf
    <3>3. ASSUME NEW r \in Requests, at[r] # NoServer, ServerOf(at[r]) = found[p]
          PROVE  request[r] = "answered"
      <4>1. ~Hurried(p, at[r])
        BY <2>2, <3>1, <3>3 DEF Hurried
      <4> QED
        BY <3>3, <4>1 DEF IInv, QuietInv, Over
    <3> QED
      BY <3>2, <3>3 DEF Idle
  <2> QED
    BY <2>1, <2>2
<1> QED
  BY Invariance, <1>1, PTL

(* Requests in flight keep their pool (line 445): who finds it closed, or   *)
(* has its job refused, met a Shutdown or Close that was in a hurry.        *)
THEOREM PoolOutlives == Spec => []PoolOutlivesRequests
<1>1. IInv => PoolOutlivesRequests
  <2> SUFFICES ASSUME IInv, NEW r \in Requests,
                      (request[r] = "active" /\ ~open) \/ status[r] = "refused"
               PROVE  \E p \in Stoppers : stop[p] \in Gone /\ Hurried(p, at[r])
    BY DEF PoolOutlivesRequests, Gone
  <2>1. CASE status[r] = "refused"
    BY <2>1 DEF IInv, RefusedInv
  <2>2. CASE request[r] = "active" /\ ~open
    <3>1. PICK p \in Stoppers : stop[p] \in Gone
      BY <2>2 DEF IInv, PoolInv
    <3>2. at[r] # NoServer /\ stop[p] \in Over
      BY <2>2, <3>1 DEF IInv, RequestInv, Gone, Over
    <3> QED
      BY <2>2, <3>1, <3>2 DEF IInv, QuietInv
  <2> QED
    BY <2>1, <2>2
<1> QED
  BY Invariance, <1>1, PTL

-----------------------------------------------------------------------------
(* Registration of routes (Routing), for any middlewares, prefixes,         *)
(* resources and requests, and any number of groups and routes.             *)

GroupType == [prefix : Patterns, own : Seq(AllMiddleware), errs : BOOLEAN, parent : Nat,
              asked : Seq(AllMiddleware)]
RouteNames == OperationNames \cup {"Alias", "Default405", "Direct"}
RouteType == [method : Methods, pattern : Patterns, via : Nat, chain : Seq(AllMiddleware),
              of : Patterns, name : RouteNames]

RoutingTypes ==
  /\ adapter \in Adapters /\ globals \in Globals
  /\ groups \in Seq(GroupType) /\ routes \in Seq(RouteType)
  /\ \A i \in 1..Len(routes) : routes[i].via \in 1..Len(groups)

(* What a value of an adapter has of the middlewares asked for: all, and a  *)
(* sub-group of net/http begins with those of its router.                   *)
Starts(s, t) == Len(t) <= Len(s) /\ \A k \in 1..Len(t) : s[k] = t[k]

Inherits(v, all, a) ==
  /\ v.own = v.asked
  /\ v.parent # 0 => /\ a = "nethttp" /\ v.parent \in 1..Len(all)
                     /\ Starts(v.own, all[v.parent].own)

GroupInv ==
  /\ Len(groups) > 0
  /\ groups[1].own = <<>> /\ groups[1].asked = <<>> /\ groups[1].parent = 0
  /\ \A g \in 1..Len(groups) : Inherits(groups[g], groups, adapter)

(* MiddlewareOnce for one route.                                            *)
Applied(chain, asked, parent, a) ==
  LET late == Len(chain) - Len(asked)
  IN  /\ late >= 0 /\ SubSeq(chain, late + 1, Len(chain)) = asked
      /\ SubSeq(chain, 1, late) = SubSeq(asked, 1, late)
      /\ late > 0 => a = "nethttp" /\ parent > 1

AskedOf(group, g, all) == IF g = 1 THEN all ELSE group.asked

ChainInv ==
  \A i \in 1..Len(routes) :
    LET g == routes[i].via
    IN  Applied(routes[i].chain, AskedOf(groups[g], g, globals), groups[g].parent, adapter)

(* Routes of one resource come from one group, in the order of Operations.  *)
IsOperation(route, prefix, k) ==
  /\ route.method = Operations[k].method
  /\ route.pattern = prefix \o (route.of \o Operations[k].tail)

Ordered(first, second, prefix) ==
  \E k \in 1..8, l \in 1..8 :
    k < l /\ IsOperation(first, prefix, k) /\ IsOperation(second, prefix, l)

ResourceInv ==
  \A i, j \in 1..Len(routes) :
    i < j /\ routes[i].of = routes[j].of /\ routes[i].of # <<>> =>
      /\ routes[i].via = routes[j].via
      /\ Ordered(routes[i], routes[j], groups[routes[i].via].prefix)

RoutingInv == RoutingTypes /\ GroupInv /\ ChainInv /\ ResourceInv

-----------------------------------------------------------------------------
(* Groups and their middlewares.                                            *)

LEMMA GroupsAndRoutes ==
  ASSUME RoutingTypes
  PROVE  /\ Len(groups) \in Nat /\ DOMAIN groups = 1..Len(groups)
         /\ \A g \in 1..Len(groups) : groups[g] \in GroupType
         /\ Len(routes) \in Nat /\ DOMAIN routes = 1..Len(routes)
         /\ \A i \in 1..Len(routes) : routes[i] \in RouteType
BY LenProperties, ElementOfSeq DEF RoutingTypes

LEMMA OneMember ==
  ASSUME NEW S, NEW x \in S
  PROVE  <<x>> \in Seq(S) /\ Len(<<x>>) = 1 /\ <<x>>[1] = x
OBVIOUS

(* What With makes of a value.                                              *)
LEMMA WithFacts ==
  ASSUME NEW v \in GroupType, NEW mws \in Seq(AllMiddleware), v.own = v.asked
  PROVE  LET new == AdapterWith(v, mws)
         IN  /\ new \in GroupType /\ new.prefix = v.prefix /\ new.parent = v.parent
             /\ new.own = v.own \o mws /\ new.asked = v.own \o mws
<1> DEFINE own == v.own \o mws
           asked == v.asked \o mws
<1>1. own \in Seq(AllMiddleware) /\ asked \in Seq(AllMiddleware) /\ asked = own
  BY ConcatProperties DEF GroupType
<1>2. AdapterWith(v, mws) = [[v EXCEPT !.own = own] EXCEPT !.asked = asked]
  <2>1. [v EXCEPT !.own = own].asked = v.asked
    BY DEF GroupType
  <2> QED
    BY <2>1 DEF AdapterWith, GinWith, FiberWith, ChiWith, NetHTTPWith, NetHTTPSubWith, Joined
<1> HIDE DEF own, asked
<1> DEFINE new == [[v EXCEPT !.own = own] EXCEPT !.asked = asked]
<1>3. /\ new \in GroupType /\ new.prefix = v.prefix /\ new.parent = v.parent
      /\ new.own = own /\ new.asked = asked
  BY <1>1 DEF GroupType
<1> HIDE DEF new
<1>4. AdapterWith(v, mws) = new
  BY <1>2 DEF new
<1> QED
  BY <1>1, <1>3, <1>4 DEF own

(* What Group makes of one.                                                 *)
LEMMA GroupFacts ==
  ASSUME RoutingTypes, NEW g \in 1..Len(groups), NEW prefix \in Patterns
  PROVE  LET new == AdapterGroup(g, prefix)
         IN  /\ new \in GroupType
             /\ new.own = groups[g].own /\ new.asked = groups[g].asked
             /\ \/ new.parent = groups[g].parent
                \/ adapter = "nethttp" /\ groups[g].parent = 0 /\ new.parent = g
<1> DEFINE v == groups[g]
           longer == v.prefix \o prefix
<1>1. v \in GroupType /\ adapter \in {"gin", "fiber", "chi", "nethttp"}
  BY GroupsAndRoutes, InputAssumption DEF RoutingTypes
<1>2. longer \in Patterns /\ g \in Nat
  BY <1>1, ConcatProperties, GroupsAndRoutes DEF GroupType, Patterns
<1> DEFINE near == [v EXCEPT !.prefix = longer]
           sub == [v EXCEPT !.prefix = prefix, !.parent = g]
<1>3. /\ GinGroup(g, prefix) = near /\ FiberGroup(g, prefix) = near
      /\ ChiGroup(g, prefix) = near /\ NetHTTPSubGroup(g, prefix) = near
      /\ NetHTTPGroup(g, prefix) = sub
  BY DEF GinGroup, FiberGroup, ChiGroup, NetHTTPGroup, NetHTTPSubGroup
<1> HIDE DEF longer
<1>4. near \in GroupType /\ near.own = v.own /\ near.asked = v.asked /\ near.parent = v.parent
  BY <1>1, <1>2 DEF GroupType
<1>5. sub \in GroupType /\ sub.own = v.own /\ sub.asked = v.asked /\ sub.parent = g
  BY <1>1, <1>2 DEF GroupType
<1>6. \/ AdapterGroup(g, prefix) = near
      \/ adapter = "nethttp" /\ v.parent = 0 /\ AdapterGroup(g, prefix) = sub
  <2> HIDE DEF near, sub
  <2>1. CASE adapter # "nethttp"
    BY <1>1, <1>3, <2>1 DEF AdapterGroup
  <2>2. CASE adapter = "nethttp" /\ v.parent = 0
    BY <1>3, <2>2 DEF AdapterGroup
  <2>3. CASE adapter = "nethttp" /\ v.parent # 0
    BY <1>3, <2>3 DEF AdapterGroup
  <2> QED
    BY <2>1, <2>2, <2>3
<1> HIDE DEF near, sub
<1> QED
  BY <1>4, <1>5, <1>6

(* Both through the application.                                            *)
NewGroup(new) ==
  new \in GroupType /\ Inherits(new, groups, adapter)

LEMMA Longer ==
  ASSUME NEW s \in Seq(AllMiddleware), NEW t \in Seq(AllMiddleware), NEW u, Starts(s, u), Len(u) \in Nat
  PROVE  Starts(s \o t, u)
BY LenProperties, ConcatProperties DEF Starts

LEMMA StartsAsItself ==
  ASSUME NEW s \in Seq(AllMiddleware)
  PROVE  Starts(s, s) /\ Starts(s, <<>>)
BY LenProperties, EmptySeq DEF Starts

LEMMA AppGroupFacts ==
  ASSUME RoutingTypes, GroupInv, NEW g \in 1..Len(groups), NEW prefix \in Patterns
  PROVE  NewGroup(AppGroup(g, prefix))
<1> DEFINE old == AdapterGroup(g, prefix)
<1>1. /\ old \in GroupType /\ old.own = old.asked /\ old.own = groups[g].own
      /\ \/ old.parent = groups[g].parent
         \/ adapter = "nethttp" /\ groups[g].parent = 0 /\ old.parent = g
  BY GroupFacts DEF GroupInv, Inherits
<1> HIDE DEF old
<1>2. old.own \in Seq(AllMiddleware) /\ \A h \in 1..Len(groups) : groups[h].own \in Seq(AllMiddleware)
  BY <1>1, GroupsAndRoutes DEF GroupType
<1>3. old.parent # 0 => /\ adapter = "nethttp" /\ old.parent \in 1..Len(groups)
                        /\ Starts(old.own, groups[old.parent].own)
  BY <1>1, <1>2, StartsAsItself DEF GroupInv, Inherits
<1>4. CASE g = 1
  <2> DEFINE new == AdapterWith(old, globals)
  <2>1. globals \in Seq(AllMiddleware)
    BY InputAssumption DEF RoutingTypes
  <2>2. /\ new \in GroupType /\ new.own = new.asked /\ new.parent = old.parent
        /\ new.own = old.own \o globals
    BY <1>1, <2>1, WithFacts
  <2>3. AppGroup(g, prefix) = new
    BY <1>4 DEF AppGroup, old
  <2> HIDE DEF new
  <2>4. old.parent # 0 => Starts(new.own, groups[old.parent].own)
    BY <1>2, <1>3, <2>1, <2>2, Longer, LenProperties
  <2> QED
    BY <1>3, <2>2, <2>3, <2>4 DEF NewGroup, Inherits
<1>5. CASE g # 1
  <2>1. AppGroup(g, prefix) = old
    BY <1>5 DEF AppGroup, old
  <2> QED
    BY <1>1, <1>3, <2>1 DEF NewGroup, Inherits
<1> QED
  BY <1>4, <1>5

LEMMA AppWithFacts ==
  ASSUME RoutingTypes, GroupInv, NEW g \in 1..Len(groups), NEW mw \in Middleware
  PROVE  NewGroup(AppWith(g, mw))
<1> DEFINE v == groups[g]
           mws == IF g = 1 THEN Append(globals, mw) ELSE <<mw>>
           new == AdapterWith(v, mws)
<1>1. v \in GroupType /\ v.own = v.asked /\ v.own \in Seq(AllMiddleware)
  BY GroupsAndRoutes DEF GroupInv, Inherits, GroupType
<1>2. mws \in Seq(AllMiddleware)
  <2>1. globals \in Seq(AllMiddleware) /\ mw \in AllMiddleware
    BY InputAssumption DEF RoutingTypes, AllMiddleware
  <2>2. Append(globals, mw) \in Seq(AllMiddleware)
    BY <2>1, AppendProperties
  <2>3. <<mw>> \in Seq(AllMiddleware)
    BY <2>1, OneMember
  <2> QED
    BY <2>2, <2>3
<1> HIDE DEF mws
<1>3. new \in GroupType /\ new.own = new.asked /\ new.parent = v.parent /\ new.own = v.own \o mws
  BY <1>1, <1>2, WithFacts
<1>4. AppWith(g, mw) = new
  BY DEF AppWith, mws
<1> HIDE DEF new
<1>5. v.parent # 0 => /\ adapter = "nethttp" /\ v.parent \in 1..Len(groups)
                      /\ Starts(v.own, groups[v.parent].own)
  BY DEF GroupInv, Inherits
<1>6. \A h \in 1..Len(groups) : Len(groups[h].own) \in Nat
  BY GroupsAndRoutes, LenProperties DEF GroupType
<1>7. v.parent # 0 => Starts(new.own, groups[v.parent].own)
  BY <1>1, <1>2, <1>3, <1>5, <1>6, Longer
<1> QED
  BY <1>3, <1>4, <1>5, <1>7 DEF NewGroup, Inherits

(* The middlewares a handler is wrapped in are those asked for.             *)
LEMMA AppliedTwice ==
  ASSUME NEW asked \in Seq(AllMiddleware), NEW early \in Seq(AllMiddleware), Starts(asked, early),
         NEW parent \in Nat, NEW a, early # <<>> => a = "nethttp" /\ parent > 1
  PROVE  Applied(early \o asked, asked, parent, a)
<1> DEFINE chain == early \o asked
           n == Len(early)
           m == Len(asked)
<1>1. /\ chain \in Seq(AllMiddleware) /\ n \in Nat /\ m \in Nat /\ Len(chain) = n + m
      /\ \A i \in 1..n : chain[i] = early[i]
      /\ \A i \in n + 1..n + m : chain[i] = asked[i - n]
      /\ \A i \in 1..n + m : chain[i] \in AllMiddleware
      /\ \A i \in 1..m : asked[i] \in AllMiddleware
  BY ConcatProperties, LenProperties, ElementOfSeq
<1>2. n <= m /\ \A i \in 1..n : asked[i] = early[i]
  BY DEF Starts
<1> HIDE DEF chain
<1> DEFINE end == SubSeq(chain, n + 1, n + m)
           begin == SubSeq(chain, 1, n)
           same == SubSeq(asked, 1, n)
<1>3. end \in Seq(AllMiddleware) /\ Len(end) = m /\ \A i \in 1..m : end[i] = chain[n + i]
  <2>1. \A i \in n + 1..n + m : chain[i] \in AllMiddleware
    BY <1>1
  <2> HIDE DEF n, m
  <2>2. /\ n + 1 \in Int /\ n + m \in Int /\ (n + m) - (n + 1) + 1 = m
        /\ \A i \in 1..m : (n + 1) + i - 1 = n + i
    BY <1>1
  <2>3. /\ end \in Seq(AllMiddleware) /\ Len(end) = IF n + 1 <= n + m THEN m ELSE 0
        /\ \A i \in 1..m : end[i] = chain[(n + 1) + i - 1]
    BY <2>1, <2>2, SubSeqProperties
  <2> QED
    BY <1>1, <2>2, <2>3
<1>4. end = asked
  <2> HIDE DEF end, n, m
  <2>1. ASSUME NEW i \in 1..m
        PROVE  end[i] = asked[i]
    <3>1. n + i \in n + 1..n + m /\ (n + i) - n = i
      BY <1>1
    <3> QED
      BY <1>1, <1>3, <3>1
  <2> QED
    BY <1>1, <1>3, <2>1, SeqEqual DEF m
<1>5. begin \in Seq(AllMiddleware) /\ Len(begin) = n /\ \A i \in 1..n : begin[i] = chain[i]
  BY <1>1, SubSeqProperties
<1>6. same \in Seq(AllMiddleware) /\ Len(same) = n /\ \A i \in 1..n : same[i] = asked[i]
  BY <1>1, <1>2, SubSeqProperties
<1>7. begin = same
  <2> HIDE DEF begin, same, n
  <2> QED
    BY <1>1, <1>2, <1>5, <1>6, SeqEqual
<1>8. n > 0 => early # <<>>
  BY EmptySeq
<1>9. n > 0 => a = "nethttp" /\ parent > 1
  BY <1>8
<1>10. SubSeq(chain, n + 1, Len(chain)) = asked /\ SubSeq(chain, 1, n) = SubSeq(asked, 1, n)
  BY <1>1, <1>4, <1>7, Zenon
<1> DEFINE late == Len(chain) - m
<1>11. late = n /\ late >= 0
  <2> HIDE DEF n, m
  <2> QED
    BY <1>1
<1> HIDE DEF n, m, late
<1>12. /\ SubSeq(chain, late + 1, Len(chain)) = asked
       /\ SubSeq(chain, 1, late) = SubSeq(asked, 1, late)
       /\ late > 0 => a = "nethttp" /\ parent > 1
  BY <1>1, <1>9, <1>10, <1>11, Zenon
<1> QED
  BY <1>11, <1>12, Zenon DEF Applied, chain, late, m

LEMMA AppHandleFacts ==
  ASSUME RoutingTypes, GroupInv, NEW g \in 1..Len(groups)
  PROVE  /\ AppHandle(g) \in Seq(AllMiddleware)
         /\ Applied(AppHandle(g), AskedOf(groups[g], g, globals), groups[g].parent, adapter)
<1>1. /\ groups[g] \in GroupType /\ groups[g].own \in Seq(AllMiddleware) /\ groups[g].parent \in Nat
      /\ groups[g].own = groups[g].asked /\ globals \in Seq(AllMiddleware)
      /\ adapter \in {"gin", "fiber", "chi", "nethttp"}
  BY GroupsAndRoutes, InputAssumption DEF GroupInv, Inherits, GroupType, RoutingTypes
<1> DEFINE asked == AskedOf(groups[g], g, globals)
           nothing == <<>>
<1>2. asked \in Seq(AllMiddleware) /\ nothing \in Seq(AllMiddleware)
  BY <1>1, EmptySeq DEF AskedOf
<1>3. CASE groups[g].parent = 0
  <2>1. AdapterHandle(g) = groups[g].own
    BY <1>1, <1>3 DEF AdapterHandle, GinHandle, FiberHandle, ChiHandle, NetHTTPHandle
  <2>2. AppHandle(g) = nothing \o asked
    <3>1. CASE g = 1
      BY <2>1, <3>1 DEF AppHandle, AskedOf, GroupInv
    <3>2. CASE g # 1
      <4>1. groups[g].own \o <<>> = groups[g].own /\ <<>> \o groups[g].own = groups[g].own
        BY <1>1, ConcatEmptySeq
      <4> QED
        BY <1>1, <2>1, <3>2, <4>1 DEF AppHandle, AskedOf
    <3> QED
      BY <3>1, <3>2
  <2>3. nothing \o asked \in Seq(AllMiddleware)
    BY <1>2, ConcatProperties
  <2>4. Starts(asked, nothing)
    BY <1>2, StartsAsItself
  <2>5. nothing # <<>> => adapter = "nethttp" /\ groups[g].parent > 1
    OBVIOUS
  <2> HIDE DEF nothing, asked
  <2>6. Applied(nothing \o asked, asked, groups[g].parent, adapter)
    BY <1>1, <1>2, <2>4, <2>5, AppliedTwice
  <2> QED
    BY <2>2, <2>3, <2>6 DEF asked
<1>4. CASE groups[g].parent # 0
  <2> DEFINE early == groups[groups[g].parent].own
  <2>1. /\ adapter = "nethttp" /\ groups[g].parent \in 1..Len(groups) /\ g # 1
        /\ Starts(groups[g].own, early)
    BY <1>4 DEF GroupInv, Inherits
  <2>2. early \in Seq(AllMiddleware) /\ (early # <<>> => groups[g].parent > 1)
    BY <2>1, GroupsAndRoutes DEF GroupInv, Inherits, GroupType
  <2>3. asked = groups[g].own
    BY <1>1, <2>1 DEF AskedOf
  <2>4. early \o groups[g].own \in Seq(AllMiddleware)
    BY <1>1, <2>2, ConcatProperties
  <2>5. AppHandle(g) = early \o asked
    <3>1. AdapterHandle(g) = early \o groups[g].own
      BY <1>1, <1>4, <2>1 DEF AdapterHandle, NetHTTPSubHandle
    <3> DEFINE chain == early \o groups[g].own
    <3> HIDE DEF chain
    <3>2. chain \o <<>> = chain
      BY <2>4, ConcatEmptySeq DEF chain
    <3>3. AppHandle(g) = chain \o <<>>
      BY <2>1, <3>1 DEF AppHandle, chain
    <3> QED
      BY <2>3, <3>2, <3>3 DEF chain
  <2> HIDE DEF early, asked
  <2>6. Applied(early \o asked, asked, groups[g].parent, adapter)
    BY <1>1, <1>2, <2>1, <2>2, <2>3, AppliedTwice
  <2> QED
    BY <2>3, <2>4, <2>5, <2>6 DEF asked
<1> QED
  BY <1>3, <1>4

-----------------------------------------------------------------------------
(* New groups and new routes keep the invariant.                            *)

LEMMA InheritsStill ==
  ASSUME NEW v, NEW all, NEW more, NEW a, Inherits(v, all, a),
         Len(all) \in Nat, Len(more) \in Nat, Len(all) <= Len(more),
         \A g \in 1..Len(all) : more[g].own = all[g].own
  PROVE  Inherits(v, more, a)
BY DEF Inherits

LEMMA GroupAdded ==
  ASSUME RoutingInv, NEW new, NewGroup(new), groups' = Append(groups, new),
         UNCHANGED <<adapter, globals, routes>>
  PROVE  RoutingInv'
<1> DEFINE n == Len(groups)
<1>1. /\ n \in Nat /\ n > 0 /\ new \in GroupType /\ groups \in Seq(GroupType)
      /\ \A i \in 1..Len(routes) : routes[i].via \in 1..n
  BY GroupsAndRoutes DEF RoutingInv, RoutingTypes, GroupInv, NewGroup
<1>2. /\ groups' \in Seq(GroupType) /\ Len(groups') = n + 1
      /\ \A g \in 1..n : groups'[g] = groups[g]
      /\ groups'[n + 1] = new
  BY <1>1, AppendProperties
<1> HIDE DEF n
<1>3. RoutingTypes'
  BY <1>1, <1>2 DEF RoutingInv, RoutingTypes, n
<1>4. GroupInv'
  <2>1. ASSUME NEW g \in 1..n + 1
        PROVE  Inherits(groups'[g], groups', adapter)
    <3>1. /\ Len(groups) \in Nat /\ Len(groups') \in Nat /\ Len(groups) <= Len(groups')
          /\ \A h \in 1..Len(groups) : groups'[h].own = groups[h].own
      BY <1>1, <1>2 DEF n
    <3>2. Inherits(groups'[g], groups, adapter)
      <4>1. CASE g \in 1..n
        <5>1. Inherits(groups[g], groups, adapter)
          BY <4>1 DEF RoutingInv, GroupInv, n
        <5>2. groups'[g] = groups[g]
          BY <1>2, <4>1
        <5> QED
          BY <5>1, <5>2, Zenon
      <4>2. CASE g = n + 1
        <5>1. Inherits(new, groups, adapter)
          BY DEF NewGroup
        <5>2. groups'[g] = new
          BY <1>2, <4>2
        <5> QED
          BY <5>1, <5>2, Zenon
      <4>3. g \in 1..n \/ g = n + 1
        BY <1>1
      <4> QED
        BY <4>1, <4>2, <4>3, Zenon
    <3> QED
      BY <3>1, <3>2, InheritsStill, Zenon
  <2>2. groups'[1] = groups[1] /\ n + 1 > 0
    BY <1>1, <1>2
  <2> QED
    BY <1>2, <2>1, <2>2 DEF GroupInv, RoutingInv
<1>5. ChainInv'
  BY <1>1, <1>2 DEF RoutingInv, ChainInv
<1>6. ResourceInv'
  BY <1>1, <1>2 DEF RoutingInv, ResourceInv
<1> QED
  BY <1>3, <1>4, <1>5, <1>6 DEF RoutingInv

LEMMA ErrorHandlerSet ==
  ASSUME RoutingInv, groups' = [groups EXCEPT ![1].errs = TRUE],
         UNCHANGED <<adapter, globals, routes>>
  PROVE  RoutingInv'
<1> DEFINE first == [groups[1] EXCEPT !.errs = TRUE]
<1>1. /\ Len(groups) \in Nat /\ 1 \in 1..Len(groups) /\ groups[1] \in GroupType
      /\ groups \in Seq(GroupType)
      /\ \A i \in 1..Len(routes) : routes[i].via \in 1..Len(groups)
  BY GroupsAndRoutes DEF RoutingInv, RoutingTypes, GroupInv
<1>2. /\ first \in GroupType /\ first.own = groups[1].own /\ first.asked = groups[1].asked
      /\ first.parent = groups[1].parent /\ first.prefix = groups[1].prefix
  BY <1>1 DEF GroupType
<1> DEFINE after == [groups EXCEPT ![1] = first]
<1>3. groups' = after
  OBVIOUS
<1> HIDE DEF first
<1>10. /\ after \in Seq(GroupType) /\ Len(after) = Len(groups)
       /\ \A g \in 1..Len(groups) : after[g] = IF g = 1 THEN first ELSE groups[g]
  BY <1>1, <1>2, ExceptSeq
<1> HIDE DEF after
<1>4. /\ groups' \in Seq(GroupType) /\ Len(groups') = Len(groups)
      /\ \A g \in 1..Len(groups) : groups'[g] = IF g = 1 THEN first ELSE groups[g]
  BY <1>3, <1>10, Zenon
<1>5. \A g \in 1..Len(groups) :
        /\ groups'[g].own = groups[g].own /\ groups'[g].asked = groups[g].asked
        /\ groups'[g].parent = groups[g].parent /\ groups'[g].prefix = groups[g].prefix
  BY <1>2, <1>4
<1>6. RoutingTypes'
  BY <1>1, <1>4 DEF RoutingInv, RoutingTypes
<1>7. GroupInv'
  <2>1. ASSUME NEW g \in 1..Len(groups)
        PROVE  Inherits(groups'[g], groups', adapter)
    <3>1. Inherits(groups[g], groups, adapter)
      BY DEF RoutingInv, GroupInv
    <3>2. Inherits(groups'[g], groups, adapter)
      BY <1>5, <3>1 DEF Inherits
    <3>3. /\ Len(groups) \in Nat /\ Len(groups') \in Nat /\ Len(groups) <= Len(groups')
          /\ \A h \in 1..Len(groups) : groups'[h].own = groups[h].own
      BY <1>1, <1>4, <1>5
    <3> QED
      BY <3>2, <3>3, InheritsStill, Zenon
  <2> QED
    BY <1>1, <1>4, <1>5, <2>1 DEF RoutingInv, GroupInv
<1>8. ChainInv'
  BY <1>1, <1>5 DEF RoutingInv, ChainInv, AskedOf
<1>9. ResourceInv'
  BY <1>1, <1>5 DEF RoutingInv, ResourceInv
<1> QED
  BY <1>6, <1>7, <1>8, <1>9 DEF RoutingInv

(* The routes a registration adds on group g: each with the group's chain,  *)
(* those of a resource ordered and of none that was registered.             *)
NewRoutes(added, g) ==
  /\ added \in Seq(RouteType)
  /\ \A i \in 1..Len(added) : added[i].via = g /\ added[i].chain = AppHandle(g)
  /\ \A i \in 1..Len(added), j \in 1..Len(routes) :
       added[i].of # <<>> => routes[j].of # added[i].of
  /\ \A i, j \in 1..Len(added) :
       i < j /\ added[i].of = added[j].of /\ added[i].of # <<>> =>
         Ordered(added[i], added[j], groups[g].prefix)

LEMMA RoutesAdded ==
  ASSUME RoutingInv, NEW g \in 1..Len(groups), NEW added, NewRoutes(added, g),
         routes' = routes \o added, UNCHANGED <<adapter, globals, groups>>
  PROVE  RoutingInv'
<1> DEFINE n == Len(routes)
           m == Len(added)
<1>1. /\ n \in Nat /\ m \in Nat /\ routes \in Seq(RouteType) /\ added \in Seq(RouteType)
      /\ \A i \in 1..n : routes[i].via \in 1..Len(groups)
      /\ \A i \in 1..m : added[i].via = g
  BY GroupsAndRoutes, LenProperties DEF RoutingInv, RoutingTypes, NewRoutes
<1>2. /\ routes' \in Seq(RouteType) /\ Len(routes') = n + m
      /\ \A i \in 1..n + m : routes'[i] = IF i <= n THEN routes[i] ELSE added[i - n]
  BY <1>1, ConcatProperties
<1>3. ASSUME NEW i \in 1..n + m
      PROVE  \/ i \in 1..n /\ routes'[i] = routes[i]
             \/ i > n /\ i - n \in 1..m /\ routes'[i] = added[i - n]
  <2> HIDE DEF n, m
  <2>1. i <= n => i \in 1..n
    BY <1>1
  <2>2. ~(i <= n) => i > n /\ i - n \in 1..m
    BY <1>1
  <2>3. routes'[i] = IF i <= n THEN routes[i] ELSE added[i - n]
    BY <1>2
  <2> QED
    BY <2>1, <2>2, <2>3, Zenon
<1> HIDE DEF n, m
<1>4. RoutingTypes'
  <2>1. \A i \in 1..n + m : routes'[i].via \in 1..Len(groups)
    BY <1>1, <1>3
  <2> QED
    BY <1>2, <2>1 DEF RoutingInv, RoutingTypes
<1>5. GroupInv'
  BY DEF RoutingInv, GroupInv
<1>6. ChainInv'
  <2>1. ASSUME NEW i \in 1..n + m
        PROVE  LET h == routes'[i].via
               IN  Applied(routes'[i].chain, AskedOf(groups[h], h, globals), groups[h].parent, adapter)
    <3>1. CASE i \in 1..n /\ routes'[i] = routes[i]
      BY <3>1 DEF RoutingInv, ChainInv, n
    <3>2. CASE i - n \in 1..m /\ routes'[i] = added[i - n]
      BY <1>1, <3>2, AppHandleFacts DEF RoutingInv, NewRoutes, m
    <3> QED
      BY <1>3, <3>1, <3>2
  <2> QED
    BY <1>2, <2>1 DEF ChainInv
<1>7. ResourceInv'
  <2>1. ASSUME NEW i \in 1..n + m, NEW j \in 1..n + m, i < j,
               routes'[i].of = routes'[j].of, routes'[i].of # <<>>
        PROVE  /\ routes'[i].via = routes'[j].via
               /\ Ordered(routes'[i], routes'[j], groups'[routes'[i].via].prefix)
    <3>1. CASE i \in 1..n /\ j \in 1..n /\ routes'[i] = routes[i] /\ routes'[j] = routes[j]
      BY <2>1, <3>1 DEF RoutingInv, ResourceInv, n
    <3>2. CASE i \in 1..n /\ routes'[i] = routes[i] /\ j - n \in 1..m /\ routes'[j] = added[j - n]
      BY <2>1, <3>2 DEF NewRoutes, n, m
    <3>3. CASE i > n /\ i - n \in 1..m /\ j - n \in 1..m
               /\ routes'[i] = added[i - n] /\ routes'[j] = added[j - n]
      <4>1. i - n < j - n
        BY <1>1, <2>1
      <4> QED
        BY <1>1, <2>1, <3>3, <4>1 DEF NewRoutes, m
    <3> QED
      <4>1. ~(i > n /\ j \in 1..n)
        BY <1>1, <2>1
      <4> QED
        BY <1>3, <3>1, <3>2, <3>3, <4>1
  <2> QED
    BY <1>2, <2>1, Zenon DEF ResourceInv
<1> QED
  BY <1>4, <1>5, <1>6, <1>7 DEF RoutingInv

-----------------------------------------------------------------------------
(* What resources.Register registers.                                       *)

OperationType == [op : OperationNames \cup {"Alias"}, method : Methods, tail : Patterns]

LEMMA TwoMembers ==
  ASSUME NEW S, NEW x \in S, NEW y \in S
  PROVE  <<x, y>> \in Seq(S)
OBVIOUS

LEMMA OperationTypes ==
  \A k \in 1..8 : Operations[k] \in OperationType
<1> DEFINE new == <<"new">>
           edit == <<Param, "edit">>
           empty == <<>>
           param == <<Param>>
<1>1. new \in Patterns /\ edit \in Patterns /\ empty \in Patterns /\ param \in Patterns
  <2>1. "new" \in Segments /\ Param \in Segments /\ "edit" \in Segments
    BY InputAssumption
  <2> QED
    BY <2>1, OneMember, TwoMembers, EmptySeq DEF Patterns
<1>2. /\ Operations[1] = [op |-> "New", method |-> "GET", tail |-> new]
      /\ Operations[2] = [op |-> "Edit", method |-> "GET", tail |-> edit]
      /\ Operations[3] = [op |-> "List", method |-> "GET", tail |-> empty]
      /\ Operations[4] = [op |-> "Create", method |-> "POST", tail |-> empty]
      /\ Operations[5] = [op |-> "Show", method |-> "GET", tail |-> param]
      /\ Operations[6] = [op |-> "Update", method |-> "PUT", tail |-> param]
      /\ Operations[7] = [op |-> "Alias", method |-> "PATCH", tail |-> param]
      /\ Operations[8] = [op |-> "Destroy", method |-> "DELETE", tail |-> param]
  BY DEF Operations
<1> HIDE DEF new, edit, empty, param
<1>3. \A k \in 1..8 : k \in {1, 2, 3, 4, 5, 6, 7, 8}
  OBVIOUS
<1> QED
  BY <1>1, <1>2, <1>3 DEF OperationType, OperationNames, Methods

(* Two operations of one method that paths of one length match are New and  *)
(* Show.                                                                    *)
LEMMA SameMethod ==
  ASSUME NEW k \in 1..8, NEW l \in 1..8, k < l,
         Operations[k].method = Operations[l].method,
         Len(Operations[k].tail) = Len(Operations[l].tail)
  PROVE  Operations[k].tail = <<"new">> /\ Operations[l].tail = <<Param>>
<1> DEFINE method(o) == Operations[o].method
           length(o) == Len(Operations[o].tail)
<1>1. /\ method(1) = "GET" /\ method(2) = "GET" /\ method(3) = "GET" /\ method(4) = "POST"
      /\ method(5) = "GET" /\ method(6) = "PUT" /\ method(7) = "PATCH" /\ method(8) = "DELETE"
  BY DEF Operations
<1>2. length(1) = 1 /\ length(2) = 2 /\ length(3) = 0 /\ length(5) = 1
  <2>1. Len(<<>>) = 0
    BY EmptySeq
  <2> QED
    BY <2>1 DEF Operations
<1>3. method(k) = method(l) /\ length(k) = length(l)
  OBVIOUS
<1> HIDE DEF method, length
<1>4. k = 1 /\ l = 5
  <2>1. k \in {1, 2, 3, 4, 5, 6, 7, 8} /\ l \in {1, 2, 3, 4, 5, 6, 7, 8}
    OBVIOUS
  <2> QED
    BY <1>1, <1>2, <1>3, <2>1
<1> QED
  BY <1>4 DEF Operations

(* Sequences of operations in the order of Operations.                      *)
Ascends(s, m) ==
  /\ s \in Seq(OperationType)
  /\ \A i \in 1..Len(s) : \E k \in 1..m : s[i] = Operations[k]
  /\ \A i, j \in 1..Len(s) :
       i < j => \E k \in 1..m, l \in 1..m :
                  k < l /\ s[i] = Operations[k] /\ s[j] = Operations[l]

LEMMA AscendsFurther ==
  ASSUME NEW m \in 0..7, NEW s, Ascends(s, m), NEW r
  PROVE  Ascends(s \o Entry(r, m + 1), m + 1)
<1> DEFINE o == Operations[m + 1]
           e == Entry(r, m + 1)
           n == Len(s)
<1>1. o \in OperationType /\ s \in Seq(OperationType) /\ n \in Nat
  BY OperationTypes, LenProperties DEF Ascends
<1>2. /\ \A i \in 1..n : \E k \in 1..m : s[i] = Operations[k]
      /\ \A i, j \in 1..n :
           i < j => \E k \in 1..m, l \in 1..m :
                      k < l /\ s[i] = Operations[k] /\ s[j] = Operations[l]
  BY DEF Ascends
<1>3. CASE e = <<>>
  <2>1. s \o e = s
    BY <1>1, <1>3, ConcatEmptySeq
  <2>2. 1..m \subseteq 1..m + 1
    OBVIOUS
  <2>3. ASSUME NEW i \in 1..n
        PROVE  \E k \in 1..m + 1 : s[i] = Operations[k]
    <3>1. PICK k \in 1..m : s[i] = Operations[k]
      BY <1>2
    <3> QED
      BY <2>2, <3>1
  <2>4. ASSUME NEW i \in 1..n, NEW j \in 1..n, i < j
        PROVE  \E k \in 1..m + 1, l \in 1..m + 1 :
                 k < l /\ s[i] = Operations[k] /\ s[j] = Operations[l]
    <3>1. PICK k \in 1..m, l \in 1..m : k < l /\ s[i] = Operations[k] /\ s[j] = Operations[l]
      BY <1>2, <2>4
    <3>2. k \in 1..m + 1 /\ l \in 1..m + 1
      BY <2>2
    <3> QED
      BY <3>1, <3>2
  <2>5. Ascends(s, m + 1)
    BY <1>1, <2>3, <2>4, Zenon DEF Ascends
  <2> HIDE DEF e
  <2>6. Ascends(s \o e, m + 1)
    BY <2>1, <2>5, Zenon
  <2> QED
    BY <2>6 DEF e
<1>4. CASE e = <<o>>
  <2> HIDE DEF o
  <2> DEFINE t == s \o <<o>>
  <2>1. /\ <<o>> \in Seq(OperationType) /\ Len(<<o>>) = 1 /\ <<o>>[1] = o
    BY <1>1, OneMember
  <2>2. /\ t \in Seq(OperationType) /\ Len(t) = n + 1
        /\ \A i \in 1..n : t[i] = s[i]
        /\ t[n + 1] = o
    BY <1>1, <2>1, ConcatProperties
  <2> HIDE DEF t, n
  <2>3. ASSUME NEW i \in 1..n + 1
        PROVE  \E k \in 1..m + 1 : t[i] = Operations[k]
    <3>1. CASE i \in 1..n
      <4>1. PICK k \in 1..m : s[i] = Operations[k]
        BY <1>2, <3>1
      <4>2. k \in 1..m + 1
        OBVIOUS
      <4> QED
        BY <2>2, <3>1, <4>1, <4>2
    <3>2. CASE i = n + 1
      <4>1. m + 1 \in 1..m + 1
        OBVIOUS
      <4> QED
        BY <2>2, <3>2, <4>1 DEF o
    <3> QED
      BY <1>1, <3>1, <3>2
  <2>4. ASSUME NEW i \in 1..n + 1, NEW j \in 1..n + 1, i < j
        PROVE  \E k \in 1..m + 1, l \in 1..m + 1 :
                 k < l /\ t[i] = Operations[k] /\ t[j] = Operations[l]
    <3>1. i \in 1..n
      BY <1>1, <2>4
    <3>2. CASE j \in 1..n
      <4>1. PICK k \in 1..m, l \in 1..m : k < l /\ s[i] = Operations[k] /\ s[j] = Operations[l]
        BY <1>2, <2>4, <3>1, <3>2
      <4>2. k \in 1..m + 1 /\ l \in 1..m + 1
        OBVIOUS
      <4> QED
        BY <2>2, <3>1, <3>2, <4>1, <4>2
    <3>3. CASE j = n + 1
      <4>1. PICK k \in 1..m : s[i] = Operations[k]
        BY <1>2, <3>1
      <4>2. k \in 1..m + 1 /\ m + 1 \in 1..m + 1 /\ k < m + 1
        OBVIOUS
      <4> QED
        BY <2>2, <3>1, <3>3, <4>1, <4>2 DEF o
    <3> QED
      BY <1>1, <3>2, <3>3
  <2>5. Ascends(t, m + 1)
    BY <2>2, <2>3, <2>4 DEF Ascends
  <2>6. t = s \o e
    BY <1>4 DEF t
  <2> HIDE DEF e
  <2>7. Ascends(s \o e, m + 1)
    BY <2>5, <2>6, Zenon
  <2> QED
    BY <2>7 DEF e
<1> QED
  BY <1>3, <1>4 DEF Entry

LEMMA AscendsShorter ==
  ASSUME NEW s, Ascends(s, 8), NEW n \in 0..Len(s)
  PROVE  Ascends(SubSeq(s, 1, n), 8)
<1> DEFINE t == SubSeq(s, 1, n)
<1>1. s \in Seq(OperationType) /\ Len(s) \in Nat /\ n \in Int /\ n <= Len(s) /\ 1 \in Int
      /\ \A i \in 1..n : s[i] \in OperationType
  BY LenProperties, ElementOfSeq DEF Ascends
<1>2. t \in Seq(OperationType) /\ Len(t) = n /\ \A i \in 1..n : t[i] = s[i]
  BY <1>1, SubSeqProperties
<1> HIDE DEF t
<1>3. 1..n \subseteq 1..Len(s)
  BY <1>1
<1>4. Ascends(t, 8)
  <2>1. ASSUME NEW i \in 1..n
        PROVE  \E k \in 1..8 : t[i] = Operations[k]
    <3>1. i \in 1..Len(s) /\ t[i] = s[i]
      BY <1>2, <1>3
    <3>2. \E k \in 1..8 : s[i] = Operations[k]
      BY <3>1, Zenon DEF Ascends
    <3> QED
      BY <3>1, <3>2, Zenon
  <2>2. ASSUME NEW i \in 1..n, NEW j \in 1..n, i < j
        PROVE  \E k \in 1..8, l \in 1..8 : k < l /\ t[i] = Operations[k] /\ t[j] = Operations[l]
    <3>1. \E k \in 1..8, l \in 1..8 : k < l /\ s[i] = Operations[k] /\ s[j] = Operations[l]
      BY <1>3, <2>2 DEF Ascends
    <3> QED
      BY <1>2, <3>1
  <2> QED
    BY <1>2, <2>1, <2>2 DEF Ascends
<1> QED
  BY <1>4 DEF t

-----------------------------------------------------------------------------
(* Least and greatest numbers of a set.                                     *)

LEMMA LeastNumber ==
  ASSUME NEW S \in SUBSET Nat, S # {}
  PROVE  \E n \in S : \A m \in S : n <= m
<1>1. IsWellFoundedOn(OpToRel(<, Nat), Nat)
  BY NatLessThanWellFounded
<1>2. PICK n \in S : \A m \in S : ~(<<m, n>> \in OpToRel(<, Nat))
  BY <1>1, WFMin
<1>3. \A m \in S : ~(m < n)
  BY <1>2 DEF OpToRel
<1> QED
  BY <1>3

LEMMA MinIsLeast ==
  ASSUME NEW S \in SUBSET Nat, S # {}
  PROVE  Min(S) \in S /\ \A m \in S : Min(S) <= m
BY LeastNumber DEF Min

LEMMA MaxIsMember ==
  ASSUME NEW n \in Nat, NEW S \in SUBSET (1..n), S # {}
  PROVE  Max(S) \in S
<1> DEFINE mirror == {d \in Nat : n - d \in S}
<1>1. mirror # {}
  <2>1. PICK m \in S : TRUE
    OBVIOUS
  <2>2. n - m \in Nat /\ n - (n - m) = m
    OBVIOUS
  <2> QED
    BY <2>1, <2>2
<1>2. PICK d \in mirror : \A c \in mirror : d <= c
  BY <1>1, LeastNumber
<1>3. ASSUME NEW m \in S
      PROVE  n - d >= m
  <2>1. n - m \in Nat /\ n - (n - m) = m
    OBVIOUS
  <2>2. n - m \in mirror
    BY <2>1
  <2>3. d <= n - m
    BY <1>2, <2>2
  <2> QED
    BY <2>1, <2>3
<1>4. n - d \in S
  BY <1>2
<1> QED
  BY <1>3, <1>4 DEF Max

LEMMA EntriesAscend ==
  ASSUME NEW r
  PROVE  Ascends(Entries(r), 8)
<1> DEFINE s1 == Entry(r, 1)
           s2 == s1 \o Entry(r, 2)
           s3 == s2 \o Entry(r, 3)
           s4 == s3 \o Entry(r, 4)
           s5 == s4 \o Entry(r, 5)
           s6 == s5 \o Entry(r, 6)
           s7 == s6 \o Entry(r, 7)
           wanted == s7 \o Entry(r, 8)
           bad == {i \in DOMAIN wanted : Refused(r, wanted[i])}
<1>1. Entries(r) = IF bad = {} THEN wanted ELSE SubSeq(wanted, 1, Min(bad) - 1)
  BY DEF Entries
<1>2. Ascends(s1, 1)
  <2> DEFINE o == Operations[1]
  <2>1. o \in OperationType
    BY OperationTypes
  <2> HIDE DEF o
  <2>2. <<o>> \in Seq(OperationType) /\ Len(<<o>>) = 1 /\ <<o>>[1] = o
    BY <2>1, OneMember
  <2>3. Ascends(<<o>>, 1)
    BY <2>2 DEF Ascends, o
  <2>4. Ascends(<<>>, 1)
    <3> DEFINE empty == <<>>
    <3>1. empty \in Seq(OperationType) /\ Len(empty) = 0
      BY EmptySeq
    <3> HIDE DEF empty
    <3>2. Ascends(empty, 1)
      BY <3>1 DEF Ascends
    <3> QED
      BY <3>2 DEF empty
  <2> QED
    BY <2>3, <2>4 DEF Entry, o
<1> HIDE DEF s1
<1>3. Ascends(s2, 2)
  BY <1>2, AscendsFurther
<1> HIDE DEF s2
<1>4. Ascends(s3, 3)
  BY <1>3, AscendsFurther
<1> HIDE DEF s3
<1>5. Ascends(s4, 4)
  BY <1>4, AscendsFurther
<1> HIDE DEF s4
<1>6. Ascends(s5, 5)
  BY <1>5, AscendsFurther
<1> HIDE DEF s5
<1>7. Ascends(s6, 6)
  BY <1>6, AscendsFurther
<1> HIDE DEF s6
<1>8. Ascends(s7, 7)
  BY <1>7, AscendsFurther
<1> HIDE DEF s7
<1>9. Ascends(wanted, 8)
  BY <1>8, AscendsFurther
<1> HIDE DEF wanted
<1>10. Len(wanted) \in Nat /\ bad \subseteq 1..Len(wanted)
  BY <1>9, LenProperties DEF Ascends
<1> HIDE DEF bad
<1>11. CASE bad # {}
  <2> DEFINE k == Min(bad)
  <2>1. k \in bad
    BY <1>10, <1>11, MinIsLeast
  <2> HIDE DEF k
  <2>3. k - 1 \in 0..Len(wanted)
    BY <1>10, <2>1
  <2>2. Min(bad) - 1 \in 0..Len(wanted)
    BY <2>3 DEF k
  <2> QED
    BY <1>1, <1>9, <1>11, <2>2, AscendsShorter
<1> QED
  BY <1>1, <1>9, <1>11

-----------------------------------------------------------------------------
(* Every registration keeps the invariant.                                  *)

RouteOf(route, g, method, pattern, of) ==
  /\ route \in RouteType /\ route.via = g /\ route.chain = AppHandle(g)
  /\ route.of = of /\ route.method = method
  /\ route.pattern = groups[g].prefix \o pattern

LEMMA RouteFacts ==
  ASSUME RoutingInv, NEW g \in 1..Len(groups), NEW method \in Methods,
         NEW pattern \in Patterns, NEW of \in Patterns, NEW name \in RouteNames,
         NEW route, route = Route(g, method, pattern, of, name)
  PROVE  RouteOf(route, g, method, pattern, of)
<1> DEFINE chain == AppHandle(g)
           whole == groups[g].prefix \o pattern
<1>1. chain \in Seq(AllMiddleware) /\ g \in Nat
  BY AppHandleFacts, GroupsAndRoutes DEF RoutingInv
<1>2. whole \in Patterns
  BY GroupsAndRoutes, ConcatProperties DEF RoutingInv, GroupType, Patterns
<1>3. route
        = [method |-> method, pattern |-> whole, via |-> g, chain |-> chain, of |-> of,
           name |-> name]
  BY DEF Route
<1> HIDE DEF chain, whole
<1> QED
  BY <1>1, <1>2, <1>3 DEF RouteType, RouteOf, chain, whole

LEMMA RegisterStep ==
  ASSUME RoutingInv, NEW g \in 1..Len(groups), NEW r \in Resources, Register(g, r)
  PROVE  RoutingInv'
<1> DEFINE entries == Entries(r)
           n == Len(entries)
           tail(i) == r.path \o entries[i].tail
           name(i) == IF entries[i].op \in r.ops \cup {"Alias"} THEN entries[i].op ELSE "Default405"
           route(i) == Route(g, entries[i].method, tail(i), r.path, name(i))
           new == [i \in DOMAIN entries |-> route(i)]
           hit == {i \in DOMAIN new : Collides(new[i])}
           added == IF hit # {} THEN SubSeq(new, 1, Min(hit) - 1) ELSE new
<1>1. /\ UNCHANGED <<adapter, globals, groups>> /\ routes' = routes \o added
      /\ \A i \in DOMAIN routes : routes[i].of # r.path
  BY DEF Register
<1>2. Ascends(entries, 8)
  BY EntriesAscend
<1> HIDE DEF entries
<1>3. /\ n \in Nat /\ DOMAIN entries = 1..n
      /\ \A i \in 1..n : entries[i] \in OperationType
  BY <1>2, LenProperties, ElementOfSeq DEF Ascends
<1>4. r.path \in Patterns
  BY InputAssumption
<1>5. ASSUME NEW i \in 1..n
      PROVE  /\ route(i) \in RouteType /\ route(i).via = g /\ route(i).chain = AppHandle(g)
             /\ route(i).of = r.path /\ route(i).method = entries[i].method
             /\ route(i).pattern = groups[g].prefix \o (r.path \o entries[i].tail)
  <2>1. entries[i].method \in Methods /\ entries[i].tail \in Patterns
        /\ entries[i].op \in OperationNames \cup {"Alias"}
    BY <1>3 DEF OperationType
  <2>2. tail(i) \in Patterns
    BY <1>4, <2>1, ConcatProperties DEF Patterns
  <2>3. name(i) \in RouteNames
    BY <2>1 DEF RouteNames
  <2> DEFINE t == tail(i)
             m == name(i)
             e == entries[i].method
             of == r.path
             x == route(i)
  <2>4. x = Route(g, e, t, of, m)
    OBVIOUS
  <2>5. t \in Patterns /\ m \in RouteNames /\ e \in Methods /\ of \in Patterns
    BY <1>4, <2>1, <2>2, <2>3
  <2>6. t = r.path \o entries[i].tail
    OBVIOUS
  <2> HIDE DEF t, m, e, of, x, route
  <2>7. RouteOf(x, g, e, t, of)
    BY <2>4, <2>5, RouteFacts, Zenon
  <2> QED
    BY <2>6, <2>7, Zenon DEF RouteOf, x, e, of
<1> HIDE DEF route
<1>6. new \in Seq(RouteType) /\ Len(new) = n /\ \A i \in 1..n : new[i] = route(i)
  <2>1. new \in [1..n -> RouteType] /\ \A i \in 1..n : new[i] = route(i)
    BY <1>3, <1>5
  <2>2. new \in Seq(RouteType)
    BY <1>3, <2>1, SeqDef
  <2> HIDE DEF new
  <2>3. 1..Len(new) = 1..n /\ Len(new) \in Nat
    BY <2>1, <2>2, LenProperties
  <2> QED
    BY <1>3, <2>1, <2>2, <2>3
<1> HIDE DEF new
<1>7. /\ added \in Seq(RouteType) /\ Len(added) \in 0..n
      /\ \A i \in 1..Len(added) : added[i] = route(i)
  <2>1. CASE hit = {}
    BY <1>3, <1>6, <2>1
  <2>2. CASE hit # {}
    <3> DEFINE k == Min(hit)
    <3>1. hit \subseteq 1..n
      BY <1>6, LenProperties
    <3>2. k \in hit
      BY <1>3, <2>2, <3>1, MinIsLeast
    <3>3. added = SubSeq(new, 1, k - 1)
      BY <2>2
    <3> HIDE DEF k, hit, added
    <3>4. k \in 1..n /\ k - 1 \in Int /\ 1 \in Int /\ (k - 1) - 1 + 1 = k - 1
      BY <3>1, <3>2
    <3>5. \A i \in 1..k - 1 : new[i] \in RouteType
      BY <1>3, <1>6, <3>4, ElementOfSeq
    <3> DEFINE part == SubSeq(new, 1, k - 1)
    <3>6. /\ part \in Seq(RouteType) /\ Len(part) = k - 1
          /\ \A i \in 1..k - 1 : part[i] = new[i]
      BY <3>4, <3>5, SubSeqProperties
    <3>7. added = part
      BY <3>3
    <3> HIDE DEF part
    <3> QED
      BY <1>3, <1>6, <3>4, <3>6, <3>7
  <2> QED
    BY <2>1, <2>2
<1> HIDE DEF added, hit
<1>8. \A i \in 1..Len(added) : i \in 1..n
  BY <1>3, <1>7
<1>9. \A i \in 1..Len(added) : added[i].via = g /\ added[i].chain = AppHandle(g)
  BY <1>5, <1>7, <1>8
<1>10. \A i \in 1..Len(added), j \in 1..Len(routes) : routes[j].of # added[i].of
  <2>1. DOMAIN routes = 1..Len(routes)
    BY GroupsAndRoutes DEF RoutingInv
  <2> QED
    BY <1>1, <1>5, <1>7, <1>8, <2>1
<1>11. ASSUME NEW i \in 1..Len(added), NEW j \in 1..Len(added), i < j
       PROVE  Ordered(added[i], added[j], groups[g].prefix)
  <2>1. PICK k \in 1..8, l \in 1..8 : k < l /\ entries[i] = Operations[k] /\ entries[j] = Operations[l]
    BY <1>2, <1>8, <1>11 DEF Ascends
  <2> DEFINE prefix == groups[g].prefix
             a == added[i]
             b == added[j]
  <2>2. /\ a.of = r.path /\ a.method = entries[i].method
        /\ a.pattern = prefix \o (r.path \o entries[i].tail)
        /\ b.of = r.path /\ b.method = entries[j].method
        /\ b.pattern = prefix \o (r.path \o entries[j].tail)
    BY <1>5, <1>7, <1>8
  <2> HIDE DEF prefix, a, b
  <2>3. IsOperation(a, prefix, k) /\ IsOperation(b, prefix, l)
    BY <2>1, <2>2, Zenon DEF IsOperation
  <2>4. Ordered(a, b, prefix)
    BY <2>1, <2>3, Zenon DEF Ordered
  <2> QED
    BY <2>4 DEF a, b, prefix
<1>12. NewRoutes(added, g)
  BY <1>7, <1>9, <1>10, <1>11, Zenon DEF NewRoutes
<1> QED
  BY <1>1, <1>12, RoutesAdded

LEMMA SameRouting ==
  ASSUME RoutingInv, UNCHANGED <<adapter, globals, groups, routes>>
  PROVE  RoutingInv'
BY DEF RoutingInv, RoutingTypes, GroupInv, ChainInv, ResourceInv

LEMMA HandleStep ==
  ASSUME RoutingInv, NEW g \in 1..Len(groups), NEW d \in Direct, Handle(g, d[1], d[2])
  PROVE  RoutingInv'
<1> DEFINE empty == <<>>
           name == "Direct"
           entry == Route(g, d[1], d[2], empty, name)
<1>1. /\ UNCHANGED <<adapter, globals, groups>>
      /\ routes' = routes \/ routes' = Append(routes, entry)
  BY DEF Handle
<1>2. d[1] \in Methods /\ d[2] \in Patterns
  BY InputAssumption
<1>3. empty \in Patterns /\ name \in RouteNames
  BY EmptySeq DEF Patterns, RouteNames
<1>4. entry \in RouteType /\ entry.via = g /\ entry.chain = AppHandle(g) /\ entry.of = <<>>
  <2> HIDE DEF empty, name
  <2>1. RouteOf(entry, g, d[1], d[2], empty)
    BY <1>2, <1>3, RouteFacts
  <2> HIDE DEF entry
  <2> QED
    BY <2>1, Zenon DEF RouteOf, empty
<1> HIDE DEF entry
<1>5. CASE routes' = routes
  BY <1>1, <1>5, SameRouting
<1>6. CASE routes' = Append(routes, entry)
  <2> DEFINE added == <<entry>>
  <2>1. added \in Seq(RouteType) /\ Len(added) = 1 /\ added[1] = entry
    BY <1>4, OneMember
  <2>2. routes \in Seq(RouteType)
    BY DEF RoutingInv, RoutingTypes
  <2>3. routes' = routes \o added
    BY <1>4, <1>6, <2>2, AppendIsConcat
  <2> HIDE DEF added
  <2>4. \A i \in 1..Len(added) : added[i] = entry
    BY <2>1
  <2>5. NewRoutes(added, g)
    BY <1>4, <2>1, <2>4, Zenon DEF NewRoutes
  <2> QED
    BY <1>1, <2>3, <2>5, RoutesAdded
<1> QED
  BY <1>1, <1>5, <1>6

LEMMA RoutingInitInv == RoutingInit => RoutingInv
<1> SUFFICES ASSUME RoutingInit PROVE RoutingInv
  OBVIOUS
<1> DEFINE empty == <<>>
<1>1. empty \in Patterns /\ empty \in Seq(AllMiddleware) /\ Len(empty) = 0
  BY EmptySeq DEF Patterns
<1>2. Root \in GroupType /\ Root.own = empty /\ Root.asked = empty /\ Root.parent = 0
  <2>1. Root = [prefix |-> empty, own |-> empty, errs |-> FALSE, parent |-> 0, asked |-> empty]
    BY DEF Root
  <2> HIDE DEF empty
  <2> QED
    BY <1>1, <2>1 DEF GroupType
<1>3. groups \in Seq(GroupType) /\ Len(groups) = 1 /\ groups[1] = Root
  BY <1>2, OneMember DEF RoutingInit
<1>4. routes \in Seq(RouteType) /\ Len(routes) = 0
  BY EmptySeq DEF RoutingInit
<1>5. RoutingTypes
  BY <1>3, <1>4 DEF RoutingInit, RoutingTypes
<1>6. GroupInv
  <2>1. \A g \in 1..1 : g = 1
    OBVIOUS
  <2> QED
    BY <1>2, <1>3, <2>1 DEF GroupInv, Inherits
<1> QED
  BY <1>4, <1>5, <1>6 DEF RoutingInv, ChainInv, ResourceInv

LEMMA RoutingStepInv == RoutingInv /\ [RoutingNext]_routingVars => RoutingInv'
<1> SUFFICES ASSUME RoutingInv, [RoutingNext]_routingVars
             PROVE  RoutingInv'
  OBVIOUS
<1>1. DOMAIN groups = 1..Len(groups) /\ 1 \in 1..Len(groups)
  BY GroupsAndRoutes DEF RoutingInv, GroupInv
<1>2. CASE SetErrorHandler
  BY <1>2, ErrorHandlerSet DEF SetErrorHandler
<1>3. CASE \E f \in Fallbacks : SetFallback(f)
  BY <1>3, SameRouting DEF SetFallback
<1>4. ASSUME NEW g \in DOMAIN groups, NEW p \in GroupPrefixes, Group(g, p)
      PROVE  RoutingInv'
  <2> DEFINE new == AppGroup(g, p)
  <2>1. NewGroup(new)
    BY <1>1, AppGroupFacts, InputAssumption DEF RoutingInv
  <2>2. groups' = Append(groups, new) /\ UNCHANGED <<adapter, globals, routes>>
    BY <1>4 DEF Group
  <2> HIDE DEF new
  <2> QED
    BY <2>1, <2>2, GroupAdded
<1>5. ASSUME NEW g \in DOMAIN groups, NEW mw \in Middleware, With(g, mw)
      PROVE  RoutingInv'
  <2> DEFINE new == AppWith(g, mw)
  <2>1. NewGroup(new)
    BY <1>1, AppWithFacts DEF RoutingInv
  <2>2. groups' = Append(groups, new) /\ UNCHANGED <<adapter, globals, routes>>
    BY <1>5 DEF With
  <2> HIDE DEF new
  <2> QED
    BY <2>1, <2>2, GroupAdded
<1>6. ASSUME NEW g \in DOMAIN groups, NEW d \in Direct, Handle(g, d[1], d[2])
      PROVE  RoutingInv'
  BY <1>1, <1>6, HandleStep
<1>7. ASSUME NEW g \in DOMAIN groups, NEW r \in Resources, Register(g, r)
      PROVE  RoutingInv'
  BY <1>1, <1>7, RegisterStep
<1>8. CASE UNCHANGED routingVars
  BY <1>8, SameRouting DEF routingVars
<1> QED
  BY <1>2, <1>3, <1>4, <1>5, <1>6, <1>7, <1>8 DEF RoutingNext

LEMMA RoutingInvariant == RoutingSpec => []RoutingInv
BY RoutingInitInv, RoutingStepInv, PTL DEF RoutingSpec

(* Whatever mixture of Group and With led to a route, it runs the global    *)
(* middlewares and those asked for, in order and once, but for net/http's   *)
(* sub-groups (the With, Group and Handle of the adapters, v2/app).         *)
THEOREM MiddlewareRunsOnce == RoutingSpec => []MiddlewareOnce
<1>1. RoutingInv => MiddlewareOnce
  <2> SUFFICES ASSUME RoutingInv PROVE MiddlewareOnce
    OBVIOUS
  <2>1. DOMAIN routes = 1..Len(routes)
    BY GroupsAndRoutes DEF RoutingInv
  <2> QED
    BY <2>1 DEF RoutingInv, ChainInv, Applied, AskedOf, MiddlewareOnce, Asked
<1> QED
  BY <1>1, RoutingInvariant, PTL

-----------------------------------------------------------------------------
(* What a request runs, in any state of the invariant.                      *)

(* p has a literal at position k, where it first differs from q.            *)
Above(p, q, k) ==
  /\ k \in DOMAIN p \cap DOMAIN q
  /\ p[k] # Param /\ q[k] = Param
  /\ \A j \in 1..(k - 1) : p[j] = q[j]

LEMMA RequestFacts ==
  ASSUME RoutingInv, NEW method, NEW path \in Patterns, NEW i \in OfRequest(method, path)
  PROVE  /\ i \in 1..Len(routes) /\ routes[i] \in RouteType /\ routes[i].method = method
         /\ routes[i].pattern \in Patterns /\ Len(routes[i].pattern) = Len(path)
         /\ DOMAIN routes[i].pattern = 1..Len(path)
<1>1. /\ i \in 1..Len(routes) /\ routes[i] \in RouteType
      /\ Matches(routes[i].pattern, path) /\ routes[i].method = method
  BY GroupsAndRoutes DEF RoutingInv, OfRequest, OfPath
<1>2. routes[i].pattern \in Patterns /\ Len(routes[i].pattern) = Len(path)
  BY <1>1 DEF RouteType, Matches
<1>3. DOMAIN routes[i].pattern = 1..Len(path)
  BY <1>2, LenProperties DEF Patterns
<1> QED
  BY <1>1, <1>2, <1>3

(* Of the routes a request matches some are the most specific: were there   *)
(* no best route up to some position, take the least such position; one     *)
(* that is best up to the position before it is beaten there by another,    *)
(* and that one is best.                                                    *)
LEMMA BestExists ==
  ASSUME RoutingInv, NEW method, NEW path \in Patterns, OfRequest(method, path) # {}
  PROVE  Best(method, path) # {} /\ Best(method, path) \subseteq OfRequest(method, path)
<1> DEFINE all == OfRequest(method, path)
           p(i) == routes[i].pattern
           n == Len(path)
           Good(k) == \E i \in all : \A j \in all : \A m \in 1..k : ~Above(p(j), p(i), m)
           bad == {k \in Nat : ~Good(k)}
<1>1. n \in Nat /\ \A i \in all : DOMAIN p(i) = 1..n
  BY RequestFacts, LenProperties DEF Patterns
<1>2. bad = {}
  <2> HIDE DEF all, p
  <2>1. SUFFICES ASSUME bad # {} PROVE FALSE
    OBVIOUS
  <2>2. PICK k \in bad : \A m \in bad : k <= m
    <3>1. bad \in SUBSET Nat
      OBVIOUS
    <3> HIDE DEF bad
    <3> QED
      BY <2>1, <3>1, LeastNumber
  <2>3. k # 0
    <3>1. Good(0)
      BY DEF all
    <3> QED
      BY <3>1
  <2>4. k - 1 \in Nat /\ k - 1 \notin bad
    <3>1. k \in Nat
      OBVIOUS
    <3>2. k - 1 \in Nat /\ ~(k <= k - 1)
      BY <2>3, <3>1
    <3> HIDE DEF bad
    <3> QED
      BY <2>2, <3>2
  <2>5. PICK i \in all : \A j \in all : \A m \in 1..k - 1 : ~Above(p(j), p(i), m)
    BY <2>4
  <2>6. PICK j \in all, m \in 1..k : Above(p(j), p(i), m)
    OBVIOUS
  <2>7. m = k
    BY <2>2, <2>5, <2>6
  <2>8. PICK l \in all, o \in 1..k : Above(p(l), p(j), o)
    OBVIOUS
  <2> HIDE DEF bad, Good
  <2>9. /\ p(j)[k] # Param /\ \A d \in 1..k - 1 : p(j)[d] = p(i)[d]
        /\ p(l)[o] # Param /\ p(j)[o] = Param /\ \A d \in 1..o - 1 : p(l)[d] = p(j)[d]
    BY <2>6, <2>7, <2>8 DEF Above
  <2>10. o \in 1..k - 1 /\ o \in 1..n /\ \A d \in 1..o - 1 : d \in 1..k - 1
    <3>1. o # k /\ o \in DOMAIN p(j)
      BY <2>8, <2>9 DEF Above
    <3>2. o \in 1..n
      BY <1>1, <3>1
    <3>3. k \in Nat
      BY DEF bad
    <3> QED
      BY <3>1, <3>2, <3>3
  <2>11. p(l)[o] # Param /\ p(i)[o] = Param /\ \A d \in 1..o - 1 : p(l)[d] = p(i)[d]
    BY <2>9, <2>10
  <2>12. Above(p(l), p(i), o)
    BY <1>1, <2>10, <2>11 DEF Above
  <2> QED
    BY <2>5, <2>10, <2>12
<1>3. PICK i \in all : \A j \in all : \A m \in 1..n : ~Above(p(j), p(i), m)
  BY <1>1, <1>2
<1>4. \A j \in all : ~MoreSpecific(p(j), p(i))
  BY <1>1, <1>3 DEF MoreSpecific, Above
<1>5. i \in Best(method, path)
  BY <1>4 DEF Best
<1> QED
  BY <1>5 DEF Best

LEMMA MatchedFacts ==
  ASSUME RoutingInv, NEW method, NEW path \in Patterns, OfRequest(method, path) # {}
  PROVE  Matched(method, path) \in OfRequest(method, path)
<1> DEFINE all == OfRequest(method, path)
           best == Best(method, path)
<1>1. best # {} /\ best \subseteq all /\ all # {} /\ all \subseteq 1..Len(routes) /\ Len(routes) \in Nat
  BY BestExists, RequestFacts, GroupsAndRoutes DEF RoutingInv
<1>2. Matched(method, path) = Min(all) \/ Matched(method, path) = Max(best)
  BY DEF Matched
<1> HIDE DEF all, best
<1>3. Min(all) \in all
  <2>1. all \in SUBSET Nat /\ all # {}
    BY <1>1
  <2> QED
    BY <2>1, MinIsLeast
<1>4. Max(best) \in all
  BY <1>1, MaxIsMember
<1> QED
  BY <1>2, <1>3, <1>4 DEF all

Regrouped(a, b, c) == (a \o b) \o c = a \o (b \o c)

LEMMA Regroup ==
  ASSUME NEW a \in Patterns, NEW b \in Patterns, NEW c \in Patterns
  PROVE  Regrouped(a, b, c)
BY ConcatAssociative DEF Patterns, Regrouped

(* Of two routes of a resource that match one request the one registered    *)
(* later is not the more specific: they are "new" and the parameter.        *)
LEMMA LaterIsNotBetter ==
  ASSUME RoutingInv, NEW method, NEW path \in Patterns,
         NEW i \in OfRequest(method, path), NEW j \in OfRequest(method, path), i < j,
         routes[i].of = routes[j].of, routes[i].of # <<>>
  PROVE  ~MoreSpecific(routes[j].pattern, routes[i].pattern)
<1> DEFINE g == routes[i].via
           prefix == groups[g].prefix
           of == routes[i].of
           base == prefix \o of
           p == routes[i].pattern
           q == routes[j].pattern
<1>1. /\ i \in 1..Len(routes) /\ j \in 1..Len(routes) /\ routes[i] \in RouteType
      /\ routes[i].method = method /\ routes[j].method = method
      /\ Len(p) = Len(path) /\ Len(q) = Len(path)
  BY RequestFacts
<1>2. g \in 1..Len(groups) /\ Ordered(routes[i], routes[j], prefix)
  BY <1>1 DEF RoutingInv, RoutingTypes, ResourceInv
<1>3. prefix \in Patterns /\ of \in Patterns
  BY <1>1, <1>2, GroupsAndRoutes DEF RoutingInv, GroupType, RouteType
<1>4. PICK k \in 1..8, l \in 1..8 :
        k < l /\ IsOperation(routes[i], prefix, k) /\ IsOperation(routes[j], prefix, l)
  BY <1>2 DEF Ordered
<1> DEFINE s == Operations[k].tail
           t == Operations[l].tail
<1>5. /\ p = prefix \o (of \o s) /\ q = prefix \o (of \o t)
      /\ Operations[k].method = Operations[l].method
  BY <1>1, <1>4 DEF IsOperation
<1>6. s \in Patterns /\ t \in Patterns
  BY OperationTypes DEF OperationType
<1> HIDE DEF p, q, s, t, of, prefix, g
<1>7. /\ base \in Patterns /\ Len(base) \in Nat /\ Len(s) \in Nat /\ Len(t) \in Nat
      /\ p = base \o s /\ q = base \o t
  <2>1. base \in Patterns
    BY <1>3, ConcatProperties DEF Patterns
  <2>2. p = (prefix \o of) \o s /\ q = (prefix \o of) \o t
    <3>1. Regrouped(prefix, of, s) /\ Regrouped(prefix, of, t)
      BY <1>3, <1>6, Regroup, Zenon
    <3> QED
      BY <1>5, <3>1, Zenon DEF Regrouped
  <2>3. p = base \o s /\ q = base \o t
    BY <2>2 DEF base
  <2> HIDE DEF base
  <2>4. Len(base) \in Nat /\ Len(s) \in Nat /\ Len(t) \in Nat
    BY <1>6, <2>1, LenProperties DEF Patterns
  <2> QED
    BY <2>1, <2>3, <2>4, Zenon
<1> HIDE DEF base
<1>8. /\ Len(p) = Len(base) + Len(s) /\ Len(q) = Len(base) + Len(t)
      /\ \A d \in 1..Len(base) : p[d] = base[d] /\ q[d] = base[d]
      /\ \A d \in Len(base) + 1..Len(base) + Len(s) : p[d] = s[d - Len(base)]
      /\ \A d \in Len(base) + 1..Len(base) + Len(t) : q[d] = t[d - Len(base)]
      /\ DOMAIN p = 1..Len(base) + Len(s) /\ DOMAIN q = 1..Len(base) + Len(t)
  BY <1>6, <1>7, ConcatProperties, LenProperties DEF Patterns
<1>9. Len(s) = Len(t)
  BY <1>1, <1>7, <1>8
<1>10. t = <<Param>>
  BY <1>4, <1>5, <1>9, SameMethod DEF s, t
<1>11. Len(t) = 1 /\ t[1] = Param
  BY <1>10
<1>12. SUFFICES ASSUME MoreSpecific(q, p) PROVE FALSE
  BY DEF p, q
<1>13. PICK d \in DOMAIN q \cap DOMAIN p : q[d] # Param /\ p[d] = Param
  BY <1>12 DEF MoreSpecific
<1>14. d \in 1..Len(base) \/ (d = Len(base) + 1 /\ d - Len(base) = 1)
  BY <1>7, <1>8, <1>11, <1>13
<1>15. CASE d \in 1..Len(base)
  BY <1>8, <1>13, <1>15
<1>16. CASE d = Len(base) + 1 /\ d - Len(base) = 1
  <2>1. q[d] = t[1]
    BY <1>7, <1>8, <1>11, <1>16
  <2> QED
    BY <1>11, <1>13, <2>1
<1> QED
  BY <1>14, <1>15, <1>16

(* When the routes of a request belong to one resource there is one of them *)
(* and they agree on it: the set of what they belong to is an image of a    *)
(* finite set, so its cardinality is meaningful.                            *)
LEMMA OneResource ==
  ASSUME RoutingInv, NEW all \in SUBSET (1..Len(routes)),
         Cardinality({routes[i].of : i \in all}) = 1
  PROVE  /\ all # {}
         /\ \A i, j \in all : routes[i].of = routes[j].of
<1> DEFINE of == {routes[i].of : i \in all}
           f == [i \in all |-> routes[i].of]
<1>1. IsFiniteSet(all)
  <2>1. Len(routes) \in Int /\ 1 \in Int
    BY GroupsAndRoutes DEF RoutingInv
  <2>2. IsFiniteSet(1..Len(routes))
    BY <2>1, FS_Interval
  <2> QED
    BY <2>2, FS_Subset
<1>2. f \in Surjection(all, of)
  BY DEF Surjection
<1> HIDE DEF f
<1>3. Cardinality(of) = 1
  OBVIOUS
<1>4. all = {} => of = {}
  OBVIOUS
<1>5. \A i \in all : routes[i].of \in of
  OBVIOUS
<1> HIDE DEF of
<1>6. IsFiniteSet(of)
  BY <1>1, <1>2, FS_Surjection
<1>7. PICK p : of = {p}
  BY <1>3, <1>6, FS_Singleton
<1> QED
  BY <1>4, <1>5, <1>7

(* The first registered is among the best, so whoever takes the first       *)
(* (Fiber) and whoever takes a best one agree.                              *)
LEMMA StaticRoutesFirst ==
  ASSUME RoutingInv
  PROVE  StaticFirst
<1> SUFFICES ASSUME NEW q \in Served
             PROVE  LET all == OfRequest(q[1], q[2])
                        of == {routes[i].of : i \in all}
                    IN  Cardinality(of) = 1 /\ of # {<<>>} =>
                          Matched(q[1], q[2]) \in Best(q[1], q[2])
  BY DEF StaticFirst
<1> DEFINE method == q[1]
           path == q[2]
           all == OfRequest(method, path)
           of == {routes[i].of : i \in all}
           best == Best(method, path)
           nothing == <<>>
<1>1. path \in Patterns
  BY InputAssumption
<1> HIDE DEF method, path
<1>2. SUFFICES ASSUME Cardinality(of) = 1, of # {nothing}
               PROVE  Matched(method, path) \in best
  BY DEF method, path
<1> HIDE DEF nothing
<1>3. all \in SUBSET (1..Len(routes)) /\ Len(routes) \in Nat
  BY <1>1, RequestFacts, GroupsAndRoutes DEF RoutingInv
<1>4. all # {} /\ \A i, j \in all : routes[i].of = routes[j].of
  <2> HIDE DEF all
  <2> QED
    BY <1>2, <1>3, OneResource
<1>5. \A i \in all : routes[i].of # nothing
  BY <1>2, <1>4
<1> DEFINE m == Min(all)
<1>6. m \in all /\ \A j \in all : m <= j
  <2>1. all \in SUBSET Nat
    BY <1>3
  <2> HIDE DEF all
  <2> QED
    BY <1>4, <2>1, MinIsLeast
<1> HIDE DEF m
<1>7. ASSUME NEW j \in all
      PROVE  ~MoreSpecific(routes[j].pattern, routes[m].pattern)
  <2>1. CASE j = m
    BY <2>1 DEF MoreSpecific
  <2>2. CASE m < j
    <3>1. m \in OfRequest(method, path) /\ j \in OfRequest(method, path)
      BY <1>6
    <3>2. routes[m].of = routes[j].of /\ routes[m].of # <<>>
      BY <1>4, <1>5, <1>6 DEF nothing
    <3> HIDE DEF all
    <3> QED
      BY <1>1, <2>2, <3>1, <3>2, LaterIsNotBetter
  <2> QED
    BY <1>3, <1>6, <2>1, <2>2
<1>8. m \in best
  BY <1>6, <1>7 DEF Best
<1>9. best \in SUBSET (1..Len(routes)) /\ best # {}
  BY <1>3, <1>8 DEF Best
<1>10. Max(best) \in best
  <2> HIDE DEF best
  <2> QED
    BY <1>3, <1>9, MaxIsMember
<1> QED
  BY <1>8, <1>10 DEF Matched, m

(* Where the handler of MethodNotAllowed comes from.                        *)
Handlers == RouteNames \cup Fallbacks

LEMMA NoHandlers ==
  /\ <<>> \in Seq(Handlers) /\ Range(<<>>) = {}
  /\ \A h \in Handlers : <<h>> \in Seq(Handlers) /\ Range(<<h>>) = {h}
<1>1. <<>> \in Seq(Handlers) /\ Range(<<>>) = {}
  BY EmptySeq DEF Range
<1>2. ASSUME NEW h \in Handlers
      PROVE  <<h>> \in Seq(Handlers) /\ Range(<<h>>) = {h}
  BY OneMember DEF Range
<1> QED
  BY <1>1, <1>2

(* What is chosen has the handler of MethodNotAllowed only on a condition.  *)
NotAllowedOnlyIf(choice, condition) ==
  choice \in Seq(Handlers) /\ ("notAllowed" \in Range(choice) => condition)

(* Fiber's catch-all.                                                       *)
LEMMA CatchAllFits ==
  ASSUME RoutingInv, NEW method, NEW path \in Patterns
  PROVE  NotAllowedOnlyIf(CatchAllChooses(method, path),
                          /\ OfPath(path) # {}
                          /\ \A i \in OfRequest(method, path) : i \notin Recorded)
<1> DEFINE seen == {i \in Recorded : FiberPathMatches(routes[i].pattern, path)}
           other == seen # {} /\ method \notin {routes[i].method : i \in seen}
           yes == <<"notAllowed">>
           no == <<"notFound">>
           nothing == <<>>
           choice == CatchAllChooses(method, path)
<1>1. /\ choice = yes /\ other
      \/ choice = no
      \/ choice = nothing
  BY DEF CatchAllChooses
<1>2. /\ yes \in Seq(Handlers) /\ no \in Seq(Handlers) /\ nothing \in Seq(Handlers)
      /\ "notAllowed" \notin Range(no) /\ "notAllowed" \notin Range(nothing)
  BY NoHandlers DEF Handlers, Fallbacks
<1>3. \A i \in seen : i \in OfPath(path)
  BY DEF FiberPathMatches, Matches, OfPath, Recorded
<1>4. ASSUME other
      PROVE  /\ OfPath(path) # {}
             /\ \A i \in OfRequest(method, path) : i \notin Recorded
  <2>1. OfPath(path) # {}
    BY <1>3, <1>4
  <2>2. ASSUME NEW i \in OfRequest(method, path), i \in Recorded
        PROVE  FALSE
    <3>1. i \in seen /\ routes[i].method = method
      BY <2>2 DEF OfRequest, OfPath, FiberPathMatches
    <3> QED
      BY <1>4, <3>1
  <2> QED
    BY <2>1, <2>2
<1> HIDE DEF other, yes, no, nothing, choice
<1>5. NotAllowedOnlyIf(choice, /\ OfPath(path) # {}
                               /\ \A i \in OfRequest(method, path) : i \notin Recorded)
  BY <1>1, <1>2, <1>4 DEF NotAllowedOnlyIf
<1> QED
  BY <1>5 DEF choice

(* All of the frameworks, for a request without a route.                    *)
LEMMA UnmatchedFits ==
  ASSUME RoutingInv, NEW method, NEW path \in Patterns
  PROVE  NotAllowedOnlyIf(Unmatched(method, path), OfPath(path) # {})
<1> DEFINE choice == Unmatched(method, path)
           own == CatchAllChooses(method, path)
           yes == <<"notAllowed">>
           no == <<"notFound">>
           nothing == <<>>
<1>1. /\ yes \in Seq(Handlers) /\ no \in Seq(Handlers) /\ nothing \in Seq(Handlers)
      /\ "notAllowed" \notin Range(no) /\ "notAllowed" \notin Range(nothing)
  BY NoHandlers DEF Handlers, Fallbacks
<1>2. own \in Seq(Handlers) /\ ("notAllowed" \in Range(own) => OfPath(path) # {})
  BY CatchAllFits DEF NotAllowedOnlyIf
<1>3. \/ FrameworkChooses(path) = nothing
      \/ FrameworkChooses(path) = no
      \/ FrameworkChooses(path) = yes /\ OfPath(path) # {}
  BY DEF FrameworkChooses, Set
<1>4. adapter \in {"gin", "fiber", "chi", "nethttp"}
  BY InputAssumption DEF RoutingInv, RoutingTypes
<1>5. \/ choice = own \/ choice = nothing \/ choice = no
      \/ choice = yes /\ OfPath(path) # {}
  BY <1>3, <1>4 DEF Unmatched, CatchAll, Intercept405
<1> HIDE DEF choice, own, yes, no, nothing
<1>6. NotAllowedOnlyIf(choice, OfPath(path) # {})
  BY <1>1, <1>2, <1>5 DEF NotAllowedOnlyIf
<1> QED
  BY <1>6 DEF choice

LEMMA RangeOfTwo ==
  ASSUME NEW S, NEW s \in Seq(S), NEW t \in Seq(S), NEW y \in Range(s \o t)
  PROVE  y \in Range(s) \/ y \in Range(t)
<1> DEFINE both == s \o t
<1>1. /\ Len(s) \in Nat /\ Len(t) \in Nat /\ both \in Seq(S) /\ Len(both) = Len(s) + Len(t)
      /\ DOMAIN s = 1..Len(s) /\ DOMAIN t = 1..Len(t) /\ DOMAIN both = 1..Len(s) + Len(t)
      /\ \A i \in 1..Len(s) : both[i] = s[i]
      /\ \A i \in Len(s) + 1..Len(s) + Len(t) : both[i] = t[i - Len(s)]
  BY ConcatProperties, LenProperties
<1> HIDE DEF both
<1>2. PICK i \in DOMAIN both : y = both[i]
  BY DEF Range, both
<1>3. CASE i \in 1..Len(s)
  BY <1>1, <1>2, <1>3 DEF Range
<1>4. CASE i \in Len(s) + 1..Len(s) + Len(t) /\ i - Len(s) \in 1..Len(t)
  BY <1>1, <1>2, <1>4 DEF Range
<1>5. i \in 1..Len(s) \/ (i \in Len(s) + 1..Len(s) + Len(t) /\ i - Len(s) \in 1..Len(t))
  BY <1>1
<1> QED
  BY <1>3, <1>4, <1>5

(* A route's own name is never that handler, so it is what comes after.     *)
LEMMA FallbacksFit ==
  ASSUME RoutingInv
  PROVE  FallbackFits
<1> SUFFICES ASSUME NEW q \in Served, NEW o \in Outcomes,
                    "notAllowed" \in Range(Runs(q[1], q[2], o))
             PROVE  /\ OfPath(q[2]) # {}
                    /\ \A i \in OfRequest(q[1], q[2]) : adapter = "fiber" /\ i \notin Recorded
  BY DEF FallbackFits
<1> DEFINE method == q[1]
           path == q[2]
           all == OfRequest(method, path)
           i == Matched(method, path)
           after == AfterRoute(i, method, path, StatusOf(routes[i].via, o))
           own == CatchAllChooses(method, path)
           name == <<routes[i].name>>
           nothing == <<>>
<1>1. path \in Patterns
  BY InputAssumption
<1>2. Runs(method, path, o) = IF all = {} THEN Unmatched(method, path) ELSE name \o after
  BY DEF Runs
<1>3. "notAllowed" \in Range(Runs(method, path, o))
  OBVIOUS
<1> HIDE DEF method, path
<1>4. CASE all = {}
  <2>1. OfPath(path) # {}
    BY <1>1, <1>2, <1>3, <1>4, UnmatchedFits DEF NotAllowedOnlyIf
  <2> QED
    BY <1>4, <2>1 DEF method, path
<1>5. CASE all # {}
  <2>1. i \in all
    BY <1>1, <1>5, MatchedFacts
  <2>2. routes[i].name \in RouteNames
    BY <1>1, <2>1, RequestFacts DEF RouteType
  <2>3. name \in Seq(Handlers) /\ "notAllowed" \notin Range(name)
    <3>1. routes[i].name \in Handlers /\ routes[i].name # "notAllowed"
      BY <2>2 DEF Handlers, RouteNames, OperationNames
    <3> DEFINE h == routes[i].name
    <3> HIDE DEF h
    <3>2. <<h>> \in Seq(Handlers) /\ Range(<<h>>) = {h}
      BY <3>1, NoHandlers DEF h
    <3> QED
      BY <3>1, <3>2 DEF h
  <2>4. after = nothing \/ (after = own /\ adapter = "fiber")
    BY DEF AfterRoute
  <2>5. nothing \in Seq(Handlers) /\ "notAllowed" \notin Range(nothing)
    BY NoHandlers
  <2>6. /\ own \in Seq(Handlers)
        /\ "notAllowed" \in Range(own) =>
             OfPath(path) # {} /\ \A j \in all : j \notin Recorded
    BY <1>1, CatchAllFits DEF NotAllowedOnlyIf
  <2> HIDE DEF own, nothing, name, after, i
  <2>7. after \in Seq(Handlers)
    BY <2>4, <2>5, <2>6
  <2>8. "notAllowed" \in Range(name \o after)
    BY <1>2, <1>3, <1>5
  <2>9. "notAllowed" \in Range(after)
    BY <2>3, <2>7, <2>8, RangeOfTwo
  <2> QED
    BY <2>4, <2>5, <2>6, <2>9 DEF method, path
<1> QED
  BY <1>4, <1>5

(* On every adapter and after any registrations, a request that one resource *)
(* has routes for runs its most specific one, and the 405 handler runs only  *)
(* for a path whose routes have another method (Register, the fallbacks of   *)
(* the adapters, registerCatchAll), Fiber's groups excepted.                 *)
THEOREM RequestsRunTheRightHandler == RoutingSpec => []RightHandler
<1>1. RoutingInv => RightHandler
  BY StaticRoutesFirst, FallbacksFit DEF RightHandler
<1> QED
  BY <1>1, RoutingInvariant, PTL
=============================================================================
