---------------------------- MODULE AppLifecycle ----------------------------
(***************************************************************************)
(* The life of an application (v2/app/app.go): goroutines that start the   *)
(* server, goroutines that shut the application down, the requests in      *)
(* flight and the worker pool that runs the jobs their handlers submit.    *)
(* Of the pool only its promise is used: JobService, which WorkerPool is   *)
(* shown to implement.  One submission is made for each request.           *)
(***************************************************************************)
EXTENDS Naturals

CONSTANTS
  Starters,     (* The calls of StartWithContext; Start is one whose       *)
                (* context is never done.                                  *)
  Stoppers,     (* The calls of Shutdown and Close.                        *)
  Closers,      (* Those that are calls of Close.                          *)
  Requests,     (* The requests clients may send, and the job of each.     *)
  Expiring,     (* The calls whose context may be done.                    *)
  Frameworks,   (* "handler" (gin, chi, net/http) or "fiber".              *)
  FiberApp,     (* The one server of a Fiber application.                  *)
  NoServer      (* nil.                                                    *)

ASSUME CallAssumption ==
  /\ Closers \subseteq Stoppers
  /\ Starters \cap Stoppers = {}
  /\ Expiring \subseteq Starters \cup Stoppers

ASSUME ServerAssumption ==
  /\ Frameworks \subseteq {"handler", "fiber"}
  /\ FiberApp \notin Starters \cup {NoServer}
  /\ NoServer \notin Starters

VARIABLES
  framework,     (* The kind of router the application was built with.     *)
  frozen,        (* Whether the error registry is frozen.                  *)
  start,         (* Where each StartWithContext is.                        *)
  watcher,       (* The goroutine that waits for the context of a start.   *)
  nativeServer,  (* App.nativeServer.                                      *)
  registered,    (* How often serverRegistered was closed.                 *)
  listening,     (* The starts whose listener is open.                     *)
  halted,        (* The servers whose Shutdown was called (inShutdown).    *)
  stop,          (* Where each Shutdown or Close is, or what it returned.  *)
  found,         (* The server a Shutdown read.                            *)
  httpErr,       (* What stopping that server returned.                    *)
  closed,        (* History: the listeners it closed.                      *)
  request,       (* Where each request is.                                 *)
  at,            (* The start at whose listener each request came in.      *)
  done,          (* The calls whose context is done.                       *)
  status,        (* The jobs, in the pool ...                              *)
  open,          (* ... whether it accepts ...                             *)
  drained        (* ... and whether it has told a stopper that all ended.  *)

startVars   == <<frozen, start, watcher, nativeServer, registered>>
stopVars    == <<stop, found, httpErr, closed>>
serverVars  == <<listening, halted>>
requestVars == <<request, at>>
poolVars    == <<status, open, drained>>
vars == <<framework, startVars, serverVars, stopVars, requestVars, done, poolVars>>

Pool == INSTANCE JobService WITH Jobs <- Requests

(* Each start of an http.Handler makes an http.Server of its own; Fiber     *)
(* starts the application itself.                                           *)
Servers == Starters \cup {FiberApp}
ServerOf(s) == IF framework = "fiber" THEN FiberApp ELSE s

TypeOK ==
  /\ framework \in Frameworks
  /\ frozen \in BOOLEAN
  /\ start \in [Starters -> {"idle", "stored", "listen", "serving", "returned"}]
  /\ watcher \in [Starters -> {"none", "waiting", "ended"}]
  /\ nativeServer \in Servers \cup {NoServer}
  /\ registered \in {0, 1}
  /\ listening \subseteq Starters
  /\ halted \subseteq Servers
  /\ stop \in [Stoppers -> {"idle", "wait", "http", "pool", "drain", "nil", "error"}]
  /\ found \in [Stoppers -> Servers \cup {NoServer}]
  /\ httpErr \in [Stoppers -> {"none", "nil", "notRunning", "ctxErr"}]
  /\ closed \in [Stoppers -> SUBSET Starters]
  /\ request \in [Requests -> {"away", "active", "waiting", "answered"}]
  /\ at \in [Requests -> Starters \cup {NoServer}]
  /\ done \subseteq Expiring
  /\ Pool!TypeOK

Init ==
  /\ framework \in Frameworks
  /\ frozen = FALSE
  /\ start = [s \in Starters |-> "idle"]
  /\ watcher = [s \in Starters |-> "none"]
  /\ nativeServer = NoServer
  /\ registered = 0
  /\ listening = {}
  /\ halted = {}
  /\ stop = [p \in Stoppers |-> "idle"]
  /\ found = [p \in Stoppers |-> NoServer]
  /\ httpErr = [p \in Stoppers |-> "none"]
  /\ closed = [p \in Stoppers |-> {}]
  /\ request = [r \in Requests |-> "away"]
  /\ at = [r \in Requests |-> NoServer]
  /\ done = {}
  /\ Pool!Init

(* A context is cancelled or its deadline passes, at any time.              *)
Cancel(c) ==
  /\ c \in Expiring \ done
  /\ c \in Stoppers => stop[c] \notin {"nil", "error"}
  /\ done' = done \cup {c}
  /\ UNCHANGED <<framework, startVars, serverVars, stopVars, requestVars, poolVars>>

-----------------------------------------------------------------------------
(* StartWithContext.                                                        *)

(* The registry is frozen, and the server stored under serverMu: a later     *)
(* start replaces the server of an earlier one.                             *)
Store(s) ==
  /\ start[s] = "idle"
  /\ frozen' = TRUE
  /\ nativeServer' = ServerOf(s)
  /\ start' = [start EXCEPT ![s] = "stored"]
  /\ UNCHANGED <<framework, watcher, registered, serverVars, stopVars, requestVars, done,
                 poolVars>>

(* Mutant: without serverRegOnce.                                           *)
AnnounceAgain(s) ==
  /\ start[s] = "stored"
  /\ registered' = registered + 1
  /\ start' = [start EXCEPT ![s] = "listen"]
  /\ watcher' = [watcher EXCEPT ![s] = IF framework = "fiber" THEN "none" ELSE "waiting"]
  /\ UNCHANGED <<framework, frozen, nativeServer, serverVars, stopVars, requestVars,
                 done, poolVars>>

(* Mutant: nobody watches the context.                                      *)
AnnounceUnwatched(s) ==
  /\ start[s] = "stored"
  /\ registered' = 1
  /\ start' = [start EXCEPT ![s] = "listen"]
  /\ UNCHANGED <<framework, frozen, watcher, nativeServer, serverVars, stopVars, requestVars,
                 done, poolVars>>

(* serverRegOnce; the goroutine that watches ctx is not started for Fiber.  *)
Announce(s) ==
  /\ start[s] = "stored"
  /\ registered' = IF registered = 0 THEN 1 ELSE registered
  /\ start' = [start EXCEPT ![s] = "listen"]
  /\ watcher' = [watcher EXCEPT ![s] = IF framework = "fiber" THEN "none" ELSE "waiting"]
  /\ UNCHANGED <<framework, frozen, nativeServer, serverVars, stopVars, requestVars,
                 done, poolVars>>

(* ListenAndServe.  An http.Server that was shut down does not listen again;*)
(* Fiber forgets a shutdown that came before its listener.                  *)
Listen(s) ==
  /\ start[s] = "listen"
  /\ framework = "handler" => ServerOf(s) \notin halted
  /\ listening' = listening \cup {s}
  /\ start' = [start EXCEPT ![s] = "serving"]
  /\ UNCHANGED <<framework, frozen, watcher, nativeServer, registered, halted, stopVars,
                 requestVars, done, poolVars>>

(* The server was shut down, or the address cannot be bound.                *)
FailToListen(s) ==
  /\ start[s] = "listen"
  /\ start' = [start EXCEPT ![s] = "returned"]
  /\ UNCHANGED <<framework, frozen, watcher, nativeServer, registered, serverVars, stopVars,
                 requestVars, done, poolVars>>

(* ErrServerClosed, as soon as the listener is closed: requests may still   *)
(* be in flight.                                                            *)
StopServing(s) ==
  /\ start[s] = "serving"
  /\ s \notin listening
  /\ start' = [start EXCEPT ![s] = "returned"]
  /\ UNCHANGED <<framework, frozen, watcher, nativeServer, registered, serverVars, stopVars,
                 requestVars, done, poolVars>>

(* A server's Shutdown, whoever calls it, begins by closing its listeners.  *)
Listeners(server) == {s \in listening : ServerOf(s) = server}

Halt(server) ==
  /\ halted' = halted \cup {server}
  /\ listening' = listening \ Listeners(server)

Idle(server) ==
  \A r \in Requests :
    at[r] # NoServer /\ ServerOf(at[r]) = server => request[r] = "answered"

(* The goroutine at lines 371 and 387; that it then waits for its server to  *)
(* be idle, at most ten seconds, is seen by nobody.                          *)
WatcherHalts(s) ==
  /\ watcher[s] = "waiting"
  /\ s \in done
  /\ Halt(ServerOf(s))
  /\ watcher' = [watcher EXCEPT ![s] = "ended"]
  /\ UNCHANGED <<framework, frozen, start, nativeServer, registered, stopVars, requestVars,
                 done, poolVars>>

-----------------------------------------------------------------------------
(* Requests, as the server's goroutines run them.                           *)

Arrive(r, s) ==
  /\ request[r] = "away"
  /\ s \in listening
  /\ request' = [request EXCEPT ![r] = "active"]
  /\ at' = [at EXCEPT ![r] = s]
  /\ UNCHANGED <<framework, startVars, serverVars, stopVars, done, poolVars>>

(* The handler submits its job; with room in the queue the pool refuses one *)
(* only because it is closed (ErrShutdown).                                 *)
Submit(r) ==
  /\ request[r] = "active"
  /\ request' = [request EXCEPT ![r] = "waiting"]
  /\ IF open THEN Pool!Accept(r) ELSE Pool!Refuse(r)
  /\ UNCHANGED <<framework, startVars, serverVars, stopVars, at, done>>

Answer(r) ==
  /\ request[r] \in {"active", "waiting"}
  /\ request' = [request EXCEPT ![r] = "answered"]
  /\ UNCHANGED <<framework, startVars, serverVars, stopVars, at, done, poolVars>>

BeginJob(r) ==
  /\ Pool!Begin(r)
  /\ UNCHANGED <<framework, startVars, serverVars, stopVars, requestVars, done>>

EndJob(r) ==
  /\ Pool!End(r)
  /\ UNCHANGED <<framework, startVars, serverVars, stopVars, requestVars, done>>

-----------------------------------------------------------------------------
(* Shutdown and Close.                                                      *)

Step(p, from, to) == stop[p] = from /\ stop' = [stop EXCEPT ![p] = to]

(* Close goes straight to the pool, with ten seconds of its own.            *)
CallStop(p) ==
  /\ Step(p, "idle", IF p \in Closers THEN "pool" ELSE "wait")
  /\ UNCHANGED <<framework, startVars, serverVars, found, httpErr, closed, requestVars, done, poolVars>>

(* Mutant: the server is read without waiting for it.                       *)
FindAtOnce(p) ==
  /\ Step(p, "wait", IF nativeServer = NoServer THEN "pool" ELSE "http")
  /\ found' = [found EXCEPT ![p] = nativeServer]
  /\ UNCHANGED <<framework, startVars, serverVars, httpErr, closed, requestVars, done, poolVars>>

(* The select at line 420 and the read under serverMu.                      *)
Find(p) ==
  /\ registered > 0 \/ p \in done
  /\ Step(p, "wait", IF nativeServer = NoServer THEN "pool" ELSE "http")
  /\ found' = [found EXCEPT ![p] = nativeServer]
  /\ UNCHANGED <<framework, startVars, serverVars, httpErr, closed, requestVars, done, poolVars>>

(* The server's Shutdown closes its listener and waits ...                  *)
HaltFound(p) ==
  /\ stop[p] = "http"
  /\ httpErr[p] = "none"
  /\ Halt(found[p])
  /\ closed' = [closed EXCEPT ![p] = Listeners(found[p])]
  /\ httpErr' = [httpErr EXCEPT ![p] = IF framework = "fiber" /\ listening = {}
                                       THEN "notRunning" ELSE "nil"]
  /\ UNCHANGED <<framework, startVars, stop, found, requestVars, done, poolVars>>

(* Mutant: the listener is closed, nobody is waited for.                    *)
HttpDoneAtOnce(p) ==
  /\ httpErr[p] \in {"nil", "notRunning"}
  /\ Step(p, "http", "pool")
  /\ UNCHANGED <<framework, startVars, serverVars, found, httpErr, closed, requestVars, done, poolVars>>

(* ... until no request is in flight, with the answer nil also when nothing *)
(* ran, or until ctx is done.                                               *)
HttpDone(p) ==
  /\ httpErr[p] \in {"nil", "notRunning"}
  /\ httpErr[p] = "nil" => Idle(found[p])
  /\ Step(p, "http", "pool")
  /\ UNCHANGED <<framework, startVars, serverVars, found, httpErr, closed, requestVars, done, poolVars>>

HttpExpires(p) ==
  /\ httpErr[p] = "nil"
  /\ p \in done
  /\ Step(p, "http", "pool")
  /\ httpErr' = [httpErr EXCEPT ![p] = "ctxErr"]
  /\ UNCHANGED <<framework, startVars, serverVars, found, closed, requestVars, done, poolVars>>

(* Worker.Shutdown, whatever the server answered; the second time it closes *)
(* nothing.                                                                 *)
ClosePool(p) ==
  /\ Step(p, "pool", "drain")
  /\ IF open THEN Pool!Close ELSE UNCHANGED poolVars
  /\ UNCHANGED <<framework, startVars, serverVars, found, httpErr, closed, requestVars, done>>

(* Mutant: only the pool's error is returned.                               *)
DrainedOnly(p) ==
  /\ Step(p, "drain", "nil")
  /\ Pool!Drain
  /\ UNCHANGED <<framework, startVars, serverVars, found, httpErr, closed, requestVars, done>>

(* Lines 450-453: the server's error comes before the pool's.               *)
Drained(p) ==
  /\ Step(p, "drain", IF httpErr[p] = "ctxErr" THEN "error" ELSE "nil")
  /\ Pool!Drain
  /\ UNCHANGED <<framework, startVars, serverVars, found, httpErr, closed, requestVars, done>>

DrainExpires(p) ==
  /\ p \in done \cup Closers
  /\ Step(p, "drain", "error")
  /\ UNCHANGED <<framework, startVars, serverVars, found, httpErr, closed, requestVars, done, poolVars>>

-----------------------------------------------------------------------------
StartStep(s) ==
  \/ Store(s) \/ Announce(s) \/ Listen(s) \/ FailToListen(s)
  \/ StopServing(s) \/ WatcherHalts(s)

RequestStep(r) ==
  \/ \E s \in Starters : Arrive(r, s)
  \/ Submit(r) \/ Answer(r) \/ BeginJob(r) \/ EndJob(r)

StopStep(p) ==
  \/ CallStop(p) \/ Find(p) \/ HaltFound(p) \/ HttpDone(p) \/ HttpExpires(p)
  \/ ClosePool(p) \/ Drained(p) \/ DrainExpires(p)

Next ==
  \/ \E s \in Starters : StartStep(s)
  \/ \E p \in Stoppers : StopStep(p)
  \/ \E r \in Requests : RequestStep(r)
  \/ \E c \in Expiring : Cancel(c)

Spec == Init /\ [][Next]_vars

(* Goroutines go on, handlers and jobs end, and a context that may be done   *)
(* is not required to be: nothing is assumed of clients and of callers.      *)
FairSpec ==
  /\ Spec
  /\ \A s \in Starters :
       /\ WF_vars(Announce(s))
       /\ WF_vars(Listen(s) \/ FailToListen(s)) /\ WF_vars(StopServing(s))
       /\ WF_vars(WatcherHalts(s))
  /\ \A p \in Stoppers :
       /\ WF_vars(Find(p)) /\ WF_vars(HaltFound(p)) /\ WF_vars(HttpDone(p) \/ HttpExpires(p))
       /\ WF_vars(ClosePool(p)) /\ WF_vars(Drained(p) \/ DrainExpires(p))
  /\ \A r \in Requests : WF_vars(Answer(r)) /\ WF_vars(BeginJob(r)) /\ WF_vars(EndJob(r))

-----------------------------------------------------------------------------
(* Properties.                                                              *)

Past(p) == stop[p] \in {"http", "pool", "drain", "nil", "error"}

(* The comment at lines 408-410: a Shutdown whose context is still good      *)
(* waits for the server, so it misses one only when it gave up waiting.      *)
ShutdownFindsServer ==
  \A p \in Stoppers \ Closers : Past(p) /\ found[p] = NoServer => p \in done

(* What makes it right to close the pool under a request that came in at s:  *)
(* somebody's call or clock decided so, it was another server's shutdown, or *)
(* a Fiber listener opened after the shutdown of its application.            *)
Hurried(p, s) ==
  \/ p \in Closers
  \/ found[p] # ServerOf(s)
  \/ framework = "fiber" /\ s \notin closed[p]
  \/ httpErr[p] = "ctxErr"

(* Requests in flight keep their pool (line 445): a job is refused, or a     *)
(* handler left with a closed pool, only under a call that was in a hurry.   *)
PoolOutlivesRequests ==
  \A r \in Requests :
    (request[r] = "active" /\ ~open) \/ status[r] = "refused" =>
      \E p \in Stoppers : stop[p] \in {"drain", "nil", "error"} /\ Hurried(p, at[r])

(* What a caller may conclude from Shutdown's nil: all accepted jobs ended   *)
(* and, when it found an http.Server, nobody is served by it any more.       *)
NilMeansStopped ==
  \A p \in Stoppers :
    stop[p] = "nil" =>
      /\ ~open
      /\ \A r \in Requests : status[r] \notin {"accepted", "running"}
      /\ framework = "handler" /\ found[p] # NoServer =>
           Listeners(found[p]) = {} /\ Idle(found[p])

(* Lines 350-351: when its context is cancelled, while the server is stored,  *)
(* about to listen or serving, an http.Server stops and the call returns.     *)
(* Fiber has no watcher (line 400).                                         *)
StartReturns ==
  \A s \in Starters :
    framework = "handler" /\ start[s] \notin {"idle", "returned"} /\ s \in done
      ~> start[s] = "returned"

(* Line 405: a Shutdown that has a server, or a context that is done, ends.  *)
StopReturns ==
  \A p \in Stoppers :
    stop[p] # "idle" /\ (registered > 0 \/ p \in done) ~> stop[p] \in {"nil", "error"}

(* So nobody waits for ever for a start or a stop that can end.              *)
CallsEnd == StartReturns /\ StopReturns
=============================================================================
