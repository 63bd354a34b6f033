---------------------------- MODULE TracingProofs ----------------------------
(***************************************************************************)
(* Proofs about Tracing, for any settings of the application, any order    *)
(* and number of its middleware and any number of initialisations: the     *)
(* tree of spans, the user of the audit trail, the statuses and the log.   *)
(***************************************************************************)
EXTENDS Tracing, SequenceTheorems, WellFoundedInduction, TLAPS

-----------------------------------------------------------------------------
(* Where a request is.                                                      *)

Outside  == {"setup", "trace", "app"}
Entered  == Outside \cup {"span"}
Running  == {"initializing", "handling", "finalizing"}
SpanOpen == {"parse", "initialize", "initializing", "handle", "handling", "answer", "next",
             "outcome", "endspan"}
Silent   == Entered \cup {"parse", "initialize", "initializing", "handle", "handling", "answer"}
Deferred == {"recovery", "finalize", "finalizing", "collect"}

SpanType == [name : SpanNames, parent : Nat, live : BOOLEAN, open : BOOLEAN, status : Nat]

(* The types of what the properties need.  What attrs holds on net/http is  *)
(* the result of a recursive function, see IsKeep.                           *)
DataTypes ==
  /\ conf \in ConfType /\ adapter = conf.adapter
  /\ locals \in [Stores -> LocalType(Users, Logs)]
  /\ wire \in WireType
  /\ manager \in {"nil", "off", "on"}
  /\ pc \in PCs /\ todo \in Seq(AppMiddleware)
  /\ user \in Users /\ outcome \in Nat /\ panic \in BOOLEAN

TreeTypes ==
  /\ spans \in Seq(SpanType)
  /\ context \in [Stores -> 0..Len(spans)]
  /\ middleSpan \in 0..Len(spans) /\ handlerSpan \in 0..Len(spans) /\ running \in 0..Len(spans)

Types == DataTypes /\ TreeTypes

(* Which spans may be open, and what the others know of them.               *)
SpanInv ==
  /\ \A i \in 1..Len(spans) : spans[i].parent < i /\ spans[i].live
  /\ pc \in {"setup", "trace"} => middleSpan = 0 /\ spans = <<>>
  /\ middleSpan # 0 /\ pc # "done" => spans[middleSpan].open
  /\ pc \in Entered => handlerSpan = 0 /\ context["handler"] \in {0, middleSpan}
  /\ handlerSpan # 0 => /\ handlerSpan # middleSpan
                        /\ spans[handlerSpan].open <=> pc \in SpanOpen
  /\ pc \notin Running => running = 0
  /\ running # 0 => /\ spans[running].open /\ spans[running].name \in Phases
                    /\ running \notin {middleSpan, handlerSpan}
  /\ \A i \in 1..Len(spans) :
       spans[i].open => \/ i \in {middleSpan, handlerSpan, running}
                        \/ panic /\ spans[i].name \in Phases \cup {"call"}
  /\ pc = "done" /\ middleSpan # 0 => ~spans[middleSpan].open
  /\ pc \in {"unwind", "done"} => handlerSpan = 0 \/ ~spans[handlerSpan].open

(* Who has the attribute that the application added.                        *)
NoteInv ==
  /\ pc \in Entered => note = NoNote
  /\ note.by = "trx" => note.span = IF note.phase = "finalize" THEN 0 ELSE handlerSpan
  /\ note.by = "web" => note.span = WebSpan

(* How the outcome, the answer and the status among the locals stand.       *)
Told(status) == status = wire.status \/ Superseded
OfPanic == IF conf.recovery THEN 0 ELSE 500

AnswerInv ==
  /\ pc \in Silent => wire = NothingSent
  /\ pc \in Silent \cup {"next", "outcome"} => ~panic /\ outcome = 0
  /\ pc \in {"next", "outcome"} => wire.sent > 0 /\ Told(locals[H].status)
  /\ pc \in {"endspan", "recovery"} /\ panic => outcome = 0
  /\ pc \in {"endspan"} \cup Deferred /\ ~panic => Told(outcome)
  /\ pc \in Deferred \ {"recovery"} /\ panic => outcome = OfPanic
  /\ pc \in {"endspan"} \cup Deferred \cup {"crash"} => wire = NothingSent \/ wire.sent > 0
  /\ pc = "crash" => panic /\ ~conf.recovery /\ outcome = 500
  /\ pc \in {"unwind", "done"} /\ attrs # <<>> =>
       IF panic THEN outcome = OfPanic ELSE Told(outcome)
  /\ pc \in {"unwind", "done"} /\ attrs # <<>> /\ panic /\ ~conf.recovery =>
       /\ adapter # "fiber" => wire.status \in {500, locals[H].status} \/ Superseded
       /\ adapter = "fiber" /\ pc = "done" => wire.status = 500
  /\ pc \notin {"crash", "unwind", "done"} => attrs = <<>>

(* An error is noted exactly when one was answered.                         *)
Erred == locals[H].log.errors # <<>>

ErrorInv ==
  /\ pc \in Silent => ~Erred
  /\ pc \in {"next", "outcome"} => (Erred <=> locals[H].status # 200)
  /\ pc \in {"endspan"} \cup Deferred /\ ~panic => (Erred <=> outcome # 200)
  /\ pc \in {"unwind", "done"} /\ attrs # <<>> /\ ~panic => (Erred <=> outcome # 200)

(* What the wrapper of net/http has been asked for.                         *)
AskedInv ==
  adapter = "nethttp" /\ ~panic =>
    wire.asked = wire.status \/ (wire.status >= 400 /\ wire.asked = 500)

MiddleInv ==
  pc = "done" /\ middleSpan # 0 /\ ~panic =>
    \/ spans[middleSpan].status = FrameworkStatus
    \/ /\ adapter = "nethttp" /\ conf.tracing = "custom"
       /\ wire.status >= 400 /\ spans[middleSpan].status = 500

StatusInv == AnswerInv /\ ErrorInv /\ AskedInv /\ MiddleInv

(* The middleware that has run, and the user it has left.                   *)
Ran == Len(conf.app) - Len(todo)

StillLast(name, other) ==
  \E i \in 1..Ran : conf.app[i] = name /\ \A j \in i..Ran : conf.app[j] # other

LastIn(app, name) ==
  IF \E i \in DOMAIN app : app[i] = name
  THEN CHOOSE i \in DOMAIN app : app[i] = name /\ \A j \in DOMAIN app : j > i => app[j] # name
  ELSE 0

UserOf(c) ==
  CASE c.header -> "caller"
    [] ~c.header /\ c.adapter = "nethttp" -> "none"
    [] OTHER -> IF LastIn(c.app, "auth") > LastIn(c.app, "logs") THEN "caller"
                ELSE IF LastIn(c.app, "logs") > 0 THEN "unknown" ELSE "none"

MiddlewareUser ==
  IF adapter = "nethttp" THEN locals[H].user = "none"
  ELSE /\ locals[H].user = "caller" => StillLast("auth", "logs")
       /\ locals[H].user = "unknown" => StillLast("logs", "auth")
       /\ locals[H].user = "none" => \A i \in 1..Ran : conf.app[i] \notin {"auth", "logs"}

UserInv ==
  /\ pc \in Outside => /\ locals[H].log = NoNotes
                       /\ Len(todo) <= Len(conf.app)
                       /\ \A i \in 1..Len(todo) : todo[i] = conf.app[Ran + i]
                       /\ MiddlewareUser
  /\ pc \notin Outside \cup {"unwind", "done"} => locals[H].log.tags # <<>>
  /\ conf.audit /\ locals[H].log.tags # <<>> => user = UserOf(conf)

(* The attributes: all that is given, or the last one of each key.           *)
RangeOf(s) == {s[i] : i \in 1..Len(s)}
KeyOnce(s) == \A i, j \in 1..Len(s) : s[i].key = s[j].key => i = j

Gathered(a, kept, list) ==
  IF a = "nethttp" THEN DOMAIN kept = 1..Len(kept) /\ RangeOf(kept) = RangeOf(list) /\ KeyOnce(kept)
  ELSE kept = list

(* What was noted, without the answer of a panic if that is what came last.  *)
But(noted, n) == SubSeq(noted, 1, Len(noted) - n)
Before(log, late, sending) ==
  Attributes(Notes(But(log.tags, IF late THEN 2 ELSE 0), But(log.arrays, IF late THEN sending ELSE 0),
                   But(log.errors, IF late THEN 1 ELSE 0)))

LogInv ==
  /\ pc = "crash" => Gathered(adapter, attrs, Attributes(locals[H].log))
  /\ pc \in {"unwind", "done"} /\ attrs # <<>> =>
       \E sending \in 0..1 :
         Gathered(adapter, attrs, Before(locals[H].log, panic /\ ~conf.recovery, sending))

IInv == Types /\ SpanInv /\ NoteInv /\ StatusInv /\ UserInv /\ LogInv


-----------------------------------------------------------------------------
(* Stores and spans.                                                        *)

(* gin and Fiber have one store for all parsers, net/http one for each.      *)
LEMMA StoreOf ==
  ASSUME adapter \in Adapters, NEW p \in Parsers
  PROVE  /\ Store(p) \in Stores
         /\ adapter # "nethttp" => Store(p) = "request"
         /\ adapter = "nethttp" => Store(p) = p
BY DEF Store, GinStore, FiberStore, NetHTTPStore, Adapters, Stores

LEMMA AdapterOf == Types => adapter \in Adapters
BY DEF Types, DataTypes, TreeTypes, ConfType

(* A span that starts is the last one, and changes no other.                *)
LEMMA StartedSpan ==
  ASSUME spans \in Seq(SpanType), NEW name \in SpanNames, NEW parent \in 0..Len(spans)
  PROVE  LET n == Len(spans) + 1
             new == Started(name, parent)
         IN  /\ new \in Seq(SpanType) /\ Len(new) = n
             /\ \A i \in 1..Len(spans) : new[i] = spans[i]
             /\ new[n].name = name /\ new[n].parent = parent /\ new[n].open
             /\ new[n].live <=> parent = 0 \/ IsRecording(parent)
<1> DEFINE live == parent = 0 \/ IsRecording(parent)
           span == [name |-> name, parent |-> parent, live |-> live, open |-> TRUE, status |-> 0]
<1>1. live \in BOOLEAN
  OBVIOUS
<1>2. Started(name, parent) = Append(spans, span)
  BY DEF Started
<1>3. Len(spans) \in Nat
  BY LenProperties
<1> HIDE DEF live
<1>4. span \in SpanType /\ span.name = name /\ span.parent = parent /\ span.open
      /\ span.live = live
  BY <1>1, <1>3 DEF SpanType
<1> HIDE DEF span
<1>5. LET new == Started(name, parent)
      IN  /\ new \in Seq(SpanType) /\ Len(new) = Len(spans) + 1
          /\ \A i \in 1..Len(spans) : new[i] = spans[i]
          /\ new[Len(spans) + 1] = span
  BY <1>2, <1>4, AppendProperties
<1> QED
  BY <1>1, <1>4, <1>5 DEF live

(* A span that ends changes no other, and nothing but that it is open.      *)
LEMMA EndedSpan ==
  ASSUME spans \in Seq(SpanType), NEW span \in 0..Len(spans)
  PROVE  /\ Ended(span) \in Seq(SpanType) /\ Len(Ended(span)) = Len(spans)
         /\ \A i \in 1..Len(spans) :
              /\ Ended(span)[i].name = spans[i].name /\ Ended(span)[i].parent = spans[i].parent
              /\ Ended(span)[i].live = spans[i].live /\ Ended(span)[i].status = spans[i].status
              /\ Ended(span)[i].open <=> spans[i].open /\ i # span
<1>1. CASE span = 0
  BY <1>1 DEF Ended
<1>2. CASE span # 0
  <2> DEFINE e == [spans[span] EXCEPT !.open = FALSE]
  <2>1. spans[span] \in SpanType
    BY <1>2, ElementOfSeq
  <2>2. e \in SpanType /\ ~e.open /\ e.name = spans[span].name /\ e.parent = spans[span].parent
        /\ e.live = spans[span].live /\ e.status = spans[span].status
    BY <2>1 DEF SpanType
  <2>3. Ended(span) = [spans EXCEPT ![span] = e]
    BY <1>2 DEF Ended
  <2> HIDE DEF e
  <2> QED
    BY <1>2, <2>2, <2>3, ExceptSeq
<1> QED
  BY <1>1, <1>2

(* The same for a step that ends it.                                         *)
LEMMA EndedStep ==
  ASSUME spans \in Seq(SpanType), NEW span \in 0..Len(spans), spans' = Ended(span)
  PROVE  /\ Len(spans') = Len(spans)
         /\ \A i \in 1..Len(spans) :
              /\ spans'[i].name = spans[i].name /\ spans'[i].parent = spans[i].parent
              /\ spans'[i].live = spans[i].live
              /\ spans'[i].open <=> spans[i].open /\ i # span
<1> DEFINE e == Ended(span)
<1>1. /\ Len(e) = Len(spans)
      /\ \A i \in 1..Len(spans) :
           /\ e[i].name = spans[i].name /\ e[i].parent = spans[i].parent
           /\ e[i].live = spans[i].live
           /\ e[i].open <=> spans[i].open /\ i # span
  BY EndedSpan
<1>2. spans' = e
  OBVIOUS
<1> HIDE DEF e
<1> QED
  BY <1>1, <1>2

(* Positions and members of the sequence of spans.                           *)
LEMMA SpanTypes ==
  ASSUME spans \in Seq(SpanType)
  PROVE  /\ Len(spans) \in Nat /\ DOMAIN spans = 1..Len(spans)
         /\ \A i \in 1..Len(spans) : spans[i] \in SpanType
BY LenProperties, ElementOfSeq

-----------------------------------------------------------------------------
(* Answers and log entries.                                                 *)

(* The fields of a response after an update.                                *)
Rewrite(w, status, bodies, sent) == [w EXCEPT !.status = status, !.bodies = bodies, !.sent = sent]
AddTo(w, bodies, sent) == [w EXCEPT !.bodies = bodies, !.sent = sent]

(* What the operators of the wire return: type, status, number of sends.     *)
LEMMA Rewritten ==
  ASSUME NEW w \in WireType, NEW status \in Nat, NEW bodies \in Seq(Nat), NEW sent \in Nat
  PROVE  LET s == Rewrite(w, status, bodies, sent)
         IN  s \in WireType /\ s.status = status /\ s.sent = sent
BY Zenon DEF WireType, Rewrite

LEMMA AddedTo ==
  ASSUME NEW w \in WireType, NEW bodies \in Seq(Nat), NEW sent \in Nat
  PROVE  LET s == AddTo(w, bodies, sent)
         IN  /\ s \in WireType /\ s.sent = sent
             /\ s.status = w.status /\ s.asked = w.asked
BY Zenon DEF WireType, AddTo

(* Types of the parts of a wire.                                             *)
LEMMA Fields ==
  ASSUME NEW w \in WireType, NEW code \in Nat, NEW encoded
  PROVE  /\ w.status \in Nat /\ w.bodies \in Seq(Nat) /\ w.sent \in Nat /\ w.sent + 1 \in Nat
         /\ Bodies(w, code, encoded) \in Seq(Nat)
         /\ <<code>> \in Seq(Nat) /\ <<Text>> \in Seq(Nat) /\ Append(w.bodies, Text) \in Seq(Nat)
BY DEF Bodies, WireType, Text

LEMMA Header ==
  ASSUME NEW w \in WireType, NEW code \in Nat
  PROVE  LET h == WriteHeader(w, code)
         IN  /\ h \in WireType /\ h.sent = w.sent
             /\ h.status = IF w.status = 0 THEN code ELSE w.status
             /\ h.asked = code
<1> DEFINE status == IF w.status = 0 THEN code ELSE w.status
<1>1. status \in Nat
  BY Fields
<1>2. WriteHeader(w, code) = [w EXCEPT !.status = status, !.asked = code]
  BY DEF WriteHeader
<1> HIDE DEF status
<1>3. LET h == [w EXCEPT !.status = status, !.asked = code]
      IN  h \in WireType /\ h.sent = w.sent /\ h.status = status /\ h.asked = code
  BY <1>1, Zenon DEF WireType
<1> QED
  BY <1>2, <1>3 DEF status

(* The status a client sees: of the first answer with gin and net/http, of   *)
(* the last with Fiber.                                                      *)
LEMMA GinSent ==
  ASSUME NEW w \in WireType, NEW code \in Nat, NEW encoded
  PROVE  LET s == GinSend(w, code, encoded)
         IN  /\ s \in WireType /\ s.sent = w.sent + 1
             /\ s.status = IF w.bodies = <<>> THEN code ELSE w.status
<1> DEFINE status == IF w.bodies = <<>> THEN code ELSE w.status
<1>1. status \in Nat
  BY Fields
<1>2. GinSend(w, code, encoded) = Rewrite(w, status, Bodies(w, code, encoded), w.sent + 1)
  BY DEF GinSend, Rewrite
<1> DEFINE bodies == Bodies(w, code, encoded)
           sent == w.sent + 1
<1>3. bodies \in Seq(Nat) /\ sent \in Nat
  BY Fields
<1> HIDE DEF status, bodies, sent
<1>4. LET s == Rewrite(w, status, bodies, sent)
      IN  s \in WireType /\ s.sent = sent /\ s.status = status
  BY <1>1, <1>3, Rewritten
<1> QED
  BY <1>2, <1>4 DEF status, bodies, sent

LEMMA FiberSent ==
  ASSUME NEW w \in WireType, NEW code \in Nat, NEW encoded
  PROVE  LET s == FiberSend(w, code, encoded)
         IN  s \in WireType /\ s.sent = w.sent + 1 /\ s.status = code
<1> DEFINE bodies == IF encoded THEN <<code>> ELSE w.bodies
<1>1. bodies \in Seq(Nat)
  BY Fields
<1>2. FiberSend(w, code, encoded) = Rewrite(w, code, bodies, w.sent + 1)
  BY DEF FiberSend, Rewrite
<1> DEFINE sent == w.sent + 1
<1>3. sent \in Nat
  BY Fields
<1> HIDE DEF bodies, sent
<1>4. LET s == Rewrite(w, code, bodies, sent)
      IN  s \in WireType /\ s.sent = sent /\ s.status = code
  BY <1>1, <1>3, Rewritten
<1> QED
  BY <1>2, <1>4 DEF sent

LEMMA NetHTTPSent ==
  ASSUME NEW w \in WireType, NEW code \in Nat, NEW encoded
  PROVE  LET s == NetHTTPSend(w, code, encoded)
         IN  /\ s \in WireType /\ s.sent = w.sent + 1
             /\ s.status = IF w.status = 0 THEN code ELSE w.status
             /\ s.asked = code
<1> DEFINE h == WriteHeader(w, code)
<1>1. /\ h \in WireType /\ h.sent = w.sent
      /\ h.status = IF w.status = 0 THEN code ELSE w.status
      /\ h.asked = code
  BY Header
<1>2. NetHTTPSend(w, code, encoded) = AddTo(h, Bodies(w, code, encoded), h.sent + 1)
  BY DEF NetHTTPSend, AddTo
<1>3. Bodies(w, code, encoded) \in Seq(Nat) /\ w.sent + 1 \in Nat
  BY Fields
<1> HIDE DEF h
<1>4. LET s == AddTo(h, Bodies(w, code, encoded), w.sent + 1)
      IN  s \in WireType /\ s.sent = w.sent + 1 /\ s.status = h.status /\ s.asked = h.asked
  BY <1>1, <1>3, AddedTo
<1> QED
  BY <1>1, <1>2, <1>4

LEMMA FiberAborted ==
  ASSUME NEW w \in WireType
  PROVE  LET a == FiberAbort(w)
         IN  a \in WireType /\ a.sent = w.sent /\ a.status = w.status
<1>1. FiberAbort(w) = w \/ FiberAbort(w) = [w EXCEPT !.bodies = <<Text>>]
  BY DEF FiberAbort
<1>2. w.sent \in Nat /\ <<Text>> \in Seq(Nat)
  BY DEF Text, WireType
<1>3. LET a == [w EXCEPT !.bodies = <<Text>>]
      IN  a \in WireType /\ a.sent = w.sent /\ a.status = w.status
  BY <1>2, Zenon DEF WireType
<1> QED
  BY <1>1, <1>3

(* The same for the adapter in use, and for Abort.                           *)
LEMMA SentAnswer ==
  ASSUME adapter \in Adapters, NEW w \in WireType, NEW code \in Nat, NEW encoded
  PROVE  LET s == Send(w, code, encoded)
         IN  /\ s \in WireType /\ s.sent = w.sent + 1
             /\ adapter = "gin" => s.status = IF w.bodies = <<>> THEN code ELSE w.status
             /\ adapter = "fiber" => s.status = code
             /\ adapter = "nethttp" => /\ s.status = IF w.status = 0 THEN code ELSE w.status
                                       /\ s.asked = code
<1>1. CASE adapter = "gin"
  <2>1. Send(w, code, encoded) = GinSend(w, code, encoded)
    BY <1>1 DEF Send
  <2> QED
    BY <1>1, <2>1, GinSent
<1>2. CASE adapter = "fiber"
  <2>1. Send(w, code, encoded) = FiberSend(w, code, encoded)
    BY <1>2 DEF Send
  <2> QED
    BY <1>2, <2>1, FiberSent
<1>3. CASE adapter = "nethttp"
  <2>1. Send(w, code, encoded) = NetHTTPSend(w, code, encoded)
    BY <1>3 DEF Send
  <2> QED
    BY <1>3, <2>1, NetHTTPSent
<1> QED
  BY <1>1, <1>2, <1>3 DEF Adapters

LEMMA AbortedAnswer ==
  ASSUME adapter \in Adapters, NEW w \in WireType
  PROVE  LET a == Abort(w)
         IN  /\ a \in WireType /\ a.sent = w.sent
             /\ adapter # "nethttp" => a.status = w.status
             /\ adapter = "nethttp" => /\ a.status = IF w.status = 0 THEN 500 ELSE w.status
                                       /\ a.asked = 500
<1>1. CASE adapter = "gin"
  BY <1>1 DEF Abort, GinAbort
<1>2. CASE adapter = "fiber"
  BY <1>2, FiberAborted DEF Abort
<1>3. CASE adapter = "nethttp"
  BY <1>3, Header DEF Abort, NetHTTPAbort
<1> QED
  BY <1>1, <1>2, <1>3 DEF Adapters

(* The answers that a framework gives by itself.                            *)
LEMMA FiberErrors ==
  ASSUME NEW w \in WireType, NEW code \in {404, 405, 500}
  PROVE  /\ FiberErrorHandler(w, code) \in WireType
         /\ FiberErrorHandler(w, code).status = IF code = 404 THEN 404 ELSE 500
<1> DEFINE answer(x, c) == FiberAbort(FiberSend(x, c, TRUE))
<1>1. ASSUME NEW x \in WireType, NEW c \in Nat
      PROVE  answer(x, c) \in WireType /\ answer(x, c).status = c
  <2>1. \A e : FiberSend(x, c, e) \in WireType /\ FiberSend(x, c, e).status = c
    BY <1>1, FiberSent
  <2> DEFINE t == FiberSend(x, c, TRUE)
  <2>2. t \in WireType /\ t.status = c
    BY <2>1, Zenon
  <2> HIDE DEF t
  <2>3. FiberAbort(t) \in WireType /\ FiberAbort(t).status = c
    BY <2>2, FiberAborted
  <2> QED
    BY <2>3 DEF t
<1>2. FiberErrorHandler(w, code) = IF code \in {404, 500} THEN answer(w, code)
                                   ELSE answer(answer(w, 500), 500)
  BY DEF FiberErrorHandler
<1> HIDE DEF answer
<1> QED
  BY <1>1, <1>2

(* The error handlers of the frameworks.                                     *)
LEMMA NetHTTPErrors ==
  ASSUME NEW w \in WireType, NEW code \in {404, 405}
  PROVE  LET a == NetHTTPErrorHandler(w, code)
         IN  a \in WireType /\ (w.status = 0 => a.status = code) /\ a.asked = 500
<1> DEFINE s == NetHTTPSend(w, code, TRUE)
<1>1. \A e : /\ NetHTTPSend(w, code, e) \in WireType
              /\ NetHTTPSend(w, code, e).status = IF w.status = 0 THEN code ELSE w.status
  BY NetHTTPSent
<1>2. s \in WireType /\ s.status = IF w.status = 0 THEN code ELSE w.status
  BY <1>1, Zenon
<1>3. NetHTTPErrorHandler(w, code) = WriteHeader(s, 500)
  BY DEF NetHTTPErrorHandler, NetHTTPAbort
<1> HIDE DEF s
<1> DEFINE k == 500
           h == WriteHeader(s, k)
<1>4. k \in Nat
  OBVIOUS
<1>5. NetHTTPErrorHandler(w, code) = h
  BY <1>3
<1> HIDE DEF k
<1>6. /\ WriteHeader(s, k) \in WireType /\ WriteHeader(s, k).asked = k
      /\ WriteHeader(s, k).status = IF s.status = 0 THEN k ELSE s.status
  <2>1. s \in WireType
    BY <1>2
  <2> QED
    BY <2>1, <1>4, Header
<1>7. h \in WireType /\ h.asked = k /\ h.status = IF s.status = 0 THEN k ELSE s.status
  BY <1>6
<1> HIDE DEF h
<1>8. w.status = 0 => h.status = code
  BY <1>2, <1>7
<1>9. h.asked = 500
  BY <1>7 DEF k
<1> QED
  BY <1>7, <1>5, <1>8, <1>9

LEMMA Recovered ==
  ASSUME adapter \in Adapters, NEW w \in WireType
  PROVE  LET a == FrameworkRecovery(w)
         IN  /\ a \in WireType
             /\ adapter = "fiber" => a.status = 500
             /\ adapter # "fiber" => a.sent = w.sent /\ a.status \in {500, w.status}
<1>1. CASE adapter = "fiber"
  BY <1>1, FiberErrors DEF FrameworkRecovery
<1>2. CASE adapter = "gin"
  <2>1. FrameworkRecovery(w) = GinRecovery(w)
    BY <1>2 DEF FrameworkRecovery
  <2> QED
    BY <1>2, <2>1 DEF GinRecovery, WireType
<1>3. CASE adapter = "nethttp"
  <2> DEFINE h == WriteHeader(w, 500)
  <2>1. h \in WireType /\ h.sent = w.sent /\ h.status \in {500, w.status}
    BY Header
  <2>2. FrameworkRecovery(w) = [h EXCEPT !.bodies = Append(h.bodies, Text)]
    BY <1>3 DEF FrameworkRecovery, NetHTTPRecovery
  <2> HIDE DEF h
  <2>3. Append(h.bodies, Text) \in Seq(Nat)
    BY <2>1 DEF Text, WireType
  <2>4. LET a == [h EXCEPT !.bodies = Append(h.bodies, Text)]
        IN  a \in WireType /\ a.sent = h.sent /\ a.status = h.status
    BY <2>1, <2>3, Zenon DEF WireType
  <2> QED
    BY <1>3, <2>1, <2>2, <2>4
<1> QED
  BY <1>1, <1>2, <1>3 DEF Adapters

(* Notes that are joined: of each kind there is something if one has it.     *)
Joined(a, b) == Notes(a.tags \o b.tags, a.arrays \o b.arrays, a.errors \o b.errors)

LEMMA NotesOf ==
  ASSUME NEW tags \in Seq(Tags), NEW arrays \in Seq(Arrays), NEW errors \in Seq({"error"})
  PROVE  LET n == Notes(tags, arrays, errors)
         IN  n \in Logs /\ n.tags = tags /\ n.arrays = arrays /\ n.errors = errors
BY DEF Notes, Logs

LEMMA JoinedNotes ==
  ASSUME NEW a \in Logs, NEW b \in Logs
  PROVE  LET n == Joined(a, b)
         IN  /\ n \in Logs
             /\ n.tags = a.tags \o b.tags /\ n.arrays = a.arrays \o b.arrays
             /\ n.errors = a.errors \o b.errors
             /\ n.tags # <<>> <=> a.tags # <<>> \/ b.tags # <<>>
             /\ n.errors # <<>> <=> a.errors # <<>> \/ b.errors # <<>>
<1>1. /\ a.tags \in Seq(Tags) /\ a.arrays \in Seq(Arrays) /\ a.errors \in Seq({"error"})
      /\ b.tags \in Seq(Tags) /\ b.arrays \in Seq(Arrays) /\ b.errors \in Seq({"error"})
  BY DEF Logs
<1> DEFINE tags == a.tags \o b.tags
           arrays == a.arrays \o b.arrays
           errors == a.errors \o b.errors
<1>2. tags \in Seq(Tags) /\ arrays \in Seq(Arrays) /\ errors \in Seq({"error"})
  BY <1>1, ConcatProperties
<1>3. /\ tags # <<>> <=> a.tags # <<>> \/ b.tags # <<>>
      /\ errors # <<>> <=> a.errors # <<>> \/ b.errors # <<>>
  BY <1>1, ConcatEqualIffEmpty
<1>4. Joined(a, b) = Notes(tags, arrays, errors)
  BY DEF Joined
<1> HIDE DEF tags, arrays, errors
<1>5. LET n == Notes(tags, arrays, errors)
      IN  n \in Logs /\ n.tags = tags /\ n.arrays = arrays /\ n.errors = errors
  BY <1>2, NotesOf
<1> QED
  BY <1>3, <1>4, <1>5 DEF tags, arrays, errors

(* They leave user and status alone.                                        *)
LEMMA LoggedEntries ==
  ASSUME NEW store \in LocalType(Users, Logs), NEW new \in Logs
  PROVE  LET s == WithLogs(store, new)
         IN  /\ s \in LocalType(Users, Logs)
             /\ s.user = store.user /\ s.status = store.status
             /\ s.log = Joined(store.log, new)
<1>1. store.log \in Logs
  BY DEF LocalType
<1> DEFINE log == Joined(store.log, new)
<1>2. log \in Logs
  BY <1>1, JoinedNotes
<1>3. WithLogs(store, new) = [store EXCEPT !.log = log]
  BY DEF WithLogs, Joined
<1> HIDE DEF log
<1>4. LET s == [store EXCEPT !.log = log]
      IN  /\ s \in LocalType(Users, Logs)
          /\ s.user = store.user /\ s.status = store.status /\ s.log = log
  BY <1>2, Zenon DEF LocalType
<1> QED
  BY <1>3, <1>4 DEF log

(* Notes that are only tags, or only arrays.                                *)
LEMMA OnlyArrays ==
  ASSUME NEW arrays \in Seq(Arrays)
  PROVE  LET n == Notes(<<>>, arrays, <<>>)
         IN  n \in Logs /\ n.tags = <<>> /\ n.errors = <<>>
<1> DEFINE none == <<>>
<1>1. none \in Seq(Tags) /\ none \in Seq({"error"})
  BY EmptySeq
<1> HIDE DEF none
<1>2. LET n == Notes(none, arrays, none)
      IN  n \in Logs /\ n.tags = none /\ n.errors = none
  BY <1>1, NotesOf
<1> QED
  BY <1>2 DEF none

(* What an answer notes.                                                    *)
AnswerLog(code, e) ==
  /\ e \in Logs /\ e.tags # <<>> /\ Len(e.arrays) \in 0..1
  /\ e.errors # <<>> <=> code # 200
  /\ code # 200 => Len(e.tags) = 2 /\ Len(e.errors) = 1

LEMMA AnswerEntries ==
  ASSUME NEW code \in Nat, NEW encoded
  PROVE  AnswerLog(code, AnswerNotes(code, encoded))
<1> DEFINE one == <<"status">>
           two == <<"status", "details">>
           late == <<"sending">>
           error == <<"error">>
           tags == IF code = 200 THEN one ELSE two
           arrays == IF encoded \/ adapter = "gin" THEN <<>> ELSE late
           errors == IF code = 200 THEN <<>> ELSE error
<1>1. /\ one \in Seq(Tags) /\ two \in Seq(Tags) /\ late \in Seq(Arrays) /\ error \in Seq({"error"})
      /\ one # <<>> /\ two # <<>> /\ Len(two) = 2 /\ error # <<>> /\ Len(error) = 1 /\ Len(late) = 1
  BY DEF Tags, Arrays
<1>2. <<>> \in Seq(Arrays) /\ <<>> \in Seq({"error"}) /\ Len(<<>>) = 0
  BY EmptySeq
<1>3. AnswerNotes(code, encoded) = Notes(tags, arrays, errors)
  BY DEF AnswerNotes
<1> HIDE DEF one, two, late, error
<1>4. /\ tags \in Seq(Tags) /\ tags # <<>> /\ (code # 200 => Len(tags) = 2)
      /\ errors \in Seq({"error"}) /\ (errors # <<>> <=> code # 200) /\ (code # 200 => Len(errors) = 1)
  BY <1>1, <1>2
<1>5. arrays \in Seq(Arrays) /\ Len(arrays) \in 0..1
  BY <1>1, <1>2
<1> HIDE DEF tags, arrays, errors
<1>6. LET n == Notes(tags, arrays, errors)
      IN  n \in Logs /\ n.tags = tags /\ n.arrays = arrays /\ n.errors = errors
  BY <1>4, <1>5, NotesOf
<1> QED
  BY <1>3, <1>4, <1>5, <1>6 DEF AnswerLog

-----------------------------------------------------------------------------
(* Induction over the numbers of a set.                                     *)

(* A set of numbers has a least member, because < is well-founded.           *)
LEMMA LeastNumber ==
  ASSUME NEW S \in SUBSET Nat, S # {}
  PROVE  \E n \in S : \A m \in S : n <= m
<1>1. IsWellFoundedOn(OpToRel(<, Nat), Nat)
  BY NatLessThanWellFounded
<1>2. PICK n \in S : \A m \in S : ~(<<m, n>> \in OpToRel(<, Nat))
  BY <1>1, WFMin
<1>3. \A m \in S : ~(m < n)
  BY <1>2 DEF OpToRel
<1> QED
  BY <1>3

(* So 0 and all successors are all numbers.                                  *)
LEMMA AllNumbers ==
  ASSUME NEW S \in SUBSET Nat, 0 \in S, \A n \in S : n + 1 \in S
  PROVE  S = Nat
<1> SUFFICES ASSUME S # Nat
             PROVE  FALSE
  OBVIOUS
<1>1. PICK n \in Nat \ S : \A m \in Nat \ S : n <= m
  BY LeastNumber
<1>2. n # 0 /\ n - 1 \in Nat /\ ~(n <= n - 1)
  BY <1>1
<1> QED
  BY <1>1, <1>2

(* What occurs has a last occurrence: the greatest position, found as the    *)
(* least distance from the end.                                              *)
Recurs(s, i, len) == \E k \in i..len : s[k] = s[i] /\ \A j \in (k + 1)..len : s[j] # s[k]

LEMMA LastOccurrence ==
  ASSUME NEW s, NEW len \in Nat, NEW i \in 1..len
  PROVE  Recurs(s, i, len)
<1> DEFINE Far == {n \in Nat : n <= len - i /\ s[len - n] = s[i]}
<1>1. len - i \in Far /\ len - (len - i) = i
  OBVIOUS
<1>2. PICK n \in Far : \A m \in Far : n <= m
  BY <1>1, LeastNumber
<1> DEFINE k == len - n
<1>3. k \in i..len /\ s[k] = s[i]
  BY <1>2
<1>4. ASSUME NEW j \in (k + 1)..len, s[j] = s[k]
      PROVE  FALSE
  <2>1. len - j \in Nat /\ len - j < n /\ len - (len - j) = j /\ len - j <= len - i
    BY <1>2, <1>4
  <2>2. len - j \in Far
    BY <1>3, <1>4, <2>1
  <2> QED
    BY <1>2, <2>1, <2>2
<1> QED
  BY <1>3, <1>4 DEF Recurs

(* An attribute is the last one of its key.                                 *)
IsLast(s, i) == \A j \in (i + 1)..Len(s) : s[j].key # s[i].key

(* The recursive function of NetHTTPAttributes.                             *)
IsKeep(f, all, n) ==
  f = [i \in 0..n |-> IF i = 0 THEN <<>>
                      ELSE IF IsLast(all, i) THEN Append(f[i - 1], all[i]) ELSE f[i - 1]]

(* The recursive function of net/http exists: a partial one can be extended  *)
(* by one entry.                                                             *)
LEMMA KeepExists ==
  ASSUME NEW all, NEW len \in Nat
  PROVE  \E f : IsKeep(f, all, len)
<1>1. \E f : IsKeep(f, all, 0)
  <2>1. IsKeep([i \in 0..0 |-> <<>>], all, 0)
    BY DEF IsKeep
  <2> QED
    BY <2>1
<1>2. ASSUME NEW n \in Nat, NEW f, IsKeep(f, all, n)
      PROVE  \E g : IsKeep(g, all, n + 1)
  <2> DEFINE next == IF IsLast(all, n + 1) THEN Append(f[n], all[n + 1]) ELSE f[n]
             g == [i \in 0..n + 1 |-> IF i = n + 1 THEN next ELSE f[i]]
  <2>1. \A i \in 0..n : f[i] = IF i = 0 THEN <<>>
                               ELSE IF IsLast(all, i) THEN Append(f[i - 1], all[i]) ELSE f[i - 1]
    BY <1>2 DEF IsKeep
  <2>2. (\A i \in 0..n : g[i] = f[i]) /\ g[n + 1] = next
    OBVIOUS
  <2>3. ASSUME NEW i \in 0..n + 1
        PROVE  g[i] = IF i = 0 THEN <<>>
                      ELSE IF IsLast(all, i) THEN Append(g[i - 1], all[i]) ELSE g[i - 1]
    <3> HIDE DEF g
    <3>1. CASE i = n + 1
      BY <3>1, <2>2
    <3>2. CASE i \in 1..n
      <4>1. i \in 0..n /\ i - 1 \in 0..n
        BY <3>2
      <4> QED
        BY <3>2, <4>1, <2>1, <2>2
    <3>3. CASE i = 0
      BY <3>3, <2>1, <2>2
    <3> QED
      BY <3>1, <3>2, <3>3
  <2>4. IsKeep(g, all, n + 1)
    BY <2>3 DEF IsKeep
  <2> QED
    BY <2>4
<1> DEFINE S == {n \in Nat : \E f : IsKeep(f, all, n)}
<1>3. 0 \in S /\ \A n \in S : n + 1 \in S
  BY <1>1, <1>2
<1>4. S \in SUBSET Nat
  OBVIOUS
<1> HIDE DEF S
<1>5. S = Nat
  BY <1>3, <1>4, AllNumbers
<1>6. len \in S
  BY <1>5
<1> QED
  BY <1>6 DEF S

(* Appending adds one attribute to the range.                                    *)
LEMMA RangeOfAppend ==
  ASSUME NEW s \in Seq(AttrType), NEW e \in AttrType
  PROVE  Append(s, e) \in Seq(AttrType) /\ RangeOf(Append(s, e)) = RangeOf(s) \cup {e}
<1>1. /\ Append(s, e) \in Seq(AttrType) /\ Len(Append(s, e)) = Len(s) + 1 /\ Len(s) \in Nat
      /\ \A i \in 1..Len(s) : Append(s, e)[i] = s[i]
      /\ Append(s, e)[Len(s) + 1] = e
  BY AppendProperties, LenProperties
<1> DEFINE t == Append(s, e)
<1> HIDE DEF t
<1>2. /\ t \in Seq(AttrType) /\ Len(t) = Len(s) + 1 /\ Len(s) \in Nat
      /\ \A i \in 1..Len(s) : t[i] = s[i]
      /\ t[Len(s) + 1] = e
  BY <1>1 DEF t
<1>3. RangeOf(t) = RangeOf(s) \cup {e}
  BY <1>2 DEF RangeOf
<1> QED
  BY <1>2, <1>3 DEF t

(* Attributes of one key are the same.                                       *)
SameByKey(s) == \A i, j \in 1..Len(s) : s[i].key = s[j].key => s[i] = s[j]

(* It keeps the last attribute of each key, and no other.                   *)
LEMMA KeepKeeps ==
  ASSUME NEW all \in Seq(AttrType), SameByKey(all), NEW f, IsKeep(f, all, Len(all))
  PROVE  LET kept == f[Len(all)]
         IN  kept \in Seq(AttrType) /\ RangeOf(kept) = RangeOf(all) /\ KeyOnce(kept)
<1> DEFINE Lasts(n) == {all[i] : i \in {k \in 1..n : IsLast(all, k)}}
           Good(n) == f[n] \in Seq(AttrType) /\ RangeOf(f[n]) = Lasts(n) /\ KeyOnce(f[n])
           S == {n \in Nat : n <= Len(all) => Good(n)}
<1>1. Len(all) \in Nat /\ \A i \in 1..Len(all) : all[i] \in AttrType
  BY LenProperties, ElementOfSeq
<1>2. \A i \in 0..Len(all) :
        f[i] = IF i = 0 THEN <<>>
               ELSE IF IsLast(all, i) THEN Append(f[i - 1], all[i]) ELSE f[i - 1]
  BY DEF IsKeep
<1>3. Good(0)
  <2>1. f[0] = <<>> /\ <<>> \in Seq(AttrType) /\ Len(<<>>) = 0
    BY <1>1, <1>2, EmptySeq
  <2>2. RangeOf(f[0]) = {} /\ Lasts(0) = {} /\ KeyOnce(f[0])
    BY <2>1 DEF RangeOf, KeyOnce
  <2> QED
    BY <2>1, <2>2
<1>4. ASSUME NEW n \in Nat, n + 1 <= Len(all), Good(n)
      PROVE  Good(n + 1)
  <2>1. n \in 0..Len(all) /\ n + 1 \in 1..Len(all) /\ n + 1 - 1 = n
    BY <1>1, <1>4
  <2>2. /\ f[n] \in Seq(AttrType) /\ RangeOf(f[n]) = Lasts(n) /\ KeyOnce(f[n])
        /\ all[n + 1] \in AttrType
    BY <1>1, <1>4, <2>1
  <2>3. f[n + 1] = IF IsLast(all, n + 1) THEN Append(f[n], all[n + 1]) ELSE f[n]
    BY <1>2, <2>1
  <2>4. Lasts(n + 1) = IF IsLast(all, n + 1) THEN Lasts(n) \cup {all[n + 1]} ELSE Lasts(n)
    BY <2>1
  <2>5. \A a \in Lasts(n) : a.key # all[n + 1].key
    <3>1. ASSUME NEW k \in 1..n, IsLast(all, k)
          PROVE  all[k].key # all[n + 1].key
      BY <2>1, <3>1 DEF IsLast
    <3> QED
      BY <3>1
  <2> HIDE DEF Lasts
  <2>6. CASE IsLast(all, n + 1)
    <3> DEFINE t == Append(f[n], all[n + 1])
    <3>1. f[n + 1] = t /\ Lasts(n + 1) = Lasts(n) \cup {all[n + 1]}
      BY <2>3, <2>4, <2>6
    <3>2. t \in Seq(AttrType) /\ RangeOf(t) = RangeOf(f[n]) \cup {all[n + 1]}
      BY <2>2, RangeOfAppend
    <3>3. /\ Len(t) = Len(f[n]) + 1 /\ Len(f[n]) \in Nat /\ t[Len(f[n]) + 1] = all[n + 1]
          /\ \A i \in 1..Len(f[n]) : t[i] = f[n][i]
      BY <2>2, AppendProperties, LenProperties
    <3> HIDE DEF t
    <3>4. \A i \in 1..Len(f[n]) : f[n][i].key # all[n + 1].key
      BY <2>2, <2>5 DEF RangeOf
    <3>5. KeyOnce(t)
      <4> SUFFICES ASSUME NEW i \in 1..Len(t), NEW j \in 1..Len(t), t[i].key = t[j].key
                   PROVE  i = j
        BY DEF KeyOnce
      <4>1. CASE i \in 1..Len(f[n]) /\ j \in 1..Len(f[n])
        BY <2>2, <3>3, <4>1 DEF KeyOnce
      <4>2. CASE i = Len(f[n]) + 1 /\ j \in 1..Len(f[n])
        <5>1. t[i] = all[n + 1] /\ t[j] = f[n][j]
          BY <3>3, <4>2
        <5> QED
          BY <3>4, <4>2, <5>1
      <4>3. CASE j = Len(f[n]) + 1 /\ i \in 1..Len(f[n])
        <5>1. t[j] = all[n + 1] /\ t[i] = f[n][i]
          BY <3>3, <4>3
        <5> QED
          BY <3>4, <4>3, <5>1
      <4>4. /\ i \in 1..Len(f[n]) \/ i = Len(f[n]) + 1
            /\ j \in 1..Len(f[n]) \/ j = Len(f[n]) + 1
        BY <3>3
      <4> QED
        BY <4>1, <4>2, <4>3, <4>4
    <3> QED
      BY <2>2, <3>1, <3>2, <3>5
  <2>7. CASE ~IsLast(all, n + 1)
    BY <2>2, <2>3, <2>4, <2>7
  <2> QED
    BY <2>6, <2>7
<1> HIDE DEF Good
<1>5. S \in SUBSET Nat /\ 0 \in S /\ \A n \in S : n + 1 \in S
  <2>1. \A n \in S : n \in Nat /\ n + 1 \in Nat /\ (n + 1 <= Len(all) => n <= Len(all) /\ Good(n))
    BY <1>1
  <2>2. \A n \in S : n + 1 <= Len(all) => Good(n + 1)
    BY <1>4, <2>1
  <2> QED
    BY <1>3, <2>1, <2>2
<1>6. S = Nat
  <2> HIDE DEF S
  <2> QED
    BY <1>5, AllNumbers
<1>7. Good(Len(all))
  <2>1. Len(all) \in S
    <3> HIDE DEF S
    <3> QED
      BY <1>1, <1>6
  <2> QED
    BY <1>1, <2>1
<1>8. Lasts(Len(all)) = RangeOf(all)
  <2>1. ASSUME NEW i \in 1..Len(all)
        PROVE  \E k \in 1..Len(all) : all[k] = all[i] /\ IsLast(all, k)
    <3>1. \E keys : \A j \in 1..Len(all) : keys[j] = all[j].key
      <4> DEFINE keys == [j \in 1..Len(all) |-> all[j].key]
      <4>1. \A j \in 1..Len(all) : keys[j] = all[j].key
        OBVIOUS
      <4> HIDE DEF keys
      <4> QED
        BY <4>1
    <3>2. PICK keys : \A j \in 1..Len(all) : keys[j] = all[j].key
      BY <3>1
    <3>3. Len(all) \in Nat
      BY <1>1
    <3>4. Recurs(keys, i, Len(all))
      BY <3>3, LastOccurrence
    <3>5. PICK k \in i..Len(all) :
            keys[k] = keys[i] /\ \A j \in (k + 1)..Len(all) : keys[j] # keys[k]
      BY <3>4 DEF Recurs
    <3>6. k \in 1..Len(all) /\ all[k].key = all[i].key
      BY <1>1, <3>5, <3>2
    <3>7. \A j \in (k + 1)..Len(all) : all[j].key # all[k].key
      <4>1. ASSUME NEW j \in (k + 1)..Len(all)
            PROVE  keys[j] # keys[k] /\ j \in 1..Len(all)
        BY <1>1, <3>5, <3>6
      <4> QED
        BY <3>6, <3>2, <4>1
    <3>8. all[k] = all[i]
      BY <3>6 DEF SameByKey
    <3> QED
      BY <3>6, <3>7, <3>8 DEF IsLast
  <2> QED
    BY <2>1 DEF RangeOf
<1> QED
  BY <1>7, <1>8 DEF Good

(* So the attributes on net/http have each key once.                         *)
LEMMA KeptAttributes ==
  ASSUME attrs = <<>>, NEW new \in Seq(AttrType), SameByKey(new)
  PROVE  LET kept == NetHTTPAttributes(new)
         IN  kept \in Seq(AttrType) /\ RangeOf(kept) = RangeOf(new) /\ KeyOnce(kept)
<1>1. attrs \o new = new
  BY ConcatEmptySeq
<1>2. Len(new) \in Nat
  BY LenProperties
<1> DEFINE last(i) == \A j \in (i + 1)..Len(new) : new[j].key # new[i].key
           keep[i \in 0..Len(new)] ==
             IF i = 0 THEN <<>>
             ELSE IF last(i) THEN Append(keep[i - 1], new[i]) ELSE keep[i - 1]
<1>3. NetHTTPAttributes(new) = keep[Len(new)]
  BY <1>1 DEF NetHTTPAttributes
<1>4. IsKeep(keep, new, Len(new))
  BY <1>2, KeepExists DEF IsKeep, IsLast
<1> HIDE DEF keep
<1> QED
  BY <1>3, <1>4, KeepKeeps

(* What Recovery gives of a log: its tags and errors under their own names,  *)
(* and the arrays together.                                                  *)
LEMMA EachAttribute ==
  ASSUME NEW names, Len(names) \in Nat, \A i \in 1..Len(names) : names[i] \in Tags \cup {"error"}
  PROVE  /\ Each(names) \in Seq(AttrType) /\ Len(Each(names)) = Len(names)
         /\ \A i \in 1..Len(names) : Each(names)[i] = Attribute(names[i], <<>>)
<1>1. \A i \in 1..Len(names) : Attribute(names[i], <<>>) \in AttrType
  <2>1. <<>> \in Seq(Arrays)
    BY EmptySeq
  <2> QED
    BY <2>1 DEF Attribute, AttrType
<1>2. Each(names) \in [1..Len(names) -> AttrType]
  BY <1>1 DEF Each
<1>3. Each(names) \in Seq(AttrType)
  BY <1>2, IsASeq
<1>4. Len(Each(names)) = Len(names)
  BY <1>2, <1>3, LenProperties
<1> QED
  BY <1>3, <1>4 DEF Each

(* The members of two sequences in a row.                                    *)
LEMMA RangeOfBoth ==
  ASSUME NEW S, NEW a \in Seq(S), NEW b \in Seq(S)
  PROVE  a \o b \in Seq(S) /\ RangeOf(a \o b) = RangeOf(a) \cup RangeOf(b)
<1> DEFINE c == a \o b
<1>1. /\ c \in Seq(S) /\ Len(c) = Len(a) + Len(b)
      /\ \A i \in 1..Len(a) + Len(b) : c[i] = IF i <= Len(a) THEN a[i] ELSE b[i - Len(a)]
      /\ Len(a) \in Nat /\ Len(b) \in Nat
  BY ConcatProperties, LenProperties
<1> HIDE DEF c
<1>2. ASSUME NEW i \in 1..Len(c)
      PROVE  c[i] \in RangeOf(a) \cup RangeOf(b)
  <2>1. CASE i <= Len(a)
    BY <1>1, <2>1 DEF RangeOf
  <2>2. CASE ~(i <= Len(a))
    <3>1. i - Len(a) \in 1..Len(b) /\ c[i] = b[i - Len(a)]
      BY <1>1, <2>2
    <3> QED
      BY <3>1 DEF RangeOf
  <2> QED
    BY <2>1, <2>2
<1>3. ASSUME NEW i \in 1..Len(a)
      PROVE  a[i] \in RangeOf(c)
  BY <1>1 DEF RangeOf
<1>4. ASSUME NEW i \in 1..Len(b)
      PROVE  b[i] \in RangeOf(c)
  <2> DEFINE k == Len(a) + i
  <2>1. k \in 1..Len(a) + Len(b) /\ ~(k <= Len(a)) /\ k - Len(a) = i
    BY <1>1
  <2> HIDE DEF k
  <2>2. k \in 1..Len(c) /\ c[k] = b[i]
    BY <1>1, <2>1
  <2> QED
    BY <2>2 DEF RangeOf
<1>5. RangeOf(c) = RangeOf(a) \cup RangeOf(b)
  BY <1>2, <1>3, <1>4 DEF RangeOf
<1> QED
  BY <1>1, <1>5 DEF c

(* No two attributes share a key unless they are the same, and there is an   *)
(* error among them exactly when one was noted.                              *)
LEMMA AttributesOf ==
  ASSUME NEW log \in Logs
  PROVE  LET all == Attributes(log)
         IN  /\ all \in Seq(AttrType) /\ SameByKey(all)
             /\ (\E a \in RangeOf(all) : a.key = "error") <=> log.errors # <<>>
<1> DEFINE tags == Each(log.tags)
           errors == Each(log.errors)
           handler == Attribute("handler", log.arrays)
           group == IF log.arrays = <<>> THEN <<>> ELSE <<handler>>
           all == tags \o group \o errors
           Of(key) == Attribute(key, IF key = "handler" THEN log.arrays ELSE <<>>)
<1>1. /\ Len(log.tags) \in Nat /\ \A i \in 1..Len(log.tags) : log.tags[i] \in Tags
      /\ Len(log.errors) \in Nat /\ \A i \in 1..Len(log.errors) : log.errors[i] = "error"
      /\ log.arrays \in Seq(Arrays) /\ log.errors \in Seq({"error"})
  BY LenProperties, ElementOfSeq DEF Logs
<1>2. /\ tags \in Seq(AttrType) /\ Len(tags) = Len(log.tags)
      /\ \A i \in 1..Len(log.tags) : tags[i] = Attribute(log.tags[i], <<>>)
  BY <1>1, EachAttribute
<1>3. /\ errors \in Seq(AttrType) /\ Len(errors) = Len(log.errors)
      /\ \A i \in 1..Len(log.errors) : errors[i] = Attribute(log.errors[i], <<>>)
  BY <1>1, EachAttribute
<1>4. group \in Seq(AttrType) /\ \A a \in RangeOf(group) : a = handler
  <2>1. handler \in AttrType
    BY <1>1 DEF Attribute, AttrType
  <2> HIDE DEF handler
  <2>2. CASE log.arrays = <<>>
    <3>1. group = <<>> /\ Len(<<>>) = 0 /\ <<>> \in Seq(AttrType)
      BY <2>2, EmptySeq
    <3> QED
      BY <3>1 DEF RangeOf
  <2>3. CASE log.arrays # <<>>
    <3>1. group = <<handler>>
      BY <2>3
    <3>2. <<handler>> \in Seq(AttrType) /\ RangeOf(<<handler>>) = {handler}
      BY <2>1 DEF RangeOf
    <3> QED
      BY <3>1, <3>2
  <2> QED
    BY <2>2, <2>3
<1> HIDE DEF tags, errors, group
<1>5. tags \o group \in Seq(AttrType) /\ RangeOf(tags \o group) = RangeOf(tags) \cup RangeOf(group)
  BY <1>2, <1>4, RangeOfBoth
<1>6. all \in Seq(AttrType) /\ RangeOf(all) = RangeOf(tags) \cup RangeOf(group) \cup RangeOf(errors)
  <2> DEFINE first == tags \o group
  <2>1. first \in Seq(AttrType) /\ RangeOf(first) = RangeOf(tags) \cup RangeOf(group)
    BY <1>5
  <2> HIDE DEF first
  <2>2. first \o errors \in Seq(AttrType) /\ RangeOf(first \o errors) = RangeOf(first) \cup RangeOf(errors)
    BY <1>3, <2>1, RangeOfBoth
  <2>3. all = first \o errors
    BY DEF first
  <2> QED
    BY <2>1, <2>2, <2>3
<1>7. \A k \in Tags \cup {"error"} : Attribute(k, <<>>).key = k /\ Attribute(k, <<>>) = Of(k)
  BY DEF Attribute, Tags
<1>8. \A a \in RangeOf(tags) : a.key \in Tags /\ a = Of(a.key)
  <2> HIDE DEF Of
  <2>1. ASSUME NEW i \in 1..Len(tags)
        PROVE  tags[i].key \in Tags /\ tags[i] = Of(tags[i].key)
    <3> DEFINE name == log.tags[i]
    <3>1. name \in Tags /\ tags[i] = Attribute(name, <<>>)
      BY <1>1, <1>2
    <3> HIDE DEF name
    <3> QED
      BY <1>7, <3>1
  <2> QED
    BY <2>1 DEF RangeOf
<1>9. \A a \in RangeOf(errors) : a.key = "error" /\ a = Of(a.key)
  <2> HIDE DEF Of
  <2>1. ASSUME NEW i \in 1..Len(errors)
        PROVE  errors[i].key = "error" /\ errors[i] = Of(errors[i].key)
    <3> DEFINE name == log.errors[i]
    <3>1. name = "error" /\ errors[i] = Attribute(name, <<>>)
      BY <1>1, <1>3
    <3> HIDE DEF name
    <3> QED
      BY <1>7, <3>1
  <2> QED
    BY <2>1 DEF RangeOf
<1>10. \A a \in RangeOf(group) : a.key = "handler" /\ a = Of(a.key)
  BY <1>4 DEF Attribute
<1> HIDE DEF all, Of
<1>11. \A a \in RangeOf(all) : a = Of(a.key)
  BY <1>6, <1>8, <1>9, <1>10
<1>12. SameByKey(all)
  <2> SUFFICES ASSUME NEW i \in 1..Len(all), NEW j \in 1..Len(all), all[i].key = all[j].key
               PROVE  all[i] = all[j]
    BY DEF SameByKey
  <2>1. all[i] \in RangeOf(all) /\ all[j] \in RangeOf(all)
    BY DEF RangeOf
  <2> QED
    BY <1>11, <2>1
<1>13. (\E a \in RangeOf(all) : a.key = "error") <=> RangeOf(errors) # {}
  BY <1>6, <1>8, <1>9, <1>10 DEF Tags
<1>14. RangeOf(errors) # {} <=> log.errors # <<>>
  <2>1. log.errors = <<>> <=> Len(log.errors) = 0
    BY <1>1, EmptySeq
  <2>2. RangeOf(errors) # {} <=> Len(errors) # 0
    BY <1>1, <1>3 DEF RangeOf
  <2> QED
    BY <1>3, <2>1, <2>2
<1>15. Attributes(log) = all
  BY DEF Attributes, all, tags, group, errors
<1> QED
  BY <1>6, <1>12, <1>13, <1>14, <1>15

-----------------------------------------------------------------------------
(* What the parts of the actions do.                                        *)

(* Which store a parser has never changes, nor what is in it before it is    *)
(* written.                                                                  *)
LEMMA SameStores ==
  ASSUME adapter' = adapter
  PROVE  H' = H /\ \A p : Store(p)' = Store(p)
BY DEF H, Store, GinStore, FiberStore, NetHTTPStore

(* Types of the store of the handler.                                        *)
LEMMA HandlerStore ==
  ASSUME Types
  PROVE  /\ H \in Stores /\ locals[H] \in LocalType(Users, Logs)
         /\ locals[H].log \in Logs /\ context[H] \in 0..Len(spans)
         /\ locals[H].status \in Nat /\ locals[H].user \in Users
<1>1. H \in Stores
  BY AdapterOf, StoreOf DEF H, Parsers
<1> QED
  BY <1>1 DEF Types, DataTypes, TreeTypes, LocalType

(* Of all stores, one has changed.                                          *)
OnlyStore(s, new) ==
  /\ locals' \in [Stores -> LocalType(Users, Logs)]
  /\ locals'[s] = new
  /\ \A t \in Stores \ {s} : locals'[t] = locals[t]

(* A write to one store leaves the others.                                   *)
LEMMA StoreChanged ==
  ASSUME Types, NEW s \in Stores, NEW new \in LocalType(Users, Logs),
         locals' = [locals EXCEPT ![s] = new]
  PROVE  OnlyStore(s, new)
BY DEF Types, DataTypes, TreeTypes, OnlyStore

(* What the steps of the handler do to its store and to the wire.            *)
LEMMA LogEffect ==
  ASSUME Types, NEW notes \in Logs, Log(notes)
  PROVE  LET new == locals'[H]
         IN  /\ OnlyStore(H, new)
             /\ new.user = locals[H].user /\ new.status = locals[H].status
             /\ new.log = Joined(locals[H].log, notes)
             /\ locals[H].log.tags # <<>> => new.log.tags # <<>>
             /\ notes.errors = <<>> => (new.log.errors # <<>> <=> locals[H].log.errors # <<>>)
<1> DEFINE new == WithLogs(locals[H], notes)
<1>1. /\ new \in LocalType(Users, Logs)
      /\ new.user = locals[H].user /\ new.status = locals[H].status
      /\ new.log = Joined(locals[H].log, notes)
  BY HandlerStore, LoggedEntries
<1>2. locals' = [locals EXCEPT ![H] = new]
  BY DEF Log
<1> HIDE DEF new
<1>3. OnlyStore(H, new)
  BY <1>1, <1>2, HandlerStore, StoreChanged
<1>4. LET n == Joined(locals[H].log, notes)
      IN  /\ n.tags # <<>> <=> locals[H].log.tags # <<>> \/ notes.tags # <<>>
          /\ n.errors # <<>> <=> locals[H].log.errors # <<>> \/ notes.errors # <<>>
  BY HandlerStore, JoinedNotes
<1>5. locals'[H] = new
  BY <1>3 DEF OnlyStore
<1> QED
  BY <1>1, <1>3, <1>4, <1>5

LEMMA StatusSet ==
  ASSUME NEW store \in LocalType(Users, Logs), NEW code \in Nat
  PROVE  LET new == [store EXCEPT !.status = code]
         IN  /\ new \in LocalType(Users, Logs)
             /\ new.user = store.user /\ new.status = code /\ new.log = store.log
BY DEF LocalType

(* An answer is stored and noted.                                           *)
Answered(s, code, log) ==
  /\ OnlyStore(s, locals'[s])
  /\ locals'[s].user = locals[s].user /\ locals'[s].status = code
  /\ \E e : AnswerLog(code, e) /\ locals'[s].log = Joined(log, e)

LEMMA AnswerStored ==
  ASSUME Types, NEW s \in Stores, NEW code \in Nat, NEW encoded,
         NEW store \in LocalType(Users, Logs), store.user = locals[s].user,
         locals' = [locals EXCEPT ![s] = WithAnswer(store, code, encoded)]
  PROVE  Answered(s, code, store.log)
<1> DEFINE told == [store EXCEPT !.status = code]
           e == AnswerNotes(code, encoded)
           new == WithLogs(told, e)
<1>1. AnswerLog(code, e) /\ e \in Logs
  BY AnswerEntries DEF AnswerLog
<1>2. /\ told \in LocalType(Users, Logs)
      /\ told.user = store.user /\ told.status = code /\ told.log = store.log
  BY StatusSet
<1>3. locals' = [locals EXCEPT ![s] = new]
  BY DEF WithAnswer
<1> HIDE DEF told, e
<1>4. /\ new \in LocalType(Users, Logs)
      /\ new.user = told.user /\ new.status = told.status /\ new.log = Joined(told.log, e)
  BY <1>1, <1>2, LoggedEntries
<1> HIDE DEF new
<1>5. OnlyStore(s, new)
  BY <1>3, <1>4, StoreChanged
<1>6. locals'[s] = new
  BY <1>5 DEF OnlyStore
<1> QED
  BY <1>1, <1>2, <1>4, <1>5, <1>6 DEF Answered

(* There is then something noted, and an error if the answer is one.         *)
LEMMA AnswerNoted ==
  ASSUME NEW s, NEW code, NEW log \in Logs, Answered(s, code, log)
  PROVE  LET new == locals'[s].log
         IN  /\ new.tags # <<>>
             /\ new.errors # <<>> <=> log.errors # <<>> \/ code # 200
<1>1. PICK e : AnswerLog(code, e) /\ locals'[s].log = Joined(log, e)
  BY DEF Answered
<1>2. e \in Logs /\ e.tags # <<>> /\ (e.errors # <<>> <=> code # 200)
  BY <1>1 DEF AnswerLog
<1>3. LET n == Joined(log, e)
      IN  /\ n.tags # <<>> <=> log.tags # <<>> \/ e.tags # <<>>
          /\ n.errors # <<>> <=> log.errors # <<>> \/ e.errors # <<>>
  BY <1>2, JoinedNotes
<1> QED
  BY <1>1, <1>2, <1>3

(* What the client gets: its own status, unless there was an answer before. *)
Sent(code) ==
  /\ wire' \in WireType /\ wire'.sent = wire.sent + 1
  /\ adapter = "fiber" => wire'.status = code
  /\ wire = NothingSent => wire'.status = code
  /\ adapter = "nethttp" => wire'.asked = IF code = 200 THEN 200 ELSE 500

LEMMA SentEffect ==
  ASSUME Types, NEW code \in Nat \ {0}, NEW encoded,
         wire' = IF code = 200 THEN Send(wire, code, encoded) ELSE Abort(Send(wire, code, encoded))
  PROVE  Sent(code)
<1> DEFINE s == Send(wire, code, encoded)
<1>1. adapter \in Adapters /\ wire \in WireType
  BY AdapterOf DEF Types, DataTypes, TreeTypes
<1>2. /\ s \in WireType /\ s.sent = wire.sent + 1
      /\ adapter = "gin" => s.status = IF wire.bodies = <<>> THEN code ELSE wire.status
      /\ adapter = "fiber" => s.status = code
      /\ adapter = "nethttp" => /\ s.status = IF wire.status = 0 THEN code ELSE wire.status
                                /\ s.asked = code
  BY <1>1, SentAnswer
<1>3. wire = NothingSent => wire.status = 0 /\ wire.bodies = <<>>
  BY DEF NothingSent
<1>4. wire = NothingSent => s.status = code
  BY <1>1, <1>2, <1>3 DEF Adapters
<1> HIDE DEF s
<1>5. CASE code = 200
  <2>1. wire' = s
    BY <1>5 DEF s
  <2> QED
    BY <1>2, <1>4, <1>5, <2>1 DEF Sent
<1>6. CASE code # 200
  <2> DEFINE a == Abort(s)
  <2>1. wire' = a
    BY <1>6 DEF s
  <2>2. /\ a \in WireType /\ a.sent = s.sent
        /\ adapter # "nethttp" => a.status = s.status
        /\ adapter = "nethttp" => /\ a.status = IF s.status = 0 THEN 500 ELSE s.status
                                  /\ a.asked = 500
    BY <1>1, <1>2, AbortedAnswer
  <2> HIDE DEF a
  <2> QED
    BY <1>2, <1>4, <1>6, <2>1, <2>2 DEF Sent
<1> QED
  BY <1>5, <1>6

LEMMA RespondEffect ==
  ASSUME Types, NEW p \in Parsers, NEW code \in Nat \ {0}, NEW encoded,
         Respond(Store(p), code, encoded)
  PROVE  Sent(code) /\ Answered(Store(p), code, locals[Store(p)].log)
<1> DEFINE s == Store(p)
<1>1. s \in Stores
  BY AdapterOf, StoreOf
<1>2. locals[s] \in LocalType(Users, Logs)
  BY <1>1 DEF Types, DataTypes, TreeTypes
<1>3. Sent(code)
  BY SentEffect DEF Respond
<1>4. locals' = [locals EXCEPT ![s] = WithAnswer(locals[s], code, encoded)]
  BY DEF Respond
<1> HIDE DEF s
<1>5. Answered(s, code, locals[s].log)
  BY <1>1, <1>2, <1>4, AnswerStored
<1> QED
  BY <1>3, <1>5 DEF s

(* What the handler had noted when it failed.                                *)
Failing(arrays) == Joined(locals[H].log, Notes(<<>>, arrays, <<>>))

LEMMA RespondErrorEffect ==
  ASSUME Types, NEW from, NEW code \in Nat \ {0, 200}, NEW arrays \in Seq(Arrays),
         RespondError(from, code, arrays)
  PROVE  /\ pc = from /\ pc' = "endspan" /\ outcome' = code
         /\ Sent(code) /\ Answered(H, code, Failing(arrays)) /\ Failing(arrays) \in Logs
<1> DEFINE notes == Notes(<<>>, arrays, <<>>)
           logged == WithLogs(locals[H], notes)
<1>1. PICK encoded \in BOOLEAN :
        /\ wire' = Abort(Send(wire, code, encoded))
        /\ locals' = [locals EXCEPT ![H] = WithAnswer(logged, code, encoded)]
  BY DEF RespondError
<1>2. Sent(code)
  BY <1>1, SentEffect
<1>3. notes \in Logs
  BY OnlyArrays
<1>4. locals[H] \in LocalType(Users, Logs) /\ H \in Stores /\ locals[H].log \in Logs
  BY HandlerStore
<1>5. Failing(arrays) = Joined(locals[H].log, notes)
  BY DEF Failing
<1> HIDE DEF notes
<1>6. /\ logged \in LocalType(Users, Logs)
      /\ logged.user = locals[H].user /\ logged.log = Joined(locals[H].log, notes)
  BY <1>3, <1>4, LoggedEntries
<1> HIDE DEF logged
<1>7. Answered(H, code, logged.log)
  BY <1>1, <1>4, <1>6, AnswerStored
<1>8. Joined(locals[H].log, notes) \in Logs
  BY <1>3, <1>4, JoinedNotes
<1>9. Answered(H, code, Failing(arrays))
  BY <1>5, <1>6, <1>7, Zenon
<1> QED
  BY <1>2, <1>5, <1>8, <1>9 DEF RespondError, Go

-----------------------------------------------------------------------------
(* What each kind of step does to the store of the handler.                 *)

(* The steps that only note something, and never an error.                  *)
NotingActions == Parse \/ Initialized \/ Handled \/ NextReturns \/ Recovery \/ RecoveryHandlerPanics

LEMMA NotingStep ==
  ASSUME Types, NotingActions
  PROVE  /\ locals' \in [Stores -> LocalType(Users, Logs)]
         /\ locals'[H].status = locals[H].status
         /\ locals[H].log.tags # <<>> => locals'[H].log.tags # <<>>
         /\ locals'[H].log.errors # <<>> <=> locals[H].log.errors # <<>>
<1>1. \E notes \in Logs : Log(notes) /\ notes.errors = <<>>
  <2>1. \A arrays \in Seq(Arrays) :
          Notes(<<>>, arrays, <<>>) \in Logs /\ Notes(<<>>, arrays, <<>>).errors = <<>>
    BY OnlyArrays
  <2>2. CASE Recovery \/ RecoveryHandlerPanics
    <3> DEFINE tags == <<"elapsed">>
               none == <<>>
    <3>1. tags \in Seq(Tags) /\ none \in Seq(Arrays) /\ none \in Seq({"error"})
      BY EmptySeq DEF Tags
    <3>2. Log(Notes(tags, none, none))
      BY <2>2 DEF Recovery, RecoveryHandlerPanics, Elapsed
    <3> HIDE DEF tags, none
    <3>3. Notes(tags, none, none) \in Logs /\ Notes(tags, none, none).errors = none
      BY <3>1, NotesOf
    <3> QED
      BY <3>2, <3>3 DEF none
  <2>3. CASE Parse \/ Initialized \/ Handled \/ NextReturns
    <3> DEFINE a1 == <<"request">>
               a2 == <<"initialize">>
               a3 == <<"main-handler", "response">>
               a4 == IF adapter = "fiber" /\ ~conf.trailing THEN <<"next">> ELSE <<>>
    <3>1. a1 \in Seq(Arrays) /\ a2 \in Seq(Arrays) /\ a3 \in Seq(Arrays)
      BY DEF Arrays
    <3>2. a4 \in Seq(Arrays)
      <4>1. <<>> \in Seq(Arrays) /\ <<"next">> \in Seq(Arrays)
        BY EmptySeq DEF Arrays
      <4> QED
        BY <4>1
    <3>3. \/ Log(Notes(<<>>, a1, <<>>)) \/ Log(Notes(<<>>, a2, <<>>))
          \/ Log(Notes(<<>>, a3, <<>>)) \/ Log(Notes(<<>>, a4, <<>>))
      BY <2>3 DEF Parse, Initialized, Handled, NextReturns
    <3> HIDE DEF a1, a2, a3, a4
    <3>4. \E a \in Seq(Arrays) : Log(Notes(<<>>, a, <<>>))
      BY <3>1, <3>3, <3>2, Zenon
    <3> QED
      BY <2>1, <3>4, Zenon
  <2> QED
    BY <2>2, <2>3 DEF NotingActions
<1>2. PICK notes \in Logs : Log(notes) /\ notes.errors = <<>>
  BY <1>1
<1> QED
  BY <1>2, LogEffect DEF OnlyStore

(* The steps that answer an error instead of going on.                      *)
FailingActions == FailToParse \/ FailToInitialize \/ FailToHandle

LEMMA FailingStep ==
  ASSUME Types, FailingActions
  PROVE  /\ pc \in {"parse", "initializing", "handling"} /\ pc' = "endspan"
         /\ UNCHANGED <<conf, adapter, manager, todo, user, panic, attrs>>
         /\ locals' \in [Stores -> LocalType(Users, Logs)]
         /\ locals'[H].log.tags # <<>> /\ locals'[H].log.errors # <<>>
         /\ outcome' \in Nat /\ outcome' >= 400 /\ Sent(outcome')
<1> DEFINE a1 == <<"initialize">>
           a2 == <<"main-handler">>
           a3 == <<>>
<1>1. a1 \in Seq(Arrays) /\ a2 \in Seq(Arrays) /\ a3 \in Seq(Arrays)
  BY EmptySeq DEF Arrays
<1>2. \/ RespondError("parse", 400, a3) \/ RespondError("initializing", 422, a1)
      \/ RespondError("handling", 404, a2)
  BY DEF FailingActions, FailToParse, FailToInitialize, FailToHandle
<1>3. UNCHANGED <<conf, adapter, manager, todo, user, panic, attrs>>
  BY DEF FailingActions, FailToParse, FailToInitialize, FailToHandle, PhaseUnchanged, tracingVars
<1> HIDE DEF a1, a2, a3
<1>4. \E from \in {"parse", "initializing", "handling"}, code \in {400, 422, 404}, a \in Seq(Arrays) :
        RespondError(from, code, a)
  <2>1. CASE RespondError("parse", 400, a3)
    BY <1>1, <2>1
  <2>2. CASE RespondError("initializing", 422, a1)
    BY <1>1, <2>2
  <2>3. CASE RespondError("handling", 404, a2)
    BY <1>1, <2>3
  <2> QED
    BY <1>2, <2>1, <2>2, <2>3
<1>5. PICK from \in {"parse", "initializing", "handling"}, code \in {400, 422, 404}, a \in Seq(Arrays) :
        RespondError(from, code, a)
  BY <1>4
<1>6. code \in Nat \ {0, 200} /\ code \in Nat /\ code >= 400 /\ code # 200
  OBVIOUS
<1>7. /\ pc = from /\ pc' = "endspan" /\ outcome' = code
      /\ Sent(code) /\ Answered(H, code, Failing(a)) /\ Failing(a) \in Logs
  BY <1>5, <1>6, RespondErrorEffect
<1>8. locals'[H].log.tags # <<>> /\ locals'[H].log.errors # <<>>
  BY <1>6, <1>7, AnswerNoted
<1>9. locals' \in [Stores -> LocalType(Users, Logs)]
  BY <1>7 DEF Answered, OnlyStore
<1>10. Sent(outcome')
  BY <1>7, Zenon
<1> QED
  BY <1>3, <1>6, <1>7, <1>8, <1>9, <1>10

(* The step that begins the log.                                            *)
LEMMA InitContextStep ==
  ASSUME Types, InitContext
  PROVE  /\ locals' \in [Stores -> LocalType(Users, Logs)]
         /\ locals'[H].status = locals[H].status
         /\ locals'[H].log.tags # <<>>
         /\ locals'[H].log.errors # <<>> <=> locals[H].log.errors # <<>>
         /\ user' = IF conf.header THEN "caller" ELSE IF conf.audit THEN locals[H].user ELSE "unknown"
<1> DEFINE store == IF conf.audit THEN locals[H] ELSE [locals[H] EXCEPT !.user = "unknown"]
           missing == IF UserID(store) = "none" THEN <<"nouser">> ELSE <<>>
           title == <<"title">>
           none == <<>>
           notes == Notes(title, missing, none)
           new == WithLogs(store, notes)
<1>1. /\ store \in LocalType(Users, Logs) /\ store.status = locals[H].status
      /\ store.log = locals[H].log /\ store.log \in Logs
      /\ store.user = IF conf.audit THEN locals[H].user ELSE "unknown"
  BY HandlerStore DEF LocalType, Users
<1>2. locals' = [locals EXCEPT ![H] = new] /\ user' = UserID(store)
  BY DEF InitContext
<1>3. user' = IF conf.header THEN "caller" ELSE IF conf.audit THEN locals[H].user ELSE "unknown"
  BY <1>1, <1>2 DEF UserID
<1>4. title \in Seq(Tags) /\ title # <<>> /\ none \in Seq({"error"})
  BY EmptySeq DEF Tags
<1>5. missing \in Seq(Arrays)
  <2>1. <<>> \in Seq(Arrays) /\ <<"nouser">> \in Seq(Arrays)
    BY EmptySeq DEF Arrays
  <2> QED
    BY <2>1
<1> HIDE DEF store, missing, title
<1>6. notes \in Logs /\ notes.tags = title /\ notes.errors = none
  <2> HIDE DEF none
  <2> QED
    BY <1>4, <1>5, NotesOf
<1>7. notes \in Logs /\ notes.tags # <<>> /\ notes.errors = <<>>
  BY <1>4, <1>6
<1> HIDE DEF notes
<1>8. /\ new \in LocalType(Users, Logs) /\ new.status = store.status
      /\ new.log = Joined(store.log, notes)
  BY <1>1, <1>7, LoggedEntries
<1>9. LET n == Joined(store.log, notes)
      IN  n.tags # <<>> /\ (n.errors # <<>> <=> store.log.errors # <<>>)
  BY <1>1, <1>7, JoinedNotes
<1> HIDE DEF new
<1>10. OnlyStore(H, new)
  BY <1>2, <1>8, HandlerStore, StoreChanged
<1> QED
  BY <1>1, <1>3, <1>8, <1>9, <1>10 DEF OnlyStore

-----------------------------------------------------------------------------
(* Types.                                                                   *)

(* Every step keeps the types of what is not a span.                         *)
LEMMA DataStep ==
  ASSUME Types, [Next]_vars
  PROVE  DataTypes'
<1> USE DEF Types, DataTypes
<1>1. CASE InitializeTracing
  BY <1>1 DEF InitializeTracing, NewTracingManager, parserVars
<1>2. CASE Arrive \/ Trace
  BY <1>2 DEF Arrive, Trace, Go, parserVars, tracingVars, PCs
<1>3. CASE TracePanics
  BY <1>3 DEF TracePanics, Go, parserVars, tracingVars, PCs
<1>4. CASE AppAuth
  <2>1. todo' \in Seq(AppMiddleware)
    BY <1>4, HeadTailProperties DEF AppAuth, NextMiddleware
  <2>2. locals' \in [Stores -> LocalType(Users, Logs)]
    <3>1. CASE adapter = "nethttp"
      BY <1>4, <3>1 DEF AppAuth
    <3>2. CASE adapter # "nethttp"
      <4> DEFINE s == Store("middleware")
                 new == [locals[s] EXCEPT !.user = "caller"]
      <4>1. s \in Stores
        BY AdapterOf, StoreOf DEF Parsers
      <4>2. locals' = [locals EXCEPT ![s] = new]
        BY <1>4, <3>2 DEF AppAuth
      <4> HIDE DEF s
      <4>3. new \in LocalType(Users, Logs)
        BY <4>1 DEF LocalType, Users
      <4> QED
        BY <4>1, <4>2, <4>3
    <3> QED
      BY <3>1, <3>2
  <2>3. wire' \in WireType
    <3>1. \A e : NetHTTPSend(wire, 401, e) \in WireType
      BY NetHTTPSent
    <3>2. wire' = wire \/ \E e : wire' = NetHTTPSend(wire, 401, e)
      BY <1>4 DEF AppAuth
    <3> QED
      BY <3>1, <3>2
  <2> QED
    BY <1>4, <2>1, <2>2, <2>3 DEF AppAuth, NextMiddleware, AppUnchanged, tracingVars, PCs
<1>5. CASE AppLogs
  <2>1. todo' \in Seq(AppMiddleware)
    BY <1>5, HeadTailProperties DEF AppLogs, NextMiddleware
  <2>2. locals' \in [Stores -> LocalType(Users, Logs)]
    <3> DEFINE s == Store("middleware")
               new == [locals[s] EXCEPT !.user = "unknown"]
    <3>1. s \in Stores
      BY AdapterOf, StoreOf DEF Parsers
    <3>2. locals' = [locals EXCEPT ![s] = new]
      BY <1>5 DEF AppLogs
    <3> HIDE DEF s
    <3>3. new \in LocalType(Users, Logs)
      BY <3>1 DEF LocalType, Users
    <3> QED
      BY <3>1, <3>2, <3>3
  <2> QED
    BY <1>5, <2>1, <2>2 DEF AppLogs, NextMiddleware, AppUnchanged, tracingVars
<1>6. CASE AppReader
  <2>1. todo' \in Seq(AppMiddleware)
    BY <1>6, HeadTailProperties DEF AppReader, NextMiddleware
  <2> QED
    BY <1>6, <2>1 DEF AppReader, NextMiddleware, AppUnchanged, tracingVars
<1>7. CASE Unmatched
  <2>1. wire' \in WireType
    <3>1. PICK code \in {404, 405} :
            wire' = CASE adapter = "gin" -> GinSend(wire, code, TRUE)
                      [] adapter = "fiber" -> FiberErrorHandler(wire, code)
                      [] adapter = "nethttp" -> NetHTTPErrorHandler(wire, code)
      BY <1>7 DEF Unmatched
    <3>2. \A e : GinSend(wire, code, e) \in WireType
      <4>1. code \in Nat
        OBVIOUS
      <4> QED
        BY <4>1, GinSent
    <3>3. GinSend(wire, code, TRUE) \in WireType
      BY <3>2, Zenon
    <3>4. FiberErrorHandler(wire, code) \in WireType
      BY FiberErrors
    <3>5. NetHTTPErrorHandler(wire, code) \in WireType
      BY NetHTTPErrors
    <3>6. adapter \in Adapters
      BY AdapterOf
    <3> QED
      BY <3>1, <3>3, <3>4, <3>5, <3>6 DEF Adapters
  <2> QED
    BY <1>7, <2>1 DEF Unmatched, AppUnchanged, tracingVars, PCs
<1>8. CASE InitContext
  <2>1. locals' \in [Stores -> LocalType(Users, Logs)] /\ user' \in Users
    BY <1>8, InitContextStep, HandlerStore DEF Users
  <2> QED
    BY <1>8, <2>1 DEF InitContext, tracingVars, PCs
<1>9. CASE StartHandlerSpan
  BY <1>9 DEF StartHandlerSpan, parserVars, tracingVars, PCs
<1>10. CASE Parse \/ Initialized \/ Handled \/ NextReturns
  <2>1. locals' \in [Stores -> LocalType(Users, Logs)]
    BY <1>10, NotingStep DEF NotingActions
  <2> QED
    BY <1>10, <2>1 DEF Parse, Initialized, Handled, NextReturns, AnswerUnchanged, PhaseUnchanged, Go,
                       tracingVars, PCs, Phases
<1>11. CASE FailingActions
  <2>1. /\ pc' = "endspan" /\ UNCHANGED <<conf, adapter, manager, todo, user, panic>>
        /\ locals' \in [Stores -> LocalType(Users, Logs)]
        /\ outcome' \in Nat /\ wire' \in WireType
    BY <1>11, FailingStep DEF Sent
  <2> QED
    BY <2>1 DEF PCs
<1>12. CASE TraceError \/ TraceFunc \/ TraceVoid
  BY <1>12 DEF TraceError, TraceFunc, TraceVoid, Start, During, parserVars, tracingVars, PCs, Phases
<1>13. CASE PhasePanics \/ CallPanics
  BY <1>13 DEF PhasePanics, CallPanics, Panics, PhaseUnchanged, tracingVars, PCs
<1>14. CASE AddSpanAttribute
  BY <1>14 DEF AddSpanAttribute, parserVars, tracingVars
<1>15. CASE \E statuses : Call(statuses)
  BY <1>15 DEF Call, parserVars, tracingVars
<1>16. CASE Answer
  <2>1. PICK encoded \in BOOLEAN : Respond(H, 200, encoded)
    BY <1>16 DEF Answer
  <2>2. Sent(200) /\ Answered(H, 200, locals[H].log)
    BY <2>1, RespondEffect DEF H, Parsers
  <2> QED
    BY <1>16, <2>2 DEF Answer, AnswerUnchanged, Go, tracingVars, Sent, Answered, OnlyStore, PCs
<1>17. CASE Trailing
  <2>1. CASE Respond(Store("trailing"), 503, TRUE) /\ pc' = "outcome" /\ UNCHANGED panic
    <3>1. PICK e : Respond(Store("trailing"), 503, e)
      BY <2>1, Zenon
    <3>2. Sent(503) /\ Answered(Store("trailing"), 503, locals[Store("trailing")].log)
      BY <3>1, RespondEffect DEF Parsers
    <3> QED
      BY <1>17, <2>1, <3>2 DEF Trailing, AnswerUnchanged, tracingVars, Sent, Answered, OnlyStore, PCs
  <2>2. CASE pc' = "endspan" /\ panic' = TRUE /\ UNCHANGED <<wire, locals>>
    BY <1>17, <2>2 DEF Trailing, AnswerUnchanged, tracingVars, PCs
  <2> QED
    BY <1>17, <2>1, <2>2 DEF Trailing
<1>18. CASE SetOutcome
  <2>1. outcome' = locals[H].status
    BY <1>18 DEF SetOutcome, GetLocal, H
  <2> QED
    BY <1>18, <2>1, HandlerStore DEF SetOutcome, AnswerUnchanged, Go, tracingVars, PCs
<1>19. CASE EndHandlerSpan
  BY <1>19 DEF EndHandlerSpan, Go, parserVars, tracingVars, PCs
<1>20. CASE Recovery \/ RecoveryHandlerPanics
  <2>1. locals' \in [Stores -> LocalType(Users, Logs)]
    BY <1>20, NotingStep DEF NotingActions
  <2> QED
    BY <1>20, <2>1 DEF Recovery, RecoveryHandlerPanics, Go, tracingVars, PCs, Phases
<1>21. CASE Finalized \/ FinalizerPanics
  BY <1>21 DEF Finalized, FinalizerPanics, PhaseUnchanged, Go, tracingVars, PCs
<1>22. CASE CollectLogs
  BY <1>22 DEF CollectLogs, AfterCollect, Go, tracingVars, PCs
<1>23. CASE AnswerPanic
  <2>1. PICK code \in {400, 500}, encoded \in BOOLEAN : Respond(H, code, encoded)
    BY <1>23 DEF AnswerPanic
  <2>2. code \in Nat \ {0}
    OBVIOUS
  <2>3. Sent(code) /\ Answered(H, code, locals[H].log)
    BY <2>1, <2>2, RespondEffect DEF H, Parsers
  <2> QED
    BY <1>23, <2>3 DEF AnswerPanic, AnswerUnchanged, Go, tracingVars, Sent, Answered, OnlyStore, PCs
<1>24. CASE Unwind
  <2>1. wire' \in WireType
    BY <1>24, AdapterOf, Recovered DEF Unwind
  <2> QED
    BY <1>24, <2>1 DEF Unwind, Go, tracingVars, PCs
<1>25. CASE UNCHANGED vars
  BY <1>25 DEF vars, parserVars, tracingVars
<1> QED
  BY <1>1, <1>2, <1>3, <1>4, <1>5, <1>6, <1>7, <1>8, <1>9, <1>10, <1>11, <1>12, <1>13, <1>14, <1>15,
     <1>16, <1>17, <1>18, <1>19, <1>20, <1>21, <1>22, <1>23, <1>24, <1>25
  DEF Next, Terminated, FailingActions, TraceFuncWithContext, TraceErrorWithContext, TraceVoidWithContext,
      TraceFuncWithSpanName

(* Calls and the return to the tracing middleware.                          *)
LEMMA CalledSpan ==
  ASSUME Types, NEW parent, NEW open \in BOOLEAN, NEW status \in Nat, CallUnder(parent, open, status)
  PROVE  LET n == Len(spans) + 1
         IN  /\ pc = "handling" /\ parent \in 1..Len(spans) /\ spans[parent].open
             /\ spans' \in Seq(SpanType) /\ Len(spans') = n
             /\ \A i \in 1..Len(spans) : spans'[i] = spans[i]
             /\ spans'[n].name = "call" /\ spans'[n].parent = parent /\ spans'[n].live
             /\ spans'[n].open <=> open
<1> DEFINE span == [name |-> "call", parent |-> parent, live |-> TRUE, open |-> open,
                    status |-> status]
<1>1. /\ pc = "handling" /\ parent \in {context[H], handlerSpan} /\ parent # 0 /\ spans[parent].open
      /\ spans' = Append(spans, span)
  BY DEF CallUnder, IsRecording
<1>2. spans \in Seq(SpanType) /\ Len(spans) \in Nat /\ parent \in 1..Len(spans)
  BY <1>1, HandlerStore, LenProperties DEF Types, TreeTypes
<1>3. /\ span \in SpanType /\ span.name = "call" /\ span.parent = parent /\ span.live
      /\ span.open = open
  BY <1>2 DEF SpanType, SpanNames
<1> HIDE DEF span
<1> DEFINE new == Append(spans, span)
<1>4. /\ new \in Seq(SpanType) /\ Len(new) = Len(spans) + 1
      /\ \A i \in 1..Len(spans) : new[i] = spans[i]
      /\ new[Len(spans) + 1] = span
  BY <1>2, <1>3, AppendProperties
<1>5. spans' = new
  BY <1>1
<1> HIDE DEF new
<1> QED
  BY <1>1, <1>2, <1>3, <1>4, <1>5

(* A function that is called, and one that panics.                           *)
LEMMA CallSteps ==
  ASSUME Types, CallPanics \/ \E statuses \in SUBSET Nat : Call(statuses)
  PROVE  /\ UNCHANGED <<middleSpan, handlerSpan, context, note, conf, adapter>>
         /\ \E parent \in 0..Len(spans), open \in BOOLEAN, status \in Nat :
              /\ CallUnder(parent, open, status)
              /\ IF open THEN pc' = "endspan" /\ panic' = TRUE /\ running' = 0
                 ELSE UNCHANGED <<pc, panic, running>>
<1>1. CASE CallPanics
  <2>1. PICK parent \in 0..Len(spans) : CallUnder(parent, TRUE, 0)
    BY <1>1 DEF CallPanics
  <2>2. PICK open \in BOOLEAN : open = TRUE
    OBVIOUS
  <2>3. PICK status \in Nat : status = 0
    OBVIOUS
  <2>4. open /\ CallUnder(parent, open, status)
    BY <2>1, <2>2, <2>3, Zenon
  <2>5. pc' = "endspan" /\ panic' = TRUE /\ running' = 0
    BY <1>1 DEF CallPanics, Panics
  <2>6. UNCHANGED <<middleSpan, handlerSpan, context, note, conf, adapter>>
    BY <1>1 DEF CallPanics, PhaseUnchanged
  <2> QED
    BY <2>4, <2>5, <2>6
<1>2. ASSUME NEW statuses \in SUBSET Nat, Call(statuses)
      PROVE  /\ UNCHANGED <<middleSpan, handlerSpan, context, note, conf, adapter>>
             /\ \E parent \in 0..Len(spans), open \in BOOLEAN, status \in Nat :
                  /\ CallUnder(parent, open, status)
                  /\ IF open THEN pc' = "endspan" /\ panic' = TRUE /\ running' = 0
                     ELSE UNCHANGED <<pc, panic, running>>
  <2>1. PICK parent \in 0..Len(spans), status \in statuses : CallUnder(parent, FALSE, status)
    BY <1>2 DEF Call
  <2>2. PICK open \in BOOLEAN : open = FALSE
    OBVIOUS
  <2>3. ~open /\ CallUnder(parent, open, status)
    BY <2>1, <2>2, Zenon
  <2>4. UNCHANGED <<pc, panic, running, middleSpan, handlerSpan, context, note, conf, adapter>>
    BY <1>2 DEF Call, parserVars
  <2> QED
    BY <2>1, <2>3, <2>4
<1> QED
  BY <1>1, <1>2

(* The tracing middleware ends its span and sets the status.                 *)
LEMMA UnwoundSpan ==
  ASSUME spans \in Seq(SpanType), NEW m \in 1..Len(spans), NEW status \in Nat
  PROVE  LET new == [spans EXCEPT ![m].open = FALSE, ![m].status = status]
         IN  /\ new \in Seq(SpanType) /\ Len(new) = Len(spans)
             /\ \A i \in 1..Len(spans) : i # m => new[i] = spans[i]
             /\ new[m].parent = spans[m].parent /\ new[m].live = spans[m].live
             /\ new[m].name = spans[m].name /\ ~new[m].open /\ new[m].status = status
<1> DEFINE e == [[spans[m] EXCEPT !.open = FALSE] EXCEPT !.status = status]
           new == [spans EXCEPT ![m].open = FALSE, ![m].status = status]
<1>1. spans[m] \in SpanType
  BY ElementOfSeq
<1>2. /\ e \in SpanType /\ e.parent = spans[m].parent /\ e.live = spans[m].live
      /\ e.name = spans[m].name /\ ~e.open /\ e.status = status
  BY <1>1 DEF SpanType
<1>3. new = [spans EXCEPT ![m] = e]
  BY SpanTypes
<1> HIDE DEF e, new
<1>4. /\ new \in Seq(SpanType) /\ Len(new) = Len(spans)
      /\ \A i \in 1..Len(spans) : i # m => new[i] = spans[i]
      /\ new[m] = e
  BY <1>2, <1>3, ExceptSeq
<1> QED
  BY <1>2, <1>4 DEF new

LEMMA SeenStatusType == Types => SeenStatus \in Nat
BY DEF SeenStatus, FrameworkStatus, Types, DataTypes, WireType

(* The actions that leave the spans as they are.                            *)
SameTree == UNCHANGED <<spans, context, middleSpan, handlerSpan>>

QuietActions ==
  \/ InitializeTracing \/ Arrive \/ TracePanics \/ AppAuth \/ AppLogs \/ AppReader \/ Unmatched
  \/ InitContext \/ Parse \/ FailToParse \/ Answer \/ Trailing \/ NextReturns \/ SetOutcome
  \/ Recovery \/ RecoveryHandlerPanics \/ CollectLogs \/ AnswerPanic

(* What the steps do to spans: nothing, end the running one, start one.      *)
LEMMA QuietTree ==
  ASSUME QuietActions
  PROVE  SameTree /\ running' = running /\ note' = note
<1> USE DEF SameTree, parserVars, spanVars
<1>1. CASE InitializeTracing \/ Arrive \/ TracePanics
  BY <1>1 DEF InitializeTracing, Arrive, TracePanics
<1>2. CASE AppAuth \/ AppLogs \/ AppReader \/ Unmatched
  BY <1>2 DEF AppAuth, AppLogs, AppReader, Unmatched, AppUnchanged
<1>3. CASE InitContext \/ Parse \/ FailToParse
  BY <1>3 DEF InitContext, Parse, FailToParse
<1>4. CASE Answer \/ Trailing \/ NextReturns \/ SetOutcome \/ AnswerPanic
  BY <1>4 DEF Answer, Trailing, NextReturns, SetOutcome, AnswerPanic, AnswerUnchanged
<1>5. CASE Recovery \/ RecoveryHandlerPanics \/ CollectLogs
  BY <1>5 DEF Recovery, RecoveryHandlerPanics, CollectLogs, AfterCollect
<1> QED
  BY <1>1, <1>2, <1>3, <1>4, <1>5 DEF QuietActions

(* The span of a phase begins, and ends.                                    *)
EndActions == Initialized \/ FailToInitialize \/ Handled \/ FailToHandle \/ Finalized

LEMMA EndTree ==
  ASSUME EndActions
  PROVE  /\ spans' = Ended(running) /\ running' = 0
         /\ UNCHANGED <<middleSpan, handlerSpan, note, panic, conf, adapter>>
         /\ IF running = 0 THEN UNCHANGED context
            ELSE context' = [context EXCEPT ![H] = running]
BY DEF EndActions, Initialized, FailToInitialize, Handled, FailToHandle, Finalized, End,
       PhaseUnchanged, SetContext, H

LEMMA StartTree ==
  ASSUME Types, NEW p \in Phases, Start(p)
  PROVE  /\ pc = p /\ pc' = During(p)
         /\ UNCHANGED <<middleSpan, handlerSpan, context, note, panic, conf, adapter>>
         /\ \/ UNCHANGED <<spans, running>>
            \/ /\ IsRecording(context[H]) /\ context[H] \in 1..Len(spans)
               /\ spans' = Started(p, context[H]) /\ running' = Len(spans')
<1>1. context[H] \in 0..Len(spans)
  BY HandlerStore
<1> QED
  BY <1>1 DEF Start, IsRecording, parserVars

(* The ways the tracing middleware leaves the spans.                        *)
LEMMA TraceTree ==
  ASSUME Trace
  PROVE  /\ pc = "trace" /\ pc' = "app"
         /\ UNCHANGED <<handlerSpan, running, note, panic, conf, adapter>>
         /\ \/ UNCHANGED <<spans, context, middleSpan>>
            \/ /\ spans' = Started("middleware", 0) /\ middleSpan' = 1
               /\ UNCHANGED context \/ context' = [s \in Stores |-> 1]
BY DEF Trace, Go, GinTrace, NetHTTPTrace, OfficialTrace, NoTrace, SetRequestContext

(* Every step keeps the types of the spans.                                  *)
LEMMA TreeStep ==
  ASSUME Types, [Next]_vars
  PROVE  TreeTypes'
<1> USE DEF TreeTypes
<1>1. Len(spans) \in Nat /\ spans \in Seq(SpanType)
  BY SpanTypes DEF Types
<1>2. CASE QuietActions
  BY <1>2, QuietTree DEF Types, SameTree
<1>3. ASSUME NEW name \in SpanNames, NEW parent \in 0..Len(spans), spans' = Started(name, parent)
      PROVE  spans' \in Seq(SpanType) /\ Len(spans') = Len(spans) + 1
  BY <1>1, <1>3, StartedSpan
<1>4. CASE Trace
  <2>1. CASE UNCHANGED <<spans, context, middleSpan>>
    BY <1>4, <2>1, TraceTree DEF Types
  <2>2. CASE spans' = Started("middleware", 0) /\ middleSpan' = 1
    <3>1. spans' \in Seq(SpanType) /\ Len(spans') = Len(spans) + 1
      BY <1>1, <1>3, <2>2 DEF SpanNames
    <3>2. UNCHANGED context \/ context' = [s \in Stores |-> 1]
      BY <1>4, <2>2, TraceTree DEF Types
    <3>3. context' \in [Stores -> 0..Len(spans')]
      BY <1>1, <3>1, <3>2 DEF Types
    <3>4. handlerSpan' = handlerSpan /\ running' = running
      BY <1>4, TraceTree
    <3> QED
      BY <1>1, <2>2, <3>1, <3>3, <3>4 DEF Types
  <2> QED
    BY <1>4, <2>1, <2>2, TraceTree
<1>5. CASE StartHandlerSpan
  <2>1. context' = context /\ middleSpan' = middleSpan /\ running' = running
    BY <1>5 DEF StartHandlerSpan, parserVars
  <2>2. CASE UNCHANGED <<spans, handlerSpan>>
    BY <2>1, <2>2 DEF Types
  <2>3. CASE spans' = Started("handler", CtxSpan) /\ handlerSpan' = Len(spans')
    <3>1. CtxSpan \in 0..Len(spans)
      BY <1>1 DEF CtxSpan, Types, Stores, Parsers
    <3>2. spans' \in Seq(SpanType) /\ Len(spans') = Len(spans) + 1
      BY <1>3, <2>3, <3>1 DEF SpanNames
    <3> QED
      BY <1>1, <2>1, <2>3, <3>2 DEF Types
  <2> QED
    BY <1>5, <2>2, <2>3 DEF StartHandlerSpan
<1>6. ASSUME NEW p \in Phases, Start(p)
      PROVE  TreeTypes'
  <2>1. CASE UNCHANGED <<spans, running>>
    BY <1>6, <2>1, StartTree DEF Types
  <2>2. CASE /\ context[H] \in 1..Len(spans)
             /\ spans' = Started(p, context[H]) /\ running' = Len(spans')
    <3>1. spans' \in Seq(SpanType) /\ Len(spans') = Len(spans) + 1
      BY <1>1, <1>3, <2>2 DEF SpanNames, Phases
    <3>2. UNCHANGED <<middleSpan, handlerSpan, context>>
      BY <1>6, StartTree
    <3> QED
      BY <1>1, <2>2, <3>1, <3>2 DEF Types
  <2> QED
    BY <1>6, <2>1, <2>2, StartTree
<1>7. CASE TraceError \/ TraceFunc \/ TraceVoid
  BY <1>6, <1>7 DEF TraceError, TraceFunc, TraceVoid, Phases
<1>8. CASE EndActions
  <2>1. spans' \in Seq(SpanType) /\ Len(spans') = Len(spans)
    BY <1>8, EndTree, EndedSpan DEF Types
  <2>2. context' \in [Stores -> 0..Len(spans)]
    BY <1>8, EndTree, HandlerStore DEF Types
  <2> QED
    BY <1>1, <1>8, <2>1, <2>2, EndTree DEF Types
<1>9. CASE PhasePanics \/ FinalizerPanics
  BY <1>1, <1>9 DEF PhasePanics, Panics, FinalizerPanics, PhaseUnchanged, Types
<1>10. CASE AddSpanAttribute
  BY <1>10 DEF AddSpanAttribute, parserVars, Types
<1>11. CASE CallPanics \/ \E statuses \in SUBSET Nat : Call(statuses)
  <2>1. PICK parent \in 0..Len(spans), open \in BOOLEAN, status \in Nat :
          /\ CallUnder(parent, open, status)
          /\ IF open THEN running' = 0 ELSE UNCHANGED running
    BY <1>11, CallSteps
  <2>2. spans' \in Seq(SpanType) /\ Len(spans') = Len(spans) + 1
    BY <2>1, CalledSpan
  <2>3. UNCHANGED <<middleSpan, handlerSpan, context>>
    BY <1>11, CallSteps
  <2> QED
    BY <1>1, <2>1, <2>2, <2>3 DEF Types
<1>12. CASE EndHandlerSpan
  <2>1. spans' = Ended(handlerSpan) /\ UNCHANGED <<middleSpan, handlerSpan, running, context>>
    BY <1>12 DEF EndHandlerSpan, parserVars
  <2>2. spans' \in Seq(SpanType) /\ Len(spans') = Len(spans)
    BY <2>1, EndedSpan DEF Types
  <2> QED
    BY <2>1, <2>2 DEF Types
<1>13. CASE Unwind
  <2>1. UNCHANGED <<middleSpan, handlerSpan, running, context>>
    BY <1>13 DEF Unwind
  <2>2. spans' \in Seq(SpanType) /\ Len(spans') = Len(spans)
    <3>1. CASE middleSpan = 0
      BY <1>1, <1>13, <3>1 DEF Unwind
    <3>2. CASE middleSpan # 0
      <4> DEFINE status == IF panic THEN 0 ELSE SeenStatus
      <4>1. status \in Nat /\ middleSpan \in 1..Len(spans)
        BY <1>1, <3>2, SeenStatusType DEF Types
      <4>2. spans' = [spans EXCEPT ![middleSpan].open = FALSE, ![middleSpan].status = status]
        BY <1>13, <3>2 DEF Unwind
      <4> HIDE DEF status
      <4> QED
        BY <1>1, <4>1, <4>2, UnwoundSpan
    <3> QED
      BY <3>1, <3>2
  <2> QED
    BY <2>1, <2>2 DEF Types
<1>14. CASE UNCHANGED vars
  BY <1>14 DEF vars, parserVars, spanVars, Types
<1> QED
  <2>1. {200, 500} \in SUBSET Nat /\ {200} \in SUBSET Nat
    OBVIOUS
  <2> QED
    BY <2>1, <1>2, <1>4, <1>5, <1>7, <1>8, <1>9, <1>10, <1>11, <1>12, <1>13, <1>14
    DEF Next, Terminated, QuietActions, EndActions, TraceFuncWithContext, TraceErrorWithContext,
        TraceVoidWithContext, TraceFuncWithSpanName

-----------------------------------------------------------------------------
(* The tree of spans.                                                       *)

(* Where the quiet steps go: none enters or leaves the handler's span.       *)
LEMMA QuietPlaces ==
  ASSUME QuietActions
  PROVE  /\ \/ /\ pc \in Entered /\ pc' \in Entered \cup {"unwind"}
               /\ pc' \in {"setup", "trace"} => pc \in {"setup", "trace"}
            \/ pc \in SpanOpen \ Running /\ pc' \in SpanOpen \ Running
            \/ pc \in {"recovery", "collect", "crash"} /\ pc' \in {"finalize", "crash", "unwind"}
         /\ adapter' = adapter /\ conf' = conf
<1> USE DEF Go, Entered, Outside, SpanOpen, Running
<1>1. CASE InitializeTracing \/ Arrive \/ TracePanics
  BY <1>1 DEF InitializeTracing, Arrive, TracePanics, parserVars
<1>2. CASE AppAuth \/ AppLogs \/ AppReader \/ Unmatched
  BY <1>2 DEF AppAuth, AppLogs, AppReader, Unmatched, AppUnchanged, NextMiddleware
<1>3. CASE InitContext \/ Parse \/ FailToParse
  BY <1>3 DEF InitContext, Parse, FailToParse, RespondError
<1>4. CASE Answer \/ Trailing \/ NextReturns \/ SetOutcome \/ AnswerPanic
  BY <1>4 DEF Answer, Trailing, NextReturns, SetOutcome, AnswerPanic, AnswerUnchanged
<1>5. CASE Recovery \/ RecoveryHandlerPanics \/ CollectLogs
  BY <1>5 DEF Recovery, RecoveryHandlerPanics, CollectLogs, AfterCollect
<1> QED
  BY <1>1, <1>2, <1>3, <1>4, <1>5 DEF QuietActions

(* A panic is never taken back.                                             *)
LEMMA PanicStays ==
  ASSUME [Next]_vars, panic
  PROVE  panic'
<1>1. CASE QuietActions
  <2>1. CASE InitializeTracing \/ Arrive \/ TracePanics
    <3>1. CASE InitializeTracing
      BY <3>1, Zenon DEF InitializeTracing
    <3>2. CASE Arrive \/ TracePanics
      BY <3>2, Zenon DEF Arrive, TracePanics
    <3> QED
      BY <2>1, <3>1, <3>2
  <2>2. CASE AppAuth \/ AppLogs \/ AppReader \/ Unmatched
    BY <2>2 DEF AppAuth, AppLogs, AppReader, Unmatched, AppUnchanged
  <2>3. CASE InitContext \/ Parse \/ FailToParse
    BY <2>3 DEF InitContext, Parse, FailToParse
  <2>4. CASE Answer \/ Trailing \/ NextReturns \/ SetOutcome \/ AnswerPanic
    BY <2>4 DEF Answer, Trailing, NextReturns, SetOutcome, AnswerPanic
  <2>5. CASE Recovery \/ RecoveryHandlerPanics \/ CollectLogs
    BY <2>5 DEF Recovery, RecoveryHandlerPanics, CollectLogs
  <2> QED
    BY <1>1, <2>1, <2>2, <2>3, <2>4, <2>5 DEF QuietActions
<1>2. CASE EndActions
  BY <1>2, EndTree
<1>3. CASE ~QuietActions /\ ~EndActions
  BY <1>3 DEF Next, Terminated, QuietActions, EndActions, Trace, StartHandlerSpan, TraceError,
              TraceFunc, TraceVoid, Start, PhasePanics, CallPanics, Panics, FinalizerPanics,
              AddSpanAttribute, Call,
              TraceFuncWithContext, TraceErrorWithContext, TraceVoidWithContext,
              TraceFuncWithSpanName, EndHandlerSpan, Unwind, vars
<1> QED
  BY <1>1, <1>2, <1>3

(* SpanInv, action by action.                                                *)
LEMMA SpanStep ==
  ASSUME Types, Types', SpanInv, [Next]_vars
  PROVE  SpanInv'
<1>1. Len(spans) \in Nat /\ spans \in Seq(SpanType) /\ panic \in BOOLEAN /\ (panic => panic')
  BY SpanTypes, PanicStays DEF Types, DataTypes, TreeTypes
<1>2. middleSpan \in 0..Len(spans) /\ handlerSpan \in 0..Len(spans) /\ running \in 0..Len(spans)
  BY DEF Types, TreeTypes
<1> USE DEF Entered, Outside, SpanOpen, Running
<1>3. CASE QuietActions
  BY <1>1, <1>3, QuietTree, QuietPlaces DEF SpanInv, SameTree
<1>4. CASE AddSpanAttribute \/ UNCHANGED vars
  <2>1. UNCHANGED <<spans, context, middleSpan, handlerSpan, running, pc, panic>>
    BY <1>4 DEF AddSpanAttribute, vars, parserVars, spanVars
  <2> QED
    BY <2>1 DEF SpanInv
<1>5. ASSUME NEW name \in SpanNames, NEW parent \in 0..Len(spans), spans' = Started(name, parent)
      PROVE  /\ Len(spans') = Len(spans) + 1
             /\ \A i \in 1..Len(spans) : spans'[i] = spans[i]
             /\ spans'[Len(spans) + 1].name = name /\ spans'[Len(spans) + 1].parent = parent
             /\ spans'[Len(spans) + 1].open
             /\ spans'[Len(spans) + 1].live <=> parent = 0 \/ spans[parent].open
  BY <1>1, <1>5, StartedSpan DEF IsRecording
<1>6. CASE Trace
  <2>1. CASE UNCHANGED <<spans, context, middleSpan>>
    BY <1>6, <2>1, TraceTree DEF SpanInv
  <2>2. CASE /\ spans' = Started("middleware", 0) /\ middleSpan' = 1
             /\ UNCHANGED context \/ context' = [s \in Stores |-> 1]
    <3>1. /\ Len(spans') = Len(spans) + 1
          /\ \A i \in 1..Len(spans) : spans'[i] = spans[i]
          /\ spans'[Len(spans) + 1].parent = 0 /\ spans'[Len(spans) + 1].open
          /\ spans'[Len(spans) + 1].live
      BY <1>1, <1>5, <2>2 DEF SpanNames
    <3>2. Len(spans) = 0
      BY <1>6, TraceTree, EmptySeq DEF SpanInv
    <3>3. pc = "trace" /\ pc' = "app" /\ handlerSpan' = handlerSpan /\ running' = running
      BY <1>6, TraceTree
    <3>4. handlerSpan = 0 /\ running = 0 /\ context["handler"] = 0
      BY <3>3 DEF SpanInv
    <3>5. context'["handler"] \in {0, 1}
      BY <2>2, <3>4 DEF Stores, Parsers
    <3> QED
      BY <2>2, <3>1, <3>2, <3>3, <3>4, <3>5 DEF SpanInv
  <2> QED
    BY <1>6, <2>1, <2>2, TraceTree
<1>7. CASE StartHandlerSpan
  <2>1. /\ pc = "span" /\ pc' \in {"unwind", "parse"}
        /\ UNCHANGED <<context, middleSpan, running>>
    BY <1>7 DEF StartHandlerSpan, parserVars
  <2>2. handlerSpan = 0 /\ running = 0 /\ context["handler"] \in {0, middleSpan}
    BY <2>1 DEF SpanInv
  <2>3. CASE UNCHANGED <<spans, handlerSpan>>
    BY <1>1, <1>2, <2>1, <2>2, <2>3 DEF SpanInv
  <2>4. CASE pc' = "parse" /\ spans' = Started("handler", CtxSpan) /\ handlerSpan' = Len(spans')
    <3>1. CtxSpan \in {0, middleSpan}
      BY <2>2 DEF CtxSpan
    <3>2. CtxSpan \in 0..Len(spans) /\ (CtxSpan = 0 \/ spans[CtxSpan].open)
      BY <1>1, <1>2, <2>1, <3>1 DEF SpanInv
    <3>3. /\ Len(spans') = Len(spans) + 1
          /\ \A i \in 1..Len(spans) : spans'[i] = spans[i]
          /\ spans'[Len(spans) + 1].parent = CtxSpan
          /\ spans'[Len(spans) + 1].open /\ spans'[Len(spans) + 1].live
      BY <1>1, <1>5, <2>4, <3>2 DEF SpanNames
    <3> HIDE DEF CtxSpan
    <3> QED
      BY <1>1, <1>2, <2>1, <2>2, <2>4, <3>2, <3>3 DEF SpanInv
  <2> QED
    BY <1>7, <2>3, <2>4 DEF StartHandlerSpan
<1>8. ASSUME NEW p \in Phases, Start(p)
      PROVE  SpanInv'
  <2>1. /\ pc = p /\ pc' = During(p)
        /\ UNCHANGED <<middleSpan, handlerSpan, context, panic>>
    BY <1>8, StartTree
  <2>2. /\ pc \in {"initialize", "handle", "finalize"} /\ pc' \in Running
        /\ pc \in SpanOpen <=> pc' \in SpanOpen
    BY <2>1 DEF Phases, During
  <2>3. running = 0
    BY <2>2 DEF SpanInv
  <2>4. CASE UNCHANGED <<spans, running>>
    BY <2>1, <2>2, <2>3, <2>4 DEF SpanInv
  <2>5. CASE /\ IsRecording(context[H]) /\ context[H] \in 1..Len(spans)
             /\ spans' = Started(p, context[H]) /\ running' = Len(spans')
    <3> DEFINE parent == context[H]
    <3>1. parent \in 1..Len(spans) /\ spans[parent].open
      BY <2>5 DEF IsRecording
    <3>2. spans' = Started(p, parent) /\ running' = Len(spans')
      BY <2>5
    <3> HIDE DEF parent
    <3>3. /\ Len(spans') = Len(spans) + 1
          /\ \A i \in 1..Len(spans) : spans'[i] = spans[i]
          /\ spans'[Len(spans) + 1].parent = parent
          /\ spans'[Len(spans) + 1].name = p
          /\ spans'[Len(spans) + 1].open /\ spans'[Len(spans) + 1].live
      BY <1>1, <1>5, <3>1, <3>2 DEF SpanNames, Phases
    <3>4. ASSUME NEW i \in 1..Len(spans'), spans'[i].open
          PROVE  \/ i \in {middleSpan, handlerSpan, running'}
                 \/ panic' /\ spans'[i].name \in Phases \cup {"call"}
      <4>1. CASE i = Len(spans')
        BY <3>2, <4>1
      <4>2. CASE i \in 1..Len(spans)
        BY <1>1, <2>1, <2>3, <3>3, <3>4, <4>2 DEF SpanInv
      <4> QED
        BY <1>1, <3>3, <4>1, <4>2
    <3>5. /\ running' = Len(spans) + 1 /\ running' \notin {middleSpan, handlerSpan}
          /\ spans'[running'].open /\ spans'[running'].name \in Phases
      BY <1>1, <1>2, <3>2, <3>3
    <3> QED
      BY <1>1, <1>2, <2>1, <2>2, <3>1, <3>3, <3>4, <3>5 DEF SpanInv
  <2> QED
    BY <1>8, <2>4, <2>5, StartTree
<1>9. CASE TraceError \/ TraceFunc \/ TraceVoid
  BY <1>8, <1>9 DEF TraceError, TraceFunc, TraceVoid, Phases
<1>10. CASE EndActions
  <2>1. /\ spans' = Ended(running) /\ running' = 0
        /\ UNCHANGED <<middleSpan, handlerSpan, panic>>
    BY <1>10, EndTree
  <2>2. /\ Len(spans') = Len(spans)
        /\ \A i \in 1..Len(spans) :
             /\ spans'[i].name = spans[i].name /\ spans'[i].parent = spans[i].parent
             /\ spans'[i].live = spans[i].live
             /\ spans'[i].open <=> spans[i].open /\ i # running
    BY <1>1, <1>2, <2>1, EndedStep
  <2>3. \/ pc \in {"initializing", "handling"} /\ pc' \in {"handle", "answer", "endspan"}
        \/ pc = "finalizing" /\ pc' = "collect"
    BY <1>10 DEF EndActions, Initialized, FailToInitialize, Handled, FailToHandle, Finalized, Go,
                 RespondError
  <2>4. middleSpan # 0 => spans'[middleSpan].open
    BY <1>1, <1>2, <2>2, <2>3 DEF SpanInv
  <2>5. handlerSpan # 0 => /\ handlerSpan # middleSpan
                           /\ spans'[handlerSpan].open <=> pc' \in SpanOpen
    BY <1>1, <1>2, <2>2, <2>3 DEF SpanInv
  <2> QED
    BY <1>1, <1>2, <2>1, <2>2, <2>3, <2>4, <2>5 DEF SpanInv
<1>11. CASE PhasePanics \/ FinalizerPanics
  <2>1. /\ UNCHANGED <<spans, middleSpan, handlerSpan, context>> /\ running' = 0 /\ panic'
        /\ \/ pc \in {"initializing", "handling"} /\ pc' = "endspan"
           \/ pc = "finalizing" /\ pc' = "unwind"
    BY <1>11 DEF PhasePanics, Panics, FinalizerPanics, PhaseUnchanged, Go
  <2> QED
    BY <1>1, <1>2, <2>1 DEF SpanInv
<1>12. CASE CallPanics \/ \E statuses \in SUBSET Nat : Call(statuses)
  <2>1. PICK parent \in 0..Len(spans), open \in BOOLEAN, status \in Nat :
          /\ CallUnder(parent, open, status)
          /\ IF open THEN pc' = "endspan" /\ panic' = TRUE /\ running' = 0
             ELSE UNCHANGED <<pc, panic, running>>
    BY <1>12, CallSteps
  <2>2. /\ pc = "handling" /\ parent \in 1..Len(spans) /\ spans[parent].open
        /\ Len(spans') = Len(spans) + 1
        /\ \A i \in 1..Len(spans) : spans'[i] = spans[i]
        /\ spans'[Len(spans) + 1].name = "call" /\ spans'[Len(spans) + 1].parent = parent
        /\ spans'[Len(spans) + 1].live
        /\ spans'[Len(spans) + 1].open <=> open
    BY <2>1, CalledSpan
  <2>3. UNCHANGED <<middleSpan, handlerSpan, context>>
    BY <1>12, CallSteps
  <2>4. /\ Len(spans) \in Nat /\ parent < Len(spans) + 1
        /\ \A i \in 1..Len(spans') : i \in 1..Len(spans) \/ i = Len(spans) + 1
    BY <1>1, <1>2, <2>2
  <2>5. \A i \in 1..Len(spans') : spans'[i].parent < i /\ spans'[i].live
    BY <2>2, <2>4 DEF SpanInv
  <2>6. /\ middleSpan # 0 => spans'[middleSpan] = spans[middleSpan]
        /\ handlerSpan # 0 => spans'[handlerSpan] = spans[handlerSpan]
        /\ running # 0 => spans'[running] = spans[running]
    BY <1>1, <1>2, <2>2
  <2>7. CASE open
    <3>1. pc' = "endspan" /\ panic' = TRUE /\ running' = 0
      BY <2>1, <2>7
    <3>2. \A i \in 1..Len(spans') :
            spans'[i].open => \/ i \in {middleSpan, handlerSpan, running'}
                              \/ panic' /\ spans'[i].name \in Phases \cup {"call"}
      BY <2>2, <2>4, <2>6, <3>1 DEF SpanInv
    <3> QED
      BY <2>2, <2>3, <2>5, <2>6, <3>1, <3>2 DEF SpanInv
  <2>8. CASE ~open
    <3>1. UNCHANGED <<pc, panic, running>> /\ ~spans'[Len(spans) + 1].open
      BY <2>1, <2>2, <2>8
    <3>2. \A i \in 1..Len(spans') :
            spans'[i].open => \/ i \in {middleSpan, handlerSpan, running}
                              \/ panic /\ spans'[i].name \in Phases \cup {"call"}
      BY <2>2, <2>4, <3>1 DEF SpanInv
    <3> QED
      BY <2>2, <2>3, <2>5, <2>6, <3>1, <3>2 DEF SpanInv
  <2> QED
    BY <2>7, <2>8
<1>13. CASE EndHandlerSpan
  <2>1. /\ spans' = Ended(handlerSpan) /\ UNCHANGED <<middleSpan, handlerSpan, running, context, panic>>
        /\ pc = "endspan" /\ pc' = "recovery"
    BY <1>13 DEF EndHandlerSpan, Go, parserVars
  <2>2. /\ Len(spans') = Len(spans)
        /\ \A i \in 1..Len(spans) :
             /\ spans'[i].name = spans[i].name /\ spans'[i].parent = spans[i].parent
             /\ spans'[i].live = spans[i].live
             /\ spans'[i].open <=> spans[i].open /\ i # handlerSpan
    BY <1>1, <1>2, <2>1, EndedStep
  <2> QED
    BY <1>1, <1>2, <2>1, <2>2 DEF SpanInv
<1>14. CASE Unwind
  <2>1. /\ UNCHANGED <<middleSpan, handlerSpan, running, context, panic>>
        /\ pc = "unwind" /\ pc' = "done"
    BY <1>14 DEF Unwind, Go
  <2>2. CASE middleSpan = 0
    <3>1. spans' = spans
      BY <1>14, <2>2 DEF Unwind
    <3> QED
      BY <2>1, <2>2, <3>1 DEF SpanInv
  <2>3. CASE middleSpan # 0
    <3> DEFINE status == IF panic THEN 0 ELSE SeenStatus
    <3>1. status \in Nat /\ middleSpan \in 1..Len(spans)
      BY <1>1, <1>2, <2>3, SeenStatusType
    <3>2. spans' = [spans EXCEPT ![middleSpan].open = FALSE, ![middleSpan].status = status]
      BY <1>14, <2>3 DEF Unwind
    <3> HIDE DEF status
    <3>3. /\ Len(spans') = Len(spans)
          /\ \A i \in 1..Len(spans) : i # middleSpan => spans'[i] = spans[i]
          /\ spans'[middleSpan].parent = spans[middleSpan].parent
          /\ spans'[middleSpan].live = spans[middleSpan].live
          /\ spans'[middleSpan].name = spans[middleSpan].name
          /\ ~spans'[middleSpan].open
      BY <1>1, <3>1, <3>2, UnwoundSpan
    <3> QED
      BY <1>1, <1>2, <2>1, <2>3, <3>1, <3>3 DEF SpanInv
  <2> QED
    BY <2>2, <2>3
<1> QED
  <2>1. {200, 500} \in SUBSET Nat /\ {200} \in SUBSET Nat
    OBVIOUS
  <2> QED
    BY <2>1, <1>3, <1>4, <1>6, <1>7, <1>9, <1>10, <1>11, <1>12, <1>13, <1>14
    DEF Next, Terminated, QuietActions, EndActions, TraceFuncWithContext, TraceErrorWithContext,
        TraceVoidWithContext, TraceFuncWithSpanName

(* The note stays where the application put it, since its span does not      *)
(* change.                                                                   *)
LEMMA NoteStep ==
  ASSUME Types, SpanInv, NoteInv, [Next]_vars
  PROVE  NoteInv'
<1> USE DEF Entered, Outside, SpanOpen, Running
<1>1. CASE QuietActions
  BY <1>1, QuietTree, QuietPlaces DEF NoteInv, SameTree, WebSpan
<1>2. CASE AddSpanAttribute
  <2>1. UNCHANGED <<spans, middleSpan, handlerSpan, pc, conf, adapter>>
    BY <1>2 DEF AddSpanAttribute, parserVars
  <2>2. PICK p \in Phases, by \in {"trx", "global", "web", "parser", "adapter"} :
          /\ pc = During(p)
          /\ note' = [phase |-> p, by |-> by,
                      span |-> IF IsRecording(SpanOf(by)) THEN SpanOf(by) ELSE 0]
    BY <1>2 DEF AddSpanAttribute
  <2>3. pc \in Running /\ (p = "finalize" <=> pc \notin SpanOpen)
    BY <2>2 DEF During, Phases
  <2>4. CASE by = "trx"
    <3>1. SpanOf(by) = handlerSpan
      BY <2>4 DEF SpanOf, TrxSpan
    <3>2. IsRecording(handlerSpan) <=> handlerSpan # 0 /\ p # "finalize"
      BY <2>3 DEF IsRecording, SpanInv
    <3>3. note'.by = "trx" /\ note'.phase = p /\ note'.span = IF p = "finalize" THEN 0 ELSE handlerSpan
      BY <2>2, <2>4, <3>1, <3>2
    <3> QED
      BY <2>1, <2>3, <3>3 DEF NoteInv
  <2>5. CASE by = "web"
    <3>1. SpanOf(by) = WebSpan
      BY <2>5 DEF SpanOf
    <3>2. WebSpan # 0 => IsRecording(WebSpan)
      BY <2>3 DEF IsRecording, SpanInv, WebSpan
    <3>3. note'.by = "web" /\ note'.span = WebSpan
      BY <2>2, <2>5, <3>1, <3>2
    <3> QED
      BY <2>1, <2>3, <3>3 DEF NoteInv, WebSpan
  <2>6. CASE by \notin {"trx", "web"}
    BY <2>1, <2>2, <2>3, <2>6 DEF NoteInv
  <2> QED
    BY <2>4, <2>5, <2>6
<1>3. CASE Trace
  BY <1>3, TraceTree DEF NoteInv, NoNote
<1>4. CASE StartHandlerSpan
  BY <1>4 DEF StartHandlerSpan, NoteInv, NoNote, parserVars
<1>5. CASE TraceError \/ TraceFunc \/ TraceVoid
  <2>1. PICK p \in Phases : Start(p)
    BY <1>5 DEF TraceError, TraceFunc, TraceVoid, Phases
  <2>2. /\ pc = p /\ pc' = During(p)
        /\ UNCHANGED <<middleSpan, handlerSpan, note, conf, adapter>>
    BY <2>1, StartTree
  <2> QED
    BY <2>2 DEF NoteInv, WebSpan, Phases, During
<1>6. CASE EndActions
  <2>1. UNCHANGED <<middleSpan, handlerSpan, note, conf, adapter>>
    BY <1>6, EndTree
  <2>2. pc' \notin Entered
    BY <1>6 DEF EndActions, Initialized, FailToInitialize, Handled, FailToHandle, Finalized, Go,
                RespondError
  <2> QED
    BY <2>1, <2>2 DEF NoteInv, WebSpan
<1>7. CASE PhasePanics \/ FinalizerPanics
  BY <1>7 DEF PhasePanics, Panics, FinalizerPanics, PhaseUnchanged, Go, NoteInv, WebSpan
<1>8. CASE CallPanics \/ \E statuses \in SUBSET Nat : Call(statuses)
  <2>1. PICK parent \in 0..Len(spans), open \in BOOLEAN, status \in Nat :
          /\ CallUnder(parent, open, status)
          /\ IF open THEN pc' = "endspan" ELSE UNCHANGED pc
    BY <1>8, CallSteps
  <2>2. pc = "handling"
    BY <2>1, CalledSpan
  <2>3. UNCHANGED <<middleSpan, handlerSpan, note, conf, adapter>>
    BY <1>8, CallSteps
  <2> QED
    BY <2>1, <2>2, <2>3 DEF NoteInv, WebSpan
<1>9. CASE EndHandlerSpan \/ Unwind
  BY <1>9 DEF EndHandlerSpan, Unwind, Go, NoteInv, WebSpan, parserVars
<1>10. CASE UNCHANGED vars
  BY <1>10 DEF vars, parserVars, spanVars, NoteInv, WebSpan
<1> QED
  <2>1. {200, 500} \in SUBSET Nat /\ {200} \in SUBSET Nat
    OBVIOUS
  <2> QED
    BY <2>1, <1>1, <1>2, <1>3, <1>4, <1>5, <1>6, <1>7, <1>8, <1>9, <1>10
    DEF Next, Terminated, QuietActions, EndActions, TraceFuncWithContext, TraceErrorWithContext,
        TraceVoidWithContext, TraceFuncWithSpanName

-----------------------------------------------------------------------------
(* The statuses.                                                            *)

SameAnswer ==
  /\ UNCHANGED <<adapter, conf, wire, outcome, panic, attrs>>
  /\ locals'[H].status = locals[H].status
  /\ locals'[H].log.errors # <<>> <=> locals[H].log.errors # <<>>
  /\ \/ pc' = pc /\ pc # "done"
     \/ pc \in Silent /\ pc' \in Silent
     \/ pc = "next" /\ pc' = "outcome"
     \/ pc = "endspan" /\ pc' = "recovery"
     \/ pc \in {"finalize", "finalizing"} /\ pc' \in {"finalizing", "collect"}

SameAnswerActions ==
  \/ InitializeTracing \/ Arrive \/ Trace \/ AppLogs \/ AppReader \/ InitContext
  \/ Parse \/ TraceError \/ Initialized \/ TraceFunc \/ Handled
  \/ AddSpanAttribute \/ TraceFuncWithContext \/ TraceErrorWithContext \/ TraceVoidWithContext
  \/ TraceFuncWithSpanName \/ NextReturns \/ EndHandlerSpan \/ TraceVoid \/ Finalized

(* Steps that change neither the wire nor what is said of it keep StatusInv. *)
LEMMA SameAnswers ==
  ASSUME Types, SameAnswerActions
  PROVE  SameAnswer
<1> USE DEF SameAnswer, Go, Silent, Entered, Outside
<1>1. CASE InitializeTracing \/ Arrive
  BY <1>1 DEF InitializeTracing, Arrive, parserVars
<1>2. CASE Trace \/ AppReader
  BY <1>2 DEF Trace, AppReader, NextMiddleware, AppUnchanged
<1>3. CASE AppLogs
  <2> DEFINE s == Store("middleware")
             new == [locals[s] EXCEPT !.user = "unknown"]
  <2>1. s \in Stores
    BY AdapterOf, StoreOf DEF Parsers
  <2>2. locals' = [locals EXCEPT ![s] = new]
    BY <1>3 DEF AppLogs
  <2> HIDE DEF s
  <2>3. new.status = locals[s].status /\ new.log = locals[s].log
    BY <2>1 DEF Types, DataTypes, LocalType
  <2> HIDE DEF new
  <2>4. locals'[H].status = locals[H].status /\ locals'[H].log = locals[H].log
    BY <2>1, <2>2, <2>3, HandlerStore DEF Types, DataTypes
  <2> QED
    BY <1>3, <2>4 DEF AppLogs, NextMiddleware, AppUnchanged
<1>4. CASE InitContext
  <2>1. /\ locals'[H].status = locals[H].status
        /\ locals'[H].log.errors # <<>> <=> locals[H].log.errors # <<>>
    BY <1>4, InitContextStep
  <2> QED
    BY <1>4, <2>1 DEF InitContext
<1>5. CASE Parse \/ Initialized \/ Handled \/ NextReturns
  <2>1. /\ locals'[H].status = locals[H].status
        /\ locals'[H].log.errors # <<>> <=> locals[H].log.errors # <<>>
    BY <1>5, NotingStep DEF NotingActions
  <2>2. /\ UNCHANGED <<adapter, conf, wire, outcome, panic, attrs>>
        /\ \/ pc \in Silent /\ pc' \in Silent
           \/ pc = "next" /\ pc' = "outcome"
    BY <1>5 DEF Parse, Initialized, Handled, NextReturns, PhaseUnchanged, AnswerUnchanged
  <2> QED
    BY <2>1, <2>2
<1>6. CASE TraceError \/ TraceFunc \/ TraceVoid
  BY <1>6 DEF TraceError, TraceFunc, TraceVoid, Start, During, parserVars
<1>7. CASE AddSpanAttribute
  <2>1. UNCHANGED <<parserVars, conf, pc, outcome, panic>> /\ pc # "done"
    BY <1>7 DEF AddSpanAttribute, Phases, During
  <2> QED
    BY <2>1 DEF parserVars
<1>8. CASE \E statuses : Call(statuses)
  <2>1. pc = "handling" /\ UNCHANGED <<parserVars, conf, pc, outcome, panic>>
    BY <1>8 DEF Call, CallUnder
  <2> QED
    BY <2>1 DEF parserVars
<1>9. CASE EndHandlerSpan \/ Finalized
  BY <1>9 DEF EndHandlerSpan, Finalized, PhaseUnchanged, parserVars
<1> QED
  BY <1>1, <1>2, <1>3, <1>4, <1>5, <1>6, <1>7, <1>8, <1>9
  DEF SameAnswerActions, TraceFuncWithContext, TraceErrorWithContext, TraceVoidWithContext,
      TraceFuncWithSpanName

LEMMA SameAnswerStep ==
  ASSUME Types, StatusInv, SameAnswer
  PROVE  StatusInv'
<1>1. H' = H
  BY SameStores DEF SameAnswer
<1> USE DEF SameAnswer, Silent, Entered, Outside, Deferred
<1>2. AnswerInv'
  <2>1. Told(outcome)' <=> Told(outcome)
    BY DEF Told, Superseded
  <2>2. Told(locals[H].status)' <=> Told(locals[H].status)
    BY <1>1 DEF Told, Superseded
  <2>3. OfPanic' = OfPanic /\ (Superseded' <=> Superseded)
    BY DEF OfPanic, Superseded
  <2> QED
    BY <1>1, <2>1, <2>2, <2>3 DEF StatusInv, AnswerInv
<1>3. ErrorInv'
  BY <1>1 DEF StatusInv, ErrorInv, Erred
<1>4. AskedInv'
  BY DEF StatusInv, AskedInv
<1>5. MiddleInv'
  BY DEF MiddleInv
<1> QED
  BY <1>2, <1>4, <1>5, <1>3 DEF StatusInv

(* The steps that fail before an answer, and those that panic.              *)
LEMMA ErrorAnswerStep ==
  ASSUME Types, StatusInv, FailingActions
  PROVE  StatusInv'
<1> USE DEF Silent, Entered, Outside, Deferred
<1>1. /\ pc \in Silent /\ pc' = "endspan" /\ UNCHANGED <<adapter, panic, attrs>>
      /\ locals'[H].log.errors # <<>>
      /\ outcome' \in Nat /\ outcome' >= 400 /\ Sent(outcome')
  BY FailingStep
<1>2. H' = H
  BY <1>1, SameStores
<1>3. wire = NothingSent /\ wire.sent = 0 /\ ~panic /\ attrs = <<>>
  BY <1>1 DEF StatusInv, AnswerInv, NothingSent
<1>4. wire'.status = outcome' /\ wire'.sent > 0 /\ (adapter = "nethttp" => wire'.asked = 500)
  BY <1>1, <1>3 DEF Sent
<1>5. AnswerInv'
  BY <1>1, <1>3, <1>4 DEF AnswerInv, Told
<1>6. ErrorInv'
  BY <1>1, <1>2, <1>3 DEF ErrorInv, Erred
<1>7. AskedInv' /\ MiddleInv'
  BY <1>1, <1>4 DEF AskedInv, MiddleInv
<1> QED
  BY <1>5, <1>6, <1>7 DEF StatusInv

(* StatusInv, action by action: answers, panics, recovery and the            *)
(* middleware's end.                                                         *)
LEMMA StatusStep ==
  ASSUME Types, StatusInv, [Next]_vars
  PROVE  StatusInv'
<1> USE DEF Silent, Entered, Outside, Deferred, Go
<1>1. CASE SameAnswerActions
  BY <1>1, SameAnswers, SameAnswerStep
<1>2. CASE UNCHANGED vars
  <2>1. UNCHANGED <<adapter, locals, wire, attrs, conf, pc, outcome, panic, middleSpan, spans>>
    BY <1>2 DEF vars, parserVars, spanVars
  <2>2. H' = H /\ (Superseded' <=> Superseded) /\ OfPanic' = OfPanic
    BY <2>1, SameStores DEF Superseded, OfPanic
  <2>3. AnswerInv'
    BY <2>1, <2>2 DEF StatusInv, AnswerInv, Told
  <2>4. ErrorInv' /\ AskedInv' /\ MiddleInv'
    BY <2>1, <2>2 DEF StatusInv, ErrorInv, Erred, AskedInv, MiddleInv, FrameworkStatus
  <2> QED
    BY <2>3, <2>4 DEF StatusInv
<1>3. CASE TracePanics
  <2>1. /\ pc = "trace" /\ pc' = "unwind" /\ panic' = TRUE
        /\ UNCHANGED <<adapter, wire, attrs>>
    BY <1>3 DEF TracePanics, parserVars
  <2> QED
    BY <2>1 DEF StatusInv, AnswerInv, ErrorInv, AskedInv, MiddleInv, Told
<1>4. CASE AppAuth
  <2>1. /\ pc = "app" /\ UNCHANGED <<adapter, attrs, outcome, panic>>
        /\ wire = NothingSent /\ attrs = <<>> /\ wire \in WireType
    BY <1>4 DEF AppAuth, NextMiddleware, AppUnchanged, StatusInv, AnswerInv, Types, DataTypes
  <2>2. CASE pc' = "unwind" /\ wire' = NetHTTPSend(wire, 401, TRUE)
    <3>1. PICK e : wire' = NetHTTPSend(wire, 401, e)
      BY <2>2, Zenon
    <3>2. wire'.status = 401 /\ wire'.asked = 401
      BY <2>1, <3>1, NetHTTPSent DEF NothingSent
    <3>3. AnswerInv' /\ ErrorInv' /\ MiddleInv'
      BY <2>1, <2>2 DEF AnswerInv, ErrorInv, MiddleInv
    <3>4. AskedInv'
      BY <3>2 DEF AskedInv
    <3> QED
      BY <3>3, <3>4 DEF StatusInv
  <2>3. CASE pc' = pc /\ wire' = wire
    <3>1. locals'[H].log = locals[H].log
      <4> DEFINE s == Store("middleware")
                 new == [locals[s] EXCEPT !.user = "caller"]
      <4>1. s \in Stores
        BY AdapterOf, StoreOf DEF Parsers
      <4>2. locals' = locals \/ locals' = [locals EXCEPT ![s] = new]
        BY <1>4 DEF AppAuth
      <4> HIDE DEF s
      <4>3. new.log = locals[s].log
        BY <4>1 DEF Types, DataTypes, LocalType
      <4> HIDE DEF new
      <4> QED
        BY <4>1, <4>2, <4>3, HandlerStore DEF Types, DataTypes
    <3>2. H' = H
      BY <2>1, SameStores
    <3>3. AnswerInv' /\ AskedInv' /\ MiddleInv'
      BY <2>1, <2>3 DEF AnswerInv, AskedInv, MiddleInv, StatusInv
    <3>4. ErrorInv'
      BY <2>1, <2>3, <3>1, <3>2 DEF ErrorInv, Erred, StatusInv
    <3> QED
      BY <3>3, <3>4 DEF StatusInv
  <2> QED
    BY <1>4, <2>2, <2>3 DEF AppAuth
<1>5. CASE Unmatched
  <2>1. /\ pc = "app" /\ pc' = "unwind" /\ UNCHANGED <<adapter, attrs, outcome, panic>>
        /\ wire = NothingSent /\ wire.status = 0 /\ attrs = <<>> /\ wire \in WireType
    BY <1>5 DEF Unmatched, AppUnchanged, StatusInv, AnswerInv, Types, DataTypes, NothingSent
  <2>2. adapter = "nethttp" => \E code \in {404, 405} : wire' = NetHTTPErrorHandler(wire, code)
    BY <1>5 DEF Unmatched
  <2>3. adapter = "nethttp" => wire'.status >= 400 /\ wire'.asked = 500
    BY <2>1, <2>2, NetHTTPErrors
  <2> QED
    BY <2>1, <2>3 DEF AnswerInv, ErrorInv, AskedInv, MiddleInv, StatusInv
<1>6. CASE StartHandlerSpan
  <2>1. /\ pc = "span" /\ UNCHANGED <<adapter, wire, attrs, locals, outcome>>
        /\ \/ pc' = "unwind" /\ panic' = TRUE
           \/ pc' = "parse" /\ panic' = panic
    BY <1>6 DEF StartHandlerSpan, parserVars
  <2>2. H' = H
    BY <2>1, SameStores
  <2> QED
    BY <2>1, <2>2 DEF StatusInv, AnswerInv, ErrorInv, Erred, AskedInv, MiddleInv
<1>7. CASE FailingActions
  BY <1>7, ErrorAnswerStep
<1>8. CASE PhasePanics \/ CallPanics
  <2>1. /\ pc \in Silent /\ pc' = "endspan" /\ panic' = TRUE /\ UNCHANGED <<adapter, wire, outcome, attrs>>
    BY <1>8 DEF PhasePanics, CallPanics, CallUnder, Panics, PhaseUnchanged
  <2> QED
    BY <2>1 DEF StatusInv, AnswerInv, ErrorInv, AskedInv, MiddleInv
<1>9. CASE Answer
  <2>1. PICK encoded \in BOOLEAN : Respond(H, 200, encoded)
    BY <1>9 DEF Answer
  <2>2. Sent(200) /\ Answered(H, 200, locals[H].log)
    BY <2>1, RespondEffect DEF H, Parsers
  <2>3. /\ pc = "answer" /\ pc' = "next" /\ UNCHANGED <<adapter, attrs, panic, outcome>>
        /\ wire = NothingSent /\ wire.sent = 0 /\ attrs = <<>> /\ ~panic /\ outcome = 0 /\ ~Erred
    BY <1>9 DEF Answer, AnswerUnchanged, StatusInv, AnswerInv, ErrorInv, NothingSent
  <2>4. wire'.status = 200 /\ wire'.sent = 1 /\ (adapter = "nethttp" => wire'.asked = 200)
    BY <2>2, <2>3 DEF Sent
  <2>5. H' = H /\ locals'[H].status = 200
    BY <2>2, <2>3, SameStores DEF Answered
  <2>6. ~Erred'
    <3>1. locals'[H].log.errors = <<>>
      BY <2>2, <2>3, HandlerStore, AnswerNoted DEF Erred
    <3> QED
      BY <2>5, <3>1 DEF Erred
  <2>7. AnswerInv'
    BY <2>3, <2>4, <2>5 DEF AnswerInv, Told
  <2>8. ErrorInv'
    BY <2>3, <2>5, <2>6 DEF ErrorInv
  <2>9. AskedInv' /\ MiddleInv'
    BY <2>3, <2>4 DEF AskedInv, MiddleInv
  <2> QED
    BY <2>7, <2>8, <2>9 DEF StatusInv
<1>10. CASE Trailing
  <2>1. /\ pc = "next" /\ adapter # "nethttp" /\ UNCHANGED <<adapter, attrs, outcome>>
        /\ attrs = <<>> /\ ~panic /\ outcome = 0 /\ wire.sent > 0 /\ wire \in WireType
    BY <1>10 DEF Trailing, AnswerUnchanged, StatusInv, AnswerInv, NextCalls, Types, DataTypes
  <2>2. CASE Respond(Store("trailing"), 503, TRUE) /\ pc' = "outcome" /\ UNCHANGED panic
    <3>1. PICK e : Respond(Store("trailing"), 503, e)
      BY <2>2, Zenon
    <3>2. Sent(503) /\ Answered(Store("trailing"), 503, locals[Store("trailing")].log)
      BY <3>1, RespondEffect DEF Parsers
    <3>3. Store("trailing") = H /\ H' = H
      BY <2>1, AdapterOf, StoreOf, SameStores DEF H, Parsers
    <3>4. locals'[H].status = 503
      BY <3>2, <3>3 DEF Answered
    <3>5. locals'[H].log.errors # <<>>
      BY <3>2, <3>3, HandlerStore, AnswerNoted
    <3>6. wire'.sent > 1 /\ wire'.sent > 0 /\ (adapter = "fiber" => wire'.status = 503)
      BY <2>1, <3>2 DEF Sent, WireType
    <3>7. AnswerInv'
      BY <2>1, <2>2, <3>3, <3>4, <3>6 DEF AnswerInv, Told, Superseded
    <3>8. ErrorInv'
      BY <2>1, <2>2, <3>3, <3>4, <3>5 DEF ErrorInv, Erred
    <3>9. AskedInv' /\ MiddleInv'
      BY <2>1, <2>2 DEF AskedInv, MiddleInv
    <3> QED
      BY <3>7, <3>8, <3>9 DEF StatusInv
  <2>3. CASE pc' = "endspan" /\ panic' = TRUE /\ UNCHANGED <<wire, locals>>
    BY <2>1, <2>3 DEF StatusInv, AnswerInv, ErrorInv, AskedInv, MiddleInv
  <2> QED
    BY <1>10, <2>2, <2>3 DEF Trailing
<1>11. CASE SetOutcome
  <2>1. /\ pc = "outcome" /\ pc' = "endspan" /\ UNCHANGED <<adapter, attrs, panic, wire, locals>>
        /\ outcome' = locals[H].status
    BY <1>11 DEF SetOutcome, AnswerUnchanged, GetLocal, H
  <2>2. H' = H /\ (Superseded' <=> Superseded)
    BY <2>1, SameStores DEF Superseded
  <2> QED
    BY <2>1, <2>2 DEF StatusInv, AnswerInv, ErrorInv, Erred, AskedInv, MiddleInv, Told
<1>12. CASE Recovery
  <2>1. /\ pc = "recovery" /\ pc' = "finalize" /\ UNCHANGED <<adapter, attrs, conf, panic, wire>>
        /\ outcome' = IF panic /\ ~conf.recovery THEN 500 ELSE outcome
    BY <1>12 DEF Recovery
  <2>2. H' = H /\ (Superseded' <=> Superseded) /\ OfPanic' = OfPanic
    BY <2>1, SameStores DEF Superseded, OfPanic
  <2>3. locals'[H].log.errors # <<>> <=> locals[H].log.errors # <<>>
    BY <1>12, NotingStep DEF NotingActions
  <2>4. AnswerInv'
    <3>1. CASE panic
      <4>1. outcome = 0 /\ (wire = NothingSent \/ wire.sent > 0) /\ attrs = <<>>
        BY <2>1, <3>1 DEF StatusInv, AnswerInv
      <4>2. outcome' = OfPanic
        BY <2>1, <3>1, <4>1 DEF OfPanic
      <4> QED
        BY <2>1, <2>2, <3>1, <4>1, <4>2 DEF AnswerInv
    <3>2. CASE ~panic
      <4>1. outcome' = outcome
        BY <2>1, <3>2
      <4> QED
        BY <2>1, <2>2, <3>2, <4>1 DEF StatusInv, AnswerInv, Told
    <3> QED
      BY <3>1, <3>2
  <2>5. ErrorInv'
    BY <2>1, <2>2, <2>3 DEF StatusInv, ErrorInv, Erred
  <2>6. AskedInv' /\ MiddleInv'
    BY <2>1 DEF StatusInv, AskedInv, MiddleInv
  <2> QED
    BY <2>4, <2>5, <2>6 DEF StatusInv
<1>13. CASE RecoveryHandlerPanics
  <2>1. /\ pc = "recovery" /\ pc' = "unwind" /\ panic /\ UNCHANGED <<adapter, attrs, panic, wire>>
    BY <1>13 DEF RecoveryHandlerPanics
  <2> QED
    BY <2>1 DEF StatusInv, AnswerInv, ErrorInv, AskedInv, MiddleInv
<1>14. CASE FinalizerPanics
  <2>1. /\ pc = "finalizing" /\ pc' = "unwind" /\ panic' = TRUE /\ UNCHANGED <<adapter, attrs, wire>>
    BY <1>14 DEF FinalizerPanics, PhaseUnchanged
  <2> QED
    BY <2>1 DEF StatusInv, AnswerInv, ErrorInv, AskedInv, MiddleInv
<1>15. CASE CollectLogs
  <2>1. /\ pc = "collect" /\ pc' = (IF panic /\ ~conf.recovery THEN "crash" ELSE "unwind")
        /\ UNCHANGED <<adapter, conf, panic, wire, outcome, locals>>
    BY <1>15 DEF CollectLogs, AfterCollect
  <2>2. H' = H /\ (Superseded' <=> Superseded) /\ OfPanic' = OfPanic
    BY <2>1, SameStores DEF Superseded, OfPanic
  <2>3. AnswerInv'
    BY <2>1, <2>2 DEF StatusInv, AnswerInv, Told, OfPanic
  <2>4. ErrorInv'
    BY <2>1, <2>2 DEF StatusInv, ErrorInv, Erred
  <2>5. AskedInv' /\ MiddleInv'
    BY <2>1 DEF StatusInv, AskedInv, MiddleInv
  <2> QED
    BY <2>3, <2>4, <2>5 DEF StatusInv
<1>16. CASE AnswerPanic
  <2>1. PICK code \in {400, 500}, encoded \in BOOLEAN : Respond(H, code, encoded)
    BY <1>16 DEF AnswerPanic
  <2>2. code \in Nat \ {0} /\ code \in Nat
    OBVIOUS
  <2>3. Sent(code) /\ Answered(H, code, locals[H].log)
    BY <2>1, <2>2, RespondEffect DEF H, Parsers
  <2>4. /\ pc = "crash" /\ pc' = "unwind" /\ UNCHANGED <<adapter, conf, attrs, panic, outcome>>
        /\ panic /\ ~conf.recovery /\ outcome = 500
        /\ wire \in WireType /\ (wire = NothingSent \/ wire.sent > 0)
    BY <1>16 DEF AnswerPanic, AnswerUnchanged, StatusInv, AnswerInv, Types, DataTypes
  <2>5. H' = H /\ locals'[H].status = code
    BY <2>3, <2>4, SameStores DEF Answered
  <2>6. adapter # "fiber" => wire'.status = code \/ wire'.sent > 1
    BY <2>3, <2>4 DEF Sent, WireType
  <2>7. AnswerInv'
    BY <2>4, <2>5, <2>6 DEF AnswerInv, OfPanic, Superseded
  <2>8. ErrorInv' /\ AskedInv' /\ MiddleInv'
    BY <2>4 DEF ErrorInv, AskedInv, MiddleInv
  <2> QED
    BY <2>7, <2>8 DEF StatusInv
<1>17. CASE Unwind
  <2>1. /\ pc = "unwind" /\ pc' = "done"
        /\ UNCHANGED <<adapter, attrs, panic, outcome, middleSpan, conf, locals>>
        /\ wire' = IF panic THEN FrameworkRecovery(wire) ELSE wire
        /\ wire \in WireType /\ adapter \in Adapters
    BY <1>17, AdapterOf DEF Unwind, Types, DataTypes
  <2>2. H' = H /\ OfPanic' = OfPanic
    BY <2>1, SameStores DEF OfPanic
  <2>3. AnswerInv'
    <3>1. CASE panic
      <4>1. /\ adapter = "fiber" => wire'.status = 500
            /\ adapter # "fiber" => wire'.sent = wire.sent /\ wire'.status \in {500, wire.status}
        BY <2>1, <3>1, Recovered
      <4> QED
        BY <2>1, <2>2, <3>1, <4>1 DEF StatusInv, AnswerInv, Superseded
    <3>2. CASE ~panic
      BY <2>1, <2>2, <3>2 DEF StatusInv, AnswerInv, Told, Superseded
    <3> QED
      BY <3>1, <3>2
  <2>4. ErrorInv'
    BY <2>1, <2>2 DEF StatusInv, ErrorInv, Erred
  <2>5. AskedInv'
    BY <2>1 DEF StatusInv, AskedInv
  <2>6. MiddleInv'
    <3> SUFFICES ASSUME middleSpan # 0, ~panic
                 PROVE  \/ spans'[middleSpan].status = FrameworkStatus
                        \/ /\ adapter = "nethttp" /\ conf.tracing = "custom"
                           /\ wire.status >= 400 /\ spans'[middleSpan].status = 500
      BY <2>1 DEF MiddleInv, FrameworkStatus
    <3>1. SeenStatus \in Nat /\ middleSpan \in 1..Len(spans) /\ spans \in Seq(SpanType)
      BY SeenStatusType, SpanTypes DEF Types, TreeTypes
    <3>2. spans' = [spans EXCEPT ![middleSpan].open = FALSE, ![middleSpan].status = SeenStatus]
      BY <1>17 DEF Unwind
    <3>3. spans'[middleSpan].status = SeenStatus
      BY <3>1, <3>2, UnwoundSpan
    <3>4. wire.status \in Nat
      BY <2>1 DEF WireType
    <3> QED
      BY <3>3, <3>4 DEF SeenStatus, FrameworkStatus, StatusInv, AskedInv
  <2> QED
    BY <2>3, <2>5, <2>6, <2>4 DEF StatusInv
<1> QED
  BY <1>1, <1>2, <1>3, <1>4, <1>5, <1>6, <1>7, <1>8, <1>9, <1>10, <1>11, <1>12, <1>14, <1>15,
     <1>16, <1>17, <1>13
  DEF Next, Terminated, SameAnswerActions, FailingActions

-----------------------------------------------------------------------------
(* The user of the audit trail.                                             *)

(* LastIn is the last position of a name, or 0.                              *)
LEMMA LastIs ==
  ASSUME NEW app \in Seq(AppMiddleware), NEW name
  PROVE  LET k == LastIn(app, name)
         IN  /\ k \in 0..Len(app)
             /\ k = 0 <=> \A i \in 1..Len(app) : app[i] # name
             /\ k # 0 => app[k] = name
             /\ \A j \in 1..Len(app) : j > k => app[j] # name
<1>1. Len(app) \in Nat /\ DOMAIN app = 1..Len(app)
  BY LenProperties
<1>2. CASE \A i \in 1..Len(app) : app[i] # name
  BY <1>1, <1>2 DEF LastIn
<1>3. CASE \E i \in 1..Len(app) : app[i] = name
  <2>1. PICK i \in 1..Len(app) : app[i] = name
    BY <1>3
  <2>2. Recurs(app, i, Len(app))
    BY <1>1, LastOccurrence
  <2>3. PICK k \in i..Len(app) : app[k] = app[i] /\ \A j \in (k + 1)..Len(app) : app[j] # app[k]
    BY <2>2 DEF Recurs
  <2>4. k \in 1..Len(app) /\ app[k] = name /\ \A j \in 1..Len(app) : j > k => app[j] # name
    BY <1>1, <2>1, <2>3
  <2>5. LastIn(app, name) = CHOOSE n \in 1..Len(app) :
                              app[n] = name /\ \A j \in 1..Len(app) : j > n => app[j] # name
    BY <1>1, <2>1 DEF LastIn
  <2>6. LET n == LastIn(app, name)
        IN  n \in 1..Len(app) /\ app[n] = name /\ \A j \in 1..Len(app) : j > n => app[j] # name
    BY <2>4, <2>5
  <2> QED
    BY <1>1, <2>6
<1> QED
  BY <1>2, <1>3

(* A name that occurs behind every other one's occurrence is the later of    *)
(* the two.                                                                  *)
LEMMA LastWins ==
  ASSUME NEW app \in Seq(AppMiddleware), NEW name, NEW other,
         \E i \in 1..Len(app) : app[i] = name /\ \A j \in i..Len(app) : app[j] # other
  PROVE  LastIn(app, name) > LastIn(app, other)
<1> DEFINE k == LastIn(app, name)
           l == LastIn(app, other)
<1>1. PICK i \in 1..Len(app) : app[i] = name /\ \A j \in i..Len(app) : app[j] # other
  OBVIOUS
<1>2. /\ k \in 0..Len(app) /\ \A j \in 1..Len(app) : j > k => app[j] # name
      /\ l \in 0..Len(app) /\ (l # 0 => app[l] = other)
  BY LastIs
<1>3. Len(app) \in Nat
  BY LenProperties
<1> HIDE DEF k, l
<1>4. k >= i /\ l < i
  BY <1>1, <1>2, <1>3
<1>5. k > l
  BY <1>2, <1>3, <1>4
<1> QED
  BY <1>5 DEF k, l

(* A middleware that runs is the next of those configured.                   *)
LEMMA FirstOfTodo ==
  ASSUME NEW s \in Seq(AppMiddleware), s # <<>>
  PROVE  Head(s) = s[1] /\ Len(s) \in Nat \ {0}
BY EmptySeq, LenProperties

LEMMA RanStep ==
  ASSUME Types, pc \in Outside, UserInv, todo # <<>>, todo' = Tail(todo), conf' = conf
  PROVE  /\ Ran \in Nat /\ Ran' = Ran + 1 /\ conf.app[Ran'] = Head(todo)
         /\ Len(todo') <= Len(conf.app)
         /\ \A i \in 1..Len(todo') : todo'[i] = conf.app[Ran' + i]
<1>1. /\ todo \in Seq(AppMiddleware) /\ conf.app \in Seq(AppMiddleware)
      /\ Len(todo) <= Len(conf.app) /\ \A i \in 1..Len(todo) : todo[i] = conf.app[Ran + i]
  BY DEF Types, DataTypes, ConfType, UserInv
<1>2. Len(conf.app) \in Nat /\ Len(todo) \in Nat \ {0} /\ Head(todo) = todo[1]
  BY <1>1, LenProperties, FirstOfTodo
<1>3. /\ Len(todo') = Len(todo) - 1
      /\ \A i \in 1..Len(todo') : todo'[i] = todo[i + 1]
  BY <1>1, HeadTailProperties
<1>4. Ran \in Nat /\ Ran' = Ran + 1
  BY <1>1, <1>2, <1>3 DEF Ran
<1>5. conf.app[Ran'] = Head(todo)
  BY <1>1, <1>2, <1>4
<1>6. ASSUME NEW i \in 1..Len(todo')
      PROVE  todo'[i] = conf.app[Ran' + i]
  <2>1. i + 1 \in 1..Len(todo) /\ Ran + (i + 1) = Ran' + i
    BY <1>2, <1>3, <1>4
  <2> QED
    BY <1>1, <1>3, <2>1
<1> QED
  BY <1>1, <1>2, <1>3, <1>4, <1>5, <1>6

(* What the middleware leaves, with what has run before.                    *)
LEMMA LastOneStays ==
  ASSUME Ran \in Nat, Ran' = Ran + 1, conf' = conf, NEW name, NEW other
  PROVE  /\ conf.app[Ran'] = name /\ name # other => StillLast(name, other)'
         /\ conf.app[Ran'] # other /\ StillLast(name, other) => StillLast(name, other)'
<1>1. ASSUME conf.app[Ran'] = name, name # other
      PROVE  StillLast(name, other)'
  <2>1. Ran' \in 1..Ran' /\ \A j \in Ran'..Ran' : conf.app[j] # other
    BY <1>1
  <2> QED
    BY <1>1, <2>1 DEF StillLast
<1>2. ASSUME conf.app[Ran'] # other, StillLast(name, other)
      PROVE  StillLast(name, other)'
  <2>1. PICK i \in 1..Ran : conf.app[i] = name /\ \A j \in i..Ran : conf.app[j] # other
    BY <1>2 DEF StillLast
  <2>2. i \in 1..Ran' /\ \A j \in i..Ran' : conf.app[j] # other
    BY <1>2, <2>1
  <2> QED
    BY <2>1, <2>2 DEF StillLast
<1> QED
  BY <1>1, <1>2

(* A middleware that says nothing of the user keeps what the others left.    *)
LEMMA ReaderStep ==
  ASSUME Ran \in Nat, Ran' = Ran + 1, conf' = conf, adapter' = adapter,
         adapter = "nethttp" \/ conf.app[Ran'] = "reader", locals'[H].user = locals[H].user,
         MiddlewareUser
  PROVE  MiddlewareUser'
<1>1. H' = H
  BY SameStores
<1>2. CASE adapter = "nethttp"
  BY <1>1, <1>2 DEF MiddlewareUser
<1>3. CASE adapter # "nethttp"
  <2>1. StillLast("auth", "logs") => StillLast("auth", "logs")'
    BY <1>3, LastOneStays
  <2>2. StillLast("logs", "auth") => StillLast("logs", "auth")'
    BY <1>3, LastOneStays
  <2> QED
    BY <1>1, <1>3, <2>1, <2>2 DEF MiddlewareUser
<1> QED
  BY <1>2, <1>3

(* UserInv over steps that run no middleware, leave, run one, or come later. *)
LEMMA OutsideStep ==
  ASSUME Types, UserInv, pc \in Outside, pc' \in Outside, UNCHANGED <<locals, todo, conf, adapter>>
  PROVE  UserInv'
<1>1. H' = H
  BY SameStores
<1>2. MiddlewareUser' = MiddlewareUser
  BY <1>1 DEF MiddlewareUser, StillLast, Ran
<1> QED
  BY <1>1, <1>2 DEF UserInv, Outside, Ran, NoNotes, Notes

LEMMA LeaveStep ==
  ASSUME UserInv, pc \in Outside, pc' = "unwind", UNCHANGED <<locals, conf, adapter>>
  PROVE  UserInv'
BY SameStores DEF UserInv, Outside, NoNotes, Notes

LEMMA MiddlewareStep ==
  ASSUME Types, UserInv, pc \in Outside, pc' \in Outside, todo # <<>>, todo' = Tail(todo),
         UNCHANGED <<conf, adapter>>, locals'[H].log = locals[H].log, MiddlewareUser'
  PROVE  UserInv'
<1>1. H' = H
  BY SameStores
<1> QED
  BY <1>1, RanStep DEF UserInv, Outside, NoNotes, Notes

LEMMA LaterStep ==
  ASSUME UserInv, pc \notin Outside, pc' \notin Outside, UNCHANGED <<user, conf, adapter>>,
         pc \in {"unwind", "done"} => pc' \in {"unwind", "done"} /\ UNCHANGED locals,
         locals[H].log.tags # <<>> => locals'[H].log.tags # <<>>
  PROVE  UserInv'
<1>1. H' = H
  BY SameStores
<1> QED
  BY <1>1 DEF UserInv

(* UserInv, action by action.                                                *)
LEMMA UserStep ==
  ASSUME Types, UserInv, [Next]_vars
  PROVE  UserInv'
<1> USE DEF Outside, Go
<1>1. CASE InitializeTracing \/ Arrive \/ Trace
  <2>1. pc \in Outside /\ pc' \in Outside /\ UNCHANGED <<locals, todo, conf, adapter>>
    BY <1>1 DEF InitializeTracing, Arrive, Trace, parserVars
  <2> HIDE DEF Outside
  <2> QED
    BY <2>1, OutsideStep
<1>2. CASE TracePanics
  <2>1. pc \in Outside /\ pc' = "unwind" /\ UNCHANGED <<locals, conf, adapter>>
    BY <1>2 DEF TracePanics, parserVars
  <2> HIDE DEF Outside
  <2> QED
    BY <2>1, LeaveStep
<1>3. CASE Unmatched
  <2>1. pc \in Outside /\ pc' = "unwind" /\ UNCHANGED <<locals, conf, adapter>>
    BY <1>3 DEF Unmatched, AppUnchanged
  <2> HIDE DEF Outside
  <2> QED
    BY <2>1, LeaveStep
<1>4. ASSUME NEW name \in AppMiddleware, NextMiddleware(name), UNCHANGED <<conf, adapter>>
      PROVE  /\ Ran \in Nat /\ Ran' = Ran + 1 /\ conf.app[Ran'] = name
             /\ pc \in Outside /\ todo # <<>> /\ todo' = Tail(todo)
  <2>1. pc \in Outside /\ todo # <<>> /\ todo' = Tail(todo) /\ Head(todo) = name
    BY <1>4 DEF NextMiddleware
  <2> HIDE DEF Outside
  <2> QED
    BY <1>4, <2>1, RanStep
<1>5. ASSUME NEW name \in {"auth", "logs"}, NEW who \in {"caller", "unknown"},
             NextMiddleware(name), UNCHANGED <<conf, adapter>>,
             name = "auth" <=> who = "caller",
             IF adapter = "nethttp" /\ name = "auth" THEN UNCHANGED locals
             ELSE locals' = [locals EXCEPT ![Store("middleware")].user = who]
      PROVE  MiddlewareUser' /\ locals'[H].log = locals[H].log
  <2> DEFINE s == Store("middleware")
             new == [locals[s] EXCEPT !.user = who]
  <2>1. /\ s \in Stores /\ (adapter = "nethttp" => s # H) /\ (adapter # "nethttp" => s = H)
    BY AdapterOf, StoreOf DEF Parsers, H
  <2>2. H' = H /\ H \in Stores
    BY <1>5, SameStores, HandlerStore
  <2>3. /\ Ran \in Nat /\ Ran' = Ran + 1 /\ conf.app[Ran'] = name /\ pc \in Outside
    BY <1>4, <1>5 DEF AppMiddleware
  <2>4. MiddlewareUser
    BY <2>3 DEF UserInv
  <2>5. locals' = locals \/ locals' = [locals EXCEPT ![s] = new]
    BY <1>5
  <2>6. adapter # "nethttp" => locals' = [locals EXCEPT ![s] = new]
    BY <1>5
  <2> HIDE DEF s
  <2>7. new.user = who /\ new.log = locals[s].log
    BY <2>1 DEF Types, DataTypes, LocalType
  <2> HIDE DEF new
  <2>8. /\ adapter = "nethttp" => locals'[H] = locals[H]
        /\ adapter # "nethttp" => locals'[H] = new
    BY <2>1, <2>2, <2>5, <2>6 DEF Types, DataTypes
  <2>9. locals'[H].log = locals[H].log
    BY <2>1, <2>7, <2>8
  <2>10. CASE adapter = "nethttp"
    BY <1>5, <2>2, <2>4, <2>8, <2>9, <2>10 DEF MiddlewareUser
  <2>11. CASE adapter # "nethttp"
    <3>1. locals'[H].user = who
      BY <2>7, <2>8, <2>11
    <3>2. CASE name = "auth"
      <4>1. StillLast("auth", "logs")'
        BY <1>5, <2>3, <3>2, LastOneStays
      <4>2. adapter' # "nethttp" /\ locals'[H'].user = "caller"
        BY <1>5, <2>2, <2>11, <3>1, <3>2
      <4> QED
        BY <2>9, <4>1, <4>2 DEF MiddlewareUser
    <3>3. CASE name = "logs"
      <4>1. StillLast("logs", "auth")'
        BY <1>5, <2>3, <3>3, LastOneStays
      <4>2. adapter' # "nethttp" /\ locals'[H'].user = "unknown"
        BY <1>5, <2>2, <2>11, <3>1, <3>3
      <4> QED
        BY <2>9, <4>1, <4>2 DEF MiddlewareUser
    <3> QED
      BY <3>2, <3>3
  <2> QED
    BY <2>9, <2>10, <2>11
<1>6. CASE AppAuth
  <2>1. UNCHANGED <<conf, adapter>> /\ NextMiddleware("auth") /\ "auth" \in AppMiddleware
    BY <1>6 DEF AppAuth, AppUnchanged, AppMiddleware
  <2>2. /\ pc \in Outside /\ todo # <<>> /\ todo' = Tail(todo)
    BY <1>4, <2>1
  <2>3. CASE pc' = "unwind" /\ UNCHANGED locals
    <3> HIDE DEF Outside
    <3> QED
      BY <2>1, <2>2, <2>3, LeaveStep
  <2>4. CASE pc' = pc
    <3>1. IF adapter = "nethttp" THEN UNCHANGED locals
          ELSE locals' = [locals EXCEPT ![Store("middleware")].user = "caller"]
      BY <1>6 DEF AppAuth
    <3>2. MiddlewareUser' /\ locals'[H].log = locals[H].log
      BY <1>5, <2>1, <3>1
    <3>3. pc' \in Outside
      BY <2>2, <2>4
    <3> HIDE DEF Outside
    <3> QED
      BY <2>1, <2>2, <3>2, <3>3, MiddlewareStep
  <2> QED
    BY <1>6, <2>3, <2>4 DEF AppAuth
<1>7. CASE AppLogs
  <2>1. UNCHANGED <<conf, adapter, pc>> /\ NextMiddleware("logs") /\ "logs" \in AppMiddleware
    BY <1>7 DEF AppLogs, AppUnchanged, AppMiddleware
  <2>2. /\ pc \in Outside /\ todo # <<>> /\ todo' = Tail(todo)
    BY <1>4, <2>1
  <2>3. MiddlewareUser' /\ locals'[H].log = locals[H].log
    BY <1>5, <1>7, <2>1 DEF AppLogs
  <2>4. pc' \in Outside
    BY <2>1, <2>2
  <2> HIDE DEF Outside
  <2> QED
    BY <2>1, <2>2, <2>3, <2>4, MiddlewareStep
<1>8. CASE AppReader
  <2>1. UNCHANGED <<conf, adapter, pc, locals>> /\ NextMiddleware("reader") /\ "reader" \in AppMiddleware
    BY <1>8 DEF AppReader, AppUnchanged, AppMiddleware
  <2>2. /\ Ran \in Nat /\ Ran' = Ran + 1 /\ conf.app[Ran'] = "reader"
        /\ pc \in Outside /\ todo # <<>> /\ todo' = Tail(todo)
    BY <1>4, <2>1
  <2>3. MiddlewareUser
    BY <2>2 DEF UserInv
  <2>4. MiddlewareUser'
    BY <2>1, <2>2, <2>3, ReaderStep
  <2>5. pc' \in Outside
    BY <2>1, <2>2
  <2> HIDE DEF Outside
  <2> QED
    BY <2>1, <2>2, <2>4, <2>5, MiddlewareStep
<1>9. CASE InitContext
  <2>1. /\ pc \in Outside /\ pc' = "span" /\ todo = <<>> /\ UNCHANGED <<conf, adapter>>
    BY <1>9 DEF InitContext
  <2>2. Len(todo) = 0 /\ Ran = Len(conf.app) /\ MiddlewareUser /\ conf.app \in Seq(AppMiddleware)
        /\ Len(conf.app) \in Nat /\ adapter = conf.adapter /\ locals[H].user \in Users
    BY <2>1, EmptySeq, LenProperties, HandlerStore DEF Ran, UserInv, Types, DataTypes, ConfType
  <2>3. H' = H
    BY <2>1, SameStores
  <2>4. /\ locals'[H].log.tags # <<>>
        /\ user' = IF conf.header THEN "caller" ELSE IF conf.audit THEN locals[H].user ELSE "unknown"
    BY <1>9, InitContextStep
  <2>5. conf.audit => user' = UserOf(conf)
    <3> SUFFICES ASSUME conf.audit
                 PROVE  user' = UserOf(conf)
      OBVIOUS
    <3>1. user' = IF conf.header THEN "caller" ELSE locals[H].user
      BY <2>4
    <3>2. CASE conf.header
      BY <3>1, <3>2 DEF UserOf
    <3>3. CASE ~conf.header /\ adapter = "nethttp"
      BY <2>2, <3>1, <3>3 DEF UserOf, MiddlewareUser
    <3>4. CASE ~conf.header /\ adapter # "nethttp"
      <4>1. UserOf(conf) = IF LastIn(conf.app, "auth") > LastIn(conf.app, "logs") THEN "caller"
                           ELSE IF LastIn(conf.app, "logs") > 0 THEN "unknown" ELSE "none"
        BY <2>2, <3>4 DEF UserOf
      <4>2. LastIn(conf.app, "auth") \in Nat /\ LastIn(conf.app, "logs") \in Nat
        BY <2>2, LastIs
      <4>3. CASE locals[H].user = "caller"
        <5>1. LastIn(conf.app, "auth") > LastIn(conf.app, "logs")
          BY <2>2, <3>4, <4>3, LastWins DEF MiddlewareUser, StillLast
        <5> QED
          BY <3>1, <3>4, <4>1, <4>3, <5>1
      <4>4. CASE locals[H].user = "unknown"
        <5>1. LastIn(conf.app, "logs") > LastIn(conf.app, "auth")
          BY <2>2, <3>4, <4>4, LastWins DEF MiddlewareUser, StillLast
        <5> QED
          BY <3>1, <3>4, <4>1, <4>2, <4>4, <5>1
      <4>5. CASE locals[H].user = "none"
        <5>1. LastIn(conf.app, "auth") = 0 /\ LastIn(conf.app, "logs") = 0
          BY <2>2, <3>4, <4>5, LastIs DEF MiddlewareUser
        <5> QED
          BY <3>1, <3>4, <4>1, <4>5, <5>1
      <4> QED
        BY <2>2, <4>3, <4>4, <4>5 DEF Users
    <3> QED
      BY <3>2, <3>3, <3>4
  <2> QED
    BY <2>1, <2>3, <2>4, <2>5 DEF UserInv
<1>10. CASE NotingActions
  <2>1. locals[H].log.tags # <<>> => locals'[H].log.tags # <<>>
    BY <1>10, NotingStep
  <2>2. /\ pc \notin Outside /\ pc' \notin Outside /\ pc \notin {"unwind", "done"}
        /\ UNCHANGED <<user, conf, adapter>>
    BY <1>10 DEF NotingActions, Parse, Initialized, Handled, NextReturns, Recovery,
                 RecoveryHandlerPanics, PhaseUnchanged, AnswerUnchanged
  <2> HIDE DEF Outside
  <2> QED
    BY <2>1, <2>2, LaterStep
<1>11. CASE FailingActions
  <2>1. /\ pc \notin Outside /\ pc' \notin Outside /\ pc \notin {"unwind", "done"}
        /\ UNCHANGED <<user, conf, adapter>> /\ locals'[H].log.tags # <<>>
    BY <1>11, FailingStep
  <2> HIDE DEF Outside
  <2> QED
    BY <2>1, LaterStep
<1>12. CASE Answer \/ AnswerPanic
  <2>1. PICK code \in {200, 400, 500}, encoded \in BOOLEAN : Respond(H, code, encoded)
    BY <1>12 DEF Answer, AnswerPanic
  <2>2. code \in Nat \ {0}
    OBVIOUS
  <2>3. Answered(H, code, locals[H].log)
    BY <2>1, <2>2, RespondEffect DEF H, Parsers
  <2>4. locals'[H].log.tags # <<>>
    BY <2>3, HandlerStore, AnswerNoted
  <2>5. /\ pc \notin Outside /\ pc' \notin Outside /\ pc \notin {"unwind", "done"}
        /\ UNCHANGED <<user, conf, adapter>>
    BY <1>12 DEF Answer, AnswerPanic, AnswerUnchanged
  <2> HIDE DEF Outside
  <2> QED
    BY <2>4, <2>5, LaterStep
<1>13. CASE Trailing
  <2>1. /\ pc \notin Outside /\ pc' \notin Outside /\ pc \notin {"unwind", "done"}
        /\ UNCHANGED <<user, conf, adapter>> /\ adapter # "nethttp"
    BY <1>13 DEF Trailing, AnswerUnchanged, NextCalls
  <2>2. locals[H].log.tags # <<>> => locals'[H].log.tags # <<>>
    <3>1. CASE UNCHANGED locals
      BY <3>1
    <3>2. CASE Respond(Store("trailing"), 503, TRUE)
      <4>1. PICK e : Respond(Store("trailing"), 503, e)
        BY <3>2, Zenon
      <4>2. Answered(Store("trailing"), 503, locals[Store("trailing")].log)
        BY <4>1, RespondEffect DEF Parsers
      <4>3. Store("trailing") = H
        BY <2>1, AdapterOf, StoreOf DEF H, Parsers
      <4> QED
        BY <4>2, <4>3, HandlerStore, AnswerNoted
    <3> QED
      BY <1>13, <3>1, <3>2 DEF Trailing
  <2> HIDE DEF Outside
  <2> QED
    BY <2>1, <2>2, LaterStep
<1>14. CASE /\ pc \notin Outside /\ pc' \notin Outside /\ UNCHANGED <<user, conf, adapter, locals>>
            /\ pc \in {"unwind", "done"} => pc' \in {"unwind", "done"}
  <2> HIDE DEF Outside
  <2> QED
    BY <1>14, LaterStep
<1>15. CASE StartHandlerSpan
  BY <1>14, <1>15 DEF StartHandlerSpan, parserVars
<1>16. CASE TraceError \/ TraceFunc \/ TraceVoid
  BY <1>14, <1>16 DEF TraceError, TraceFunc, TraceVoid, Start, During, parserVars
<1>17. CASE PhasePanics \/ FinalizerPanics \/ Finalized
  BY <1>14, <1>17 DEF PhasePanics, Panics, FinalizerPanics, Finalized, PhaseUnchanged
<1>18. CASE AddSpanAttribute
  BY <1>14, <1>18 DEF AddSpanAttribute, During, Phases, parserVars
<1>19. CASE \E statuses : Call(statuses)
  BY <1>14, <1>19 DEF Call, CallUnder, parserVars
<1>20. CASE CallPanics
  BY <1>14, <1>20 DEF CallPanics, CallUnder, Panics, PhaseUnchanged
<1>21. CASE SetOutcome \/ EndHandlerSpan
  BY <1>14, <1>21 DEF SetOutcome, EndHandlerSpan, AnswerUnchanged, parserVars
<1>22. CASE CollectLogs \/ Unwind
  BY <1>14, <1>22 DEF CollectLogs, AfterCollect, Unwind
<1>23. CASE UNCHANGED vars
  <2>1. UNCHANGED <<pc, locals, todo, conf, adapter, user>>
    BY <1>23 DEF vars, parserVars
  <2> HIDE DEF Outside
  <2>2. CASE pc \in Outside
    BY <2>1, <2>2, OutsideStep
  <2>3. CASE pc \notin Outside
    BY <2>1, <2>3, LaterStep
  <2> QED
    BY <2>2, <2>3
<1> QED
  BY <1>1, <1>2, <1>3, <1>6, <1>7, <1>8, <1>9, <1>10, <1>11, <1>12, <1>13, <1>15, <1>16, <1>17,
     <1>18, <1>19, <1>21, <1>22, <1>23, <1>20
  DEF Next, Terminated, NotingActions, FailingActions, TraceFuncWithContext, TraceErrorWithContext, TraceVoidWithContext,
      TraceFuncWithSpanName

-----------------------------------------------------------------------------
(* The log.                                                                 *)

(* What Recovery collects is what is noted by then.                          *)
LEMMA CollectedLog ==
  ASSUME Types, attrs = <<>>, adapter' = adapter,
         attrs' = AddCustomAttributes(Attributes(locals[H].log))
  PROVE  Gathered(adapter, attrs', Attributes(locals[H].log))
<1> DEFINE list == Attributes(locals[H].log)
<1>1. list \in Seq(AttrType) /\ SameByKey(list)
  BY HandlerStore, AttributesOf
<1> HIDE DEF list
<1>2. attrs \o list = list
  BY <1>1, ConcatEmptySeq
<1>3. CASE adapter = "nethttp"
  <2>1. attrs' = NetHTTPAttributes(list)
    BY <1>3 DEF AddCustomAttributes, list
  <2>2. LET kept == NetHTTPAttributes(list)
        IN  kept \in Seq(AttrType) /\ RangeOf(kept) = RangeOf(list) /\ KeyOnce(kept)
    BY <1>1, KeptAttributes
  <2>3. attrs' \in Seq(AttrType) /\ RangeOf(attrs') = RangeOf(list) /\ KeyOnce(attrs')
    BY <2>1, <2>2
  <2>4. DOMAIN attrs' = 1..Len(attrs')
    BY <2>3, LenProperties
  <2>5. Gathered(adapter, attrs', list)
    BY <1>3, <2>3, <2>4 DEF Gathered
  <2> QED
    BY <2>5 DEF list
<1>4. CASE adapter # "nethttp"
  <2>1. attrs' = list
    BY <1>2, <1>4, AdapterOf DEF AddCustomAttributes, GinAttributes, FiberAttributes, Adapters, list
  <2>2. Gathered(adapter, attrs', list)
    BY <1>4, <2>1 DEF Gathered
  <2> QED
    BY <2>2 DEF list
<1> QED
  BY <1>3, <1>4

(* The first of two sequences is what is left without the second.            *)
LEMMA FirstOfBoth ==
  ASSUME NEW S, NEW a \in Seq(S), NEW b \in Seq(S)
  PROVE  But(a \o b, Len(b)) = a
<1>1. /\ a \o b \in Seq(S) /\ Len(a) \in Nat /\ Len(b) \in Nat
      /\ Len(a \o b) - Len(b) = Len(a)
  BY ConcatProperties, LenProperties
<1>2. SubSeq(a \o b, 1, Len(a)) = a
  <2>1. CASE Len(a) = 0
    <3>1. a = <<>> /\ SubSeq(a \o b, 1, 0) = <<>>
      BY <2>1, EmptySeq, SubSeqEmpty
    <3> QED
      BY <2>1, <3>1
  <2>2. CASE Len(a) # 0
    <3>1. 1 \in 1..Len(a) /\ Len(a) \in 1..Len(a)
      BY <1>1, <2>2
    <3>2. SubSeq(a \o b, 1, Len(a)) = SubSeq(a, 1, Len(a))
      BY <3>1, SubSeqOfConcat1
    <3> QED
      BY <3>2, SubSeqFull
  <2> QED
    BY <2>1, <2>2
<1> QED
  BY <1>1, <1>2 DEF But

LEMMA NothingBut ==
  ASSUME NEW S, NEW a \in Seq(S), NEW n, n = 0
  PROVE  But(a, n) = a
<1>1. Len(a) \in Nat /\ SubSeq(a, 1, Len(a)) = a
  BY LenProperties, SubSeqFull
<1>2. Len(a) - n = Len(a)
  BY <1>1
<1> QED
  BY <1>1, <1>2 DEF But

(* When nothing came later, all that is noted was collected.                 *)
LEMMA NothingLater ==
  ASSUME NEW log \in Logs, NEW late, ~late, NEW sending
  PROVE  Before(log, late, sending) = Attributes(log)
<1> DEFINE n == IF late THEN 2 ELSE 0
           m == IF late THEN sending ELSE 0
           l == IF late THEN 1 ELSE 0
<1>1. n = 0 /\ m = 0 /\ l = 0
  OBVIOUS
<1>2. log.tags \in Seq(Tags) /\ log.arrays \in Seq(Arrays) /\ log.errors \in Seq({"error"})
  BY DEF Logs
<1>3. Before(log, late, sending) = Attributes(Notes(But(log.tags, n), But(log.arrays, m), But(log.errors, l)))
  BY DEF Before
<1> HIDE DEF n, m, l
<1>4. But(log.tags, n) = log.tags /\ But(log.arrays, m) = log.arrays /\ But(log.errors, l) = log.errors
  BY <1>1, <1>2, NothingBut
<1>5. Notes(log.tags, log.arrays, log.errors) = log
  BY DEF Notes, Logs
<1> QED
  BY <1>3, <1>4, <1>5

(* When the answer of a panic came later, all but that was.                  *)
PanicLog(e) == \E code : code # 200 /\ AnswerLog(code, e)

LEMMA AnswerLater ==
  ASSUME NEW log \in Logs, NEW e, PanicLog(e), NEW late \in BOOLEAN,
         late = TRUE
  PROVE  Before(Joined(log, e), late, Len(e.arrays)) = Attributes(log)
<1> DEFINE both == Joined(log, e)
           n == IF late THEN 2 ELSE 0
           m == IF late THEN Len(e.arrays) ELSE 0
           l == IF late THEN 1 ELSE 0
<1>1. e \in Logs /\ n = Len(e.tags) /\ m = Len(e.arrays) /\ l = Len(e.errors)
  BY DEF PanicLog, AnswerLog
<1>2. /\ log.tags \in Seq(Tags) /\ log.arrays \in Seq(Arrays) /\ log.errors \in Seq({"error"})
      /\ e.tags \in Seq(Tags) /\ e.arrays \in Seq(Arrays) /\ e.errors \in Seq({"error"})
  BY <1>1 DEF Logs
<1>3. /\ both.tags = log.tags \o e.tags /\ both.arrays = log.arrays \o e.arrays
      /\ both.errors = log.errors \o e.errors
  BY <1>1, JoinedNotes
<1>4. Before(both, late, Len(e.arrays))
        = Attributes(Notes(But(both.tags, n), But(both.arrays, m), But(both.errors, l)))
  BY DEF Before
<1> HIDE DEF both, n, m, l
<1>5. /\ But(log.tags \o e.tags, Len(e.tags)) = log.tags
      /\ But(log.arrays \o e.arrays, Len(e.arrays)) = log.arrays
      /\ But(log.errors \o e.errors, Len(e.errors)) = log.errors
  BY <1>2, FirstOfBoth
<1>6. But(both.tags, n) = log.tags /\ But(both.arrays, m) = log.arrays /\ But(both.errors, l) = log.errors
  BY <1>1, <1>3, <1>5
<1>7. Notes(log.tags, log.arrays, log.errors) = log
  BY DEF Notes, Logs
<1>8. Before(both, late, Len(e.arrays)) = Attributes(log)
  BY <1>4, <1>6, <1>7
<1> QED
  BY <1>8 DEF both

(* LogInv over steps that change neither log nor attributes, or have none.   *)
LEMMA SameLogStep ==
  ASSUME LogInv, UNCHANGED <<locals, adapter, attrs, panic, conf>>,
         pc' = pc \/ (pc = "unwind" /\ pc' = "done")
  PROVE  LogInv'
<1>1. H' = H
  BY SameStores
<1>2. CASE pc' = "crash"
  BY <1>1, <1>2 DEF LogInv
<1>3. CASE pc' \in {"unwind", "done"} /\ attrs' # <<>>
  <2>1. PICK sending \in 0..1 :
          Gathered(adapter, attrs, Before(locals[H].log, panic /\ ~conf.recovery, sending))
    BY <1>3 DEF LogInv
  <2>2. Gathered(adapter, attrs, Before(locals[H].log, panic /\ ~conf.recovery, sending))'
    BY <1>1, <2>1
  <2> QED
    BY <1>3, <2>2 DEF LogInv
<1> QED
  BY <1>2, <1>3 DEF LogInv

LEMMA NoLogStep ==
  ASSUME pc' \notin {"crash", "unwind", "done"} \/ (pc' = "unwind" /\ attrs' = <<>>)
  PROVE  LogInv'
BY DEF LogInv

(* LogInv, action by action.                                                 *)
LEMMA LogStep ==
  ASSUME Types, StatusInv, LogInv, [Next]_vars
  PROVE  LogInv'
<1> USE DEF Go
<1>1. CASE CollectLogs
  <2> DEFINE log == locals[H].log
             late == panic /\ ~conf.recovery
  <2>1. /\ pc = "collect" /\ pc' = (IF late THEN "crash" ELSE "unwind")
        /\ attrs' = AddCustomAttributes(Attributes(locals[H].log))
        /\ UNCHANGED <<adapter, locals, panic, conf>>
    BY <1>1 DEF CollectLogs, AfterCollect
  <2>2. attrs = <<>>
    BY <2>1 DEF StatusInv, AnswerInv
  <2>3. Gathered(adapter, attrs', Attributes(log))
    BY <2>1, <2>2, CollectedLog
  <2>4. log \in Logs
    BY HandlerStore
  <2>5. H' = H
    BY <2>1, SameStores
  <2>6. locals'[H'].log = log /\ adapter' = adapter /\ (panic' /\ ~conf'.recovery <=> late)
    BY <2>1, <2>5
  <2>7. CASE late
    <3>1. pc' = "crash"
      BY <2>1, <2>7
    <3>2. Gathered(adapter', attrs', Attributes(locals'[H'].log))
      BY <2>3, <2>6
    <3> QED
      BY <3>1, <3>2 DEF LogInv
  <2>8. CASE ~late
    <3>1. pc' = "unwind"
      BY <2>1, <2>8
    <3>2. ~(panic' /\ ~conf'.recovery) /\ 0 \in 0..1
      BY <2>6, <2>8
    <3> HIDE DEF log
    <3>3. Before(log, panic' /\ ~conf'.recovery, 0) = Attributes(log)
      BY <2>4, <3>2, NothingLater
    <3>4. Gathered(adapter', attrs', Before(locals'[H'].log, panic' /\ ~conf'.recovery, 0))
      BY <2>3, <2>6, <3>3
    <3> QED
      BY <3>1, <3>2, <3>4 DEF LogInv
  <2> QED
    BY <2>7, <2>8
<1>2. CASE AnswerPanic
  <2>1. PICK code \in {400, 500}, encoded \in BOOLEAN : Respond(H, code, encoded)
    BY <1>2 DEF AnswerPanic
  <2>2. code \in Nat \ {0} /\ code # 200
    OBVIOUS
  <2>3. Answered(H, code, locals[H].log)
    BY <2>1, <2>2, RespondEffect DEF H, Parsers
  <2>4. /\ pc = "crash" /\ pc' = "unwind" /\ UNCHANGED <<adapter, attrs, panic, conf>>
        /\ panic /\ ~conf.recovery
    BY <1>2 DEF AnswerPanic, AnswerUnchanged, StatusInv, AnswerInv
  <2>5. PICK e : AnswerLog(code, e) /\ locals'[H].log = Joined(locals[H].log, e)
    BY <2>3 DEF Answered
  <2> DEFINE log == locals[H].log
             sending == Len(e.arrays)
  <2>6. log \in Logs /\ Gathered(adapter, attrs, Attributes(log))
    BY <2>4, HandlerStore DEF LogInv
  <2>7. H' = H
    BY <2>4, SameStores
  <2>8. locals'[H'].log = Joined(log, e) /\ sending \in 0..1 /\ panic' /\ ~conf'.recovery
    BY <2>4, <2>5, <2>7 DEF AnswerLog
  <2> HIDE DEF log
  <2>9. Before(Joined(log, e), panic' /\ ~conf'.recovery, Len(e.arrays)) = Attributes(log)
    <3>1. PICK b \in BOOLEAN : b = (panic' /\ ~conf'.recovery)
      OBVIOUS
    <3>2. PICK g \in Logs : g = log
      BY <2>6
    <3>3. b = TRUE
      BY <2>8, <3>1
    <3>4. PanicLog(e)
      BY <2>2, <2>5 DEF PanicLog
    <3>5. Before(Joined(g, e), b, Len(e.arrays)) = Attributes(g)
      BY <3>3, <3>4, AnswerLater
    <3> QED
      BY <3>1, <3>2, <3>5, Zenon
  <2>10. Before(locals'[H'].log, panic' /\ ~conf'.recovery, sending) = Attributes(log)
    BY <2>8, <2>9
  <2> HIDE DEF sending
  <2>11. Gathered(adapter', attrs', Before(locals'[H'].log, panic' /\ ~conf'.recovery, sending))
    BY <2>4, <2>6, <2>10
  <2> QED
    BY <2>4, <2>8, <2>11 DEF LogInv
<1>3. CASE Unwind \/ UNCHANGED vars
  <2>1. /\ UNCHANGED <<locals, adapter, attrs, panic, conf>>
        /\ pc' = pc \/ (pc = "unwind" /\ pc' = "done")
    BY <1>3 DEF Unwind, vars, parserVars
  <2> QED
    BY <2>1, SameLogStep
<1>4. CASE AddSpanAttribute \/ \E statuses : Call(statuses)
  <2>1. UNCHANGED <<locals, adapter, attrs, panic, conf, pc>>
    BY <1>4 DEF AddSpanAttribute, Call, parserVars
  <2> QED
    BY <2>1, SameLogStep
<1>5. pc \notin {"crash", "unwind", "done"} => attrs = <<>>
  BY DEF StatusInv, AnswerInv
<1>6. CASE TracePanics \/ AppAuth \/ AppLogs \/ AppReader \/ Unmatched \/ StartHandlerSpan
  <2>1. /\ pc \in {"trace", "app", "span"} /\ attrs' = attrs
        /\ pc' \notin {"crash", "unwind", "done"} \/ pc' = "unwind"
    BY <1>6 DEF TracePanics, AppAuth, AppLogs, AppReader, Unmatched, StartHandlerSpan, NextMiddleware,
                AppUnchanged, parserVars
  <2> QED
    BY <1>5, <2>1, NoLogStep
<1>7. CASE FinalizerPanics \/ RecoveryHandlerPanics
  <2>1. pc \in {"finalizing", "recovery"} /\ pc' = "unwind" /\ attrs' = attrs
    BY <1>7 DEF FinalizerPanics, RecoveryHandlerPanics, PhaseUnchanged
  <2> QED
    BY <1>5, <2>1, NoLogStep
<1>8. CASE InitializeTracing \/ Arrive \/ Trace \/ InitContext \/ Parse \/ FailToParse
  BY <1>8, NoLogStep DEF InitializeTracing, Arrive, Trace, InitContext, Parse, FailToParse, RespondError
<1>9. CASE TraceError \/ TraceFunc \/ TraceVoid
  BY <1>9, NoLogStep DEF TraceError, TraceFunc, TraceVoid, Start, During
<1>10. CASE EndActions \/ PhasePanics \/ CallPanics
  BY <1>10, NoLogStep DEF EndActions, Initialized, FailToInitialize, Handled, FailToHandle, Finalized,
                          PhasePanics, CallPanics, Panics, RespondError
<1>11. CASE Answer \/ Trailing \/ NextReturns \/ SetOutcome \/ EndHandlerSpan \/ Recovery
  BY <1>11, NoLogStep DEF Answer, Trailing, NextReturns, SetOutcome, EndHandlerSpan, Recovery
<1> QED
  BY <1>1, <1>2, <1>3, <1>4, <1>6, <1>7, <1>8, <1>9, <1>10, <1>11
  DEF Next, Terminated, EndActions, TraceFuncWithContext, TraceErrorWithContext,
      TraceVoidWithContext, TraceFuncWithSpanName

-----------------------------------------------------------------------------
(* The invariant.                                                           *)

(* The invariant is inductive.                                               *)
LEMMA InitIInv == Init => IInv
<1> SUFFICES ASSUME Init
             PROVE  IInv
  OBVIOUS
<1>1. conf \in ConfType /\ conf.app \in Seq(AppMiddleware) /\ adapter = conf.adapter
  BY TracingAssumption DEF Init, ConfType
<1>2. /\ spans = <<>> /\ Len(spans) = 0 /\ attrs = <<>> /\ pc = "setup" /\ wire = NothingSent
      /\ middleSpan = 0 /\ handlerSpan = 0 /\ running = 0 /\ note = NoNote
      /\ user = "none" /\ outcome = 0 /\ panic = FALSE /\ todo = conf.app /\ manager = "nil"
  BY EmptySeq DEF Init
<1>3. Types
  <2>1. locals \in [Stores -> LocalType(Users, Logs)]
    <3> DEFINE first == [user |-> "none", status |-> 0, log |-> NoNotes]
    <3>1. NoNotes \in Logs
      <4> DEFINE none == <<>>
      <4>1. none \in Seq(Tags) /\ none \in Seq(Arrays) /\ none \in Seq({"error"})
        BY EmptySeq
      <4> HIDE DEF none
      <4>2. Notes(none, none, none) \in Logs
        BY <4>1, NotesOf
      <4> QED
        BY <4>2 DEF NoNotes, none
    <3>2. first \in LocalType(Users, Logs)
      BY <3>1 DEF LocalType, Users
    <3>3. locals = [s \in Stores |-> first]
      BY DEF Init
    <3> HIDE DEF first
    <3> QED
      BY <3>2, <3>3
  <2>2. context \in [Stores -> 0..Len(spans)]
    BY <1>2 DEF Init
  <2>3. wire \in WireType
    BY <1>2, EmptySeq DEF NothingSent, WireType
  <2>4. spans \in Seq(SpanType)
    BY <1>2, EmptySeq
  <2>5. "setup" \in PCs /\ "none" \in Users
    BY DEF PCs, Users
  <2>6. DataTypes
    BY <1>1, <1>2, <2>1, <2>3, <2>5 DEF DataTypes
  <2>7. TreeTypes
    BY <1>2, <2>2, <2>4 DEF TreeTypes
  <2> QED
    BY <2>6, <2>7 DEF Types
<1>4. H \in Stores
  BY <1>3, HandlerStore
<1>5. /\ locals[H].user = "none" /\ locals[H].log = NoNotes /\ context["handler"] = 0
      /\ ~Erred /\ locals[H].log.tags = <<>>
  BY <1>4 DEF Init, Stores, Parsers, Erred, NoNotes, Notes
<1>6. SpanInv /\ NoteInv
  BY <1>2, <1>5 DEF SpanInv, NoteInv, NoNote, Entered, Outside, SpanOpen
<1>7. StatusInv
  BY <1>2, <1>5 DEF StatusInv, AnswerInv, ErrorInv, AskedInv, MiddleInv, NothingSent, Silent, Entered,
                    Outside, Deferred
<1>8. UserInv
  <2>1. Ran = 0 /\ Len(todo) = Len(conf.app) /\ Len(conf.app) \in Nat
    BY <1>1, <1>2, LenProperties DEF Ran
  <2> QED
    BY <1>2, <1>5, <2>1 DEF UserInv, MiddlewareUser, Outside
<1>9. LogInv
  BY <1>2 DEF LogInv
<1> QED
  BY <1>3, <1>6, <1>7, <1>8, <1>9 DEF IInv

LEMMA StepIInv == IInv /\ [Next]_vars => IInv'
<1> SUFFICES ASSUME IInv, [Next]_vars
             PROVE  IInv'
  OBVIOUS
<1>1. Types'
  BY DataStep, TreeStep DEF IInv, Types
<1>2. SpanInv' /\ NoteInv'
  BY <1>1, SpanStep, NoteStep DEF IInv
<1>3. StatusInv' /\ UserInv' /\ LogInv'
  BY StatusStep, UserStep, LogStep DEF IInv
<1> QED
  BY <1>1, <1>2, <1>3 DEF IInv

LEMMA Invariant == Spec => []IInv
BY InitIInv, StepIInv, PTL DEF Spec

-----------------------------------------------------------------------------
(* Theorems.                                                                *)

(* Every span starts as a root or under one that is open, and has ended with *)
(* the request, but for those of a phase that panicked and of the function   *)
(* it called; an attribute added through the HandlerRequest is on the        *)
(* handler's span until the deferred End, and one added through the          *)
(* WebFramework on that of the tracing middleware (libTracing,               *)
(* handlers/baseHandler.go).                                                 *)
THEOREM SpansAreATree == Spec => []SpanTree
<1>1. IInv => SpanTree
  <2> SUFFICES ASSUME IInv
               PROVE  SpanTree
    OBVIOUS
  <2>1. DOMAIN spans = 1..Len(spans)
    BY SpanTypes DEF IInv, Types, TreeTypes
  <2> QED
    BY <2>1 DEF IInv, SpanInv, NoteInv, SpanTree, Running
<1> QED
  BY <1>1, Invariant, PTL

(* The user of the audit trail is the caller of the header, or else the one  *)
(* that the last middleware of the application to say has left, on the       *)
(* adapters whose parsers share their locals (libContext/init.go).           *)
THEOREM AuditTrailHasTheUser == Spec => []AuditedUser
<1>1. IInv => AuditedUser
  <2> SUFFICES ASSUME IInv
               PROVE  AuditedUser
    OBVIOUS
  <2>1. adapter = conf.adapter
    BY DEF IInv, Types, DataTypes
  <2>2. LastOf("auth") = LastIn(conf.app, "auth") /\ LastOf("logs") = LastIn(conf.app, "logs")
    BY DEF LastOf, LastIn
  <2> QED
    BY <2>1, <2>2 DEF IInv, UserInv, AuditedUser, UserOf
<1> QED
  BY <1>1, Invariant, PTL

(* The status in the outcome is the one the client got, unless the handler   *)
(* panicked: then it is 500 and the client has the status of the panic's own *)
(* error or 500, or nothing at all with a RecoveryHandler; the status on the *)
(* span of the middleware is the client's (handlers/recovery.go,             *)
(* libGin/libFiber/libNetHttp).  The exceptions are named in StatusesAgree.  *)
THEOREM OneStatusEverywhere == Spec => []StatusesAgree
<1>1. IInv => StatusesAgree
  <2> SUFFICES ASSUME IInv, pc = "done"
               PROVE  StatusesAgree
    BY DEF StatusesAgree
  <2>1. /\ attrs # <<>> => IF panic THEN outcome = OfPanic ELSE Told(outcome)
        /\ attrs # <<>> /\ panic /\ ~conf.recovery =>
             /\ adapter # "fiber" => wire.status \in {500, locals[H].status} \/ Superseded
             /\ adapter = "fiber" => wire.status = 500
    BY DEF IInv, StatusInv, AnswerInv
  <2>2. MiddleInv
    BY DEF IInv, StatusInv
  <2>3. panic \in BOOLEAN
    BY DEF IInv, Types, DataTypes
  <2>4. CASE ~panic
    BY <2>1, <2>2, <2>4 DEF StatusesAgree, Told, MiddleInv
  <2>5. CASE panic /\ conf.recovery
    BY <2>1, <2>5 DEF StatusesAgree, OfPanic
  <2>6. CASE panic /\ ~conf.recovery
    <3>1. attrs # <<>> =>
            /\ outcome = 500
            /\ adapter # "fiber" => wire.status \in {500, locals[H].status} \/ Superseded
            /\ adapter = "fiber" => wire.status = 500
      BY <2>1, <2>6 DEF OfPanic
    <3>2. attrs # <<>> =>
            \/ wire.status = 500 \/ (adapter # "fiber" /\ wire.status = locals[H].status)
            \/ Superseded
      BY <3>1
    <3> QED
      BY <2>6, <3>1, <3>2 DEF StatusesAgree
  <2> QED
    BY <2>3, <2>4, <2>5, <2>6
<1> QED
  BY <1>1, Invariant, PTL

(* What is left of a sequence is one.                                       *)
LEMMA ButIsSeq ==
  ASSUME NEW S, NEW a \in Seq(S), NEW n \in Nat
  PROVE  But(a, n) \in Seq(S)
<1> DEFINE m == Len(a) - n
<1>1. Len(a) \in Nat /\ m \in Int /\ m <= Len(a) /\ But(a, n) = SubSeq(a, 1, m)
  BY LenProperties DEF But
<1> HIDE DEF m
<1>2. CASE m < 1
  <2>1. But(a, n) = <<>>
    BY <1>1, <1>2, SubSeqEmpty
  <2> QED
    BY <2>1, EmptySeq
<1>3. CASE m >= 1
  <2>1. \A i \in 1..m : a[i] \in S
    BY <1>1, ElementOfSeq
  <2>2. 1 \in Int
    OBVIOUS
  <2> QED
    BY <1>1, <2>1, <2>2, SubSeqProperties
<1> QED
  BY <1>1, <1>2, <1>3

(* What Recovery hands on has all that was noted, in the order of tags,      *)
(* arrays and errors, except the answer of a panic; on net/http it is once   *)
(* per key, among the locals of the parser; and there is an error in it if   *)
(* and only if one was answered (handlers/recovery.go, webFramework/logger.go).*)
THEOREM LogsReachTheFramework == Spec => []LogsCollected
<1>1. IInv => LogsCollected
  <2> SUFFICES ASSUME IInv, pc = "done", attrs # <<>>
               PROVE  LogsCollected
    BY DEF LogsCollected
  <2> DEFINE log == locals[H].log
             late == panic /\ ~conf.recovery
  <2>1. log \in Logs
    BY HandlerStore DEF IInv
  <2>2. PICK sending \in 0..1 : Gathered(adapter, attrs, Before(log, late, sending))
    BY DEF IInv, LogInv
  <2> DEFINE all == Before(log, late, sending)
  <2>3. all \in Seq(AttrType)
    <3> DEFINE tags == But(log.tags, IF late THEN 2 ELSE 0)
               arrays == But(log.arrays, IF late THEN sending ELSE 0)
               errors == But(log.errors, IF late THEN 1 ELSE 0)
    <3>1. /\ log.tags \in Seq(Tags) /\ log.arrays \in Seq(Arrays) /\ log.errors \in Seq({"error"})
          /\ (IF late THEN 2 ELSE 0) \in Nat /\ (IF late THEN sending ELSE 0) \in Nat
          /\ (IF late THEN 1 ELSE 0) \in Nat
      BY <2>1 DEF Logs
    <3> HIDE DEF log, late
    <3>2. tags \in Seq(Tags) /\ arrays \in Seq(Arrays) /\ errors \in Seq({"error"})
      BY <3>1, ButIsSeq
    <3>3. all = Attributes(Notes(tags, arrays, errors))
      BY DEF Before
    <3> HIDE DEF tags, arrays, errors
    <3>4. Notes(tags, arrays, errors) \in Logs
      BY <3>2, NotesOf
    <3> HIDE DEF all
    <3> QED
      BY <3>3, <3>4, AttributesOf
  <2> HIDE DEF all
  <2>4. IF adapter = "nethttp"
          THEN /\ {attrs[i] : i \in DOMAIN attrs} = {all[i] : i \in DOMAIN all}
               /\ \A i, j \in DOMAIN attrs : attrs[i].key = attrs[j].key => i = j
          ELSE attrs = all
    <3>1. Gathered(adapter, attrs, all)
      BY <2>2 DEF all
    <3>2. DOMAIN all = 1..Len(all)
      BY <2>3, LenProperties
    <3> QED
      BY <3>1, <3>2 DEF Gathered, RangeOf, KeyOnce
  <2>5. ~panic => ((\E i \in DOMAIN attrs : attrs[i].key = "error") <=> outcome # 200)
    <3> SUFFICES ASSUME ~panic
                 PROVE  (\E i \in DOMAIN attrs : attrs[i].key = "error") <=> outcome # 200
      OBVIOUS
    <3>1. log.errors # <<>> <=> outcome # 200
      BY DEF IInv, StatusInv, ErrorInv, Erred
    <3>2. all = Attributes(log)
      <4>1. ~late
        OBVIOUS
      <4> HIDE DEF late, log
      <4> QED
        BY <2>1, <4>1, NothingLater DEF all
    <3>3. (\E a \in RangeOf(all) : a.key = "error") <=> log.errors # <<>>
      BY <2>1, <3>2, AttributesOf
    <3>4. DOMAIN all = 1..Len(all)
      BY <2>3, LenProperties
    <3>5. {attrs[i] : i \in DOMAIN attrs} = RangeOf(all)
      BY <2>4, <3>4 DEF RangeOf
    <3>6. (\E i \in DOMAIN attrs : attrs[i].key = "error") <=> \E a \in RangeOf(all) : a.key = "error"
      BY <3>5
    <3> QED
      BY <3>1, <3>3, <3>6
  <2> HIDE DEF log, late
  <2> QED
    BY <2>4, <2>5, Zenon DEF LogsCollected, Before, But, all, log, late
<1> QED
  BY <1>1, Invariant, PTL
=============================================================================
