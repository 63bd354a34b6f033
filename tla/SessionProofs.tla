---------------------------- MODULE SessionProofs ----------------------------
(* Proofs about the sessions of a client, for any number of requests, keys   *)
(* and messages, every store and any number of changes: what is clean is     *)
(* saved and flash messages are one-shot when the client waits for its       *)
(* answers (Session), the same with CookieStore, and that the rotation of    *)
(* its keys loses no session (CookieStore), whether the client waits or not. *)
EXTENDS CookieStore, TLAPS

Pcs == {"start", "open", "asked", "snapped", "stored", "sent"}
Goings == Requests \X Goroutines
Saves(x) == pc[x] \in {"snapped", "stored"}

(* One save at a time, by the request that is open if there is one.          *)
OneSave ==
  /\ \A x, y \in Goings : Saves(x) /\ Saves(y) => x = y
  /\ \A q, r \in Requests : Open(q) /\ Open(r) => q = r
  /\ \A x \in Goings, q \in Requests : Saves(x) /\ Open(q) => q = x[1]

(* What the snapshot of a save has of the session of its request.            *)
SaveInv(r, g) ==
  LET x == <<r, g>>
  IN  Saves(x) =>
        /\ snap[x].revision <= revision[r]
        /\ snap[x].revision = revision[r] \/ ~dirty[r] => content[r] = snap[x].content
        /\ pc[x] = "stored" /\ store # "cookie" => kept[r] = snap[x].content
        /\ store = "cookie" /\ r \notin selfSaved => g = "handler" /\ hooked[r]

(* What no longer may be stored: a message is seen when the request that     *)
(* read it has ended.                                                        *)
FlashInv(r) ==
  /\ Open(r) => content[r].flash \cap seen = {} /\ entries[r] \cap seen = {}
  /\ hooked[r] => content[r].flash \cap consumed[r] = {} /\ pc[Handler(r)] \notin {"start", "open"}
  /\ pc[Handler(r)] = "asked" => hooked[r]
  /\ hooked[r] /\ Open(r) /\ ~dirty[r] /\ store = "server" =>
       stored.flash \subseteq content[r].flash

SnapInv(r, g) ==
  LET x == <<r, g>>
  IN  Saves(x) =>
        /\ snap[x].content.flash \cap seen = {}
        /\ g = "handler" /\ hooked[r] => snap[x].content.flash \cap consumed[r] = {}
        /\ pc[x] = "stored" /\ store = "server" => stored.flash \subseteq snap[x].content.flash

CleanInv == OneSave /\ (\A r \in Requests, g \in Goroutines : SaveInv(r, g)) /\ CleanIsSaved

OneShotInv ==
  /\ \A r \in Requests : FlashInv(r)
  /\ \A r \in Requests, g \in Goroutines : SnapInv(r, g)
  /\ store = "noop" => stored = Empty
  /\ OneShot

(* Keys: a token of the old key was made before the last instance switched,  *)
(* one of the new key when every instance knew it, and the old key is given  *)
(* up when nothing it has signed can be alive.                               *)
TokenInv(t) ==
  t # NoCookie =>
    /\ t.key \in {"k1", "k2"} /\ t.expires \in Nat
    /\ t.key = "k1" => /\ t.expires <= clock + MaxAge
                       /\ (\A i \in Instances : phase[i] \in {"switched", "retired"}) =>
                            t.expires <= switchedAt + MaxAge
    /\ t.key = "k2" => \A i \in Instances : phase[i] # "old"

RotationInv ==
  /\ clock \in Nat /\ switchedAt \in Nat
  /\ phase \in [Instances -> Phases] /\ instance \in [Requests -> Instances]
  /\ token \in [Goings -> Token \cup {NoCookie}]
  /\ TokenInv(cookie) /\ \A x \in Goings : TokenInv(token[x])
  /\ store # "cookie" => cookie = NoCookie
  /\ (\E i \in Instances : phase[i] \in {"switched", "retired"}) =>
       \A i \in Instances : phase[i] # "old"
  /\ (\E i \in Instances : phase[i] = "retired") =>
       /\ \A i \in Instances : phase[i] \in {"switched", "retired"}
       /\ clock > switchedAt + MaxAge

-----------------------------------------------------------------------------
(* Contents and changes.                                                     *)

LEMMA EmptyContent == Empty \in Content /\ Empty.flash = {}
BY DEF Empty, Content

LEMMA ContentParts ==
  ASSUME NEW c \in Content
  PROVE  /\ c.data \in SUBSET Keys /\ c.flash \in SUBSET Messages
         /\ \A data \in SUBSET Keys : LET new == [c EXCEPT !.data = data]
                                     IN  new \in Content /\ new.flash = c.flash
         /\ \A messages \in SUBSET Messages : LET new == [c EXCEPT !.flash = messages]
                                             IN  new \in Content /\ new.flash = messages
BY DEF Content

(* A change of a session: something is written, and no message is added.     *)
LEMMA ChangeWrites ==
  ASSUME TypeOK, NEW r \in Requests, NEW g \in Goroutines, Change(r, g)
  PROVE  /\ Free(r, g)
         /\ \E c \in Content : Write(r, c) /\ c.flash \subseteq content[r].flash
         /\ UNCHANGED <<store, stored, flash, save, kept, selfSaved, seen>>
<1>1. content[r] \in Content
  BY DEF TypeOK
<1>2. CASE Write(r, Empty)
  BY <1>2, EmptyContent DEF Change
<1>3. ASSUME NEW k \in Keys,
             \/ Write(r, [content[r] EXCEPT !.data = content[r].data \cup {k}])
             \/ Write(r, [content[r] EXCEPT !.data = content[r].data \ {k}])
      PROVE  \E c \in Content : Write(r, c) /\ c.flash \subseteq content[r].flash
  <2>1. content[r].data \cup {k} \in SUBSET Keys /\ content[r].data \ {k} \in SUBSET Keys
    BY <1>1, ContentParts
  <2>2. ASSUME NEW data \in SUBSET Keys, Write(r, [content[r] EXCEPT !.data = data])
        PROVE  \E c \in Content : Write(r, c) /\ c.flash \subseteq content[r].flash
    BY <1>1, <2>2, ContentParts
  <2> QED
    BY <1>3, <2>1, <2>2
<1> QED
  BY <1>2, <1>3 DEF Change

LEMMA HookWrites ==
  ASSUME TypeOK, NEW r \in Requests, Hook(r)
  PROVE  \E c \in Content : Write(r, c) /\ c.flash = entries[r] \ consumed[r]
<1> DEFINE active == entries[r] \ consumed[r]
<1>1. content[r] \in Content /\ active \in SUBSET Messages
  BY DEF TypeOK
<1>2. Write(r, [content[r] EXCEPT !.flash = active])
  BY DEF Hook, SaveFlashToSession, Active
<1> HIDE DEF active
<1>3. LET new == [content[r] EXCEPT !.flash = active] IN new \in Content /\ new.flash = active
  BY <1>1, ContentParts
<1> QED
  BY <1>2, <1>3 DEF active

LEMMA WriteFacts ==
  ASSUME TypeOK, NEW r \in Requests, NEW c \in Content, Write(r, c)
  PROVE  /\ content' \in [Requests -> Content] /\ content'[r] = c
         /\ dirty' \in [Requests -> BOOLEAN] /\ dirty'[r] = TRUE
         /\ revision' \in [Requests -> Nat] /\ revision'[r] = revision[r] + 1
         /\ \A q \in Requests \ {r} : /\ content'[q] = content[q] /\ dirty'[q] = dirty[q]
                                      /\ revision'[q] = revision[q]
BY DEF TypeOK, Write

(* A step of one goroutine leaves the places of all others.                  *)
LEMMA StepOfOne ==
  ASSUME TypeOK, NEW x \in Goings, NEW to \in Pcs, pc' = [pc EXCEPT ![x] = to]
  PROVE  /\ pc' \in [Goings -> Pcs] /\ pc'[x] = to
         /\ \A y \in Goings \ {x} : pc'[y] = pc[y]
BY DEF TypeOK, Goings, Pcs

LEMMA GoroutinesGo ==
  ASSUME NEW r \in Requests
  PROVE  /\ Handler(r) \in Goings /\ Handler(r) = <<r, "handler">>
         /\ \A g \in Goroutines : <<r, g>> \in Goings
         /\ \A q : Handler(q) = Handler(r) <=> q = r
BY DEF Handler, Goings, Goroutines

-----------------------------------------------------------------------------
(* The places and objects have the types that Session.tla says.              *)

TypeInv == TypeOK /\ \A r \in Requests : pc[Handler(r)] = "start" => consumed[r] = {}

LEMMA TypeInit == Init => TypeInv
<1> SUFFICES ASSUME Init
             PROVE  TypeInv
  OBVIOUS
<1>1. stored \in Content
  BY EmptyContent DEF Init
<1>2. Nothing \in [content : Content, revision : Nat]
  BY EmptyContent DEF Nothing
<1> QED
  BY <1>1, <1>2, EmptyContent DEF Init, TypeInv, TypeOK, Goroutines

LEMMA TypeStep == TypeInv /\ [Next]_vars => TypeInv'
<1> SUFFICES ASSUME TypeInv, [Next]_vars
             PROVE  TypeInv'
  OBVIOUS
<1> USE DEF object, flash, save
<1>0. TypeOK
  BY DEF TypeInv
<1>1. ASSUME NEW r \in Requests, Load(r) PROVE TypeInv'
  <2>1. PICK c \in {stored, Empty} :
          /\ content' = [content EXCEPT ![r] = c]
          /\ kept' = [kept EXCEPT ![r] = c]
          /\ entries' = [entries EXCEPT ![r] = c.flash]
    BY <1>1 DEF Load, LoadFlashFromSession
  <2>2. c \in Content /\ c.flash \in SUBSET Messages
    BY <1>0, EmptyContent DEF TypeOK, Content
  <2>3. pc' \in [Goings -> Pcs] /\ pc'[Handler(r)] = "open" /\ \A q \in Requests \ {r} : pc'[Handler(q)] = pc[Handler(q)]
    <3>1. pc' = [pc EXCEPT ![Handler(r)] = "open"] /\ "open" \in Pcs
      BY <1>1 DEF Load, Pcs
    <3> QED
      BY <1>0, <3>1, StepOfOne, GoroutinesGo
  <2>4. consumed[r] = {} /\ consumed' = consumed
    BY <1>1 DEF Load, TypeInv
  <2>5. TypeOK'
    BY <1>0, <1>1, <2>1, <2>2, <2>3, <2>4 DEF Load, TypeOK, Goings, Pcs
  <2> QED
    BY <2>3, <2>4, <2>5 DEF TypeInv
<1>2. ASSUME NEW r \in Requests, NEW c \in Content, Write(r, c),
             UNCHANGED <<store, stored, flash, snap, kept, selfSaved, seen>>,
             pc' \in [Goings -> Pcs], \A q \in Requests : pc'[Handler(q)] = "start" => pc[Handler(q)] = "start",
             hooked' \in [Requests -> BOOLEAN]
      PROVE  TypeInv'
  <2>1. TypeOK'
    BY <1>0, <1>2, WriteFacts DEF TypeOK, Goings, Pcs
  <2> QED
    BY <1>2, <2>1 DEF TypeInv
<1>3. ASSUME NEW r \in Requests, NEW g \in Goroutines, Change(r, g) PROVE TypeInv'
  <2>1. PICK c \in Content : Write(r, c)
    BY <1>0, <1>3, ChangeWrites
  <2> QED
    BY <1>0, <1>2, <1>3, <2>1, ChangeWrites DEF TypeOK, Goings, Pcs
<1>4. ASSUME NEW r \in Requests, Hook(r) PROVE TypeInv'
  <2>1. PICK c \in Content : Write(r, c)
    BY <1>0, <1>4, HookWrites
  <2>2. /\ pc' \in [Goings -> Pcs]
        /\ \A q \in Requests : pc'[Handler(q)] = "start" => pc[Handler(q)] = "start"
    BY <1>0, <1>4, StepOfOne, GoroutinesGo DEF Hook, Pcs
  <2>3. /\ hooked' \in [Requests -> BOOLEAN]
        /\ UNCHANGED <<store, stored, flash, snap, kept, selfSaved, seen>>
    BY <1>0, <1>4 DEF Hook, TypeOK
  <2> QED
    BY <1>2, <2>1, <2>2, <2>3
<1>5. ASSUME NEW r \in Requests,
             Destroy(r) \/ GetAll(r) \/ \E m \in Messages : Add(r, m) \/ Get(r, m)
      PROVE  TypeInv'
  <2>1. pc' = pc /\ pc[Handler(r)] = "open"
    BY <1>5 DEF Destroy, Add, Get, GetAll, Running
  <2>2. TypeOK'
    <3>1. CASE Destroy(r)
      BY <1>0, <3>1, EmptyContent DEF TypeOK, Destroy
    <3>2. CASE GetAll(r)
      BY <1>0, <3>2 DEF TypeOK, GetAll
    <3>3. ASSUME NEW m \in Messages, Add(r, m) PROVE TypeOK'
      BY <1>0, <3>3 DEF TypeOK, Add
    <3>4. ASSUME NEW m \in Messages, Get(r, m) PROVE TypeOK'
      BY <1>0, <3>4 DEF TypeOK, Get, Active
    <3> QED
      BY <1>5, <3>1, <3>2, <3>3, <3>4
  <2>3. \A q \in Requests : q # r => consumed'[q] = consumed[q]
    BY <1>0, <1>5 DEF TypeOK, Destroy, Add, Get, GetAll
  <2>4. pc'[Handler(r)] # "start" /\ \A q \in Requests : pc'[Handler(q)] = pc[Handler(q)]
    BY <2>1
  <2> QED
    BY <2>2, <2>3, <2>4 DEF TypeInv
<1>6. ASSUME NEW r \in Requests, HookIsDone(r) PROVE TypeInv'
  <2>1. /\ pc' \in [Goings -> Pcs]
        /\ \A q \in Requests : pc'[Handler(q)] = "start" => pc[Handler(q)] = "start"
    <3>1. pc' = [pc EXCEPT ![Handler(r)] = "sent"] /\ "sent" \in Pcs
      BY <1>6 DEF HookIsDone, Pcs
    <3> QED
      BY <1>0, <3>1, StepOfOne, GoroutinesGo
  <2>2. seen' \subseteq Messages
    BY <1>0, <1>6 DEF HookIsDone, TypeOK
  <2>3. TypeOK'
    BY <1>0, <1>6, <2>1, <2>2 DEF HookIsDone, TypeOK, Goings, Pcs
  <2> QED
    BY <1>6, <2>1, <2>3 DEF TypeInv, HookIsDone
<1>7. ASSUME NEW r \in Requests, NEW g \in Goroutines,
             Snapshot(r, g) \/ StoreSave(r, g) \/ StoreFails(r, g) \/ Finish(r, g)
      PROVE  TypeInv'
  <2>0. <<r, g>> \in Goings
    BY GoroutinesGo
  <2>1. /\ pc' \in [Goings -> Pcs]
        /\ \A q \in Requests : pc'[Handler(q)] = "start" => pc[Handler(q)] = "start"
    <3>1. PICK to \in Pcs \ {"start"} : pc' = [pc EXCEPT ![<<r, g>>] = to]
      BY <1>7 DEF Snapshot, StoreSave, StoreFails, Finish, Return, Pcs
    <3> QED
      BY <1>0, <2>0, <3>1, StepOfOne, GoroutinesGo
  <2>2. snap' \in [Goings -> [content : Content, revision : Nat]]
    <3>1. [content |-> content[r], revision |-> revision[r]] \in [content : Content, revision : Nat]
      BY <1>0 DEF TypeOK
    <3>2. Nothing \in [content : Content, revision : Nat]
      BY EmptyContent DEF Nothing
    <3>3. snap \in [Goings -> [content : Content, revision : Nat]]
      BY <1>0 DEF TypeOK, Goings
    <3>4. \/ snap' = [snap EXCEPT ![<<r, g>>] = [content |-> content[r], revision |-> revision[r]]]
          \/ snap' = snap \/ snap' = [snap EXCEPT ![<<r, g>>] = Nothing]
      BY <1>7 DEF Snapshot, StoreSave, StoreFails, Finish, Return
    <3> QED
      BY <3>1, <3>2, <3>3, <3>4
  <2>3. snap[<<r, g>>].content \in Content
    BY <1>0, <2>0 DEF TypeOK, Goings
  <2>4. /\ stored' \in Content /\ kept' \in [Requests -> Content] /\ selfSaved' \subseteq Requests
        /\ seen' \subseteq Messages
    <3>1. CASE Snapshot(r, g) \/ StoreFails(r, g)
      BY <1>0, <3>1 DEF Snapshot, StoreFails, TypeOK
    <3>2. CASE StoreSave(r, g)
      BY <1>0, <2>3, <3>2 DEF StoreSave, TypeOK
    <3>3. CASE Finish(r, g)
      BY <1>0, <2>3, <3>3 DEF Finish, SetCookie, TypeOK
    <3> QED
      BY <1>7, <3>1, <3>2, <3>3
  <2>5. /\ dirty' \in [Requests -> BOOLEAN]
        /\ UNCHANGED <<store, content, revision, flash, hooked>>
    BY <1>0, <1>7 DEF Snapshot, StoreSave, StoreFails, Finish, TypeOK
  <2>6. TypeOK'
    BY <1>0, <2>1, <2>2, <2>4, <2>5 DEF TypeOK, Goings, Pcs
  <2> QED
    BY <2>1, <2>5, <2>6 DEF TypeInv
<1>8. CASE UNCHANGED vars
  BY <1>8 DEF vars, TypeInv, TypeOK
<1> QED
  BY <1>1, <1>3, <1>4, <1>5, <1>6, <1>7, <1>8 DEF Next

(* A session has the state that its requests' place calls for; only a        *)
(* message that is there is marked as read.                                  *)
THEOREM SessionTypeCorrect == Spec => []TypeOK
<1>1. TypeInv => TypeOK
  BY DEF TypeInv
<1> QED
  BY <1>1, TypeInit, TypeStep, PTL DEF Spec

-----------------------------------------------------------------------------
(* What is clean is saved.                                                   *)

LEMMA OneSaveKept ==
  ASSUME OneSave, \A x \in Goings : Saves(x)' => Saves(x), \A q \in Requests : Open(q)' => Open(q)
  PROVE  OneSave'
BY DEF OneSave

(* Steps that move one goroutine, and begin neither a save nor a request.    *)
LEMMA MoveKeepsOneSave ==
  ASSUME TypeOK, OneSave, NEW x \in Goings, NEW to \in Pcs, pc' = [pc EXCEPT ![x] = to],
         to \in {"snapped", "stored"} => Saves(x), pc[x] \notin {"start", "sent"}
  PROVE  /\ OneSave'
         /\ pc'[x] = to /\ \A y \in Goings \ {x} : pc'[y] = pc[y]
         /\ \A q \in Requests : Open(q)' => Open(q)
<1>1. pc' \in [Goings -> Pcs] /\ pc'[x] = to /\ \A y \in Goings \ {x} : pc'[y] = pc[y]
  BY StepOfOne
<1>2. \A y \in Goings : Saves(y)' => Saves(y)
  BY <1>1 DEF Saves
<1>3. \A q \in Requests : Open(q)' => Open(q)
  BY <1>1, GoroutinesGo DEF Open
<1> QED
  BY <1>1, <1>2, <1>3, OneSaveKept

(* A step that leaves a save, what it saves and what was kept as they are.   *)
LEMMA SaveKept ==
  ASSUME NEW r \in Requests, NEW g \in Goroutines, SaveInv(r, g),
         pc'[<<r, g>>] = pc[<<r, g>>], snap'[<<r, g>>] = snap[<<r, g>>],
         content'[r] = content[r], revision'[r] = revision[r], dirty'[r] = dirty[r],
         kept'[r] = kept[r], hooked'[r] = hooked[r], store' = store,
         r \in selfSaved => r \in selfSaved'
  PROVE  SaveInv(r, g)'
BY DEF SaveInv, Saves

LEMMA WriteKeepsClean ==
  ASSUME TypeOK, CleanInv, NEW r \in Requests, NEW c \in Content, Write(r, c),
         UNCHANGED <<store, snap, kept, selfSaved>>,
         \A x \in Goings : pc'[x] = pc[x] \/ (pc[x] = "open" /\ pc'[x] = "asked"),
         \A q \in Requests : hooked[q] => hooked'[q]
  PROVE  CleanInv'
<1>1. OneSave'
  <2>1. \A x \in Goings : Saves(x)' => Saves(x)
    BY DEF Saves
  <2>2. \A q \in Requests : Open(q)' => Open(q)
    BY GoroutinesGo DEF Open
  <2> QED
    BY <2>1, <2>2, OneSaveKept DEF CleanInv
<1>2. ASSUME NEW q \in Requests, NEW g \in Goroutines PROVE SaveInv(q, g)'
  <2>1. SaveInv(q, g) /\ <<q, g>> \in Goings
    BY GoroutinesGo DEF CleanInv
  <2>2. Saves(<<q, g>>)' => Saves(<<q, g>>) /\ pc'[<<q, g>>] = pc[<<q, g>>]
    BY <2>1 DEF Saves
  <2>3. revision \in [Requests -> Nat] /\ snap[<<q, g>>].revision \in Nat
    BY <2>1 DEF TypeOK, Goings
  <2>4. CASE q = r
    <3>1. dirty'[r] = TRUE /\ revision'[r] = revision[r] + 1
      BY WriteFacts
    <3>2. \A s \in Nat, n \in Nat : s <= n => s <= n + 1 /\ s # n + 1
      OBVIOUS
    <3> QED
      BY <2>1, <2>2, <2>3, <2>4, <3>1, <3>2 DEF SaveInv
  <2>5. CASE q # r
    <3>1. content'[q] = content[q] /\ dirty'[q] = dirty[q] /\ revision'[q] = revision[q]
      BY <2>5, WriteFacts
    <3> QED
      BY <2>1, <2>2, <3>1 DEF SaveInv
  <2> QED
    BY <2>4, <2>5
<1>3. CleanIsSaved'
  BY WriteFacts DEF CleanInv, CleanIsSaved
<1> QED
  BY <1>1, <1>2, <1>3 DEF CleanInv

LEMMA CleanLoad ==
  ASSUME ~Overlap, TypeOK, CleanInv, NEW r \in Requests, Load(r)
  PROVE  CleanInv' /\ \A x \in Goings : ~Saves(x) /\ ~Saves(x)'
<1>1. pc' = [pc EXCEPT ![Handler(r)] = "open"] /\ "open" \in Pcs
  BY DEF Load, Pcs
<1>2. /\ \A x \in Goings : ~Saves(x)
      /\ \A q \in Requests : ~Open(q)
  BY DEF Load, Saving, Saves, Goings
<1>3. /\ \A x \in Goings : ~Saves(x)'
      /\ \A q \in Requests : Open(q)' => q = r
  BY <1>1, <1>2, StepOfOne, GoroutinesGo DEF Saves, Open
<1>4. OneSave'
  BY <1>3 DEF OneSave
<1>5. \A q \in Requests, g \in Goroutines : SaveInv(q, g)'
  BY <1>3, GoroutinesGo DEF SaveInv
<1>6. CleanIsSaved'
  BY DEF Load, CleanInv, CleanIsSaved, TypeOK
<1> QED
  BY <1>2, <1>3, <1>4, <1>5, <1>6 DEF CleanInv

LEMMA CleanSnapshot ==
  ASSUME ~Overlap, TypeOK, CleanInv, NEW r \in Requests, NEW g \in Goroutines, Snapshot(r, g)
  PROVE  CleanInv' /\ Open(r) /\ \A y \in Goings : ~Saves(y) /\ (Saves(y)' => y = <<r, g>>)
<1> DEFINE x == <<r, g>>
<1>0. x \in Goings
  BY GoroutinesGo
<1>1. pc' = [pc EXCEPT ![x] = "snapped"] /\ "snapped" \in Pcs /\ Open(r)
  BY DEF Snapshot, Pcs
<1>2. \A y \in Goings : ~Saves(y)
  BY DEF Snapshot, Saving, Saves, Goings
<1>3. pc'[x] = "snapped" /\ \A y \in Goings \ {x} : pc'[y] = pc[y]
  BY <1>0, <1>1, StepOfOne
<1>4. \A y \in Goings : Saves(y)' => y = x
  BY <1>2, <1>3 DEF Saves
<1>5. \A q \in Requests : Open(q)' => Open(q)
  <2>1. ASSUME NEW q \in Requests, Open(q)' PROVE Open(q)
    <3>1. CASE Handler(q) = x
      <4>1. q = r
        BY <3>1 DEF Handler
      <4> QED
        BY <1>1, <4>1
    <3>2. CASE Handler(q) # x
      BY <1>3, <2>1, <3>2, GoroutinesGo DEF Open
    <3> QED
      BY <3>1, <3>2
  <2> QED
    BY <2>1
<1>6. OneSave'
  <2>1. \A q \in Requests : Open(q) => q = r
    BY <1>1 DEF CleanInv, OneSave
  <2>2. x[1] = r
    OBVIOUS
  <2> QED
    BY <1>4, <1>5, <2>1, <2>2 DEF OneSave
<1>7. ASSUME NEW q \in Requests, NEW h \in Goroutines PROVE SaveInv(q, h)'
  <2>1. CASE <<q, h>> = x
    <3>1. snap'[x] = [content |-> content[r], revision |-> revision[r]]
      BY <1>0 DEF Snapshot, TypeOK, Goings
    <3>2. revision[r] \in Nat /\ UNCHANGED <<content, dirty, revision, store, hooked, kept>>
      BY DEF TypeOK, Snapshot, object
    <3>3. r \in selfSaved' \/ (g = "handler" /\ hooked[r])
      BY DEF Snapshot
    <3>4. q = r /\ h = g
      BY <2>1
    <3> HIDE DEF x
    <3> QED
      BY <1>3, <2>1, <3>1, <3>2, <3>3, <3>4 DEF SaveInv
  <2>2. CASE <<q, h>> # x
    BY <1>4, <2>2, GoroutinesGo DEF SaveInv
  <2> QED
    BY <2>1, <2>2
<1>8. CleanIsSaved'
  BY DEF CleanInv, CleanIsSaved, Snapshot, object
<1> QED
  BY <1>1, <1>2, <1>4, <1>6, <1>7, <1>8 DEF CleanInv

(* The steps of the save under way: no other goroutine saves.                *)
LEMMA CleanSave ==
  ASSUME TypeOK, CleanInv, NEW r \in Requests, NEW g \in Goroutines,
         StoreSave(r, g) \/ StoreFails(r, g) \/ Finish(r, g)
  PROVE  /\ CleanInv' /\ (\A q \in Requests : Open(q)' => Open(q)) /\ Saves(<<r, g>>)
         /\ \A y \in Goings : (Saves(y) => y = <<r, g>>) /\ (Saves(y)' => y = <<r, g>> /\ StoreSave(r, g))
<1> DEFINE x == <<r, g>>
<1>0. x \in Goings /\ Saves(x)
  BY GoroutinesGo DEF StoreSave, StoreFails, Finish, Saves
<1>1. PICK to \in Pcs : /\ pc' = [pc EXCEPT ![x] = to]
                        /\ to \in {"snapped", "stored"} <=> StoreSave(r, g)
                        /\ StoreSave(r, g) => to = "stored"
  <2>1. CASE StoreSave(r, g)
    BY <2>1 DEF StoreSave, Pcs
  <2>2. CASE ~StoreSave(r, g)
    BY <2>2 DEF StoreFails, Finish, Return, Pcs
  <2> QED
    BY <2>1, <2>2
<1>2. /\ OneSave' /\ pc'[x] = to /\ \A y \in Goings \ {x} : pc'[y] = pc[y]
      /\ \A q \in Requests : Open(q)' => Open(q)
  BY <1>0, <1>1, MoveKeepsOneSave DEF CleanInv, Saves
<1>3. \A y \in Goings : (Saves(y) => y = x) /\ (Saves(y)' => y = x /\ StoreSave(r, g))
  BY <1>0, <1>1, <1>2 DEF CleanInv, OneSave, Saves
<1>4. ASSUME NEW q \in Requests, NEW h \in Goroutines PROVE SaveInv(q, h)'
  <2>1. CASE <<q, h>> = x /\ StoreSave(r, g)
    <3>1. q = r /\ h = g
      BY <2>1
    <3>2. SaveInv(r, g) /\ snap[x] = snap'[x] /\ content' = content /\ revision' = revision
          /\ dirty' = dirty /\ store' = store /\ hooked' = hooked /\ selfSaved' = selfSaved
      BY <2>1 DEF CleanInv, StoreSave, object
    <3>3. store # "cookie" => kept'[r] = snap[x].content
      BY <2>1 DEF StoreSave, TypeOK
    <3> HIDE DEF x
    <3> QED
      BY <1>0, <1>3, <2>1, <3>1, <3>2, <3>3 DEF SaveInv, x
  <2>2. CASE ~(<<q, h>> = x /\ StoreSave(r, g))
    BY <1>3, <2>2, GoroutinesGo DEF SaveInv
  <2> QED
    BY <2>1, <2>2
<1>5. CleanIsSaved'
  <2> SUFFICES ASSUME NEW q \in Requests, ~dirty'[q], store' = "cookie" => q \notin selfSaved'
               PROVE  content'[q] = kept'[q]
    BY DEF CleanIsSaved
  <2>0. /\ UNCHANGED <<store, content, selfSaved>>
        /\ ~dirty[q] /\ (store = "cookie" => q \notin selfSaved) => content[q] = kept[q]
    BY DEF StoreSave, StoreFails, Finish, CleanInv, CleanIsSaved, object
  <2>1. CASE q # r
    BY <2>0, <2>1 DEF StoreSave, StoreFails, Finish, SetCookie, object, TypeOK
  <2>2. CASE q = r /\ StoreFails(r, g)
    BY <2>0, <2>2 DEF StoreFails, object
  <2>3. CASE q = r /\ StoreSave(r, g)
    <3>1. dirty' = dirty /\ kept' = IF store = "cookie" THEN kept ELSE [kept EXCEPT ![r] = snap[x].content]
      BY <2>3 DEF StoreSave, object
    <3>2. SaveInv(r, g)
      BY DEF CleanInv
    <3> QED
      BY <1>0, <2>0, <2>3, <3>1, <3>2 DEF SaveInv, TypeOK
  <2>4. CASE q = r /\ Finish(r, g)
    <3>1. SaveInv(r, g) /\ pc[x] = "stored"
      BY <2>4 DEF CleanInv, Finish
    <3>2. ~dirty[r] \/ revision[r] = snap[x].revision
      BY <2>4 DEF Finish, TypeOK
    <3>3. content[r] = snap[x].content
      BY <1>0, <3>1, <3>2 DEF SaveInv
    <3>4. CASE store = "cookie"
      <4>1. g = "handler" /\ hooked[r]
        BY <1>0, <2>0, <2>4, <3>1, <3>4 DEF SaveInv
      <4>2. kept' = [kept EXCEPT ![r] = snap[x].content]
        BY <2>4, <3>4, <4>1 DEF Finish, SetCookie
      <4> QED
        BY <2>0, <2>4, <3>3, <4>2 DEF TypeOK
    <3>5. CASE store # "cookie"
      <4>1. kept' = kept
        BY <2>4, <3>5 DEF Finish, SetCookie
      <4> QED
        BY <1>0, <2>0, <2>4, <3>1, <3>3, <3>5, <4>1 DEF SaveInv
    <3> QED
      BY <3>4, <3>5
  <2> QED
    BY <2>1, <2>2, <2>3, <2>4
<1> QED
  BY <1>0, <1>2, <1>3, <1>4, <1>5 DEF CleanInv

(* Steps that neither change the session nor save it.                        *)
LEMMA CleanOther ==
  ASSUME TypeOK, CleanInv, NEW r \in Requests,
         \/ Destroy(r) \/ GetAll(r) \/ HookIsDone(r)
         \/ \E m \in Messages : Add(r, m) \/ Get(r, m)
  PROVE  /\ CleanInv' /\ UNCHANGED <<store, object, snap, hooked>>
         /\ \A y \in Goings : Saves(y)' => Saves(y) /\ pc'[y] = pc[y]
         /\ \A q \in Requests : Open(q)' => Open(q)
<1>1. UNCHANGED <<store, object, snap, hooked, kept, selfSaved>>
  BY DEF Destroy, GetAll, HookIsDone, Add, Get, save
<1>2. /\ OneSave'
      /\ \A y \in Goings : Saves(y)' => Saves(y) /\ pc'[y] = pc[y]
      /\ \A q \in Requests : Open(q)' => Open(q)
  <2>1. CASE HookIsDone(r)
    <3>1. /\ pc' = [pc EXCEPT ![Handler(r)] = "sent"] /\ "sent" \in Pcs
          /\ pc[Handler(r)] = "asked" /\ Handler(r) \in Goings
      BY <2>1, GoroutinesGo DEF HookIsDone, Pcs
    <3>2. /\ OneSave' /\ pc'[Handler(r)] = "sent" /\ \A y \in Goings \ {Handler(r)} : pc'[y] = pc[y]
          /\ \A q \in Requests : Open(q)' => Open(q)
      BY <3>1, MoveKeepsOneSave DEF CleanInv
    <3> QED
      BY <3>1, <3>2 DEF Saves
  <2>2. CASE pc' = pc
    BY <2>2, OneSaveKept DEF CleanInv, Saves, Open
  <2> QED
    BY <2>1, <2>2 DEF Destroy, GetAll, Add, Get, save
<1>3. \A q \in Requests, g \in Goroutines : SaveInv(q, g)'
  <2>1. ASSUME NEW q \in Requests, NEW g \in Goroutines PROVE SaveInv(q, g)'
    <3>1. CASE Saves(<<q, g>>)'
      <4>1. pc'[<<q, g>>] = pc[<<q, g>>]
        BY <1>2, <3>1, GoroutinesGo
      <4>2. SaveInv(q, g)
        BY DEF CleanInv
      <4> QED
        BY <1>1, <4>1, <4>2, SaveKept DEF object
    <3>2. CASE ~Saves(<<q, g>>)'
      BY <3>2 DEF SaveInv
    <3> QED
      BY <3>1, <3>2
  <2> QED
    BY <2>1
<1>4. CleanIsSaved'
  BY <1>1 DEF CleanInv, CleanIsSaved, object
<1> QED
  BY <1>1, <1>2, <1>3, <1>4 DEF CleanInv

LEMMA CleanInit == Init => CleanInv
<1> SUFFICES ASSUME Init
             PROVE  CleanInv
  OBVIOUS
<1>1. \A x \in Goings : ~Saves(x)
  BY DEF Init, Saves, Goings, Goroutines
<1>2. \A r \in Requests : ~Open(r)
  <2>1. ASSUME NEW r \in Requests PROVE pc[<<r, "handler">>] = "start"
    BY DEF Init, Goroutines
  <2> QED
    BY <2>1 DEF Open, Handler
<1> QED
  BY <1>1, <1>2, GoroutinesGo DEF CleanInv, OneSave, SaveInv, CleanIsSaved, Init

LEMMA CleanStep == ~Overlap /\ TypeOK /\ CleanInv /\ [Next]_vars => CleanInv'
<1> SUFFICES ASSUME ~Overlap, TypeOK, CleanInv, [Next]_vars
             PROVE  CleanInv'
  OBVIOUS
<1>1. ASSUME NEW r \in Requests, NEW g \in Goroutines, Change(r, g) PROVE CleanInv'
  <2>1. PICK c \in Content : Write(r, c)
    BY <1>1, ChangeWrites
  <2>2. UNCHANGED <<store, snap, kept, selfSaved, pc, hooked>>
    BY <1>1 DEF Change, save
  <2> QED
    BY <2>1, <2>2, WriteKeepsClean
<1>2. ASSUME NEW r \in Requests, Hook(r) PROVE CleanInv'
  <2>1. PICK c \in Content : Write(r, c)
    BY <1>2, HookWrites
  <2>2. /\ UNCHANGED <<store, snap, kept, selfSaved>>
        /\ pc[Handler(r)] = "open" /\ pc' = [pc EXCEPT ![Handler(r)] = "asked"] /\ "asked" \in Pcs
    BY <1>2 DEF Hook, Running, Pcs
  <2>3. \A x \in Goings : pc'[x] = pc[x] \/ (pc[x] = "open" /\ pc'[x] = "asked")
    BY <2>2, StepOfOne, GoroutinesGo
  <2>4. \A q \in Requests : hooked[q] => hooked'[q]
    BY <1>2 DEF Hook, TypeOK
  <2> QED
    BY <2>1, <2>2, <2>3, <2>4, WriteKeepsClean
<1>3. CASE UNCHANGED vars
  <2> USE DEF vars, object, flash, save
  <2>1. OneSave'
    BY <1>3, OneSaveKept DEF CleanInv, Saves, Open
  <2>2. ASSUME NEW r \in Requests, NEW g \in Goroutines PROVE SaveInv(r, g)'
    BY <1>3, SaveKept DEF CleanInv
  <2>3. CleanIsSaved'
    BY <1>3 DEF CleanInv, CleanIsSaved
  <2> QED
    BY <2>1, <2>2, <2>3 DEF CleanInv
<1> QED
  BY <1>1, <1>2, <1>3, CleanLoad, CleanSnapshot, CleanSave, CleanOther DEF Next

(* When a client waits for its answers and a request for its saves, a        *)
(* session that is not dirty is saved, whatever its goroutines and the       *)
(* failures of the store do in between.                                      *)
THEOREM CleanSessionsAreSaved == ~Overlap => (Spec => []CleanIsSaved)
<1> SUFFICES ASSUME ~Overlap
             PROVE  Spec => []CleanIsSaved
  OBVIOUS
<1>1. TypeInv /\ CleanInv /\ [Next]_vars => (TypeInv /\ CleanInv)'
  BY TypeStep, CleanStep DEF TypeInv
<1>2. CleanInv => CleanIsSaved
  BY DEF CleanInv
<1> QED
  BY <1>1, <1>2, TypeInit, CleanInit, PTL DEF Spec

-----------------------------------------------------------------------------
(* Flash messages are one-shot.                                              *)

LEMMA StoreIs == TypeOK => store \in {"server", "cookie", "noop"}
BY StoresAssumption DEF TypeOK

LEMMA OneShotInit == Init => OneShotInv
<1> SUFFICES ASSUME Init
             PROVE  OneShotInv
  OBVIOUS
<1>1. ASSUME NEW r \in Requests PROVE pc[<<r, "handler">>] = "start"
  BY DEF Init, Goroutines
<1>2. ASSUME NEW r \in Requests PROVE FlashInv(r)
  BY <1>1 DEF FlashInv, Open, Handler, Init
<1>3. ASSUME NEW r \in Requests, NEW g \in Goroutines PROVE SnapInv(r, g)
  BY DEF SnapInv, Saves, Init, Goroutines
<1> QED
  BY <1>2, <1>3 DEF OneShotInv, OneShot, Init

(* What is the same for a request, or for a save, when a step is another's.  *)
LEMMA FlashKept ==
  ASSUME NEW q \in Requests, FlashInv(q), store' = store,
         Open(q)' => Open(q), pc'[Handler(q)] = pc[Handler(q)],
         content'[q] = content[q], entries'[q] = entries[q], consumed'[q] = consumed[q],
         hooked'[q] = hooked[q], dirty'[q] = dirty[q],
         Open(q)' => seen' \subseteq seen,
         hooked[q] /\ Open(q) /\ ~dirty[q] /\ store = "server" => stored'.flash \subseteq content[q].flash
  PROVE  FlashInv(q)'
BY DEF FlashInv

LEMMA SnapKept ==
  ASSUME NEW q \in Requests, NEW g \in Goroutines, SnapInv(q, g), store' = store,
         Saves(<<q, g>>)' => /\ Saves(<<q, g>>) /\ pc'[<<q, g>>] = pc[<<q, g>>]
                             /\ snap'[<<q, g>>] = snap[<<q, g>>] /\ seen' \subseteq seen
                             /\ g = "handler" /\ hooked'[q] => hooked[q] /\ consumed'[q] = consumed[q],
         stored'.flash \subseteq stored.flash
  PROVE  SnapInv(q, g)'
BY DEF SnapInv

LEMMA OneShotLoad ==
  ASSUME ~Overlap, TypeInv, CleanInv, OneShotInv, NEW r \in Requests, Load(r)
  PROVE  OneShotInv'
<1>0. TypeOK
  BY DEF TypeInv
<1>1. \A x \in Goings : ~Saves(x)'
  BY <1>0, CleanLoad
<1>2. \A q \in Requests : ~Open(q)
  BY DEF Load
<1>3. PICK c \in {stored, Empty} :
        content' = [content EXCEPT ![r] = c] /\ entries' = [entries EXCEPT ![r] = c.flash]
  BY DEF Load, LoadFlashFromSession
<1>4. /\ pc[Handler(r)] = "start" /\ pc'[Handler(r)] = "open"
      /\ \A q \in Requests \ {r} : pc'[Handler(q)] = pc[Handler(q)]
  <2>1. pc' = [pc EXCEPT ![Handler(r)] = "open"] /\ "open" \in Pcs /\ pc[Handler(r)] = "start"
    BY DEF Load, Pcs
  <2> QED
    BY <1>0, <2>1, StepOfOne, GoroutinesGo
<1>5. UNCHANGED <<store, stored, dirty, hooked, consumed, seen>>
  BY DEF Load
<1>6. FlashInv(r)'
  <2>1. ~hooked[r]
    BY <1>4 DEF OneShotInv, FlashInv
  <2>2. content'[r] = c /\ entries'[r] = c.flash /\ c.flash \cap seen = {}
    BY <1>0, <1>3, EmptyContent DEF TypeOK, OneShotInv, OneShot
  <2> QED
    BY <1>4, <1>5, <2>1, <2>2 DEF FlashInv
<1>7. ASSUME NEW q \in Requests \ {r} PROVE FlashInv(q)'
  <2>1. ~Open(q)' /\ FlashInv(q)
    BY <1>2, <1>4 DEF Open, OneShotInv
  <2>2. content'[q] = content[q] /\ entries'[q] = entries[q]
    BY <1>0, <1>3 DEF TypeOK
  <2> QED
    BY <1>2, <1>4, <1>5, <2>1, <2>2 DEF FlashInv
<1>8. \A q \in Requests, g \in Goroutines : SnapInv(q, g)'
  BY <1>1, GoroutinesGo DEF SnapInv
<1> QED
  BY <1>5, <1>6, <1>7, <1>8 DEF OneShotInv, OneShot

LEMMA OneShotChange ==
  ASSUME TypeInv, OneShotInv, NEW r \in Requests, NEW g \in Goroutines, Change(r, g)
  PROVE  OneShotInv'
<1>0. TypeOK /\ UNCHANGED <<store, stored, entries, consumed, pc, snap, hooked, seen>>
  BY DEF TypeInv, Change, save, flash
<1>1. PICK c \in Content : Write(r, c) /\ c.flash \subseteq content[r].flash
  BY <1>0, ChangeWrites
<1>2. /\ content'[r] = c /\ dirty'[r] = TRUE
      /\ \A q \in Requests \ {r} : content'[q] = content[q] /\ dirty'[q] = dirty[q]
  BY <1>0, <1>1, WriteFacts
<1>3. ASSUME NEW q \in Requests PROVE FlashInv(q)'
  <2>1. FlashInv(q) /\ (Open(q)' <=> Open(q))
    BY <1>0 DEF OneShotInv, Open
  <2>2. CASE q = r
    BY <1>0, <1>1, <1>2, <2>1, <2>2 DEF FlashInv
  <2>3. CASE q # r
    BY <1>0, <1>2, <2>1, <2>3 DEF FlashInv
  <2> QED
    BY <2>2, <2>3
<1>4. ASSUME NEW q \in Requests, NEW h \in Goroutines PROVE SnapInv(q, h)'
  BY <1>0, SnapKept DEF OneShotInv, Saves
<1> QED
  BY <1>0, <1>3, <1>4 DEF OneShotInv, OneShot

LEMMA OneShotHook ==
  ASSUME TypeInv, OneShotInv, NEW r \in Requests, Hook(r)
  PROVE  OneShotInv'
<1>0. TypeOK /\ UNCHANGED <<store, stored, entries, consumed, snap, seen>>
  BY DEF TypeInv, Hook, flash
<1>1. PICK c \in Content : Write(r, c) /\ c.flash = entries[r] \ consumed[r]
  BY <1>0, HookWrites
<1>2. /\ content'[r] = c /\ dirty'[r] = TRUE
      /\ \A q \in Requests \ {r} : content'[q] = content[q] /\ dirty'[q] = dirty[q]
  BY <1>0, <1>1, WriteFacts
<1>3. /\ pc[Handler(r)] = "open" /\ pc'[Handler(r)] = "asked"
      /\ \A x \in Goings : x # Handler(r) => pc'[x] = pc[x]
  <2>1. pc' = [pc EXCEPT ![Handler(r)] = "asked"] /\ "asked" \in Pcs /\ pc[Handler(r)] = "open"
    BY DEF Hook, Running, Pcs
  <2> QED
    BY <1>0, <2>1, StepOfOne, GoroutinesGo
<1>4. hooked'[r] = TRUE /\ \A q \in Requests \ {r} : hooked'[q] = hooked[q]
  BY <1>0 DEF Hook, TypeOK
<1>5. FlashInv(r)'
  <2>1. entries[r] \cap seen = {}
    BY <1>3 DEF OneShotInv, FlashInv, Open
  <2> QED
    BY <1>0, <1>1, <1>2, <1>3, <1>4, <2>1 DEF FlashInv
<1>6. ASSUME NEW q \in Requests \ {r} PROVE FlashInv(q)'
  <2>1. FlashInv(q) /\ pc'[Handler(q)] = pc[Handler(q)]
    BY <1>3, GoroutinesGo DEF OneShotInv
  <2>2. Open(q)' <=> Open(q)
    BY <2>1 DEF Open
  <2> QED
    BY <1>0, <1>2, <1>4, <2>1, <2>2 DEF FlashInv
<1>7. ASSUME NEW q \in Requests, NEW h \in Goroutines PROVE SnapInv(q, h)'
  <2>1. SnapInv(q, h) /\ <<q, h>> \in Goings
    BY GoroutinesGo DEF OneShotInv
  <2>2. Saves(<<q, h>>)' => Saves(<<q, h>>) /\ pc'[<<q, h>>] = pc[<<q, h>>] /\ <<q, h>> # Handler(r)
    BY <1>3, <2>1 DEF Saves
  <2>3. Saves(<<q, h>>)' /\ h = "handler" => hooked'[q] = hooked[q]
    BY <1>4, <2>2 DEF Handler
  <2> QED
    BY <1>0, <2>1, <2>2, <2>3, SnapKept
<1> QED
  BY <1>0, <1>5, <1>6, <1>7 DEF OneShotInv, OneShot

(* Destroy, Add, Get, GetAll: the request has not answered yet.              *)
LEMMA OneShotRunning ==
  ASSUME TypeInv, OneShotInv, NEW r \in Requests,
         Destroy(r) \/ GetAll(r) \/ \E m \in Messages : Add(r, m) \/ Get(r, m)
  PROVE  OneShotInv'
<1>0. TypeOK /\ UNCHANGED <<store, content, dirty, pc, snap, hooked>>
  BY DEF TypeInv, Destroy, GetAll, Add, Get, object, save
<1>1. ~hooked[r]
  BY DEF Destroy, GetAll, Add, Get, Running
<1>2. stored' \in {stored, Empty} /\ (store = "noop" => stored' = stored)
  BY DEF Destroy, GetAll, Add, Get
<1>3. seen' \subseteq seen /\ (entries'[r] \cap seen = {} \/ entries'[r] \cap seen' = {} \/ ~Open(r))
  <2>1. CASE Destroy(r) \/ GetAll(r)
    BY <2>1 DEF Destroy, GetAll, OneShotInv, FlashInv, flash
  <2>2. ASSUME NEW m \in Messages, Get(r, m)
        PROVE  seen' \subseteq seen /\ (entries'[r] \cap seen = {} \/ ~Open(r))
    BY <2>2 DEF Get, OneShotInv, FlashInv
  <2>3. ASSUME NEW m \in Messages, Add(r, m)
        PROVE  seen' \subseteq seen /\ (entries'[r] \cap seen' = {} \/ ~Open(r))
    <3>1. entries'[r] = entries[r] \cup {m} /\ seen' = seen \ {m}
      BY <1>0, <2>3 DEF Add, TypeOK
    <3> QED
      BY <3>1 DEF OneShotInv, FlashInv
  <2> QED
    BY <2>1, <2>2, <2>3
<1>4. \A q \in Requests \ {r} : entries'[q] = entries[q] /\ consumed'[q] = consumed[q]
  BY <1>0 DEF Destroy, GetAll, Add, Get, flash, TypeOK
<1>5. ASSUME NEW q \in Requests PROVE FlashInv(q)'
  <2>1. FlashInv(q) /\ (Open(q)' <=> Open(q))
    BY <1>0 DEF OneShotInv, Open
  <2>2. stored'.flash \subseteq stored.flash
    BY <1>2, EmptyContent
  <2>3. CASE q = r
    BY <1>0, <1>1, <1>3, <2>1, <2>3 DEF FlashInv
  <2>4. CASE q # r
    BY <1>0, <1>3, <1>4, <2>1, <2>2, <2>4 DEF FlashInv
  <2> QED
    BY <2>3, <2>4
<1>6. ASSUME NEW q \in Requests, NEW h \in Goroutines PROVE SnapInv(q, h)'
  <2>1. stored'.flash \subseteq stored.flash
    BY <1>2, EmptyContent
  <2>2. h = "handler" /\ hooked'[q] => hooked[q] /\ consumed'[q] = consumed[q]
    BY <1>0, <1>1, <1>4
  <2> QED
    BY <1>0, <1>3, <2>1, <2>2, SnapKept DEF OneShotInv, Saves
<1> QED
  BY <1>0, <1>2, <1>3, <1>5, <1>6, EmptyContent DEF OneShotInv, OneShot

LEMMA OneShotHookIsDone ==
  ASSUME TypeInv, CleanInv, OneShotInv, NEW r \in Requests, HookIsDone(r)
  PROVE  OneShotInv'
<1>0. /\ TypeOK /\ UNCHANGED <<store, stored, content, dirty, entries, consumed, snap, hooked>>
      /\ ~dirty[r] /\ pc[Handler(r)] = "asked" /\ Open(r)
      /\ store # "cookie" => seen' = seen \cup consumed[r]
      /\ store = "cookie" => seen' = seen
  BY DEF TypeInv, HookIsDone, object, flash, Open
<1>1. pc'[Handler(r)] = "sent" /\ \A x \in Goings : x # Handler(r) => pc'[x] = pc[x]
  <2>1. pc' = [pc EXCEPT ![Handler(r)] = "sent"] /\ "sent" \in Pcs
    BY DEF HookIsDone, Pcs
  <2> QED
    BY <1>0, <2>1, StepOfOne, GoroutinesGo
<1>2. hooked[r] /\ content[r].flash \cap consumed[r] = {} /\ content[r].flash \cap seen = {}
  BY <1>0 DEF OneShotInv, FlashInv
<1>3. \A q \in Requests : ~Open(q)'
  <2>1. \A q \in Requests \ {r} : ~Open(q)
    BY <1>0 DEF CleanInv, OneSave
  <2> QED
    BY <1>1, <2>1, GoroutinesGo DEF Open
<1>4. \A q \in Requests : FlashInv(q)'
  <2>1. ASSUME NEW q \in Requests PROVE FlashInv(q)'
    <3>1. FlashInv(q) /\ (pc'[Handler(q)] = pc[Handler(q)] \/ (q = r /\ pc'[Handler(q)] = "sent"))
      BY <1>1, GoroutinesGo DEF OneShotInv
    <3> QED
      BY <1>0, <1>3, <3>1 DEF FlashInv
  <2> QED
    BY <2>1
<1>5. ASSUME NEW q \in Requests, NEW h \in Goroutines PROVE SnapInv(q, h)'
  <2> DEFINE x == <<q, h>>
  <2>1. SnapInv(q, h) /\ SaveInv(q, h) /\ x \in Goings
    BY GoroutinesGo DEF OneShotInv, CleanInv
  <2>2. Saves(x)' => Saves(x) /\ pc'[x] = pc[x]
    BY <1>1, <2>1 DEF Saves
  <2>3. Saves(x) => q = r
    BY <1>0, <2>1 DEF CleanInv, OneSave
  <2>4. Saves(x) => snap[x].content = content[r]
    BY <1>0, <2>1, <2>3 DEF SaveInv
  <2>5. Saves(x) => snap[x].content.flash \cap seen' = {}
    BY <1>0, <1>2, <2>4
  <2> HIDE DEF x
  <2> QED
    BY <1>0, <2>1, <2>2, <2>5 DEF SnapInv, x
<1>6. OneShot'
  <2>1. CASE store = "server"
    BY <1>0, <1>2, <2>1 DEF OneShotInv, OneShot, FlashInv
  <2>2. CASE store = "noop"
    BY <1>0, <2>2, EmptyContent DEF OneShotInv, OneShot
  <2>3. CASE store = "cookie"
    BY <1>0, <2>3 DEF OneShotInv, OneShot
  <2> QED
    BY <1>0, <2>1, <2>2, <2>3, StoreIs
<1> QED
  BY <1>0, <1>4, <1>5, <1>6 DEF OneShotInv

LEMMA OneShotSnapshot ==
  ASSUME ~Overlap, TypeInv, CleanInv, OneShotInv, NEW r \in Requests, NEW g \in Goroutines, Snapshot(r, g)
  PROVE  OneShotInv'
<1> DEFINE x == <<r, g>>
<1>0. TypeOK /\ UNCHANGED <<store, stored, content, dirty, entries, consumed, hooked, seen>>
  BY DEF TypeInv, Snapshot, object, flash
<1>1. Open(r) /\ \A y \in Goings : ~Saves(y) /\ (Saves(y)' => y = x)
  BY <1>0, CleanSnapshot
<1>2. /\ pc'[x] = "snapped" /\ \A y \in Goings : y # x => pc'[y] = pc[y]
      /\ snap'[x].content = content[r]
  <2>1. pc' = [pc EXCEPT ![x] = "snapped"] /\ "snapped" \in Pcs /\ x \in Goings
    BY GoroutinesGo DEF Snapshot, Pcs
  <2>2. snap'[x].content = content[r]
    BY <1>0, <2>1 DEF Snapshot, TypeOK, Goings
  <2> HIDE DEF x
  <2> QED
    BY <1>0, <2>1, <2>2, StepOfOne
<1>3. ASSUME NEW q \in Requests PROVE FlashInv(q)'
  <2>1. FlashInv(q)
    BY DEF OneShotInv
  <2>2. CASE Handler(q) = x
    <3>1. q = r /\ pc'[Handler(q)] = "snapped"
      BY <1>2, <2>2 DEF Handler
    <3> HIDE DEF x
    <3> QED
      BY <1>0, <1>1, <2>1, <3>1 DEF FlashInv, Open
  <2>3. CASE Handler(q) # x
    <3>1. pc'[Handler(q)] = pc[Handler(q)]
      BY <1>2, <2>3, GoroutinesGo
    <3> HIDE DEF x
    <3> QED
      BY <1>0, <2>1, <3>1 DEF FlashInv, Open
  <2> QED
    BY <2>2, <2>3
<1>4. ASSUME NEW q \in Requests, NEW h \in Goroutines PROVE SnapInv(q, h)'
  <2>1. CASE Saves(<<q, h>>)'
    <3>1. q = r /\ h = g
      BY <1>1, <2>1, GoroutinesGo
    <3>2. FlashInv(r)
      BY DEF OneShotInv
    <3> QED
      BY <1>0, <1>1, <1>2, <3>1, <3>2 DEF SnapInv, FlashInv
  <2>2. CASE ~Saves(<<q, h>>)'
    BY <2>2 DEF SnapInv
  <2> QED
    BY <2>1, <2>2
<1> QED
  BY <1>0, <1>3, <1>4 DEF OneShotInv, OneShot

LEMMA OneShotStoreSave ==
  ASSUME TypeInv, CleanInv, OneShotInv, NEW r \in Requests, NEW g \in Goroutines, StoreSave(r, g)
  PROVE  OneShotInv'
<1> DEFINE x == <<r, g>>
<1>0. /\ TypeOK /\ UNCHANGED <<store, content, dirty, entries, consumed, snap, hooked, seen>>
      /\ stored' = IF store = "server" THEN snap[x].content ELSE stored
      /\ pc[x] = "snapped" /\ Saves(x)
  BY DEF TypeInv, StoreSave, object, flash, Saves
<1>1. \A y \in Goings : (Saves(y) => y = x) /\ (Saves(y)' => y = x)
  BY <1>0, CleanSave
<1>2. pc'[x] = "stored" /\ \A y \in Goings : y # x => pc'[y] = pc[y]
  <2>1. pc' = [pc EXCEPT ![x] = "stored"] /\ "stored" \in Pcs /\ x \in Goings
    BY GoroutinesGo DEF StoreSave, Pcs
  <2> HIDE DEF x
  <2> QED
    BY <1>0, <2>1, StepOfOne
<1>3. SnapInv(r, g) /\ SaveInv(r, g)
  BY DEF OneShotInv, CleanInv
<1>4. ASSUME NEW q \in Requests PROVE FlashInv(q)'
  <2>1. FlashInv(q) /\ Handler(q) \in Goings
    BY GoroutinesGo DEF OneShotInv
  <2>2. Open(q)' => Open(q)
    BY <1>0, CleanSave
  <2>3. pc'[Handler(q)] \notin {"start", "open", "asked"} \/ pc'[Handler(q)] = pc[Handler(q)]
    BY <1>2, <2>1
  <2>4. hooked[q] /\ Open(q) /\ ~dirty[q] /\ store = "server" => stored'.flash \subseteq content[q].flash
    <3> SUFFICES ASSUME hooked[q], Open(q), ~dirty[q], store = "server"
                 PROVE  stored'.flash \subseteq content[q].flash
      OBVIOUS
    <3>1. q = x[1] /\ x[1] = r
      BY <1>0, GoroutinesGo DEF CleanInv, OneSave
    <3>2. content[r] = snap[x].content
      BY <1>0, <1>3, <3>1 DEF SaveInv
    <3> QED
      BY <1>0, <3>1, <3>2
  <2> QED
    BY <1>0, <2>1, <2>2, <2>3, <2>4 DEF FlashInv
<1>5. ASSUME NEW q \in Requests, NEW h \in Goroutines PROVE SnapInv(q, h)'
  <2>1. CASE Saves(<<q, h>>)'
    <3>1. q = r /\ h = g
      BY <1>1, <2>1, GoroutinesGo
    <3> QED
      BY <1>0, <1>3, <3>1 DEF SnapInv
  <2>2. CASE ~Saves(<<q, h>>)'
    BY <2>2 DEF SnapInv
  <2> QED
    BY <2>1, <2>2
<1>6. OneShot'
  BY <1>0, <1>3 DEF SnapInv, OneShotInv, OneShot
<1> QED
  BY <1>0, <1>4, <1>5, <1>6 DEF OneShotInv

LEMMA OneShotSaveEnds ==
  ASSUME TypeInv, CleanInv, OneShotInv, NEW r \in Requests, NEW g \in Goroutines,
         StoreFails(r, g) \/ Finish(r, g)
  PROVE  OneShotInv'
<1> DEFINE x == <<r, g>>
           byHook == g = "handler" /\ hooked[r]
<1>0. /\ TypeOK /\ UNCHANGED <<store, content, entries, consumed, hooked>> /\ Saves(x)
      /\ \A q \in Requests : q # r => dirty'[q] = dirty[q]
  <2>1. TypeOK
    BY DEF TypeInv
  <2> QED
    BY <2>1 DEF StoreFails, Finish, object, flash, Saves, TypeOK
<1>1. /\ \A y \in Goings : (Saves(y) => y = x) /\ ~Saves(y)'
      /\ \A q \in Requests : Open(q)' => Open(q)
  <2>1. ~StoreSave(r, g)
    BY <1>0, StepOfOne, GoroutinesGo DEF StoreSave, StoreFails, Finish, Return, TypeOK
  <2> QED
    BY <1>0, <2>1, CleanSave
<1>2. /\ pc'[x] = IF byHook THEN "sent" ELSE "open"
      /\ \A y \in Goings : y # x => pc'[y] = pc[y]
  <2>1. PICK to \in Pcs : pc' = [pc EXCEPT ![x] = to] /\ to = IF byHook THEN "sent" ELSE "open"
    BY DEF StoreFails, Finish, Return, Pcs
  <2> HIDE DEF x, byHook
  <2> QED
    BY <1>0, <2>1, StepOfOne, GoroutinesGo DEF x
<1>3. SnapInv(r, g) /\ SaveInv(r, g)
  BY DEF OneShotInv, CleanInv
<1>4. \/ stored' = stored /\ seen' = seen
      \/ /\ byHook /\ seen' = seen \cup consumed[r] /\ pc[x] = "stored"
         /\ stored' = IF store = "cookie" THEN snap[x].content ELSE stored
  BY DEF StoreFails, Finish, SetCookie
<1>5. byHook => \A q \in Requests : ~Open(q)'
  <2> SUFFICES ASSUME byHook, NEW q \in Requests, Open(q)'
               PROVE  FALSE
    OBVIOUS
  <2>1. x[1] = r /\ Open(q) /\ x \in Goings
    BY <1>1, GoroutinesGo
  <2>2. q = r
    BY <1>0, <2>1 DEF CleanInv, OneSave
  <2> QED
    BY <1>2, <2>2 DEF Open, Handler
<1>6. ASSUME NEW q \in Requests PROVE FlashInv(q)'
  <2>1. FlashInv(q) /\ Handler(q) \in Goings
    BY GoroutinesGo DEF OneShotInv
  <2>2. hooked[q] => pc'[Handler(q)] \notin {"start", "open"}
    <3>1. CASE Handler(q) = x
      <4>1. q = r /\ g = "handler"
        BY <3>1 DEF Handler
      <4> QED
        BY <1>2, <3>1, <4>1
    <3>2. CASE Handler(q) # x
      BY <1>2, <2>1, <3>2 DEF FlashInv
    <3> QED
      BY <3>1, <3>2
  <2>3. pc'[Handler(q)] = "asked" => hooked[q]
    BY <1>2, <2>1 DEF FlashInv
  <2>4. Open(q)' => Open(q) /\ stored' = stored /\ seen' = seen
    BY <1>1, <1>4, <1>5
  <2>5. hooked[q] /\ Open(q)' /\ ~dirty'[q] /\ store = "server" => stored.flash \subseteq content[q].flash
    <3> SUFFICES ASSUME hooked[q], Open(q)', ~dirty'[q], store = "server"
                 PROVE  stored.flash \subseteq content[q].flash
      OBVIOUS
    <3>1. CASE ~dirty[q]
      BY <2>1, <2>4, <3>1 DEF FlashInv
    <3>2. CASE dirty[q]
      <4>1. q = r /\ Finish(r, g)
        BY <1>0, <3>2 DEF StoreFails, object
      <4>2. revision[r] = snap[x].revision /\ pc[x] = "stored"
        BY <1>0, <3>2, <4>1 DEF Finish, TypeOK
      <4> QED
        BY <1>0, <1>3, <4>1, <4>2 DEF SaveInv, SnapInv
    <3> QED
      BY <3>1, <3>2
  <2> QED
    BY <1>0, <2>1, <2>2, <2>3, <2>4, <2>5 DEF FlashInv
<1>7. \A q \in Requests, h \in Goroutines : SnapInv(q, h)'
  BY <1>1, GoroutinesGo DEF SnapInv
<1>8. OneShot' /\ (store = "noop" => stored' = Empty)
  <2>1. CASE stored' = stored /\ seen' = seen
    BY <2>1 DEF OneShotInv, OneShot
  <2>2. CASE /\ byHook /\ seen' = seen \cup consumed[r] /\ pc[x] = "stored"
             /\ stored' = IF store = "cookie" THEN snap[x].content ELSE stored
    <3>1. snap[x].content.flash \cap (seen \cup consumed[r]) = {}
      BY <1>0, <1>3, <2>2 DEF SnapInv
    <3>2. CASE store = "server"
      <4>1. stored.flash \subseteq snap[x].content.flash
        BY <1>0, <1>3, <2>2, <3>2 DEF SnapInv
      <4> QED
        BY <2>2, <3>1, <3>2, <4>1 DEF OneShot
    <3>3. CASE store = "noop"
      BY <2>2, <3>3, EmptyContent DEF OneShotInv, OneShot
    <3>4. CASE store = "cookie"
      BY <2>2, <3>1, <3>4 DEF OneShot
    <3> QED
      BY <1>0, <3>2, <3>3, <3>4, StoreIs
  <2> QED
    BY <1>4, <2>1, <2>2
<1> QED
  BY <1>0, <1>6, <1>7, <1>8 DEF OneShotInv

LEMMA OneShotStep == ~Overlap /\ TypeInv /\ CleanInv /\ OneShotInv /\ [Next]_vars => OneShotInv'
<1> SUFFICES ASSUME ~Overlap, TypeInv, CleanInv, OneShotInv, [Next]_vars
             PROVE  OneShotInv'
  OBVIOUS
<1>1. CASE UNCHANGED vars
  <2> USE DEF vars, object, flash, save
  <2>1. ASSUME NEW r \in Requests PROVE FlashInv(r)'
    BY <1>1 DEF OneShotInv, FlashInv, Open
  <2>2. ASSUME NEW r \in Requests, NEW g \in Goroutines PROVE SnapInv(r, g)'
    BY <1>1 DEF OneShotInv, SnapInv, Saves
  <2> QED
    BY <1>1, <2>1, <2>2 DEF OneShotInv, OneShot
<1> QED
  BY <1>1, OneShotLoad, OneShotChange, OneShotHook, OneShotRunning, OneShotHookIsDone,
     OneShotSnapshot, OneShotStoreSave, OneShotSaveEnds DEF Next

(* A client that waits for its answers gets a flash message once: what a     *)
(* request has read and saved is in no store any more, even when a goroutine *)
(* of the request saves an older snapshot of the session.                    *)
THEOREM FlashIsOneShot == ~Overlap => (Spec => []OneShot)
<1> SUFFICES ASSUME ~Overlap
             PROVE  Spec => []OneShot
  OBVIOUS
<1> DEFINE I == TypeInv /\ CleanInv /\ OneShotInv
<1>1. Init => I
  BY TypeInit, CleanInit, OneShotInit
<1>2. I /\ [Next]_vars => I'
  <2>1. TypeInv => TypeOK
    BY DEF TypeInv
  <2> QED
    BY <2>1, TypeStep, CleanStep, OneShotStep
<1>3. I => OneShot
  BY DEF OneShotInv
<1> QED
  BY <1>1, <1>2, <1>3, PTL DEF Spec

-----------------------------------------------------------------------------
(* CookieStore.                                                              *)

LEMMA CookieStepMaps == [CookieNext]_<<vars, cookieVars>> => [Next]_vars
<1> SUFFICES ASSUME [CookieNext]_<<vars, cookieVars>>
             PROVE  [Next]_vars
  OBVIOUS
<1>1. ASSUME NEW r \in Requests, CookieLoad(r) \/ OtherStep(r) PROVE Next
  BY <1>1 DEF CookieLoad, OtherStep, Next
<1>2. ASSUME NEW r \in Requests, NEW g \in Goroutines, CookieSave(r, g) \/ SaveToCookie(r, g) PROVE Next
  BY <1>2 DEF CookieSave, SaveToCookie, Next
<1>3. ASSUME NEW i \in Instances, Operator(i) PROVE UNCHANGED vars
  BY <1>3 DEF Operator, Announce, Switch, Retire, SetPhase
<1>4. Tick => UNCHANGED vars
  BY DEF Tick
<1> QED
  BY <1>1, <1>2, <1>3, <1>4 DEF CookieNext

(* With CookieStore a session is a session of Session: signatures, keys,     *)
(* lifetimes and the instances a request comes to only choose among what     *)
(* Session allows.                                                           *)
THEOREM CookieStoreImplementsSession == CookieSpec => Spec
<1>1. CookieInit => Init
  BY DEF CookieInit
<1> QED
  BY <1>1, CookieStepMaps, PTL DEF CookieSpec, Spec

(* So flash is one-shot and what is clean is saved with CookieStore as well. *)
THEOREM CookieSessionsKeepPromises == ~Overlap => (CookieSpec => [](CleanIsSaved /\ OneShot))
<1> SUFFICES ASSUME ~Overlap
             PROVE  CookieSpec => [](CleanIsSaved /\ OneShot)
  OBVIOUS
<1> QED
  BY CookieStoreImplementsSession, CleanSessionsAreSaved, FlashIsOneShot, PTL

LEMMA RotationInit == CookieInit => RotationInv
<1> SUFFICES ASSUME CookieInit
             PROVE  RotationInv
  OBVIOUS
<1> USE DEF CookieInit
<1>1. TokenInv(cookie)
  BY CookieAssumption DEF TokenInv
<1>2. token \in [Goings -> Token \cup {NoCookie}] /\ \A x \in Goings : TokenInv(token[x])
  BY DEF TokenInv, Goings
<1> QED
  BY <1>1, <1>2, CookieAssumption DEF RotationInv, Phases

(* Time and the operator: a token stays what it says.                        *)
LEMMA TickKeepsRotation ==
  ASSUME RotationInv, Tick
  PROVE  RotationInv'
<1>1. /\ clock' = clock + 1 /\ clock \in Nat /\ switchedAt \in Nat
      /\ UNCHANGED <<phase, instance, token, cookie, switchedAt, store>>
  BY DEF Tick, RotationInv, vars
<1>2. ASSUME NEW t, TokenInv(t) PROVE TokenInv(t)'
  BY <1>1, <1>2, CookieAssumption DEF TokenInv
<1> QED
  BY <1>1, <1>2, CookieAssumption DEF RotationInv

LEMMA OperatorKeepsRotation ==
  ASSUME RotationInv, NEW i \in Instances, Operator(i)
  PROVE  RotationInv'
<1>0. UNCHANGED <<clock, instance, token, cookie, store>> /\ clock \in Nat /\ switchedAt \in Nat
  BY DEF Operator, Announce, Switch, Retire, SetPhase, RotationInv, vars
<1>1. CASE Announce(i)
  <2>1. /\ phase[i] = "old" /\ phase' = [phase EXCEPT ![i] = "announced"] /\ switchedAt' = switchedAt
    BY <1>1 DEF Announce, SetPhase
  <2>2. \A j \in Instances : phase[j] \notin {"switched", "retired"}
    BY <2>1 DEF RotationInv
  <2>3. /\ phase' \in [Instances -> Phases] /\ phase'[i] = "announced"
        /\ \A j \in Instances \ {i} : phase'[j] = phase[j]
    BY <2>1 DEF RotationInv, Phases
  <2>4. ASSUME NEW t, TokenInv(t) PROVE TokenInv(t)'
    BY <1>0, <2>1, <2>2, <2>3, <2>4 DEF TokenInv
  <2> QED
    BY <1>0, <2>1, <2>2, <2>3, <2>4 DEF RotationInv
<1>2. CASE Switch(i)
  <2>1. /\ \A j \in Instances : phase[j] # "old"
        /\ phase[i] = "announced" /\ phase' = [phase EXCEPT ![i] = "switched"] /\ switchedAt' = clock
    BY <1>2 DEF Switch, SetPhase
  <2>2. \A j \in Instances : phase[j] # "retired"
    BY <2>1 DEF RotationInv
  <2>3. /\ phase' \in [Instances -> Phases] /\ phase'[i] = "switched"
        /\ \A j \in Instances \ {i} : phase'[j] = phase[j]
    BY <2>1 DEF RotationInv, Phases
  <2>4. ASSUME NEW t, TokenInv(t) PROVE TokenInv(t)'
    BY <1>0, <2>1, <2>2, <2>3, <2>4 DEF TokenInv
  <2> QED
    BY <1>0, <2>1, <2>2, <2>3, <2>4 DEF RotationInv
<1>3. CASE Retire(i)
  <2>1. /\ \A j \in Instances : phase[j] \in {"switched", "retired"}
        /\ clock > switchedAt + MaxAge
        /\ phase' = [phase EXCEPT ![i] = "retired"] /\ switchedAt' = switchedAt
    BY <1>3 DEF Retire, SetPhase
  <2>2. /\ phase' \in [Instances -> Phases] /\ phase'[i] = "retired"
        /\ \A j \in Instances \ {i} : phase'[j] = phase[j]
    BY <2>1 DEF RotationInv, Phases
  <2>3. \A j \in Instances : phase'[j] \in {"switched", "retired"}
    BY <2>1, <2>2
  <2>4. ASSUME NEW t, TokenInv(t) PROVE TokenInv(t)'
    BY <1>0, <2>1, <2>3, <2>4 DEF TokenInv
  <2> QED
    BY <1>0, <2>1, <2>2, <2>3, <2>4 DEF RotationInv
<1> QED
  BY <1>1, <1>2, <1>3 DEF Operator

(* What an instance signs with is known to every instance.                   *)
LEMMA SignedTokens ==
  ASSUME RotationInv, NEW i \in Instances
  PROVE  TokenInv(SignAndEncode(i)) /\ SignAndEncode(i) \in Token
<1>1. /\ SignAndEncode(i).key = IF phase[i] \in {"old", "announced"} THEN "k1" ELSE "k2"
      /\ SignAndEncode(i).expires = clock + MaxAge
  BY DEF SignAndEncode, SecretKey
<1>2. clock \in Nat /\ MaxAge \in Nat /\ phase[i] \in Phases
  BY CookieAssumption DEF RotationInv
<1>3. ASSUME phase[i] \in {"old", "announced"} PROVE TokenInv(SignAndEncode(i))
  BY <1>1, <1>2, <1>3 DEF TokenInv
<1>4. SignAndEncode(i) \in Token
  BY <1>2 DEF SignAndEncode, SecretKey, Token
<1>5. ASSUME phase[i] \in {"switched", "retired"} PROVE TokenInv(SignAndEncode(i))
  <2>1. \A j \in Instances : phase[j] # "old"
    BY <1>5 DEF RotationInv
  <2> QED
    BY <1>1, <1>2, <1>5, <2>1 DEF TokenInv
<1> QED
  BY <1>2, <1>3, <1>4, <1>5 DEF Phases

(* A cookie is set from a token of Save, or stays.                           *)
LEMMA TokensKeepRotation ==
  ASSUME RotationInv, UNCHANGED <<clock, phase, instance, switchedAt, store>>,
         token' \in [Goings -> Token \cup {NoCookie}],
         TokenInv(cookie'), \A x \in Goings : TokenInv(token'[x]),
         store # "cookie" => cookie' = NoCookie
  PROVE  RotationInv'
<1>1. TokenInv(cookie)' /\ \A x \in Goings : TokenInv(token[x])'
  BY DEF TokenInv
<1> QED
  BY <1>1 DEF RotationInv

LEMMA RotationStep == RotationInv /\ [CookieNext]_<<vars, cookieVars>> => RotationInv'
<1> SUFFICES ASSUME RotationInv, [CookieNext]_<<vars, cookieVars>>
             PROVE  RotationInv'
  OBVIOUS
<1>1. CASE UNCHANGED <<cookieVars, store>>
  BY <1>1, TokensKeepRotation DEF cookieVars, RotationInv
<1>2. ASSUME NEW r \in Requests, NEW g \in Goroutines, CookieSave(r, g) PROVE RotationInv'
  <2>1. UNCHANGED <<clock, phase, instance, switchedAt, store, cookie>>
    BY <1>2 DEF CookieSave, StoreSave, StoreFails
  <2>2. instance[r] \in Instances
    BY DEF RotationInv
  <2>3. /\ TokenInv(SignAndEncode(instance[r])) /\ SignAndEncode(instance[r]) \in Token
        /\ token' = token \/ token' = [token EXCEPT ![<<r, g>>] = SignAndEncode(instance[r])]
    BY <1>2, <2>2, SignedTokens DEF CookieSave
  <2>4. /\ token' \in [Goings -> Token \cup {NoCookie}]
        /\ \A x \in Goings : TokenInv(token'[x])
    BY <2>3 DEF RotationInv
  <2> QED
    BY <2>1, <2>4, TokensKeepRotation DEF RotationInv
<1>3. ASSUME NEW r \in Requests, NEW g \in Goroutines, store = "cookie", SaveToCookie(r, g) PROVE RotationInv'
  <2>1. UNCHANGED <<clock, phase, instance, switchedAt, store>>
    BY <1>3 DEF SaveToCookie, Finish
  <2>2. TokenInv(cookie')
    BY <1>3, GoroutinesGo DEF SaveToCookie, RotationInv
  <2>3. /\ token' \in [Goings -> Token \cup {NoCookie}]
        /\ \A x \in Goings : TokenInv(token'[x])
    BY <1>3 DEF SaveToCookie, RotationInv, TokenInv
  <2> QED
    BY <1>3, <2>1, <2>2, <2>3, TokensKeepRotation
<1>4. ASSUME NEW r \in Requests PROVE /\ Load(r) \/ Destroy(r) \/ GetAll(r) \/ Hook(r) \/ HookIsDone(r) => store' = store
                                     /\ \A m \in Messages : Add(r, m) \/ Get(r, m) => store' = store
  BY DEF Load, Destroy, GetAll, Hook, HookIsDone, Add, Get
<1>5. ASSUME NEW r \in Requests, NEW g \in Goroutines
      PROVE  Change(r, g) \/ Snapshot(r, g) \/ StoreSave(r, g) \/ StoreFails(r, g) \/ Finish(r, g) => store' = store
  BY DEF Change, Snapshot, StoreSave, StoreFails, Finish
<1>6. ASSUME NEW r \in Requests, CookieLoad(r) \/ OtherStep(r) PROVE UNCHANGED <<cookieVars, store>>
  BY <1>4, <1>5, <1>6 DEF CookieLoad, OtherStep
<1>7. Next => store' = store
  BY <1>4, <1>5 DEF Next
<1> QED
  BY <1>1, <1>2, <1>3, <1>6, <1>7, TickKeepsRotation, OperatorKeepsRotation DEF CookieNext, vars

(* While the instances change their key one by one no request of a client    *)
(* loses a session whose cookie is alive, whichever instance it comes to and *)
(* however answers, saves and restarts fall (cookie_store.go:38-40).         *)
THEOREM RotationLosesNoSession == CookieSpec => RotationKeepsSession
<1>1. ASSUME RotationInv, TypeInv, [CookieNext]_<<vars, cookieVars>>, NEW r \in Requests,
             pc[Handler(r)] = "start", pc'[Handler(r)] = "open",
             cookie # NoCookie, clock <= cookie.expires, cookie.encrypted = (instance[r] \in encrypted)
      PROVE  content'[r] = stored
  <2>1. store = "cookie"
    BY <1>1 DEF RotationInv
  <2>2. VerifySignature(instance[r], cookie)
    <3>1. instance[r] \in Instances /\ phase[instance[r]] \in Phases
      BY <1>1 DEF RotationInv
    <3>2. CASE cookie.key = "k1"
      <4>1. \A i \in Instances : phase[i] # "retired"
        <5> SUFFICES ASSUME NEW i \in Instances, phase[i] = "retired"
                     PROVE  FALSE
          OBVIOUS
        <5>1. cookie.expires <= switchedAt + MaxAge /\ clock > switchedAt + MaxAge
          BY <1>1, <3>2 DEF RotationInv, TokenInv
        <5>2. cookie.expires \in Nat /\ clock \in Nat /\ switchedAt \in Nat /\ MaxAge \in Nat
          BY <1>1, CookieAssumption DEF RotationInv, TokenInv
        <5> QED
          BY <1>1, <5>1, <5>2
      <4> QED
        BY <3>1, <3>2, <4>1 DEF VerifySignature, SecretKey, VerificationKeys, Phases
    <3>3. CASE cookie.key = "k2"
      <4>1. \A i \in Instances : phase[i] # "old"
        BY <1>1, <3>3 DEF RotationInv, TokenInv
      <4> QED
        BY <3>1, <3>3, <4>1 DEF VerifySignature, SecretKey, VerificationKeys, Phases
    <3> QED
      BY <1>1, <3>2, <3>3 DEF RotationInv, TokenInv
  <2>3. Loads(instance[r])
    BY <1>1, <2>2 DEF Loads, VerifyAndDecode, Decrypts
  <2>4. CookieLoad(r)
    <3>1. ASSUME NEW q \in Requests, NEW g \in Goroutines, NEW to \in Pcs,
                 pc' = [pc EXCEPT ![<<q, g>>] = to], pc[<<q, g>>] # "start"
          PROVE  FALSE
      BY <1>1, <3>1, StepOfOne, GoroutinesGo DEF TypeInv
    <3>2. pc' # pc
      BY <1>1
    <3>3. ASSUME NEW q \in Requests, OtherStep(q) PROVE FALSE
      <4>1. CASE Destroy(q) \/ GetAll(q) \/ \E m \in Messages : Add(q, m) \/ Get(q, m)
        BY <3>2, <4>1 DEF Destroy, GetAll, Add, Get, save
      <4>2. CASE Hook(q) \/ HookIsDone(q)
        <5>1. PICK to \in Pcs : pc' = [pc EXCEPT ![<<q, "handler">>] = to] /\ pc[<<q, "handler">>] # "start"
          BY <4>2 DEF Hook, HookIsDone, Running, Handler, Pcs
        <5> QED
          BY <3>1, <5>1 DEF Goroutines
      <4>3. ASSUME NEW g \in Goroutines, Change(q, g) PROVE FALSE
        BY <3>2, <4>3 DEF Change, save
      <4>4. ASSUME NEW g \in Goroutines, Snapshot(q, g) PROVE FALSE
        <5>1. pc' = [pc EXCEPT ![<<q, g>>] = "snapped"] /\ pc[<<q, g>>] # "start" /\ "snapped" \in Pcs
          BY <4>4 DEF Snapshot, Free, Running, Handler, Goroutines, Pcs
        <5> QED
          BY <3>1, <5>1
      <4> QED
        BY <3>3, <4>1, <4>2, <4>3, <4>4 DEF OtherStep
    <3>4. ASSUME NEW q \in Requests, NEW g \in Goroutines, CookieSave(q, g) \/ SaveToCookie(q, g)
          PROVE  FALSE
      <4>1. PICK to \in Pcs : pc' = [pc EXCEPT ![<<q, g>>] = to] /\ pc[<<q, g>>] # "start"
        BY <3>4 DEF CookieSave, SaveToCookie, StoreSave, StoreFails, Finish, Return, Pcs
      <4> QED
        BY <3>1, <4>1
    <3>5. ASSUME NEW q \in Requests, CookieLoad(q) PROVE q = r
      <4>1. pc' = [pc EXCEPT ![Handler(q)] = "open"] /\ "open" \in Pcs
        BY <3>5 DEF CookieLoad, Load, Pcs
      <4> QED
        BY <1>1, <4>1, StepOfOne, GoroutinesGo DEF TypeInv
    <3>6. Tick \/ (\E i \in Instances : Operator(i)) \/ UNCHANGED <<vars, cookieVars>> => UNCHANGED pc
      BY DEF Tick, Operator, Announce, Switch, Retire, SetPhase, vars, save
    <3> QED
      BY <1>1, <2>1, <3>2, <3>3, <3>4, <3>5, <3>6 DEF CookieNext
  <2> QED
    BY <2>3, <2>4 DEF CookieLoad
<1>2. CookieSpec => [](RotationInv /\ TypeInv)
  <2>1. CookieInit => RotationInv /\ TypeInv
    BY RotationInit, TypeInit DEF CookieInit
  <2>2. RotationInv /\ TypeInv /\ [CookieNext]_<<vars, cookieVars>> => (RotationInv /\ TypeInv)'
    BY RotationStep, CookieStepMaps, TypeStep
  <2> QED
    BY <2>1, <2>2, PTL DEF CookieSpec
<1>3. RotationInv /\ TypeInv /\ [CookieNext]_<<vars, cookieVars>> =>
        [\A r \in Requests :
           (/\ pc[Handler(r)] = "start" /\ pc'[Handler(r)] = "open"
            /\ cookie # NoCookie /\ clock <= cookie.expires
            /\ cookie.encrypted = (instance[r] \in encrypted))
           => content'[r] = stored]_<<vars, cookieVars>>
  BY <1>1
<1> QED
  BY <1>2, <1>3, PTL DEF CookieSpec, RotationKeepsSession
=============================================================================
