------------------------------ MODULE Session -------------------------------
(***************************************************************************)
(* The sessions of one client (v2/session): the Session and Flash objects  *)
(* each of its requests works on, Save with its snapshot, and the          *)
(* before-commit hook of the middleware that keeps the flash messages and  *)
(* saves the session before the response goes out.                         *)
(*                                                                         *)
(* A request has its handler's goroutine and another one the handler       *)
(* starts, which may go on after the response. The values under the keys   *)
(* of a session and of its flash are abstracted to their presence.         *)
(*                                                                         *)
(* `stored' is what the client's next request loads: the content of a      *)
(* store of the application's, or of the cookie the last response has set.  *)
(* NoOpStore has nothing.  CookieStore says what becomes of a cookie.       *)
(***************************************************************************)
EXTENDS Naturals

CONSTANTS
  Requests,     (* The client's requests, once each.                       *)
  Keys,         (* Keys of the session.                                    *)
  Messages,     (* Keys of the flash.                                      *)
  Overlap,      (* Whether requests of the client, and saves of a request, *)
                (* overlap.                                                *)
  Stores,       (* Of "server", "cookie" and "noop".                       *)
  Background,   (* The stores with which handlers start a goroutine.       *)
  MaxRevision   (* Bound for each store: how often one request changes its *)
                (* session.                                                *)

ASSUME OverlapAssumption  == Overlap \in BOOLEAN
ASSUME StoresAssumption   == Stores \subseteq {"server", "cookie", "noop"} /\ Background \subseteq Stores
ASSUME RevisionAssumption == MaxRevision \in [Stores -> Nat]

Goroutines == {"handler", "background"}

Content == [data : SUBSET Keys, flash : SUBSET Messages]
Empty   == [data |-> {}, flash |-> {}]
Nothing == [content |-> Empty, revision |-> 0]

VARIABLES
  store,      (* Session.store; never changes.                             *)
  stored,     (* What the store has of the session.                        *)
  content,    (* Session.data, the flash namespace apart, per request.     *)
  dirty,      (* Session.dirty.                                            *)
  revision,   (* Session.revision.                                         *)
  entries,    (* Flash.entries.                                            *)
  consumed,   (* Flash.read.                                               *)
  pc,         (* Where each goroutine is.                                  *)
  snap,       (* The snapshot Save works on, per goroutine.                *)
  hooked,     (* Whether the before-commit hook has begun.                 *)
  kept,       (* History: what the request last loaded or saved.           *)
  selfSaved,  (* History: requests whose own code called Save.              *)
  seen        (* History: messages consumed by requests that saved it.     *)

object == <<content, dirty, revision>>
flash  == <<entries, consumed>>
save   == <<pc, snap, hooked>>
vars   == <<store, stored, object, flash, save, kept, selfSaved, seen>>

Handler(r) == <<r, "handler">>
Active(r)  == entries[r] \ consumed[r]
Saving     == \E x \in Requests \X Goroutines : pc[x] \in {"snapped", "stored"}
Open(r)    == pc[Handler(r)] \notin {"start", "sent"}

(* The handler's own code runs until its response begins.                   *)
Running(r) == pc[Handler(r)] = "open" /\ ~hooked[r]
Free(r, g) == IF g = "handler" THEN Running(r)
              ELSE store \in Background /\ pc[Handler(r)] # "start" /\ pc[<<r, g>>] = "open"

-----------------------------------------------------------------------------
Init ==
  /\ store \in Stores
  /\ stored \in IF store = "noop" THEN {Empty} ELSE Content
  /\ content = [r \in Requests |-> Empty]
  /\ dirty = [r \in Requests |-> FALSE]
  /\ revision = [r \in Requests |-> 0]
  /\ entries = [r \in Requests |-> {}]
  /\ consumed = [r \in Requests |-> {}]
  /\ pc = [x \in Requests \X Goroutines |-> IF x[2] = "handler" THEN "start" ELSE "open"]
  /\ snap = [x \in Requests \X Goroutines |-> Nothing]
  /\ hooked = [r \in Requests |-> FALSE]
  /\ kept = [r \in Requests |-> Empty]
  /\ selfSaved = {}
  /\ seen = {}

LoadFlashFromSession(c) == c.flash

(* The middleware loads the session; without a cookie, or when the store    *)
(* fails, it begins a new one.                                              *)
Load(r) ==
  /\ pc[Handler(r)] = "start"
  /\ Overlap \/ (~Saving /\ \A q \in Requests : ~Open(q))
  /\ \E c \in {stored, Empty} :
       /\ content' = [content EXCEPT ![r] = c]
       /\ kept' = [kept EXCEPT ![r] = c]
       /\ entries' = [entries EXCEPT ![r] = LoadFlashFromSession(c)]
  /\ pc' = [pc EXCEPT ![Handler(r)] = "open"]
  /\ UNCHANGED <<store, stored, dirty, revision, consumed, snap, hooked, selfSaved, seen>>

-----------------------------------------------------------------------------
(* Set, Delete and Clear under the lock of the session.                     *)
Write(r, c) ==
  /\ content' = [content EXCEPT ![r] = c]
  /\ dirty' = [dirty EXCEPT ![r] = TRUE]
  /\ revision' = [revision EXCEPT ![r] = @ + 1]

Change(r, g) ==
  /\ Free(r, g)
  /\ revision[r] < MaxRevision[store]
  /\ \/ \E k \in Keys : Write(r, [content[r] EXCEPT !.data = @ \cup {k}])
     \/ \E k \in Keys : Write(r, [content[r] EXCEPT !.data = @ \ {k}])
     \/ Write(r, Empty)
  /\ UNCHANGED <<store, stored, flash, save, kept, selfSaved, seen>>

(* Destroy only calls the store.  Those of CookieStore and NoOpStore do      *)
(* nothing, and so does another for a session it does not have.             *)
Destroy(r) ==
  /\ Running(r)
  /\ stored' \in IF store = "server" THEN {stored, Empty} ELSE {stored}
  /\ UNCHANGED <<store, object, flash, save, kept, selfSaved, seen>>

Add(r, m) ==
  /\ Running(r)
  /\ entries' = [entries EXCEPT ![r] = @ \cup {m}]
  /\ consumed' = [consumed EXCEPT ![r] = @ \ {m}]
  /\ seen' = seen \ {m}
  /\ UNCHANGED <<store, stored, object, save, kept, selfSaved>>

Get(r, m) ==
  /\ Running(r)
  /\ m \in Active(r)
  /\ consumed' = [consumed EXCEPT ![r] = @ \cup {m}]
  /\ UNCHANGED <<store, stored, object, entries, save, kept, selfSaved, seen>>

(* GetAll and Flash.Clear.                                                  *)
GetAll(r) ==
  /\ Running(r)
  /\ Active(r) # {}
  /\ consumed' = [consumed EXCEPT ![r] = entries[r]]
  /\ UNCHANGED <<store, stored, object, entries, save, kept, selfSaved, seen>>

-----------------------------------------------------------------------------
(* The before-commit hook, up to its look at IsDirty.                       *)

(* Faulty: when every message has been read the namespace is left alone.    *)
KeepWhenActive(r) ==
  IF Active(r) = {} THEN UNCHANGED object
  ELSE Write(r, [content[r] EXCEPT !.flash = Active(r)])

SaveFlashToSession(r) == Write(r, [content[r] EXCEPT !.flash = Active(r)])

Hook(r) ==
  /\ Running(r)
  /\ SaveFlashToSession(r)
  /\ hooked' = [hooked EXCEPT ![r] = TRUE]
  /\ pc' = [pc EXCEPT ![Handler(r)] = "asked"]
  /\ UNCHANGED <<store, stored, flash, snap, kept, selfSaved, seen>>

(* Save drops its snapshot and returns to the hook, and then the response   *)
(* goes out, or to its caller.                                              *)
Return(r, g) ==
  /\ pc' = [pc EXCEPT ![<<r, g>>] = IF g = "handler" /\ hooked[r] THEN "sent" ELSE "open"]
  /\ snap' = [snap EXCEPT ![<<r, g>>] = Nothing]

HookIsDone(r) ==
  /\ pc[Handler(r)] = "asked"
  /\ ~dirty[r]
  /\ pc' = [pc EXCEPT ![Handler(r)] = "sent"]
  /\ seen' = IF store = "cookie" THEN seen ELSE seen \cup consumed[r]
  /\ UNCHANGED <<store, stored, object, flash, snap, hooked, kept, selfSaved>>

(* Save: the snapshot under the read lock, the store outside of it, and     *)
(* the dirty flag under the write lock. The hook saves what is dirty, a     *)
(* call of Save whatever there is.                                          *)
Snapshot(r, g) ==
  /\ \/ g = "handler" /\ pc[Handler(r)] = "asked" /\ dirty[r]
     \/ Free(r, g)
  /\ Overlap \/ (~Saving /\ Open(r))
  /\ snap' = [snap EXCEPT ![<<r, g>>] = [content |-> content[r], revision |-> revision[r]]]
  /\ pc' = [pc EXCEPT ![<<r, g>>] = "snapped"]
  /\ selfSaved' = IF g = "handler" /\ hooked[r] THEN selfSaved ELSE selfSaved \cup {r}
  /\ UNCHANGED <<store, stored, object, flash, hooked, kept, seen>>

(* A store of the application's has the content now; CookieStore has only    *)
(* made a token of it.                                                      *)
StoreSave(r, g) ==
  /\ pc[<<r, g>>] = "snapped"
  /\ stored' = IF store = "server" THEN snap[<<r, g>>].content ELSE stored
  /\ kept' = IF store = "cookie" THEN kept ELSE [kept EXCEPT ![r] = snap[<<r, g>>].content]
  /\ pc' = [pc EXCEPT ![<<r, g>>] = "stored"]
  /\ UNCHANGED <<store, object, flash, snap, hooked, selfSaved, seen>>

StoreFails(r, g) ==
  /\ pc[<<r, g>>] = "snapped"
  /\ Return(r, g)
  /\ UNCHANGED <<store, stored, object, flash, hooked, kept, selfSaved, seen>>

(* The hook sends the token that the store made; a token that the request's  *)
(* own code got from Save goes nowhere.                                     *)
SetCookie(r, g) ==
  LET byHook == g = "handler" /\ hooked[r]
  IN  /\ seen' = IF byHook THEN seen \cup consumed[r] ELSE seen
      /\ IF byHook /\ store = "cookie"
           THEN stored' = snap[<<r, g>>].content /\ kept' = [kept EXCEPT ![r] = stored']
           ELSE UNCHANGED <<stored, kept>>

(* Faulty: a change made during the save is forgotten.                      *)
FinishAnyway(r, g) ==
  /\ pc[<<r, g>>] = "stored"
  /\ dirty' = [dirty EXCEPT ![r] = FALSE]
  /\ SetCookie(r, g)
  /\ Return(r, g)
  /\ UNCHANGED <<store, content, revision, flash, hooked, selfSaved>>

Finish(r, g) ==
  /\ pc[<<r, g>>] = "stored"
  /\ dirty' = [dirty EXCEPT ![r] = @ /\ revision[r] # snap[<<r, g>>].revision]
  /\ SetCookie(r, g)
  /\ Return(r, g)
  /\ UNCHANGED <<store, content, revision, flash, hooked, selfSaved>>

-----------------------------------------------------------------------------
Next ==
  \E r \in Requests :
    \/ Load(r) \/ Destroy(r) \/ GetAll(r) \/ Hook(r) \/ HookIsDone(r)
    \/ \E m \in Messages : Add(r, m) \/ Get(r, m)
    \/ \E g \in Goroutines :
         Change(r, g) \/ Snapshot(r, g) \/ StoreSave(r, g) \/ StoreFails(r, g) \/ Finish(r, g)

Spec == Init /\ [][Next]_vars

-----------------------------------------------------------------------------
(* Properties.                                                              *)

(* Types of the variables; only a message that is there is marked as read.  *)
TypeOK ==
  /\ store \in Stores
  /\ stored \in Content
  /\ content \in [Requests -> Content]
  /\ dirty \in [Requests -> BOOLEAN]
  /\ revision \in [Requests -> Nat]
  /\ entries \in [Requests -> SUBSET Messages]
  /\ consumed \in [Requests -> SUBSET Messages]
  /\ \A r \in Requests : consumed[r] \subseteq entries[r]
  /\ pc \in [Requests \X Goroutines -> {"start", "open", "asked", "snapped", "stored", "sent"}]
  /\ snap \in [Requests \X Goroutines -> [content : Content, revision : Nat]]
  /\ hooked \in [Requests -> BOOLEAN]
  /\ kept \in [Requests -> Content]
  /\ selfSaved \subseteq Requests
  /\ seen \subseteq Messages

(* A session that is not dirty has nothing left to save: a change made by   *)
(* another goroutine while a snapshot was being stored keeps it dirty       *)
(* (session.go:115-119, TestSession_SaveConcurrentMutation). Saves of one   *)
(* request that overlap break it: the older snapshot may be stored last.    *)
(* With CookieStore so does a Save of the request's own code, whose token no *)
(* response sets.                                                           *)
CleanIsSaved ==
  \A r \in Requests :
    ~dirty[r] /\ (store = "cookie" => r \notin selfSaved) => content[r] = kept[r]

(* Flash messages are one-shot: once a request has read a message and saved *)
(* its session, the store no longer holds it, for a client that waits for   *)
(* its answers.                                                             *)
OneShot == stored.flash \cap seen = {}
=============================================================================
