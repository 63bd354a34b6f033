---------------------------- MODULE CookieStore -----------------------------
(***************************************************************************)
(* Session with CookieStore (v2/session/cookie_store.go): the content is in *)
(* the client's cookie, signed and perhaps encrypted by the instance of the *)
(* application that answered, and the next request may reach another one.   *)
(* Every instance has its CookieStoreConfig from its start; the operator     *)
(* rotates the key by restarting them one by one.                            *)
(*                                                                         *)
(* The cryptography is ideal: a signature verifies with its key and no      *)
(* other, a payload decrypts with its key and no other.                     *)
(***************************************************************************)
EXTENDS Session, FiniteSets

CONSTANTS
  Instances,      (* Processes of the application.                         *)
  Reencrypts,     (* Those that are restarted with an EncryptionKey.       *)
  MaxAge,         (* Session lifetime.                                     *)
  MaxPayloadSize, (* In keys and messages.                                 *)
  MaxClock,       (* Bound of the clock.                                   *)
  NoCookie

ASSUME CookieAssumption ==
  /\ Reencrypts \subseteq Instances
  /\ MaxAge \in Nat /\ MaxPayloadSize \in Nat /\ MaxClock \in Nat

Phases == {"old", "announced", "switched", "retired"}

VARIABLES
  clock,
  phase,      (* How far the rotation is, for each instance.               *)
  encrypted,  (* Instances that have an EncryptionKey.                      *)
  instance,   (* The one a request has come to.                            *)
  token,      (* What Save made, per goroutine.                            *)
  cookie,     (* What the client has beside the content, which is `stored'. *)
  switchedAt  (* History: when the last instance has changed its SecretKey. *)

cookieVars == <<clock, phase, encrypted, instance, token, cookie, switchedAt>>

(* CookieStoreConfig.SecretKey and VerificationKeys, for key rotation.       *)
SecretKey(i) == IF phase[i] \in {"old", "announced"} THEN "k1" ELSE "k2"
VerificationKeys(i) == CASE phase[i] \in {"old", "retired"} -> {}
                         [] phase[i] = "announced" -> {"k2"}
                         [] phase[i] = "switched"  -> {"k1"}

Token == [key : {"k1", "k2"}, encrypted : BOOLEAN, expires : Nat]

CookieInit ==
  /\ Init
  /\ clock = 0
  /\ phase = [i \in Instances |-> "old"]
  /\ encrypted = {}
  /\ instance \in [Requests -> Instances]
  /\ store # "cookie" => instance = [r \in Requests |-> CHOOSE i \in Instances : TRUE]
  /\ token = [x \in Requests \X Goroutines |-> NoCookie]
  /\ cookie = IF store = "cookie" /\ stored # Empty
                THEN [key |-> "k1", encrypted |-> FALSE, expires |-> MaxAge] ELSE NoCookie
  /\ switchedAt = 0

-----------------------------------------------------------------------------
(* Mutant: only the SecretKey is tried.                                      *)
VerifyNewest(i, t) == t.key = SecretKey(i)

VerifySignature(i, t) == t.key \in {SecretKey(i)} \cup VerificationKeys(i)

(* decrypt fails for what is not encrypted; without an EncryptionKey the     *)
(* ciphertext is no JSON.                                                    *)
Decrypts(i, t) == t.encrypted = (i \in encrypted)

VerifyAndDecode(i, t) == VerifySignature(i, t) /\ Decrypts(i, t)

(* Load and LoadFromCookie.                                                  *)
Loads(i) == cookie # NoCookie /\ VerifyAndDecode(i, cookie) /\ clock <= cookie.expires

CookieLoad(r) ==
  /\ Load(r)
  /\ content'[r] = IF Loads(instance[r]) THEN stored ELSE Empty
  /\ UNCHANGED cookieVars

SignAndEncode(i) ==
  [key |-> SecretKey(i), encrypted |-> i \in encrypted, expires |-> clock + MaxAge]

Fits(c) == Cardinality(c.data) + Cardinality(c.flash) <= MaxPayloadSize

CookieSave(r, g) ==
  LET x == <<r, g>>
  IN  /\ \/ StoreSave(r, g) /\ Fits(snap[x].content) /\ token' = [token EXCEPT ![x] = SignAndEncode(instance[r])]
         \/ StoreFails(r, g) /\ ~Fits(snap[x].content) /\ UNCHANGED token
      /\ UNCHANGED <<clock, phase, encrypted, instance, cookie, switchedAt>>

(* Manager.SaveToCookie and the hook's SetCookie; the cookie has the same    *)
(* MaxAge as its content.                                                   *)
SaveToCookie(r, g) ==
  /\ Finish(r, g)
  /\ cookie' = IF g = "handler" /\ hooked[r] THEN token[<<r, g>>] ELSE cookie
  /\ token' = [token EXCEPT ![<<r, g>>] = NoCookie]
  /\ UNCHANGED <<clock, phase, encrypted, instance, switchedAt>>

(* The steps that do not meet the store.                                     *)
OtherStep(r) ==
  /\ \/ Destroy(r) \/ GetAll(r) \/ Hook(r) \/ HookIsDone(r)
     \/ \E m \in Messages : Add(r, m) \/ Get(r, m)
     \/ \E g \in Goroutines : Change(r, g) \/ Snapshot(r, g)
  /\ UNCHANGED cookieVars

-----------------------------------------------------------------------------
(* The clock and the operator.  An instance ends its requests before it     *)
(* restarts.                                                                *)
Tick ==
  /\ clock < MaxClock
  /\ clock' = clock + 1
  /\ UNCHANGED <<vars, phase, encrypted, instance, token, cookie, switchedAt>>

Restarts(i) == \A r \in Requests : instance[r] = i => ~Open(r)

SetPhase(i, from, to) ==
  /\ Restarts(i) /\ phase[i] = from
  /\ phase' = [phase EXCEPT ![i] = to]
  /\ UNCHANGED <<vars, clock, instance, token, cookie>>

(* First every instance learns the new key, then every one signs with it,    *)
(* and the old key goes when nothing it has signed is alive.  An instance    *)
(* may get its EncryptionKey with the first of these restarts.               *)
Announce(i) ==
  /\ SetPhase(i, "old", "announced")
  /\ encrypted' \in {encrypted} \cup (IF i \in Reencrypts THEN {encrypted \cup {i}} ELSE {})
  /\ UNCHANGED switchedAt
Switch(i) ==
  /\ \A j \in Instances : phase[j] # "old"
  /\ SetPhase(i, "announced", "switched")
  /\ switchedAt' = clock
  /\ UNCHANGED encrypted
Retire(i) ==
  /\ \A j \in Instances : phase[j] \in {"switched", "retired"}
  /\ clock > switchedAt + MaxAge
  /\ SetPhase(i, "switched", "retired")
  /\ UNCHANGED <<encrypted, switchedAt>>

Operator(i) == Announce(i) \/ Switch(i) \/ Retire(i)

-----------------------------------------------------------------------------
(* The other stores have nothing to do with keys, time and instances.        *)
CookieNext ==
  IF store = "cookie"
    THEN \/ \E r \in Requests : CookieLoad(r) \/ OtherStep(r)
         \/ \E r \in Requests, g \in Goroutines : CookieSave(r, g) \/ SaveToCookie(r, g)
         \/ Tick \/ \E i \in Instances : Operator(i)
    ELSE Next /\ UNCHANGED cookieVars

CookieSpec == CookieInit /\ [][CookieNext]_<<vars, cookieVars>>

-----------------------------------------------------------------------------
(* Properties.                                                              *)

(* VerificationKeys are "additional keys for key rotation" (cookie_store.go  *)
(* lines 38-40): while the instances change their key one by one, a session  *)
(* is never lost before its time, whichever instance a request comes to, and *)
(* however the answers, saves and restarts fall.  EncryptionKey has nothing  *)
(* of the kind: a session ends where an instance has another one.            *)
RotationKeepsSession ==
  [][\A r \in Requests :
       (/\ pc[Handler(r)] = "start" /\ pc'[Handler(r)] = "open"
        /\ cookie # NoCookie /\ clock <= cookie.expires
        /\ cookie.encrypted = (instance[r] \in encrypted))
       => content'[r] = stored]_<<vars, cookieVars>>
=============================================================================
