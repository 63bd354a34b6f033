----------------------------- MODULE TokenCache -----------------------------
(***************************************************************************)
(* The OAuth2 token cache one RemoteAPI shares among its callers           *)
(* (libCallApi/auth.go, auth_headers.go).                                  *)
(*                                                                         *)
(* A caller is one goroutine in EnsureAuthorization: Authenticate, which   *)
(* looks at the cache without the lock and takes it to refresh the token   *)
(* or log in, then GetAuthHeader, which takes no lock at all and loads the *)
(* pointer AccessToken anew for each of its expressions.                   *)
(*                                                                         *)
(* Access tokens are numbered as the authorization server grants them.     *)
(* A granted token may expire at any time: oauth2TokenToCache takes 30     *)
(* seconds off its life and never less than none.                          *)
(***************************************************************************)
EXTENDS Naturals, FiniteSets

CONSTANTS
  Callers,    (* The goroutines that call the API, once each.              *)
  MaxGrants,  (* Bound: how often the server grants a token.               *)
  none        (* A nil pointer, an unlocked mutex, no header.              *)

ASSUME CallerAssumption == none \notin Callers
ASSUME GrantAssumption  == MaxGrants \in Nat /\ none \notin 1 .. MaxGrants

VARIABLES
  access,     (* TokenCache.AccessToken.                                   *)
  refresh,    (* Whether TokenCache.RefreshToken is there.                 *)
  lock,       (* Who holds TokenCacheLock.                                 *)
  pc,         (* Where each caller is in EnsureAuthorization.              *)
  header,     (* The token in the Authorization header of each caller.     *)
  granted,    (* History: the number of tokens granted.                    *)
  expired,    (* The granted tokens that have expired.                     *)
  known       (* History: those that had when the caller's GetAuthHeader   *)
              (* began.                                                    *)

cache == <<access, refresh>>
vars  == <<cache, lock, pc, header, granted, expired, known>>

Tokens    == 1 .. MaxGrants
Reading   == {"nilCheck", "lenCheck", "expiryCheck", "type", "token"}
Exchanging == {"refresh", "login"}
Locked    == {"recheck", "clear", "unlock", "fail"} \cup Exchanging
Ended     == {"sent", "error", "panicked"}

(* TokenCache.Expired works on a copy of the cache.                         *)
Usable == access # none /\ access \notin expired

-----------------------------------------------------------------------------
Init ==
  /\ access = none
  /\ refresh = FALSE
  /\ lock = none
  /\ pc = [c \in Callers |-> "check"]
  /\ header = [c \in Callers |-> none]
  /\ granted = 0
  /\ expired = {}
  /\ known = [c \in Callers |-> {}]

Expire(t) ==
  /\ t \in 1 .. granted
  /\ t \notin expired
  /\ expired' = expired \cup {t}
  /\ UNCHANGED <<cache, lock, pc, header, granted, known>>

Go(c, from, to) ==
  /\ pc[c] = from
  /\ pc' = [pc EXCEPT ![c] = to]

(* Authenticate: the look at the cache without the lock.                    *)
Check(c) ==
  /\ Go(c, "check", IF Usable THEN "begin" ELSE "lock")
  /\ UNCHANGED <<cache, lock, header, granted, expired, known>>

-----------------------------------------------------------------------------
(* handleToken.                                                             *)
Lock(c) ==
  /\ lock = none
  /\ Go(c, "lock", "recheck")
  /\ lock' = c
  /\ UNCHANGED <<cache, header, granted, expired, known>>

(* Faulty: the cache is not looked at again.                                *)
RecheckNothing(c) ==
  /\ Go(c, "recheck", IF refresh THEN "refresh" ELSE "clear")
  /\ UNCHANGED <<cache, lock, header, granted, expired, known>>

Recheck(c) ==
  /\ Go(c, "recheck", IF Usable THEN "unlock" ELSE IF refresh THEN "refresh" ELSE "clear")
  /\ UNCHANGED <<cache, lock, header, granted, expired, known>>

(* The server grants a token, with a refresh token or without one.          *)
Grant ==
  /\ granted < MaxGrants
  /\ granted' = granted + 1
  /\ access' = granted'

(* Refresh keeps the refresh token unless it gets a new one.                *)
Refreshed(c) ==
  /\ Go(c, "refresh", "unlock")
  /\ Grant
  /\ UNCHANGED <<refresh, lock, header, expired, known>>

RefreshFails(c) ==
  /\ Go(c, "refresh", "clear")
  /\ UNCHANGED <<cache, lock, header, granted, expired, known>>

Clear(c) ==
  /\ Go(c, "clear", "login")
  /\ access' = none
  /\ refresh' = FALSE
  /\ UNCHANGED <<lock, header, granted, expired, known>>

LoggedIn(c) ==
  /\ Go(c, "login", "unlock")
  /\ Grant
  /\ refresh' \in BOOLEAN
  /\ UNCHANGED <<lock, header, expired, known>>

LoginFails(c) ==
  /\ Go(c, "login", "fail")
  /\ UNCHANGED <<cache, lock, header, granted, expired, known>>

(* Faulty: an error returns without releasing the mutex.                    *)
UnlockOnSuccess(c) ==
  \/ /\ Go(c, "unlock", "begin")
     /\ lock' = none
     /\ UNCHANGED <<cache, header, granted, expired, known>>
  \/ /\ Go(c, "fail", "error")
     /\ UNCHANGED <<cache, lock, header, granted, expired, known>>

(* The deferred Unlock; Authenticate returns nil or the error of Login.     *)
Unlock(c) ==
  /\ Go(c, "unlock", "begin") \/ Go(c, "fail", "error")
  /\ lock' = none
  /\ UNCHANGED <<cache, header, granted, expired, known>>

-----------------------------------------------------------------------------
(* GetAuthHeader.                                                           *)
Begin(c) ==
  /\ Go(c, "begin", "nilCheck")
  /\ known' = [known EXCEPT ![c] = expired]
  /\ UNCHANGED <<cache, lock, header, granted, expired>>

NilCheck(c) ==
  /\ Go(c, "nilCheck", IF access = none THEN "error" ELSE "lenCheck")
  /\ UNCHANGED <<cache, lock, header, granted, expired, known>>

(* Two expressions that dereference AccessToken and look no further.        *)
Deref(c, from, to) ==
  /\ Go(c, from, IF access = none THEN "panicked" ELSE to)
  /\ UNCHANGED <<cache, lock, header, granted, expired, known>>

(* Faulty: Expired is not asked.                                            *)
ExpiryUnchecked(c) ==
  /\ Go(c, "expiryCheck", "type")
  /\ UNCHANGED <<cache, lock, header, granted, expired, known>>

ExpiryCheck(c) ==
  /\ Go(c, "expiryCheck", IF Usable THEN "type" ELSE "error")
  /\ UNCHANGED <<cache, lock, header, granted, expired, known>>

ReadToken(c) ==
  /\ Go(c, "token", IF access = none THEN "panicked" ELSE "sent")
  /\ header' = [header EXCEPT ![c] = access]
  /\ UNCHANGED <<cache, lock, granted, expired, known>>

GetAuthHeader(c) ==
  \/ Begin(c) \/ NilCheck(c) \/ Deref(c, "lenCheck", "expiryCheck")
  \/ ExpiryCheck(c) \/ Deref(c, "type", "token") \/ ReadToken(c)

Answer(c) == Refreshed(c) \/ RefreshFails(c) \/ LoggedIn(c) \/ LoginFails(c)

HandleToken(c) == Recheck(c) \/ Answer(c) \/ Clear(c) \/ Unlock(c)

Next ==
  \/ \E c \in Callers : Check(c) \/ Lock(c) \/ HandleToken(c) \/ GetAuthHeader(c)
  \/ \E t \in Tokens : Expire(t)

Spec == Init /\ [][Next]_vars

(* The goroutines are scheduled, the token client has a timeout, so that    *)
(* the server's answer or an error comes, and a mutex starves no one.       *)
FairSpec ==
  /\ Spec
  /\ \A c \in Callers :
       WF_vars(Check(c) \/ HandleToken(c) \/ GetAuthHeader(c)) /\ SF_vars(Lock(c))

-----------------------------------------------------------------------------
(* Properties.                                                              *)

(* Types of the variables.                                                  *)
TypeOK ==
  /\ access \in Tokens \cup {none}
  /\ refresh \in BOOLEAN
  /\ lock \in Callers \cup {none}
  /\ pc \in [Callers -> {"check", "lock", "begin"} \cup Locked \cup Reading \cup Ended]
  /\ header \in [Callers -> Tokens \cup {none}]
  /\ granted \in 0 .. MaxGrants
  /\ expired \subseteq 1 .. granted
  /\ known \in [Callers -> SUBSET Tokens]

(* Callers that find the token missing or expired at the same time ask the  *)
(* server once: a token is only asked for when the last one has expired, so *)
(* at most one granted token is alive, and it is the one in the cache       *)
(* (TestAuthenticate_ConcurrentLoginOnce, auth_test.go:103).                *)
OneLiveToken == (1 .. granted) \ expired \subseteq {access}

(* The unlocked reads of GetAuthHeader never put a token into a header that *)
(* had expired before GetAuthHeader was called, whichever of several tokens *)
(* each of its reads saw.                                                   *)
FreshHeader == \A c \in Callers : header[c] \notin known[c]

(* Every caller is answered, though the lock is held over calls to the      *)
(* server: with a header, an error, or a panic.                             *)
CallersReturn == \A c \in Callers : <>(pc[c] \in Ended)
=============================================================================
