-------------------------- MODULE TokenCacheProofs --------------------------
(***************************************************************************)
(* Proofs about TokenCache, for any set of callers and any number of       *)
(* grants: one live token, and no stale token in a header.                 *)
(***************************************************************************)
EXTENDS TokenCache, TLAPS

-----------------------------------------------------------------------------
(* The inductive invariant, in parts.                                       *)

(* Whoever is in handleToken beyond Lock holds the mutex.                   *)
LockInv == \A c \in Callers : pc[c] \in Locked => lock = c

(* The only token alive is in the cache, and while a caller exchanges a     *)
(* token with the server, or is about to, none is.                          *)
LiveInv ==
  /\ 1 .. granted \subseteq expired \cup {access}
  /\ \A c \in Callers :
       pc[c] \in {"refresh", "clear", "login"} => 1 .. granted \subseteq expired

(* What GetAuthHeader knows: nothing is in the header before its end, and   *)
(* from the expiry check on the cache has no token that had expired before, *)
(* although the pointer may be replaced between any two of its reads.       *)
HeaderInv ==
  \A c \in Callers :
    /\ known[c] \subseteq expired
    /\ pc[c] # "sent" => header[c] = none
    /\ pc[c] \in {"type", "token"} => access \notin known[c]
    /\ header[c] \notin known[c]

IInv == TypeOK /\ LockInv /\ LiveInv /\ HeaderInv

-----------------------------------------------------------------------------
(* Types.                                                                   *)

LEMMA TypeInit == Init => TypeOK
<1> SUFFICES ASSUME Init PROVE TypeOK
  OBVIOUS
<1>1. granted \in 0 .. MaxGrants /\ expired \subseteq 1 .. granted
  BY GrantAssumption DEF Init
<1>2. header \in [Callers -> Tokens \cup {none}] /\ known \in [Callers -> SUBSET Tokens]
  BY DEF Init
<1>3. QED
  BY <1>1, <1>2 DEF Init, TypeOK

(* A grant makes the next token and puts it into the cache.                 *)
LEMMA GrantFacts ==
  ASSUME TypeOK, Grant
  PROVE  /\ granted' = granted + 1
         /\ granted' \in 0 .. MaxGrants
         /\ access' \in Tokens
         /\ access' \notin 1 .. granted
         /\ 1 .. granted' = 1 .. granted \cup {access'}
<1>1. granted \in Nat /\ MaxGrants \in Nat
  BY GrantAssumption DEF TypeOK
<1>2. QED
  BY <1>1 DEF Grant, Tokens, TypeOK

(* Every step keeps the types.                                             *)
LEMMA TypeStep == TypeOK /\ [Next]_vars => TypeOK'
<1> SUFFICES ASSUME TypeOK, [Next]_vars PROVE TypeOK'
  OBVIOUS
<1> USE GrantAssumption DEF cache, TypeOK, Locked, Exchanging, Reading, Ended
<1>1. ASSUME NEW c \in Callers, Check(c) PROVE TypeOK'
  BY <1>1 DEF Check, Go
<1>2. ASSUME NEW c \in Callers, Lock(c) PROVE TypeOK'
  BY <1>2 DEF Lock, Go
<1>3. ASSUME NEW c \in Callers, Recheck(c) PROVE TypeOK'
  BY <1>3 DEF Recheck, Go
<1>4. ASSUME NEW c \in Callers, Refreshed(c) PROVE TypeOK'
  <2>1. granted' \in 0 .. MaxGrants /\ access' \in Tokens /\ 1 .. granted \subseteq 1 .. granted'
    BY <1>4, GrantFacts DEF Refreshed
  <2>2. QED
    BY <2>1, <1>4 DEF Refreshed, Go
<1>5. ASSUME NEW c \in Callers, RefreshFails(c) PROVE TypeOK'
  BY <1>5 DEF RefreshFails, Go
<1>6. ASSUME NEW c \in Callers, LoggedIn(c) PROVE TypeOK'
  <2>1. granted' \in 0 .. MaxGrants /\ access' \in Tokens /\ 1 .. granted \subseteq 1 .. granted'
    BY <1>6, GrantFacts DEF LoggedIn
  <2>2. QED
    BY <2>1, <1>6 DEF LoggedIn, Go
<1>7. ASSUME NEW c \in Callers, LoginFails(c) PROVE TypeOK'
  BY <1>7 DEF LoginFails, Go
<1>8. ASSUME NEW c \in Callers, Clear(c) PROVE TypeOK'
  BY <1>8 DEF Clear, Go
<1>9. ASSUME NEW c \in Callers, Unlock(c) PROVE TypeOK'
  BY <1>9 DEF Unlock, Go
<1>10. ASSUME NEW c \in Callers, Begin(c) PROVE TypeOK'
  <2>1. expired \subseteq Tokens
    BY DEF Tokens
  <2>2. QED
    BY <2>1, <1>10 DEF Begin, Go
<1>11. ASSUME NEW c \in Callers, NilCheck(c) PROVE TypeOK'
  BY <1>11 DEF NilCheck, Go
<1>12. ASSUME NEW c \in Callers, Deref(c, "lenCheck", "expiryCheck") PROVE TypeOK'
  BY <1>12 DEF Deref, Go
<1>13. ASSUME NEW c \in Callers, ExpiryCheck(c) PROVE TypeOK'
  BY <1>13 DEF ExpiryCheck, Go
<1>14. ASSUME NEW c \in Callers, Deref(c, "type", "token") PROVE TypeOK'
  BY <1>14 DEF Deref, Go
<1>15. ASSUME NEW c \in Callers, ReadToken(c) PROVE TypeOK'
  BY <1>15 DEF ReadToken, Go
<1>16. ASSUME NEW t \in Tokens, Expire(t) PROVE TypeOK'
  <2>1. expired' \subseteq 1 .. granted
    BY <1>16 DEF Expire
  <2>2. QED
    BY <2>1, <1>16 DEF Expire
<1>17. CASE UNCHANGED vars
  BY <1>17 DEF vars
<1>18. QED
  BY <1>1, <1>2, <1>3, <1>4, <1>5, <1>6, <1>7, <1>8, <1>9,
     <1>10, <1>11, <1>12, <1>13, <1>14, <1>15, <1>16, <1>17
  DEF Next, HandleToken, GetAuthHeader, Answer

(* Types, for every instance: TokenCache keeps its variables in their types.*)
THEOREM TypeCorrect == Spec => []TypeOK
<1>1. QED
  BY TypeInit, TypeStep, PTL DEF Spec

-----------------------------------------------------------------------------
(* The lock and the tokens alive.                                           *)

(* Nobody enters handleToken's critical section while another is in it.    *)
LEMMA LockStep == TypeOK /\ LockInv /\ [Next]_vars => LockInv'
<1> SUFFICES ASSUME TypeOK, LockInv, [Next]_vars PROVE LockInv'
  OBVIOUS
<1> USE CallerAssumption DEF cache, TypeOK, LockInv, Locked, Exchanging, Reading, Ended
<1>1. ASSUME NEW c \in Callers, Check(c) PROVE LockInv'
  BY <1>1 DEF Check, Go
<1>2. ASSUME NEW c \in Callers, Lock(c) PROVE LockInv'
  BY <1>2 DEF Lock, Go
<1>3. ASSUME NEW c \in Callers, Recheck(c) PROVE LockInv'
  BY <1>3 DEF Recheck, Go
<1>4. ASSUME NEW c \in Callers, Refreshed(c) PROVE LockInv'
  BY <1>4 DEF Refreshed, Grant, Go
<1>5. ASSUME NEW c \in Callers, RefreshFails(c) PROVE LockInv'
  BY <1>5 DEF RefreshFails, Go
<1>6. ASSUME NEW c \in Callers, LoggedIn(c) PROVE LockInv'
  BY <1>6 DEF LoggedIn, Grant, Go
<1>7. ASSUME NEW c \in Callers, LoginFails(c) PROVE LockInv'
  BY <1>7 DEF LoginFails, Go
<1>8. ASSUME NEW c \in Callers, Clear(c) PROVE LockInv'
  BY <1>8 DEF Clear, Go
<1>9. ASSUME NEW c \in Callers, Unlock(c) PROVE LockInv'
  BY <1>9 DEF Unlock, Go
<1>10. ASSUME NEW c \in Callers, Begin(c) PROVE LockInv'
  BY <1>10 DEF Begin, Go
<1>11. ASSUME NEW c \in Callers, NilCheck(c) PROVE LockInv'
  BY <1>11 DEF NilCheck, Go
<1>12. ASSUME NEW c \in Callers, Deref(c, "lenCheck", "expiryCheck") PROVE LockInv'
  BY <1>12 DEF Deref, Go
<1>13. ASSUME NEW c \in Callers, ExpiryCheck(c) PROVE LockInv'
  BY <1>13 DEF ExpiryCheck, Go
<1>14. ASSUME NEW c \in Callers, Deref(c, "type", "token") PROVE LockInv'
  BY <1>14 DEF Deref, Go
<1>15. ASSUME NEW c \in Callers, ReadToken(c) PROVE LockInv'
  BY <1>15 DEF ReadToken, Go
<1>16. ASSUME NEW t \in Tokens, Expire(t) PROVE LockInv'
  BY <1>16 DEF Expire
<1>17. CASE UNCHANGED vars
  BY <1>17 DEF vars
<1>18. QED
  BY <1>1, <1>2, <1>3, <1>4, <1>5, <1>6, <1>7, <1>8, <1>9,
     <1>10, <1>11, <1>12, <1>13, <1>14, <1>15, <1>16, <1>17
  DEF Next, HandleToken, GetAuthHeader, Answer

(* A token is asked for only when none is alive, and no other caller is    *)
(* asking meanwhile.                                                       *)
LEMMA LiveStep == TypeOK /\ LockInv /\ LiveInv /\ [Next]_vars => LiveInv'
<1> SUFFICES ASSUME TypeOK, LockInv, LiveInv, [Next]_vars PROVE LiveInv'
  OBVIOUS
<1> USE GrantAssumption DEF cache, LiveInv
<1>1. ASSUME NEW c \in Callers, Check(c) PROVE LiveInv'
  BY <1>1 DEF Check, Go, TypeOK, Usable
<1>2. ASSUME NEW c \in Callers, Lock(c) PROVE LiveInv'
  BY <1>2 DEF Lock, Go, TypeOK
<1>3. ASSUME NEW c \in Callers, Recheck(c) PROVE LiveInv'
  BY <1>3 DEF Recheck, Go, TypeOK, Usable
<1>4. ASSUME NEW c \in Callers, Refreshed(c) PROVE LiveInv'
  <2>1. \A d \in Callers : pc'[d] \notin {"refresh", "clear", "login"}
    BY <1>4 DEF Refreshed, Go, LockInv, Locked, Exchanging, TypeOK
  <2>2. 1 .. granted \subseteq expired /\ expired' = expired
    BY <1>4 DEF Refreshed, Go
  <2>3. 1 .. granted' = 1 .. granted \cup {access'}
    BY <1>4, GrantFacts DEF Refreshed
  <2>4. QED
    BY <2>1, <2>2, <2>3
<1>5. ASSUME NEW c \in Callers, RefreshFails(c) PROVE LiveInv'
  BY <1>5 DEF RefreshFails, Go, TypeOK
<1>6. ASSUME NEW c \in Callers, LoggedIn(c) PROVE LiveInv'
  <2>1. \A d \in Callers : pc'[d] \notin {"refresh", "clear", "login"}
    BY <1>6 DEF LoggedIn, Go, LockInv, Locked, Exchanging, TypeOK
  <2>2. 1 .. granted \subseteq expired /\ expired' = expired
    BY <1>6 DEF LoggedIn, Go
  <2>3. 1 .. granted' = 1 .. granted \cup {access'}
    BY <1>6, GrantFacts DEF LoggedIn
  <2>4. QED
    BY <2>1, <2>2, <2>3
<1>7. ASSUME NEW c \in Callers, LoginFails(c) PROVE LiveInv'
  BY <1>7 DEF LoginFails, Go, TypeOK
<1>8. ASSUME NEW c \in Callers, Clear(c) PROVE LiveInv'
  BY <1>8 DEF Clear, Go, TypeOK
<1>9. ASSUME NEW c \in Callers, Unlock(c) PROVE LiveInv'
  BY <1>9 DEF Unlock, Go, TypeOK
<1>10. ASSUME NEW c \in Callers, Begin(c) PROVE LiveInv'
  BY <1>10 DEF Begin, Go, TypeOK
<1>11. ASSUME NEW c \in Callers, NilCheck(c) PROVE LiveInv'
  BY <1>11 DEF NilCheck, Go, TypeOK
<1>12. ASSUME NEW c \in Callers, Deref(c, "lenCheck", "expiryCheck") PROVE LiveInv'
  BY <1>12 DEF Deref, Go, TypeOK
<1>13. ASSUME NEW c \in Callers, ExpiryCheck(c) PROVE LiveInv'
  BY <1>13 DEF ExpiryCheck, Go, TypeOK, Usable
<1>14. ASSUME NEW c \in Callers, Deref(c, "type", "token") PROVE LiveInv'
  BY <1>14 DEF Deref, Go, TypeOK
<1>15. ASSUME NEW c \in Callers, ReadToken(c) PROVE LiveInv'
  BY <1>15 DEF ReadToken, Go, TypeOK
<1>16. ASSUME NEW t \in Tokens, Expire(t) PROVE LiveInv'
  BY <1>16 DEF Expire
<1>17. CASE UNCHANGED vars
  BY <1>17 DEF vars
<1>18. QED
  BY <1>1, <1>2, <1>3, <1>4, <1>5, <1>6, <1>7, <1>8, <1>9,
     <1>10, <1>11, <1>12, <1>13, <1>14, <1>15, <1>16, <1>17
  DEF Next, HandleToken, GetAuthHeader, Answer

-----------------------------------------------------------------------------
(* GetAuthHeader.                                                           *)

(* A token put into the cache after the expiry check is a new one, or the  *)
(* pointer is nil.                                                         *)
LEMMA HeaderStep == TypeOK /\ HeaderInv /\ [Next]_vars => HeaderInv'
<1> SUFFICES ASSUME TypeOK, HeaderInv, [Next]_vars PROVE HeaderInv'
  OBVIOUS
<1> USE GrantAssumption DEF cache, TypeOK, HeaderInv, FreshHeader, Tokens
<1>1. ASSUME NEW c \in Callers, Check(c) PROVE HeaderInv'
  BY <1>1 DEF Check, Go
<1>2. ASSUME NEW c \in Callers, Lock(c) PROVE HeaderInv'
  BY <1>2 DEF Lock, Go
<1>3. ASSUME NEW c \in Callers, Recheck(c) PROVE HeaderInv'
  BY <1>3 DEF Recheck, Go
<1>4. ASSUME NEW c \in Callers, Refreshed(c) PROVE HeaderInv'
  <2>1. access' \notin 1 .. granted /\ expired \subseteq 1 .. granted /\ expired' = expired
    BY <1>4, GrantFacts DEF Refreshed
  <2>2. pc'[c] = "unlock" /\ \A d \in Callers : d # c => pc'[d] = pc[d]
    BY <1>4 DEF Refreshed, Go
  <2>3. header' = header /\ known' = known
    BY <1>4 DEF Refreshed
  <2>4. QED
    BY <2>1, <2>2, <2>3, <1>4 DEF Refreshed, Go
<1>5. ASSUME NEW c \in Callers, RefreshFails(c) PROVE HeaderInv'
  BY <1>5 DEF RefreshFails, Go
<1>6. ASSUME NEW c \in Callers, LoggedIn(c) PROVE HeaderInv'
  <2>1. access' \notin 1 .. granted /\ expired \subseteq 1 .. granted /\ expired' = expired
    BY <1>6, GrantFacts DEF LoggedIn
  <2>2. pc'[c] = "unlock" /\ \A d \in Callers : d # c => pc'[d] = pc[d]
    BY <1>6 DEF LoggedIn, Go
  <2>3. header' = header /\ known' = known
    BY <1>6 DEF LoggedIn
  <2>4. QED
    BY <2>1, <2>2, <2>3, <1>6 DEF LoggedIn, Go
<1>7. ASSUME NEW c \in Callers, LoginFails(c) PROVE HeaderInv'
  BY <1>7 DEF LoginFails, Go
<1>8. ASSUME NEW c \in Callers, Clear(c) PROVE HeaderInv'
  BY <1>8 DEF Clear, Go
<1>9. ASSUME NEW c \in Callers, Unlock(c) PROVE HeaderInv'
  BY <1>9 DEF Unlock, Go
<1>10. ASSUME NEW c \in Callers, Begin(c) PROVE HeaderInv'
  <2>1. expired \subseteq Tokens /\ none \notin Tokens
    OBVIOUS
  <2>2. pc[c] = "begin" /\ header' = header /\ access' = access /\ expired' = expired
    BY <1>10 DEF Begin, Go
  <2>3. known' = [known EXCEPT ![c] = expired] /\ pc' = [pc EXCEPT ![c] = "nilCheck"]
    BY <1>10 DEF Begin, Go
  <2>4. QED
    BY <2>1, <2>2, <2>3
<1>11. ASSUME NEW c \in Callers, NilCheck(c) PROVE HeaderInv'
  BY <1>11 DEF NilCheck, Go
<1>12. ASSUME NEW c \in Callers, Deref(c, "lenCheck", "expiryCheck") PROVE HeaderInv'
  BY <1>12 DEF Deref, Go
<1>13. ASSUME NEW c \in Callers, ExpiryCheck(c) PROVE HeaderInv'
  BY <1>13 DEF ExpiryCheck, Go, Usable
<1>14. ASSUME NEW c \in Callers, Deref(c, "type", "token") PROVE HeaderInv'
  BY <1>14 DEF Deref, Go
<1>15. ASSUME NEW c \in Callers, ReadToken(c) PROVE HeaderInv'
  BY <1>15 DEF ReadToken, Go
<1>16. ASSUME NEW t \in Tokens, Expire(t) PROVE HeaderInv'
  BY <1>16 DEF Expire
<1>17. CASE UNCHANGED vars
  BY <1>17 DEF vars
<1>18. QED
  BY <1>1, <1>2, <1>3, <1>4, <1>5, <1>6, <1>7, <1>8, <1>9,
     <1>10, <1>11, <1>12, <1>13, <1>14, <1>15, <1>16, <1>17
  DEF Next, HandleToken, GetAuthHeader, Answer

-----------------------------------------------------------------------------
(* The invariant and what follows from it.                                  *)

LEMMA IInvInit == Init => IInv
<1> SUFFICES ASSUME Init PROVE IInv
  OBVIOUS
<1>1. TypeOK
  BY TypeInit
<1>2. LockInv
  BY DEF Init, LockInv, Locked, Exchanging
<1>3. LiveInv
  BY DEF Init, LiveInv
<1>4. HeaderInv
  BY DEF Init, HeaderInv, FreshHeader
<1>5. QED
  BY <1>1, <1>2, <1>3, <1>4 DEF IInv

LEMMA IInvStep == IInv /\ [Next]_vars => IInv'
<1>1. QED
  BY TypeStep, LockStep, LiveStep, HeaderStep DEF IInv

(* The inductive invariant holds of every behaviour of the token cache.     *)
THEOREM Invariance == Spec => []IInv
<1>1. QED
  BY IInvInit, IInvStep, PTL DEF Spec

(* Callers that find the token gone at the same time make the server grant  *)
(* one token, not one each (handleToken, auth.go), for any number of them.  *)
THEOREM OneLoginAtATime == Spec => []OneLiveToken
<1>1. IInv => OneLiveToken
  BY DEF IInv, LiveInv, OneLiveToken
<1>2. QED
  BY Invariance, <1>1, PTL

(* The unlocked reads of GetAuthHeader (auth.go) never yield a token that   *)
(* had expired before it was called, for any number of callers and tokens.  *)
THEOREM HeadersFresh == Spec => []FreshHeader
<1>1. IInv => FreshHeader
  BY DEF IInv, HeaderInv, FreshHeader
<1>2. QED
  BY Invariance, <1>1, PTL
=============================================================================
