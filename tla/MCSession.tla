----------------------------- MODULE MCSession ------------------------------
(* The instance of Session and CookieStore for TLC: requests are            *)
(* interchangeable.  Only a server's store meets a second goroutine, so     *)
(* only there does it matter when the session is changed explicitly; the    *)
(* hook changes it in any case.                                             *)
EXTENDS CookieStore, TLC

SessionSymmetry == Permutations(Requests)

MCMaxRevision == [s \in Stores |-> CASE s = "server" -> 2
                                     [] s = "noop"   -> 1
                                     [] s = "cookie" -> 0]
=============================================================================
