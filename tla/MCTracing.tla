------------------------------ MODULE MCTracing ------------------------------
(* Every adapter and tracing middleware, with and without EnableTracing, an  *)
(* audit trail, a User-Id header and a trailing function, and four orders of *)
(* application middleware; a RecoveryHandler where nobody but the header     *)
(* speaks of the user; tracing is initialised at most twice.                 *)
EXTENDS Tracing

MCApps == {<<>>, <<"auth">>, <<"auth", "logs">>, <<"logs", "reader">>}

AllConfs == [adapter : Adapters, tracing : {"none", "custom", "official"}, enable : BOOLEAN,
             audit : BOOLEAN, recovery : BOOLEAN, header : BOOLEAN, app : MCApps, trailing : BOOLEAN]

MCConfs == {c \in AllConfs : c.recovery => c.header /\ ~c.audit /\ c.app = <<>>}
=============================================================================
