---------------------------- MODULE MCRemoteCall ----------------------------
(* Setups of RemoteCall for TLC: with and without a policy, for every entry *)
(* point and both HTTP clients.                                             *)
EXTENDS RemoteCall, TLC

NoPolicy(entry, client) ==
  [entry |-> entry, client |-> client, map |-> TRUE, retry |-> FALSE, causes |-> {},
   backoff |-> FALSE, watch |-> FALSE, guard |-> FALSE]

Policy(client, causes, backoff, watch) ==
  [entry |-> "opts", client |-> client, map |-> TRUE, retry |-> TRUE, causes |-> causes,
   backoff |-> backoff, watch |-> watch, guard |-> "timeout" \in causes]

CONSTANTS c1, c2

MCClients == {c1, c2}

MCSetups ==
  (c1 :> {Policy("package", {"timeout"}, FALSE, FALSE),
          Policy("supplied", {"status", "code"}, TRUE, TRUE),
          NoPolicy("basic", "package")}) @@
  (c2 :> {NoPolicy(entry, "package") : entry \in {"json", "call", "transmit", "soap"}})

MCMaxCalls == (c1 :> 1) @@ (c2 :> 2)
=============================================================================
