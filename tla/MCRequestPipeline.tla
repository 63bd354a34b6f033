------------------------- MODULE MCRequestPipeline -------------------------
(* The instance of RequestPipeline for TLC: every configuration of the      *)
(* adapters, sessions and error handlers, each with an endpoint that has no *)
(* hooks, the persister and finalizer, or all of them.                      *)
EXTENDS RequestPipeline

AllSetups == {s \in SetupType : s.Hooks \in {{}, {"insert", "finalizer"}, HookNames}}
=============================================================================
