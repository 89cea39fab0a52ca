---------------------------- MODULE MCLifecycle ----------------------------
(* TLC's instances of Lifecycle. *)
EXTENDS Lifecycle

MCPolicies == {"always", "unless-stopped"}
WithNo == {"no", "always"}
=============================================================================
