---------------------------- MODULE MCPolicyEngine ----------------------------
(* PolicyEngine alone for TLC.                                                 *)
EXTENDS PolicyEngine, MCPolicies
=============================================================================
