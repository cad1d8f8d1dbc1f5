------------------------------ MODULE MCPolicies ------------------------------
(* Policies and questions for TLC: a policy by role, and one by user without      *)
(* models.                                                                     *)

MCPolicySpec ==
    { [roles |-> {"eng"}, users |-> {}, providers |-> {"openai"}, models |-> {"gpt-4"}],
      [roles |-> {}, users |-> {"u1"}, providers |-> {"openai"}, models |-> {}] }

\* A user without roles and one with the role, asking for a model a policy names and for
\* one it does not.
MCAsk ==
    {[user |-> u, roles |-> IF u = "u1" THEN {} ELSE {"eng"}, provider |-> "openai",
      model |-> m] : u \in {"u1", "u2"}, m \in {"gpt-4", "gpt-3"}}
=============================================================================
