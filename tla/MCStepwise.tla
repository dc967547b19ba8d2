----------------------------- MODULE MCStepwise -----------------------------
(* Instance of Stepwise for TLC.                                             *)
EXTENDS Stepwise

CONSTANTS work, alice

MCNamespaceOf == [l \in Login |-> work]
MCPrincipalOf == [l \in Login |-> alice]
=============================================================================
