--------------------------- MODULE MCPolicyEngine ---------------------------
(* Values of PolicyEngine's constants for TLC.                             *)
EXTENDS PolicyEngine

CONSTANTS sync, slow

MCInitialChain == <<slow, sync>>
MCReplacementChains == {<<slow>>}
=============================================================================
