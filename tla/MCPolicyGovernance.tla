------------------------- MODULE MCPolicyGovernance -------------------------
(* Values of PolicyGovernance's constants for TLC.                         *)
EXTENDS PolicyGovernance, TLC

CONSTANTS base, extra, odd

MCInitialChain == <<base>>
MCReplacementChains == {<<extra>>}
MCPairs == {<<extra, extra>>}
MCClashes == {{base, extra}}
Symmetry == Permutations(Proposals) \cup Permutations(Tasks)
=============================================================================
