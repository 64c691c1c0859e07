--------------------------- MODULE MCToolRegistry ---------------------------
EXTENDS ToolRegistry, TLC
Sym == Permutations(Publishers)
=============================================================================
