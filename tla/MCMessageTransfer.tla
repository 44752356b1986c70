-------------------------- MODULE MCMessageTransfer --------------------------
EXTENDS MessageTransfer, TLC
CONSTANTS c1, c2
MCCallers == {c1, c2}
Symmetry == Permutations(MCCallers)
==============================================================================
