-------------------------- MODULE MCSessionSwitch --------------------------
EXTENDS SessionSwitch, TLC
Symmetry == Permutations(Requests)
=============================================================================
