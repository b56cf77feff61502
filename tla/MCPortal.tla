------------------------------ MODULE MCPortal ------------------------------
EXTENDS Portal, TLC
PortalSymmetry == Permutations(Mac) \cup Permutations(Ip)
=============================================================================
