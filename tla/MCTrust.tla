------------------------------ MODULE MCTrust -------------------------------
\* An instance of Trust: two hosts and a device that is switched off and on.
EXTENDS Trust, TLC

Symmetry == Permutations(Homes)
=============================================================================
