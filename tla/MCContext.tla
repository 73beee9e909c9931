------------------------------ MODULE MCContext ------------------------------
EXTENDS Context, TLC

\* The peers differ in nothing but their address.
Symmetry == Permutations(Peers)

=============================================================================
