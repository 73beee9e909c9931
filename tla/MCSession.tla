----------------------------- MODULE MCSession -----------------------------
EXTENDS Session, TLC

\* The clients differ in nothing but their name.
Symmetry == Permutations(Clients)

\* With no Pollers nothing depends on the events, nor on their histories; a
\* run whose properties do not speak of them need not tell them apart.
Silent == <<con, table, net, joined, program>>

=============================================================================
