--------------------------- MODULE MCAuthCredential ---------------------------
EXTENDS AuthCredential, TLC

CONSTANTS c1, c2, c3, s1, s2, u1

OneUser == [s \in Session |-> u1]

Symmetry == Permutations(Client) \cup Permutations(Revoker)
=============================================================================
