--------------------------- MODULE MCValidateCache ---------------------------
EXTENDS ValidateCache, TLC

CONSTANTS a1, a2, s1, s2, v1, c1, c2, u1

\* Both tokens belong to s1, as the access tokens before and after a refresh
\* do; s2 has none.
Sessions == (a1 :> s1) @@ (a2 :> s1)
Ttls == (a1 :> 3) @@ (a2 :> 1)
OneUser == [s \in {s1, s2} |-> u1]

Symmetry == Permutations(Revoker)
=============================================================================
