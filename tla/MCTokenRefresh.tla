--------------------------- MODULE MCTokenRefresh ---------------------------
\* Model values for TokenRefresh: processes and requests are interchangeable.
EXTENDS TokenRefresh, TLC

Symmetry == Permutations(Procs) \union Permutations(Requests)

=============================================================================
