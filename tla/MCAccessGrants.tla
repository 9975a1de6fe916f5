--------------------------- MODULE MCAccessGrants ---------------------------
\* Small instances of AccessGrants.
EXTENDS AccessGrants, TLC

\* rows, workers and users are interchangeable
Symmetry == Permutations(RowIds) \cup Permutations(Workers) \cup Permutations(Users)
=============================================================================
