--------------------------- MODULE MCOrgTeardown ---------------------------
\* Small instances of OrgTeardown for TLC.
EXTENDS OrgTeardown, TLC

\* Requests are interchangeable.
Symmetry == Permutations(Requests)
=============================================================================
