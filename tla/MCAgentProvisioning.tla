----------------------- MODULE MCAgentProvisioning -----------------------
\* Small instances of AgentProvisioning for TLC.
EXTENDS AgentProvisioning, TLC

\* Requests of one kind are interchangeable.
Symmetry == Permutations(Attempts) \cup Permutations(Deletions)
=============================================================================
