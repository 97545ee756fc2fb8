----------------------------- MODULE MCCatalog -----------------------------
EXTENDS Catalog, TLC

CONSTANTS p1, p2

\* Both transcripts are in one project: the case where a diff may touch a
\* project without listing it, and a project outlives one transcript.
OneProject == [t \in Transcripts |-> p1]

\* Each is in its own: the case where a diff mentions two projects.
TwoProjects == CHOOSE f \in [Transcripts -> {p1, p2}] :
                 \A t, u \in Transcripts : t # u => f[t] # f[u]

\* Sound with OneProject only.
ConnSymmetry == Permutations(Conns) \cup Permutations(Transcripts)
=============================================================================
