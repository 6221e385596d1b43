--------------------------- MODULE MCSessionEvents ---------------------------
EXTENDS SessionEvents

\* A subscriber to everything, and one that hears only of exits.
MCFilters == {{"spawned", "layout", "title", "status", "exited", "joined", "left"}, {"exited"}}

MCSymmetry == Permutations(UIs)
=============================================================================
