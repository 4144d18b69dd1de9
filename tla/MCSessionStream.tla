-------------------------- MODULE MCSessionStream --------------------------
EXTENDS SessionStream, TLC

\* Entries are compared and copied, never ordered.
Symmetry == Permutations(Entry)
============================================================================
