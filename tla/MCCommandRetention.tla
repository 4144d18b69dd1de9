------------------------- MODULE MCCommandRetention -------------------------
EXTENDS CommandRetention, TLC

Symmetry == Permutations(Request) \cup Permutations(Command) \cup Permutations(Payload)

=============================================================================
