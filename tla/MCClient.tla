------------------------------ MODULE MCClient ------------------------------
EXTENDS Client

\* The bounds are not spent together: either no session frame comes, or no
\* connection ends, or one does and the client is not replaced.
MCInit ==
  /\ ClientInit
  /\ \/ lines = MaxLine
     \/ ends = MaxEnds
     \/ ends = MaxEnds - 1 /\ lives = MaxLives

MCSpec == MCInit /\ [][ClientNext]_clientVars /\ ClientFairness

=============================================================================
