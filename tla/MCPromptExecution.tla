------------------------- MODULE MCPromptExecution --------------------------
EXTENDS PromptExecution, TLC

Symmetry == Permutations(Request) \cup Permutations(Command \ (Steer \cup ImagePrompt))

\* States that differ in nothing a later step or an invariant reads are one
\* state: the response sent last, the value of a stored outcome, what is
\* recorded of lifecycles that nothing refers to any more, and the order of the
\* calls to a child that will not answer them.
View ==
  LET live == messages \cup InChild \cup {work[r].run : r \in Request}
      child == IF sup = "mute" THEN <<sup, InChild, seen>> ELSE childVars
  IN  <<[c \in Command |-> IF entries[c] = None THEN <<>>
                           ELSE <<entries[c].hash, entries[c].outcome = None, entries[c].at>>],
        older, now, req, started, messages, active, work, cancel, child, closeVars,
        [n \in Run \cap live |-> run[n]], accepted \cap live, tagged \cap live>>

=============================================================================
