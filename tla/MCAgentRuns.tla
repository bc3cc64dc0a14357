---------------------------- MODULE MCAgentRuns ----------------------------
(* Instances of AgentRuns for TLC. *)
EXTENDS AgentRuns, TLC

Production == [deep |-> TRUE, queued |-> TRUE]

\* env=staging or production with a provider; agent_inline_local off; the
\* local adapter inline; a provider called inline in development.
AllDeployments == Deployment

OnlyProduction == {Production}

\* Run identifiers and keys are opaque, threads and workers interchangeable.
Symmetry == Permutations(Runs) \union Permutations(Keys)
            \union Permutations(Threads) \union Permutations(Workers)
=============================================================================
