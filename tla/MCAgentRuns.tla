---------------------------- MODULE MCAgentRuns -----------------------------
(* AgentRuns with two executions alive at most.                             *)
EXTENDS AgentRuns, TLC

CONSTANTS e1, e2

Symmetry == Permutations({e1, e2})

\* Bound: but for goals, which are small, a retry of the job counts as a trouble.
FewTroubles == kind # "goal" => job.retries + crashes + lapses + faults <= MaxTroubles
=============================================================================
