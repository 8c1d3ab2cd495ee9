----------------------------- MODULE MCAgentRun -----------------------------
(* AgentRun on small sets of commands. *)
EXTENDS AgentRun, TLC

\* Sound for the safety runs: no definition tells two queries or two cancels apart.
Commands == Permutations(Queries) \union Permutations(Cancels)
=============================================================================
