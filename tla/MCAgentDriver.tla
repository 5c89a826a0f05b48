---------------------------- MODULE MCAgentDriver ----------------------------
(* Small instances of AgentDriver for TLC. *)
EXTENDS AgentDriver, TLC

\* Messages are interchangeable.
Symmetry == Permutations(Messages)
=============================================================================
