---------------------------- MODULE MCAgentFilters ----------------------------
(***************************************************************************)
(* An instance of AgentFilters for TLC: two filters of the first version,   *)
(* two of the package, and a message two threads deliver.                   *)
(***************************************************************************)
EXTENDS AgentFilters, TLC

CONSTANTS d1, d2

Symmetry == Permutations(Agents) \cup Permutations({d1, d2})
===============================================================================
