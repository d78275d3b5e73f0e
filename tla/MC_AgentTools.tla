------------------------------ MODULE MC_AgentTools ------------------------------
(* Two agents and two tabs on one bridge; the runs differ in the tools the *)
(* agents use and in how many groups there may be.                         *)
EXTENDS AgentTools, TLC

Symmetry == Permutations(Agents) \cup Permutations(Targets)

GroupTools   == {"attach", "create", "page", "closeGroup"}
SessionTools == {"attach", "detach", "create", "newTab", "select", "closeTab", "page"}
===============================================================================
