----------------------------- MODULE MCHostAgent -----------------------------
(***************************************************************************)
(* Instances of HostAgent for TLC.  Agents are interchangeable.            *)
(***************************************************************************)
EXTENDS HostAgent, TLC

Symmetry == Permutations(Agents)
=============================================================================
