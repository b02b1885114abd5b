-------------------------- MODULE MCDemandReporting --------------------------
(* Small instances of DemandReporting: two workloads, periods of a few     *)
(* ticks.                                                                  *)
EXTENDS DemandReporting, TLC

Symmetry == Permutations(Keys)
=============================================================================
