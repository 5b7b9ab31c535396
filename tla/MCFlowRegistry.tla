--------------------------- MODULE MCFlowRegistry ---------------------------
(* Instances of FlowRegistry for TLC.                                      *)
EXTENDS FlowRegistry, TLC

\* Flows, syncs and callers differ in name only.
Alike == Permutations(Flows) \cup Permutations(Syncs) \cup Permutations(Callers)
=============================================================================
