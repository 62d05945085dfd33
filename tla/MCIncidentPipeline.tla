-------------------------- MODULE MCIncidentPipeline --------------------------
(* Instances of IncidentPipeline for TLC. *)
EXTENDS IncidentPipeline, TLC

Symmetry == Permutations(Ids) \cup Permutations(Handlers)
=============================================================================
