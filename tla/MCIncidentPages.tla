----------------------------- MODULE MCIncidentPages -----------------------------
(* Instances of IncidentPages for TLC. *)
EXTENDS IncidentPages, TLC

Symmetry == Permutations(Readers)
=============================================================================
