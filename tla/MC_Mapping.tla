----------------------------- MODULE MC_Mapping -----------------------------
(* Model values for the mappings of Mapping.                               *)
EXTENDS Mapping

CONSTANTS m1, m2

MCMappings == {m1, m2}
=============================================================================
