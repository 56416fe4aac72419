---------------------- MODULE MCGenerationPublication ----------------------
(***************************************************************************)
(* Properties of GenerationPublication and the small instances TLC checks. *)
(***************************************************************************)
EXTENDS GenerationPublication, GenerationProperties, TLC

Symmetry == Permutations(Gens) \cup Permutations(Readers)
=============================================================================
