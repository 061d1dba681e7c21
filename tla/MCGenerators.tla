---------------------------- MODULE MCGenerators ----------------------------
(***************************************************************************)
(* Small instances of Generators: boxes and frames are interchangeable.    *)
(***************************************************************************)
EXTENDS Generators, TLC

Symmetry == Permutations(Cells) \cup Permutations(Gens)
=============================================================================
