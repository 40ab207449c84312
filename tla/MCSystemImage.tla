-------------------------- MODULE MCSystemImage ----------------------------
(* Instances of SystemImage for TLC: any permutation of the builders gives *)
(* the same behaviours.                                                    *)
EXTENDS SystemImage, TLC

Symmetry == Permutations(Builders)
=============================================================================
