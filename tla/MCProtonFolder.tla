---------------------------- MODULE MCProtonFolder ----------------------------
(* Instances of ProtonFolder for TLC.                                       *)
EXTENDS ProtonFolder, TLC

SlugSymmetry == Permutations(Slugs)
=============================================================================
