---------------------------- MODULE MC_Recovery ----------------------------
(* Model-checking instance of Recovery. *)
EXTENDS Recovery, TLC
CONSTANTS v1, v2
\* VolumeAttachments are interchangeable names.
Sym == Permutations({v1, v2})
=============================================================================
