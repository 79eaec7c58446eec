------------------------------- MODULE MCHmap -------------------------------
(* What is interchangeable in the run of Hmap.                              *)
EXTENDS Hmap, TLC

Interchangeable == Permutations(Hashes)
=============================================================================
