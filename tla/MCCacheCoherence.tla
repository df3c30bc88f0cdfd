-------------------------- MODULE MCCacheCoherence --------------------------
(* LiveEvents with interchangeable readers.                                  *)
EXTENDS LiveEvents, TLC

Symmetry == Permutations(Readers \ Streams)
=============================================================================
