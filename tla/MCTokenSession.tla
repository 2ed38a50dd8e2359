--------------------------- MODULE MCTokenSession ---------------------------
(* Instances of TokenSession for TLC.                                      *)
EXTENDS TokenSession, TLC

\* The goroutines are interchangeable: sound for the safety runs only.
CallerSymmetry == Permutations(Callers)
=============================================================================
