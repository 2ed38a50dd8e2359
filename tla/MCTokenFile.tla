----------------------------- MODULE MCTokenFile -----------------------------
(* Instances of TokenFile for TLC.                                         *)
EXTENDS TokenFile

AnyDeployment == [inPlace : BOOLEAN, removes : BOOLEAN, bounded : BOOLEAN]

\* The friendliest writer, and the client NewClientFromTokenFile builds.
AtomicWriter == {[inPlace |-> FALSE, removes |-> FALSE, bounded |-> FALSE]}
=============================================================================
