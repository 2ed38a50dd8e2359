------------------------ MODULE MCCredentialStorage ------------------------
(* Instances of CredentialStorage for TLC.                                 *)
EXTENDS CredentialStorage, TLC

\* No account and no token is special.
ValueSymmetry == Permutations(Accounts) \cup Permutations(Procs)

\* Errors that a caller gets to know about.
ReportedFaults == {"open", "get", "set"}
AllFaults == ReportedFaults \cup {"delete"}
NoFaults == {}
=============================================================================
