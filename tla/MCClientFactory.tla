-------------------------- MODULE MCClientFactory --------------------------
(* Instances of ClientFactory for TLC.                                     *)
EXTENDS ClientFactory, TLC

RoleSymmetry == Permutations(Roles)

Config(authnType, namespace) == [authnType |-> authnType, namespace |-> namespace]

\* The types that share names, entries or endpoints.
MixedConfigs == {Config("", ""), Config("authn", "a"), Config("cloud", ""),
                 Config("iam", ""), Config("jwt", ""), Config("cert", "")}
=============================================================================
