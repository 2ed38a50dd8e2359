----------------------------- MODULE MCRequests -----------------------------
(* Instances of Requests for TLC.                                          *)
EXTENDS Requests

\* Parts that look like the account or a kind, parts of every class of
\* characters, and parts that are none of these.
SomeParts == {"", "..", "dev", "variable", "policy", "user",
              "a b", "a+b", "a#b", "host/a,b"}

PlusForSpace == [t \in {"a b"} |-> "a+b"]

\* A self-hosted appliance; the SaaS, written without and with the "/api";
\* a SaaS tenant called "api", under an Environment that is not SaaS.
SomeClients ==
    {[host |-> [cloud |-> cloud, saysApi |-> says, prefixes |-> n], saas |-> saas] :
        <<cloud, says, n, saas>> \in
            {<<FALSE, FALSE, 0, FALSE>>, <<TRUE, FALSE, 0, TRUE>>, <<TRUE, TRUE, 1, TRUE>>,
             <<TRUE, TRUE, 0, FALSE>>}}

SomeRoles == {<<"user", "a b">>, <<"..">>}
=============================================================================
