----------------------------- MODULE MCWorkload -----------------------------
(* Instances of WorkloadClient for TLC.                                    *)
EXTENDS WorkloadClient

\* Versions around two of the minima; with two numbers; with four, as the
\* root page of older servers shows them.
SomeVersions == {<<1, 21, 0>>, <<1, 23, 0>>, <<2, 0>>, <<1, 28, 0, 1>>}

Self(info, saas, k, versions) ==
    [cloud |-> FALSE, saas |-> saas, info |-> info, kind |-> k, versions |-> versions]
Cloud(saas, k) ==
    [cloud |-> TRUE, saas |-> saas, info |-> "404", kind |-> k, versions |-> {<<2, 0>>}]

\* Appliances of every form and every kind of credential; the Environment
\* and the appliance URL may disagree about the SaaS.
SomeDeployments ==
    {Self("404", FALSE, "iam", {<<1, 21, 0>>, <<1, 23, 0>>, <<2, 0>>}),
     Self("possum", FALSE, "jwt content", {<<1, 23, 0>>, <<1, 28, 0, 1>>}),
     Self("no possum", FALSE, "cert content", {<<2, 0>>}),
     Self("possum", TRUE, "cert files", {<<2, 0>>}),
     Self("404", FALSE, "cert files", {<<1, 23, 0>>}),
     Cloud(TRUE, "jwt file"), Cloud(TRUE, "azure"), Cloud(FALSE, "gcp")}
=============================================================================
