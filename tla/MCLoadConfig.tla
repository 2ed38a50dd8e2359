---------------------------- MODULE MCLoadConfig ----------------------------
(* Instances of LoadConfig for TLC.                                        *)
EXTENDS LoadConfig, TLC

File(lines) == [lines |-> lines, ended |-> TRUE]
Url(kind) == Line("appliance_url", kind)
Acme == Line("account", "acme")

\* What conjur.conf settles, if it exists.
SystemConf == {None, File(<<Acme>>), File(<<Url("plain")>>)}

\* Tidy files: every line ends, every key has a value.
Conjurrcs == {None, File(<<>>), File(<<Url("saas")>>), File(<<Url("saas"), Acme>>),
              File(<<Url("api")>>), File(<<Url("plain"), Acme>>),
              File(<<Line("conjur_url", "api"), Line("conjur_account", "acme")>>),
              File(<<Url("api"), Line("environment", "oss")>>),
              File(<<Url("api"), Line("keychain_namespace", "b")>>)}

Vars == {Unset,
         [Unset EXCEPT !["appliance_url"] = "saas", !["keychain_namespace"] = "b"],
         [Unset EXCEPT !["appliance_url"] = "api", !["account"] = ""],
         [Unset EXCEPT !["environment"] = "oss"],
         [Unset EXCEPT !["keychain_namespace"] = ""]}

Built == {[Blank EXCEPT !["appliance_url"] = "api"],
          [Blank EXCEPT !["appliance_url"] = "saas", !["keychain_namespace"] = "b"]}

\* One conjurrc file, and nothing else.
NoFile  == {None}
ApiFile == {File(<<Url("api"), Acme>>)}
NoVars  == {Unset}
=============================================================================
