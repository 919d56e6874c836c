--------------------------- MODULE MCSecretOptions ---------------------------
(* Two names and two scopes, one inside the other; calls that name a secret,   *)
(* that rely on a scope, and that override, repeat or empty an option.         *)
EXTENDS SecretOptions

MCLower == [k \in {"driver", "uri", "username", "secret", "region", "batch_size"} |-> k]
             @@ [k \in {"USERNAME"} |-> "username"]

Host == <<"pg", "host">>
Other == <<"memory">>
MCValue == Seq(STRING)
MCName == {<<"s1">>, <<"s2">>}
MCScope == {Empty, <<"pg">>, Host}
MCParameters ==
  { [driver |-> <<"postgres">>, uri |-> Other, username |-> <<"root">>],
    [driver |-> <<"postgres">>] }
MCExtraOptions == { <<>>, [username |-> <<"extra">>, secret |-> Null] }

MCConnectOptions ==
  { <<Option("secret", <<"s1">>), Option("uri", Host), Option("username", <<"me">>)>>,
    <<Option("secret", <<"s2">>), Option("driver", Null), Option("uri", Empty)>>,
    <<Option("uri", Host), Option("secret", Empty)>>,
    <<Option("uri", Host), Option("USERNAME", <<"me">>), Option("driver", <<"sqlite">>)>>,
    <<Option("driver", <<"sqlite">>)>> }
MCAttachOptions ==
  { <<>>, <<Option("driver", <<"sqlite">>), Option("batch_size", <<"10">>)>>,
    <<Option("USERNAME", <<"me">>), Option("secret", <<"s2">>)>> }
MCPath ==
  { [uri |-> Host, pairs |-> <<>>], [uri |-> Empty, pairs |-> <<>>],
    [uri |-> Empty, pairs |-> <<Option("username", <<"a">>), Option("username", <<"b">>)>>],
    [uri |-> Empty, pairs |-> <<Option("uri", Other), Option("batch_size", <<"1">>),
                                Option("uri", Host)>>] }

=============================================================================
