---------------------------- MODULE MCHostedSync ----------------------------
(* Two scopes with two operations each, one of them sealed with a key      *)
(* version that is no longer accepted, and a consumer of each scope.       *)
EXTENDS HostedSync

Op(id, scope, key) == [id |-> id, scope |-> scope, key |-> key]
MCOps == {Op(1, "s", "active"), Op(2, "s", "previous"), Op(3, "s", "active"),
          Op(4, "t", "active"), Op(5, "t", "retired")}
Credential(scope, token, expires_at) ==
    [scope |-> scope, token |-> token, expires_at |-> expires_at]
MCCredentials == {Credential("s", "good", 3), Credential("s", "good", 5),
                  Credential("s", "", 5), Credential("t", "good", 4), Credential("t", "bad", 5)}
MCAuthorized == {<<"s", "good">>, <<"t", "good">>}
MCScopeOf == [c \in Consumers |-> IF c = "d" THEN "t" ELSE "s"]
=============================================================================
