-------------------------- MODULE MCConfigMapCache --------------------------
(* A small instance of ConfigMapCache for TLC: one account configured under  *)
(* its own key, under the wildcard or under both, and the malformed contents *)
(* a user can write: no JSON, a null entry, a key without a slash next to a  *)
(* good one, a key with one slash too many.                                  *)
EXTENDS ConfigMapCache, TLC

Role(r, expiration) ==
    [RoleARN |-> r, Audience |-> "sts.amazonaws.com",
     UseRegionalSTS |-> FALSE, TokenExpiration |-> expiration]

MCConfigs ==
    {Unparsable,
     <<>>,
     <<"ns", "a">> :> Role("arn:role/r", 0),
     <<"ns", "a">> :> Role("arn:role/", 900) @@ <<"*", "a">> :> Role("arn:role/r", 60),
     <<"*", "a">> :> Role("arn:role/r", 0),
     <<"ns", "a">> :> Nil,
     <<"ns", "a">> :> Role("arn:role/r", 60) @@ <<"a">> :> Role("arn:role/r", 0),
     <<"ns", "a", "x">> :> Role("arn:role/r", 0)}
MCcomposeArn == "" :> "arn:role/" @@ "r" :> "arn:role/r"
=============================================================================
