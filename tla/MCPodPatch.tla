----------------------------- MODULE MCPodPatch -----------------------------
(* A small instance of PodPatch for TLC: pods whose owner set none, some or  *)
(* all of the variables, with and without volumes, labels, init containers   *)
(* and skipped containers.                                                   *)
EXTENDS PodPatch

Envs == {<<>>, <<"X">>, <<"AWS_ROLE_ARN">>, <<"AWS_REGION", "X">>,
         <<"AWS_ROLE_ARN", "AWS_REGION", "AWS_STS_REGIONAL_ENDPOINTS">>}
Main == [name : {"main"}, env : Envs, mounts : {<<>>, <<"aws-iam-token">>}]
Side == [name : {"side"}, env : {<<>>, <<"AWS_CONTAINER_CREDENTIALS_FULL_URI">>}, mounts : {<<>>}]

MCSubmitted ==
    [containers : {<<c>> : c \in Main}, inits : {<<>>} \cup {<<c>> : c \in Side},
     volumes : {Nil, <<>>, <<"data">>, <<"aws-iam-token">>},
     labels : {Nil, {}, {"app"}},
     skip : {Nil, Unparsable, {"side"}}]
MCConfigs ==
    {[method |-> "sts_web_identity", sts |-> s, volume |-> "aws-iam-token"] : s \in BOOLEAN}
    \cup {[method |-> "container_credentials", sts |-> TRUE, volume |-> "eks-pod-identity-token"]}
=============================================================================
