----------------------------- MODULE MCWebhook -----------------------------
(* Small instances of Webhook for TLC; the cfg files choose among these      *)
(* values for the half of the system they look at.                           *)
EXTENDS Webhook, TLC

A == <<"ns", "a">>
B == <<"ns", "b">>
AnyA == <<"*", "a">>

MCcomposeArn == "" :> "arn:role/" @@ "r" :> "arn:role/r"

OneSA == {A}
OnePodOf == "p1" :> A
TwoPodsOf == "p1" :> A @@ "p2" :> A
OnePodExpiration == "p1" :> Absent
TwoPodsExpiration == "p1" :> Absent @@ "p2" :> 60

(* With a fetch channel of capacity one: one request's fetch fills it,       *)
(* another one blocks in the send, the third one waits for its locks.        *)
TwoSAs == {A, B}
ThreePodsOf == "p1" :> A @@ "p2" :> B @@ "p3" :> A
ThreePodsExpiration == "p1" :> Absent @@ "p2" :> 60 @@ "p3" :> Absent

Annotated == [role |-> "r", audience |-> Absent, sts |-> TRUE, expiration |-> 60]
Plain == [role |-> Absent, audience |-> Absent, sts |-> Unparsable, expiration |-> Absent]
RoleOnly == {Annotated}
RoleOrPlain == {Annotated, Plain}

Role(r, expiration) ==
    [RoleARN |-> r, Audience |-> "sts.amazonaws.com",
     UseRegionalSTS |-> TRUE, TokenExpiration |-> expiration]
OwnAndWildcard ==
    {A :> Role("arn:role/", 0),
     AnyA :> Role("arn:role/r", 0),
     A :> Role("arn:role/r", 0) @@ AnyA :> Role("arn:role/", 60)}
(* Configs that keep the account's own key, and one where it is null. *)
OwnAndNull == {c \in OwnAndWildcard : A \in DOMAIN c} \cup {A :> Nil}

NoIdentities == {{}}
SomeIdentities == {{}, {A}}
=============================================================================
