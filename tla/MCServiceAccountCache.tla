----------------------- MODULE MCServiceAccountCache -----------------------
(* A small instance of ServiceAccountCache for TLC: two accounts, three     *)
(* lookups of which two share an account, a fetch channel of capacity one.  *)
EXTENDS ServiceAccountCache, TLC

MCSAs == {<<"ns", "a">>, <<"ns", "b">>}
MCsaOf == "p1" :> <<"ns", "a">> @@ "p2" :> <<"ns", "a">> @@ "p3" :> <<"ns", "b">>
MCcomposeArn == "" :> "arn:role/" @@ "r" :> "arn:role/r"
MCAnnotations ==
    {[role |-> "r", audience |-> Absent, sts |-> Absent, expiration |-> 60]}
=============================================================================
