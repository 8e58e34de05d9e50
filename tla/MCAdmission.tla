---------------------------- MODULE MCAdmission ----------------------------
(* The webhook and the metrics server, with two requests to the first and    *)
(* one to the second.  The first request is of every kind, the second one is *)
(* for a pod.                                                                *)
EXTENDS Admission

MCServers == <<"webhook", "metrics">>
MCRequests == {<<"webhook", 1>>, <<"webhook", 2>>, <<"metrics", 1>>}
Pod == [path |-> "/mutate", form |-> TRUE, body |-> "pod"]
Varied ==
    {[Pod EXCEPT !.body = body] : body \in Bodies}
        \cup {[Pod EXCEPT !.path = path] : path \in Paths} \cup {[Pod EXCEPT !.form = FALSE]}

MCInputs == [r \in WebhookRequests |-> IF r[2] = 1 THEN Varied ELSE {Pod}]
=============================================================================
