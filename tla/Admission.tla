----------------------------- MODULE Admission -----------------------------
(***************************************************************************)
(* What happens to a request on the webhook server: the mux, the Logging   *)
(* and InstrumentRoute middleware around the handler (Logging is the outer *)
(* one), Modifier.Handle and MutatePod, the debug routes, and the metrics; *)
(* composed with Shutdown, which may close the connection under a handler. *)
(* Requests on the metrics server are left to Shutdown.                    *)
(*                                                                         *)
(* How a patch is decided is in Webhook and PodPatch: here the outcome is  *)
(* any.  A handler's steps are one per effect that others can see.         *)
(***************************************************************************)
EXTENDS Shutdown

CONSTANTS
    Nil,        \* no input, UID or response
    Inputs      \* request -> what it may carry: [path, form, body], see InputKinds

Paths == {"/mutate", "/healthz", "/debug/alpha/deny", "/debug/alpha/500"}

(* form: ParseForm succeeds.  body: the Content-Type is another one, the     *)
(* body does not decode, the review has no request, its object is no pod, or *)
(* all is well.                                                              *)
Bodies == {"type", "undecodable", "norequest", "nopod", "pod"}
InputKinds == [path : Paths, form : BOOLEAN, body : Bodies]
Codes == {200, 400, 415, 500}

WebhookRequests == {r \in Requests : r[1] = Servers[1]}

ASSUME AdmissionAssumption ==
    /\ Inputs \in [WebhookRequests -> SUBSET InputKinds]
    /\ Nil \notin InputKinds /\ Nil \notin Requests

VARIABLES
    input,      \* request -> Nil or what it carries
    at,         \* request -> where its goroutine is
    response,   \* request -> Nil or the AdmissionResponse
    status,     \* request -> the code InstrumentRoute's writer recorded
    sent,       \* request -> the code handed to the open connection, 0 for none
    counted     \* request -> the codes http_request_count was incremented for

handlerVars == <<input, at, response, status, sent, counted>>
admissionVars == <<shutdownVars, handlerVars>>

Responses == [uid : Requests \cup {Nil}, allowed : BOOLEAN, patch : BOOLEAN]

AdmissionTypeOK ==
    /\ ShutdownTypeOK
    /\ input \in [WebhookRequests -> InputKinds \cup {Nil}]
    /\ at \in [WebhookRequests -> {"none", "logging", "handling", "writing",
                                   "monitoring", "returning", "done"}]
    /\ response \in [WebhookRequests -> Responses \cup {Nil}]
    /\ status \in [WebhookRequests -> Codes]
    /\ sent \in [WebhookRequests -> Codes \cup {0}]
    /\ counted \in [WebhookRequests -> Seq(Codes)]

AdmissionInit ==
    /\ ShutdownInit
    /\ input = [r \in WebhookRequests |-> Nil]
    /\ at = [r \in WebhookRequests |-> "none"]
    /\ response = [r \in WebhookRequests |-> Nil]
    /\ status = [r \in WebhookRequests |-> 200]
    /\ sent = [r \in WebhookRequests |-> 0]
    /\ counted = [r \in WebhookRequests |-> <<>>]

-----------------------------------------------------------------------------

At(r, step) == Alive /\ at[r] = step
Go(r, step) == at' = [at EXCEPT ![r] = step]

(* What is written to a connection that was closed is lost. *)
Send(r, code) ==
    sent' = IF state[r] = "inflight" THEN [sent EXCEPT ![r] = code] ELSE sent

AcceptRequest(r, in) ==
    /\ accept(r)
    /\ input' = [input EXCEPT ![r] = in]
    /\ Go(r, "logging")
    /\ UNCHANGED <<response, status, sent, counted>>

(* /healthz has no middleware.  Elsewhere Logging answers a form that does   *)
(* not parse, on the writer InstrumentRoute does not see.                    *)
Logging(r) ==
    /\ At(r, "logging")
    /\ \/ /\ input[r].path = "/healthz"
          /\ Send(r, 200) /\ Go(r, "returning")
       \/ /\ input[r].path # "/healthz" /\ ~input[r].form
          /\ Send(r, 400) /\ Go(r, "returning")
       \/ /\ input[r].path # "/healthz" /\ input[r].form
          /\ Go(r, "handling") /\ UNCHANGED sent
    /\ UNCHANGED <<shutdownVars, input, response, status, counted>>

(* http.Error through the wrapped writers, after which the handler returns. *)
Error(r, code) ==
    /\ status' = [status EXCEPT ![r] = code]
    /\ Send(r, code)
    /\ Go(r, "monitoring")
    /\ UNCHANGED response

Respond(r, uid, allowed, patch) ==
    /\ response' = [response EXCEPT ![r] = [uid |-> uid, allowed |-> allowed, patch |-> patch]]
    /\ Go(r, "writing")
    /\ UNCHANGED <<status, sent>>

(* MutatePod, and Handle that sets the UID of the review's request.  With no *)
(* podPatchConfig the pod is allowed as it is, with one it is patched, unless *)
(* the patch does not marshal.                                               *)
MutatePod(r) ==
    \/ input[r].body = "norequest" /\ Respond(r, Nil, FALSE, FALSE)
    \/ input[r].body = "nopod" /\ Respond(r, r, FALSE, FALSE)
    \/ /\ input[r].body = "pod"
       /\ \/ \E patch \in BOOLEAN : Respond(r, r, TRUE, patch)
          \/ Respond(r, r, FALSE, FALSE)

(* A body that does not decode may have filled in the UID before the error. *)
Handle(r) ==
    /\ At(r, "handling") /\ input[r].path = "/mutate"
    /\ \/ input[r].body = "type" /\ Error(r, 415)
       \/ input[r].body = "undecodable" /\ \E uid \in {Nil, r} : Respond(r, uid, FALSE, FALSE)
       \/ input[r].body \notin {"type", "undecodable"} /\ MutatePod(r)
    /\ UNCHANGED <<shutdownVars, input, counted>>

(* The handler panics (addJitterToDefaultToken): nothing is written, the     *)
(* deferred calls run and net/http closes the connection.                    *)
handlerPanic(r) ==
    /\ At(r, "handling") /\ input[r].path = "/mutate" /\ input[r].body = "pod"
    /\ Go(r, "monitoring")
    /\ UNCHANGED <<shutdownVars, input, response, status, sent, counted>>

(* Dumper.Deny and Dumper.InternalServerError. *)
DebugHandle(r) ==
    /\ At(r, "handling")
    /\ \/ input[r].path = "/debug/alpha/deny" /\ Respond(r, Nil, FALSE, FALSE)
       \/ input[r].path = "/debug/alpha/500" /\ Error(r, 500)
    /\ UNCHANGED <<shutdownVars, input, counted>>

(* A review that does not encode is answered by http.Error, and the Write of *)
(* nothing that follows adds nothing.  Else w.Write sends the header with    *)
(* code 200 first.  It fails if the connection is gone, unless the response  *)
(* fits the buffer; then http.Error is too late for the client, but the      *)
(* writers record its code.                                                  *)
Write(r) ==
    /\ At(r, "writing")
    /\ \/ Send(r, 500) /\ status' = [status EXCEPT ![r] = 500]
       \/ Send(r, 200) /\ UNCHANGED status
       \/ UNCHANGED sent /\ status' = [status EXCEPT ![r] = 500]
    /\ Go(r, "monitoring")
    /\ UNCHANGED <<shutdownVars, input, response, counted>>

(* Mutant: the deferred call's arguments are evaluated at the defer. *)
monitorEager(r) ==
    /\ At(r, "monitoring")
    /\ counted' = [counted EXCEPT ![r] = Append(@, 200)]
    /\ Go(r, "returning")
    /\ UNCHANGED <<shutdownVars, input, response, status, sent>>

(* InstrumentRoute's deferred monitor. *)
monitor(r) ==
    /\ At(r, "monitoring")
    /\ counted' = [counted EXCEPT ![r] = Append(@, status[r])]
    /\ Go(r, "returning")
    /\ UNCHANGED <<shutdownVars, input, response, status, sent>>

(* The goroutine of net/http ends the request, or the connection was closed. *)
Return(r) ==
    /\ At(r, "returning")
    /\ Go(r, "done")
    /\ \/ answer(r)
       \/ state[r] # "inflight" /\ UNCHANGED shutdownVars
    /\ UNCHANGED <<input, response, status, sent, counted>>

RequestStep(r) ==
    \/ Logging(r) \/ Handle(r) \/ handlerPanic(r) \/ DebugHandle(r) \/ Write(r)
    \/ monitor(r) \/ Return(r)

Alone(A) == A /\ UNCHANGED handlerVars

AdmissionNext ==
    \/ Alone(signal)
    \/ \E s \in Names : \/ Alone(Listen(s)) \/ Alone(beginShutdown(s))
                        \/ Alone(drained(s)) \/ Alone(forceClose(s))
    \/ \E r \in Requests \ WebhookRequests : Alone(accept(r)) \/ Alone(answer(r))
    \/ Alone(await)
    \/ \E r \in WebhookRequests : RequestStep(r) \/ \E in \in Inputs[r] : AcceptRequest(r, in)

AdmissionSpec == AdmissionInit /\ [][AdmissionNext]_admissionVars

(* Shutdown's fairness: goroutines run and the ten seconds pass, while no    *)
(* handler has to return.                                                    *)
AdmissionFairSpec ==
    /\ AdmissionSpec
    /\ \A s \in Names : /\ WF_admissionVars(Alone(beginShutdown(s)))
                        /\ WF_admissionVars(Alone(drained(s)) \/ Alone(forceClose(s)))
    /\ WF_admissionVars(Alone(await))

-----------------------------------------------------------------------------
(* Properties.                                                             *)

Instrumented(in) == in.path # "/healthz" /\ in.form

(* When the handler of an instrumented route has ended, by whatever way (it  *)
(* answered, it panicked, its write failed, the connection was closed under  *)
(* it), its request is counted exactly once, and with the code the client    *)
(* got if it got any (middleware.go:76-82, 124-138).                         *)
AnswersAreCounted ==
    \A r \in WebhookRequests : (at[r] = "done" /\ Instrumented(input[r]))
        => \E code \in Codes : counted[r] = <<code>> /\ sent[r] \in {0, code}

(* When main logs that the webhook server shut down gracefully, the handler  *)
(* of every request that was accepted has run to its end, metrics included,  *)
(* with its connection open (main.go:360-365, shutdown.go:52-67).            *)
GracefulMeansHandled ==
    logged[Servers[1]] = "nil" =>
        \A r \in WebhookRequests :
            at[r] = "none" \/ (at[r] = "done" /\ state[r] = "answered")
=============================================================================
