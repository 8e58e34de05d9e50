-------------------------- MODULE AdmissionProofs --------------------------
(***************************************************************************)
(* Proofs about Shutdown and Admission, for any servers and requests.      *)
(***************************************************************************)
EXTENDS Admission, TLAPS

-----------------------------------------------------------------------------
(* Shutdown.                                                               *)

(* A server whose goroutine has ended has nothing in flight, and what it     *)
(* reported is in the channel until main logs it.                            *)
ShutdownInv ==
    /\ ShutdownTypeOK
    /\ \A s \in Names :
        /\ shutdown[s] # "waiting" => serving[s] = "closed"
        /\ shutdown[s] # "ended" => errCh[s] = <<>> /\ logged[s] = "nothing"
        /\ errCh[s] # <<>> => logged[s] = "nothing"
    /\ \A r \in Requests :
        /\ shutdown[r[1]] = "ended" => state[r] # "inflight"
        /\ state[r] = "cut" => \/ logged[r[1]] = "error"
                               \/ errCh[r[1]] = <<"error">>
    /\ main <= Len(Servers) => \A i \in 1 .. main : shutdown[Servers[i]] = "ended"

(* The servers main waits for are servers. *)
LEMMA ServerNames == \A i \in 1 .. Len(Servers) : Servers[i] \in Names
  BY DEF Names

LEMMA ServerCount == Len(Servers) \in Nat /\ Len(Servers) > 0
  BY ShutdownAssumption

(* A channel with room for one value. *)
LEMMA OneValue ==
    ASSUME NEW v
    PROVE  Append(<<>>, v) = <<v>> /\ Tail(<<v>>) = <<>> /\ Head(<<v>>) = v /\ <<v>> # <<>>
  OBVIOUS

(* Every step of the servers and of main keeps the invariant. *)
LEMMA ShutdownStep == ShutdownInv /\ [ShutdownNext]_shutdownVars => ShutdownInv'
<1> SUFFICES ASSUME ShutdownInv, [ShutdownNext]_shutdownVars PROVE ShutdownInv'
  OBVIOUS
<1> USE ShutdownAssumption, ServerCount
<1>1. CASE signal
  BY <1>1 DEF signal, ShutdownInv, ShutdownTypeOK, Alive
<1>2. ASSUME NEW s \in Names, Listen(s) PROVE ShutdownInv'
  BY <1>2 DEF Listen, ShutdownInv, ShutdownTypeOK, Alive
<1>3. ASSUME NEW r \in Requests, accept(r) PROVE ShutdownInv'
  BY <1>3 DEF accept, ShutdownInv, ShutdownTypeOK, Alive
<1>4. ASSUME NEW r \in Requests, answer(r) PROVE ShutdownInv'
  BY <1>4 DEF answer, ShutdownInv, ShutdownTypeOK, Alive
<1>5. ASSUME NEW s \in Names, beginShutdown(s) PROVE ShutdownInv'
  <2>1. ShutdownTypeOK'
    BY <1>5 DEF beginShutdown, ShutdownInv, ShutdownTypeOK
  <2>2. \A i \in 1 .. main : main <= Len(Servers) => shutdown'[Servers[i]] = "ended"
    BY <1>5, ServerNames DEF beginShutdown, ShutdownInv, ShutdownTypeOK
  <2> QED
    BY <1>5, <2>1, <2>2 DEF beginShutdown, ShutdownInv, ShutdownTypeOK
<1>6. ASSUME NEW s \in Names, drained(s) PROVE ShutdownInv'
  <2>1. /\ errCh' = [errCh EXCEPT ![s] = <<"nil">>]
        /\ shutdown' = [shutdown EXCEPT ![s] = "ended"]
        /\ errCh[s] = <<>> /\ logged[s] = "nothing" /\ serving[s] = "closed"
        /\ UNCHANGED <<signalled, serving, state, logged, main>>
    <3>1. errCh[s] = <<>> /\ logged[s] = "nothing" /\ serving[s] = "closed"
      BY <1>6 DEF drained, ShutdownInv
    <3>2. /\ errCh' = [errCh EXCEPT ![s] = Append(errCh[s], "nil")]
          /\ shutdown' = [shutdown EXCEPT ![s] = "ended"]
          /\ UNCHANGED <<signalled, serving, state, logged, main>>
      BY <1>6 DEF drained, report
    <3> QED
      BY <3>1, <3>2, OneValue
  <2>2. \A r \in Requests : r[1] = s => state[r] # "inflight" /\ state[r] # "cut"
    BY <1>6, <2>1, SMTT(30) DEF drained, Inflight, ShutdownInv
  <2>3. ShutdownTypeOK'
    BY <2>1 DEF ShutdownInv, ShutdownTypeOK
  <2>4. \A i \in 1 .. main : main <= Len(Servers) => shutdown'[Servers[i]] = "ended"
    BY <2>1, ServerNames DEF ShutdownInv, ShutdownTypeOK
  <2> QED
    BY <2>1, <2>2, <2>3, <2>4 DEF ShutdownInv, ShutdownTypeOK
<1>7. ASSUME NEW s \in Names, forceClose(s) PROVE ShutdownInv'
  <2>1. /\ errCh' = [errCh EXCEPT ![s] = <<"error">>]
        /\ shutdown' = [shutdown EXCEPT ![s] = "ended"]
        /\ errCh[s] = <<>> /\ logged[s] = "nothing" /\ serving[s] = "closed"
        /\ UNCHANGED <<signalled, serving, logged, main>>
    <3>1. errCh[s] = <<>> /\ logged[s] = "nothing" /\ serving[s] = "closed"
      BY <1>7 DEF forceClose, ShutdownInv
    <3>2. /\ errCh' = [errCh EXCEPT ![s] = Append(errCh[s], "error")]
          /\ shutdown' = [shutdown EXCEPT ![s] = "ended"]
          /\ UNCHANGED <<signalled, serving, logged, main>>
      BY <1>7 DEF forceClose, report
    <3> QED
      BY <3>1, <3>2, OneValue
  <2>2. \A r \in Requests : IF r[1] = s THEN state'[r] # "inflight" ELSE state'[r] = state[r]
    BY <1>7 DEF forceClose, Inflight
  <2>3. ShutdownTypeOK'
    BY <1>7, <2>1 DEF forceClose, ShutdownInv, ShutdownTypeOK
  <2>4. \A i \in 1 .. main : main <= Len(Servers) => shutdown'[Servers[i]] = "ended"
    BY <2>1, ServerNames DEF ShutdownInv, ShutdownTypeOK
  <2> QED
    BY <2>1, <2>2, <2>3, <2>4 DEF ShutdownInv, ShutdownTypeOK
<1>8. CASE await
  <2> DEFINE s == Servers[main + 1]
  <2>1. s \in Names
    BY <1>8, ServerNames DEF await, Alive, ShutdownInv, ShutdownTypeOK
  <2>2. /\ errCh[s] \in {<<"nil">>, <<"error">>}
        /\ logged' = [logged EXCEPT ![s] = Head(errCh[s])]
        /\ errCh' = [errCh EXCEPT ![s] = <<>>]
        /\ main < Len(Servers) /\ main' = main + 1 /\ shutdown[s] = "ended"
        /\ UNCHANGED <<signalled, serving, state, shutdown>>
    <3>1. errCh[s] \in {<<"nil">>, <<"error">>}
      BY <1>8, <2>1 DEF await, ShutdownInv, ShutdownTypeOK
    <3>2. /\ logged' = [logged EXCEPT ![s] = Head(errCh[s])]
          /\ errCh' = [errCh EXCEPT ![s] = Tail(errCh[s])]
          /\ main < Len(Servers) /\ main' = main + 1 /\ shutdown[s] = "ended"
          /\ UNCHANGED <<signalled, serving, state, shutdown>>
      BY <1>8 DEF await, Alive
    <3> QED
      BY <3>1, <3>2, OneValue
  <2>3. Head(errCh[s]) \in {"nil", "error"} /\ (errCh[s] = <<"error">> => Head(errCh[s]) = "error")
    BY <2>2
  <2>4. ShutdownTypeOK'
    BY <2>1, <2>2, <2>3 DEF ShutdownInv, ShutdownTypeOK
  <2>5. \A i \in 1 .. main' : shutdown'[Servers[i]] = "ended"
    BY <2>2 DEF ShutdownInv, ShutdownTypeOK
  <2> QED
    BY <2>1, <2>2, <2>3, <2>4, <2>5 DEF ShutdownInv, ShutdownTypeOK
<1>9. CASE UNCHANGED shutdownVars
  BY <1>9 DEF shutdownVars, ShutdownInv, ShutdownTypeOK
<1> QED
  BY <1>1, <1>2, <1>3, <1>4, <1>5, <1>6, <1>7, <1>8, <1>9 DEF ShutdownNext

(* The invariant holds from the start. *)
LEMMA ShutdownInitially == ShutdownInit => ShutdownInv
<1> SUFFICES ASSUME ShutdownInit PROVE ShutdownInv
  OBVIOUS
<1>1. ShutdownTypeOK
  <2>1. errCh \in [Names -> {<<>>, <<"nil">>, <<"error">>}]
    BY DEF ShutdownInit
  <2> QED
    <3>1. main \in 0 .. Len(Servers) + 1
      BY ServerCount DEF ShutdownInit
    <3> QED
      BY <2>1, <3>1 DEF ShutdownInit, ShutdownTypeOK
<1>2. \A r \in Requests : r[1] \in Names
  BY ShutdownAssumption
<1>3. \A i \in 1 .. main : FALSE
  BY DEF ShutdownInit
<1>4. /\ \A s \in Names : shutdown[s] = "waiting" /\ errCh[s] = <<>> /\ logged[s] = "nothing"
      /\ \A r \in Requests : state[r] = "unsent"
  BY DEF ShutdownInit
<1> QED
  BY <1>1, <1>2, <1>3, <1>4 DEF ShutdownInv

(* It implies what Shutdown promises about requests. *)
LEMMA ShutdownInvNoRequestAbandoned == ShutdownInv => NoRequestAbandoned
<1> SUFFICES ASSUME ShutdownInv, NEW r \in Requests
             PROVE  /\ main = Len(Servers) => state[r] # "inflight"
                    /\ state[r] = "cut" => logged[r[1]] # "nil"
  BY DEF NoRequestAbandoned
<1> USE ShutdownAssumption, ServerCount
<1>1. PICK i \in 1 .. Len(Servers) : Servers[i] = r[1]
  BY DEF Names
<1>2. main = Len(Servers) => state[r] # "inflight"
  BY <1>1 DEF ShutdownInv
<1>3. state[r] = "cut" => logged[r[1]] # "nil"
  <2>1. r[1] \in Names
    BY <1>1, ServerNames
  <2>2. errCh[r[1]] = <<"error">> => errCh[r[1]] # <<>>
    BY OneValue, Zenon
  <2>3. errCh[r[1]] # <<>> => logged[r[1]] = "nothing"
    BY <2>1, Zenon DEF ShutdownInv
  <2>4. state[r] = "cut" => logged[r[1]] = "error" \/ errCh[r[1]] = <<"error">>
    BY Zenon DEF ShutdownInv
  <2> QED
    BY <2>2, <2>3, <2>4, Zenon
<1> QED
  BY <1>2, <1>3

-----------------------------------------------------------------------------
(* The composition.                                                        *)

(* Requests, middleware and handlers drive the servers only as Shutdown's    *)
(* own specification allows.                                                 *)
LEMMA AdmissionStepIsShutdownStep == AdmissionNext => [ShutdownNext]_shutdownVars
<1> SUFFICES ASSUME AdmissionNext PROVE [ShutdownNext]_shutdownVars
  OBVIOUS
<1>1. ASSUME NEW r \in WebhookRequests, RequestStep(r) PROVE [ShutdownNext]_shutdownVars
  <2>1. r \in Requests
    BY DEF WebhookRequests
  <2> QED
    BY <1>1, <2>1 DEF RequestStep, Logging, Handle, handlerPanic, DebugHandle, Write, monitor, Return,
                      ShutdownNext
<1>2. ASSUME NEW r \in WebhookRequests, NEW in, AcceptRequest(r, in)
      PROVE  ShutdownNext
  BY <1>2 DEF AcceptRequest, WebhookRequests, ShutdownNext
<1> QED
  BY <1>1, <1>2 DEF AdmissionNext, Alone, ShutdownNext

(* The server with its handlers implements Shutdown (main.go:327-373). *)
THEOREM ImplementsShutdown == AdmissionSpec => ShutdownSpec
<1>1. AdmissionInit => ShutdownInit
  BY DEF AdmissionInit
<1>2. [AdmissionNext]_admissionVars => [ShutdownNext]_shutdownVars
  BY AdmissionStepIsShutdownStep DEF admissionVars, shutdownVars
<1> QED
  BY <1>1, <1>2, PTL DEF AdmissionSpec, ShutdownSpec

(* How far a request is, what its writers have recorded, and what has been   *)
(* counted, belong together.                                                 *)
RequestInv(r) ==
    /\ at[r] = "none" <=> state[r] = "unsent"
    /\ at[r] # "none" => input[r] \in InputKinds
    /\ state[r] = "answered" => at[r] = "done"
    /\ at[r] = "done" => state[r] # "inflight"
    /\ at[r] \in {"none", "logging", "handling", "writing"} => status[r] = 200
    /\ at[r] \in {"handling", "writing", "monitoring"} => Instrumented(input[r])
    /\ at[r] \notin {"returning", "done"} => counted[r] = <<>>
    /\ (at[r] = "monitoring" /\ sent[r] # 0) => status[r] = sent[r]
    /\ (at[r] \in {"returning", "done"} /\ Instrumented(input[r]))
            => counted[r] = <<status[r]>> /\ sent[r] \in {0, status[r]}
    /\ at[r] \in {"none", "logging", "handling", "writing"} => sent[r] = 0

AdmissionInv == ShutdownInv /\ AdmissionTypeOK /\ \A r \in WebhookRequests : RequestInv(r)

(* Every step keeps the types. *)
LEMMA AdmissionTypeStep ==
    ASSUME AdmissionInv, [AdmissionNext]_admissionVars, ShutdownInv'
    PROVE  AdmissionTypeOK'
<1>1. ShutdownTypeOK'
  BY DEF ShutdownInv
<1>2. CASE UNCHANGED handlerVars
  BY <1>1, <1>2 DEF handlerVars, AdmissionInv, AdmissionTypeOK
<1>3. ASSUME NEW r \in WebhookRequests, NEW in \in Inputs[r], AcceptRequest(r, in)
      PROVE  AdmissionTypeOK'
  BY <1>1, <1>3, AdmissionAssumption DEF AcceptRequest, Go, AdmissionInv, AdmissionTypeOK
<1>4. ASSUME NEW r \in WebhookRequests, RequestStep(r) PROVE AdmissionTypeOK'
  <2> DEFINE SentOK == sent' \in [WebhookRequests -> Codes \cup {0}]
  <2>a. \A code \in Codes : Send(r, code) => SentOK
    BY DEF Send, AdmissionInv, AdmissionTypeOK
  <2>b. 200 \in Codes /\ 400 \in Codes /\ 415 \in Codes /\ 500 \in Codes
    BY DEF Codes
  <2>1. CASE Logging(r)
    <3>1. SentOK
      BY <2>1, <2>a, <2>b DEF Logging, AdmissionInv, AdmissionTypeOK
    <3>2. at' = [at EXCEPT ![r] = "returning"] \/ at' = [at EXCEPT ![r] = "handling"]
      BY <2>1 DEF Logging, Go
    <3> QED
      BY <1>1, <2>1, <3>1, <3>2 DEF Logging, AdmissionInv, AdmissionTypeOK
  <2>2. ASSUME NEW code \in Codes, Error(r, code), UNCHANGED <<input, counted>> PROVE AdmissionTypeOK'
    BY <1>1, <2>2, <2>a DEF Error, Go, AdmissionInv, AdmissionTypeOK
  <2>3. ASSUME NEW uid \in {Nil, r}, NEW allowed \in BOOLEAN, NEW patch \in BOOLEAN,
               Respond(r, uid, allowed, patch), UNCHANGED <<input, counted>>
        PROVE  AdmissionTypeOK'
    BY <1>1, <2>3 DEF Respond, Responses, WebhookRequests, Go, AdmissionInv, AdmissionTypeOK
  <2>4. CASE Handle(r)
    <3>1. UNCHANGED <<input, counted>>
      BY <2>4, Zenon DEF Handle
    <3>2. \/ Error(r, 415)
          \/ \E uid \in {Nil, r}, allowed \in BOOLEAN, patch \in BOOLEAN :
                Respond(r, uid, allowed, patch)
      BY <2>4, Zenon DEF Handle, MutatePod
    <3>3. CASE Error(r, 415)
      BY <2>2, <2>b, <3>1, <3>3, Zenon
    <3>4. CASE ~Error(r, 415)
      <4>1. PICK uid \in {Nil, r}, allowed \in BOOLEAN, patch \in BOOLEAN :
                Respond(r, uid, allowed, patch)
        BY <3>2, <3>4, Zenon
      <4> QED
        BY <2>3, <3>1, <4>1, Zenon
    <3> QED
      BY <3>3, <3>4, Zenon
  <2>5. CASE handlerPanic(r)
    BY <1>1, <2>5 DEF handlerPanic, Go, AdmissionInv, AdmissionTypeOK
  <2>6. CASE DebugHandle(r)
    <3>1. UNCHANGED <<input, counted>> /\ (Respond(r, Nil, FALSE, FALSE) \/ Error(r, 500))
      BY <2>6, Zenon DEF DebugHandle
    <3>2. CASE Error(r, 500)
      BY <2>2, <2>b, <3>1, <3>2, Zenon
    <3>3. CASE Respond(r, Nil, FALSE, FALSE)
      BY <2>3, <3>1, <3>3, Zenon
    <3> QED
      BY <3>1, <3>2, <3>3, Zenon
  <2>7. CASE Write(r)
    <3>1. SentOK
      BY <2>7, <2>a, <2>b DEF Write, AdmissionInv, AdmissionTypeOK
    <3>2. status' \in [WebhookRequests -> Codes]
      <4>1. status' = status \/ status' = [status EXCEPT ![r] = 500]
        BY <2>7 DEF Write
      <4>2. status \in [WebhookRequests -> Codes]
        BY DEF AdmissionInv, AdmissionTypeOK
      <4> QED
        BY <4>1, <4>2, <2>b
    <3>3. at' = [at EXCEPT ![r] = "monitoring"]
      BY <2>7 DEF Write, Go
    <3> QED
      BY <1>1, <2>7, <3>1, <3>2, <3>3 DEF Write, AdmissionInv, AdmissionTypeOK
  <2>8. CASE monitor(r)
    BY <1>1, <2>8 DEF monitor, Go, AdmissionInv, AdmissionTypeOK
  <2>9. CASE Return(r)
    BY <1>1, <2>9, SMTT(30) DEF Return, Go, AdmissionInv, AdmissionTypeOK
  <2> QED
    BY <1>4, <2>1, <2>4, <2>5, <2>6, <2>7, <2>8, <2>9 DEF RequestStep
<1> QED
  BY <1>2, <1>3, <1>4 DEF AdmissionNext, Alone, admissionVars, handlerVars

(* Every step keeps what ties a request's goroutine to its counters. *)
LEMMA RequestInvStep ==
    ASSUME AdmissionInv, [AdmissionNext]_admissionVars, AdmissionTypeOK', NEW q \in WebhookRequests
    PROVE  RequestInv(q)'
<1> q \in Requests /\ q[1] \in Names /\ RequestInv(q)
  BY ShutdownAssumption DEF WebhookRequests, AdmissionInv
<1>0. /\ at \in [WebhookRequests -> {"none", "logging", "handling", "writing",
                                   "monitoring", "returning", "done"}]
      /\ input \in [WebhookRequests -> InputKinds \cup {Nil}]
      /\ response \in [WebhookRequests -> Responses \cup {Nil}]
      /\ status \in [WebhookRequests -> Codes]
      /\ sent \in [WebhookRequests -> Codes \cup {0}]
      /\ counted \in [WebhookRequests -> Seq(Codes)]
      /\ state \in [Requests -> {"unsent", "inflight", "answered", "cut"}]
  BY SMTT(30) DEF AdmissionInv, AdmissionTypeOK, ShutdownTypeOK
<1>1. CASE UNCHANGED handlerVars /\ (state'[q] = state[q] \/ (state[q] = "inflight" /\ state'[q] = "cut"))
  BY <1>1 DEF handlerVars, RequestInv, Instrumented
<1>2. ASSUME NEW r \in WebhookRequests, NEW in \in Inputs[r], AcceptRequest(r, in)
      PROVE  RequestInv(q)'
  <2>1. in \in InputKinds
    BY <1>2, AdmissionAssumption, SMTT(30)
  <2>2. /\ state[r] = "unsent" /\ state' = [state EXCEPT ![r] = "inflight"]
        /\ input' = [input EXCEPT ![r] = in] /\ at' = [at EXCEPT ![r] = "logging"]
        /\ UNCHANGED <<response, status, sent, counted>>
        /\ r \in Requests
    BY <1>2 DEF AcceptRequest, accept, Go, WebhookRequests
  <2>3. CASE q = r
    BY <1>0, <2>1, <2>2, <2>3 DEF RequestInv, Instrumented
  <2>4. CASE q # r
    BY <1>0, <2>2, <2>4 DEF RequestInv, Instrumented
  <2> QED
    BY <2>3, <2>4
<1>3. ASSUME NEW r \in WebhookRequests, RequestStep(r), q # r PROVE RequestInv(q)'
  <2>1. r \in Requests
    BY DEF WebhookRequests
  <2>2. /\ input'[q] = input[q] /\ counted'[q] = counted[q] /\ state'[q] = state[q]
    BY <1>0, <1>3, <2>1 DEF RequestStep, Logging, Handle, handlerPanic, DebugHandle, Write, monitor, Return,
                      answer, shutdownVars
  <2>3. at'[q] = at[q]
    BY <1>0, <1>3 DEF RequestStep, Logging, Handle, handlerPanic, DebugHandle, Write, monitor, Return,
                      MutatePod, Error, Respond, Go
  <2>4. response'[q] = response[q] /\ status'[q] = status[q]
    BY <1>0, <1>3 DEF RequestStep, Logging, Handle, handlerPanic, DebugHandle, Write, monitor, Return,
                      MutatePod, Error, Respond
  <2>5. sent'[q] = sent[q]
    BY <1>0, <1>3 DEF RequestStep, Logging, Handle, handlerPanic, DebugHandle, Write, monitor, Return,
                      MutatePod, Error, Respond, Send
  <2> QED
    BY <2>2, <2>3, <2>4, <2>5 DEF RequestInv, Instrumented
<1>4. CASE Logging(q)
  BY <1>0, <1>4 DEF Logging, At, Go, Send, RequestInv, Instrumented, shutdownVars
<1>5. ASSUME NEW code \in {415, 500}, Error(q, code), at[q] = "handling",
             UNCHANGED <<shutdownVars, input, counted>>
      PROVE  RequestInv(q)'
  BY <1>0, <1>5 DEF Error, Go, Send, RequestInv, Instrumented, shutdownVars
<1>6. ASSUME NEW uid, NEW allowed \in BOOLEAN, NEW patch \in BOOLEAN,
             Respond(q, uid, allowed, patch), at[q] = "handling",
             UNCHANGED <<shutdownVars, input, counted>>
      PROVE  RequestInv(q)'
  BY <1>0, <1>6 DEF Respond, Go, RequestInv, Instrumented, shutdownVars
<1>7. CASE Handle(q)
  <2>1. at[q] = "handling" /\ UNCHANGED <<shutdownVars, input, counted>>
    BY <1>7, Zenon DEF Handle, At
  <2>2. \/ Error(q, 415)
        \/ \E uid \in {Nil, q} : Respond(q, uid, FALSE, FALSE)
        \/ \E patch \in BOOLEAN : Respond(q, q, TRUE, patch)
    BY <1>7, Zenon DEF Handle, MutatePod
  <2>3. CASE Error(q, 415)
    BY <1>5, <2>1, <2>3, ZenonT(30)
  <2>4. ASSUME NEW uid \in {Nil, q}, Respond(q, uid, FALSE, FALSE) PROVE RequestInv(q)'
    BY <1>6, <2>1, <2>4, Zenon
  <2>5. ASSUME NEW patch \in BOOLEAN, Respond(q, q, TRUE, patch) PROVE RequestInv(q)'
    BY <1>6, <2>1, <2>5, Zenon
  <2> QED
    BY <2>2, <2>3, <2>4, <2>5, Zenon
<1>8. CASE handlerPanic(q)
  BY <1>0, <1>8 DEF handlerPanic, At, Go, RequestInv, Instrumented, shutdownVars
<1>9. CASE DebugHandle(q)
  <2>1. /\ at[q] = "handling" /\ UNCHANGED <<shutdownVars, input, counted>>
        /\ \/ Respond(q, Nil, FALSE, FALSE)
           \/ Error(q, 500)
    BY <1>9 DEF DebugHandle, At
  <2>2. CASE Error(q, 500)
    BY <1>5, <2>1, <2>2, ZenonT(30)
  <2>3. CASE Respond(q, Nil, FALSE, FALSE)
    BY <1>6, <2>1, <2>3, Zenon
  <2> QED
    BY <2>1, <2>2, <2>3, Zenon
<1>10. CASE Write(q)
  <2>1. /\ at[q] = "writing" /\ at' = [at EXCEPT ![q] = "monitoring"]
        /\ UNCHANGED <<shutdownVars, input, counted>>
    BY <1>10 DEF Write, At, Go
  <2>2. sent[q] = 0 /\ status[q] = 200
    BY <2>1 DEF RequestInv
  <2>3. sent'[q] # 0 => status'[q] = sent'[q]
    BY <1>0, <1>10, <2>2 DEF Write, Send
  <2> QED
    BY <1>0, <2>1, <2>3 DEF RequestInv, Instrumented, shutdownVars
<1>11. CASE monitor(q)
  <2>1. at[q] = "monitoring" /\ counted[q] = <<>>
    BY <1>11 DEF monitor, At, RequestInv
  <2>2. counted'[q] = <<status[q]>>
    BY <1>0, <1>11, <2>1, OneValue, SMTT(30) DEF monitor
  <2> QED
    BY <1>0, <1>11, <2>1, <2>2, SMTT(30) DEF monitor, Go, RequestInv, Instrumented, shutdownVars
<1>12. CASE Return(q)
  BY <1>0, <1>12 DEF Return, At, Go, answer, RequestInv, Instrumented, shutdownVars
<1>13. ASSUME NEW r \in Requests \ WebhookRequests, Alone(accept(r)) \/ Alone(answer(r))
       PROVE  RequestInv(q)'
  <2>1. state'[q] = state[q] /\ UNCHANGED handlerVars
    BY <1>0, <1>13, ZenonT(30) DEF Alone, accept, answer
  <2> QED
    BY <1>1, <2>1, SMTT(30)
<1>14. ASSUME NEW s \in Names, Alone(forceClose(s)) PROVE RequestInv(q)'
  BY <1>0, <1>1, <1>14 DEF Alone, forceClose, Inflight
<1>15. CASE UNCHANGED handlerVars /\ UNCHANGED state
  BY <1>1, <1>15
<1>16. ASSUME NEW s \in Names, Alone(Listen(s)) \/ Alone(beginShutdown(s)) \/ Alone(drained(s))
       PROVE  RequestInv(q)'
  BY <1>15, <1>16, SMTT(30) DEF Alone, Listen, beginShutdown, drained
<1>17. CASE Alone(signal) \/ Alone(await) \/ UNCHANGED admissionVars
  BY <1>15, <1>17 DEF Alone, signal, await, admissionVars, shutdownVars
<1> QED
  BY <1>2, <1>3, <1>4, <1>7, <1>8, <1>9, <1>10, <1>11, <1>12, <1>13, <1>14, <1>16, <1>17
     DEF AdmissionNext, RequestStep

(* The invariant of the composition holds in every state. *)
LEMMA AdmissionInvariant == AdmissionSpec => []AdmissionInv
<1>1. AdmissionInit => AdmissionInv
  <2> SUFFICES ASSUME AdmissionInit PROVE AdmissionInv
    OBVIOUS
  <2>1. ShutdownInv /\ ShutdownTypeOK
    BY ShutdownInitially DEF AdmissionInit, ShutdownInv
  <2>2. AdmissionTypeOK
    BY <2>1 DEF AdmissionInit, AdmissionTypeOK, Codes
  <2>3. \A r \in WebhookRequests : RequestInv(r)
    BY DEF AdmissionInit, ShutdownInit, RequestInv, WebhookRequests
  <2> QED
    BY <2>1, <2>2, <2>3 DEF AdmissionInv
<1>2. AdmissionInv /\ [AdmissionNext]_admissionVars => AdmissionInv'
  <2> SUFFICES ASSUME AdmissionInv, [AdmissionNext]_admissionVars PROVE AdmissionInv'
    OBVIOUS
  <2>1. [ShutdownNext]_shutdownVars
    BY AdmissionStepIsShutdownStep DEF admissionVars, shutdownVars
  <2>2. ShutdownInv'
    BY <2>1, ShutdownStep DEF AdmissionInv
  <2>3. AdmissionTypeOK'
    BY <2>2, AdmissionTypeStep
  <2>4. \A q \in WebhookRequests : RequestInv(q)'
    BY <2>3, RequestInvStep
  <2> QED
    BY <2>2, <2>3, <2>4 DEF AdmissionInv, WebhookRequests
<1> QED
  BY <1>1, <1>2, PTL DEF AdmissionSpec

(* The variables of the server, its shutdown and its handlers keep their     *)
(* types; errCh never holds more than the one value it has room for          *)
(* (shutdown.go:44-67).                                                      *)
THEOREM AdmissionTypeCorrect == AdmissionSpec => []AdmissionTypeOK
  BY AdmissionInvariant, PTL DEF AdmissionInv

(* No request is abandoned by main, nor cut off on a server whose shutdown   *)
(* is logged as graceful, for any number of servers and requests             *)
(* (main.go:357-373).                                                        *)
THEOREM NoRequestIsAbandoned == AdmissionSpec => []NoRequestAbandoned
  BY AdmissionInvariant, ShutdownInvNoRequestAbandoned, PTL DEF AdmissionInv

(* However the handler of an instrumented route ends, its request is counted *)
(* once, with the code the client got if any (middleware.go:76-82, 124-138). *)
THEOREM EveryAnswerIsCounted == AdmissionSpec => []AnswersAreCounted
<1>1. AdmissionInv => AnswersAreCounted
  BY DEF AdmissionInv, AdmissionTypeOK, RequestInv, AnswersAreCounted
<1> QED
  BY <1>1, AdmissionInvariant, PTL

(* After a graceful shutdown every accepted request was handled to its end   *)
(* (shutdown.go:52-67).                                                      *)
THEOREM GracefulShutdownHandlesAll == AdmissionSpec => []GracefulMeansHandled
<1>1. AdmissionInv => GracefulMeansHandled
  <2> SUFFICES ASSUME AdmissionInv, logged[Servers[1]] = "nil", NEW r \in WebhookRequests
               PROVE  at[r] = "none" \/ (at[r] = "done" /\ state[r] = "answered")
    BY DEF GracefulMeansHandled
  <2>1. r \in Requests /\ r[1] = Servers[1] /\ r[1] \in Names
    BY ShutdownAssumption DEF WebhookRequests
  <2>2. state[r] # "cut"
    BY <2>1, ShutdownInvNoRequestAbandoned DEF AdmissionInv, NoRequestAbandoned
  <2>3. shutdown[r[1]] = "ended"
    BY <2>1 DEF AdmissionInv, ShutdownInv
  <2>4. state[r] # "inflight"
    BY <2>1, <2>3 DEF AdmissionInv, ShutdownInv
  <2>5. state[r] \in {"unsent", "answered"}
    BY <2>1, <2>2, <2>4 DEF AdmissionInv, ShutdownInv, ShutdownTypeOK
  <2> QED
    BY <2>5 DEF AdmissionInv, RequestInv
<1> QED
  BY <1>1, AdmissionInvariant, PTL
=============================================================================
