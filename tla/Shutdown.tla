------------------------------ MODULE Shutdown ------------------------------
(***************************************************************************)
(* The end of the process: ShutdownFromContext for the webhook and the     *)
(* metrics server, the two goroutines that serve, and main waiting for     *)
(* both.  net/http is external: Shutdown stops the listener and returns    *)
(* once no request is in flight or its context expires; Close cuts off the *)
(* requests that are left.                                                 *)
(***************************************************************************)
EXTENDS Naturals, Sequences, FiniteSets

CONSTANTS
    Servers,    \* the servers, in the order main waits for them
    Requests    \* requests, as <<server, id>>

Names == {Servers[i] : i \in 1 .. Len(Servers)}

ASSUME ShutdownAssumption ==
    /\ Servers \in Seq(STRING) /\ Len(Servers) > 0
    /\ Cardinality(Names) = Len(Servers)
    /\ \A r \in Requests : r[1] \in Names

VARIABLES
    signalled,  \* signalHandlerCtx is done
    serving,    \* server -> its ListenAndServe is "starting", "serving" or "closed"
    state,      \* request -> "unsent", "inflight", "answered" or "cut"
    shutdown,   \* server -> its goroutine is "waiting", "draining" or "ended"
    errCh,      \* server -> the values buffered in its error channel
    logged,     \* server -> "nothing", or the result main has logged
    main        \* the number of servers main has waited for
                \* (more than there are: klog.Fatalf or a second signal
                \* ended the process)

shutdownVars == <<signalled, serving, state, shutdown, errCh, logged, main>>

Alive == main < Len(Servers)
Inflight(s) == {r \in Requests : r[1] = s /\ state[r] = "inflight"}

ShutdownTypeOK ==
    /\ signalled \in BOOLEAN
    /\ serving \in [Names -> {"starting", "serving", "closed"}]
    /\ state \in [Requests -> {"unsent", "inflight", "answered", "cut"}]
    /\ shutdown \in [Names -> {"waiting", "draining", "ended"}]
    /\ errCh \in [Names -> {<<>>, <<"nil">>, <<"error">>}]
    /\ logged \in [Names -> {"nothing", "nil", "error"}]
    /\ main \in 0 .. Len(Servers) + 1

ShutdownInit ==
    /\ signalled = FALSE
    /\ serving = [s \in Names |-> "starting"]
    /\ state = [r \in Requests |-> "unsent"]
    /\ shutdown = [s \in Names |-> "waiting"]
    /\ errCh = [s \in Names |-> <<>>]
    /\ logged = [s \in Names |-> "nothing"]
    /\ main = 0

-----------------------------------------------------------------------------

(* SetupSignalHandler: the first signal cancels the context, the second one  *)
(* exits at once.                                                            *)
signal ==
    /\ Alive
    /\ signalled' = TRUE
    /\ main' = IF signalled THEN Len(Servers) + 1 ELSE main
    /\ UNCHANGED <<serving, state, shutdown, errCh, logged>>

(* ListenAndServe.  After Shutdown it returns ErrServerClosed at once, which *)
(* is no error; any other error, at the start or later, is fatal.            *)
Listen(s) ==
    /\ Alive /\ serving[s] # "closed"
    /\ \/ /\ serving[s] = "starting"
          /\ serving' = [serving EXCEPT ![s] = "serving"] /\ UNCHANGED main
       \/ main' = Len(Servers) + 1 /\ UNCHANGED serving
    /\ UNCHANGED <<signalled, state, shutdown, errCh, logged>>

accept(r) ==
    /\ Alive /\ serving[r[1]] = "serving" /\ state[r] = "unsent"
    /\ state' = [state EXCEPT ![r] = "inflight"]
    /\ UNCHANGED <<signalled, serving, shutdown, errCh, logged, main>>

answer(r) ==
    /\ Alive /\ state[r] = "inflight"
    /\ state' = [state EXCEPT ![r] = "answered"]
    /\ UNCHANGED <<signalled, serving, shutdown, errCh, logged, main>>

(* The goroutine of ShutdownFromContext wakes and calls Shutdown. *)
beginShutdown(s) ==
    /\ Alive /\ signalled /\ shutdown[s] = "waiting"
    /\ shutdown' = [shutdown EXCEPT ![s] = "draining"]
    /\ serving' = [serving EXCEPT ![s] = "closed"]
    /\ UNCHANGED <<signalled, state, errCh, logged, main>>

(* Mutant: two errors are sent instead of one joined error. *)
reportTwice(s, err) ==
    /\ errCh' = [errCh EXCEPT ![s] = IF err = "error" THEN @ \o <<err, err>> ELSE Append(@, err)]
    /\ shutdown' = [shutdown EXCEPT ![s] = "ended"]

(* The one send to errCh, whose buffer has room, then both channels close. *)
report(s, err) ==
    /\ errCh' = [errCh EXCEPT ![s] = Append(@, err)]
    /\ shutdown' = [shutdown EXCEPT ![s] = "ended"]

(* Mutant: Shutdown is told to stop, not waited for. *)
drainedAtOnce(s) ==
    /\ Alive /\ shutdown[s] = "draining"
    /\ report(s, "nil")
    /\ UNCHANGED <<signalled, serving, state, logged, main>>

drained(s) ==
    /\ Alive /\ shutdown[s] = "draining"
    /\ Inflight(s) = {}
    /\ report(s, "nil")
    /\ UNCHANGED <<signalled, serving, state, logged, main>>

(* Mutant: the shutdown context has no timeout. *)
forceCloseNever(s) ==
    /\ Alive /\ shutdown[s] = "draining"
    /\ Inflight(s) = {}
    /\ report(s, "error")
    /\ UNCHANGED <<signalled, serving, state, logged, main>>

(* Shutdown fails, its timeout being the usual reason: Close. *)
forceClose(s) ==
    /\ Alive /\ shutdown[s] = "draining"
    /\ state' = [r \in Requests |-> IF r \in Inflight(s) THEN "cut" ELSE state[r]]
    /\ report(s, "error")
    /\ UNCHANGED <<signalled, serving, logged, main>>

(* Mutant: main waits for the first server only. *)
awaitFirst ==
    LET s == Servers[main + 1] IN
    /\ Alive /\ shutdown[s] = "ended" /\ errCh[s] # <<>>
    /\ logged' = [logged EXCEPT ![s] = Head(errCh[s])]
    /\ errCh' = [errCh EXCEPT ![s] = Tail(@)]
    /\ main' = Len(Servers)
    /\ UNCHANGED <<signalled, serving, state, shutdown>>

(* main receives from doneCh, then from errCh; after the last server it      *)
(* returns and the process ends.                                             *)
await ==
    LET s == Servers[main + 1] IN
    /\ Alive /\ shutdown[s] = "ended" /\ errCh[s] # <<>>
    /\ logged' = [logged EXCEPT ![s] = Head(errCh[s])]
    /\ errCh' = [errCh EXCEPT ![s] = Tail(@)]
    /\ main' = main + 1
    /\ UNCHANGED <<signalled, serving, state, shutdown>>

ShutdownNext ==
    \/ signal
    \/ \E s \in Names : Listen(s) \/ beginShutdown(s) \/ drained(s) \/ forceClose(s)
    \/ \E r \in Requests : accept(r) \/ answer(r)
    \/ await

ShutdownSpec == ShutdownInit /\ [][ShutdownNext]_shutdownVars

-----------------------------------------------------------------------------
(* Properties.                                                             *)

(* Main does not end the process while a request is in flight on either      *)
(* server (main.go:357-373), and no request is cut off on a server whose     *)
(* shutdown it logs as graceful (shutdown.go:52-67).                         *)
NoRequestAbandoned ==
    \A r \in Requests :
        /\ main = Len(Servers) => state[r] # "inflight"
        /\ state[r] = "cut" => logged[r[1]] # "nil"

(* A signal ends the process, although requests may hang and a server may    *)
(* not have started listening yet (main.go:333-373).                         *)
SignalEndsProcess == signalled ~> ~Alive
=============================================================================
