--------------------------- MODULE ServiceProcess ---------------------------
(***************************************************************************)
(* The process around a service, from its smoke check, if it makes one,    *)
(* and the start of its HTTP server to its exit: cmd/llm-gateway/main.go,  *)
(* and cmd/stream-ingestion/main.go whose main is cmd/hello/main.go's word *)
(* for word.  Two goroutines (main and the one that serves), a channel     *)
(* between them, the signals, the grace period of Shutdown and the         *)
(* requests in flight.                                                     *)
(*                                                                         *)
(* The two mains differ in what the constants say.  net/http, os/signal    *)
(* and the clients are modelled from their use.                            *)
(*                                                                         *)
(* As in ProviderRouter, X_Y is X with the plausible bug Y.                *)
(***************************************************************************)
EXTENDS Integers

CONSTANTS
  Clients,                \* one request each
  SmokeCheck,             \* one is made at startup (llm-gateway, if asked to)
  ForcedShutdownIsFatal,  \* an expired grace period is a failure (llm-gateway)
  ServesBeforeNotify      \* signals are taken over after serving began (llm-gateway)

VARIABLES
  main,          \* where the main goroutine is
  server,        \* the goroutine that serves: "unborn", "starting", "listening", or ended
  serverErrors,  \* the channel, of capacity 1: "empty", "closed" or "error"
  signaled,      \* has a signal been caught?
  grace,         \* the timer of the shutdown context: "off", "running", "expired"
  exit,          \* "none", or how the process ended: "zero", "failure", "killed"
  request        \* each client's request: "none", "active", "served", or "cut"

vars == <<main, server, serverErrors, signaled, grace, exit, request>>

Init ==
  /\ main = IF SmokeCheck THEN "smoke" ELSE "booting"
  /\ server = "unborn"
  /\ serverErrors = "empty"
  /\ signaled = FALSE
  /\ grace = "off"
  /\ exit = "none"
  /\ request = [c \in Clients |-> "none"]

\* The process is gone, and with it what was in flight.
Exit(how) ==
  /\ main' = "exited"
  /\ exit' = how
  /\ server' = "gone"
  /\ request' = [c \in Clients |-> IF request[c] = "active" THEN "cut" ELSE request[c]]

-----------------------------------------------------------------------------
(* The main goroutine.                                                     *)

SmokePasses ==
  /\ main = "smoke"
  /\ main' = "booting"
  /\ UNCHANGED <<server, serverErrors, signaled, grace, exit, request>>

\* A process whose smoke check fails never serves.
SmokeFails ==
  /\ main = "smoke"
  /\ Exit("failure")
  /\ UNCHANGED <<serverErrors, signaled, grace>>

StartServing ==
  /\ main = "booting" /\ server = "unborn"
  /\ ServesBeforeNotify
  /\ server' = "starting"
  /\ UNCHANGED <<main, serverErrors, signaled, grace, exit, request>>

\* signal.Notify; the service that has not begun to serve does so now.
Notify ==
  /\ main = "booting"
  /\ ServesBeforeNotify => server # "unborn"
  /\ main' = "waiting"
  /\ server' = IF server = "unborn" THEN "starting" ELSE server
  /\ UNCHANGED <<serverErrors, signaled, grace, exit, request>>

\* The select takes the error: Shutdown has not been called, so it is one.
ServerFailed ==
  /\ main = "waiting" /\ serverErrors # "empty"
  /\ Exit(IF serverErrors = "closed" THEN "zero" ELSE "failure")
  /\ UNCHANGED <<serverErrors, signaled, grace>>

\* The select takes the signal, also when an error waits in the channel.
BeginShutdown ==
  /\ main = "waiting" /\ signaled
  /\ main' = "draining"
  /\ UNCHANGED <<server, serverErrors, signaled, grace, exit, request>>

CloseListener_NoTimeout ==
  /\ main = "draining"
  /\ main' = "shutdown"
  /\ UNCHANGED <<server, serverErrors, signaled, grace, exit, request>>

\* Shutdown closes the listener; its context's time starts to run.
CloseListener ==
  /\ main = "draining"
  /\ main' = "shutdown"
  /\ grace' = "running"
  /\ UNCHANGED <<server, serverErrors, signaled, exit, request>>

ShutdownReturns_Unawaited ==
  /\ main = "shutdown"
  /\ Exit("zero")
  /\ UNCHANGED <<serverErrors, signaled, grace>>

\* Shutdown returns nil once no request is active.
ShutdownReturns ==
  /\ main = "shutdown"
  /\ \A c \in Clients : request[c] # "active"
  /\ Exit("zero")
  /\ UNCHANGED <<serverErrors, signaled, grace>>

ShutdownTimesOut ==
  /\ main = "shutdown" /\ grace = "expired"
  /\ Exit(IF ForcedShutdownIsFatal THEN "failure" ELSE "zero")
  /\ UNCHANGED <<serverErrors, signaled, grace>>

MainStep ==
  \/ SmokePasses
  \/ SmokeFails
  \/ StartServing
  \/ Notify
  \/ ServerFailed
  \/ BeginShutdown
  \/ CloseListener
  \/ ShutdownReturns
  \/ ShutdownTimesOut

-----------------------------------------------------------------------------
(* The serving goroutine.                                                  *)

Listen ==
  /\ server = "starting" /\ main # "shutdown"
  /\ server' = "listening"
  /\ UNCHANGED <<main, serverErrors, signaled, grace, exit, request>>

\* ListenAndServe fails: the port is taken, or Accept failed for good.
ServeFails ==
  /\ server \in {"starting", "listening"} /\ main # "shutdown"
  /\ server' = "failed"
  /\ serverErrors' = "error"
  /\ UNCHANGED <<main, signaled, grace, exit, request>>

\* ListenAndServe returns ErrServerClosed, which only the gateway sends on.
ServeIsClosed ==
  /\ server \in {"starting", "listening"} /\ main = "shutdown"
  /\ server' = "closed"
  /\ serverErrors' = IF ForcedShutdownIsFatal THEN "closed" ELSE serverErrors
  /\ UNCHANGED <<main, signaled, grace, exit, request>>

ServerStep == Listen \/ ServeFails \/ ServeIsClosed

-----------------------------------------------------------------------------
(* The environment.                                                        *)

\* Signals are caught, no longer deadly.
Notified == main \notin {"smoke", "booting"}

SignalArrives ==
  /\ main # "exited" /\ ~signaled
  /\ \/ ~Notified /\ Exit("killed") /\ UNCHANGED signaled
     \/ Notified /\ signaled' = TRUE /\ UNCHANGED <<main, server, exit, request>>
  /\ UNCHANGED <<serverErrors, grace>>

GraceExpires ==
  /\ grace = "running" /\ main = "shutdown"
  /\ grace' = "expired"
  /\ UNCHANGED <<main, server, serverErrors, signaled, exit, request>>

Connect(c) ==
  /\ server = "listening" /\ main # "shutdown"
  /\ request[c] = "none"
  /\ request' = [request EXCEPT ![c] = "active"]
  /\ UNCHANGED <<main, server, serverErrors, signaled, grace, exit>>

\* A handler answers.  The readiness handler says "ready" whatever main does.
Serve(c) ==
  /\ main # "exited" /\ request[c] = "active"
  /\ request' = [request EXCEPT ![c] = "served"]
  /\ UNCHANGED <<main, server, serverErrors, signaled, grace, exit>>

Exited == main = "exited" /\ UNCHANGED vars

Next ==
  \/ MainStep
  \/ ServerStep
  \/ SignalArrives
  \/ GraceExpires
  \/ \E c \in Clients : Connect(c) \/ Serve(c)
  \/ Exited

Spec == Init /\ [][Next]_vars

\* The runtime schedules main and fires the timer; no handler need ever return.
Fairness == WF_vars(MainStep) /\ WF_vars(GraceExpires)

FairSpec == Spec /\ Fairness

-----------------------------------------------------------------------------
(* Properties.                                                             *)

TypeOK ==
  /\ main \in {"smoke", "booting", "waiting", "draining", "shutdown", "exited"}
  /\ server \in {"unborn", "starting", "listening", "failed", "closed", "gone"}
  /\ serverErrors \in {"empty", "closed", "error"}
  /\ signaled \in BOOLEAN
  /\ grace \in {"off", "running", "expired"}
  /\ exit \in {"none", "zero", "failure", "killed"}
  /\ request \in [Clients -> {"none", "active", "served", "cut"}]
  /\ exit = "none" <=> main # "exited"
  /\ main = "shutdown" => grace # "off"

\* The process reports success only after a signal and with every request it
\* accepted served.
SuccessLeavesNobodyBehind ==
  exit = "zero" => signaled /\ \A c \in Clients : request[c] # "cut"

\* A caught signal ends the process, even under a handler that never returns.
SignalEndsTheProcess == signaled ~> (main = "exited")
=============================================================================
