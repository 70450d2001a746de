------------------------------- MODULE Server -------------------------------
(***************************************************************************)
(* ListenAndServe with its graceful shutdown (server.go): the goroutine    *)
(* that called it, the goroutine it starts for http.Server.Serve, the      *)
(* channel between them, signals, and the requests being served.           *)
(*                                                                         *)
(* http.Server is modelled from how it is used here: Shutdown refuses new  *)
(* calls of Serve, closes the listener of a running one and waits for it   *)
(* to return, then waits until no request is being served or its context   *)
(* ends.  Hijacked connections are no concern of Shutdown.                 *)
(***************************************************************************)
EXTENDS Integers

CONSTANTS
  Requests,               \* requests of clients
  Timeouts,               \* values of Router.ShutdownTimeout
  DefaultShutdownTimeout,
  MaxTime                 \* bound: time spent in Shutdown

ASSUME ServerAssumption ==
  /\ Timeouts \subseteq Int
  /\ DefaultShutdownTimeout \in Nat \ {0} /\ MaxTime \in Nat
  /\ \A t \in Timeouts \cup {DefaultShutdownTimeout} : t <= MaxTime

VARIABLES
  main,             \* where ListenAndServe is
  result,           \* what it has returned
  ShutdownTimeout,  \* Router.ShutdownTimeout
  ctx,              \* the context that a signal ends
  loop,             \* where the goroutine that calls Serve is
  serveErr,         \* what Serve returned
  errc,             \* the channel, with room for one value
  listener,         \* the listening socket
  srv,              \* "shutdown" once Shutdown has been called
  elapsed,          \* time since then
  request           \* the requests

vars == <<main, result, ShutdownTimeout, ctx, loop, serveErr, errc,
          listener, srv, elapsed, request>>

-----------------------------------------------------------------------------
(* ListenAndServe and serve.                                               *)

Return(r) == main' = "returned" /\ result' = r

\* net.Listen
Listen(ok) ==
  /\ main = "listen"
  /\ IF ok THEN main' = "notify" /\ listener' = "open" /\ UNCHANGED result
     ELSE Return("listen error") /\ UNCHANGED listener
  /\ UNCHANGED <<ShutdownTimeout, ctx, loop, serveErr, errc, srv,
                 elapsed, request>>

\* signal.NotifyContext, and the start of the goroutine.
Notify ==
  /\ main = "notify"
  /\ main' = "select" /\ loop' = "ready"
  /\ UNCHANGED <<result, ShutdownTimeout, ctx, serveErr, errc, listener,
                 srv, elapsed, request>>

\* The select takes what Serve returned,
SelectServe ==
  /\ main = "select" /\ errc # "empty"
  /\ Return(errc) /\ errc' = "empty"
  /\ UNCHANGED <<ShutdownTimeout, ctx, loop, serveErr, listener,
                 srv, elapsed, request>>

\* or the signal, also when both are there, and goes on to Shutdown.
SelectSignal ==
  /\ main = "select" /\ ctx = "done"
  /\ main' = "shutdown" /\ srv' = "shutdown"
  /\ listener' = IF loop = "serving" THEN "closed" ELSE listener
  /\ UNCHANGED <<result, ShutdownTimeout, ctx, loop, serveErr, errc,
                 elapsed, request>>

\* Mutant of Timeout: what is configured is ignored.
TimeoutIgnored == DefaultShutdownTimeout

\* The time the drain may take.
Timeout ==
  IF ShutdownTimeout <= 0 THEN DefaultShutdownTimeout ELSE ShutdownTimeout

Serving == {r \in Requests : request[r] = "active"}

\* Mutant of ShutdownReturns: its context has no deadline.
ShutdownReturnsDrained ==
  /\ main = "shutdown" /\ loop # "serving" /\ Serving = {}
  /\ Return("nil")
  /\ UNCHANGED <<ShutdownTimeout, ctx, loop, serveErr, errc, listener,
                 srv, elapsed, request>>

\* Shutdown returns, and with it ListenAndServe.
ShutdownReturns ==
  /\ main = "shutdown" /\ loop # "serving"
  /\ \/ Serving = {} /\ Return("nil")
     \/ Serving # {} /\ elapsed >= Timeout /\ Return("deadline exceeded")
  /\ UNCHANGED <<ShutdownTimeout, ctx, loop, serveErr, errc, listener,
                 srv, elapsed, request>>

-----------------------------------------------------------------------------
(* The goroutine.                                                          *)

\* Serve begins, unless Shutdown came first; either way it owns the listener.
Serve ==
  /\ loop = "ready"
  /\ IF srv = "shutdown"
     THEN loop' = "stopped" /\ serveErr' = "closed" /\ listener' = "closed"
     ELSE loop' = "serving" /\ UNCHANGED <<serveErr, listener>>
  /\ UNCHANGED <<main, result, ShutdownTimeout, ctx, errc, srv,
                 elapsed, request>>

\* Accept fails for a reason of its own.
AcceptFails ==
  /\ loop = "serving" /\ listener = "open"
  /\ loop' = "stopped" /\ serveErr' = "serve error" /\ listener' = "closed"
  /\ UNCHANGED <<main, result, ShutdownTimeout, ctx, errc, srv,
                 elapsed, request>>

\* Accept fails because Shutdown closed the listener.
ServeClosed ==
  /\ loop = "serving" /\ listener = "closed"
  /\ loop' = "stopped" /\ serveErr' = "closed"
  /\ UNCHANGED <<main, result, ShutdownTimeout, ctx, errc, listener,
                 srv, elapsed, request>>

\* Mutant of Send: a channel without a buffer.
SendUnbuffered ==
  /\ loop = "stopped" /\ main = "select" /\ errc = "empty"
  /\ loop' = "done"
  /\ errc' = IF serveErr = "closed" THEN "nil" ELSE serveErr
  /\ UNCHANGED <<main, result, ShutdownTimeout, ctx, serveErr, listener,
                 srv, elapsed, request>>

\* Mutant of Send: every error is taken for ErrServerClosed.
SendNil ==
  /\ loop = "stopped" /\ errc = "empty"
  /\ loop' = "done" /\ errc' = "nil"
  /\ UNCHANGED <<main, result, ShutdownTimeout, ctx, serveErr, listener,
                 srv, elapsed, request>>

\* The goroutine reports what Serve returned; ErrServerClosed is no error.
Send ==
  /\ loop = "stopped" /\ errc = "empty"
  /\ loop' = "done"
  /\ errc' = IF serveErr = "closed" THEN "nil" ELSE serveErr
  /\ UNCHANGED <<main, result, ShutdownTimeout, ctx, serveErr, listener,
                 srv, elapsed, request>>

-----------------------------------------------------------------------------
(* The world.                                                              *)

\* SIGINT or SIGTERM.  Before NotifyContext it ends the program.
Signal ==
  /\ main \in {"listen", "notify", "select"} /\ ctx = "active"
  /\ IF main = "select" THEN ctx' = "done" /\ UNCHANGED main
     ELSE main' = "killed" /\ UNCHANGED ctx
  /\ UNCHANGED <<result, ShutdownTimeout, loop, serveErr, errc, listener,
                 srv, elapsed, request>>

\* A request is accepted; it is answered, or its handler hijacks the connection.
Accept(r) ==
  /\ loop = "serving" /\ listener = "open" /\ request[r] = "new"
  /\ request' = [request EXCEPT ![r] = "active"]
  /\ UNCHANGED <<main, result, ShutdownTimeout, ctx, loop, serveErr, errc,
                 listener, srv, elapsed>>

EndRequest(r, how) ==
  /\ request[r] = "active"
  /\ request' = [request EXCEPT ![r] = how]
  /\ UNCHANGED <<main, result, ShutdownTimeout, ctx, loop, serveErr, errc,
                 listener, srv, elapsed>>

Tick ==
  /\ main = "shutdown" /\ elapsed < MaxTime
  /\ elapsed' = elapsed + 1
  /\ UNCHANGED <<main, result, ShutdownTimeout, ctx, loop, serveErr, errc,
                 listener, srv, request>>

-----------------------------------------------------------------------------
Init ==
  /\ main = "listen" /\ result = "none" /\ ShutdownTimeout \in Timeouts
  /\ ctx = "active"
  /\ loop = "none" /\ serveErr = "none" /\ errc = "empty" /\ listener = "none"
  /\ srv = "open" /\ elapsed = 0
  /\ request = [r \in Requests |-> "new"]

Main == (\E ok \in BOOLEAN : Listen(ok)) \/ Notify \/ SelectServe \/ SelectSignal
        \/ ShutdownReturns

Loop == Serve \/ ServeClosed \/ Send

World ==
  \/ AcceptFails \/ Signal \/ Tick
  \/ \E r \in Requests : Accept(r) \/ EndRequest(r, "answered")
                         \/ EndRequest(r, "hijacked")

Next == Main \/ Loop \/ World

\* The goroutines run and time passes.  Nothing is assumed of signals, clients
\* and handlers.
Fairness == WF_vars(Main) /\ WF_vars(Loop) /\ WF_vars(Tick)

Spec == Init /\ [][Next]_vars
FairSpec == Spec /\ Fairness

-----------------------------------------------------------------------------
(* Properties.                                                             *)

\* The variables have their types.
TypeOK ==
  /\ main \in {"listen", "notify", "select", "shutdown", "returned", "killed"}
  /\ result \in {"none", "nil", "listen error", "serve error",
                 "deadline exceeded"}
  /\ ShutdownTimeout \in Timeouts /\ ctx \in {"active", "done"}
  /\ loop \in {"none", "ready", "serving", "stopped", "done"}
  /\ serveErr \in {"none", "closed", "serve error"}
  /\ errc \in {"empty", "nil", "serve error"}
  /\ listener \in {"none", "open", "closed"} /\ srv \in {"open", "shutdown"}
  /\ elapsed \in 0 .. MaxTime
  /\ request \in [Requests -> {"new", "active", "answered", "hijacked"}]

\* ListenAndServe returns nil only for a clean shutdown: a signal came, and from
\* then on no request is being served, nor is one accepted later, even when the
\* signal came before Serve had begun.
CleanShutdown ==
  result = "nil" => ctx = "done" /\ Serving = {} /\ loop # "serving"

\* When Serve fails, ListenAndServe returns its error unless a signal raced it,
\* and it returns an error of Serve for no other reason.
ErrorsReported ==
  /\ main = "returned" /\ serveErr = "serve error" =>
       result = "serve error" \/ ctx = "done"
  /\ result = "serve error" => serveErr = "serve error"

\* Requests get the configured time, or the default one when none is configured,
\* before ListenAndServe gives up on them.
DrainIsPatient ==
  result = "deadline exceeded" =>
    \/ ShutdownTimeout > 0 /\ elapsed >= ShutdownTimeout
    \/ ShutdownTimeout <= 0 /\ elapsed >= DefaultShutdownTimeout

\* The shutdown is graceful: nil means that everything was served, and nobody
\* is given up on before the time is over (serve, Shutdown).
GracefulShutdown == CleanShutdown /\ DrainIsPatient

\* A signal ends ListenAndServe, however long handlers take.
SignalEndsServer == ctx = "done" ~> main = "returned"

\* The goroutine ends too, whichever way the select went (the buffer of errc).
GoroutineEnds == main = "returned" /\ loop # "none" ~> loop = "done"
=============================================================================
