-------------------------- MODULE ServerLifecycle --------------------------
(***************************************************************************)
(* cmd/route-server/main.go, runHTTPServer and the end of main: the serve  *)
(* goroutine, the wait for its error or a signal, and the shutdown with    *)
(* its 15-second limit.  net/http is external and modelled by what its     *)
(* documentation promises of ListenAndServe, Shutdown and Close.  Server   *)
(* adds what the handlers do.                                              *)
(***************************************************************************)
EXTENDS FiniteSets

CONSTANTS Requests

VARIABLES
  main,         \* where runHTTPServer (then main) is
  serve,        \* where the goroutine with ListenAndServe is
  serveErrors,  \* content of the channel of capacity one
  signal,       \* a signal lies in shutdownSignals
  inShutdown,   \* http.Server: Shutdown or Close was called
  shutdownErr,  \* what Shutdown returned
  result,       \* what runHTTPServer returned
  requests      \* each request: not accepted yet, in a handler, or how it ended

vars == <<main, serve, serveErrors, signal, inShutdown, shutdownErr, result, requests>>

Errors == {"none", "closed", "broken"}

(* How a handler's reply fares: read by the client, written after the      *)
(* connection's deadline, or written to a client that has left.            *)
Ends == {"answered", "late", "left"}

TypeOK ==
  /\ main        \in {"select", "call", "shutdown", "close", "receive", "returned", "exited"}
  /\ serve       \in {"starting", "listening", "returned"}
  /\ serveErrors \in Errors
  /\ signal      \in BOOLEAN
  /\ inShutdown  \in BOOLEAN
  /\ shutdownErr \in {"none", "listener", "deadline"}
  /\ result      \in {"none", "nil", "broken", "ungraceful"}
  /\ requests    \in [Requests -> {"absent", "active", "cut"} \cup Ends]
  /\ serveErrors # "none" => serve = "returned"
  /\ result = "none" <=> main \notin {"returned", "exited"}

Init ==
  /\ main = "select" /\ serve = "starting" /\ serveErrors = "none"
  /\ signal = FALSE /\ inShutdown = FALSE
  /\ shutdownErr = "none" /\ result = "none"
  /\ requests = [r \in Requests |-> "absent"]

Active == {r \in Requests : requests[r] = "active"}
CutOff == [r \in Requests |-> IF r \in Active THEN "cut" ELSE requests[r]]

----------------------------------------------------------------------------
(* ListenAndServe in its goroutine. *)

Listen ==
  /\ serve = "starting" /\ ~inShutdown /\ main # "exited"
  /\ serve' = "listening"
  /\ UNCHANGED <<main, serveErrors, signal, inShutdown, shutdownErr, result, requests>>

ServeReturns(err) ==
  /\ serve # "returned" /\ main # "exited"
  /\ serve' = "returned" /\ serveErrors' = err
  /\ UNCHANGED <<main, signal, inShutdown, shutdownErr, result, requests>>

(* ErrServerClosed once the server is being shut down, even if it had not  *)
(* begun to listen; before that, the address or the listener may fail.     *)
ServeCloses == inShutdown /\ ServeReturns("closed")
ServeBreaks == ~inShutdown /\ ServeReturns("broken")

Accept(r) ==
  /\ serve = "listening" /\ ~inShutdown /\ requests[r] = "absent" /\ main # "exited"
  /\ requests' = [requests EXCEPT ![r] = "active"]
  /\ UNCHANGED <<main, serve, serveErrors, signal, inShutdown, shutdownErr, result>>

HandlerReturns(r, end) ==
  /\ requests[r] = "active" /\ main # "exited"
  /\ requests' = [requests EXCEPT ![r] = end]
  /\ UNCHANGED <<main, serve, serveErrors, signal, inShutdown, shutdownErr, result>>

(* signal.Notify, whose channel keeps one signal and drops the next.       *)
Signal ==
  /\ main # "exited" /\ ~signal
  /\ signal' = TRUE
  /\ UNCHANGED <<main, serve, serveErrors, inShutdown, shutdownErr, result, requests>>

----------------------------------------------------------------------------
(* runHTTPServer *)

SelectError ==
  /\ main = "select" /\ serveErrors # "none"
  /\ result' = IF serveErrors = "closed" THEN "nil" ELSE "broken"
  /\ main' = "returned" /\ serveErrors' = "none"
  /\ UNCHANGED <<serve, signal, inShutdown, shutdownErr, requests>>

SelectSignal ==
  /\ main = "select" /\ signal
  /\ main' = "call" /\ signal' = FALSE
  /\ UNCHANGED <<serve, serveErrors, inShutdown, shutdownErr, result, requests>>

(* Wrong: the server is asked for its error without having been stopped. *)
ShutdownForgotten ==
  /\ main = "call"
  /\ main' = "receive"
  /\ UNCHANGED <<serve, serveErrors, signal, inShutdown, shutdownErr, result, requests>>

(* server.Shutdown closes the listener ... *)
CallShutdown ==
  /\ main = "call"
  /\ main' = "shutdown" /\ inShutdown' = TRUE
  /\ UNCHANGED <<serve, serveErrors, signal, shutdownErr, result, requests>>

(* ... and returns when all handlers have, or when its 15 seconds are over. *)
ShutdownReturns ==
  /\ main = "shutdown" /\ Active = {}
  /\ shutdownErr' \in {"none", "listener"}
  /\ main' = IF shutdownErr' = "none" THEN "receive" ELSE "close"
  /\ UNCHANGED <<serve, serveErrors, signal, inShutdown, result, requests>>

ShutdownExpires ==
  /\ main = "shutdown" /\ Active # {}
  /\ shutdownErr' = "deadline" /\ main' = "close"
  /\ UNCHANGED <<serve, serveErrors, signal, inShutdown, result, requests>>

(* server.Close ends the connections of handlers at work. *)
Close ==
  /\ main = "close"
  /\ requests' = CutOff /\ main' = "receive"
  /\ UNCHANGED <<serve, serveErrors, signal, inShutdown, shutdownErr, result>>

(* Wrong: the shutdown error is overwritten by the serve error. *)
OutcomeOfServe == IF serveErrors = "closed" THEN "nil" ELSE "broken"

Outcome ==
  IF shutdownErr # "none" THEN "ungraceful"
  ELSE IF serveErrors = "closed" THEN "nil" ELSE "broken"

Receive ==
  /\ main = "receive" /\ serveErrors # "none"
  /\ result' = Outcome
  /\ main' = "returned" /\ serveErrors' = "none"
  /\ UNCHANGED <<serve, signal, inShutdown, shutdownErr, requests>>

(* Wrong: the result is lost on the way out. *)
ExitForgetting ==
  /\ main = "returned"
  /\ main' = "exited" /\ result' = "none" /\ requests' = CutOff
  /\ UNCHANGED <<serve, serveErrors, signal, inShutdown, shutdownErr>>

(* The process ends, with log.Fatalf unless the result is nil; whatever    *)
(* still runs is gone.                                                     *)
Exit ==
  /\ main = "returned"
  /\ main' = "exited" /\ requests' = CutOff
  /\ UNCHANGED <<serve, serveErrors, signal, inShutdown, shutdownErr, result>>

Main == \/ SelectError \/ SelectSignal \/ CallShutdown \/ ShutdownReturns
        \/ ShutdownExpires \/ Close \/ Receive \/ Exit

Process == Main \/ Listen \/ ServeCloses \/ ServeBreaks \/ Signal

----------------------------------------------------------------------------
(* cmd/route-server/README.md:86, "graceful shutdown": a process that ends *)
(* with success has cut no handler off.                                    *)
SuccessMeansAnswered ==
  main = "exited" /\ result = "nil" => \A r \in Requests : requests[r] # "cut"

(* A signal ends the process, however long the handlers take and whatever  *)
(* the serve goroutine is doing when it comes.                             *)
SignalStops == signal ~> main = "exited"
============================================================================
