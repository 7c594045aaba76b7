----------------------------- MODULE ServeShutdown -----------------------------
(***************************************************************************)
(* runServe: two servers over one database and one auth client, started in *)
(* goroutines and stopped by a signal.  HTTP gets ten seconds to finish    *)
(* its calls, then gRPC as long as it takes, then the clients are closed   *)
(* and the process ends.                                                   *)
(*                                                                         *)
(* The calls are CreatePayment's, the ones with most to lose: authenticate *)
(* the caller, SELECT, POST to Stripe, INSERT, answer.  What else may fail *)
(* in them is CreatePayment's subject.                                     *)
(***************************************************************************)
EXTENDS FiniteSets

CONSTANTS Calls, NoServer

Servers == {"http", "grpc"}

ASSUME NoServerAssumption == NoServer \notin Servers

VARIABLES
    main,       \* where runServe is, or how the process ended
    server,     \* "starting", "up", "down" or "refused" each
    quit,       \* is a signal waiting in the channel
    timer,      \* shutdownCtx: "off", "running" or "expired"
    auth, db,   \* are the auth client and the database open
    via,        \* the server that took a call
    phase,      \* where a call is
    checkouts,  \* calls Stripe made a checkout for
    rows        \* calls whose payment is stored

mainVars == <<main, quit, timer>>
clientVars == <<auth, db>>
effects == <<checkouts, rows>>
callVars == <<via, phase, effects>>
vars == <<mainVars, server, clientVars, callVars>>

Ended == {"clean", "fatal", "killed"}
Running == {"auth", "find", "stripe", "insert"}

InFlight(s) == {c \in Calls : via[c] = s /\ phase[c] \in Running}

Init ==
    /\ main = "setup"
    /\ server = [s \in Servers |-> "starting"]
    /\ quit = FALSE /\ timer = "off"
    /\ auth = TRUE /\ db = TRUE
    /\ via = [c \in Calls |-> NoServer]
    /\ phase = [c \in Calls |-> "none"]
    /\ checkouts = {} /\ rows = {}

-------------------------------------------------------------------------------
(* runServe.                                                               *)

\* The clients and both servers are made and the goroutines started.
Setup ==
    /\ main = "setup"
    /\ main' = "started"
    /\ UNCHANGED <<quit, timer, server, clientVars, callVars>>

\* Configuration, database, or the gRPC port: logrus.Fatal.
SetupFails ==
    /\ main = "setup"
    /\ main' = "fatal"
    /\ UNCHANGED <<quit, timer, server, clientVars, callVars>>

Notify ==
    /\ main = "started"
    /\ main' = "serving"
    /\ UNCHANGED <<quit, timer, server, clientVars, callVars>>

\* A listener that is up is closed; a goroutine that has not come so far will
\* be refused.
Closed(s) == [server EXCEPT ![s] = IF @ = "starting" THEN "refused" ELSE "down"]

\* <-quit, and e.Shutdown closes the HTTP listener.
Shutdown ==
    /\ main = "serving" /\ quit
    /\ main' = "draining"
    /\ quit' = FALSE
    /\ timer' = "running"
    /\ server' = Closed("http")
    /\ UNCHANGED <<clientVars, callVars>>

\* GracefulStop closes the gRPC listener.
StopGrpc ==
    /\ main' = "stopping"
    /\ server' = Closed("grpc")
    /\ UNCHANGED <<quit, clientVars, callVars>>

\* Mutant: the HTTP server is closed without waiting for its calls.
NotDrained ==
    /\ main = "draining"
    /\ UNCHANGED timer
    /\ StopGrpc

\* Shutdown returns: no HTTP call is left ...
Drained ==
    /\ main = "draining"
    /\ InFlight("http") = {}
    /\ UNCHANGED timer
    /\ StopGrpc

\* Mutant: Shutdown(context.Background()).
DrainsForever ==
    /\ main = "draining"
    /\ InFlight("http") = {}
    /\ timer' = "expired"
    /\ StopGrpc

\* ... or ten seconds are over, a warning is logged, and they go on.
DrainTimesOut ==
    /\ main = "draining"
    /\ timer' = "expired"
    /\ StopGrpc

\* Mutant: Stop instead of GracefulStop.
StopsAtOnce ==
    /\ main = "stopping"
    /\ main' = "closing"
    /\ UNCHANGED <<quit, timer, server, clientVars, callVars>>

\* GracefulStop returns: no gRPC call is left.
GracefulStop ==
    /\ main = "stopping"
    /\ InFlight("grpc") = {}
    /\ main' = "closing"
    /\ UNCHANGED <<quit, timer, server, clientVars, callVars>>

\* The deferred calls: the auth client, then the database.
CloseAuth ==
    /\ main = "closing" /\ auth
    /\ auth' = FALSE
    /\ UNCHANGED <<mainVars, server, db, callVars>>

\* Mutant: the defers the other way round.
CloseDatabaseFirst ==
    /\ main = "closing" /\ db
    /\ db' = FALSE
    /\ UNCHANGED <<mainVars, server, auth, callVars>>

CloseDatabase ==
    /\ main = "closing" /\ ~auth /\ db
    /\ db' = FALSE
    /\ UNCHANGED <<mainVars, server, auth, callVars>>

Exit ==
    /\ main = "closing" /\ ~db
    /\ main' = "clean"
    /\ UNCHANGED <<quit, timer, server, clientVars, callVars>>

-------------------------------------------------------------------------------
(* The goroutines of the servers.                                          *)

Alive == main \notin Ended \cup {"setup"}

\* e.Start, or grpcSrv.Serve.
Serve(s) ==
    /\ Alive
    /\ server[s] = "starting"
    /\ server' = [server EXCEPT ![s] = "up"]
    /\ UNCHANGED <<mainVars, clientVars, callVars>>

\* Listening on the port, or Accept, fails: logrus.Fatal, and nothing is
\* waited for.
HTTPServerError ==
    /\ Alive
    /\ server["http"] # "down"
    /\ main' = "fatal"
    /\ UNCHANGED <<quit, timer, server, clientVars, callVars>>

\* Accept fails, or Serve came too late: ErrServerStopped, where HTTP would
\* have taken ErrServerClosed for an answer.
GRPCServerError ==
    /\ Alive
    /\ server["grpc"] # "down"
    /\ main' = "fatal"
    /\ UNCHANGED <<quit, timer, server, clientVars, callVars>>

\* SIGINT or SIGTERM, which kills a process that does not listen yet.
Signal ==
    /\ main \notin Ended
    /\ IF main \in {"setup", "started"}
       THEN main' = "killed" /\ UNCHANGED quit
       ELSE quit' = TRUE /\ UNCHANGED main
    /\ UNCHANGED <<timer, server, clientVars, callVars>>

-------------------------------------------------------------------------------
(* A call.                                                                 *)

Arrive(c, s) ==
    /\ Alive
    /\ phase[c] = "none"
    /\ server[s] = "up"
    /\ via' = [via EXCEPT ![c] = s]
    /\ phase' = [phase EXCEPT ![c] = "auth"]
    /\ UNCHANGED <<mainVars, server, clientVars, effects>>

\* A step of call c that needs something open; it fails if that is closed.
Step(c, from, open, to) ==
    /\ Alive
    /\ phase[c] = from
    /\ phase' = [phase EXCEPT ![c] = IF open THEN to ELSE "failed"]
    /\ UNCHANGED <<mainVars, server, clientVars, via>>

Authenticate(c) == Step(c, "auth", auth, "find") /\ UNCHANGED effects
Find(c) == Step(c, "find", db, "stripe") /\ UNCHANGED effects

Post(c) ==
    /\ Step(c, "stripe", TRUE, "insert")
    /\ checkouts' = checkouts \cup {c}
    /\ UNCHANGED rows

Insert(c) ==
    /\ Step(c, "insert", db, "answered")
    /\ rows' = IF db THEN rows \cup {c} ELSE rows
    /\ UNCHANGED checkouts

Handle(c) == Authenticate(c) \/ Find(c) \/ Post(c) \/ Insert(c)

Main ==
    \/ Setup \/ SetupFails \/ Notify
    \/ Shutdown \/ Drained \/ DrainTimesOut \/ GracefulStop
    \/ CloseAuth \/ CloseDatabase \/ Exit

Next ==
    \/ Main
    \/ \E s \in Servers : Serve(s)
    \/ HTTPServerError \/ GRPCServerError
    \/ Signal
    \/ \E c \in Calls, s \in Servers : Arrive(c, s)
    \/ \E c \in Calls : Handle(c)

Spec == Init /\ [][Next]_vars

\* runServe goes on, its timer included, and a gRPC call ends some day: it
\* talks to Stripe under a timeout, and MySQL answers.  HTTP calls may hang.
Fairness ==
    /\ WF_vars(Main)
    /\ \A c \in Calls : WF_vars(via[c] = "grpc" /\ Handle(c))

FairSpec == Spec /\ Fairness

-------------------------------------------------------------------------------
\* Types; the clients are closed at the very end, and in order.
TypeOK ==
    /\ main \in {"setup", "started", "serving", "draining", "stopping", "closing"} \cup Ended
    /\ server \in [Servers -> {"starting", "up", "down", "refused"}]
    /\ quit \in BOOLEAN /\ timer \in {"off", "running", "expired"}
    /\ auth \in BOOLEAN /\ db \in BOOLEAN
    /\ ~db => ~auth
    /\ ~auth => main \in {"closing", "clean", "fatal"}
    /\ via \in [Calls -> Servers \cup {NoServer}]
    /\ phase \in [Calls -> {"none", "answered", "failed"} \cup Running]
    /\ rows \subseteq checkouts /\ checkouts \subseteq Calls

LateHttp(c) == via[c] = "http" /\ timer = "expired"

\* A stop that ends well has answered every call it took, but for HTTP calls
\* that were still running after ten seconds (Shutdown, GracefulStop, and only
\* then the deferred calls).
CleanStopAnswers ==
    main = "clean" => \A c \in Calls : phase[c] \in {"none", "answered"} \/ LateHttp(c)

\* Stopping never costs a checkout its payment but for those calls: a call that
\* finds the database closed after its POST to Stripe, whose customer can pay a
\* link that no row knows, came over HTTP and outlived the ten seconds.
OrphansAreLateHttp ==
    \A c \in checkouts \ rows : phase[c] = "failed" => LateHttp(c)

\* A signal that was heard ends the process, whatever HTTP calls hang
\* (context.WithTimeout): nothing but a gRPC call can hold it up.
StopsOnSignal == quit ~> main \in Ended
===============================================================================
