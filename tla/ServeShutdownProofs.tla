-------------------------- MODULE ServeShutdownProofs --------------------------
(***************************************************************************)
(* What a stop of the service costs, for any number of calls.  The         *)
(* invariant follows the order of runServe: a server takes no calls once   *)
(* it is told to stop, HTTP calls left over mean that the ten seconds are  *)
(* up, and when the deferred calls begin there is no gRPC call left.       *)
(***************************************************************************)
EXTENDS ServeShutdown, TLAPS

Stopping == {"stopping", "closing", "clean"}

\* A server that was told to stop is not up.
ServersDown ==
    /\ main \in {"draining"} \cup Stopping => server["http"] # "up" /\ server["http"] # "starting"
    /\ main \in Stopping => server["grpc"] # "up" /\ server["grpc"] # "starting"

\* The ten seconds are up only after the drain.
TimerInOrder == timer = "expired" => main \in Stopping \cup {"fatal"}

CallsFollow(c) ==
    /\ phase[c] # "none" => via[c] \in Servers
    /\ phase[c] \in Running /\ via[c] = "http" /\ main \in Stopping => timer = "expired"
    /\ phase[c] \in Running /\ via[c] = "grpc" => main \notin {"closing", "clean"}
    /\ phase[c] = "failed" => LateHttp(c)
    /\ phase[c] = "insert" => c \in checkouts

IInv == TypeOK /\ ServersDown /\ TimerInOrder /\ \A c \in Calls : CallsFollow(c)

\* The initial state has every part.
LEMMA InitIInv == Init => IInv
  BY NoServerAssumption DEF Init, IInv, TypeOK, ServersDown, TimerInOrder, CallsFollow,
     LateHttp, Servers, Stopping, Running, Ended

\* runServe keeps every part: it waits before it goes on.
LEMMA MainKeeps == ASSUME IInv, Main PROVE IInv'
<1> USE DEF IInv, TypeOK, ServersDown, TimerInOrder, CallsFollow, LateHttp, Servers,
    Stopping, Running, Ended, mainVars, clientVars, callVars, effects
<1>1. CASE Setup BY <1>1 DEF Setup
<1>2. CASE SetupFails BY <1>2 DEF SetupFails
<1>3. CASE Notify BY <1>3 DEF Notify
<1>4. CASE Shutdown BY <1>4 DEF Shutdown, Closed
<1>5. CASE Drained BY <1>5 DEF Drained, StopGrpc, Closed, InFlight
<1>6. CASE DrainTimesOut BY <1>6 DEF DrainTimesOut, StopGrpc, Closed
<1>7. CASE GracefulStop BY <1>7 DEF GracefulStop, InFlight
<1>8. CASE CloseAuth BY <1>8 DEF CloseAuth
<1>9. CASE CloseDatabase BY <1>9 DEF CloseDatabase
<1>10. CASE Exit BY <1>10 DEF Exit
<1> QED BY <1>1, <1>2, <1>3, <1>4, <1>5, <1>6, <1>7, <1>8, <1>9, <1>10 DEF Main

\* So do the goroutines of the servers, and signals.
LEMMA ServersKeep ==
    ASSUME IInv,
           \/ \E s \in Servers : Serve(s)
           \/ HTTPServerError \/ GRPCServerError \/ Signal
    PROVE  IInv'
<1> USE DEF IInv, TypeOK, ServersDown, TimerInOrder, CallsFollow, LateHttp, Servers,
    Stopping, Running, Ended, Alive, mainVars, clientVars, callVars, effects
<1>1. ASSUME NEW s \in Servers, Serve(s) PROVE IInv' BY <1>1 DEF Serve
<1>2. CASE HTTPServerError BY <1>2 DEF HTTPServerError
<1>3. CASE GRPCServerError BY <1>3 DEF GRPCServerError
<1>4. CASE Signal BY <1>4 DEF Signal
<1> QED BY <1>1, <1>2, <1>3, <1>4

\* A call is taken only by a server that is up.
LEMMA ArriveKeeps ==
    ASSUME IInv, NEW c \in Calls, NEW s \in Servers, Arrive(c, s) PROVE IInv'
  BY DEF Arrive, IInv, TypeOK, ServersDown, TimerInOrder, CallsFollow, LateHttp, Servers,
     Stopping, Running, Ended, Alive, mainVars, clientVars, callVars, effects

\* A step of a call that finds something closed is a late HTTP call's.
LEMMA StepKeeps ==
    ASSUME IInv, NEW c \in Calls, NEW from \in Running, NEW open \in BOOLEAN,
           NEW to \in Running \cup {"answered"},
           open \/ ~auth, Step(c, from, open, to),
           rows' \subseteq checkouts', checkouts' \subseteq Calls,
           checkouts \subseteq checkouts', to = "insert" => c \in checkouts'
    PROVE  IInv'
<1> USE DEF Step, IInv, Servers, Stopping, Running, Ended, mainVars, clientVars
<1>1. /\ phase' = [phase EXCEPT ![c] = IF open THEN to ELSE "failed"]
      /\ UNCHANGED <<main, quit, timer, server, auth, db, via>>
      /\ phase[c] \in Running /\ phase[c] # "none" /\ Alive
  OBVIOUS
<1>2. TypeOK' BY <1>1 DEF TypeOK
<1>3. ServersDown' /\ TimerInOrder' BY <1>1 DEF ServersDown, TimerInOrder
<1>4. ~open => LateHttp(c)
  <2> SUFFICES ASSUME ~open PROVE LateHttp(c) OBVIOUS
  <2>1. main = "closing" BY <1>1 DEF TypeOK, Alive
  <2> QED BY <1>1, <2>1 DEF CallsFollow, LateHttp
<1>5. ASSUME NEW d \in Calls PROVE CallsFollow(d)'
  <2>1. CASE d = c BY <1>1, <1>4, <2>1 DEF CallsFollow, LateHttp, TypeOK
  <2>2. CASE d # c BY <1>1, <2>2 DEF CallsFollow, LateHttp, TypeOK
  <2> QED BY <2>1, <2>2
<1> QED BY <1>2, <1>3, <1>5

\* Each step of a call is such a step.
LEMMA HandleKeeps == ASSUME IInv, NEW c \in Calls, Handle(c) PROVE IInv'
<1>0. IInv /\ rows \subseteq checkouts /\ checkouts \subseteq Calls
      /\ auth \in BOOLEAN /\ db \in BOOLEAN /\ (~db => ~auth)
  BY DEF IInv, TypeOK
<1>1. CASE Authenticate(c)
  BY <1>0, <1>1, StepKeeps DEF Authenticate, effects, Running
<1>2. CASE Find(c)
  BY <1>0, <1>2, StepKeeps DEF Find, effects, Running
<1>3. CASE Post(c)
  <2>1. Step(c, "stripe", TRUE, "insert") /\ checkouts' = checkouts \cup {c} /\ rows' = rows
    BY <1>3 DEF Post
  <2>2. rows' \subseteq checkouts' /\ checkouts' \subseteq Calls BY <1>0, <2>1
  <2> QED BY <1>0, <2>1, <2>2, StepKeeps DEF Running
<1>4. CASE Insert(c)
  <2>1. Step(c, "insert", db, "answered") /\ checkouts' = checkouts
        /\ rows' \subseteq rows \cup {c}
    BY <1>4 DEF Insert
  <2>2. c \in checkouts BY <1>4 DEF Insert, Step, IInv, CallsFollow
  <2>3. rows' \subseteq checkouts' /\ checkouts' \subseteq Calls BY <1>0, <2>1, <2>2
  <2> QED BY <1>0, <2>1, <2>3, StepKeeps DEF Running
<1> QED BY <1>1, <1>2, <1>3, <1>4 DEF Handle

\* All actions of the process.
LEMMA NextKeeps == ASSUME IInv, [Next]_vars PROVE IInv'
<1>1. CASE UNCHANGED vars
  BY <1>1 DEF vars, mainVars, clientVars, callVars, effects, IInv, TypeOK, ServersDown,
     TimerInOrder, CallsFollow, LateHttp
<1>2. CASE Next
  <2>1. CASE \E c \in Calls, s \in Servers : Arrive(c, s) BY <2>1, ArriveKeeps
  <2>2. CASE \E c \in Calls : Handle(c) BY <2>2, HandleKeeps
  <2>3. CASE Main BY <2>3, MainKeeps
  <2>4. CASE \/ \E s \in Servers : Serve(s)
             \/ HTTPServerError \/ GRPCServerError \/ Signal
    BY <2>4, ServersKeep
  <2> QED BY <1>2, <2>1, <2>2, <2>3, <2>4 DEF Next
<1> QED BY <1>1, <1>2

\* The invariant of every behaviour.
THEOREM StopInvariant == Spec => []IInv
  BY InitIInv, NextKeeps, PTL DEF Spec

\* The variables keep their types, and the clients are closed at the end and in
\* order (the defers of runServe).
THEOREM ServeTypesCorrect == Spec => []TypeOK
  BY StopInvariant, PTL DEF IInv

\* A clean stop has answered all calls but HTTP calls that outlived ten seconds
\* (Shutdown, GracefulStop), however many calls there are.
THEOREM CleanStopsAnswer == Spec => []CleanStopAnswers
<1>1. IInv => CleanStopAnswers
  <2> SUFFICES ASSUME IInv, main = "clean", NEW c \in Calls,
                      phase[c] \notin {"none", "answered"}
               PROVE  LateHttp(c)
    BY DEF CleanStopAnswers
  <2>1. phase[c] = "failed" \/ phase[c] \in Running BY DEF IInv, TypeOK
  <2>2. CallsFollow(c) BY DEF IInv
  <2>3. phase[c] # "none" /\ main \in Stopping BY DEF Stopping
  <2> QED BY <2>1, <2>2, <2>3 DEF CallsFollow, LateHttp, Servers
<1> QED BY <1>1, StopInvariant, PTL

\* And only such calls can leave a checkout at Stripe without a payment.
THEOREM OrphansComeLate == Spec => []OrphansAreLateHttp
<1>1. IInv => OrphansAreLateHttp
  <2> SUFFICES ASSUME IInv, NEW c \in checkouts \ rows, phase[c] = "failed"
               PROVE  LateHttp(c)
    BY DEF OrphansAreLateHttp
  <2> QED BY DEF IInv, TypeOK, CallsFollow
<1> QED BY <1>1, StopInvariant, PTL
===============================================================================
