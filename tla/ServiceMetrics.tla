---------------------------- MODULE ServiceMetrics ----------------------------
(***************************************************************************)
(* What the two services of hw7 count, and what a refused or lost call does *)
(* to the counters: metricsMiddleware and the handlers it wraps            *)
(* (hw7/cmd/booking/main.go:75-238), the stubs of the generated gRPC code  *)
(* (gen/flightpb/flight_grpc.pb.go:46-207), and the chain of               *)
(* metricsInterceptor and authInterceptor (hw7/cmd/flight/main.go:79-136). *)
(*                                                                         *)
(* FlightService and FlightBooking model what the handlers do to the       *)
(* databases; here only the code they end with matters.  The counters live *)
(* in the memory of a process and start from zero with it.                 *)
(***************************************************************************)
EXTENDS Integers, FiniteSets

CONSTANTS
    Requests,      \* HTTP requests to the booking service
    RouteOf,       \* the route of a request: "create" or "cancel"
    HandlerErrors, \* the errors the handler of a method may end with, beside
                   \* ResourceExhausted: some of NotFound and Internal
    Keys,          \* API keys a service may be restarted with
    FirstKey,      \* the key both are started with first
    MaxAttempts,   \* retryCall makes 3
    MaxArrivals,   \* bound: RPCs that arrive; the connection is down from then on
    MaxRestarts    \* bound: restarts of the two services

Methods == {"GetFlight", "ReserveSeats", "ReleaseReservation"}

ASSUME RoutesAssumption == RouteOf \in [Requests -> {"create", "cancel"}]
ASSUME KeysAssumption == FirstKey \in Keys
ASSUME ErrorsAssumption == HandlerErrors \in [Methods -> SUBSET {"NotFound", "Internal"}]
ASSUME BoundsAssumption == MaxAttempts \in Nat \ {0} /\ MaxArrivals \in Nat /\ MaxRestarts \in Nat

VARIABLES
    req,          \* the handler of an HTTP request
    calls,        \* the RPCs the flight service has not answered yet, and
                  \* the answers that were not taken yet
    httpTotal,    \* http_requests_total, by route and status
    httpErrors,   \* http_request_errors_total
    grpcTotal,    \* grpc_requests_total, by method and code
    grpcErrors,   \* grpc_request_errors_total
    arrived,      \* how many RPCs arrived at the flight service
    key,          \* the FLIGHT_API_KEY each service was started with
    life          \* how often each service was started

vars == <<req, calls, httpTotal, httpErrors, grpcTotal, grpcErrors, arrived, key, life>>
httpVars == <<httpTotal, httpErrors>>
grpcVars == <<grpcTotal, grpcErrors, arrived>>

Services == {"booking", "flight"}
Routes == {RouteOf[r] : r \in Requests}
Statuses == {201, 204, 400, 401, 404, 409, 500, 502}

\* The codes a handler of the flight service ends with.
HandlerCodes(m) ==
    {"OK"} \cup HandlerErrors[m] \cup IF m = "ReserveSeats" THEN {"ResourceExhausted"} ELSE {}

ServerCodes == {"OK", "NotFound", "ResourceExhausted", "Unauthenticated", "Internal"}

GrpcLabels == Methods \X ServerCodes

statusToHTTP(code) ==
    CASE code = "NotFound" -> 404
      [] code = "ResourceExhausted" -> 409
      [] code = "Unauthenticated" -> 401
      [] OTHER -> 502

NoRequest == [at |-> "idle", method |-> "none", try |-> 0, status |-> 0, life |-> 0, from |-> 0]

Init ==
    /\ req = [r \in Requests |-> NoRequest]
    /\ calls = {}
    /\ httpTotal = [x \in Routes \X Statuses |-> 0] /\ httpErrors = httpTotal
    /\ grpcTotal = [x \in GrpcLabels |-> 0] /\ grpcErrors = grpcTotal
    /\ arrived = 0
    /\ key = [s \in Services |-> FirstKey]
    /\ life = [s \in Services |-> 1]

----------------------------------------------------------------------------
(* The handlers of the booking service.                                    *)

\* The RPC of the current attempt of r.
Awaited(r, call) == /\ req[r].at = "call"
                    /\ call.of = r /\ call.method = req[r].method /\ call.try = req[r].try

\* The calls that are left when r goes on: its RPC is canceled if it has not
\* arrived yet, and runs on if it has and is not answered.
Left(r) == {call \in calls : ~ Awaited(r, call) \/ call.at \in {"handled", "total"}}

\* The handler of r writes its status; flightLife tells which process of the
\* flight service decided it, in the last RPC of r, or 0 if none did.
Respond(r, status, flightLife) ==
    /\ req' = [req EXCEPT ![r] =
           [at |-> "answered", method |-> IF flightLife = 0 THEN "none" ELSE req[r].method,
            try |-> 0, status |-> status, life |-> req[r].life, from |-> flightLife]]
    /\ calls' = Left(r)

\* A stub is called: the request is sent with the key of authCtx.
Invoke(r, m, n) ==
    /\ req' = [req EXCEPT ![r] = [at |-> "call", method |-> m, try |-> n, status |-> 0,
                                  life |-> req[r].life, from |-> 0]]
    /\ calls' = Left(r) \cup
         {[of |-> r, method |-> m, try |-> n, key |-> key["booking"], at |-> "sent", code |-> "none"]}

Receive(r) ==
    /\ req[r].at = "idle"
    /\ req' = [req EXCEPT ![r].at = "received", ![r].life = life["booking"]]
    /\ UNCHANGED <<calls, httpVars, grpcVars, key, life>>

\* What the handler does before its first RPC.  On any other path the mux
\* answers 404, like the cancellation of a booking that is not there.
Begin(r) ==
    /\ req[r].at = "received"
    /\ \/ /\ RouteOf[r] = "create"
          /\ Respond(r, 400, 0) \/ Invoke(r, "GetFlight", 1)
       \/ /\ RouteOf[r] = "cancel"
          /\ (\E s \in {404, 204} : Respond(r, s, 0)) \/ Invoke(r, "ReleaseReservation", 1)
    /\ UNCHANGED <<httpVars, grpcVars, key, life>>

Compensating(r) == req[r].method = "ReleaseReservation" /\ RouteOf[r] = "create"

\* retryCall returned an error; that of a compensating release is ignored.
GiveUp(r, code, flightLife) ==
    \/ Compensating(r) /\ Respond(r, 500, 0)
    \/ ~ Compensating(r) /\ Respond(r, statusToHTTP(code), flightLife)

\* retryCall returned a response.
Proceed(r, flightLife) ==
    \/ req[r].method = "GetFlight" /\ Invoke(r, "ReserveSeats", 1)
    \/ Compensating(r) /\ Respond(r, 500, 0)
    \/ /\ req[r].method # "GetFlight" /\ ~ Compensating(r)
       /\ req' = [req EXCEPT ![r].at = "store", ![r].from = flightLife]
       /\ calls' = Left(r)

\* Mutant of MayRetry: the last attempt is retried as well.
RetryOneMore(n) == n <= MaxAttempts

MayRetry(n) == n < MaxAttempts

\* The answer of the flight service to the current attempt of r.
TakeAnswer(r) ==
    /\ \E call \in calls :
         /\ Awaited(r, call) /\ call.at = "answered"
         /\ \/ call.code = "OK" /\ Proceed(r, life["flight"])
            \/ call.code # "OK" /\ GiveUp(r, call.code, life["flight"])
    /\ UNCHANGED <<httpVars, grpcVars, key, life>>

\* Mutant of TimerRuns: the attempts have no deadline.
NoTimer == FALSE

TimerRuns == TRUE

\* The 2 seconds of an attempt are over, or the connection was lost before.
LoseAttempt(r) ==
    /\ req[r].at = "call"
    /\ TimerRuns
    /\ \/ MayRetry(req[r].try) /\ Invoke(r, req[r].method, req[r].try + 1)
       \/ ~ MayRetry(req[r].try) /\ GiveUp(r, "DeadlineExceeded", 0)
    /\ UNCHANGED <<httpVars, grpcVars, key, life>>

\* The client of the booking service went away: nothing is retried.
Canceled(r) ==
    /\ req[r].at = "call"
    /\ GiveUp(r, "Canceled", 0)
    /\ UNCHANGED <<httpVars, grpcVars, key, life>>

\* INSERT INTO bookings, or the UPDATE that cancels one.
Store(r) ==
    /\ req[r].at = "store"
    /\ \/ RouteOf[r] = "create" /\ Respond(r, 201, req[r].from)
       \/ RouteOf[r] = "create" /\ Invoke(r, "ReleaseReservation", 1)
       \/ RouteOf[r] = "cancel" /\ Respond(r, 204, req[r].from)
       \/ RouteOf[r] = "cancel" /\ Respond(r, 500, 0)
    /\ UNCHANGED <<httpVars, grpcVars, key, life>>

----------------------------------------------------------------------------
(* metricsMiddleware, after the handler: the client may have its answer.   *)

\* Mutant of Failed: the first failing status is forgotten.
FailedAbove(status) == status > 401

Failed(status) == status >= 400

CountRequest(r) ==
    /\ req[r].at = "answered"
    /\ httpTotal' = [httpTotal EXCEPT ![<<RouteOf[r], req[r].status>>] = @ + 1]
    /\ req' = [req EXCEPT ![r].at = IF Failed(req[r].status) THEN "total" ELSE "counted"]
    /\ UNCHANGED <<calls, httpErrors, grpcVars, key, life>>

CountFailure(r) ==
    /\ req[r].at = "total"
    /\ httpErrors' = [httpErrors EXCEPT ![<<RouteOf[r], req[r].status>>] = @ + 1]
    /\ req' = [req EXCEPT ![r].at = "counted"]
    /\ UNCHANGED <<calls, httpTotal, grpcVars, key, life>>

----------------------------------------------------------------------------
(* The flight service.                                                     *)

\* An answer nobody waits for is dropped.
Step(call, at, code) ==
    calls' = (calls \ {call}) \cup
        IF at = "answered" /\ ~ Awaited(call.of, call) THEN {}
        ELSE {[call EXCEPT !.at = at, !.code = code]}

\* Mutant of Refused: the key is checked outside of the metrics.
RefusedUncounted == "answered"

\* The refusal of authInterceptor passes through metricsInterceptor.
Refused == "handled"

\* The interceptors are entered, and the handler runs if the key is right.
Handle(call) ==
    /\ call.at = "sent"
    /\ arrived < MaxArrivals /\ arrived' = arrived + 1
    /\ \/ call.key # key["flight"] /\ Step(call, Refused, "Unauthenticated")
       \/ /\ call.key = key["flight"]
          /\ \E code \in HandlerCodes(call.method) : Step(call, "handled", code)
    /\ UNCHANGED <<req, httpVars, grpcTotal, grpcErrors, key, life>>

\* metricsInterceptor, when the chain inside it has returned.
CountCall(call) ==
    /\ call.at = "handled"
    /\ grpcTotal' = [grpcTotal EXCEPT ![<<call.method, call.code>>] = @ + 1]
    /\ Step(call, IF call.code = "OK" THEN "answered" ELSE "total", call.code)
    /\ UNCHANGED <<req, httpVars, grpcErrors, arrived, key, life>>

CountError(call) ==
    /\ call.at = "total"
    /\ grpcErrors' = [grpcErrors EXCEPT ![<<call.method, call.code>>] = @ + 1]
    /\ Step(call, "answered", call.code)
    /\ UNCHANGED <<req, httpVars, grpcTotal, arrived, key, life>>

----------------------------------------------------------------------------
(* Restarts.                                                               *)

Start(s) ==
    /\ life["booking"] + life["flight"] < MaxRestarts + 2
    /\ life' = [life EXCEPT ![s] = @ + 1]
    /\ \E k \in Keys : key' = [key EXCEPT ![s] = k]

Open == {"received", "call", "store", "answered", "total"}

\* What was on its way is gone with the process; of what was answered but not
\* counted the client may know.
Abandoned(row) ==
    CASE row.at \in {"received", "call", "store"} -> [NoRequest EXCEPT !.at = "lost"]
      [] row.at \in {"answered", "total"} -> [row EXCEPT !.at = "lost"]
      [] OTHER -> row

RestartBooking ==
    /\ Start("booking")
    /\ req' = [r \in Requests |-> Abandoned(req[r])]
    /\ calls' = {call \in calls : call.at # "answered"}
    /\ httpTotal' = [x \in Routes \X Statuses |-> 0] /\ httpErrors' = httpTotal'
    /\ UNCHANGED grpcVars

RestartFlight ==
    /\ Start("flight")
    /\ calls' = {}
    /\ grpcTotal' = [x \in GrpcLabels |-> 0] /\ grpcErrors' = grpcTotal'
    /\ UNCHANGED <<req, httpVars, arrived>>

----------------------------------------------------------------------------
Serve(r) == Begin(r) \/ TakeAnswer(r) \/ Store(r) \/ CountRequest(r) \/ CountFailure(r)

FlightStep == \E call \in calls : Handle(call) \/ CountCall(call) \/ CountError(call)

Next ==
    \/ \E r \in Requests : Receive(r) \/ Serve(r) \/ LoseAttempt(r) \/ Canceled(r)
    \/ FlightStep
    \/ RestartBooking \/ RestartFlight

\* The runtime runs every handler on, by its own step or by its timer.  Nothing
\* is assumed of the flight service or of the connection.
Fairness ==
    \A r \in Requests : WF_vars(Serve(r) \/ LoseAttempt(r))

Spec == Init /\ [][Next]_vars /\ Fairness
----------------------------------------------------------------------------
TypeOK ==
    /\ \A r \in Requests :
         /\ req[r].at \in Open \cup {"idle", "counted", "lost"}
         /\ req[r].try \in 0 .. MaxAttempts /\ req[r].status \in Statuses \cup {0}
    /\ \A call \in calls :
         /\ call.at \in {"sent", "handled", "total", "answered"}
         /\ call.method \in Methods /\ call.try \in 1 .. MaxAttempts
    /\ DOMAIN httpTotal = DOMAIN httpErrors /\ DOMAIN grpcTotal = DOMAIN grpcErrors

Here(r) == req[r].life = life["booking"]

\* The counters of the booking service are what its requests since it was
\* started amount to, none missing and none counted twice, and the errors lag
\* behind the total only by the requests between the two increments
\* (booking/main.go:106-117).
HttpCounted ==
    \A x \in DOMAIN httpTotal :
        LET now(at) == Cardinality({r \in Requests :
                Here(r) /\ req[r].at \in at /\ <<RouteOf[r], req[r].status>> = x})
        IN  /\ httpTotal[x] = now({"total", "counted"})
            /\ httpErrors[x] = IF x[2] >= 400 THEN now({"counted"}) ELSE 0

\* Every status a client was given because of an answer of the running flight
\* service has been counted there before, under the method that was called and
\* the code it ended with: a refusal of authInterceptor (401), an error of a
\* handler (404, 409, 502) as an error, a booking (201) as a reservation, a
\* cancellation (204) as a release, whatever was retried, lost or restarted in
\* between (flight/main.go:79, 104-136, booking/main.go:146-161, 223-238).
AnswersBacked ==
    \A m \in Methods :
        LET told(status) == Cardinality({r \in Requests :
                req[r].from = life["flight"] /\ req[r].method = m /\ req[r].status = status})
            errors(code) == grpcErrors[<<m, code>>]
        IN  /\ told(401) <= errors("Unauthenticated")
            /\ told(404) <= errors("NotFound")
            /\ told(409) <= errors("ResourceExhausted")
            /\ told(502) <= errors("Internal")
            /\ told(201) <= IF m = "ReserveSeats" THEN grpcTotal[<<m, "OK">>] ELSE 0
            /\ told(204) <= IF m = "ReleaseReservation" THEN grpcTotal[<<m, "OK">>] ELSE 0

\* Every request that is received is counted, however the flight service and
\* the connection behave, unless the booking service is restarted
\* (booking/main.go:106-117, 198-217).
EveryRequestCounted ==
    \A r \in Requests : (req[r].at = "received") ~> (req[r].at \in {"counted", "lost"})
=============================================================================
