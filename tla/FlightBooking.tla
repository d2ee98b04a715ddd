---------------------------- MODULE FlightBooking ----------------------------
(***************************************************************************)
(* createBooking and cancelBooking of the booking service                  *)
(* (hw7/cmd/booking/main.go:138-217; hw3/cmd/booking/main.go has the same  *)
(* handlers), calling the flight service (FlightService) over gRPC and     *)
(* writing their own database.                                             *)
(*                                                                         *)
(* Every request is served by its own handler; the handlers share the two  *)
(* databases.  retryCall gives an RPC at most MaxAttempts attempts, each   *)
(* with a timeout, and each is a call of FlightService.  The handler gives *)
(* an attempt up without knowing how far the flight service is with it:    *)
(* not started, in the middle of its transaction, or answered with the     *)
(* answer lost.  Any step of a handler may fail, and its process may stop. *)
(***************************************************************************)
EXTENDS Integers, FiniteSets

CONSTANTS
    Flights, TotalSeats, Bookings, FlightOf, SeatsOf,   \* as in FlightService
    Creates,       \* requests POST /bookings
    Cancels,       \* requests POST /bookings/{id}/cancel
    BookingFor,    \* the booking a request makes or names
    MaxAttempts    \* len(backoffs) in retryCall

Requests == Creates \cup Cancels

ASSUME RequestsAssumption ==
    /\ Creates \cap Cancels = {}
    /\ BookingFor \in [Requests -> Bookings]
    /\ MaxAttempts \in Nat \ {0}
\* uuid.NewString() makes a new id for every request that creates a booking.
ASSUME FreshIdsAssumption ==
    \A g, h \in Creates : BookingFor[g] = BookingFor[h] => g = h

\* As in FlightService, which reads these constants too.
ASSUME FlightsAssumption == TotalSeats \in [Flights -> Nat \ {0}]
ASSUME BookingsAssumption ==
    /\ IsFiniteSet(Bookings)
    /\ DOMAIN FlightOf = Bookings
    /\ SeatsOf \in [Bookings -> Int]

CallsTo(method, requests) == {<<h, method, k>> : h \in requests, k \in 1 .. MaxAttempts}
ReserveCalls == CallsTo("reserve", Creates)
ReleaseCalls == CallsTo("release", Requests)
BookingOf == [c \in ReserveCalls \cup ReleaseCalls |-> BookingFor[c[1]]]

VARIABLES
    available, reservation, pc, seatCount, reply,   \* as in FlightService
    booking,    \* status of a booking's row in the booking service, or "NONE"
    stage,      \* what the handler of a request is doing
    attempt,    \* number of the RPC attempt it waits for
    ctx,        \* of an attempt: "none" before it is sent, "live", or "over"
    answer      \* HTTP status a request was answered with, or "none"

flightVars == <<available, reservation, pc, seatCount, reply>>
bookingVars == <<booking, stage, attempt, ctx, answer>>
vars == <<available, reservation, pc, seatCount, reply,
          booking, stage, attempt, ctx, answer>>

Flight == INSTANCE FlightService

Init ==
    /\ Flight!Init
    /\ booking = [b \in Bookings |-> "NONE"]
    /\ stage = [h \in Requests |-> "idle"]
    /\ attempt = [h \in Requests |-> 0]
    /\ ctx = [c \in Flight!Calls |-> "none"]
    /\ answer = [h \in Requests |-> "none"]

----------------------------------------------------------------------------
(* retryCall.                                                              *)

CallOf(h, where, k) == <<h, IF where = "reserve" THEN "reserve" ELSE "release", k>>

\* The flight service call the handler of h waits for.
Current(h) == CallOf(h, stage[h], attempt[h])

Waiting(h) == stage[h] \in {"reserve", "compensate", "release"}

\* Mutant of Ended: cancel() is forgotten, the context of an attempt lives on.
NeverEnded(h) == ctx

\* An attempt whose answer or error has come, or whose timeout is over, has
\* its context cancelled before anything else happens.
Ended(h) == IF Waiting(h) THEN [ctx EXCEPT ![Current(h)] = "over"] ELSE ctx

\* Make attempt k of the RPC of a stage.
Try(h, where, k) ==
    /\ stage' = [stage EXCEPT ![h] = where]
    /\ attempt' = [attempt EXCEPT ![h] = k]
    /\ ctx' = IF where = "get" THEN ctx
              ELSE [Ended(h) EXCEPT ![CallOf(h, where, k)] = "live"]
    /\ UNCHANGED answer

Proceed(h, where) ==
    /\ stage' = [stage EXCEPT ![h] = where]
    /\ ctx' = Ended(h)
    /\ UNCHANGED <<attempt, answer>>

Respond(h, code) ==
    /\ stage' = [stage EXCEPT ![h] = "done"]
    /\ answer' = [answer EXCEPT ![h] = code]
    /\ ctx' = Ended(h)
    /\ UNCHANGED attempt

Replied(h, r) ==
    /\ Waiting(h)
    /\ pc[Current(h)] = "done"
    /\ reply[Current(h)] = r

\* Mutant of Retry: one attempt too many.
RetryOnceMore(h) ==
    /\ Waiting(h) \/ stage[h] = "get"
    /\ attempt[h] <= MaxAttempts
    /\ Try(h, stage[h], attempt[h] + 1)
    /\ UNCHANGED <<flightVars, booking>>

\* Mutant of Retry: the attempts are not counted.
RetryForEver(h) ==
    /\ Waiting(h) \/ stage[h] = "get"
    /\ Try(h, stage[h], IF attempt[h] < MaxAttempts THEN attempt[h] + 1 ELSE 1)
    /\ UNCHANGED <<flightVars, booking>>

\* Unavailable or DeadlineExceeded before the last attempt: sleep, try again.
Retry(h) ==
    /\ Waiting(h) \/ stage[h] = "get"
    /\ attempt[h] < MaxAttempts
    /\ Try(h, stage[h], attempt[h] + 1)
    /\ UNCHANGED <<flightVars, booking>>

\* Mutant of GiveUp: the loop ends with no error, and the handler goes on.
GiveUpWithoutError(h) ==
    /\ stage[h] = "reserve"
    /\ Proceed(h, "insert")
    /\ UNCHANGED <<flightVars, booking>>

\* The last attempt is given up, or the error is not one to retry: the context
\* of the request was cancelled because its client went away.
GiveUp(h) ==
    /\ Waiting(h) \/ stage[h] = "get"
    /\ Respond(h, IF stage[h] = "compensate" THEN "500" ELSE "502")
    /\ UNCHANGED <<flightVars, booking>>

\* Mutant of statusToHTTP: every error of the flight service is a conflict.
ConflictByDefault(r) == IF r = "NotFound" THEN "404" ELSE "409"

statusToHTTP(r) ==
    CASE r = "NotFound" -> "404" [] r = "ResourceExhausted" -> "409" [] OTHER -> "502"

\* An error reply that is not retried.
Rejected(h) ==
    /\ stage[h] \in {"reserve", "release"}
    /\ \E r \in Flight!Replies \ {"OK"} : Replied(h, r) /\ Respond(h, statusToHTTP(r))
    /\ UNCHANGED <<flightVars, booking>>

----------------------------------------------------------------------------
(* createBooking.                                                          *)

StartCreate(h) ==
    /\ h \in Creates
    /\ stage[h] = "idle"
    /\ Try(h, "get", 1)
    /\ UNCHANGED <<flightVars, booking>>

\* GetFlight answers, from the cache or the table; the price is all that is
\* used of it, and no statement changes a price.
GotFlight(h) ==
    /\ stage[h] = "get"
    /\ IF Flight!KnownFlight(BookingFor[h])
       THEN Try(h, "reserve", 1)
       ELSE Respond(h, "404")
    /\ UNCHANGED <<flightVars, booking>>

\* Mutant of Reserved: the error of ReserveSeats is not looked at.
ReservedAnyhow(h) ==
    /\ stage[h] = "reserve"
    /\ \E r \in Flight!Replies : Replied(h, r)
    /\ Proceed(h, "insert")
    /\ UNCHANGED <<flightVars, booking>>

Reserved(h) ==
    /\ stage[h] = "reserve"
    /\ Replied(h, "OK")
    /\ Proceed(h, "insert")
    /\ UNCHANGED <<flightVars, booking>>

\* INSERT INTO bookings takes effect; the handler learns it, or gets an error.
Insert(h) ==
    /\ stage[h] = "insert"
    /\ booking' = [booking EXCEPT ![BookingFor[h]] = "CONFIRMED"]
    /\ Respond(h, "201") \/ Try(h, "compensate", 1)
    /\ UNCHANGED flightVars

InsertFails(h) ==
    /\ stage[h] = "insert"
    /\ Try(h, "compensate", 1)
    /\ UNCHANGED <<flightVars, booking>>

\* The result of the compensating release is ignored.
Compensated(h) ==
    /\ stage[h] = "compensate"
    /\ \E r \in Flight!Replies : Replied(h, r)
    /\ Respond(h, "500")
    /\ UNCHANGED <<flightVars, booking>>

----------------------------------------------------------------------------
(* cancelBooking.                                                          *)

\* The id of a booking is known to those who were answered 201; an id that no
\* request ever makes stands for a mistyped one.
IdKnown(b) ==
    \/ \E h \in Creates : BookingFor[h] = b /\ answer[h] = "201"
    \/ \A h \in Creates : BookingFor[h] # b

\* The status is read without a lock; a database error reads as no booking.
StartCancel(h) ==
    LET b == BookingFor[h]
    IN  /\ h \in Cancels
        /\ stage[h] = "idle"
        /\ IdKnown(b)
        /\ \/ Respond(h, "404")
           \/ booking[b] = "CANCELLED" /\ Respond(h, "204")
           \/ booking[b] = "CONFIRMED" /\ Try(h, "release", 1)
        /\ UNCHANGED <<flightVars, booking>>

\* Mutant of Released: the error of ReleaseReservation is not looked at.
ReleasedAnyhow(h) ==
    /\ stage[h] = "release"
    /\ \E r \in Flight!Replies : Replied(h, r)
    /\ Proceed(h, "update")
    /\ UNCHANGED <<flightVars, booking>>

Released(h) ==
    /\ stage[h] = "release"
    /\ Replied(h, "OK")
    /\ Proceed(h, "update")
    /\ UNCHANGED <<flightVars, booking>>

\* UPDATE bookings takes effect; the handler learns it, or gets an error.
Update(h) ==
    /\ stage[h] = "update"
    /\ booking' = [booking EXCEPT ![BookingFor[h]] = "CANCELLED"]
    /\ Respond(h, "204") \/ Respond(h, "500")
    /\ UNCHANGED flightVars

UpdateFails(h) ==
    /\ stage[h] = "update"
    /\ Respond(h, "500")
    /\ UNCHANGED <<flightVars, booking>>

----------------------------------------------------------------------------
\* The process of the handler stops: what it did stays done, and nobody goes
\* on with the rest.
Crash(h) ==
    /\ stage[h] \notin {"idle", "done"}
    /\ Respond(h, "lost")
    /\ UNCHANGED <<flightVars, booking>>

FlightStep ==
    /\ \E c \in Flight!Calls : ctx[c] # "none" /\ Flight!CallStep(c)
    /\ UNCHANGED bookingVars

Continue(h) ==
    \/ Retry(h) \/ GiveUp(h) \/ Rejected(h)
    \/ GotFlight(h) \/ Reserved(h) \/ Insert(h) \/ InsertFails(h) \/ Compensated(h)
    \/ Released(h) \/ Update(h) \/ UpdateFails(h)

Next ==
    \/ \E h \in Requests : StartCreate(h) \/ StartCancel(h) \/ Continue(h) \/ Crash(h)
    \/ FlightStep

\* A handler that waits for an attempt is woken by its timeout at the latest.
Fairness == \A h \in Requests : WF_vars(Continue(h))

Spec == Init /\ [][Next]_vars /\ Fairness

\* The flight service is never in the middle of a call whose context is over:
\* the call was lost on its way, or only its answer was.
Prompt == \A c \in Flight!Calls : ctx[c] = "over" => pc[c] \in {"idle", "done"}

SpecPrompt == Init /\ [][Next /\ Prompt']_vars
----------------------------------------------------------------------------
TypeOK ==
    /\ Flight!TypeOK
    /\ booking \in [Bookings -> {"NONE", "CONFIRMED", "CANCELLED"}]
    /\ stage \in [Requests -> {"idle", "get", "reserve", "insert", "compensate",
                               "release", "update", "done"}]
    /\ attempt \in [Requests -> 0 .. MaxAttempts]
    /\ ctx \in [Flight!Calls -> {"none", "live", "over"}]
    /\ answer \in [Requests -> {"none", "201", "204", "404", "409", "500", "502", "lost"}]

NoOverbooking == Flight!NoOverbooking

ReservationStatus(b) == reservation[b].status

\* No handler of booking b is running.
Settled(b) == \A h \in Requests : BookingFor[h] = b => stage[h] \in {"idle", "done"}

\* Who was answered 201 and has not asked to cancel has the seats, whatever
\* was retried, given up or compensated before (main.go:153-170).
ConfirmedKeepsSeats ==
    \A h \in Creates :
        /\ answer[h] = "201"
        /\ \A k \in Cancels : BookingFor[k] = BookingFor[h] => stage[k] = "idle"
        => ReservationStatus(BookingFor[h]) = "ACTIVE"

\* A row in the bookings table never stands without its row in the flight
\* service's table, with the seats that were asked for: the two databases
\* share no transaction (main.go:153-162).
BookingHasReservation ==
    \A b \in Bookings : booking[b] # "NONE" =>
        ReservationStatus(b) # "NONE" /\ reservation[b].seats = SeatsOf[b]

\* A cancelled booking has given its seats back (main.go:184-191).
CancelledReleased ==
    \A b \in Bookings : booking[b] = "CANCELLED" => ReservationStatus(b) = "RELEASED"

\* A booking refused for want of seats holds none: the refusal of a retry is
\* not the effect of the attempt before it (main.go:153-159).
ConflictHoldsNothing ==
    \A h \in Creates : answer[h] = "409" => ReservationStatus(BookingFor[h]) = "NONE"

\* The two databases agree once the handlers of a booking are through: seats
\* are held for the bookings that are CONFIRMED, and for no others
\* (main.go:153-170, 184-195).
NothingHalfDone ==
    \A b \in Bookings :
        Settled(b) => (booking[b] = "CONFIRMED" <=> ReservationStatus(b) = "ACTIVE")

\* The attempts of a booking to reserve seats do not overlap in the flight
\* service: what SeatLedger's promise rests on, kept by the loop of retryCall
\* as long as a call that was given up is over (main.go:198-217).
KeepsReservesApart == Flight!ReservesApart

\* Every request that has begun is answered, or its process stopped: retries
\* and timeouts are bounded (main.go:198-217).
EveryRequestEnds == \A h \in Requests : stage[h] # "idle" ~> stage[h] = "done"

\* A call the flight service has begun was sent, and a call with a live context
\* is the one its handler waits for.
StartedWasSent == \A c \in Flight!Calls : pc[c] # "idle" => ctx[c] # "none"
LiveIsCurrent ==
    \A c \in Flight!Calls : ctx[c] = "live" => Waiting(c[1]) /\ Current(c[1]) = c
============================================================================
