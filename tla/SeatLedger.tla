----------------------------- MODULE SeatLedger -----------------------------
(***************************************************************************)
(* What the flight service promises its only client: every attempt of      *)
(* ReserveSeats or ReleaseReservation is one atomic change of a ledger of  *)
(* seats, made when the attempt is answered, or no change at all.  Only an *)
(* attempt answered "Internal" leaves open which of the two happened.      *)
(* FlightService implements it when the attempts of a booking to reserve   *)
(* do not overlap.                                                         *)
(***************************************************************************)
EXTENDS Integers

CONSTANTS Flights, TotalSeats, Bookings, FlightOf, SeatsOf,
          ReserveCalls, ReleaseCalls, BookingOf

VARIABLES
    available,     \* free seats of a flight
    reservation,   \* what is recorded for a booking
    reply          \* how an attempt was answered, or "none"

vars == <<available, reservation, reply>>

Answered(c, r) ==
    /\ reply[c] = "none"
    /\ reply' = [reply EXCEPT ![c] = r]

Unchanged == UNCHANGED <<available, reservation>>

Init ==
    /\ available = TotalSeats
    /\ reservation = [b \in Bookings |-> [status |-> "NONE", seats |-> 0]]
    /\ reply = [c \in ReserveCalls \cup ReleaseCalls |-> "none"]

\* A reservation that is not ACTIVE becomes so; its seats leave the flight.
Reserve(c, b) ==
    /\ reservation[b].status # "ACTIVE"
    /\ FlightOf[b] \in Flights
    /\ SeatsOf[b] > 0
    /\ available[FlightOf[b]] >= SeatsOf[b]
    /\ available' = [available EXCEPT ![FlightOf[b]] = @ - SeatsOf[b]]
    /\ reservation' = [reservation EXCEPT ![b] = [status |-> "ACTIVE", seats |-> SeatsOf[b]]]
    /\ Answered(c, "OK") \/ Answered(c, "Internal")

\* An ACTIVE reservation is released; its seats go back to the flight.
Release(c, b) ==
    /\ reservation[b].status = "ACTIVE"
    /\ available' = [available EXCEPT ![FlightOf[b]] = @ + reservation[b].seats]
    /\ reservation' = [reservation EXCEPT ![b].status = "RELEASED"]
    /\ Answered(c, "OK") \/ Answered(c, "Internal")

\* What was asked for already holds.
AlreadyDone(c, b, status) ==
    reservation[b].status = status /\ Answered(c, "OK") /\ Unchanged

\* Nothing is changed, and the answer says why.
ReserveRefused(c, b) ==
    /\ \/ FlightOf[b] \notin Flights /\ Answered(c, "NotFound")
       \/ /\ FlightOf[b] \in Flights
          /\ available[FlightOf[b]] < SeatsOf[b]
          /\ Answered(c, "ResourceExhausted")
    /\ Unchanged

ReleaseRefused(c, b) ==
    reservation[b].status = "NONE" /\ Answered(c, "NotFound") /\ Unchanged

Failed(c) == Answered(c, "Internal") /\ Unchanged

ReserveSeats(c) ==
    \/ Reserve(c, BookingOf[c])
    \/ AlreadyDone(c, BookingOf[c], "ACTIVE")
    \/ ReserveRefused(c, BookingOf[c])
    \/ Failed(c)

ReleaseReservation(c) ==
    \/ Release(c, BookingOf[c])
    \/ AlreadyDone(c, BookingOf[c], "RELEASED")
    \/ ReleaseRefused(c, BookingOf[c])
    \/ Failed(c)

Next ==
    \/ \E c \in ReserveCalls : ReserveSeats(c)
    \/ \E c \in ReleaseCalls : ReleaseReservation(c)

Spec == Init /\ [][Next]_vars
============================================================================
