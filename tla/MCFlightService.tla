-------------------------- MODULE MCFlightService --------------------------
(* Small instances of FlightService.  Flight f1 has five seats.  Booking b1 *)
(* asks for two of them and is attempted, retried and released; b2 competes  *)
(* for the rest; b0 is a request without seat_count, bx one for a flight the *)
(* table does not have, bn one with a negative count.  The Apart instance    *)
(* puts those next to a booking that is reserved again after its release.    *)
EXTENDS FlightService

MCFlights == {"f1"}
MCTotalSeats == [f \in MCFlights |-> 5]
MCBookings == {"b1", "b2", "b0", "bx", "bn"}
MCFlightOf == [b \in MCBookings |-> IF b = "bx" THEN "none" ELSE "f1"]
MCSeatsOf ==
    [b \in MCBookings |-> CASE b = "b0" -> 0 [] b = "bn" -> -1 [] b = "b1" -> 2 [] OTHER -> 3]

\* Every attempt is named by its booking, its method and its number.
MCReserveCalls == {<<"b1", "reserve", 1>>, <<"b1", "reserve", 2>>, <<"b2", "reserve", 1>>}
MCReleaseCalls == {<<"b1", "release", 1>>, <<"b1", "release", 2>>, <<"b2", "release", 1>>}
MCBookingOf == [c \in MCReserveCalls \cup MCReleaseCalls |-> c[1]]

\* Fewer attempts of b1 and b2, next to requests the tables refuse.
ApartReserveCalls ==
    {<<"b1", "reserve", 1>>, <<"b1", "reserve", 2>>, <<"b2", "reserve", 1>>,
     <<"b0", "reserve", 1>>, <<"bx", "reserve", 1>>, <<"bn", "reserve", 1>>}
ApartReleaseCalls == {<<"b1", "release", 1>>, <<"b2", "release", 1>>}
ApartBookingOf == [c \in ApartReserveCalls \cup ApartReleaseCalls |-> c[1]]
============================================================================
