--------------------------- MODULE MCFlightBooking ---------------------------
(* Small instances of FlightBooking.  A flight of two seats; booking b1 of   *)
(* one seat is created and cancelled; b2 of two seats competes with it; bx   *)
(* names a flight that does not exist, and by is an id no request makes.     *)
EXTENDS FlightBooking

MCFlights == {"f1"}
MCTotalSeats == [f \in MCFlights |-> 2]
MCFlightOf == [b \in Bookings |-> IF b = "bx" THEN "none" ELSE "f1"]
MCSeatsOf == [b \in Bookings |-> IF b = "b2" THEN 2 ELSE 1]
MCBookingFor ==
    [h \in Requests |->
        CASE h \in {"create1", "cancel1", "cancel1again"} -> "b1"
          [] h = "create2" -> "b2"
          [] h = "createx" -> "bx"
          [] OTHER -> "by"]
============================================================================
