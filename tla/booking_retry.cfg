SPECIFICATION Spec
CONSTANTS
    Flights <- MCFlights
    TotalSeats <- MCTotalSeats
    FlightOf <- MCFlightOf
    SeatsOf <- MCSeatsOf
    BookingFor <- MCBookingFor
    Bookings = {"b1"}
    Creates = {"create1"}
    Cancels = {"cancel1", "cancel1again"}
    MaxAttempts = 2
INVARIANTS TypeOK ConfirmedKeepsSeats BookingHasReservation
PROPERTIES EveryRequestEnds
CHECK_DEADLOCK FALSE
