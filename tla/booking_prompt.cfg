SPECIFICATION SpecPrompt
CONSTANTS
    Flights <- MCFlights
    TotalSeats <- MCTotalSeats
    FlightOf <- MCFlightOf
    SeatsOf <- MCSeatsOf
    BookingFor <- MCBookingFor
    Bookings = {"b1", "b2"}
    Creates = {"create1", "create2"}
    Cancels = {"cancel1"}
    MaxAttempts = 2
INVARIANTS CancelledReleased ConflictHoldsNothing KeepsReservesApart
CHECK_DEADLOCK FALSE
