SPECIFICATION SpecPrompt
CONSTANTS
    Flights <- MCFlights
    TotalSeats <- MCTotalSeats
    FlightOf <- MCFlightOf
    SeatsOf <- MCSeatsOf
    BookingFor <- MCBookingFor
    Bookings = {"b1"}
    Creates = {"create1"}
    Cancels = {"cancel1"}
    MaxAttempts = 3
INVARIANTS NothingHalfDone
CHECK_DEADLOCK FALSE
