SPECIFICATION Spec
CONSTANTS
    Flights <- MCFlights
    TotalSeats <- MCTotalSeats
    Bookings <- MCBookings
    FlightOf <- MCFlightOf
    SeatsOf <- MCSeatsOf
    ReserveCalls <- MCReserveCalls
    ReleaseCalls <- MCReleaseCalls
    BookingOf <- MCBookingOf
PROPERTIES ReserveDebitsOnce
CHECK_DEADLOCK FALSE
