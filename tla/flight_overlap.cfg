SPECIFICATION Spec
CONSTANTS
    Flights <- MCFlights
    TotalSeats <- MCTotalSeats
    Bookings <- MCBookings
    FlightOf <- MCFlightOf
    SeatsOf <- MCSeatsOf
    ReserveCalls <- MCReserveCalls
    ReleaseCalls <- MCReleaseCalls
    BookingOf <- MCBookingOf
INVARIANTS TypeOK NoOverbooking ReleaseNeverRefused IInv
PROPERTIES ReleaseCreditsOnce EveryCallAnswered
CHECK_DEADLOCK FALSE
