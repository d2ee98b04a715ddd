SPECIFICATION SpecApart
CONSTANTS
    Flights <- MCFlights
    TotalSeats <- MCTotalSeats
    Bookings <- MCBookings
    FlightOf <- MCFlightOf
    SeatsOf <- MCSeatsOf
    ReserveCalls <- ApartReserveCalls
    ReleaseCalls <- ApartReleaseCalls
    BookingOf <- ApartBookingOf
INVARIANTS RowsSound SeatBalance
PROPERTIES ReserveDebitsOnce RefinesLedger
CHECK_DEADLOCK FALSE
