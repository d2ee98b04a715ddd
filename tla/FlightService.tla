--------------------------- MODULE FlightService ---------------------------
(***************************************************************************)
(* ReserveSeats and ReleaseReservation of the flight service               *)
(* (hw7/cmd/flight/main.go; hw3/cmd/flight/main.go has the same handlers), *)
(* run by any number of concurrent gRPC handlers against one PostgreSQL    *)
(* database at READ COMMITTED, pgx's default.                              *)
(*                                                                         *)
(* A call is one RPC attempt: a retry of the booking service is another    *)
(* call for the same booking.  A step of a call is one SQL statement, or   *)
(* the statements that run under a row lock the call already holds.  The   *)
(* writes of a transaction become visible at its commit.  A row lock is    *)
(* held from the statement that takes it to the commit or rollback, so     *)
(* "who holds it" is read off the program counters.                        *)
(***************************************************************************)
EXTENDS Integers, FiniteSets

CONSTANTS
    Flights,       \* ids of the rows of table flights
    TotalSeats,    \* [Flights -> Nat \ {0}], column total_seats
    Bookings,      \* booking ids, chosen by the booking service (uuid)
    FlightOf,      \* the flight_id a booking asks for; may be unknown
    SeatsOf,       \* the seat_count a booking asks for; never validated
    ReserveCalls,  \* attempts of ReserveSeats
    ReleaseCalls,  \* attempts of ReleaseReservation
    BookingOf      \* the booking_id an attempt carries

Calls == ReserveCalls \cup ReleaseCalls

ASSUME FlightsAssumption == TotalSeats \in [Flights -> Nat \ {0}]
ASSUME BookingsAssumption ==
    /\ IsFiniteSet(Bookings)
    /\ DOMAIN FlightOf = Bookings
    /\ SeatsOf \in [Bookings -> Int]
ASSUME CallsAssumption ==
    /\ ReserveCalls \cap ReleaseCalls = {}
    /\ BookingOf \in [Calls -> Bookings]

VARIABLES
    available,     \* flights.available_seats, committed
    reservation,   \* the seat_reservations row of a booking, committed
    pc,            \* how far the transaction of a call is
    seatCount,     \* seat_count scanned by a ReleaseReservation
    reply          \* what a finished call returned

vars == <<available, reservation, pc, seatCount, reply>>

----------------------------------------------------------------------------
(* Rows and constraints of the schema (flight_db/migrations/V1__init.sql). *)

NoRow == [status |-> "NONE", seats |-> 0]

\* CHECK (available_seats >= 0 AND available_seats <= total_seats)
SeatsCheck(f, n) == n \in 0 .. TotalSeats[f]

\* Mutant of SeatCountCheck: the column has no CHECK.
AnySeatCount(n) == TRUE

\* CHECK (seat_count > 0)
SeatCountCheck(n) == n > 0

\* Rows are only ever added to table flights by the migrations.
KnownFlight(b) == FlightOf[b] \in Flights

Replies == {"OK", "NotFound", "ResourceExhausted", "Internal"}

Init ==
    /\ available = TotalSeats
    /\ reservation = [b \in Bookings |-> NoRow]
    /\ pc = [c \in Calls |-> "idle"]
    /\ seatCount = [c \in Calls |-> 0]
    /\ reply = [c \in Calls |-> "none"]

----------------------------------------------------------------------------
(* Row locks.                                                              *)

\* c has locked the flight's row: SELECT ... FOR UPDATE succeeded.
HoldsFlight(c) == pc[c] \in {"debited", "upserted", "credited"}

\* c has locked the row of its booking in seat_reservations.
HoldsRow(c) == pc[c] \in {"upserted", "rowLocked", "credited"}

\* Mutant of FlightFree: the flight is read without FOR UPDATE.
FlightNotLocked(c) == TRUE

FlightFree(c) ==
    \A d \in Calls : HoldsFlight(d) => FlightOf[BookingOf[d]] # FlightOf[BookingOf[c]]

\* Mutant of RowFree: the reservation is read without FOR UPDATE.
RowNotLocked(c) == TRUE

RowFree(c) == \A d \in Calls : HoldsRow(d) => BookingOf[d] # BookingOf[c]

\* c waits for a lock that d holds.
WaitsFor(c, d) ==
    \/ /\ pc[c] \in {"lookedUp", "rowLocked"}
       /\ HoldsFlight(d)
       /\ FlightOf[BookingOf[d]] = FlightOf[BookingOf[c]]
    \/ /\ pc[c] = "debited"
       /\ HoldsRow(d)
       /\ BookingOf[d] = BookingOf[c]

Answer(c, r) ==
    /\ pc' = [pc EXCEPT ![c] = "done"]
    /\ reply' = [reply EXCEPT ![c] = r]

----------------------------------------------------------------------------
(* ReserveSeats.                                                           *)

\* Mutant of ReserveAgain: the status of the row found is not looked at.
ReserveAgainAnyStatus(c) ==
    /\ c \in ReserveCalls
    /\ pc[c] = "idle"
    /\ reservation[BookingOf[c]] # NoRow
    /\ Answer(c, "OK")
    /\ UNCHANGED <<available, reservation, seatCount>>

\* The unlocked lookup by booking_id finds an ACTIVE row: a retry, answered OK.
ReserveAgain(c) ==
    /\ c \in ReserveCalls
    /\ pc[c] = "idle"
    /\ reservation[BookingOf[c]].status = "ACTIVE"
    /\ Answer(c, "OK")
    /\ UNCHANGED <<available, reservation, seatCount>>

\* Mutant of ReserveLookup: no lookup, every attempt reserves.
ReserveWithoutLookup(c) ==
    /\ c \in ReserveCalls
    /\ pc[c] = "idle"
    /\ pc' = [pc EXCEPT ![c] = "lookedUp"]
    /\ UNCHANGED <<available, reservation, seatCount, reply>>

\* The unlocked lookup finds no row, or one that is not ACTIVE.
ReserveLookup(c) ==
    /\ c \in ReserveCalls
    /\ pc[c] = "idle"
    /\ reservation[BookingOf[c]].status # "ACTIVE"
    /\ pc' = [pc EXCEPT ![c] = "lookedUp"]
    /\ UNCHANGED <<available, reservation, seatCount, reply>>

\* SELECT available_seats ... FOR UPDATE, then the debit passes every check.
ReserveDebit(c) ==
    LET f == FlightOf[BookingOf[c]]
        n == SeatsOf[BookingOf[c]]
    IN  /\ pc[c] = "lookedUp"
        /\ KnownFlight(BookingOf[c])
        /\ FlightFree(c)
        /\ available[f] >= n
        /\ SeatsCheck(f, available[f] - n)
        /\ pc' = [pc EXCEPT ![c] = "debited"]
        /\ UNCHANGED <<available, reservation, seatCount, reply>>

\* SELECT ... FOR UPDATE finds no flight, or too few seats, or the debit
\* (of a negative count) breaks the CHECK of table flights.
ReserveRefused(c) ==
    LET f == FlightOf[BookingOf[c]]
        n == SeatsOf[BookingOf[c]]
    IN  /\ pc[c] = "lookedUp"
        /\ \/ /\ ~ KnownFlight(BookingOf[c])
              /\ Answer(c, "NotFound")
           \/ /\ KnownFlight(BookingOf[c])
              /\ FlightFree(c)
              /\ available[f] < n
              /\ Answer(c, "ResourceExhausted")
           \/ /\ KnownFlight(BookingOf[c])
              /\ FlightFree(c)
              /\ available[f] >= n
              /\ ~ SeatsCheck(f, available[f] - n)
              /\ Answer(c, "Internal")
        /\ UNCHANGED <<available, reservation, seatCount>>

\* INSERT ... ON CONFLICT (booking_id) DO UPDATE.  An existing row is locked
\* first; a row another transaction has not committed yet cannot be in the
\* way, because its writer holds the flight's row lock.
ReserveUpsert(c) ==
    /\ pc[c] = "debited"
    /\ IF SeatCountCheck(SeatsOf[BookingOf[c]])
       THEN /\ RowFree(c)
            /\ pc' = [pc EXCEPT ![c] = "upserted"]
            /\ UNCHANGED reply
       ELSE Answer(c, "Internal")
    /\ UNCHANGED <<available, reservation, seatCount>>

\* Mutant of ReserveApply: ON CONFLICT DO NOTHING leaves an old row as it is.
ReserveOnConflictDoNothing(c) ==
    LET b == BookingOf[c]
    IN  /\ available' = [available EXCEPT ![FlightOf[b]] = @ - SeatsOf[b]]
        /\ reservation' = [reservation EXCEPT
                             ![b] = IF @ = NoRow THEN [status |-> "ACTIVE", seats |-> SeatsOf[b]]
                                    ELSE @]

\* The debit and the upsert of c become visible.
ReserveApply(c) ==
    LET b == BookingOf[c]
    IN  /\ available' = [available EXCEPT ![FlightOf[b]] = @ - SeatsOf[b]]
        /\ reservation' = [reservation EXCEPT
                             ![b] = [status |-> "ACTIVE", seats |-> SeatsOf[b]]]

\* COMMIT takes effect.  The handler learns it and answers OK, or loses the
\* connection or its context while waiting and answers an error.
ReserveCommit(c) ==
    /\ c \in ReserveCalls
    /\ pc[c] = "upserted"
    /\ ReserveApply(c)
    /\ \E r \in {"OK", "Internal"} : Answer(c, r)
    /\ UNCHANGED seatCount

----------------------------------------------------------------------------
(* ReleaseReservation.                                                     *)

\* SELECT ... WHERE booking_id FOR UPDATE sees no committed row.
ReleaseNotFound(c) ==
    /\ c \in ReleaseCalls
    /\ pc[c] = "idle"
    /\ reservation[BookingOf[c]] = NoRow
    /\ Answer(c, "NotFound")
    /\ UNCHANGED <<available, reservation, seatCount>>

\* The locked row is no longer ACTIVE: the release is answered OK again.
ReleaseAgain(c) ==
    /\ c \in ReleaseCalls
    /\ pc[c] = "idle"
    /\ reservation[BookingOf[c]].status = "RELEASED"
    /\ RowFree(c)
    /\ Answer(c, "OK")
    /\ UNCHANGED <<available, reservation, seatCount>>

\* The locked row is ACTIVE; its seat_count is scanned.
ReleaseLockRow(c) ==
    /\ c \in ReleaseCalls
    /\ pc[c] = "idle"
    /\ reservation[BookingOf[c]].status = "ACTIVE"
    /\ RowFree(c)
    /\ pc' = [pc EXCEPT ![c] = "rowLocked"]
    /\ seatCount' = [seatCount EXCEPT ![c] = reservation[BookingOf[c]].seats]
    /\ UNCHANGED <<available, reservation, reply>>

\* Lock the flight's row, credit the seats (the CHECK of table flights may
\* refuse), set the reservation's status.
ReleaseCredit(c) ==
    LET f == FlightOf[BookingOf[c]]
    IN  /\ pc[c] = "rowLocked"
        /\ FlightFree(c)
        /\ IF SeatsCheck(f, available[f] + seatCount[c])
           THEN pc' = [pc EXCEPT ![c] = "credited"] /\ UNCHANGED reply
           ELSE Answer(c, "Internal")
        /\ UNCHANGED <<available, reservation, seatCount>>

\* Mutant of ReleaseApply: the status of the reservation is not updated.
ReleaseLeavesActive(c) ==
    /\ available' = [available EXCEPT ![FlightOf[BookingOf[c]]] = @ + seatCount[c]]
    /\ UNCHANGED reservation

\* The credit and the status update of c become visible.
ReleaseApply(c) ==
    LET b == BookingOf[c]
    IN  /\ available' = [available EXCEPT ![FlightOf[b]] = @ + seatCount[c]]
        /\ reservation' = [reservation EXCEPT ![b].status = "RELEASED"]

\* COMMIT takes effect, and the handler learns it or not.
ReleaseCommit(c) ==
    /\ pc[c] = "credited"
    /\ ReleaseApply(c)
    /\ \E r \in {"OK", "Internal"} : Answer(c, r)
    /\ UNCHANGED seatCount

----------------------------------------------------------------------------
(* Failures.  Any statement may fail before the commit takes effect: the   *)
(* connection breaks, the context of the request ends, the process stops.  *)
(* The transaction rolls back and its locks are dropped.                   *)

Abort(c) ==
    /\ pc[c] # "done"
    /\ Answer(c, "Internal")
    /\ UNCHANGED <<available, reservation, seatCount>>

\* Mutant of DeadlockAbort: a deadlock is not detected.
DeadlockUnseen(c) == WaitsFor(c, c) /\ Abort(c)

\* PostgreSQL finds that c is in a cycle of waits and fails its statement.
\* A wait for a reservation row is always for a call of the same booking,
\* hence of the same flight, so a cycle has two members.
DeadlockAbort(c) ==
    /\ \E d \in Calls : WaitsFor(c, d) /\ WaitsFor(d, c)
    /\ Abort(c)

----------------------------------------------------------------------------
ReserveStep(c) ==
    \/ ReserveAgain(c) \/ ReserveLookup(c) \/ ReserveDebit(c)
    \/ ReserveRefused(c) \/ ReserveUpsert(c) \/ ReserveCommit(c)

ReleaseStep(c) ==
    \/ ReleaseNotFound(c) \/ ReleaseAgain(c) \/ ReleaseLockRow(c)
    \/ ReleaseCredit(c) \/ ReleaseCommit(c)

CallStep(c) == ReserveStep(c) \/ ReleaseStep(c) \/ DeadlockAbort(c) \/ Abort(c)

Next == \E c \in Calls : CallStep(c)

\* A running handler issues its next statement; PostgreSQL grants a free row
\* lock and resolves wait cycles (deadlock_timeout).  Nothing makes a call
\* arrive, and nothing makes a statement fail otherwise.
Fairness ==
    \A c \in Calls : /\ WF_vars(pc[c] # "idle" /\ (ReserveStep(c) \/ ReleaseStep(c)))
                     /\ WF_vars(DeadlockAbort(c))

Spec == Init /\ [][Next]_vars /\ Fairness

\* At most one ReserveSeats of a booking has looked up and not answered: what
\* a retry meets when the attempt before it is over in the service too.
ReservesApart ==
    \A c, d \in ReserveCalls :
        /\ c # d
        /\ BookingOf[c] = BookingOf[d]
        => pc[c] \in {"idle", "done"} \/ pc[d] \in {"idle", "done"}

SpecApart == Init /\ [][Next /\ ReservesApart']_vars
----------------------------------------------------------------------------
TypeOK ==
    /\ available \in [Flights -> Nat]
    /\ \A f \in Flights : available[f] <= TotalSeats[f]
    /\ reservation \in [Bookings -> [status : {"NONE", "ACTIVE", "RELEASED"}, seats : Nat]]
    /\ pc \in [Calls -> {"idle", "lookedUp", "debited", "upserted",
                         "rowLocked", "credited", "done"}]
    /\ seatCount \in [Calls -> Nat]
    /\ reply \in [Calls -> Replies \cup {"none"}]

\* The seats of flight f that the ACTIVE rows of r hold, one pair per seat.
HeldIn(r, f) ==
    { s \in Bookings \X (1 .. TotalSeats[f]) :
        FlightOf[s[1]] = f /\ r[s[1]].status = "ACTIVE" /\ s[2] <= r[s[1]].seats }

Held(f) == HeldIn(reservation, f)

\* The seats of a flight that are free and those that reservations hold never
\* exceed the seats it has, whatever attempts overlap, repeat or fail: the
\* lock order and READ COMMITTED lookups of ReserveSeats (main.go:197-228).
NoOverbooking == \A f \in Flights : available[f] + Cardinality(Held(f)) <= TotalSeats[f]

\* A release that holds both its row locks is never refused by the CHECK of
\* table flights (main.go:255): cancelling always gives the seats back.
ReleaseNeverRefused ==
    \A c \in Calls :
        /\ pc[c] = "rowLocked"
        /\ FlightFree(c)
        => SeatsCheck(FlightOf[BookingOf[c]], available[FlightOf[BookingOf[c]]] + seatCount[c])

\* A step that gives seats back to a flight turns one ACTIVE reservation of
\* it to RELEASED and gives back exactly the seats of that row: two releases
\* of one booking never both credit (main.go:242-258).
ReleaseCreditsOnce ==
    [][\A f \in Flights : available'[f] > available[f] =>
         \E b \in Bookings :
            /\ FlightOf[b] = f
            /\ reservation[b].status = "ACTIVE"
            /\ reservation'[b].status = "RELEASED"
            /\ available'[f] = available[f] + reservation[b].seats]_vars

\* A step that takes seats from a flight makes one reservation of it ACTIVE
\* that was not, and takes exactly the seats of that row: a repeated
\* ReserveSeats never debits twice (main.go:197-223).
ReserveDebitsOnce ==
    [][\A f \in Flights : available'[f] < available[f] =>
         \E b \in Bookings :
            /\ FlightOf[b] = f
            /\ reservation[b].status # "ACTIVE"
            /\ reservation'[b].status = "ACTIVE"
            /\ available'[f] = available[f] - reservation'[b].seats]_vars

\* Every seat is free or held by an ACTIVE reservation: no seat leaks when
\* attempts of one booking do not overlap (main.go:190-266).
SeatBalance == \A f \in Flights : available[f] + Cardinality(Held(f)) = TotalSeats[f]

\* A call that has begun is answered, although ReserveSeats locks the flight
\* before the reservation and ReleaseReservation the other way round
\* (main.go:209-222 and 242-252).
EveryCallAnswered == \A c \in Calls : pc[c] # "idle" ~> pc[c] = "done"

\* The promise of SeatLedger: each attempt is one atomic change, made when it
\* is answered, although its handler runs five statements between which other
\* handlers run (main.go:190-266).
Ledger == INSTANCE SeatLedger WITH
              available <- available, reservation <- reservation, reply <- reply
RefinesLedger == Ledger!Spec

\* The inductive invariant.  Row locks are exclusive; a handler is where its
\* method can be; what it checked under a lock still holds while it holds it.
LocksExclusive ==
    \A c, d \in Calls :
        c # d =>
        /\ HoldsFlight(c) /\ HoldsFlight(d) => FlightOf[BookingOf[c]] # FlightOf[BookingOf[d]]
        /\ HoldsRow(c) /\ HoldsRow(d) => BookingOf[c] # BookingOf[d]

ReserveLocal(c) ==
    /\ pc[c] \in {"idle", "lookedUp", "debited", "upserted", "done"}
    /\ pc[c] \in {"debited", "upserted"} =>
         /\ KnownFlight(BookingOf[c])
         /\ available[FlightOf[BookingOf[c]]] >= SeatsOf[BookingOf[c]]
    /\ pc[c] = "upserted" => SeatCountCheck(SeatsOf[BookingOf[c]])

ReleaseLocal(c) ==
    /\ pc[c] \in {"idle", "rowLocked", "credited", "done"}
    /\ pc[c] \in {"rowLocked", "credited"} =>
         /\ reservation[BookingOf[c]].status = "ACTIVE"
         /\ seatCount[c] = reservation[BookingOf[c]].seats

RowsSound ==
    \A b \in Bookings :
        IF reservation[b].status = "NONE"
        THEN reservation[b] = NoRow
        ELSE /\ KnownFlight(b)
             /\ reservation[b].seats \in 1 .. TotalSeats[FlightOf[b]]

IInv ==
    /\ TypeOK
    /\ LocksExclusive
    /\ \A c \in ReserveCalls : ReserveLocal(c)
    /\ \A c \in ReleaseCalls : ReleaseLocal(c)
    /\ RowsSound
    /\ NoOverbooking

\* While attempts to reserve stay apart, one that found no ACTIVE row keeps
\* finding none.
LookupFresh ==
    \A c \in ReserveCalls :
        pc[c] \in {"lookedUp", "debited", "upserted"} =>
            reservation[BookingOf[c]].status # "ACTIVE"

RepliesOpen == \A c \in Calls : pc[c] # "done" => reply[c] = "none"

============================================================================
