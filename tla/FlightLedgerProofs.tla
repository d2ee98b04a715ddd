------------------------- MODULE FlightLedgerProofs -------------------------
(***************************************************************************)
(* What FlightService guarantees when the attempts of a booking to reserve *)
(* do not overlap (SpecApart): it implements SeatLedger, no seat leaks,    *)
(* and no reservation is debited twice.                                    *)
(***************************************************************************)
EXTENDS FlightServiceProofs

NextApart == Next /\ ReservesApart'

ApartInv == IInv /\ ReservesApart /\ LookupFresh /\ RepliesOpen

\* A call is answered at most once: what RepliesOpen says of every step.
LEMMA NextRepliesOpen ==
    ASSUME IInv, RepliesOpen, [Next]_vars
    PROVE  RepliesOpen'
  <1> USE DEF RepliesOpen, IInv, TypeOK
  <1>1. ASSUME NEW c \in Calls, ReserveStep(c) PROVE RepliesOpen'
    BY <1>1 DEF ReserveStep, ReserveAgain, ReserveLookup, ReserveDebit,
         ReserveRefused, ReserveUpsert, ReserveCommit, Answer
  <1>2. ASSUME NEW c \in Calls, ReleaseStep(c) PROVE RepliesOpen'
    BY <1>2 DEF ReleaseStep, ReleaseNotFound, ReleaseAgain, ReleaseLockRow,
         ReleaseCredit, ReleaseCommit, Answer
  <1>3. ASSUME NEW c \in Calls, Abort(c) \/ DeadlockAbort(c) PROVE RepliesOpen'
    BY <1>3 DEF Abort, DeadlockAbort, Answer
  <1>4. CASE UNCHANGED vars
    BY <1>4 DEF vars
  <1>5. QED
    BY <1>1, <1>2, <1>3, <1>4 DEF Next, CallStep

\* Only the commit of another attempt of the booking could make its row ACTIVE
\* behind the back of an attempt that has looked it up.
LEMMA NextLookupFresh ==
    ASSUME ApartInv, NextApart
    PROVE  LookupFresh'
  <1> USE DEF ApartInv, NextApart
  <1> SUFFICES ASSUME NEW d \in ReserveCalls,
                      pc'[d] \in {"lookedUp", "debited", "upserted"}
               PROVE  reservation'[BookingOf[d]].status # "ACTIVE"
    BY DEF LookupFresh
  <1>1. PICK c \in Calls : CallStep(c)
    BY DEF Next
  <1>2. BookingOf[d] \in Bookings /\ d \in Calls
    BY CallsAssumption DEF Calls
  <1>3. TypeOK
    BY DEF IInv
  <1>4. CASE ReserveCommit(c)
    <2>1. c # d /\ pc'[d] = pc[d]
      BY <1>2, <1>3, <1>4 DEF ReserveCommit, Answer, TypeOK
    <2>2. pc[c] = "upserted" /\ c \in ReserveCalls
      BY <1>4 DEF ReserveCommit
    <2>3. BookingOf[c] # BookingOf[d]
      BY <2>1, <2>2 DEF ReservesApart
    <2>4. reservation'[BookingOf[d]] = reservation[BookingOf[d]]
      BY <2>3, <1>2, <1>3, <1>4 DEF ReserveCommit, ReserveApply, TypeOK
    <2>5. QED
      BY <2>1, <2>4 DEF LookupFresh
  <1>5. CASE ReleaseCommit(c)
    <2>1. c # d /\ pc'[d] = pc[d]
      BY <1>2, <1>3, <1>5 DEF ReleaseCommit, Answer, TypeOK
    <2>2. reservation[BookingOf[d]].status # "ACTIVE"
      BY <2>1 DEF LookupFresh
    <2>3. reservation' = [reservation EXCEPT ![BookingOf[c]].status = "RELEASED"]
      BY <1>5 DEF ReleaseCommit, ReleaseApply
    <2>4. QED
      BY <2>2, <2>3, <1>2, <1>3 DEF TypeOK
  <1>6. CASE ~ ReserveCommit(c) /\ ~ ReleaseCommit(c)
    <2>1. reservation' = reservation
      BY <1>1, <1>6 DEF CallStep, ReserveStep, ReleaseStep, DeadlockAbort, Abort,
         ReserveAgain, ReserveLookup, ReserveDebit, ReserveRefused, ReserveUpsert,
         ReleaseNotFound, ReleaseAgain, ReleaseLockRow, ReleaseCredit
    <2>2. CASE ReserveLookup(c) /\ c = d
      BY <2>1, <2>2 DEF ReserveLookup
    <2>3. CASE ~ (ReserveLookup(c) /\ c = d)
      <3>1. pc[d] \in {"lookedUp", "debited", "upserted"}
        BY <1>1, <1>2, <1>3, <1>6, <2>3, CallsAssumption, CallKinds
        DEF CallStep, ReserveStep, ReleaseStep, DeadlockAbort, Abort, Answer,
         ReserveAgain, ReserveLookup, ReserveDebit, ReserveRefused, ReserveUpsert,
         ReleaseNotFound, ReleaseAgain, ReleaseLockRow, ReleaseCredit, TypeOK
      <3>2. QED
        BY <3>1, <2>1 DEF LookupFresh
    <2>4. QED
      BY <2>2, <2>3
  <1>7. QED
    BY <1>4, <1>5, <1>6

\* ApartInv is an invariant of the handlers when reserve attempts stay apart.
LEMMA ApartInductive == SpecApart => []ApartInv
  <1>1. Init => ApartInv
    <2> SUFFICES ASSUME Init PROVE ApartInv
      OBVIOUS
    <2>1. IInv
      BY InitIInv
    <2>2. ReservesApart /\ LookupFresh /\ RepliesOpen
      BY DEF Init, ReservesApart, LookupFresh, RepliesOpen, Calls
    <2>3. QED
      BY <2>1, <2>2 DEF ApartInv
  <1>2. ApartInv /\ [NextApart]_vars => ApartInv'
    <2> SUFFICES ASSUME ApartInv, [NextApart]_vars PROVE ApartInv'
      OBVIOUS
    <2>1. [Next]_vars
      BY DEF NextApart
    <2>2. IInv' /\ RepliesOpen'
      BY <2>1, NextIInv, NextRepliesOpen DEF ApartInv
    <2>3. CASE NextApart
      BY <2>2, <2>3, NextLookupFresh DEF ApartInv, NextApart
    <2>4. CASE UNCHANGED vars
      <3>1. ReservesApart' /\ LookupFresh'
        BY <2>4 DEF vars, ApartInv, ReservesApart, LookupFresh
      <3>2. QED
        BY <2>2, <3>1 DEF ApartInv
    <2>5. QED
      BY <2>3, <2>4
  <1>3. QED
    BY <1>1, <1>2, PTL DEF SpecApart, NextApart

----------------------------------------------------------------------------
(* The refinement.                                                         *)

\* An attempt that has not been answered is open in the ledger too.
LEMMA AnswerMaps ==
    ASSUME ApartInv, NEW c \in Calls, pc[c] # "done", NEW r, Answer(c, r)
    PROVE  Ledger!Answered(c, r)
  BY DEF ApartInv, RepliesOpen, Answer, Ledger!Answered

\* Every step of a handler is an answer of the ledger, or nothing to it.
LEMMA StepMaps ==
    ASSUME ApartInv, [NextApart]_vars
    PROVE  [Ledger!Next]_(Ledger!vars)
  <1>1. CASE UNCHANGED vars
    BY <1>1 DEF vars, Ledger!vars
  <1>2. ASSUME NEW c \in Calls, CallStep(c)
        PROVE  [Ledger!Next]_(Ledger!vars)
    <2> DEFINE b == BookingOf[c]
    <2>1. CASE \/ ReserveLookup(c) \/ ReserveDebit(c) \/ ReleaseLockRow(c)
      BY <2>1 DEF ReserveLookup, ReserveDebit, ReleaseLockRow, Ledger!vars
    <2>2. CASE ReserveAgain(c)
      <3>1. Ledger!AlreadyDone(c, b, "ACTIVE") /\ c \in ReserveCalls
        BY <2>2, AnswerMaps DEF ReserveAgain, Ledger!AlreadyDone, Ledger!Unchanged
      <3>2. QED
        BY <3>1 DEF Ledger!Next, Ledger!ReserveSeats
    <2>3. CASE ReserveRefused(c)
      <3>1. c \in ReserveCalls
        BY <2>3, CallKinds DEF ReserveRefused, ApartInv
      <3>2. Ledger!ReserveRefused(c, b) \/ Ledger!Failed(c)
        BY <2>3, AnswerMaps DEF ReserveRefused, KnownFlight, Ledger!ReserveRefused,
             Ledger!Failed, Ledger!Unchanged
      <3>3. QED
        BY <3>1, <3>2 DEF Ledger!Next, Ledger!ReserveSeats
    <2>4. CASE ReserveCommit(c)
      <3>1. c \in ReserveCalls /\ pc[c] = "upserted"
        BY <2>4 DEF ReserveCommit
      <3>2. reservation[b].status # "ACTIVE"
        BY <3>1 DEF ApartInv, LookupFresh
      <3>3. /\ FlightOf[b] \in Flights /\ SeatsOf[b] > 0
            /\ available[FlightOf[b]] >= SeatsOf[b]
        BY <3>1 DEF ApartInv, IInv, ReserveLocal, SeatCountCheck, KnownFlight
      <3>4. Ledger!Answered(c, "OK") \/ Ledger!Answered(c, "Internal")
        BY <2>4, <3>1, AnswerMaps DEF ReserveCommit
      <3>5. Ledger!Reserve(c, b)
        BY <2>4, <3>2, <3>3, <3>4 DEF ReserveCommit, ReserveApply, Ledger!Reserve
      <3>6. QED
        BY <3>1, <3>5 DEF Ledger!Next, Ledger!ReserveSeats
    <2>5. CASE ReleaseNotFound(c)
      <3>1. Ledger!ReleaseRefused(c, b) /\ c \in ReleaseCalls
        BY <2>5, AnswerMaps DEF ReleaseNotFound, NoRow, Ledger!ReleaseRefused, Ledger!Unchanged
      <3>2. QED
        BY <3>1 DEF Ledger!Next, Ledger!ReleaseReservation
    <2>6. CASE ReleaseAgain(c)
      <3>1. Ledger!AlreadyDone(c, b, "RELEASED") /\ c \in ReleaseCalls
        BY <2>6, AnswerMaps DEF ReleaseAgain, Ledger!AlreadyDone, Ledger!Unchanged
      <3>2. QED
        BY <3>1 DEF Ledger!Next, Ledger!ReleaseReservation
    <2>7. CASE ReleaseCommit(c)
      <3>1. pc[c] = "credited" /\ IInv
        BY <2>7 DEF ReleaseCommit, ApartInv
      <3>2. /\ c \in ReleaseCalls
            /\ reservation[b].status = "ACTIVE"
            /\ seatCount[c] = reservation[b].seats
        BY <3>1, CallKinds, ReleaseChecked
      <3>3. Ledger!Answered(c, "OK") \/ Ledger!Answered(c, "Internal")
        BY <2>7, <3>1, AnswerMaps DEF ReleaseCommit
      <3>4. Ledger!Release(c, b)
        BY <2>7, <3>2, <3>3 DEF ReleaseCommit, ReleaseApply, Ledger!Release
      <3>5. QED
        BY <3>2, <3>4 DEF Ledger!Next, Ledger!ReleaseReservation
    <2>8. CASE ReserveUpsert(c) \/ ReleaseCredit(c) \/ Abort(c) \/ DeadlockAbort(c)
      <3>1. UNCHANGED <<available, reservation>> /\ pc[c] # "done"
        BY <2>8 DEF ReserveUpsert, ReleaseCredit, Abort, DeadlockAbort
      <3>2. reply' = reply \/ Answer(c, "Internal")
        BY <2>8 DEF ReserveUpsert, ReleaseCredit, Abort, DeadlockAbort
      <3>3. CASE reply' = reply
        BY <3>1, <3>3 DEF Ledger!vars
      <3>4. CASE Answer(c, "Internal")
        <4>1. Ledger!Failed(c)
          BY <3>1, <3>4, AnswerMaps DEF Ledger!Failed, Ledger!Unchanged
        <4>2. QED
          BY <4>1 DEF Ledger!Next, Ledger!ReserveSeats, Ledger!ReleaseReservation, Calls
      <3>5. QED
        BY <3>2, <3>3, <3>4
    <2>9. QED
      BY <1>2, <2>1, <2>2, <2>3, <2>4, <2>5, <2>6, <2>7, <2>8
      DEF CallStep, ReserveStep, ReleaseStep
  <1>3. QED
    BY <1>1, <1>2 DEF NextApart, Next

\* ReserveSeats and ReleaseReservation are atomic: each attempt is one change
\* of the ledger, made when it is answered, for every number of bookings and
\* attempts (main.go:190-266).
THEOREM ImplementsLedger == SpecApart => RefinesLedger
  <1>1. Init => Ledger!Init
    BY DEF Init, Ledger!Init, NoRow, Calls
  <1>2. QED
    BY <1>1, StepMaps, ApartInductive, PTL
    DEF SpecApart, NextApart, RefinesLedger, Ledger!Spec
----------------------------------------------------------------------------
(* No seat leaks.                                                          *)

\* A commit of a reservation moves its seats from free to held.
LEMMA ReserveBalanced ==
    ASSUME ApartInv, SeatBalance, NEW c \in Calls, ReserveCommit(c)
    PROVE  SeatBalance'
  <1> DEFINE b == BookingOf[c]
             f == FlightOf[b]
             n == SeatsOf[b]
  <1>1. /\ c \in ReserveCalls
        /\ pc[c] = "upserted"
        /\ available' = [available EXCEPT ![f] = @ - n]
        /\ reservation' = [reservation EXCEPT ![b] = [status |-> "ACTIVE", seats |-> n]]
    BY DEF ReserveCommit, ReserveApply
  <1>2. /\ b \in Bookings /\ f \in Flights
        /\ n \in 1 .. available[f] /\ n \in 1 .. TotalSeats[f]
        /\ reservation[b].status # "ACTIVE"
    BY <1>1, ReserveChecked DEF ApartInv, LookupFresh
  <1>3. /\ available \in [Flights -> Nat]
        /\ reservation \in [Bookings -> [status : {"NONE", "ACTIVE", "RELEASED"}, seats : Nat]]
    BY DEF ApartInv, IInv, TypeOK
  <1>4. Cardinality(HeldIn(reservation', f)) = Cardinality(HeldIn(reservation, f)) + n
    <2>1. reservation'[b] = [status |-> "ACTIVE", seats |-> n]
      BY <1>1, <1>2, <1>3
    <2>2. \A x \in Bookings : x # b => reservation'[x] = reservation[x]
      BY <1>1, <1>3
    <2>3. QED
      BY <1>2, <1>3, <2>1, <2>2, HeldAfterReserve
  <1> SUFFICES ASSUME NEW g \in Flights
               PROVE  available'[g] + Cardinality(HeldIn(reservation', g)) = TotalSeats[g]
    BY DEF SeatBalance, Held
  <1>5. /\ available[g] + Cardinality(HeldIn(reservation, g)) = TotalSeats[g]
        /\ Cardinality(HeldIn(reservation, g)) \in Nat
    BY HeldFinite DEF SeatBalance, Held
  <1>6. CASE g = f
    <2>1. available'[f] = available[f] - n
      BY <1>1, <1>2, <1>3
    <2>2. QED
      BY <2>1, <1>2, <1>3, <1>4, <1>5, <1>6
  <1>7. CASE g # f
    <2>1. \A x \in Bookings : x # b => reservation'[x] = reservation[x]
      BY <1>1, <1>3
    <2>2. HeldIn(reservation', g) = HeldIn(reservation, g)
      BY <1>7, <2>1, <1>2, HeldElsewhere
    <2>3. QED
      BY <2>2, <1>1, <1>3, <1>5, <1>7
  <1>8. QED
    BY <1>6, <1>7

\* A commit of a release moves the seats of its row from held to free.
LEMMA ReleaseBalanced ==
    ASSUME ApartInv, SeatBalance, NEW c \in Calls, ReleaseCommit(c)
    PROVE  SeatBalance'
  <1> DEFINE b == BookingOf[c]
             f == FlightOf[b]
             n == seatCount[c]
  <1>1. /\ pc[c] = "credited"
        /\ available' = [available EXCEPT ![f] = @ + n]
        /\ reservation' = [reservation EXCEPT ![b].status = "RELEASED"]
    BY DEF ReleaseCommit, ReleaseApply
  <1>2. /\ b \in Bookings /\ f \in Flights
        /\ reservation[b].status = "ACTIVE"
        /\ n = reservation[b].seats
        /\ n \in 1 .. TotalSeats[f]
    BY <1>1, ReleaseChecked DEF ApartInv
  <1>3. /\ available \in [Flights -> Nat]
        /\ reservation \in [Bookings -> [status : {"NONE", "ACTIVE", "RELEASED"}, seats : Nat]]
    BY DEF ApartInv, IInv, TypeOK
  <1>4. Cardinality(HeldIn(reservation, f)) = Cardinality(HeldIn(reservation', f)) + n
    <2>1. reservation'[b].status = "RELEASED"
      BY <1>1, <1>2, <1>3
    <2>2. \A x \in Bookings : x # b => reservation'[x] = reservation[x]
      BY <1>1, <1>3
    <2>3. QED
      BY <1>2, <1>3, <2>1, <2>2, HeldAfterRelease
  <1> SUFFICES ASSUME NEW g \in Flights
               PROVE  available'[g] + Cardinality(HeldIn(reservation', g)) = TotalSeats[g]
    BY DEF SeatBalance, Held
  <1>5. /\ available[g] + Cardinality(HeldIn(reservation, g)) = TotalSeats[g]
        /\ Cardinality(HeldIn(reservation, g)) \in Nat
        /\ Cardinality(HeldIn(reservation', g)) \in Nat
    BY HeldFinite DEF SeatBalance, Held
  <1>6. CASE g = f
    <2>1. available'[f] = available[f] + n
      BY <1>1, <1>2, <1>3
    <2>2. QED
      BY <2>1, <1>2, <1>3, <1>4, <1>5, <1>6
  <1>7. CASE g # f
    <2>1. \A x \in Bookings : x # b => reservation'[x] = reservation[x]
      BY <1>1, <1>3
    <2>2. HeldIn(reservation', g) = HeldIn(reservation, g)
      BY <1>7, <2>1, <1>2, HeldElsewhere
    <2>3. QED
      BY <2>2, <1>1, <1>3, <1>5, <1>7
  <1>8. QED
    BY <1>6, <1>7

\* Every seat of a flight is free or held by an ACTIVE reservation, after any
\* number of attempts and failures, when reserve attempts of a booking do not
\* overlap (main.go:190-266).
THEOREM NoSeatLeaks == SpecApart => []SeatBalance
  <1>1. Init => SeatBalance
    <2> SUFFICES ASSUME Init, NEW f \in Flights
                 PROVE  available[f] + Cardinality(Held(f)) = TotalSeats[f]
      BY DEF SeatBalance
    <2>1. Held(f) = {}
      BY DEF Init, Held, HeldIn, NoRow
    <2>2. Cardinality(Held(f)) = 0
      BY <2>1, FS_EmptySet
    <2>3. QED
      BY <2>2, FlightsAssumption DEF Init
  <1>2. ApartInv /\ SeatBalance /\ [NextApart]_vars => SeatBalance'
    <2> SUFFICES ASSUME ApartInv, SeatBalance, [NextApart]_vars PROVE SeatBalance'
      OBVIOUS
    <2>1. CASE UNCHANGED <<available, reservation>>
      BY <2>1 DEF SeatBalance, Held, HeldIn
    <2>2. CASE \E c \in Calls : ReserveCommit(c) \/ ReleaseCommit(c)
      BY <2>2, ReserveBalanced, ReleaseBalanced
    <2>3. \/ UNCHANGED <<available, reservation>>
          \/ \E c \in Calls : ReserveCommit(c) \/ ReleaseCommit(c)
      BY DEF NextApart, Next, vars, CallStep, ReserveStep, ReleaseStep, DeadlockAbort, Abort,
         ReserveAgain, ReserveLookup, ReserveDebit, ReserveRefused, ReserveUpsert,
         ReleaseNotFound, ReleaseAgain, ReleaseLockRow, ReleaseCredit
    <2>4. QED
      BY <2>1, <2>2, <2>3
  <1>3. QED
    BY <1>1, <1>2, ApartInductive, PTL DEF SpecApart, NextApart

----------------------------------------------------------------------------
(* Reservations debit once.                                                *)

\* A step that takes seats from a flight makes one of its reservations ACTIVE
\* and takes as many as that row says (main.go:197-223).
THEOREM DebitsOnce == SpecApart => ReserveDebitsOnce
  <1>1. ApartInv /\ [NextApart]_vars =>
          [\A f \in Flights : available'[f] < available[f] =>
             \E b \in Bookings :
                /\ FlightOf[b] = f
                /\ reservation[b].status # "ACTIVE"
                /\ reservation'[b].status = "ACTIVE"
                /\ available'[f] = available[f] - reservation'[b].seats]_vars
    <2> SUFFICES ASSUME ApartInv, [NextApart]_vars,
                        NEW f \in Flights, available'[f] < available[f]
                 PROVE  \E b \in Bookings :
                          /\ FlightOf[b] = f
                          /\ reservation[b].status # "ACTIVE"
                          /\ reservation'[b].status = "ACTIVE"
                          /\ available'[f] = available[f] - reservation'[b].seats
      OBVIOUS
    <2>1. /\ available \in [Flights -> Nat]
          /\ reservation \in [Bookings -> [status : {"NONE", "ACTIVE", "RELEASED"}, seats : Nat]]
      BY DEF ApartInv, IInv, TypeOK
    <2>2. available' # available
      BY <2>1
    <2>3. PICK c \in Calls : ReserveCommit(c) \/ ReleaseCommit(c)
      BY <2>2 DEF NextApart, Next, vars, CallStep, ReserveStep, ReleaseStep, DeadlockAbort, Abort,
         ReserveAgain, ReserveLookup, ReserveDebit, ReserveRefused, ReserveUpsert,
         ReleaseNotFound, ReleaseAgain, ReleaseLockRow, ReleaseCredit
    <2>4. ~ ReleaseCommit(c)
      <3> SUFFICES ASSUME ReleaseCommit(c) PROVE FALSE
        OBVIOUS
      <3>1. pc[c] = "credited"
            /\ available' = [available EXCEPT ![FlightOf[BookingOf[c]]] = @ + seatCount[c]]
        BY DEF ReleaseCommit, ReleaseApply
      <3>2. /\ FlightOf[BookingOf[c]] \in Flights
            /\ seatCount[c] \in 1 .. TotalSeats[FlightOf[BookingOf[c]]]
        BY <3>1, ReleaseChecked DEF ApartInv
      <3>3. QED
        BY <3>1, <3>2, <2>1, FlightsAssumption
    <2>5. /\ c \in ReserveCalls /\ pc[c] = "upserted"
          /\ available' = [available EXCEPT ![FlightOf[BookingOf[c]]] = @ - SeatsOf[BookingOf[c]]]
          /\ reservation' = [reservation EXCEPT
                ![BookingOf[c]] = [status |-> "ACTIVE", seats |-> SeatsOf[BookingOf[c]]]]
      BY <2>3, <2>4 DEF ReserveCommit, ReserveApply
    <2>6. /\ BookingOf[c] \in Bookings
          /\ reservation[BookingOf[c]].status # "ACTIVE"
      BY <2>5, ReserveChecked DEF ApartInv, LookupFresh
    <2>7. FlightOf[BookingOf[c]] = f
      BY <2>1, <2>5
    <2>8. /\ reservation'[BookingOf[c]].status = "ACTIVE"
          /\ available'[f] = available[f] - reservation'[BookingOf[c]].seats
      BY <2>1, <2>5, <2>6, <2>7
    <2>9. QED
      BY <2>6, <2>7, <2>8
  <1>2. QED
    BY <1>1, ApartInductive, PTL DEF SpecApart, NextApart, ReserveDebitsOnce

============================================================================
