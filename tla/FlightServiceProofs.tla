------------------------- MODULE FlightServiceProofs -------------------------
(***************************************************************************)
(* Theorems about FlightService for every number of flights, bookings and  *)
(* attempts.  HeldIn is counted first; then IInv is shown inductive, one   *)
(* step per action; the safety properties of the runs follow from it.      *)
(***************************************************************************)
EXTENDS FlightService, FiniteSetTheorems, TLAPS

----------------------------------------------------------------------------
(* Counting seats.                                                         *)

\* The seats of one row are as many as its seat_count says.
LEMMA SeatsOfRow ==
    ASSUME NEW b, NEW n \in Nat
    PROVE  /\ IsFiniteSet({b} \X (1 .. n))
           /\ Cardinality({b} \X (1 .. n)) = n
  <1>1. IsFiniteSet({b}) /\ Cardinality({b}) = 1
    BY FS_Singleton
  <1>2. IsFiniteSet(1 .. n) /\ Cardinality(1 .. n) = n
    BY FS_Interval
  <1>3. /\ IsFiniteSet({b} \X (1 .. n))
        /\ Cardinality({b} \X (1 .. n)) = Cardinality({b}) * Cardinality(1 .. n)
    BY ONLY <1>1, <1>2, FS_Product
  <1>4. QED
    BY <1>1, <1>2, <1>3

\* The seats held on a flight can be counted.
LEMMA HeldFinite ==
    ASSUME NEW r, NEW f \in Flights
    PROVE  /\ IsFiniteSet(HeldIn(r, f))
           /\ Cardinality(HeldIn(r, f)) \in Nat
  <1>1. TotalSeats[f] \in Nat
    BY FlightsAssumption
  <1>2. IsFiniteSet(1 .. TotalSeats[f])
    BY <1>1, FS_Interval
  <1>3. IsFiniteSet(Bookings \X (1 .. TotalSeats[f]))
    BY <1>2, BookingsAssumption, FS_Product
  <1>4. HeldIn(r, f) \in SUBSET (Bookings \X (1 .. TotalSeats[f]))
    BY DEF HeldIn
  <1>5. IsFiniteSet(HeldIn(r, f))
    BY <1>3, <1>4, FS_Subset
  <1>6. QED
    BY <1>5, FS_CardinalityType

\* Making row b ACTIVE with n seats adds at most n held seats to its flight,
\* and exactly n when the row was not ACTIVE.
LEMMA HeldAfterReserve ==
    ASSUME NEW r, NEW b \in Bookings, NEW f \in Flights, f = FlightOf[b],
           r \in [Bookings -> [status : {"NONE", "ACTIVE", "RELEASED"}, seats : Nat]],
           NEW n \in 1 .. TotalSeats[f],
           NEW s, s[b] = [status |-> "ACTIVE", seats |-> n],
           \A x \in Bookings : x # b => s[x] = r[x]
    PROVE  /\ Cardinality(HeldIn(s, f)) <= Cardinality(HeldIn(r, f)) + n
           /\ r[b].status # "ACTIVE" =>
                Cardinality(HeldIn(s, f)) = Cardinality(HeldIn(r, f)) + n
  <1> DEFINE B == {b} \X (1 .. n)
  <1>0. TotalSeats[f] \in Nat /\ n \in Nat
    BY FlightsAssumption
  <1>1. IsFiniteSet(B) /\ Cardinality(B) = n
    BY <1>0, SeatsOfRow
  <1>2. IsFiniteSet(HeldIn(r, f)) /\ Cardinality(HeldIn(r, f)) \in Nat
    BY HeldFinite
  <1>3. IsFiniteSet(HeldIn(s, f)) /\ Cardinality(HeldIn(s, f)) \in Nat
    BY HeldFinite
  <1>4. /\ IsFiniteSet(HeldIn(r, f) \cup B)
        /\ Cardinality(HeldIn(r, f) \cup B)
             = Cardinality(HeldIn(r, f)) + n - Cardinality(HeldIn(r, f) \cap B)
    BY <1>1, <1>2, FS_Union
  <1>5. Cardinality(HeldIn(r, f) \cap B) \in Nat
    BY <1>1, FS_Intersection, FS_CardinalityType
  <1>6. HeldIn(s, f) \in SUBSET (HeldIn(r, f) \cup B)
    BY <1>0 DEF HeldIn
  <1>7. Cardinality(HeldIn(s, f)) <= Cardinality(HeldIn(r, f) \cup B)
    BY <1>4, <1>6, FS_Subset
  <1>8. Cardinality(HeldIn(s, f)) <= Cardinality(HeldIn(r, f)) + n
    <2>1. Cardinality(HeldIn(r, f) \cup B) <= Cardinality(HeldIn(r, f)) + n
      BY <1>0, <1>2, <1>4, <1>5
    <2>2. Cardinality(HeldIn(r, f) \cup B) \in Nat
      BY <1>4, FS_CardinalityType
    <2>3. QED
      BY <2>1, <2>2, <1>0, <1>2, <1>3, <1>7
  <1>9. ASSUME r[b].status # "ACTIVE"
        PROVE  Cardinality(HeldIn(s, f)) = Cardinality(HeldIn(r, f)) + n
    <2>1. HeldIn(r, f) \cap B = {}
      BY <1>9 DEF HeldIn
    <2>2. HeldIn(s, f) = HeldIn(r, f) \cup B
      BY <1>0, <1>9 DEF HeldIn
    <2>3. Cardinality(HeldIn(r, f) \cap B) = 0
      BY <2>1, FS_EmptySet
    <2>4. Cardinality(HeldIn(s, f)) = Cardinality(HeldIn(r, f) \cup B)
      BY ONLY <2>2
    <2>5. QED
      BY ONLY <2>3, <2>4, <1>0, <1>2, <1>4
  <1>10. QED
    BY <1>8, <1>9

\* The seats held on a flight do not depend on rows of other flights.
LEMMA HeldElsewhere ==
    ASSUME NEW r, NEW s, NEW b \in Bookings, NEW g \in Flights, g # FlightOf[b],
           \A x \in Bookings : x # b => s[x] = r[x]
    PROVE  HeldIn(s, g) = HeldIn(r, g)
  BY DEF HeldIn

\* Releasing an ACTIVE row takes exactly its seats from those held.
LEMMA HeldAfterRelease ==
    ASSUME NEW r, NEW b \in Bookings, NEW f \in Flights, f = FlightOf[b],
           r \in [Bookings -> [status : {"NONE", "ACTIVE", "RELEASED"}, seats : Nat]],
           r[b].status = "ACTIVE", r[b].seats \in 1 .. TotalSeats[f],
           NEW s, s[b].status = "RELEASED",
           \A x \in Bookings : x # b => s[x] = r[x]
    PROVE  /\ Cardinality(HeldIn(r, f)) = Cardinality(HeldIn(s, f)) + r[b].seats
  <1> DEFINE B == {b} \X (1 .. r[b].seats)
  <1>0. TotalSeats[f] \in Nat /\ r[b].seats \in Nat
    BY FlightsAssumption
  <1>1. IsFiniteSet(B) /\ Cardinality(B) = r[b].seats
    BY <1>0, SeatsOfRow
  <1>2. IsFiniteSet(HeldIn(s, f)) /\ Cardinality(HeldIn(s, f)) \in Nat
    BY HeldFinite
  <1>3. HeldIn(s, f) \cap B = {}
    BY DEF HeldIn
  <1>4. HeldIn(r, f) = HeldIn(s, f) \cup B
    BY <1>0 DEF HeldIn
  <1>5. Cardinality(HeldIn(r, f)) = Cardinality(HeldIn(s, f)) + r[b].seats
    <2>1. Cardinality(HeldIn(s, f) \cap B) = 0
      BY <1>3, FS_EmptySet
    <2>2. Cardinality(HeldIn(s, f) \cup B)
            = Cardinality(HeldIn(s, f)) + Cardinality(B) - Cardinality(HeldIn(s, f) \cap B)
      BY <1>1, <1>2, FS_Union
    <2>3. QED
      BY <2>1, <2>2, <1>0, <1>1, <1>2, <1>4
  <1>6. QED
    BY <1>5

\* No row holds more seats than are held on its flight.
LEMMA RowWithinHeld ==
    ASSUME NEW r, NEW b \in Bookings, NEW f \in Flights, f = FlightOf[b],
           r[b].status = "ACTIVE", r[b].seats \in 1 .. TotalSeats[f]
    PROVE  r[b].seats <= Cardinality(HeldIn(r, f))
  <1> DEFINE B == {b} \X (1 .. r[b].seats)
  <1>0. TotalSeats[f] \in Nat /\ r[b].seats \in Nat
    BY FlightsAssumption
  <1>1. Cardinality(B) = r[b].seats
    BY <1>0, SeatsOfRow
  <1>2. B \in SUBSET HeldIn(r, f)
    BY <1>0 DEF HeldIn
  <1>3. IsFiniteSet(HeldIn(r, f))
    BY HeldFinite
  <1>4. QED
    BY <1>1, <1>2, <1>3, FS_Subset
----------------------------------------------------------------------------
(* IInv is inductive.                                                      *)

\* Where a call is decides its method.
LEMMA CallKinds ==
    ASSUME IInv, NEW c \in Calls
    PROVE  /\ BookingOf[c] \in Bookings
           /\ pc[c] \in {"lookedUp", "debited", "upserted"} => c \in ReserveCalls
           /\ pc[c] \in {"rowLocked", "credited"} => c \in ReleaseCalls
  BY CallsAssumption DEF IInv, ReserveLocal, ReleaseLocal, Calls

\* Initially nothing is held and every seat is free.
LEMMA InitIInv == Init => IInv
  <1> SUFFICES ASSUME Init PROVE IInv
    OBVIOUS
  <1>1. TypeOK
    BY FlightsAssumption DEF Init, TypeOK, NoRow, Replies
  <1>2. LocksExclusive
    BY DEF Init, LocksExclusive, HoldsFlight, HoldsRow, Calls
  <1>3. /\ \A c \in ReserveCalls : ReserveLocal(c)
        /\ \A c \in ReleaseCalls : ReleaseLocal(c)
    BY DEF Init, ReserveLocal, ReleaseLocal, Calls
  <1>4. RowsSound
    BY DEF Init, RowsSound, NoRow
  <1>5. NoOverbooking
    <2> SUFFICES ASSUME NEW f \in Flights
                 PROVE  available[f] + Cardinality(Held(f)) <= TotalSeats[f]
      BY DEF NoOverbooking
    <2>1. Held(f) = {}
      BY DEF Init, Held, HeldIn, NoRow
    <2>2. Cardinality(Held(f)) = 0
      BY <2>1, FS_EmptySet
    <2>3. QED
      BY <2>2, FlightsAssumption DEF Init
  <1>6. QED
    BY <1>1, <1>2, <1>3, <1>4, <1>5 DEF IInv

\* A step that only moves the counter of c keeps the committed data's parts.
LEMMA DataKept ==
    ASSUME IInv, UNCHANGED <<available, reservation>>
    PROVE  RowsSound' /\ NoOverbooking'
  BY DEF IInv, RowsSound, NoOverbooking, Held, HeldIn, NoRow, KnownFlight

\* Answering without a commit gives up the locks of c and changes no data.
LEMMA AnswerKeepsIInv ==
    ASSUME IInv, NEW c \in Calls, NEW r \in Replies, Answer(c, r),
           UNCHANGED <<available, reservation, seatCount>>
    PROVE  IInv'
  <1> USE DEF Answer
  <1>1. TypeOK'
    BY DEF IInv, TypeOK
  <1>2. LocksExclusive'
    BY DEF IInv, TypeOK, LocksExclusive, HoldsFlight, HoldsRow
  <1>3. \A d \in ReserveCalls : ReserveLocal(d)'
    BY DEF IInv, TypeOK, ReserveLocal, KnownFlight, SeatCountCheck, Calls
  <1>4. \A d \in ReleaseCalls : ReleaseLocal(d)'
    BY DEF IInv, TypeOK, ReleaseLocal, Calls
  <1>5. QED
    BY <1>1, <1>2, <1>3, <1>4, DataKept DEF IInv

\* The steps of ReserveSeats before its commit.
LEMMA ReserveMovesKeepIInv ==
    ASSUME IInv, NEW c \in Calls,
           ReserveLookup(c) \/ ReserveDebit(c) \/ ReserveUpsert(c)
    PROVE  IInv'
  <1>1. CASE ReserveLookup(c)
    <2> USE <1>1 DEF ReserveLookup
    <2>1. TypeOK'
      BY DEF IInv, TypeOK
    <2>2. LocksExclusive'
      BY DEF IInv, TypeOK, LocksExclusive, HoldsFlight, HoldsRow
    <2>3. \A d \in ReserveCalls : ReserveLocal(d)'
      BY DEF IInv, TypeOK, ReserveLocal, KnownFlight, SeatCountCheck, Calls
    <2>4. \A d \in ReleaseCalls : ReleaseLocal(d)'
      BY CallsAssumption DEF IInv, TypeOK, ReleaseLocal, Calls
    <2>5. QED
      BY <2>1, <2>2, <2>3, <2>4, DataKept DEF IInv
  <1>2. CASE ReserveDebit(c)
    <2> USE <1>2 DEF ReserveDebit
    <2>1. TypeOK'
      BY DEF IInv, TypeOK
    <2>2. LocksExclusive'
      BY DEF IInv, TypeOK, LocksExclusive, HoldsFlight, HoldsRow, FlightFree
    <2>3. \A d \in ReserveCalls : ReserveLocal(d)'
      BY DEF IInv, TypeOK, ReserveLocal, KnownFlight, SeatCountCheck, Calls
    <2>4. \A d \in ReleaseCalls : ReleaseLocal(d)'
      BY CallsAssumption, CallKinds DEF IInv, TypeOK, ReleaseLocal, Calls
    <2>5. QED
      BY <2>1, <2>2, <2>3, <2>4, DataKept DEF IInv
  <1>3. CASE ReserveUpsert(c) /\ SeatCountCheck(SeatsOf[BookingOf[c]])
    <2> USE <1>3 DEF ReserveUpsert
    <2>1. TypeOK'
      BY DEF IInv, TypeOK
    <2>2. LocksExclusive'
      BY DEF IInv, TypeOK, LocksExclusive, HoldsFlight, HoldsRow, RowFree
    <2>3. \A d \in ReserveCalls : ReserveLocal(d)'
      BY DEF IInv, TypeOK, ReserveLocal, KnownFlight, SeatCountCheck, Calls
    <2>4. \A d \in ReleaseCalls : ReleaseLocal(d)'
      BY CallsAssumption, CallKinds DEF IInv, TypeOK, ReleaseLocal, Calls
    <2>5. QED
      BY <2>1, <2>2, <2>3, <2>4, DataKept DEF IInv
  <1>4. CASE ReserveUpsert(c) /\ ~ SeatCountCheck(SeatsOf[BookingOf[c]])
    BY <1>4, AnswerKeepsIInv DEF ReserveUpsert, Replies
  <1>5. QED
    BY <1>1, <1>2, <1>3, <1>4

\* The steps of ReleaseReservation before its commit.
LEMMA ReleaseMovesKeepIInv ==
    ASSUME IInv, NEW c \in Calls, ReleaseLockRow(c) \/ ReleaseCredit(c)
    PROVE  IInv'
  <1>1. CASE ReleaseLockRow(c)
    <2> USE <1>1 DEF ReleaseLockRow
    <2>1. TypeOK'
      BY CallKinds DEF IInv, TypeOK
    <2>2. LocksExclusive'
      BY DEF IInv, TypeOK, LocksExclusive, HoldsFlight, HoldsRow, RowFree
    <2>3. \A d \in ReserveCalls : ReserveLocal(d)'
      BY CallsAssumption DEF IInv, TypeOK, ReserveLocal, KnownFlight, SeatCountCheck, Calls
    <2>4. \A d \in ReleaseCalls : ReleaseLocal(d)'
      BY DEF IInv, TypeOK, ReleaseLocal, Calls
    <2>5. QED
      BY <2>1, <2>2, <2>3, <2>4, DataKept DEF IInv
  <1>2. CASE /\ ReleaseCredit(c)
             /\ SeatsCheck(FlightOf[BookingOf[c]],
                           available[FlightOf[BookingOf[c]]] + seatCount[c])
    <2> USE <1>2 DEF ReleaseCredit
    <2>1. TypeOK'
      BY DEF IInv, TypeOK
    <2>2. LocksExclusive'
      BY DEF IInv, TypeOK, LocksExclusive, HoldsFlight, HoldsRow, FlightFree
    <2>3. \A d \in ReserveCalls : ReserveLocal(d)'
      BY CallsAssumption, CallKinds
      DEF IInv, TypeOK, ReserveLocal, KnownFlight, SeatCountCheck, Calls
    <2>4. \A d \in ReleaseCalls : ReleaseLocal(d)'
      BY DEF IInv, TypeOK, ReleaseLocal, Calls
    <2>5. QED
      BY <2>1, <2>2, <2>3, <2>4, DataKept DEF IInv
  <1>3. CASE /\ ReleaseCredit(c)
             /\ ~ SeatsCheck(FlightOf[BookingOf[c]],
                             available[FlightOf[BookingOf[c]]] + seatCount[c])
    BY <1>3, AnswerKeepsIInv DEF ReleaseCredit, Replies
  <1>4. QED
    BY <1>1, <1>2, <1>3
\* What a ReserveSeats about to commit has checked: its seats are there.
LEMMA ReserveChecked ==
    ASSUME IInv, NEW c \in ReserveCalls, pc[c] = "upserted"
    PROVE  /\ BookingOf[c] \in Bookings
           /\ FlightOf[BookingOf[c]] \in Flights
           /\ SeatsOf[BookingOf[c]] \in 1 .. available[FlightOf[BookingOf[c]]]
           /\ SeatsOf[BookingOf[c]] \in 1 .. TotalSeats[FlightOf[BookingOf[c]]]
  <1>1. BookingOf[c] \in Bookings /\ SeatsOf[BookingOf[c]] \in Int
    BY CallsAssumption, BookingsAssumption DEF Calls
  <1>2. /\ FlightOf[BookingOf[c]] \in Flights
        /\ available[FlightOf[BookingOf[c]]] >= SeatsOf[BookingOf[c]]
        /\ SeatsOf[BookingOf[c]] > 0
    BY DEF IInv, ReserveLocal, KnownFlight, SeatCountCheck
  <1>3. /\ available[FlightOf[BookingOf[c]]] \in Nat
        /\ available[FlightOf[BookingOf[c]]] <= TotalSeats[FlightOf[BookingOf[c]]]
        /\ TotalSeats[FlightOf[BookingOf[c]]] \in Nat
    BY <1>2, FlightsAssumption DEF IInv, TypeOK
  <1>4. QED
    BY <1>1, <1>2, <1>3

\* What a ReleaseReservation holds: an ACTIVE row it has read, whose seats
\* fit back into the flight.
LEMMA ReleaseChecked ==
    ASSUME IInv, NEW c \in Calls, pc[c] \in {"rowLocked", "credited"}
    PROVE  /\ BookingOf[c] \in Bookings
           /\ FlightOf[BookingOf[c]] \in Flights
           /\ reservation[BookingOf[c]].status = "ACTIVE"
           /\ seatCount[c] = reservation[BookingOf[c]].seats
           /\ seatCount[c] \in 1 .. TotalSeats[FlightOf[BookingOf[c]]]
           /\ SeatsCheck(FlightOf[BookingOf[c]],
                         available[FlightOf[BookingOf[c]]] + seatCount[c])
  <1> DEFINE b == BookingOf[c]
             f == FlightOf[b]
  <1>1. /\ b \in Bookings
        /\ reservation[b].status = "ACTIVE"
        /\ seatCount[c] = reservation[b].seats
    BY CallKinds DEF IInv, ReleaseLocal
  <1>2. f \in Flights /\ reservation[b].seats \in 1 .. TotalSeats[f]
    BY <1>1 DEF IInv, RowsSound, KnownFlight
  <1>3. reservation[b].seats <= Cardinality(Held(f))
    BY <1>1, <1>2, RowWithinHeld DEF Held
  <1>4. available[f] + Cardinality(Held(f)) <= TotalSeats[f]
    BY <1>2 DEF IInv, NoOverbooking
  <1>5. available[f] \in Nat /\ Cardinality(Held(f)) \in Nat /\ TotalSeats[f] \in Nat
    BY <1>2, HeldFinite, FlightsAssumption DEF IInv, TypeOK, Held
  <1>6. available[f] + seatCount[c] \in 0 .. TotalSeats[f]
    BY <1>1, <1>2, <1>3, <1>4, <1>5
  <1>7. QED
    BY <1>1, <1>2, <1>6 DEF SeatsCheck

\* Committing a reservation takes at least the seats it adds to those held,
\* and touches no row that another call has locked.
LEMMA ReserveCommitKeepsIInv ==
    ASSUME IInv, NEW c \in Calls, ReserveCommit(c)
    PROVE  IInv'
  <1> DEFINE b == BookingOf[c]
             f == FlightOf[b]
             n == SeatsOf[b]
  <1>1. /\ c \in ReserveCalls
        /\ pc[c] = "upserted"
        /\ available' = [available EXCEPT ![f] = @ - n]
        /\ reservation' = [reservation EXCEPT ![b] = [status |-> "ACTIVE", seats |-> n]]
        /\ pc' = [pc EXCEPT ![c] = "done"]
        /\ seatCount' = seatCount
        /\ \E r \in Replies : reply' = [reply EXCEPT ![c] = r]
    BY DEF ReserveCommit, ReserveApply, Answer, Replies
  <1>2. /\ b \in Bookings
        /\ f \in Flights
        /\ n \in 1 .. available[f]
        /\ n \in 1 .. TotalSeats[f]
    BY <1>1, ReserveChecked
  <1>3. TypeOK
    BY DEF IInv
  <1>4. TypeOK'
    <2>1. available' \in [Flights -> Nat]
      BY <1>1, <1>2, <1>3 DEF TypeOK
    <2>2. \A g \in Flights : available'[g] <= TotalSeats[g]
      BY <1>1, <1>2, <1>3, FlightsAssumption DEF TypeOK
    <2>3. reservation' \in [Bookings -> [status : {"NONE", "ACTIVE", "RELEASED"}, seats : Nat]]
      BY <1>1, <1>2, <1>3 DEF TypeOK
    <2>4. QED
      BY <2>1, <2>2, <2>3, <1>1, <1>3 DEF TypeOK
  <1>5. LocksExclusive'
    BY <1>1, <1>3 DEF IInv, TypeOK, LocksExclusive, HoldsFlight, HoldsRow
  <1>6. ASSUME NEW d \in ReserveCalls
        PROVE  ReserveLocal(d)'
    <2>1. CASE d = c
      BY <2>1, <1>1, <1>3 DEF ReserveLocal, TypeOK, Calls
    <2>2. CASE d # c
      <3>1. pc'[d] = pc[d] /\ ReserveLocal(d)
        BY <2>2, <1>1, <1>3 DEF IInv, TypeOK, Calls
      <3>2. pc[d] \in {"debited", "upserted"} => FlightOf[BookingOf[d]] # f
        BY <2>2, <1>1 DEF IInv, LocksExclusive, HoldsFlight, Calls
      <3>3. QED
        BY <3>1, <3>2, <1>1, <1>2, <1>3 DEF ReserveLocal, TypeOK, KnownFlight, SeatCountCheck
    <2>3. QED
      BY <2>1, <2>2
  <1>7. ASSUME NEW d \in ReleaseCalls
        PROVE  ReleaseLocal(d)'
    <2>1. d # c /\ pc'[d] = pc[d] /\ ReleaseLocal(d)
      BY <1>1, <1>3, CallsAssumption DEF IInv, TypeOK, Calls
    <2>2. pc[d] \in {"rowLocked", "credited"} => BookingOf[d] # b
      BY <2>1, <1>1 DEF IInv, LocksExclusive, HoldsRow, Calls
    <2>3. QED
      BY <2>1, <2>2, <1>1, <1>2, <1>3 DEF ReleaseLocal, TypeOK
  <1>8. RowsSound'
    BY <1>1, <1>2, <1>3 DEF IInv, TypeOK, RowsSound, KnownFlight, NoRow
  <1>9. NoOverbooking'
    <2> SUFFICES ASSUME NEW g \in Flights
                 PROVE  available'[g] + Cardinality(Held(g)') <= TotalSeats[g]
      BY DEF NoOverbooking
    <2>0. /\ available[g] \in Nat /\ TotalSeats[g] \in Nat
          /\ Cardinality(HeldIn(reservation, g)) \in Nat
          /\ Cardinality(HeldIn(reservation', g)) \in Nat
          /\ available[g] + Cardinality(HeldIn(reservation, g)) <= TotalSeats[g]
      BY <1>3, FlightsAssumption, HeldFinite DEF IInv, TypeOK, NoOverbooking, Held
    <2>1. Cardinality(HeldIn(reservation', f)) <= Cardinality(HeldIn(reservation, f)) + n
      <3>1. reservation \in [Bookings -> [status : {"NONE", "ACTIVE", "RELEASED"}, seats : Nat]]
        BY <1>3 DEF TypeOK
      <3>2. reservation'[b] = [status |-> "ACTIVE", seats |-> n]
        BY <3>1, <1>1, <1>2
      <3>3. \A x \in Bookings : x # b => reservation'[x] = reservation[x]
        BY <3>1, <1>1
      <3>4. QED
        BY <1>2, <3>1, <3>2, <3>3, HeldAfterReserve
    <2>2. CASE g = f
      <3>1. available'[f] = available[f] - n
        BY <1>1, <1>2, <1>3 DEF TypeOK
      <3>2. QED
        BY <3>1, <2>0, <2>1, <2>2, <1>2 DEF Held
    <2>3. CASE g # f
      <3>1. \A x \in Bookings : x # b => reservation'[x] = reservation[x]
        BY <1>1, <1>3 DEF TypeOK
      <3>2. HeldIn(reservation', g) = HeldIn(reservation, g)
        BY <2>3, <3>1, <1>2, HeldElsewhere
      <3>3. available'[g] = available[g]
        BY <2>3, <1>1, <1>3 DEF TypeOK
      <3>4. QED
        BY <2>0, <3>2, <3>3 DEF Held
    <2>4. QED
      BY <2>2, <2>3
  <1>10. QED
    BY <1>4, <1>5, <1>6, <1>7, <1>8, <1>9 DEF IInv

\* Committing a release gives back exactly the seats it takes from those held.
LEMMA ReleaseCommitKeepsIInv ==
    ASSUME IInv, NEW c \in Calls, ReleaseCommit(c)
    PROVE  IInv'
  <1> DEFINE b == BookingOf[c]
             f == FlightOf[b]
             n == seatCount[c]
  <1>1. /\ pc[c] = "credited"
        /\ available' = [available EXCEPT ![f] = @ + n]
        /\ reservation' = [reservation EXCEPT ![b].status = "RELEASED"]
        /\ pc' = [pc EXCEPT ![c] = "done"]
        /\ seatCount' = seatCount
        /\ \E r \in Replies : reply' = [reply EXCEPT ![c] = r]
    BY DEF ReleaseCommit, ReleaseApply, Answer, Replies
  <1>2. /\ b \in Bookings
        /\ f \in Flights
        /\ reservation[b].status = "ACTIVE"
        /\ n = reservation[b].seats
        /\ n \in 1 .. TotalSeats[f]
        /\ available[f] + n \in 0 .. TotalSeats[f]
    BY <1>1, ReleaseChecked DEF SeatsCheck
  <1>3. TypeOK /\ c \in ReleaseCalls
    BY <1>1, CallKinds DEF IInv
  <1>4. TypeOK'
    <2>1. available' \in [Flights -> Nat]
      BY <1>1, <1>2, <1>3 DEF TypeOK
    <2>2. \A g \in Flights : available'[g] <= TotalSeats[g]
      BY <1>1, <1>2, <1>3, FlightsAssumption DEF TypeOK
    <2>3. reservation' \in [Bookings -> [status : {"NONE", "ACTIVE", "RELEASED"}, seats : Nat]]
      BY <1>1, <1>2, <1>3 DEF TypeOK
    <2>4. QED
      BY <2>1, <2>2, <2>3, <1>1, <1>3 DEF TypeOK
  <1>5. LocksExclusive'
    BY <1>1, <1>3 DEF IInv, TypeOK, LocksExclusive, HoldsFlight, HoldsRow
  <1>6. ASSUME NEW d \in ReserveCalls
        PROVE  ReserveLocal(d)'
    <2>1. d # c /\ pc'[d] = pc[d] /\ ReserveLocal(d)
      BY <1>1, <1>3, CallsAssumption DEF IInv, TypeOK, Calls
    <2>2. pc[d] \in {"debited", "upserted"} => FlightOf[BookingOf[d]] # f
      BY <2>1, <1>1 DEF IInv, LocksExclusive, HoldsFlight, Calls
    <2>3. QED
      BY <2>1, <2>2, <1>1, <1>2, <1>3 DEF ReserveLocal, TypeOK, KnownFlight, SeatCountCheck
  <1>7. ASSUME NEW d \in ReleaseCalls
        PROVE  ReleaseLocal(d)'
    <2>1. CASE d = c
      BY <2>1, <1>1, <1>3 DEF ReleaseLocal, TypeOK, Calls
    <2>2. CASE d # c
      <3>1. pc'[d] = pc[d] /\ ReleaseLocal(d)
        BY <2>2, <1>1, <1>3 DEF IInv, TypeOK, Calls
      <3>2. pc[d] \in {"rowLocked", "credited"} => BookingOf[d] # b
        BY <2>2, <1>1 DEF IInv, LocksExclusive, HoldsRow, Calls
      <3>3. QED
        BY <3>1, <3>2, <1>1, <1>2, <1>3 DEF ReleaseLocal, TypeOK
    <2>3. QED
      BY <2>1, <2>2
  <1>8. RowsSound'
    BY <1>1, <1>2, <1>3 DEF IInv, TypeOK, RowsSound, KnownFlight, NoRow
  <1>9. NoOverbooking'
    <2> SUFFICES ASSUME NEW g \in Flights
                 PROVE  available'[g] + Cardinality(Held(g)') <= TotalSeats[g]
      BY DEF NoOverbooking
    <2>0. /\ available[g] \in Nat /\ TotalSeats[g] \in Nat
          /\ Cardinality(HeldIn(reservation, g)) \in Nat
          /\ Cardinality(HeldIn(reservation', g)) \in Nat
          /\ available[g] + Cardinality(HeldIn(reservation, g)) <= TotalSeats[g]
      BY <1>3, FlightsAssumption, HeldFinite DEF IInv, TypeOK, NoOverbooking, Held
    <2>1. Cardinality(HeldIn(reservation, f)) = Cardinality(HeldIn(reservation', f)) + n
      <3>1. reservation \in [Bookings -> [status : {"NONE", "ACTIVE", "RELEASED"}, seats : Nat]]
        BY <1>3 DEF TypeOK
      <3>2. reservation'[b].status = "RELEASED"
        BY <3>1, <1>1, <1>2
      <3>3. \A x \in Bookings : x # b => reservation'[x] = reservation[x]
        BY <3>1, <1>1
      <3>4. QED
        BY <1>2, <3>1, <3>2, <3>3, HeldAfterRelease
    <2>2. CASE g = f
      <3>1. available'[f] = available[f] + n
        BY <1>1, <1>2, <1>3 DEF TypeOK
      <3>2. QED
        BY <3>1, <2>0, <2>1, <2>2, <1>2 DEF Held
    <2>3. CASE g # f
      <3>1. \A x \in Bookings : x # b => reservation'[x] = reservation[x]
        BY <1>1, <1>3 DEF TypeOK
      <3>2. HeldIn(reservation', g) = HeldIn(reservation, g)
        BY <2>3, <3>1, <1>2, HeldElsewhere
      <3>3. available'[g] = available[g]
        BY <2>3, <1>1, <1>3 DEF TypeOK
      <3>4. QED
        BY <2>0, <3>2, <3>3 DEF Held
    <2>4. QED
      BY <2>2, <2>3
  <1>10. QED
    BY <1>4, <1>5, <1>6, <1>7, <1>8, <1>9 DEF IInv
\* Every step keeps IInv.
LEMMA NextIInv == IInv /\ [Next]_vars => IInv'
  <1> SUFFICES ASSUME IInv, [Next]_vars PROVE IInv'
    OBVIOUS
  <1>1. ASSUME NEW c \in Calls, ReserveStep(c) PROVE IInv'
    <2>1. CASE ReserveAgain(c)
      BY <2>1, AnswerKeepsIInv DEF ReserveAgain, Replies
    <2>2. CASE ReserveRefused(c)
      BY <2>2, AnswerKeepsIInv DEF ReserveRefused, Replies
    <2>3. CASE ReserveCommit(c)
      BY <2>3, ReserveCommitKeepsIInv
    <2>4. QED
      BY <1>1, <2>1, <2>2, <2>3, ReserveMovesKeepIInv DEF ReserveStep
  <1>2. ASSUME NEW c \in Calls, ReleaseStep(c) PROVE IInv'
    <2>1. CASE ReleaseNotFound(c)
      BY <2>1, AnswerKeepsIInv DEF ReleaseNotFound, Replies
    <2>2. CASE ReleaseAgain(c)
      BY <2>2, AnswerKeepsIInv DEF ReleaseAgain, Replies
    <2>3. CASE ReleaseCommit(c)
      BY <2>3, ReleaseCommitKeepsIInv
    <2>4. QED
      BY <1>2, <2>1, <2>2, <2>3, ReleaseMovesKeepIInv DEF ReleaseStep
  <1>3. ASSUME NEW c \in Calls, Abort(c) \/ DeadlockAbort(c) PROVE IInv'
    BY <1>3, AnswerKeepsIInv DEF Abort, DeadlockAbort, Replies
  <1>4. CASE UNCHANGED vars
    <2>1. RowsSound' /\ NoOverbooking'
      BY <1>4, DataKept DEF vars
    <2>2. TypeOK' /\ LocksExclusive'
      BY <1>4 DEF vars, IInv, TypeOK, LocksExclusive, HoldsFlight, HoldsRow
    <2>3. /\ (\A c \in ReserveCalls : ReserveLocal(c))'
          /\ (\A c \in ReleaseCalls : ReleaseLocal(c))'
      BY <1>4 DEF vars, IInv, ReserveLocal, ReleaseLocal, KnownFlight, SeatCountCheck
    <2>4. QED
      BY <2>1, <2>2, <2>3 DEF IInv
  <1>5. QED
    BY <1>1, <1>2, <1>3, <1>4 DEF Next, CallStep

\* The inductive invariant holds in every reachable state, however attempts of
\* ReserveSeats and ReleaseReservation overlap, repeat and fail.
THEOREM Inductive == Spec => []IInv
  BY InitIInv, NextIInv, PTL DEF Spec

\* Committed rows keep the CHECK constraints and every call is at a statement
\* of its handler.
THEOREM TypeCorrect == Spec => []TypeOK
  <1>1. IInv => TypeOK
    BY DEF IInv
  <1>2. QED
    BY <1>1, Inductive, PTL

\* The rows of seat_reservations stay sound under both specifications: a count
\* of zero or less and an unknown flight never get a row, although the handler
\* does not validate seat_count (main.go:205-222).
THEOREM RowsStaySound == Spec \/ SpecApart => []RowsSound
  <1>1. IInv => RowsSound
    BY DEF IInv
  <1>2. IInv /\ [Next /\ ReservesApart']_vars => IInv'
    BY NextIInv
  <1>3. QED
    BY <1>1, <1>2, InitIInv, Inductive, PTL DEF SpecApart

\* No flight is overbooked, for every number of flights, bookings and
\* concurrent attempts of the handlers at main.go:190-266.
THEOREM NeverOverbooked == Spec => []NoOverbooking
  <1>1. IInv => NoOverbooking
    BY DEF IInv
  <1>2. QED
    BY <1>1, Inductive, PTL

\* The CHECK of table flights never stands in the way of a release
\* (main.go:255).
THEOREM ReleasesFit == Spec => []ReleaseNeverRefused
  <1>1. IInv => ReleaseNeverRefused
    BY ReleaseChecked DEF ReleaseNeverRefused
  <1>2. QED
    BY <1>1, Inductive, PTL

----------------------------------------------------------------------------
(* Releases credit once.                                                   *)

\* Only a commit of a release adds seats to a flight.
LEMMA OnlyReleaseCredits ==
    ASSUME IInv, [Next]_vars, NEW f \in Flights, available'[f] > available[f]
    PROVE  \E c \in Calls : ReleaseCommit(c) /\ f = FlightOf[BookingOf[c]]
  <1>1. available[f] \in Nat
    BY DEF IInv, TypeOK
  <1>2. available' # available
    BY <1>1
  <1>3. PICK c \in Calls : ReserveCommit(c) \/ ReleaseCommit(c)
    BY <1>2 DEF Next, vars, CallStep, ReserveStep, ReleaseStep, DeadlockAbort, Abort,
         ReserveAgain, ReserveLookup, ReserveDebit, ReserveRefused, ReserveUpsert,
         ReleaseNotFound, ReleaseAgain, ReleaseLockRow, ReleaseCredit
  <1>4. CASE ReserveCommit(c)
    <2>1. SeatsOf[BookingOf[c]] \in 1 .. available[FlightOf[BookingOf[c]]]
      BY <1>4, ReserveChecked DEF ReserveCommit
    <2>2. available' = [available EXCEPT ![FlightOf[BookingOf[c]]] = @ - SeatsOf[BookingOf[c]]]
      BY <1>4 DEF ReserveCommit, ReserveApply
    <2>3. available'[f] <= available[f]
      BY <1>1, <2>1, <2>2 DEF IInv, TypeOK
    <2>4. QED
      BY <1>1, <2>1, <2>2, <2>3 DEF IInv, TypeOK
  <1>5. CASE ReleaseCommit(c)
    <2>1. available' = [available EXCEPT ![FlightOf[BookingOf[c]]] = @ + seatCount[c]]
      BY <1>5 DEF ReleaseCommit, ReleaseApply
    <2>2. f = FlightOf[BookingOf[c]]
      BY <1>1, <2>1 DEF IInv, TypeOK
    <2>3. QED
      BY <1>5, <2>2
  <1>6. QED
    BY <1>3, <1>4, <1>5

\* Seats go back to a flight only with one of its ACTIVE reservations, and as
\* many as it has: concurrent releases of a booking credit once
\* (main.go:242-258).
THEOREM CreditsOnce == Spec => ReleaseCreditsOnce
  <1>1. IInv /\ [Next]_vars =>
          [\A f \in Flights : available'[f] > available[f] =>
             \E b \in Bookings :
                /\ FlightOf[b] = f
                /\ reservation[b].status = "ACTIVE"
                /\ reservation'[b].status = "RELEASED"
                /\ available'[f] = available[f] + reservation[b].seats]_vars
    <2> SUFFICES ASSUME IInv, [Next]_vars,
                        NEW f \in Flights, available'[f] > available[f]
                 PROVE  \E b \in Bookings :
                          /\ FlightOf[b] = f
                          /\ reservation[b].status = "ACTIVE"
                          /\ reservation'[b].status = "RELEASED"
                          /\ available'[f] = available[f] + reservation[b].seats
      OBVIOUS
    <2>1. PICK c \in Calls : ReleaseCommit(c) /\ f = FlightOf[BookingOf[c]]
      BY OnlyReleaseCredits
    <2>2. /\ BookingOf[c] \in Bookings
          /\ reservation[BookingOf[c]].status = "ACTIVE"
          /\ seatCount[c] = reservation[BookingOf[c]].seats
      BY <2>1, ReleaseChecked DEF ReleaseCommit
    <2>3. /\ available' = [available EXCEPT ![f] = @ + seatCount[c]]
          /\ reservation' = [reservation EXCEPT ![BookingOf[c]].status = "RELEASED"]
      BY <2>1 DEF ReleaseCommit, ReleaseApply
    <2>4. available'[f] = available[f] + seatCount[c]
      BY <2>3 DEF IInv, TypeOK
    <2>5. reservation'[BookingOf[c]].status = "RELEASED"
      BY <2>2, <2>3 DEF IInv, TypeOK
    <2>6. QED
      BY <2>1, <2>2, <2>4, <2>5
  <1>2. QED
    BY <1>1, Inductive, PTL DEF Spec, ReleaseCreditsOnce

============================================================================
