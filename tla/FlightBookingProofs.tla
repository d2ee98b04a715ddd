------------------------ MODULE FlightBookingProofs ------------------------
(***************************************************************************)
(* Theorems about the two services together.                               *)
(*   - The booking service keeps its side of the bargain: the attempts of  *)
(*     a booking to reserve seats stay apart (FlightLedgerProofs assumes   *)
(*     so), when calls that were given up are over (SpecPrompt).           *)
(*   - What the two databases owe each other, whatever is retried, given   *)
(*     up, compensated or lost: BookInv under Spec, ToldInv in addition    *)
(*     under SpecPrompt.                                                   *)
(* The theorems about the flight service are used by INSTANCE (FP); its    *)
(* steps enter the proofs as one of three effects of a call (CallEffects), *)
(* and the steps of a handler as moves between stages (HandlerMoves).      *)
(***************************************************************************)
EXTENDS FlightBooking, TLAPS

Places == {"idle", "lookedUp", "debited", "upserted", "rowLocked", "credited", "done"}

PromptInv ==
    /\ pc \in [Flight!Calls -> Places]
    /\ ctx \in [Flight!Calls -> {"none", "live", "over"}]
    /\ DOMAIN stage = Requests /\ DOMAIN attempt = Requests
    /\ StartedWasSent
    /\ LiveIsCurrent
    /\ Prompt

\* A step of a handler leaves the flight service alone, forgets no call it has
\* sent, and ends the context of the call it no longer waits for.
LEMMA HandlersKeepContexts ==
    ASSUME PromptInv, NEW h \in Requests,
           StartCreate(h) \/ StartCancel(h) \/ Continue(h) \/ Crash(h)
    PROVE  /\ UNCHANGED flightVars
           /\ ctx' \in [Flight!Calls -> {"none", "live", "over"}]
           /\ DOMAIN stage' = Requests /\ DOMAIN attempt' = Requests
           /\ \A c \in Flight!Calls : ctx[c] # "none" => ctx'[c] # "none"
           /\ LiveIsCurrent'
  <1>1. UNCHANGED flightVars
    BY DEF StartCreate, StartCancel, Continue, Crash, Retry, GiveUp, Rejected, GotFlight,
       Reserved, Insert, InsertFails, Compensated, Released, Update, UpdateFails
  <1>2. PICK where, k, code :
            \/ Try(h, where, k) /\ (where = "get" => ~ Waiting(h))
                                /\ where \in {"get", "reserve", "compensate", "release"}
            \/ Proceed(h, where) /\ where \in {"insert", "update"}
            \/ Respond(h, code)
    BY DEF StartCreate, StartCancel, Continue, Crash, Retry, GiveUp, Rejected, GotFlight,
       Reserved, Insert, InsertFails, Compensated, Released, Update, UpdateFails, Waiting
  <1> DEFINE next == CallOf(h, where, k)
  <1>3. /\ ctx' \in [Flight!Calls -> {"none", "live", "over"}]
        /\ DOMAIN stage' = Requests /\ DOMAIN attempt' = Requests
        /\ \A c \in Flight!Calls : ctx[c] # "none" => ctx'[c] # "none"
    BY <1>2 DEF Try, Proceed, Respond, Ended, PromptInv
  <1>4. ASSUME NEW c \in Flight!Calls, ctx'[c] = "live"
        PROVE  (Waiting(c[1]) /\ Current(c[1]) = c)'
    <2>0. c[1] \in Requests
      BY DEF Flight!Calls, ReserveCalls, ReleaseCalls, CallsTo, Requests
    <2>1. CASE ctx[c] = "live" /\ c[1] # h
      BY <2>0, <2>1, <1>2 DEF PromptInv, LiveIsCurrent, Waiting, Current, Try, Proceed, Respond
    <2>2. CASE ctx[c] = "live" /\ c[1] = h
      BY <2>0, <2>2, <1>2, <1>4 DEF PromptInv, LiveIsCurrent, Waiting, Current, Ended, CallOf,
         Try, Proceed, Respond
    <2>3. CASE ctx[c] # "live"
      BY <2>0, <2>3, <1>2, <1>4 DEF PromptInv, Waiting, Current, Ended, CallOf, Try, Proceed, Respond
    <2>4. QED
      BY <2>1, <2>2, <2>3
  <1>5. QED
    BY <1>1, <1>3, <1>4 DEF LiveIsCurrent

\* A step of the flight service moves one call, which was sent to it.
LEMMA FlightMovesOneCall ==
    ASSUME pc \in [Flight!Calls -> Places], NEW c \in Flight!Calls, Flight!CallStep(c)
    PROVE  \E p \in Places : pc' = [pc EXCEPT ![c] = p]
  <1> USE DEF Places, Flight!Answer
  <1>1. CASE Flight!ReserveStep(c)
    BY <1>1 DEF Flight!ReserveStep, Flight!ReserveAgain, Flight!ReserveLookup,
       Flight!ReserveDebit, Flight!ReserveRefused, Flight!ReserveUpsert, Flight!ReserveCommit
  <1>2. CASE Flight!ReleaseStep(c)
    BY <1>2 DEF Flight!ReleaseStep, Flight!ReleaseNotFound, Flight!ReleaseAgain,
       Flight!ReleaseLockRow, Flight!ReleaseCredit, Flight!ReleaseCommit
  <1>3. CASE Flight!Abort(c) \/ Flight!DeadlockAbort(c)
    BY <1>3 DEF Flight!Abort, Flight!DeadlockAbort
  <1>4. QED
    BY <1>1, <1>2, <1>3 DEF Flight!CallStep

LEMMA InitPromptInv == Init => PromptInv
  BY DEF Init, Flight!Init, PromptInv, Places, StartedWasSent, LiveIsCurrent, Prompt

LEMMA NextPromptInv == PromptInv /\ [Next /\ Prompt']_vars => PromptInv'
  <1> SUFFICES ASSUME PromptInv, [Next /\ Prompt']_vars PROVE PromptInv'
    OBVIOUS
  <1> USE DEF PromptInv
  <1>1. CASE UNCHANGED vars
    BY <1>1 DEF vars, StartedWasSent, LiveIsCurrent, Prompt, Waiting, Current
  <1>2. ASSUME NEW h \in Requests, Prompt',
               StartCreate(h) \/ StartCancel(h) \/ Continue(h) \/ Crash(h)
        PROVE  PromptInv'
    <2>1. pc' = pc
      BY <1>2, HandlersKeepContexts DEF flightVars
    <2>2. /\ ctx' \in [Flight!Calls -> {"none", "live", "over"}]
          /\ DOMAIN stage' = Requests /\ DOMAIN attempt' = Requests
          /\ \A c \in Flight!Calls : ctx[c] # "none" => ctx'[c] # "none"
          /\ LiveIsCurrent'
      BY <1>2, HandlersKeepContexts
    <2>3. QED
      BY <1>2, <2>1, <2>2 DEF StartedWasSent
  <1>3. CASE FlightStep /\ Prompt'
    <2>1. PICK c \in Flight!Calls : ctx[c] # "none" /\ Flight!CallStep(c)
      BY <1>3 DEF FlightStep
    <2>2. PICK p \in Places : pc' = [pc EXCEPT ![c] = p]
      BY <2>1, FlightMovesOneCall
    <2>3. UNCHANGED <<ctx, stage, attempt>>
      BY <1>3 DEF FlightStep, bookingVars
    <2>4. pc' \in [Flight!Calls -> Places]
      BY <2>2
    <2>5. StartedWasSent'
      BY <2>1, <2>2, <2>3 DEF StartedWasSent
    <2>6. LiveIsCurrent'
      BY <2>3 DEF LiveIsCurrent, Waiting, Current
    <2>7. QED
      BY <1>3, <2>3, <2>4, <2>5, <2>6
  <1>4. QED
    BY <1>1, <1>2, <1>3 DEF Next

\* Two attempts of one booking are attempts of one request, which waits for
\* one of them at a time; the other was given up, and is over.
LEMMA PromptKeepsApart == PromptInv => Flight!ReservesApart
  <1> SUFFICES ASSUME PromptInv, NEW c \in ReserveCalls, NEW d \in ReserveCalls,
                      c # d, BookingOf[c] = BookingOf[d],
                      pc[c] \notin {"idle", "done"}, pc[d] \notin {"idle", "done"}
               PROVE  FALSE
    BY DEF Flight!ReservesApart
  <1>1. ctx[c] = "live" /\ ctx[d] = "live"
    BY DEF PromptInv, StartedWasSent, Prompt, Flight!Calls
  <1>2. Current(c[1]) = c /\ Current(d[1]) = d
    BY <1>1 DEF PromptInv, LiveIsCurrent, Flight!Calls
  <1>3. c[1] \in Creates /\ d[1] \in Creates
    BY DEF ReserveCalls, CallsTo
  <1>4. BookingFor[c[1]] = BookingFor[d[1]]
    BY DEF BookingOf
  <1>5. c[1] = d[1]
    BY <1>3, <1>4, FreshIdsAssumption
  <1>6. QED
    BY <1>2, <1>5

\* Whatever fails, is retried or is given up, a booking never has two attempts
\* of ReserveSeats under way (main.go:138-171, 198-217), for every number of
\* requests and attempts.
THEOREM ReservesKeptApart == SpecPrompt => []KeepsReservesApart
  BY InitPromptInv, NextPromptInv, PromptKeepsApart, PTL DEF SpecPrompt, KeepsReservesApart

\* The booking service uses the flight service as SpecApart describes
\* (main.go:138-217): the hypothesis of ImplementsLedger, NoSeatLeaks and
\* DebitsOnce.
THEOREM FlightUsedApart == SpecPrompt => Flight!SpecApart
  <1>1. Init => Flight!Init
    BY DEF Init
  <1>2. PromptInv /\ PromptInv' /\ [Next /\ Prompt']_vars
          => [Flight!Next /\ Flight!ReservesApart']_(Flight!vars)
    <2> SUFFICES ASSUME PromptInv, PromptInv', [Next /\ Prompt']_vars
                 PROVE  [Flight!Next /\ Flight!ReservesApart']_(Flight!vars)
      OBVIOUS
    <2>1. Flight!ReservesApart'
      BY PromptKeepsApart, PTL
    <2>2. CASE FlightStep
      BY <2>1, <2>2 DEF FlightStep, Flight!Next
    <2>3. ASSUME NEW h \in Requests,
                 StartCreate(h) \/ StartCancel(h) \/ Continue(h) \/ Crash(h)
          PROVE  UNCHANGED Flight!vars
      BY <2>3, HandlersKeepContexts DEF flightVars, Flight!vars
    <2>4. CASE UNCHANGED vars
      BY <2>4 DEF vars, Flight!vars
    <2>5. QED
      BY <2>2, <2>3, <2>4 DEF Next
  <1>3. QED
    BY <1>1, <1>2, InitPromptInv, NextPromptInv, PTL
    DEF SpecPrompt, Flight!SpecApart
----------------------------------------------------------------------------
(* What was proved of the flight service, for the calls of this one.        *)

FP == INSTANCE FlightLedgerProofs

\* The constants of this module satisfy the assumptions of FlightService.
LEMMA FlightAssumptions ==
    /\ TotalSeats \in [Flights -> Nat \ {0}]
    /\ FP!IsFiniteSet(Bookings) /\ DOMAIN FlightOf = Bookings /\ SeatsOf \in [Bookings -> Int]
    /\ ReserveCalls \cap ReleaseCalls = {}
    /\ BookingOf \in [FP!Calls -> Bookings]
  <1>1. FP!IsFiniteSet(Bookings)
    BY BookingsAssumption DEF FP!IsFiniteSet, IsFiniteSet
  <1>2. /\ ReserveCalls \cap ReleaseCalls = {}
        /\ BookingOf \in [FP!Calls -> Bookings]
    BY RequestsAssumption DEF ReserveCalls, ReleaseCalls, BookingOf, CallsTo, FP!Calls, Requests
  <1>3. QED
    BY <1>1, <1>2, FlightsAssumption, BookingsAssumption

\* The steps of the flight service are the same by either name.
LEMMA FlightSteps ==
    ASSUME NEW c \in Flight!Calls, Flight!CallStep(c)
    PROVE  FP!Next
  <1>1. c \in FP!Calls
    BY DEF Flight!Calls, FP!Calls
  <1>2. FP!CallStep(c)
    <2>1. Flight!ReserveAgain(c) => FP!ReserveAgain(c)
      BY DEF Flight!ReserveAgain, FP!ReserveAgain, Flight!Answer, FP!Answer
    <2>2. Flight!ReserveLookup(c) => FP!ReserveLookup(c)
      BY DEF Flight!ReserveLookup, FP!ReserveLookup, Flight!Answer, FP!Answer
    <2>3. Flight!ReserveDebit(c) => FP!ReserveDebit(c)
      BY DEF Flight!ReserveDebit, FP!ReserveDebit, Flight!Answer, FP!Answer,
        Flight!KnownFlight, FP!KnownFlight, Flight!FlightFree, FP!FlightFree,
        Flight!HoldsFlight, FP!HoldsFlight, Flight!SeatsCheck, FP!SeatsCheck,
        Flight!Calls, FP!Calls
    <2>4. Flight!ReserveRefused(c) => FP!ReserveRefused(c)
      BY DEF Flight!ReserveRefused, FP!ReserveRefused, Flight!Answer, FP!Answer,
        Flight!KnownFlight, FP!KnownFlight, Flight!FlightFree, FP!FlightFree,
        Flight!HoldsFlight, FP!HoldsFlight, Flight!SeatsCheck, FP!SeatsCheck,
        Flight!Calls, FP!Calls
    <2>5. Flight!ReserveUpsert(c) => FP!ReserveUpsert(c)
      BY DEF Flight!ReserveUpsert, FP!ReserveUpsert, Flight!Answer, FP!Answer,
        Flight!SeatCountCheck, FP!SeatCountCheck, Flight!RowFree, FP!RowFree,
        Flight!HoldsRow, FP!HoldsRow, Flight!Calls, FP!Calls
    <2>6. Flight!ReserveCommit(c) => FP!ReserveCommit(c)
      BY DEF Flight!ReserveCommit, FP!ReserveCommit, Flight!Answer, FP!Answer,
        Flight!ReserveApply, FP!ReserveApply
    <2>7. Flight!ReleaseNotFound(c) => FP!ReleaseNotFound(c)
      BY DEF Flight!ReleaseNotFound, FP!ReleaseNotFound, Flight!Answer, FP!Answer,
        Flight!NoRow, FP!NoRow
    <2>8. Flight!ReleaseAgain(c) => FP!ReleaseAgain(c)
      BY DEF Flight!ReleaseAgain, FP!ReleaseAgain, Flight!Answer, FP!Answer,
        Flight!RowFree, FP!RowFree, Flight!HoldsRow, FP!HoldsRow, Flight!Calls,
        FP!Calls
    <2>9. Flight!ReleaseLockRow(c) => FP!ReleaseLockRow(c)
      BY DEF Flight!ReleaseLockRow, FP!ReleaseLockRow, Flight!Answer, FP!Answer,
        Flight!RowFree, FP!RowFree, Flight!HoldsRow, FP!HoldsRow, Flight!Calls,
        FP!Calls
    <2>10. Flight!ReleaseCredit(c) => FP!ReleaseCredit(c)
      BY DEF Flight!ReleaseCredit, FP!ReleaseCredit, Flight!Answer, FP!Answer,
        Flight!FlightFree, FP!FlightFree, Flight!HoldsFlight, FP!HoldsFlight,
        Flight!SeatsCheck, FP!SeatsCheck, Flight!Calls, FP!Calls
    <2>11. Flight!ReleaseCommit(c) => FP!ReleaseCommit(c)
      BY DEF Flight!ReleaseCommit, FP!ReleaseCommit, Flight!Answer, FP!Answer,
        Flight!ReleaseApply, FP!ReleaseApply
    <2>12. Flight!DeadlockAbort(c) => FP!DeadlockAbort(c)
      BY DEF Flight!DeadlockAbort, FP!DeadlockAbort, Flight!Answer, FP!Answer,
        Flight!WaitsFor, FP!WaitsFor, Flight!HoldsRow, FP!HoldsRow,
        Flight!HoldsFlight, FP!HoldsFlight, Flight!Abort, FP!Abort, Flight!Calls,
        FP!Calls
    <2>13. Flight!Abort(c) => FP!Abort(c)
      BY DEF Flight!Abort, FP!Abort, Flight!Answer, FP!Answer
    <2>14. QED
      BY <2>1, <2>2, <2>3, <2>4, <2>5, <2>6, <2>7, <2>8, <2>9, <2>10, <2>11, <2>12, <2>13
      DEF
        Flight!CallStep, FP!CallStep, Flight!ReserveStep, FP!ReserveStep,
        Flight!ReleaseStep, FP!ReleaseStep
  <1>3. QED
    BY <1>1, <1>2 DEF FP!Next

LEMMA FlightInit == Flight!Init => FP!Init
  BY DEF Flight!Init, FP!Init, Flight!NoRow, FP!NoRow, Flight!Calls, FP!Calls

\* A call of the flight service that ends without a commit, one that commits a
\* reservation, and one that commits a release.
Ends(c) ==
    \E p \in Places, r \in Flight!Replies :
        /\ pc' = [pc EXCEPT ![c] = p]
        /\ IF p = "done" THEN reply' = [reply EXCEPT ![c] = r] ELSE reply' = reply
        /\ reservation' = reservation
        /\ p = "done" /\ r = "OK" =>
             reservation[BookingOf[c]].status =
                IF c \in ReserveCalls THEN "ACTIVE" ELSE "RELEASED"
        /\ p = "done" /\ r = "ResourceExhausted" =>
             c \in ReserveCalls /\ pc[c] = "lookedUp"

Commits(c, row) ==
    /\ pc' = [pc EXCEPT ![c] = "done"]
    /\ \E r \in {"OK", "Internal"} : reply' = [reply EXCEPT ![c] = r]
    /\ reservation' = [reservation EXCEPT ![BookingOf[c]] = row]

Reserves(c) ==
    /\ c \in ReserveCalls
    /\ pc[c] = "upserted"
    /\ Commits(c, [status |-> "ACTIVE", seats |-> SeatsOf[BookingOf[c]]])

Releases(c) ==
    /\ c \in ReleaseCalls
    /\ reservation[BookingOf[c]].status = "ACTIVE"
    /\ Commits(c, [reservation[BookingOf[c]] EXCEPT !.status = "RELEASED"])

\* The data of the flight service, for short.
FlightTypes ==
    /\ pc \in [Flight!Calls -> Places]
    /\ reply \in [Flight!Calls -> Flight!Replies \cup {"none"}]
    /\ DOMAIN reservation = Bookings
    /\ \A b \in Bookings : DOMAIN reservation[b] = {"status", "seats"}
                           /\ ReservationStatus(b) \in {"NONE", "ACTIVE", "RELEASED"}

LEMMA FlightFacts ==
    ASSUME FP!IInv
    PROVE  /\ FlightTypes
           /\ \A c \in ReleaseCalls : pc[c] = "credited" => ReservationStatus(BookingOf[c]) = "ACTIVE"
           /\ \A c \in Flight!Calls : pc[c] = "credited" => c \in ReleaseCalls
           /\ \A c \in Flight!Calls : pc[c] = "lookedUp" => c \in ReserveCalls
  BY DEF FP!IInv, FP!TypeOK, FP!ReleaseLocal, FP!ReserveLocal, FP!Calls, Flight!Calls,
     FP!Replies, Flight!Replies, FlightTypes, Places, ReservationStatus

\* Every step of a call is one of the three.
LEMMA CallEffects ==
    ASSUME FP!IInv, NEW c \in Flight!Calls, Flight!CallStep(c)
    PROVE  Ends(c) \/ Reserves(c) \/ Releases(c)
  <1> USE DEF Places, Flight!Answer, Flight!Replies
  <1>0. /\ FlightTypes
        /\ pc[c] = "lookedUp" => c \in ReserveCalls
        /\ pc[c] = "credited" => c \in ReleaseCalls /\ ReservationStatus(BookingOf[c]) = "ACTIVE"
        /\ BookingOf[c] \in Bookings
        /\ ReserveCalls \cap ReleaseCalls = {}
    BY FlightFacts, FlightAssumptions DEF Flight!Calls, FP!Calls
  <1>1. CASE Flight!ReserveCommit(c)
    BY <1>1 DEF Flight!ReserveCommit, Flight!ReserveApply, Reserves, Commits
  <1>2. CASE Flight!ReleaseCommit(c)
    BY <1>0, <1>2 DEF Flight!ReleaseCommit, Flight!ReleaseApply, Releases, Commits,
       ReservationStatus, FlightTypes
  <1>3. CASE Flight!ReserveStep(c) /\ ~ Flight!ReserveCommit(c)
    <2>1. CASE Flight!ReserveAgain(c)
      BY <2>1 DEF Ends, Flight!ReserveAgain
    <2>2. CASE Flight!ReserveLookup(c) \/ Flight!ReserveDebit(c) \/ Flight!ReserveUpsert(c)
      BY <2>2 DEF Ends, Flight!ReserveLookup, Flight!ReserveDebit, Flight!ReserveUpsert
    <2>3. CASE Flight!ReserveRefused(c)
      <3>1. c \in ReserveCalls
        BY <1>0, <2>3 DEF Flight!ReserveRefused
      <3>2. PICK r \in Flight!Replies \ {"OK"} : Flight!Answer(c, r)
        BY <2>3 DEF Flight!ReserveRefused
      <3>3. QED
        BY <2>3, <3>1, <3>2 DEF Ends, Flight!ReserveRefused
    <2>4. QED
      BY <1>3, <2>1, <2>2, <2>3 DEF Flight!ReserveStep
  <1>4. CASE Flight!ReleaseStep(c) /\ ~ Flight!ReleaseCommit(c)
    BY <1>0, <1>4 DEF Ends, Flight!ReleaseStep, Flight!ReleaseNotFound, Flight!ReleaseAgain,
       Flight!ReleaseLockRow, Flight!ReleaseCredit
  <1>5. CASE Flight!Abort(c) \/ Flight!DeadlockAbort(c)
    BY <1>5 DEF Ends, Flight!Abort, Flight!DeadlockAbort
  <1>6. QED
    BY <1>1, <1>2, <1>3, <1>4, <1>5 DEF Flight!CallStep
----------------------------------------------------------------------------
(* The handlers, reduced to where they are and where they go.              *)

HandlerStep(h) == StartCreate(h) \/ StartCancel(h) \/ Continue(h) \/ Crash(h)

Stages == {"idle", "get", "reserve", "insert", "compensate", "release", "update", "done"}
Codes == {"none", "201", "204", "404", "409", "500", "502", "lost"}

HandlerTypes ==
    /\ booking \in [Bookings -> {"NONE", "CONFIRMED", "CANCELLED"}]
    /\ stage \in [Requests -> Stages]
    /\ attempt \in [Requests -> 0 .. MaxAttempts]
    /\ ctx \in [Flight!Calls -> {"none", "live", "over"}]
    /\ answer \in [Requests -> Codes]

\* A handler goes from stage to stage in the order of its method.
Follows(h, where, k, code) ==
    \/ where = "get" /\ h \in Creates /\ stage[h] \in {"idle", "get"}
    \/ where = "reserve" /\ h \in Creates /\ stage[h] = "get" /\ k = 1
    \/ where = "reserve" /\ h \in Creates /\ stage[h] = "reserve" /\ k = attempt[h] + 1
    \/ where = "insert" /\ stage[h] = "reserve" /\ Replied(h, "OK")
    \/ where = "compensate" /\ stage[h] \in {"insert", "compensate"}
    \/ where = "release" /\ h \in Cancels /\ stage[h] = "idle"
         /\ IdKnown(BookingFor[h]) /\ booking[BookingFor[h]] = "CONFIRMED"
    \/ where = "release" /\ h \in Cancels /\ stage[h] = "release"
    \/ where = "update" /\ stage[h] = "release" /\ Replied(h, "OK")
    \/ /\ where = "done" /\ stage[h] # "done"
       /\ stage[h] = "idle" => h \in Cancels /\ IdKnown(BookingFor[h])
       /\ code = "201" => stage[h] = "insert"
       /\ code = "409" => stage[h] \in {"reserve", "release"} /\ Replied(h, "ResourceExhausted")

Moves(h, where, k, code) ==
    /\ UNCHANGED flightVars
    /\ Follows(h, where, k, code)
    /\ stage' = [stage EXCEPT ![h] = where]
    /\ attempt' = [attempt EXCEPT ![h] = k]
    /\ answer' = IF where = "done" THEN [answer EXCEPT ![h] = code] ELSE answer
    /\ ctx' = IF where \in {"reserve", "compensate", "release"}
              THEN [Ended(h) EXCEPT ![CallOf(h, where, k)] = "live"]
              ELSE Ended(h)
    /\ \/ booking' = booking
       \/ stage[h] = "insert" /\ booking' = [booking EXCEPT ![BookingFor[h]] = "CONFIRMED"]
       \/ stage[h] = "update" /\ booking' = [booking EXCEPT ![BookingFor[h]] = "CANCELLED"]

\* The stages of a request are those of its method, and it is answered at the end.
StagesFit ==
    \A h \in Requests :
        /\ stage[h] \in {"get", "reserve", "insert", "compensate"} => h \in Creates
        /\ stage[h] \in {"release", "update"} => h \in Cancels
        /\ Waiting(h) => attempt[h] \in 1 .. MaxAttempts
        /\ answer[h] # "none" => stage[h] = "done"

\* Every step of a handler is such a move.
LEMMA HandlerMoves ==
    ASSUME HandlerTypes, StagesFit, NEW h \in Requests, HandlerStep(h)
    PROVE  \E where \in Stages, k \in 0 .. MaxAttempts, code \in Codes \ {"none"} :
              /\ Moves(h, where, k, code)
              /\ where \in {"reserve", "compensate", "release"} => k # 0
  <1> DEFINE Goal(where, k, code) == Moves(h, where, k, code)
                  /\ (where \in {"reserve", "compensate", "release"} => k # 0)
  <1>0. /\ stage[h] \in Stages /\ attempt[h] \in 0 .. MaxAttempts
        /\ MaxAttempts \in Nat \ {0}
        /\ attempt = [attempt EXCEPT ![h] = attempt[h]]
    BY RequestsAssumption DEF HandlerTypes
  <1> SUFFICES \E where \in Stages, k \in 0 .. MaxAttempts, code \in Codes \ {"none"} :
                  Goal(where, k, code)
    OBVIOUS
  <1> HIDE DEF Goal
  <1> USE DEF Stages, Codes
  <1>1. CASE StartCreate(h)
    <2>1. Goal("get", 1, "201")
      BY <1>0, <1>1 DEF Goal, Moves, Follows, Proceed, Respond, Try, Waiting,
         StartCreate, Ended
    <2>2. QED
      <3>1. 1 \in 0 .. MaxAttempts
        BY <1>0
      <3>2. QED
        BY <2>1, <3>1
  <1>2. CASE StartCancel(h)
    <2>1. \/ Goal("done", attempt[h], "404")
          \/ Goal("done", attempt[h], "204")
          \/ Goal("release", 1, "204")
      BY <1>0, <1>2 DEF Goal, Moves, Follows, Proceed, Respond, Try, Waiting,
         StartCancel
    <2>2. QED
      BY <1>0, <2>1
  <1>3. CASE Retry(h)
    <2>1. Goal(stage[h], attempt[h] + 1, "201")
      BY <1>0, <1>3 DEF Goal, Moves, Follows, Proceed, Respond, Try, Waiting,
         Retry, Ended, StagesFit
    <2>2. QED
      BY <1>0, <1>3, <2>1 DEF Retry
  <1>4. CASE GiveUp(h)
    <2>1. Goal("done", attempt[h], IF stage[h] = "compensate" THEN "500" ELSE "502")
      BY <1>0, <1>4 DEF Goal, Moves, Follows, Proceed, Respond, Try, Waiting,
         GiveUp
    <2>2. QED
      BY <1>0, <2>1
  <1>5. CASE Rejected(h)
    <2>1. PICK r \in Flight!Replies \ {"OK"} : Replied(h, r) /\ Respond(h, statusToHTTP(r))
      BY <1>5 DEF Rejected
    <2>2. /\ statusToHTTP(r) \in {"404", "409", "502"}
          /\ statusToHTTP(r) = "409" => r = "ResourceExhausted"
      BY DEF statusToHTTP
    <2>3. Goal("done", attempt[h], statusToHTTP(r))
      BY <1>0, <1>5, <2>1, <2>2 DEF Goal, Moves, Follows, Proceed, Respond, Try, Waiting,
         Rejected
    <2>4. QED
      BY <1>0, <2>2, <2>3
  <1>6. CASE GotFlight(h)
    <2>1. Goal("reserve", 1, "404") \/ Goal("done", attempt[h], "404")
      BY <1>0, <1>6 DEF Goal, Moves, Follows, Proceed, Respond, Try, Waiting,
         GotFlight, StagesFit
    <2>2. QED
      BY <1>0, <2>1
  <1>7. CASE Reserved(h)
    <2>1. Goal("insert", attempt[h], "201")
      BY <1>0, <1>7 DEF Goal, Moves, Follows, Proceed, Respond, Try, Waiting,
         Reserved
    <2>2. QED
      BY <1>0, <2>1
  <1>8. CASE Insert(h) \/ InsertFails(h)
    <2>1. Goal("done", attempt[h], "201") \/ Goal("compensate", 1, "201")
      BY <1>0, <1>8 DEF Goal, Moves, Follows, Proceed, Respond, Try, Waiting,
         Insert, InsertFails
    <2>2. QED
      BY <1>0, <2>1
  <1>9. CASE Compensated(h)
    <2>1. Goal("done", attempt[h], "500")
      BY <1>0, <1>9 DEF Goal, Moves, Follows, Proceed, Respond, Try, Waiting,
         Compensated
    <2>2. QED
      BY <1>0, <2>1
  <1>10. CASE Released(h)
    <2>1. Goal("update", attempt[h], "204")
      BY <1>0, <1>10 DEF Goal, Moves, Follows, Proceed, Respond, Try, Waiting,
         Released
    <2>2. QED
      BY <1>0, <2>1
  <1>11. CASE Update(h) \/ UpdateFails(h)
    <2>1. Goal("done", attempt[h], "204") \/ Goal("done", attempt[h], "500")
      BY <1>0, <1>11 DEF Goal, Moves, Follows, Proceed, Respond, Try, Waiting,
         Update, UpdateFails
    <2>2. QED
      BY <1>0, <2>1
  <1>12. CASE Crash(h)
    <2>1. Goal("done", attempt[h], "lost")
      BY <1>0, <1>12 DEF Goal, Moves, Follows, Proceed, Respond, Try, Waiting,
         Crash
    <2>2. QED
      BY <1>0, <2>1
  <1>13. QED
    BY <1>1, <1>2, <1>3, <1>4, <1>5, <1>6, <1>7, <1>8, <1>9, <1>10, <1>11, <1>12
    DEF HandlerStep, Continue
----------------------------------------------------------------------------
(* The inductive invariant of the two services, whatever a call that was     *)
(* given up still does.                                                      *)

\* Which calls a request has sent follows from where its handler is.
SentInTurn ==
    \A c \in Flight!Calls : ctx[c] # "none" =>
        /\ c \in ReserveCalls =>
             /\ stage[c[1]] \notin {"idle", "get"}
             /\ stage[c[1]] = "reserve" => c[3] <= attempt[c[1]]
        /\ c \in ReleaseCalls /\ c[1] \in Creates =>
             \/ stage[c[1]] = "compensate"
             \/ stage[c[1]] = "done" /\ answer[c[1]] # "201"
        /\ c \in ReleaseCalls /\ c[1] \in Cancels => stage[c[1]] # "idle"

WaitedIsSent == \A h \in Requests : Waiting(h) => ctx[Current(h)] # "none"

\* A reservation has the seats that were asked for, and was only released when
\* somebody asked for it.
RowsFit ==
    \A b \in Bookings :
        /\ ReservationStatus(b) # "NONE" => reservation[b].seats = SeatsOf[b]
        /\ ReservationStatus(b) = "RELEASED" =>
             \E c \in ReleaseCalls : BookingOf[c] = b /\ ctx[c] # "none"

\* Who was answered OK by the flight service, and what was done afterwards,
\* has a reservation.
OkLeavesRow ==
    \A c \in Flight!Calls : reply[c] = "OK" => ReservationStatus(BookingOf[c]) # "NONE"

ReservedBefore ==
    /\ \A h \in Requests :
         /\ stage[h] \in {"insert", "update"} => ReservationStatus(BookingFor[h]) # "NONE"
         /\ answer[h] = "201" => ReservationStatus(BookingFor[h]) # "NONE"
    /\ \A b \in Bookings : booking[b] # "NONE" => ReservationStatus(b) # "NONE"

BookInv ==
    /\ FP!IInv /\ FP!RepliesOpen
    /\ HandlerTypes
    /\ StartedWasSent
    /\ StagesFit
    /\ SentInTurn /\ WaitedIsSent
    /\ RowsFit
    /\ OkLeavesRow
    /\ ReservedBefore

\* Parts of a call, and the call a handler waits for.
LEMMA CallParts ==
    ASSUME NEW c \in Flight!Calls
    PROVE  /\ c[1] \in Requests /\ c[3] \in 1 .. MaxAttempts
           /\ c[2] = IF c \in ReserveCalls THEN "reserve" ELSE "release"
           /\ c = <<c[1], c[2], c[3]>>
           /\ c \in ReserveCalls => c[1] \in Creates
           /\ BookingOf[c] = BookingFor[c[1]] /\ BookingOf[c] \in Bookings
  BY RequestsAssumption DEF Flight!Calls, ReserveCalls, ReleaseCalls, CallsTo, Requests, BookingOf

LEMMA CurrentCall ==
    ASSUME HandlerTypes, StagesFit, NEW h \in Requests, Waiting(h)
    PROVE  /\ Current(h) \in Flight!Calls
           /\ Current(h) \in (IF stage[h] = "reserve" THEN ReserveCalls ELSE ReleaseCalls)
           /\ BookingOf[Current(h)] = BookingFor[h]
  <1>1. Current(h) \in (IF stage[h] = "reserve" THEN ReserveCalls ELSE ReleaseCalls)
    BY DEF StagesFit, Waiting, Current, CallOf, ReserveCalls, ReleaseCalls, CallsTo
  <1>2. Current(h) \in Flight!Calls
    BY <1>1 DEF Flight!Calls
  <1>3. Current(h)[1] = h
    BY DEF Current, CallOf
  <1>4. QED
    BY <1>1, <1>2, <1>3, CallParts

LEMMA InitBookInv == Init => BookInv
  <1> SUFFICES ASSUME Init PROVE BookInv
    OBVIOUS
  <1> USE RequestsAssumption
  <1>1. FP!Init
    BY FlightInit DEF Init
  <1>2. FP!IInv
    BY <1>1, FP!InitIInv, FlightAssumptions
  <1>3. FP!RepliesOpen
    BY <1>1 DEF FP!Init, FP!RepliesOpen
  <1>4. HandlerTypes /\ StagesFit
    BY DEF Init, HandlerTypes, StagesFit, Stages, Codes, Waiting
  <1>5. StartedWasSent /\ SentInTurn /\ WaitedIsSent
    BY DEF Init, Flight!Init, StartedWasSent, SentInTurn, WaitedIsSent, Waiting
  <1>6. RowsFit /\ ReservedBefore
    BY DEF Init, Flight!Init, Flight!NoRow, RowsFit, ReservedBefore, ReservationStatus
  <1>7. OkLeavesRow
    BY DEF Init, Flight!Init, OkLeavesRow
  <1>8. QED
    BY <1>2, <1>3, <1>4, <1>5, <1>6, <1>7 DEF BookInv

\* A step of a handler leaves the flight service as it is.
LEMMA HandlerKeepsBookInv ==
    ASSUME BookInv, NEW h \in Requests, HandlerStep(h)
    PROVE  BookInv'
  <1> USE RequestsAssumption
  <1>0. PICK where \in Stages, k \in 0 .. MaxAttempts, code \in Codes \ {"none"} :
            /\ Moves(h, where, k, code)
            /\ where \in {"reserve", "compensate", "release"} => k # 0
    BY HandlerMoves DEF BookInv
  <1>a. /\ UNCHANGED <<available, reservation, pc, seatCount, reply>>
        /\ HandlerTypes /\ StagesFit /\ BookingFor[h] \in Bookings
    BY <1>0 DEF BookInv, Moves, flightVars, Requests
  <1>1. FP!IInv' /\ FP!RepliesOpen'
    <2>1. UNCHANGED FP!vars
      BY <1>a DEF FP!vars
    <2>2. FP!IInv'
      BY <2>1, FP!NextIInv, FlightAssumptions DEF BookInv
    <2>3. QED
      BY <1>a, <2>2 DEF BookInv, FP!RepliesOpen
  <1>2. HandlerTypes'
    <2>1. /\ booking' \in [Bookings -> {"NONE", "CONFIRMED", "CANCELLED"}]
          /\ stage' \in [Requests -> Stages]
          /\ attempt' \in [Requests -> 0 .. MaxAttempts]
          /\ answer' \in [Requests -> Codes]
      BY <1>0, <1>a DEF HandlerTypes, Moves
    <2>2. ctx' \in [Flight!Calls -> {"none", "live", "over"}]
      BY <1>0, <1>a DEF HandlerTypes, Moves, Ended
    <2>3. QED
      BY <2>1, <2>2 DEF HandlerTypes
  <1>3. StagesFit'
    BY <1>0, <1>a DEF HandlerTypes, StagesFit, Moves, Follows, Waiting, Stages, Codes
  <1>4. ASSUME NEW c \in Flight!Calls
        PROVE  /\ ctx[c] # "none" => ctx'[c] # "none"
               /\ ctx'[c] # "none" /\ ctx[c] = "none" =>
                    /\ where \in {"reserve", "compensate", "release"}
                    /\ c = CallOf(h, where, k)
    <2>1. CASE Waiting(h)
      <3>1. ctx[Current(h)] # "none"
        BY <2>1 DEF BookInv, WaitedIsSent
      <3>2. QED
        BY <1>0, <1>a, <2>1, <3>1 DEF HandlerTypes, Moves, Ended
    <2>2. CASE ~ Waiting(h)
      BY <1>0, <1>a, <2>2 DEF HandlerTypes, Moves, Ended
    <2>3. QED
      BY <2>1, <2>2
  <1>5. StartedWasSent'
    BY <1>a, <1>4 DEF BookInv, StartedWasSent
  <1>6. SentInTurn'
    <2> SUFFICES ASSUME NEW c \in Flight!Calls, ctx'[c] # "none"
                 PROVE  /\ c \in ReserveCalls =>
                             /\ stage'[c[1]] \notin {"idle", "get"}
                             /\ stage'[c[1]] = "reserve" => c[3] <= attempt'[c[1]]
                        /\ c \in ReleaseCalls /\ c[1] \in Creates =>
                             \/ stage'[c[1]] = "compensate"
                             \/ stage'[c[1]] = "done" /\ answer'[c[1]] # "201"
                        /\ c \in ReleaseCalls /\ c[1] \in Cancels => stage'[c[1]] # "idle"
      BY DEF SentInTurn
    <2>1. /\ c[1] \in Requests /\ c[3] \in Nat
          /\ c \in ReserveCalls <=> c[2] = "reserve"
      BY CallParts
    <2>2. CASE c[1] # h
      BY <1>0, <1>a, <1>4, <2>1, <2>2 DEF BookInv, SentInTurn, HandlerTypes, Moves, CallOf
    <2>3. CASE c[1] = h /\ ctx[c] # "none"
      BY <1>0, <1>a, <2>1, <2>3 DEF BookInv, SentInTurn, HandlerTypes, Moves, Follows, Stages
    <2>4. CASE c[1] = h /\ ctx[c] = "none"
      <3>1. c = CallOf(h, where, k) /\ where \in {"reserve", "compensate", "release"}
        BY <1>4, <2>4
      <3>2. /\ stage'[h] = where /\ attempt'[h] = k
            /\ c[3] = k /\ (c \in ReserveCalls <=> where = "reserve")
        BY <1>0, <1>a, <2>1, <3>1 DEF HandlerTypes, Moves, CallOf
      <3>3. where = "release" => h \notin Creates
        BY <1>0, <1>a DEF Moves, Follows, StagesFit
      <3>4. c \in ReserveCalls => c \notin ReleaseCalls
        BY FlightAssumptions
      <3>5. QED
        BY <2>1, <2>4, <3>1, <3>2, <3>3, <3>4
    <2>5. QED
      BY <2>2, <2>3, <2>4
  <1>7. RowsFit'
    BY <1>a, <1>4 DEF BookInv, RowsFit, ReservationStatus, Flight!Calls
  <1>8. OkLeavesRow'
    BY <1>a DEF BookInv, OkLeavesRow, ReservationStatus
  <1>9. ReservedBefore'
    <2>1. Replied(h, "OK") => ReservationStatus(BookingFor[h]) # "NONE"
      BY <1>a, CurrentCall DEF BookInv, OkLeavesRow, Replied
    <2>2. QED
      BY <1>0, <1>a, <2>1 DEF BookInv, ReservedBefore, HandlerTypes, ReservationStatus, Moves,
         Follows
  <1>10. WaitedIsSent'
    <2> SUFFICES ASSUME NEW g \in Requests, Waiting(g)'
                 PROVE  ctx'[Current(g)'] # "none"
      BY DEF WaitedIsSent
    <2>1. CASE g = h
      <3>1. /\ where \in {"reserve", "compensate", "release"} /\ k \in 1 .. MaxAttempts
            /\ Current(g)' = CallOf(h, where, k)
        BY <1>0, <1>a, <2>1 DEF HandlerTypes, Moves, Waiting, Current
      <3>2. CallOf(h, where, k) \in Flight!Calls
        BY <1>0, <1>3, <2>1, <3>1
        DEF CallOf, Flight!Calls, ReserveCalls, ReleaseCalls, CallsTo, Moves, Follows
      <3>3. QED
        BY <1>0, <1>a, <3>1, <3>2 DEF Moves, HandlerTypes, Ended
    <2>2. CASE g # h
      <3>1. Waiting(g) /\ Current(g)' = Current(g)
        BY <1>0, <1>a, <2>2 DEF HandlerTypes, Moves, Waiting, Current
      <3>2. Current(g) \in Flight!Calls /\ ctx[Current(g)] # "none"
        BY <1>a, <3>1, CurrentCall DEF BookInv, WaitedIsSent
      <3>3. QED
        BY <1>4, <3>1, <3>2
    <2>3. QED
      BY <2>1, <2>2
  <1>11. QED
    BY <1>1, <1>2, <1>3, <1>5, <1>6, <1>7, <1>8, <1>9, <1>10 DEF BookInv

\* A step of the flight service leaves the handlers where they are.
LEMMA FlightKeepsBookInv ==
    ASSUME BookInv, FlightStep
    PROVE  BookInv'
  <1>1. PICK c \in Flight!Calls : ctx[c] # "none" /\ Flight!CallStep(c)
    BY DEF FlightStep
  <1>2. UNCHANGED <<booking, stage, attempt, ctx, answer>>
    BY DEF FlightStep, bookingVars
  <1>3. FP!IInv /\ FP!RepliesOpen /\ FP!Next
    BY <1>1, FlightSteps DEF BookInv
  <1>4. FP!IInv' /\ FP!RepliesOpen'
    BY <1>3, FP!NextIInv, FP!NextRepliesOpen, FlightAssumptions
  <1>5. FlightTypes /\ FlightTypes' /\ c \in Flight!Calls /\ BookingOf[c] \in Bookings
    <2>1. FlightTypes
      BY <1>3, FlightFacts
    <2>2. FP!IInv' => FlightTypes'
      BY FlightFacts, PTL
    <2>3. QED
      BY <1>4, <2>1, <2>2, CallParts
  <1>6. Ends(c) \/ Reserves(c) \/ Releases(c)
    BY <1>1, <1>3, CallEffects
  <1>7. HandlerTypes' /\ StagesFit' /\ SentInTurn' /\ WaitedIsSent'
    BY <1>2 DEF BookInv, HandlerTypes, StagesFit, SentInTurn, WaitedIsSent, Waiting, Current
  <1>8. StartedWasSent'
    BY <1>1, <1>2, <1>5, <1>6
    DEF BookInv, StartedWasSent, Ends, Reserves, Releases, Commits, FlightTypes
  <1>9. \A b \in Bookings : ReservationStatus(b) # "NONE" => ReservationStatus(b)' # "NONE"
    BY <1>5, <1>6 DEF Ends, Reserves, Releases, Commits, FlightTypes, ReservationStatus
  <1>10. RowsFit'
    <2>1. CASE Ends(c)
      BY <1>2, <2>1 DEF BookInv, RowsFit, Ends, ReservationStatus
    <2>2. CASE Reserves(c)
      BY <1>2, <1>5, <2>2
      DEF BookInv, RowsFit, Reserves, Commits, ReservationStatus, FlightTypes
    <2>3. CASE Releases(c)
      BY <1>1, <1>2, <1>5, <2>3
      DEF BookInv, RowsFit, Releases, Commits, ReservationStatus, FlightTypes
    <2>4. QED
      BY <1>6, <2>1, <2>2, <2>3
  <1>11. OkLeavesRow'
    <2> SUFFICES ASSUME NEW d \in Flight!Calls, reply'[d] = "OK"
                 PROVE  ReservationStatus(BookingOf[d])' # "NONE"
      BY DEF OkLeavesRow
    <2>1. BookingOf[d] \in Bookings
      BY CallParts
    <2>2. CASE reply[d] = "OK"
      BY <1>9, <2>1, <2>2 DEF BookInv, OkLeavesRow
    <2>3. CASE reply[d] # "OK"
      <3>1. d = c
        BY <1>5, <1>6, <2>3 DEF Ends, Reserves, Releases, Commits, FlightTypes
      <3>2. CASE Ends(c)
        BY <1>5, <2>3, <3>1, <3>2 DEF Ends, FlightTypes, ReservationStatus
      <3>3. CASE Reserves(c) \/ Releases(c)
        BY <1>5, <3>1, <3>3 DEF Reserves, Releases, Commits, FlightTypes, ReservationStatus
      <3>4. QED
        BY <1>6, <3>2, <3>3
    <2>4. QED
      BY <2>2, <2>3
  <1>12. ReservedBefore'
    BY <1>2, <1>9, RequestsAssumption DEF BookInv, ReservedBefore
  <1>13. QED
    BY <1>4, <1>7, <1>8, <1>10, <1>11, <1>12 DEF BookInv

LEMMA NextBookInv == BookInv /\ [Next]_vars => BookInv'
  <1> SUFFICES ASSUME BookInv, [Next]_vars PROVE BookInv'
    OBVIOUS
  <1>1. CASE \E h \in Requests : HandlerStep(h)
    BY <1>1, HandlerKeepsBookInv
  <1>2. CASE FlightStep
    BY <1>2, FlightKeepsBookInv
  <1>3. CASE UNCHANGED vars
    <2>1. FP!IInv' /\ FP!RepliesOpen'
      BY <1>3, FP!NextIInv, FlightAssumptions DEF BookInv, vars, FP!vars, FP!RepliesOpen
    <2>2. QED
      BY <1>3, <2>1 DEF vars, BookInv, HandlerTypes, StartedWasSent, StagesFit, SentInTurn,
         WaitedIsSent, Waiting, Current, RowsFit, OkLeavesRow, ReservedBefore, ReservationStatus
  <1>4. QED
    BY <1>1, <1>2, <1>3 DEF Next, HandlerStep

\* However attempts are retried, given up and still take effect, and wherever a
\* process stops: for every number of requests, bookings, flights and attempts.
LEMMA BookInductive == Init /\ [][Next]_vars => []BookInv
  BY InitBookInv, NextBookInv, PTL

\* A row of the flight service or of the booking service has its type, and
\* every handler is at a stage of its method (main.go:138-217).
THEOREM TypeCorrect == Spec => []TypeOK
  <1>1. BookInv => TypeOK
    <2> SUFFICES ASSUME BookInv PROVE TypeOK
      OBVIOUS
    <2>1. Flight!TypeOK
      BY DEF BookInv, FP!IInv, FP!TypeOK, Flight!TypeOK, FP!Calls, Flight!Calls,
         FP!Replies, Flight!Replies
    <2>2. QED
      BY <2>1 DEF BookInv, HandlerTypes, TypeOK, Stages, Codes
  <1>2. QED
    BY <1>1, BookInductive, PTL DEF Spec

\* No booking stands without its reservation (main.go:153-162).
THEOREM RowsHaveReservations == Spec => []BookingHasReservation
  <1>1. BookInv => BookingHasReservation
    BY DEF BookInv, RowsFit, ReservedBefore, BookingHasReservation
  <1>2. QED
    BY <1>1, BookInductive, PTL DEF Spec

\* Who was answered 201 keeps the seats until asking to cancel: the release of
\* a compensation is never sent by a handler that answers 201
\* (main.go:153-170).
THEOREM ConfirmedStays == Spec => []ConfirmedKeepsSeats
  <1>1. BookInv => ConfirmedKeepsSeats
    <2> SUFFICES ASSUME BookInv, NEW h \in Creates, answer[h] = "201",
                        \A k \in Cancels : BookingFor[k] = BookingFor[h] => stage[k] = "idle"
                 PROVE  ReservationStatus(BookingFor[h]) = "ACTIVE"
      BY DEF ConfirmedKeepsSeats
    <2>1. BookingFor[h] \in Bookings /\ h \in Requests
      BY RequestsAssumption DEF Requests
    <2>2. ReservationStatus(BookingFor[h]) \in {"ACTIVE", "RELEASED"}
      BY <2>1, FlightFacts DEF BookInv, ReservedBefore, FlightTypes
    <2>3. ASSUME ReservationStatus(BookingFor[h]) = "RELEASED"
          PROVE  FALSE
      <3>1. PICK c \in ReleaseCalls : BookingOf[c] = BookingFor[h] /\ ctx[c] # "none"
        BY <2>1, <2>3 DEF BookInv, RowsFit
      <3>2. c \in Flight!Calls
        BY DEF Flight!Calls
      <3>3. c[1] \in Requests /\ BookingFor[c[1]] = BookingFor[h]
        BY <3>1, <3>2, CallParts
      <3>4. CASE c[1] \in Creates
        BY <3>1, <3>2, <3>3, <3>4, <2>1, FreshIdsAssumption DEF BookInv, SentInTurn, StagesFit
      <3>5. CASE c[1] \in Cancels
        BY <3>1, <3>2, <3>3, <3>5 DEF BookInv, SentInTurn
      <3>6. QED
        BY <3>3, <3>4, <3>5 DEF Requests
    <2>4. QED
      BY <2>2, <2>3
  <1>2. QED
    BY <1>1, BookInductive, PTL DEF Spec

\* The whole system never overbooks a flight (flight/main.go:190-266 behind
\* booking/main.go:138-217).
THEOREM BookingsNeverOverbook == Spec => []NoOverbooking
  <1>1. BookInv => NoOverbooking
    <2> SUFFICES ASSUME BookInv, NEW f \in Flights
                 PROVE  available[f] + Flight!Cardinality(Flight!Held(f)) <= TotalSeats[f]
      BY DEF NoOverbooking, Flight!NoOverbooking
    <2>1. Flight!Held(f) = FP!Held(f)
      BY DEF FP!Held, Flight!Held, FP!HeldIn, Flight!HeldIn
    <2>2. ASSUME NEW S PROVE Flight!Cardinality(S) = FP!Cardinality(S)
      BY DEF Flight!Cardinality, FP!Cardinality, Flight!IsFiniteSet, FP!IsFiniteSet
    <2>3. QED
      BY <2>1, <2>2 DEF BookInv, FP!IInv, FP!NoOverbooking
  <1>2. QED
    BY <1>1, BookInductive, PTL DEF Spec
----------------------------------------------------------------------------
(* What holds when a call that was given up is over (SpecPrompt).           *)

\* The handlers use the flight service as the ledger theorems ask.
LEMMA FlightUsedLikeLedger == SpecPrompt => FP!SpecApart
  <1>1. Init => FP!Init
    BY FlightInit DEF Init
  <1>2. PromptInv /\ PromptInv' /\ [Next /\ Prompt']_vars
          => [FP!Next /\ FP!ReservesApart']_(FP!vars)
    <2> SUFFICES ASSUME PromptInv, PromptInv', [Next /\ Prompt']_vars
                 PROVE  [FP!Next /\ FP!ReservesApart']_(FP!vars)
      OBVIOUS
    <2>1. Flight!ReservesApart'
      BY PromptKeepsApart, PTL
    <2>2. FP!ReservesApart'
      BY <2>1 DEF Flight!ReservesApart, FP!ReservesApart
    <2>3. CASE FlightStep
      BY <2>2, <2>3, FlightSteps DEF FlightStep
    <2>4. ASSUME NEW h \in Requests, HandlerStep(h)
          PROVE  UNCHANGED FP!vars
      BY <2>4, HandlersKeepContexts DEF HandlerStep, flightVars, FP!vars
    <2>5. CASE UNCHANGED vars
      BY <2>5 DEF vars, FP!vars
    <2>6. QED
      BY <2>3, <2>4, <2>5 DEF Next, HandlerStep
  <1>3. QED
    BY <1>1, <1>2, InitPromptInv, NextPromptInv, PTL DEF SpecPrompt, FP!SpecApart

\* No seat leaks in the whole system: every seat is free or reserved, whatever
\* the handlers retry, compensate and cancel (booking/main.go:138-217,
\* flight/main.go:190-266).
THEOREM NoSeatLeaks == SpecPrompt => []FP!SeatBalance
  BY FlightUsedLikeLedger, FP!NoSeatLeaks, FlightAssumptions, PTL

\* A booking is cancelled after its creation is over, and a cancellation or a
\* refusal tells the truth about the reservation.
CancelsAfter ==
    \A k \in Cancels, h \in Creates :
        stage[k] # "idle" /\ BookingFor[h] = BookingFor[k] => stage[h] = "done"

ReleasesTold ==
    /\ \A c \in ReleaseCalls : reply[c] = "OK" => ReservationStatus(BookingOf[c]) = "RELEASED"
    /\ \A h \in Requests : stage[h] = "update" => ReservationStatus(BookingFor[h]) = "RELEASED"
    /\ CancelledReleased

RefusalsTold ==
    /\ \A h \in Creates : stage[h] = "reserve" /\ reply[Current(h)] = "ResourceExhausted" =>
           ReservationStatus(BookingFor[h]) # "ACTIVE"
    /\ ConflictHoldsNothing

ToldInv == CancelsAfter /\ ReleasesTold /\ RefusalsTold

\* A call in the middle of its transaction is the one its handler waits for.
LEMMA MiddleIsCurrent ==
    ASSUME BookInv, PromptInv, NEW c \in ReserveCalls, pc[c] \notin {"idle", "done"}
    PROVE  /\ c \in Flight!Calls /\ c[1] \in Creates
           /\ stage[c[1]] = "reserve" /\ Current(c[1]) = c
  <1>1. c \in Flight!Calls
    BY DEF Flight!Calls
  <1>2. Waiting(c[1]) /\ Current(c[1]) = c
    BY <1>1 DEF PromptInv, StartedWasSent, Prompt, LiveIsCurrent
  <1>3. c[2] = "reserve" /\ c[1] \in Creates
    BY <1>1, CallParts
  <1>4. QED
    BY <1>1, <1>2, <1>3 DEF Current, CallOf, Waiting

\* Once somebody has asked to release a booking, nobody reserves it.
LEMMA ReleaseEndsReserving ==
    ASSUME BookInv, PromptInv, CancelsAfter,
           NEW r \in ReleaseCalls, ctx[r] # "none",
           NEW h \in Creates, BookingFor[h] = BookingOf[r]
    PROVE  stage[h] # "reserve"
  <1>1. /\ r \in Flight!Calls /\ r[1] \in Requests
        /\ BookingFor[r[1]] = BookingFor[h]
    BY CallParts DEF Flight!Calls
  <1>2. CASE r[1] \in Creates
    BY <1>1, <1>2, FreshIdsAssumption DEF BookInv, SentInTurn
  <1>3. CASE r[1] \in Cancels
    BY <1>1, <1>3 DEF BookInv, SentInTurn, CancelsAfter
  <1>4. QED
    BY <1>1, <1>2, <1>3 DEF Requests

LEMMA InitToldInv == Init => ToldInv
  BY RequestsAssumption DEF Init, Flight!Init, Flight!NoRow, ToldInv, CancelsAfter, ReleasesTold,
     RefusalsTold, CancelledReleased, ConflictHoldsNothing, Flight!Calls, Requests

LEMMA HandlerKeepsToldInv ==
    ASSUME BookInv, PromptInv, ToldInv, NEW h \in Requests, HandlerStep(h)
    PROVE  ToldInv'
  <1> USE RequestsAssumption
  <1>0. PICK where \in Stages, k \in 0 .. MaxAttempts, code \in Codes \ {"none"} :
            /\ Moves(h, where, k, code)
            /\ where \in {"reserve", "compensate", "release"} => k # 0
    BY HandlerMoves DEF BookInv
  <1>a. /\ UNCHANGED <<available, reservation, pc, seatCount, reply>>
        /\ HandlerTypes /\ StagesFit /\ BookingFor[h] \in Bookings
    BY <1>0 DEF BookInv, Moves, flightVars, Requests
  <1>1. CancelsAfter'
    <2>1. where # "idle" /\ stage[h] # "done"
      BY <1>0 DEF Moves, Follows
    <2>2. h \in Cancels /\ stage[h] = "idle" => IdKnown(BookingFor[h])
      BY <1>0 DEF Moves, Follows
    <2>3. IdKnown(BookingFor[h]) =>
             \A g \in Creates : BookingFor[g] = BookingFor[h] => stage[g] = "done"
      BY <1>a, FreshIdsAssumption DEF IdKnown, StagesFit, Requests
    <2>4. QED
      BY <1>0, <1>a, <2>1, <2>2, <2>3 DEF ToldInv, CancelsAfter, Moves, HandlerTypes, Requests
  <1>2. ReleasesTold'
    <2>1. Replied(h, "OK") /\ stage[h] = "release" =>
             ReservationStatus(BookingFor[h]) = "RELEASED"
      BY <1>a, CurrentCall DEF ToldInv, ReleasesTold, Replied
    <2>2. QED
      BY <1>0, <1>a, <2>1 DEF ToldInv, ReleasesTold, CancelledReleased, Moves, Follows,
         HandlerTypes, ReservationStatus
  <1>3. ASSUME NEW g \in Creates, stage'[g] = "reserve", reply[Current(g)'] = "ResourceExhausted"
        PROVE  ReservationStatus(BookingFor[g]) # "ACTIVE"
    <2>1. g \in Requests
      BY DEF Requests
    <2>2. CASE g # h
      BY <1>0, <1>a, <1>3, <2>1, <2>2
      DEF ToldInv, RefusalsTold, Moves, HandlerTypes, Current
    <2>3. CASE g = h
      <3> DEFINE c == <<h, "reserve", k>>
      <3>1. /\ Current(g)' = c /\ k \in 1 .. MaxAttempts
            /\ \/ stage[h] = "get"
               \/ stage[h] = "reserve" /\ k = attempt[h] + 1
        BY <1>0, <1>a, <1>3, <2>1, <2>3 DEF Moves, Follows, HandlerTypes, Current, CallOf
      <3>2. c \in ReserveCalls /\ c \in Flight!Calls
        BY <3>1, <2>3 DEF Flight!Calls, ReserveCalls, CallsTo
      <3>3. attempt[h] \in Nat
        BY <1>a DEF HandlerTypes
      <3>4. ctx[c] = "none"
        BY <3>1, <3>2, <3>3 DEF BookInv, SentInTurn
      <3>5. pc[c] = "idle" /\ FP!RepliesOpen
        BY <3>2, <3>4 DEF BookInv, StartedWasSent
      <3>6. reply[c] = "none"
        BY <3>2, <3>5 DEF FP!RepliesOpen, FP!Calls, Flight!Calls
      <3>7. QED
        BY <1>3, <3>1, <3>6
    <2>4. QED
      BY <2>2, <2>3
  <1>4. ASSUME NEW g \in Creates, answer'[g] = "409"
        PROVE  ReservationStatus(BookingFor[g]) = "NONE"
    <2>1. g \in Requests /\ BookingFor[g] \in Bookings
      BY DEF Requests
    <2>2. CASE answer[g] = "409"
      BY <2>2 DEF ToldInv, RefusalsTold, ConflictHoldsNothing
    <2>3. CASE answer[g] # "409"
      <3>1. /\ g = h /\ where = "done" /\ code = "409"
            /\ stage[h] \in {"reserve", "release"} /\ Replied(h, "ResourceExhausted")
        BY <1>0, <1>a, <1>4, <2>1, <2>3 DEF Moves, Follows, HandlerTypes
      <3>2. stage[h] = "reserve"
        BY <1>a, <3>1 DEF StagesFit
      <3>3. ReservationStatus(BookingFor[g]) # "ACTIVE"
        BY <3>1, <3>2 DEF ToldInv, RefusalsTold, Replied
      <3>4. ReservationStatus(BookingFor[g]) # "RELEASED"
        BY <3>1, <3>2, <2>1, ReleaseEndsReserving DEF BookInv, RowsFit, ToldInv
      <3>5. QED
        BY <2>1, <3>3, <3>4, FlightFacts DEF BookInv, FlightTypes
    <2>4. QED
      BY <2>2, <2>3
  <1>5. RefusalsTold'
    BY <1>a, <1>3, <1>4 DEF RefusalsTold, ConflictHoldsNothing, ReservationStatus
  <1>6. QED
    BY <1>1, <1>2, <1>5 DEF ToldInv

LEMMA FlightKeepsToldInv ==
    ASSUME BookInv, PromptInv, ToldInv, FP!LookupFresh, FlightStep
    PROVE  ToldInv'
  <1>1. PICK c \in Flight!Calls : ctx[c] # "none" /\ Flight!CallStep(c)
    BY DEF FlightStep
  <1>2. UNCHANGED <<booking, stage, attempt, ctx, answer>>
    BY DEF FlightStep, bookingVars
  <1>3. /\ FlightTypes /\ FP!RepliesOpen
        /\ BookingOf[c] \in Bookings
    BY FlightFacts, CallParts DEF BookInv
  <1>4. Ends(c) \/ Reserves(c) \/ Releases(c)
    BY <1>1, CallEffects DEF BookInv
  <1>5. ASSUME Reserves(c)
        PROVE  /\ c[1] \in Creates /\ BookingFor[c[1]] = BookingOf[c]
               /\ stage[c[1]] = "reserve" /\ Current(c[1]) = c
               /\ reply[c] = "none"
    <2>1. c \in ReserveCalls /\ pc[c] = "upserted"
      BY <1>5 DEF Reserves
    <2>2. reply[c] = "none"
      BY <1>3, <2>1 DEF FP!RepliesOpen, FP!Calls
    <2>3. QED
      BY <2>1, <2>2, MiddleIsCurrent, CallParts
  <1>6. \A b \in Bookings :
           ReservationStatus(b) = "RELEASED" => ReservationStatus(b)' = "RELEASED"
    <2> SUFFICES ASSUME NEW b \in Bookings, ReservationStatus(b) = "RELEASED"
                 PROVE  ReservationStatus(b)' = "RELEASED"
      OBVIOUS
    <2>1. CASE Ends(c) \/ Releases(c)
      BY <1>3, <2>1 DEF Ends, Releases, Commits, FlightTypes, ReservationStatus
    <2>2. CASE Reserves(c)
      <3>1. PICK r \in ReleaseCalls : BookingOf[r] = b /\ ctx[r] # "none"
        BY DEF BookInv, RowsFit
      <3>2. BookingOf[c] # b
        BY <1>5, <2>2, <3>1, ReleaseEndsReserving DEF ToldInv
      <3>3. QED
        BY <1>3, <2>2, <3>2 DEF Reserves, Commits, FlightTypes, ReservationStatus
    <2>3. QED
      BY <1>4, <2>1, <2>2
  <1>7. CancelsAfter'
    BY <1>2 DEF ToldInv, CancelsAfter
  <1>8. ASSUME NEW d \in ReleaseCalls, reply'[d] = "OK"
        PROVE  ReservationStatus(BookingOf[d])' = "RELEASED"
    <2>1. d \in Flight!Calls /\ BookingOf[d] \in Bookings /\ d \notin ReserveCalls
      BY CallParts, FlightAssumptions DEF Flight!Calls
    <2>2. CASE reply[d] = "OK"
      BY <1>6, <2>1, <2>2 DEF ToldInv, ReleasesTold
    <2>3. CASE reply[d] # "OK"
      <3>1. d = c
        BY <1>3, <1>4, <1>8, <2>1, <2>3 DEF Ends, Reserves, Releases, Commits, FlightTypes
      <3>2. CASE Ends(c)
        BY <1>3, <1>8, <2>1, <2>3, <3>1, <3>2 DEF Ends, FlightTypes, ReservationStatus
      <3>3. CASE Releases(c)
        BY <1>3, <3>1, <3>3 DEF Releases, Commits, FlightTypes, ReservationStatus
      <3>4. QED
        BY <1>4, <2>1, <3>1, <3>2, <3>3 DEF Reserves
    <2>4. QED
      BY <2>2, <2>3
  <1>9. ReleasesTold'
    BY <1>2, <1>6, <1>8, RequestsAssumption
    DEF ToldInv, ReleasesTold, CancelledReleased
  <1>10. ASSUME NEW h \in Creates, stage[h] = "reserve", reply'[Current(h)] = "ResourceExhausted"
         PROVE  ReservationStatus(BookingFor[h])' # "ACTIVE"
    <2>1. h \in Requests /\ Waiting(h)
      BY <1>10 DEF Requests, Waiting
    <2>2. /\ Current(h) \in ReserveCalls /\ Current(h) \in Flight!Calls
          /\ BookingOf[Current(h)] = BookingFor[h] /\ BookingFor[h] \in Bookings
      BY <1>10, <2>1, CurrentCall, RequestsAssumption DEF BookInv
    <2>3. CASE Ends(c)
      <3>1. ReservationStatus(BookingFor[h])' = ReservationStatus(BookingFor[h])
        BY <2>3 DEF Ends, ReservationStatus
      <3>2. CASE reply[Current(h)] = "ResourceExhausted"
        BY <1>10, <3>1, <3>2 DEF ToldInv, RefusalsTold
      <3>3. CASE reply[Current(h)] # "ResourceExhausted"
        <4>1. Current(h) = c /\ pc[c] = "lookedUp"
          BY <1>3, <1>10, <2>2, <2>3, <3>3 DEF Ends, FlightTypes
        <4>2. QED
          BY <2>2, <3>1, <4>1 DEF FP!LookupFresh, ReservationStatus
      <3>4. QED
        BY <3>2, <3>3
    <2>4. CASE Reserves(c)
      <3>1. c[1] # h
        BY <1>3, <1>5, <1>10, <2>2, <2>4 DEF Reserves, Commits, FlightTypes
      <3>2. BookingOf[c] # BookingFor[h]
        BY <1>5, <2>4, <3>1, FreshIdsAssumption
      <3>3. reply[Current(h)] = "ResourceExhausted"
        BY <1>3, <1>5, <1>10, <2>2, <2>4, <3>1 DEF Reserves, Commits, FlightTypes, Current, CallOf
      <3>4. QED
        BY <1>3, <1>10, <2>2, <2>4, <3>2, <3>3
        DEF ToldInv, RefusalsTold, Reserves, Commits, FlightTypes, ReservationStatus
    <2>5. CASE Releases(c)
      <3>1. c # Current(h)
        BY <2>2, <2>5, FlightAssumptions DEF Releases
      <3>2. reply[Current(h)] = "ResourceExhausted"
        BY <1>3, <1>10, <2>2, <2>5, <3>1 DEF Releases, Commits, FlightTypes
      <3>3. QED
        BY <1>3, <1>10, <2>2, <2>5, <3>2
        DEF ToldInv, RefusalsTold, Releases, Commits, FlightTypes, ReservationStatus
    <2>6. QED
      BY <1>4, <2>3, <2>4, <2>5
  <1>11. ASSUME NEW h \in Creates, answer[h] = "409"
         PROVE  ReservationStatus(BookingFor[h])' = "NONE"
    <2>1. /\ BookingFor[h] \in Bookings /\ stage[h] = "done"
          /\ ReservationStatus(BookingFor[h]) = "NONE"
      BY <1>11, RequestsAssumption
      DEF BookInv, StagesFit, ToldInv, RefusalsTold, ConflictHoldsNothing, Requests
    <2>2. CASE Reserves(c)
      <3>1. BookingOf[c] # BookingFor[h]
        BY <1>5, <2>1, <2>2, FreshIdsAssumption
      <3>2. QED
        BY <1>3, <2>1, <2>2, <3>1 DEF Reserves, Commits, FlightTypes, ReservationStatus
    <2>3. CASE Ends(c) \/ Releases(c)
      BY <1>3, <2>1, <2>3 DEF Ends, Releases, Commits, FlightTypes, ReservationStatus
    <2>4. QED
      BY <1>4, <2>2, <2>3
  <1>12. RefusalsTold'
    BY <1>2, <1>10, <1>11 DEF RefusalsTold, ConflictHoldsNothing, Current
  <1>13. QED
    BY <1>7, <1>9, <1>12 DEF ToldInv

LEMMA ToldInductive == SpecPrompt => []ToldInv
  <1>1. FP!ApartInv => FP!LookupFresh
    BY DEF FP!ApartInv
  <1>2. BookInv /\ PromptInv /\ FP!LookupFresh /\ ToldInv /\ [Next /\ Prompt']_vars => ToldInv'
    <2> SUFFICES ASSUME BookInv, PromptInv, FP!LookupFresh, ToldInv, [Next /\ Prompt']_vars
                 PROVE  ToldInv'
      OBVIOUS
    <2>1. CASE \E h \in Requests : HandlerStep(h)
      BY <2>1, HandlerKeepsToldInv
    <2>2. CASE FlightStep
      BY <2>2, FlightKeepsToldInv
    <2>3. CASE UNCHANGED vars
      BY <2>3 DEF vars, ToldInv, CancelsAfter, ReleasesTold, RefusalsTold, CancelledReleased,
         ConflictHoldsNothing, ReservationStatus, Current
    <2>4. QED
      BY <2>1, <2>2, <2>3 DEF Next, HandlerStep
  <1>3. SpecPrompt => []FP!ApartInv
    BY FlightUsedLikeLedger, FP!ApartInductive, FlightAssumptions, PTL
  <1>4. SpecPrompt => []PromptInv
    BY InitPromptInv, NextPromptInv, PTL DEF SpecPrompt
  <1>5. SpecPrompt => []BookInv
    BY BookInductive, PTL DEF SpecPrompt
  <1>6. QED
    BY <1>1, <1>2, <1>3, <1>4, <1>5, InitToldInv, PTL DEF SpecPrompt

\* A booking that is CANCELLED has given its seats back, and no late attempt
\* takes them again (main.go:184-191).
THEOREM CancelGivesBack == SpecPrompt => []CancelledReleased
  <1>1. ToldInv => CancelledReleased
    BY DEF ToldInv, ReleasesTold
  <1>2. QED
    BY <1>1, ToldInductive, PTL

\* Who is refused for want of seats holds none (main.go:153-159).
THEOREM RefusedHoldsNothing == SpecPrompt => []ConflictHoldsNothing
  <1>1. ToldInv => ConflictHoldsNothing
    BY DEF ToldInv, RefusalsTold
  <1>2. QED
    BY <1>1, ToldInductive, PTL
============================================================================
