------------------------- MODULE ServiceMetricsProofs -------------------------
(***************************************************************************)
(* Theorems about ServiceMetrics: what the counters say is what happened.  *)
(***************************************************************************)
EXTENDS ServiceMetrics, FiniteSetTheorems, TLAPS

----------------------------------------------------------------------------
(* The inductive invariant.                                                 *)

Rows == [at : Open \cup {"idle", "counted", "lost"}, method : Methods \cup {"none"},
         try : 0 .. MaxAttempts, status : Statuses \cup {0}, life : Nat, from : Nat]

Calls == [of : Requests, method : Methods, try : 1 .. MaxAttempts, key : Keys,
          at : {"sent", "handled", "total", "answered"}, code : ServerCodes \cup {"none"}]

Types ==
    /\ req \in [Requests -> Rows]
    /\ calls \subseteq Calls
    /\ httpTotal \in [Routes \X Statuses -> Nat] /\ httpErrors \in [Routes \X Statuses -> Nat]
    /\ grpcTotal \in [GrpcLabels -> Nat] /\ grpcErrors \in [GrpcLabels -> Nat]
    /\ key \in [Services -> Keys]
    /\ life \in [Services -> Nat \ {0}]

\* A request belongs to the process that works on it, and has a status once it
\* is answered, but not before.  A booking is stored after ReserveSeats, its
\* cancellation after ReleaseReservation.
RowFits(r, row) ==
    /\ row.at = "idle" => row = NoRequest
    /\ row.at \in Open => row.life = life["booking"]
    /\ row.life <= life["booking"] /\ row.from <= life["flight"]
    /\ row.at \in {"received", "call", "store"} => row.status = 0
    /\ row.at \in {"answered", "total", "counted"} => row.status \in Statuses
    /\ row.at = "total" => Failed(row.status)
    /\ row.at = "call" => /\ row.method \in Methods /\ row.try >= 1
                          /\ RouteOf[r] = "create" \/ row.method = "ReleaseReservation"
    /\ row.at = "store" => row.method = IF RouteOf[r] = "create" THEN "ReserveSeats"
                                        ELSE "ReleaseReservation"
    /\ row.from # 0 /\ row.status = 201 => row.method = "ReserveSeats"
    /\ row.from # 0 /\ row.status = 204 => row.method = "ReleaseReservation"

CallsFit ==
    /\ IsFiniteSet(calls)
    /\ \A call \in calls : /\ call.at # "sent" => call.code \in ServerCodes
                           /\ call.at = "total" => call.code # "OK"

\* The requests that were received.
Begun == {r \in Requests : req[r] # NoRequest}

\* The requests the booking service has counted, as far as the states say.
Counting(places, x) ==
    {r \in Requests : Here(r) /\ req[r].at \in places /\ <<RouteOf[r], req[r].status>> = x}

HttpFits ==
    \A x \in Routes \X Statuses :
        /\ httpTotal[x] = Cardinality(Counting({"total", "counted"}, x))
        /\ httpErrors[x] = IF x[2] >= 400 THEN Cardinality(Counting({"counted"}, x)) ELSE 0

\* The status that an answer of method m with this code ends in.
StatusOf(m, code) ==
    CASE code # "OK" -> statusToHTTP(code)
      [] code = "OK" /\ m = "ReserveSeats" -> 201
      [] code = "OK" /\ m = "ReleaseReservation" -> 204
      [] OTHER -> -1

\* The requests whose status, or whose step in the database of the bookings,
\* rests on an answer of the running flight service, and the answers that are
\* still on their way.
Rests(row, m, code) ==
    /\ row.from = life["flight"] /\ row.method = m
    /\ row.status = StatusOf(m, code) \/ (row.at = "store" /\ code = "OK")
Resting(m, code) == {r \in Requests : Rests(req[r], m, code)}
Answers(m, code) ==
    {call \in calls : call.at = "answered" /\ call.method = m /\ call.code = code}

Counted(m, code) == IF code = "OK" THEN grpcTotal[<<m, code>>] ELSE grpcErrors[<<m, code>>]

\* Both are counted, by method and code.
CountersFit ==
    \A m \in Methods, code \in ServerCodes :
        Cardinality(Resting(m, code)) + Cardinality(Answers(m, code)) <= Counted(m, code)

IInv ==
    /\ Types
    /\ \A r \in Requests : RowFits(r, req[r])
    /\ CallsFit
    /\ IsFiniteSet(Begun)
    /\ HttpFits
    /\ CountersFit

----------------------------------------------------------------------------
(* Finite sets that a step makes smaller or larger by one.                  *)

LEMMA NotLarger ==
    ASSUME NEW S, NEW T, IsFiniteSet(S), T \subseteq S
    PROVE  /\ IsFiniteSet(T) /\ Cardinality(S) \in Nat /\ Cardinality(T) \in Nat
           /\ Cardinality(T) <= Cardinality(S)
  BY FS_Subset, FS_CardinalityType

LEMMA OneMore ==
    ASSUME NEW S, NEW T, NEW x, IsFiniteSet(S), T \subseteq S \cup {x}
    PROVE  /\ IsFiniteSet(T) /\ Cardinality(S) \in Nat /\ Cardinality(T) \in Nat
           /\ Cardinality(T) <= Cardinality(S) + 1
  <1>1. /\ IsFiniteSet(S \cup {x}) /\ Cardinality(S) \in Nat
        /\ Cardinality(S \cup {x}) <= Cardinality(S) + 1
    <2>1. Cardinality(S) \in Nat
      BY FS_CardinalityType
    <2>2. QED
      BY <2>1, FS_AddElement
  <1>2. QED
    BY <1>1, FS_CardinalityType, NotLarger

LEMMA OneLess ==
    ASSUME NEW S, NEW T, NEW x \in S, IsFiniteSet(S), T \subseteq S \ {x}
    PROVE  /\ IsFiniteSet(T) /\ Cardinality(S) \in Nat /\ Cardinality(T) \in Nat
           /\ Cardinality(T) + 1 <= Cardinality(S)
  <1>1. /\ IsFiniteSet(S \ {x}) /\ Cardinality(S) \in Nat
        /\ Cardinality(S \ {x}) = Cardinality(S) - 1
    BY FS_RemoveElement, FS_CardinalityType
  <1>2. QED
    BY <1>1, FS_CardinalityType, NotLarger

\* The codes of a method end in different statuses.
LEMMA StatusTellsCode ==
    ASSUME NEW m \in Methods, NEW c \in ServerCodes, NEW d \in ServerCodes,
           StatusOf(m, c) = StatusOf(m, d)
    PROVE  c = d
  BY DEF StatusOf, statusToHTTP, ServerCodes, Methods

\* Under the invariant all the sets that are counted are finite.
LEMMA Finite ==
    ASSUME IInv
    PROVE  /\ \A m, code : IsFiniteSet(Resting(m, code)) /\ IsFiniteSet(Answers(m, code))
           /\ \A places, x : IsFiniteSet(Counting(places, x))
  <1>1. IsFiniteSet(Begun) /\ IsFiniteSet(calls) /\ life["flight"] # 0 /\ life["booking"] # 0
    BY DEF IInv, CallsFit, Types, Services
  <1>2. \A m, code : Resting(m, code) \subseteq Begun
    BY <1>1 DEF Resting, Rests, Begun, NoRequest
  <1>3. \A places, x : Counting(places, x) \subseteq Begun
    BY <1>1 DEF Counting, Begun, NoRequest, Here
  <1>4. \A m, code : Answers(m, code) \subseteq calls
    BY DEF Answers
  <1>5. QED
    BY <1>1, <1>2, <1>3, <1>4, FS_Subset

LEMMA InitIInv == Init => IInv
  <1> SUFFICES ASSUME Init PROVE IInv
    OBVIOUS
  <1>1. /\ req = [r \in Requests |-> NoRequest] /\ calls = {}
        /\ life["booking"] = 1 /\ life["flight"] = 1
    BY DEF Init, Services
  <1>2. Types
    <2>1. NoRequest \in Rows
      BY BoundsAssumption DEF NoRequest, Rows
    <2>2. QED
      BY <1>1, <2>1, KeysAssumption DEF Init, Types
  <1>3. \A r \in Requests : RowFits(r, req[r])
    BY <1>1 DEF RowFits, NoRequest, Open
  <1>4. /\ Begun = {} /\ \A m, code : Resting(m, code) = {} /\ Answers(m, code) = {}
        /\ \A places, x : Counting(places, x) = {}
    BY <1>1 DEF Begun, Resting, Rests, Answers, Counting, Here, NoRequest
  <1>5. IsFiniteSet({}) /\ Cardinality({}) = 0
    BY FS_EmptySet
  <1>6. CallsFit /\ IsFiniteSet(Begun)
    BY <1>1, <1>4, <1>5 DEF CallsFit
  <1>7. HttpFits
    <2>1. \A x \in Routes \X Statuses : httpTotal[x] = 0 /\ httpErrors[x] = 0
      BY DEF Init
    <2>2. \A places, x : Cardinality(Counting(places, x)) = 0
      BY <1>4, <1>5
    <2>3. QED
      BY <2>1, <2>2 DEF HttpFits
  <1>8. CountersFit
    <2>1. \A m \in Methods, code \in ServerCodes : Counted(m, code) = 0
      BY DEF Init, GrpcLabels, Counted
    <2>2. \A m, code : Cardinality(Resting(m, code)) = 0 /\ Cardinality(Answers(m, code)) = 0
      BY <1>4, <1>5
    <2>3. QED
      BY <2>1, <2>2 DEF CountersFit
  <1>9. QED
    BY <1>2, <1>3, <1>6, <1>7, <1>8 DEF IInv

----------------------------------------------------------------------------
(* Every step keeps it.                                                     *)

\* A request goes on before it is counted.  Where its new row n rests on an
\* answer, that answer is taken, or the row rested on it before.
GoesOn(r, n) ==
    /\ req[r].at \in {"idle", "received", "call", "store"}
    /\ n.at \in {"received", "call", "store", "answered"}
    /\ RowFits(r, n)
    /\ req' = [req EXCEPT ![r] = n]
    /\ UNCHANGED <<httpTotal, httpErrors, grpcTotal, grpcErrors, key, life>>
    /\ calls' \subseteq Calls /\ IsFiniteSet(calls')
    /\ \A call \in calls' : call \notin calls => call.at = "sent"
    /\ \A m \in Methods, code \in ServerCodes :
          Rests(n, m, code) =>
              r \in Resting(m, code) \/ \E call \in Answers(m, code) : call \notin calls'

LEMMA RequestKeepsIInv ==
    ASSUME IInv, NEW r \in Requests, NEW n \in Rows, GoesOn(r, n)
    PROVE  IInv'
  <1> USE DEF IInv, GoesOn
  <1>1. /\ Types /\ req'[r] = n /\ \A u \in Requests : u # r => req'[u] = req[u]
        /\ req' \in [Requests -> Rows]
    BY DEF Types
  <1>2. Types'
    BY <1>1 DEF Types, Rows, Calls, Routes, GrpcLabels
  <1>3. \A u \in Requests : RowFits(u, req[u])'
    BY <1>1 DEF RowFits
  <1>4. CallsFit'
    BY DEF CallsFit
  <1>5. IsFiniteSet(Begun')
    <2>1. Begun' \subseteq Begun \cup {r}
      BY <1>1 DEF Begun, NoRequest
    <2>2. QED
      BY <2>1, OneMore
  <1>6. HttpFits'
    <2>1. \A x : /\ Counting({"total", "counted"}, x)' = Counting({"total", "counted"}, x)
                 /\ Counting({"counted"}, x)' = Counting({"counted"}, x)
      BY <1>1 DEF Counting, Here
    <2>2. QED
      BY <2>1 DEF HttpFits
  <1>7. ASSUME NEW m \in Methods, NEW code \in ServerCodes
        PROVE  (Cardinality(Resting(m, code)) + Cardinality(Answers(m, code)) <= Counted(m, code))'
    <2>1. /\ IsFiniteSet(Resting(m, code)) /\ IsFiniteSet(Answers(m, code))
          /\ Cardinality(Resting(m, code)) + Cardinality(Answers(m, code)) <= Counted(m, code)
          /\ Counted(m, code)' = Counted(m, code) /\ Counted(m, code) \in Nat
      BY <1>1, Finite DEF CountersFit, Counted, Types, GrpcLabels
    <2>2. Answers(m, code)' \subseteq Answers(m, code)
      BY DEF Answers
    <2>3. /\ Resting(m, code)' \subseteq Resting(m, code) \cup {r}
          /\ ~ Rests(n, m, code) => Resting(m, code)' \subseteq Resting(m, code)
      BY <1>1 DEF Resting, Rests
    <2>4. CASE Resting(m, code)' \subseteq Resting(m, code)
      <3>1. /\ Cardinality(Resting(m, code)') <= Cardinality(Resting(m, code))
            /\ Cardinality(Resting(m, code)') \in Nat /\ Cardinality(Resting(m, code)) \in Nat
        BY <2>1, <2>4, NotLarger
      <3>2. /\ Cardinality(Answers(m, code)') <= Cardinality(Answers(m, code))
            /\ Cardinality(Answers(m, code)') \in Nat /\ Cardinality(Answers(m, code)) \in Nat
        BY <2>1, <2>2, NotLarger
      <3>3. QED
        BY <2>1, <3>1, <3>2
    <2>5. CASE ~ (Resting(m, code)' \subseteq Resting(m, code))
      <3>1. PICK call \in Answers(m, code) : call \notin calls'
        BY <2>3, <2>5
      <3>2. Answers(m, code)' \subseteq Answers(m, code) \ {call}
        BY <2>2, <3>1 DEF Answers
      <3>3. /\ Cardinality(Answers(m, code)') + 1 <= Cardinality(Answers(m, code))
            /\ Cardinality(Answers(m, code)') \in Nat /\ Cardinality(Answers(m, code)) \in Nat
        BY <2>1, <3>1, <3>2, OneLess
      <3>4. /\ Cardinality(Resting(m, code)') <= Cardinality(Resting(m, code)) + 1
            /\ Cardinality(Resting(m, code)') \in Nat /\ Cardinality(Resting(m, code)) \in Nat
        BY <2>1, <2>3, OneMore
      <3>5. QED
        BY <2>1, <3>3, <3>4
    <2>6. QED
      BY <2>4, <2>5
  <1>8. CountersFit'
    BY <1>7 DEF CountersFit
  <1>9. QED
    BY <1>2, <1>3, <1>4, <1>5, <1>6, <1>8

\* A field of a record that is changed.
LEMMA ChangedRows ==
    ASSUME NEW A, NEW M, NEW T, NEW S, NEW L, NEW F,
           NEW x \in [at : A, method : M, try : T, status : S, life : L, from : F], NEW v
    PROVE  /\ [x EXCEPT !.at = v] = [at |-> v, method |-> x.method, try |-> x.try,
                                     status |-> x.status, life |-> x.life, from |-> x.from]
           /\ [x EXCEPT !.method = v] = [at |-> x.at, method |-> v, try |-> x.try,
                                         status |-> x.status, life |-> x.life, from |-> x.from]
           /\ [x EXCEPT !.try = v] = [at |-> x.at, method |-> x.method, try |-> v,
                                      status |-> x.status, life |-> x.life, from |-> x.from]
           /\ [x EXCEPT !.status = v] = [at |-> x.at, method |-> x.method, try |-> x.try,
                                         status |-> v, life |-> x.life, from |-> x.from]
           /\ [x EXCEPT !.life = v] = [at |-> x.at, method |-> x.method, try |-> x.try,
                                       status |-> x.status, life |-> v, from |-> x.from]
           /\ [x EXCEPT !.from = v] = [at |-> x.at, method |-> x.method, try |-> x.try,
                                       status |-> x.status, life |-> x.life, from |-> v]
  OBVIOUS

\* The row of a request whose booking is stored or canceled.
LEMMA StoreRow ==
    ASSUME NEW x \in Rows, NEW a, NEW f
    PROVE  [[x EXCEPT !.at = a] EXCEPT !.from = f]
             = [at |-> a, method |-> x.method, try |-> x.try, status |-> x.status, life |-> x.life,
                from |-> f]
  <1> DEFINE y == [x EXCEPT !.at = a]
  <1>1. x \in [at : {x.at}, method : {x.method}, try : {x.try}, status : {x.status}, life : {x.life},
               from : {x.from}]
    BY DEF Rows
  <1>2. y = [at |-> a, method |-> x.method, try |-> x.try, status |-> x.status, life |-> x.life,
             from |-> x.from]
    BY <1>1, ChangedRows
  <1>3. y \in [at : {a}, method : {x.method}, try : {x.try}, status : {x.status}, life : {x.life},
               from : {x.from}]
    BY <1>2
  <1> HIDE DEF y
  <1>4. [y EXCEPT !.from = f] = [at |-> a, method |-> x.method, try |-> x.try,
                                 status |-> x.status, life |-> x.life, from |-> f]
    BY <1>2, <1>3, ChangedRows
  <1>5. QED
    BY <1>4 DEF y

\* The calls that are left hold no answer for r.
LEMMA LeftCalls ==
    ASSUME IInv, NEW r \in Requests
    PROVE  /\ Left(r) \subseteq calls /\ Left(r) \subseteq Calls /\ IsFiniteSet(Left(r))
           /\ \A call \in calls : Awaited(r, call) /\ call.at = "answered" => call \notin Left(r)
  BY FS_Subset DEF IInv, Types, CallsFit, Left

\* A stub is called.
LEMMA InvokeKeepsIInv ==
    ASSUME IInv, NEW r \in Requests, NEW m \in Methods, NEW k \in 1 .. MaxAttempts,
           req[r].at \in {"received", "call", "store"}, Invoke(r, m, k),
           RouteOf[r] = "create" \/ m = "ReleaseReservation",
           UNCHANGED <<httpVars, grpcVars, key, life>>
    PROVE  IInv'
  <1>1. /\ RowFits(r, req[r]) /\ req[r] \in Rows /\ key["booking"] \in Keys
        /\ life["flight"] \in Nat \ {0}
    BY DEF IInv, Types, Services
  <1>2. PICK n : n = [at |-> "call", method |-> m, try |-> k, status |-> 0,
                      life |-> req[r].life, from |-> 0]
    OBVIOUS
  <1>3. PICK c : c = [of |-> r, method |-> m, try |-> k, key |-> key["booking"], at |-> "sent",
                      code |-> "none"]
    OBVIOUS
  <1>4. req' = [req EXCEPT ![r] = n] /\ calls' = Left(r) \cup {c} /\ c \in Calls /\ c.at = "sent"
    BY <1>1, <1>2, <1>3 DEF Invoke, Calls
  <1>5. /\ calls' \subseteq Calls /\ IsFiniteSet(calls')
        /\ \A call \in calls' : call \notin calls => call.at = "sent"
    BY <1>4, LeftCalls, FS_AddElement
  <1>6. n \in Rows /\ RowFits(r, n)
    BY <1>1, <1>2 DEF Rows, Open, RowFits, Statuses
  <1>7. UNCHANGED <<httpTotal, httpErrors, grpcTotal, grpcErrors, key, life>>
    BY DEF httpVars, grpcVars
  <1>8. \A code : ~ Rests(n, n.method, code) /\ n.from # life["flight"]
    BY <1>1, <1>2 DEF Rests
  <1>9. GoesOn(r, n)
    BY <1>2, <1>4, <1>5, <1>6, <1>7, <1>8 DEF GoesOn, Rests
  <1>10. QED
    BY <1>6, <1>9, RequestKeepsIInv

\* The handler of r answers.
LEMMA RespondKeepsIInv ==
    ASSUME IInv, NEW r \in Requests, NEW s \in Statuses, NEW f \in Nat,
           req[r].at \in {"received", "call", "store"}, Respond(r, s, f),
           UNCHANGED <<httpVars, grpcVars, key, life>>,
           f <= life["flight"],
           f = 0 \/ \E c \in ServerCodes :
               /\ s = StatusOf(req[r].method, c) /\ req[r].method \in Methods
               /\ \/ c = "OK" /\ req[r].at = "store" /\ f = req[r].from
                  \/ \E call \in Answers(req[r].method, c) : Awaited(r, call)
    PROVE  IInv'
  <1>1. /\ RowFits(r, req[r]) /\ req[r] \in Rows /\ life["flight"] # 0
    BY DEF IInv, Types, Services
  <1>2. PICK n : n = [at |-> "answered", method |-> IF f = 0 THEN "none" ELSE req[r].method,
                      try |-> 0, status |-> s, life |-> req[r].life, from |-> f]
    OBVIOUS
  <1>3. req' = [req EXCEPT ![r] = n]
    BY <1>2 DEF Respond
  <1>4. /\ calls' \subseteq Calls /\ IsFiniteSet(calls') /\ \A call \in calls' : call \in calls
        /\ \A call \in calls : Awaited(r, call) /\ call.at = "answered" => call \notin calls'
    BY LeftCalls DEF Respond
  <1>5. f # 0 => /\ s = 201 => req[r].method = "ReserveSeats"
                 /\ s = 204 => req[r].method = "ReleaseReservation"
    BY DEF StatusOf, statusToHTTP, ServerCodes, Methods
  <1>6. n \in Rows /\ RowFits(r, n)
    BY <1>1, <1>2, <1>5, BoundsAssumption DEF Rows, Open, RowFits
  <1>7. UNCHANGED <<httpTotal, httpErrors, grpcTotal, grpcErrors, key, life>>
    BY DEF httpVars, grpcVars
  <1>8. ASSUME NEW m \in Methods, NEW code \in ServerCodes, Rests(n, m, code)
        PROVE  r \in Resting(m, code) \/ \E call \in Answers(m, code) : call \notin calls'
    <2>1. f = life["flight"] /\ f # 0 /\ m = req[r].method /\ s = StatusOf(m, code)
      BY <1>1, <1>2, <1>8 DEF Rests
    <2>2. PICK c \in ServerCodes :
             /\ s = StatusOf(req[r].method, c)
             /\ \/ c = "OK" /\ req[r].at = "store" /\ f = req[r].from
                \/ \E call \in Answers(req[r].method, c) : Awaited(r, call)
      BY <2>1
    <2>3. c = code
      BY <2>1, <2>2, StatusTellsCode
    <2>4. QED
      BY <1>4, <2>1, <2>2, <2>3 DEF Resting, Rests, Answers
  <1>9. GoesOn(r, n)
    BY <1>2, <1>3, <1>4, <1>6, <1>7, <1>8 DEF GoesOn
  <1>10. QED
    BY <1>6, <1>9, RequestKeepsIInv

\* retryCall failed with an answer of the flight service, or without one.
LEMMA GiveUpKeepsIInv ==
    ASSUME IInv, NEW r \in Requests, NEW code, NEW f \in {0, life["flight"]},
           req[r].at = "call", GiveUp(r, code, f), UNCHANGED <<httpVars, grpcVars, key, life>>,
           f # 0 => /\ code \in ServerCodes \ {"OK"}
                    /\ \E call \in Answers(req[r].method, code) : Awaited(r, call)
    PROVE  IInv'
  <1>1. /\ life["flight"] \in Nat /\ f \in Nat /\ f <= life["flight"] /\ 0 <= life["flight"]
        /\ req[r].method \in Methods
    BY DEF IInv, Types, Services, RowFits
  <1>2. PICK s \in Statuses : s = statusToHTTP(code)
    BY DEF statusToHTTP, Statuses
  <1>3. CASE Respond(r, 500, 0)
    BY <1>1, <1>3, RespondKeepsIInv DEF Statuses
  <1>4. CASE Respond(r, statusToHTTP(code), f)
    <2>1. code # "OK" => s = StatusOf(req[r].method, code)
      BY <1>2 DEF StatusOf
    <2>2. QED
      BY <1>1, <1>2, <1>4, <2>1, RespondKeepsIInv
  <1>5. QED
    BY <1>3, <1>4 DEF GiveUp

LEMMA TakeAnswerKeepsIInv ==
    ASSUME IInv, NEW r \in Requests, TakeAnswer(r)
    PROVE  IInv'
  <1>1. PICK call \in calls :
           /\ Awaited(r, call) /\ call.at = "answered"
           /\ \/ call.code = "OK" /\ Proceed(r, life["flight"])
              \/ call.code # "OK" /\ GiveUp(r, call.code, life["flight"])
    BY DEF TakeAnswer
  <1>2. /\ req[r].at = "call" /\ UNCHANGED <<httpVars, grpcVars, key, life>>
        /\ RowFits(r, req[r]) /\ req[r] \in Rows /\ req \in [Requests -> Rows]
        /\ life["flight"] \in Nat \ {0} /\ RouteOf[r] \in {"create", "cancel"}
        /\ call.code \in ServerCodes /\ call \in Answers(req[r].method, call.code)
    BY <1>1, RoutesAssumption
    DEF TakeAnswer, Awaited, IInv, Types, Services, CallsFit, Answers
  <1>3. CASE call.code # "OK" /\ GiveUp(r, call.code, life["flight"])
    BY <1>1, <1>2, <1>3, GiveUpKeepsIInv
  <1>4. CASE call.code = "OK" /\ Proceed(r, life["flight"])
    <2>1. CASE req[r].method = "GetFlight" /\ Invoke(r, "ReserveSeats", 1)
      <3>1. RouteOf[r] = "create"
        BY <1>2, <2>1 DEF RowFits
      <3>2. QED
        BY <1>2, <2>1, <3>1, InvokeKeepsIInv, BoundsAssumption DEF Methods
    <2>2. CASE Respond(r, 500, 0)
      <3>1. 0 <= life["flight"] /\ 500 \in Statuses
        BY <1>2 DEF Statuses
      <3>2. QED
        BY <1>2, <2>2, <3>1, RespondKeepsIInv
    <2>3. CASE /\ req[r].method # "GetFlight" /\ ~ Compensating(r)
               /\ req' = [req EXCEPT ![r].at = "store", ![r].from = life["flight"]]
               /\ calls' = Left(r)
      <3>1. PICK n : n = [at |-> "store", method |-> req[r].method, try |-> req[r].try,
                          status |-> req[r].status, life |-> req[r].life, from |-> life["flight"]]
        OBVIOUS
      <3>2. req' = [req EXCEPT ![r] = n]
        <4>1. req' = [req EXCEPT ![r] = [[req[r] EXCEPT !.at = "store"] EXCEPT !.from = life["flight"]]]
          BY <1>2, <2>3
        <4>2. [[req[r] EXCEPT !.at = "store"] EXCEPT !.from = life["flight"]] = n
          BY <1>2, <3>1, StoreRow, ZenonT(30)
        <4>3. QED
          BY <4>1, <4>2
      <3>3. n.method = IF RouteOf[r] = "create" THEN "ReserveSeats" ELSE "ReleaseReservation"
        BY <1>2, <2>3, <3>1 DEF RowFits, Compensating, Methods
      <3>4. n \in Rows /\ RowFits(r, n) /\ n.at = "store" /\ n.status = 0
        BY <1>2, <3>1, <3>3 DEF Rows, Open, RowFits, Statuses
      <3>5. /\ calls' \subseteq Calls /\ IsFiniteSet(calls') /\ \A c \in calls' : c \in calls
            /\ call \notin calls'
        BY <1>1, <2>3, LeftCalls
      <3>6. UNCHANGED <<httpTotal, httpErrors, grpcTotal, grpcErrors, key, life>>
        BY <1>2 DEF httpVars, grpcVars
      <3>7. ASSUME NEW m \in Methods, NEW code \in ServerCodes, Rests(n, m, code)
            PROVE  call \in Answers(m, code)
        <4>1. StatusOf(m, code) # 0
          BY DEF StatusOf, statusToHTTP
        <4>2. m = req[r].method /\ code = "OK"
          BY <3>1, <3>4, <3>7, <4>1 DEF Rests
        <4>3. QED
          BY <1>2, <1>4, <4>2
      <3>8. GoesOn(r, n)
        BY <1>2, <3>2, <3>4, <3>5, <3>6, <3>7 DEF GoesOn
      <3>9. QED
        BY <3>4, <3>8, RequestKeepsIInv
    <2>4. QED
      BY <1>4, <2>1, <2>2, <2>3 DEF Proceed
  <1>5. QED
    BY <1>1, <1>3, <1>4

LEMMA ReceiveKeepsIInv ==
    ASSUME IInv, NEW r \in Requests, Receive(r)
    PROVE  IInv'
  <1>1. /\ RowFits(r, req[r]) /\ req \in [Requests -> Rows] /\ life["booking"] \in Nat
        /\ life["flight"] \in Nat \ {0} /\ calls \subseteq Calls /\ IsFiniteSet(calls)
        /\ req[r] = NoRequest
    BY DEF IInv, Types, Services, CallsFit, Receive, RowFits
  <1>2. PICK n : n = [at |-> "received", method |-> "none", try |-> 0, status |-> 0,
                      life |-> life["booking"], from |-> 0]
    OBVIOUS
  <1>3. n \in Rows /\ RowFits(r, n) /\ \A m, code : ~ Rests(n, m, code)
    BY <1>1, <1>2, BoundsAssumption DEF Rows, Open, RowFits, Rests
  <1>4. req' = [req EXCEPT ![r] = n]
    <2> DEFINE y == [req[r] EXCEPT !.at = "received"]
    <2>1. req' = [req EXCEPT ![r] = [y EXCEPT !.life = life["booking"]]]
      BY <1>1 DEF Receive
    <2>2. /\ req[r] \in [at : {"idle"}, method : {"none"}, try : {0}, status : {0}, life : {0},
                         from : {0}]
          /\ req[r].method = "none" /\ req[r].try = 0 /\ req[r].status = 0 /\ req[r].life = 0
          /\ req[r].from = 0
      BY <1>1 DEF NoRequest
    <2>3. y = [at |-> "received", method |-> "none", try |-> 0, status |-> 0, life |-> 0, from |-> 0]
      BY <2>2, ChangedRows
    <2>4. y \in [at : {"received"}, method : {"none"}, try : {0}, status : {0}, life : {0},
                 from : {0}]
      BY <2>3
    <2> HIDE DEF y
    <2>5. [y EXCEPT !.life = life["booking"]] = n
      BY <1>2, <2>3, <2>4, ChangedRows
    <2>6. QED
      BY <2>1, <2>5
  <1>5. /\ req[r].at = "idle" /\ calls' = calls
        /\ UNCHANGED <<httpTotal, httpErrors, grpcTotal, grpcErrors, key, life>>
    BY DEF Receive, httpVars, grpcVars
  <1>6. GoesOn(r, n)
    BY <1>1, <1>2, <1>3, <1>4, <1>5 DEF GoesOn
  <1>7. QED
    BY <1>3, <1>6, RequestKeepsIInv

LEMMA BeginKeepsIInv ==
    ASSUME IInv, NEW r \in Requests, Begin(r)
    PROVE  IInv'
  <1>1. /\ req[r].at = "received" /\ UNCHANGED <<httpVars, grpcVars, key, life>>
        /\ life["flight"] \in Nat /\ 0 <= life["flight"]
    BY DEF Begin, IInv, Types, Services
  <1>2. ASSUME NEW s \in {400, 404, 204}, Respond(r, s, 0) PROVE IInv'
    BY <1>1, <1>2, RespondKeepsIInv DEF Statuses
  <1>3. ASSUME NEW m \in Methods, Invoke(r, m, 1),
               RouteOf[r] = "create" \/ m = "ReleaseReservation"
        PROVE  IInv'
    BY <1>1, <1>3, InvokeKeepsIInv, BoundsAssumption
  <1>4. QED
    BY <1>2, <1>3 DEF Begin, Methods

LEMMA LossKeepsIInv ==
    ASSUME IInv, NEW r \in Requests, LoseAttempt(r) \/ Canceled(r)
    PROVE  IInv'
  <1>1. /\ req[r].at = "call" /\ UNCHANGED <<httpVars, grpcVars, key, life>>
        /\ req[r].method \in Methods /\ req[r].try \in 1 .. MaxAttempts
        /\ RouteOf[r] = "create" \/ req[r].method = "ReleaseReservation"
    BY BoundsAssumption DEF LoseAttempt, Canceled, IInv, Types, Rows, RowFits
  <1>2. CASE MayRetry(req[r].try) /\ Invoke(r, req[r].method, req[r].try + 1)
    <2>1. req[r].try + 1 \in 1 .. MaxAttempts
      BY <1>1, <1>2, BoundsAssumption DEF MayRetry
    <2>2. QED
      BY <1>1, <1>2, <2>1, InvokeKeepsIInv
  <1>3. ASSUME NEW code, GiveUp(r, code, 0) PROVE IInv'
    BY <1>1, <1>3, GiveUpKeepsIInv
  <1>4. QED
    BY <1>2, <1>3 DEF LoseAttempt, Canceled

LEMMA StoreKeepsIInv ==
    ASSUME IInv, NEW r \in Requests, Store(r)
    PROVE  IInv'
  <1>1. /\ req[r].at = "store" /\ UNCHANGED <<httpVars, grpcVars, key, life>>
        /\ req[r].from \in Nat /\ req[r].from <= life["flight"] /\ 0 <= life["flight"]
        /\ req[r].method = IF RouteOf[r] = "create" THEN "ReserveSeats" ELSE "ReleaseReservation"
    BY DEF Store, IInv, Types, Rows, RowFits, Services
  <1>2. CASE RouteOf[r] = "create" /\ Respond(r, 201, req[r].from)
    <2>1. /\ 201 = StatusOf(req[r].method, "OK") /\ req[r].method \in Methods /\ 201 \in Statuses
          /\ "OK" \in ServerCodes
      BY <1>1, <1>2 DEF StatusOf, Methods, Statuses, ServerCodes
    <2>2. QED
      BY <1>1, <1>2, <2>1, RespondKeepsIInv
  <1>3. CASE RouteOf[r] = "cancel" /\ Respond(r, 204, req[r].from)
    <2>1. /\ 204 = StatusOf(req[r].method, "OK") /\ req[r].method \in Methods /\ 204 \in Statuses
          /\ "OK" \in ServerCodes
      BY <1>1, <1>3 DEF StatusOf, Methods, Statuses, ServerCodes
    <2>2. QED
      BY <1>1, <1>3, <2>1, RespondKeepsIInv
  <1>4. CASE Respond(r, 500, 0)
    BY <1>1, <1>4, RespondKeepsIInv DEF Statuses
  <1>5. CASE Invoke(r, "ReleaseReservation", 1)
    BY <1>1, <1>5, InvokeKeepsIInv, BoundsAssumption DEF Methods
  <1>6. QED
    BY <1>2, <1>3, <1>4, <1>5 DEF Store

\* One of the two counters of a request goes up.
LEMMA CountKeepsIInv ==
    ASSUME IInv, NEW r \in Requests, CountRequest(r) \/ CountFailure(r)
    PROVE  IInv'
  <1> DEFINE x == <<RouteOf[r], req[r].status>>
             y == req'[r]
  <1>1. /\ Types /\ RowFits(r, req[r]) /\ HttpFits /\ req[r] \in Rows /\ req \in [Requests -> Rows]
        /\ req[r].at \in {"answered", "total"} /\ req[r].status \in Statuses /\ Here(r)
        /\ UNCHANGED <<calls, grpcTotal, grpcErrors, key, life>>
    BY DEF CountRequest, CountFailure, grpcVars, IInv, Types, RowFits, Open, Here
  <1>2. x \in Routes \X Statuses /\ x[1] = RouteOf[r] /\ x[2] = req[r].status /\ x[2] \in Nat
    BY <1>1 DEF Routes, Statuses
  <1>3. \E where \in {"total", "counted"} :
           /\ req' = [req EXCEPT ![r] = [req[r] EXCEPT !.at = where]]
           /\ where = "total" => Failed(req[r].status)
    BY <1>1 DEF CountRequest, CountFailure
  <1>4. /\ y \in Rows /\ y.at \in {"total", "counted"}
        /\ y.at = "total" => Failed(req[r].status)
        /\ y.method = req[r].method /\ y.try = req[r].try /\ y.status = req[r].status
        /\ y.life = req[r].life /\ y.from = req[r].from
        /\ \A u \in Requests : u # r => req'[u] = req[u]
        /\ req' \in [Requests -> Rows]
    <2>1. PICK where \in {"total", "counted"} :
             /\ req' = [req EXCEPT ![r] = [req[r] EXCEPT !.at = where]]
             /\ where = "total" => Failed(req[r].status)
      BY <1>3
    <2>2. y = [req[r] EXCEPT !.at = where] /\ \A u \in Requests : u # r => req'[u] = req[u]
      BY <1>1, <2>1
    <2>3. y \in Rows /\ y.at = where
      BY <1>1, <2>2 DEF Rows, Open
    <2>4. QED
      BY <1>1, <2>1, <2>2, <2>3 DEF Rows
  <1> HIDE DEF y
  <1>5. /\ httpTotal \in [Routes \X Statuses -> Nat] /\ httpErrors \in [Routes \X Statuses -> Nat]
        /\ \A z : /\ IsFiniteSet(Counting({"total", "counted"}, z))
                  /\ IsFiniteSet(Counting({"counted"}, z))
    BY <1>1, Finite DEF Types
  <1>6. Types'
    <2>1. httpTotal' \in [Routes \X Statuses -> Nat] /\ httpErrors' \in [Routes \X Statuses -> Nat]
      <3>1. httpTotal[x] + 1 \in Nat /\ httpErrors[x] + 1 \in Nat
        BY <1>2, <1>5
      <3>2. /\ httpTotal' \in {httpTotal, [httpTotal EXCEPT ![x] = httpTotal[x] + 1]}
            /\ httpErrors' \in {httpErrors, [httpErrors EXCEPT ![x] = httpErrors[x] + 1]}
        BY DEF CountRequest, CountFailure
      <3> HIDE DEF x
      <3>3. QED
        BY <1>5, <3>1, <3>2
    <2>2. QED
      BY <1>1, <1>4, <2>1 DEF Types, Rows, Calls, Routes, GrpcLabels
  <1>7. ASSUME NEW u \in Requests PROVE RowFits(u, req[u])'
    <2>1. CASE u = r
      <3>1. req'[r] = y
        BY DEF y
      <3>2. QED
        BY <1>1, <1>4, <2>1, <3>1 DEF RowFits, Here
    <2>2. CASE u # r
      BY <1>1, <1>4, <2>2 DEF IInv, RowFits
    <2>3. QED
      BY <2>1, <2>2
  <1>8. CallsFit' /\ IsFiniteSet(Begun')
    <2>1. Begun' \subseteq Begun \cup {r}
      BY <1>4 DEF Begun
    <2>2. QED
      BY <1>1, <2>1, OneMore DEF IInv, CallsFit
  <1>9. HttpFits'
    <2> SUFFICES ASSUME NEW z \in Routes \X Statuses
                 PROVE  /\ httpTotal'[z] = Cardinality(Counting({"total", "counted"}, z)')
                        /\ httpErrors'[z] = IF z[2] >= 400 THEN Cardinality(Counting({"counted"}, z)')
                                            ELSE 0
      BY DEF HttpFits
    <2> DEFINE B == Counting({"total", "counted"}, z)
               C == Counting({"counted"}, z)
    <2>1. /\ httpTotal[z] = Cardinality(B) /\ httpErrors[z] = IF z[2] >= 400 THEN Cardinality(C) ELSE 0
          /\ IsFiniteSet(B) /\ IsFiniteSet(C)
      BY <1>1, <1>5 DEF HttpFits
    <2>2. /\ \A u \in Requests : u # r => (u \in B' <=> u \in B) /\ (u \in C' <=> u \in C)
          /\ B \subseteq Requests /\ C \subseteq Requests
          /\ B' \subseteq Requests /\ C' \subseteq Requests
      BY <1>1, <1>4 DEF Counting, Here
    <2>3. /\ r \in B <=> req[r].at = "total" /\ x = z
          /\ r \notin C
          /\ r \in B' <=> x = z
          /\ r \in C' <=> y.at = "counted" /\ x = z
      <3>1. req'[r] = y /\ (Here(r)' <=> Here(r)) /\ <<RouteOf[r], y.status>> = x
        BY <1>1, <1>4 DEF y, Here
      <3>2. r \in B' <=> Here(r)' /\ y.at \in {"total", "counted"} /\ <<RouteOf[r], y.status>> = z
        BY <3>1 DEF Counting
      <3>3. r \in C' <=> Here(r)' /\ y.at \in {"counted"} /\ <<RouteOf[r], y.status>> = z
        BY <3>1 DEF Counting
      <3>4. r \in B <=> Here(r) /\ req[r].at \in {"total", "counted"} /\ x = z
        BY DEF Counting
      <3>5. r \in C <=> Here(r) /\ req[r].at \in {"counted"} /\ x = z
        BY DEF Counting
      <3> HIDE DEF B, C, x
      <3>6. QED
        BY <1>1, <1>4, <3>1, <3>2, <3>3, <3>4, <3>5
    <2>4. IsFiniteSet(B \cup {r}) /\ (r \notin B => Cardinality(B \cup {r}) = Cardinality(B) + 1)
      BY <2>1, FS_AddElement
    <2>5. Cardinality(C \cup {r}) = Cardinality(C) + 1
      BY <2>1, <2>3, FS_AddElement
    <2> HIDE DEF B, C
    <2>6. CASE z # x
      <3>1. B' = B /\ C' = C
        BY <2>2, <2>3, <2>6
      <3>2. httpTotal'[z] = httpTotal[z] /\ httpErrors'[z] = httpErrors[z]
        BY <1>2, <1>5, <2>6 DEF CountRequest, CountFailure
      <3>3. QED
        BY <2>1, <3>1, <3>2 DEF B, C
    <2>7. CASE z = x /\ CountRequest(r)
      <3>1. /\ req[r].at = "answered" /\ httpTotal'[z] = httpTotal[z] + 1
            /\ httpErrors'[z] = httpErrors[z]
        BY <1>2, <1>5, <2>7 DEF CountRequest
      <3>2. B' = B \cup {r} /\ r \notin B
        BY <2>2, <2>3, <2>7, <3>1
      <3>3. CASE z[2] >= 400
        <4>1. y.at = "total"
          BY <1>1, <1>2, <2>7, <3>3 DEF CountRequest, Failed, y
        <4>2. C' = C
          BY <2>2, <2>3, <4>1
        <4>3. QED
          BY <2>1, <2>4, <3>1, <3>2, <3>3, <4>2 DEF B, C
      <3>4. CASE ~ z[2] >= 400
        BY <2>1, <2>4, <3>1, <3>2, <3>4 DEF B, C
      <3>5. QED
        BY <3>3, <3>4
    <2>8. CASE z = x /\ CountFailure(r)
      <3>1. /\ req[r].at = "total" /\ httpTotal'[z] = httpTotal[z]
            /\ httpErrors'[z] = httpErrors[z] + 1 /\ y.at = "counted" /\ z[2] >= 400
        BY <1>1, <1>2, <1>5, <2>8 DEF CountFailure, RowFits, Failed, y
      <3>2. B' = B /\ C' = C \cup {r}
        BY <2>2, <2>3, <2>8, <3>1
      <3>3. QED
        BY <2>1, <2>5, <3>1, <3>2 DEF B, C
    <2>9. QED
      BY <2>6, <2>7, <2>8
  <1>10. CountersFit'
    <2>1. \A u \in Requests : \A m, code : Rests(req[u], m, code)' <=> Rests(req[u], m, code)
      <3>1. \A u \in Requests : /\ req'[u].status = req[u].status /\ req'[u].from = req[u].from
                                /\ req'[u].method = req[u].method
                                /\ req'[u].at = "store" <=> req[u].at = "store"
        BY <1>1, <1>4 DEF y
      <3>2. QED
        BY <1>1, <3>1 DEF Rests
    <2>2. \A m, code : /\ Resting(m, code)' = Resting(m, code)
                       /\ Answers(m, code)' = Answers(m, code)
                       /\ Counted(m, code)' = Counted(m, code)
      BY <1>1, <2>1 DEF Resting, Answers, Counted
    <2>3. QED
      BY <2>2 DEF IInv, CountersFit
  <1>11. QED
    BY <1>6, <1>7, <1>8, <1>9, <1>10 DEF IInv

\* The flight service goes on with a call, and counts it before it is answered.
LEMMA StepKeepsIInv ==
    ASSUME IInv, NEW call \in calls, NEW where \in {"handled", "total", "answered"},
           NEW code \in ServerCodes, Step(call, where, code),
           where = "total" => code # "OK",
           UNCHANGED <<req, httpTotal, httpErrors, key, life>>,
           grpcTotal' \in [GrpcLabels -> Nat], grpcErrors' \in [GrpcLabels -> Nat],
           \A x \in GrpcLabels : grpcTotal'[x] >= grpcTotal[x] /\ grpcErrors'[x] >= grpcErrors[x],
           where = "answered" => Counted(call.method, code)' = Counted(call.method, code) + 1
    PROVE  IInv'
  <1>1. PICK n \in Calls : /\ n = [[call EXCEPT !.at = where] EXCEPT !.code = code]
                           /\ n.at = where /\ n.code = code /\ n.method = call.method
    <2>1. call \in Calls
      BY DEF IInv, Types
    <2> DEFINE d == [call EXCEPT !.at = where]
               n == [d EXCEPT !.code = code]
    <2>2. d \in Calls /\ d.at = where /\ d.method = call.method
      BY <2>1 DEF Calls
    <2> HIDE DEF d
    <2>3. n \in Calls /\ n.at = where /\ n.code = code /\ n.method = call.method
      BY <2>2 DEF Calls
    <2>4. QED
      BY <2>3 DEF d
  <1>2. calls' \subseteq (calls \ {call}) \cup {n}
    BY <1>1 DEF Step
  <1>3. Types'
    BY <1>1, <1>2 DEF IInv, Types, Rows, Calls, Routes, GrpcLabels
  <1>4. CallsFit'
    <2>1. IsFiniteSet(calls')
      <3>1. calls' \subseteq calls \cup {n}
        BY <1>2
      <3>2. QED
        BY <3>1, OneMore DEF IInv, CallsFit
    <2>2. QED
      BY <1>1, <1>2, <2>1 DEF IInv, CallsFit
  <1>5. \A r \in Requests : RowFits(r, req[r])'
    BY DEF IInv, RowFits
  <1>6. IsFiniteSet(Begun') /\ HttpFits'
    <2>1. Begun' = Begun /\ \A places, x : Counting(places, x)' = Counting(places, x)
      BY DEF Begun, Counting, Here
    <2>2. QED
      BY <2>1 DEF IInv, HttpFits
  <1>7. ASSUME NEW m \in Methods, NEW c \in ServerCodes
        PROVE  (Cardinality(Resting(m, c)) + Cardinality(Answers(m, c)) <= Counted(m, c))'
    <2>1. /\ IsFiniteSet(Resting(m, c)) /\ IsFiniteSet(Answers(m, c))
          /\ Cardinality(Resting(m, c)) + Cardinality(Answers(m, c)) <= Counted(m, c)
      BY Finite DEF IInv, CountersFit
    <2>2. Resting(m, c)' = Resting(m, c) /\ Cardinality(Resting(m, c)) \in Nat
      BY <2>1, FS_CardinalityType DEF Resting, Rests
    <2>3. /\ Counted(m, c) \in Nat /\ Counted(m, c)' \in Nat
          /\ Counted(m, c)' >= Counted(m, c)
      BY DEF IInv, Types, Counted, GrpcLabels
    <2>4. CASE where = "answered" /\ m = call.method /\ c = code
      <3>1. Answers(m, c)' \subseteq Answers(m, c) \cup {n}
        BY <1>2 DEF Answers
      <3>2. /\ Cardinality(Answers(m, c)') <= Cardinality(Answers(m, c)) + 1
            /\ Cardinality(Answers(m, c)') \in Nat /\ Cardinality(Answers(m, c)) \in Nat
        BY <2>1, <3>1, OneMore
      <3>3. Counted(m, c)' = Counted(m, c) + 1
        BY <2>4
      <3>4. QED
        BY <2>1, <2>2, <2>3, <3>2, <3>3
    <2>5. CASE ~ (where = "answered" /\ m = call.method /\ c = code)
      <3>1. Answers(m, c)' \subseteq Answers(m, c)
        BY <1>1, <1>2, <2>5 DEF Answers
      <3>2. /\ Cardinality(Answers(m, c)') <= Cardinality(Answers(m, c))
            /\ Cardinality(Answers(m, c)') \in Nat /\ Cardinality(Answers(m, c)) \in Nat
        BY <2>1, <3>1, NotLarger
      <3>3. QED
        BY <2>1, <2>2, <2>3, <3>2
    <2>6. QED
      BY <2>4, <2>5
  <1>8. CountersFit'
    BY <1>7 DEF CountersFit
  <1>9. QED
    BY <1>3, <1>4, <1>5, <1>6, <1>8 DEF IInv

LEMMA FlightKeepsIInv ==
    ASSUME IInv, FlightStep
    PROVE  IInv'
  <1>1. PICK call \in calls : Handle(call) \/ CountCall(call) \/ CountError(call)
    BY DEF FlightStep
  <1>2. /\ UNCHANGED <<req, httpTotal, httpErrors, key, life>>
        /\ grpcTotal \in [GrpcLabels -> Nat] /\ grpcErrors \in [GrpcLabels -> Nat]
        /\ call.at # "sent" => call.code \in ServerCodes
        /\ call.at = "total" => call.code # "OK"
        /\ call.method \in Methods
    <2>1. UNCHANGED <<req, httpTotal, httpErrors, key, life>>
      BY <1>1 DEF Handle, CountCall, CountError, httpVars
    <2>2. grpcTotal \in [GrpcLabels -> Nat] /\ grpcErrors \in [GrpcLabels -> Nat]
      BY DEF IInv, Types
    <2>3. call \in calls /\ CallsFit /\ call \in Calls
      BY <1>1 DEF IInv, Types
    <2>4. (call.at # "sent" => call.code \in ServerCodes) /\ (call.at = "total" => call.code # "OK")
      BY <2>3 DEF CallsFit
    <2>5. call.method \in Methods
      BY <2>3 DEF Calls
    <2>6. QED
      BY <2>1, <2>2, <2>4, <2>5
  <1>3. CASE Handle(call)
    <2>1. \E code \in ServerCodes : Step(call, "handled", code)
      BY <1>2, <1>3, ErrorsAssumption DEF Handle, Refused, HandlerCodes, ServerCodes
    <2>2. UNCHANGED <<grpcTotal, grpcErrors>>
      BY <1>3 DEF Handle
    <2>3. QED
      BY <1>2, <2>1, <2>2, StepKeepsIInv
  <1> DEFINE x == <<call.method, call.code>>
  <1>4. CASE CountCall(call)
    <2>1. /\ call.code \in ServerCodes /\ grpcErrors' = grpcErrors
          /\ grpcTotal' = [grpcTotal EXCEPT ![x] = @ + 1]
          /\ Step(call, IF call.code = "OK" THEN "answered" ELSE "total", call.code)
      BY <1>2, <1>4 DEF CountCall
    <2>2. x \in GrpcLabels
      BY <1>2, <2>1 DEF GrpcLabels
    <2>3. call.code = "OK" => Counted(call.method, call.code)' = Counted(call.method, call.code) + 1
      BY <1>2, <2>1, <2>2 DEF Counted
    <2> HIDE DEF x
    <2>4. /\ grpcTotal' \in [GrpcLabels -> Nat]
          /\ \A z \in GrpcLabels : grpcTotal'[z] >= grpcTotal[z] /\ grpcErrors'[z] >= grpcErrors[z]
      BY <1>2, <2>1, <2>2
    <2>5. QED
      BY <1>2, <2>1, <2>3, <2>4, StepKeepsIInv
  <1>5. CASE CountError(call)
    <2>1. /\ call.code \in ServerCodes /\ call.code # "OK" /\ grpcTotal' = grpcTotal
          /\ grpcErrors' = [grpcErrors EXCEPT ![x] = @ + 1]
          /\ Step(call, "answered", call.code)
      BY <1>2, <1>5 DEF CountError
    <2>2. x \in GrpcLabels
      BY <1>2, <2>1 DEF GrpcLabels
    <2>3. Counted(call.method, call.code)' = Counted(call.method, call.code) + 1
      BY <1>2, <2>1, <2>2 DEF Counted
    <2> HIDE DEF x
    <2>4. /\ grpcErrors' \in [GrpcLabels -> Nat]
          /\ \A z \in GrpcLabels : grpcTotal'[z] >= grpcTotal[z] /\ grpcErrors'[z] >= grpcErrors[z]
      BY <1>2, <2>1, <2>2
    <2>5. QED
      BY <1>2, <2>1, <2>3, <2>4, StepKeepsIInv
  <1>6. QED
    BY <1>1, <1>3, <1>4, <1>5

\* A service is started again: its counters start from zero, and the others
\* speak of another process.
LEMMA RestartsKeepIInv ==
    ASSUME IInv, RestartBooking \/ RestartFlight
    PROVE  IInv'
  <1>1. /\ Types /\ \A r \in Requests : RowFits(r, req[r])
        /\ IsFiniteSet(calls) /\ IsFiniteSet(Begun) /\ CallsFit /\ HttpFits /\ CountersFit
        /\ life["booking"] \in Nat \ {0} /\ life["flight"] \in Nat \ {0}
    BY DEF IInv, CallsFit, Types, Services
  <1>2. IsFiniteSet({}) /\ Cardinality({}) = 0
    BY FS_EmptySet
  <1>3. CASE RestartBooking
    <2>1. /\ life' = [life EXCEPT !["booking"] = @ + 1]
          /\ \E k \in Keys : key' = [key EXCEPT !["booking"] = k]
          /\ req' = [r \in Requests |-> Abandoned(req[r])]
          /\ calls' = {call \in calls : call.at # "answered"}
          /\ httpTotal' = [x \in Routes \X Statuses |-> 0] /\ httpErrors' = httpTotal'
          /\ UNCHANGED <<grpcTotal, grpcErrors>>
      BY <1>3 DEF RestartBooking, Start, grpcVars
    <2>2. life'["booking"] = life["booking"] + 1 /\ life'["flight"] = life["flight"]
      BY <1>1, <2>1 DEF Types, Services
    <2>3. ASSUME NEW r \in Requests
          PROVE  /\ req'[r] \in Rows /\ req'[r].at \in {"idle", "counted", "lost"}
                 /\ req[r] = NoRequest => req'[r] = NoRequest
                 /\ req'[r].life # life'["booking"]
                 /\ RowFits(r, req[r])'
                 /\ \A m, code : Rests(req[r], m, code)' => Rests(req[r], m, code)
      <3>1. /\ req[r] \in Rows /\ RowFits(r, req[r]) /\ req'[r] = Abandoned(req[r])
            /\ req[r].life \in Nat
        BY <1>1, <2>1 DEF Types, Rows
      <3>2. CASE req[r].at \in {"received", "call", "store"}
        <4>1. /\ req'[r] \in Rows /\ req'[r].at = "lost" /\ req'[r].status = 0
              /\ req'[r].life = 0 /\ req'[r].from = 0
          BY <3>1, <3>2, BoundsAssumption DEF Abandoned, NoRequest, Rows
        <4>2. QED
          BY <1>1, <2>2, <3>2, <4>1 DEF RowFits, Open, Rests, NoRequest
      <3>3. CASE req[r].at \in {"answered", "total"}
        <4>1. /\ req'[r] \in Rows /\ req'[r].at = "lost" /\ req'[r].status = req[r].status
              /\ req'[r].life = req[r].life /\ req'[r].from = req[r].from
              /\ req'[r].method = req[r].method
          BY <3>1, <3>3 DEF Abandoned, Rows
        <4>2. QED
          BY <1>1, <2>2, <3>1, <3>3, <4>1 DEF RowFits, Open, Rests, NoRequest
      <3>4. CASE req[r].at \in {"idle", "counted", "lost"}
        <4>1. req'[r] = req[r]
          BY <3>1, <3>4 DEF Abandoned
        <4>2. QED
          BY <1>1, <2>2, <3>1, <3>4, <4>1 DEF RowFits, Open, Rests
      <3>5. QED
        BY <3>1, <3>2, <3>3, <3>4 DEF Rows, Open
    <2>4. Types'
      <3>1. req' \in [Requests -> Rows]
        BY <2>1, <2>3
      <3>2. life' \in [Services -> Nat \ {0}] /\ key' \in [Services -> Keys]
        BY <1>1, <2>1 DEF Types, Services
      <3>3. httpTotal' \in [Routes \X Statuses -> Nat] /\ httpErrors' \in [Routes \X Statuses -> Nat]
        BY <2>1
      <3>4. QED
        BY <1>1, <2>1, <3>1, <3>2, <3>3 DEF Types, Rows, Calls, Routes, GrpcLabels
    <2>5. \A r \in Requests : RowFits(r, req[r])'
      BY <2>3
    <2>6. CallsFit' /\ IsFiniteSet(Begun')
      <3>1. Begun' \subseteq Begun /\ calls' \subseteq calls
        BY <2>1, <2>3 DEF Begun
      <3>2. QED
        BY <1>1, <2>1, <3>1, NotLarger DEF CallsFit
    <2>7. HttpFits'
      <3>1. \A r \in Requests : ~ Here(r)'
        BY <2>3 DEF Here
      <3>2. \A places, x : Counting(places, x)' = {}
        BY <3>1 DEF Counting
      <3>3. QED
        BY <1>2, <2>1, <3>2 DEF HttpFits
    <2>8. ASSUME NEW m \in Methods, NEW code \in ServerCodes
          PROVE  (Cardinality(Resting(m, code)) + Cardinality(Answers(m, code)) <= Counted(m, code))'
      <3>1. Resting(m, code)' \subseteq Resting(m, code) /\ Answers(m, code)' \subseteq Answers(m, code)
        BY <2>1, <2>3 DEF Resting, Answers
      <3>2. /\ IsFiniteSet(Resting(m, code)) /\ IsFiniteSet(Answers(m, code))
            /\ Cardinality(Resting(m, code)) + Cardinality(Answers(m, code)) <= Counted(m, code)
            /\ Counted(m, code)' = Counted(m, code) /\ Counted(m, code) \in Nat
        BY <1>1, <2>1, Finite DEF CountersFit, Counted, Types, GrpcLabels
      <3>3. /\ Cardinality(Resting(m, code)') <= Cardinality(Resting(m, code))
            /\ Cardinality(Resting(m, code)') \in Nat /\ Cardinality(Resting(m, code)) \in Nat
        BY <3>1, <3>2, NotLarger
      <3>4. /\ Cardinality(Answers(m, code)') <= Cardinality(Answers(m, code))
            /\ Cardinality(Answers(m, code)') \in Nat /\ Cardinality(Answers(m, code)) \in Nat
        BY <3>1, <3>2, NotLarger
      <3>5. QED
        BY <3>2, <3>3, <3>4
    <2>9. QED
      BY <2>4, <2>5, <2>6, <2>7, <2>8 DEF IInv, CountersFit
  <1>4. CASE RestartFlight
    <2>1. /\ life' = [life EXCEPT !["flight"] = @ + 1]
          /\ \E k \in Keys : key' = [key EXCEPT !["flight"] = k]
          /\ calls' = {} /\ grpcTotal' = [x \in GrpcLabels |-> 0] /\ grpcErrors' = grpcTotal'
          /\ UNCHANGED <<req, httpTotal, httpErrors>>
      BY <1>4 DEF RestartFlight, Start, httpVars
    <2>2. life'["flight"] = life["flight"] + 1 /\ life'["booking"] = life["booking"]
      BY <1>1, <2>1 DEF Types, Services
    <2>3. Types'
      <3>1. life' \in [Services -> Nat \ {0}] /\ key' \in [Services -> Keys]
        BY <1>1, <2>1 DEF Types, Services
      <3>2. QED
        BY <1>1, <2>1, <3>1 DEF Types, Rows, Calls, Routes, GrpcLabels
    <2>4. ASSUME NEW r \in Requests PROVE RowFits(r, req[r])'
      <3>1. req[r].from \in Nat /\ req[r].from <= life["flight"]
        BY <1>1 DEF Types, Rows, RowFits
      <3>2. QED
        BY <1>1, <2>1, <2>2, <3>1 DEF RowFits
    <2>5. CallsFit' /\ IsFiniteSet(Begun')
      BY <1>1, <1>2, <2>1 DEF CallsFit, Begun
    <2>6. HttpFits'
      <3>1. \A r \in Requests : Here(r)' <=> Here(r)
        BY <2>1, <2>2 DEF Here
      <3>2. \A places, x : Counting(places, x)' = Counting(places, x)
        BY <2>1, <3>1 DEF Counting
      <3>3. QED
        BY <1>1, <2>1, <3>2 DEF HttpFits
    <2>7. CountersFit'
      <3>1. \A r \in Requests : req'[r].from # life'["flight"]
        BY <1>1, <2>1, <2>2 DEF RowFits, Types, Rows
      <3>2. \A m, code : Resting(m, code)' = {} /\ Answers(m, code)' = {}
        BY <2>1, <3>1 DEF Resting, Rests, Answers
      <3>3. \A m \in Methods, code \in ServerCodes : Counted(m, code)' = 0
        BY <2>1 DEF Counted, GrpcLabels
      <3>4. \A m, code : Cardinality(Resting(m, code)') = 0 /\ Cardinality(Answers(m, code)') = 0
        BY <1>2, <3>2
      <3>5. QED
        BY <3>3, <3>4 DEF CountersFit
    <2>8. QED
      BY <2>3, <2>4, <2>5, <2>6, <2>7 DEF IInv
  <1>5. QED
    BY <1>3, <1>4

LEMMA StutterKeepsIInv ==
    ASSUME IInv, UNCHANGED vars
    PROVE  IInv'
  <1>1. UNCHANGED <<req, calls, httpTotal, httpErrors, grpcTotal, grpcErrors, key, life>>
    BY DEF vars
  <1>2. Types' /\ CallsFit' /\ IsFiniteSet(Begun')
    BY <1>1 DEF IInv, Types, CallsFit, Begun, Rows, Calls
  <1>3. \A r \in Requests : RowFits(r, req[r])'
    BY <1>1 DEF IInv, RowFits
  <1>4. HttpFits'
    <2>1. \A places, x : Counting(places, x)' = Counting(places, x)
      BY <1>1 DEF Counting, Here
    <2>2. QED
      BY <1>1, <2>1 DEF IInv, HttpFits
  <1>5. \A m, code : /\ Resting(m, code)' = Resting(m, code) /\ Answers(m, code)' = Answers(m, code)
                     /\ Counted(m, code)' = Counted(m, code)
    BY <1>1 DEF Resting, Rests, Answers, Counted
  <1>6. CountersFit'
    BY <1>5 DEF IInv, CountersFit
  <1>7. QED
    BY <1>2, <1>3, <1>4, <1>6 DEF IInv

LEMMA NextIInv == IInv /\ [Next]_vars => IInv'
  <1> SUFFICES ASSUME IInv, [Next]_vars PROVE IInv'
    OBVIOUS
  <1>1. ASSUME NEW r \in Requests, Receive(r) \/ Serve(r) \/ LoseAttempt(r) \/ Canceled(r)
        PROVE  IInv'
    BY <1>1, ReceiveKeepsIInv, BeginKeepsIInv, TakeAnswerKeepsIInv, StoreKeepsIInv,
       CountKeepsIInv, LossKeepsIInv DEF Serve
  <1>2. QED
    BY <1>1, FlightKeepsIInv, RestartsKeepIInv, StutterKeepsIInv DEF Next

----------------------------------------------------------------------------
(* What follows from it.                                                    *)

\* The counters are tied to the requests and the calls by every step.
THEOREM Inductive == Spec => []IInv
  BY InitIInv, NextIInv, PTL DEF Spec

\* Requests, calls and counters keep their types.
THEOREM TypeCorrect == Spec => []TypeOK
  <1>1. IInv => TypeOK
    BY DEF IInv, Types, TypeOK, Rows, Calls, RowFits, Open
  <1>2. QED
    BY <1>1, Inductive, PTL

\* Every request since the start is counted once, and every failure.
THEOREM RequestsAreCounted == Spec => []HttpCounted
  <1>1. IInv => HttpCounted
    <2> SUFFICES ASSUME IInv, NEW x \in Routes \X Statuses
                 PROVE  /\ httpTotal[x] = Cardinality(Counting({"total", "counted"}, x))
                        /\ httpErrors[x] = IF x[2] >= 400 THEN Cardinality(Counting({"counted"}, x))
                                           ELSE 0
      BY DEF HttpCounted, Counting, IInv, Types
    <2>1. QED
      BY DEF IInv, HttpFits
  <1>2. QED
    BY <1>1, Inductive, PTL

\* Every status that clients are given because of an answer of the running
\* flight service, its counters know already, by method and code.
THEOREM AnswersAreCounted == Spec => []AnswersBacked
  <1> DEFINE Told(m, status) == {r \in Requests :
                req[r].from = life["flight"] /\ req[r].method = m /\ req[r].status = status}
  <1>1. ASSUME IInv, NEW m \in Methods, NEW code \in ServerCodes, NEW status,
               status = StatusOf(m, code)
        PROVE  Cardinality(Told(m, status)) <= Counted(m, code)
    <2>1. Told(m, status) \subseteq Resting(m, code)
      BY <1>1 DEF Resting, Rests
    <2>2. /\ IsFiniteSet(Resting(m, code)) /\ IsFiniteSet(Answers(m, code))
          /\ Cardinality(Resting(m, code)) + Cardinality(Answers(m, code)) <= Counted(m, code)
          /\ Counted(m, code) \in Nat
      BY <1>1, Finite DEF IInv, CountersFit, Types, Counted, GrpcLabels
    <2>3. /\ Cardinality(Told(m, status)) <= Cardinality(Resting(m, code))
          /\ Cardinality(Told(m, status)) \in Nat /\ Cardinality(Resting(m, code)) \in Nat
      BY <2>1, <2>2, NotLarger
    <2>4. Cardinality(Answers(m, code)) \in Nat
      BY <2>2, FS_CardinalityType
    <2>5. QED
      BY <2>2, <2>3, <2>4
  <1>2. ASSUME IInv, NEW m \in Methods, NEW status \in {201, 204},
               ~ (status = 201 /\ m = "ReserveSeats"),
               ~ (status = 204 /\ m = "ReleaseReservation")
        PROVE  Cardinality(Told(m, status)) <= 0
    <2>1. Told(m, status) = {}
      BY <1>2 DEF IInv, RowFits, Types, Services
    <2> HIDE DEF Told
    <2>2. QED
      BY <2>1, FS_EmptySet
  <1>3. /\ \A m \in Methods : /\ StatusOf(m, "Unauthenticated") = 401 /\ StatusOf(m, "NotFound") = 404
                              /\ StatusOf(m, "ResourceExhausted") = 409
                              /\ StatusOf(m, "Internal") = 502
        /\ StatusOf("ReserveSeats", "OK") = 201 /\ StatusOf("ReleaseReservation", "OK") = 204
        /\ {"OK", "Unauthenticated", "NotFound", "ResourceExhausted", "Internal"} \subseteq ServerCodes
    BY DEF StatusOf, statusToHTTP, ServerCodes
  <1>4. ASSUME IInv, NEW m \in Methods
        PROVE  /\ Cardinality(Told(m, 401)) <= grpcErrors[<<m, "Unauthenticated">>]
               /\ Cardinality(Told(m, 404)) <= grpcErrors[<<m, "NotFound">>]
               /\ Cardinality(Told(m, 409)) <= grpcErrors[<<m, "ResourceExhausted">>]
               /\ Cardinality(Told(m, 502)) <= grpcErrors[<<m, "Internal">>]
               /\ Cardinality(Told(m, 201))
                    <= IF m = "ReserveSeats" THEN grpcTotal[<<m, "OK">>] ELSE 0
               /\ Cardinality(Told(m, 204))
                    <= IF m = "ReleaseReservation" THEN grpcTotal[<<m, "OK">>] ELSE 0
    <2> HIDE DEF Told
    <2>1. /\ Cardinality(Told(m, 401)) <= Counted(m, "Unauthenticated")
          /\ Cardinality(Told(m, 404)) <= Counted(m, "NotFound")
          /\ Cardinality(Told(m, 409)) <= Counted(m, "ResourceExhausted")
          /\ Cardinality(Told(m, 502)) <= Counted(m, "Internal")
      BY <1>1, <1>3, <1>4
    <2>2. /\ m = "ReserveSeats" => Cardinality(Told(m, 201)) <= Counted(m, "OK")
          /\ m = "ReleaseReservation" => Cardinality(Told(m, 204)) <= Counted(m, "OK")
      BY <1>1, <1>3, <1>4
    <2>3. /\ m # "ReserveSeats" => Cardinality(Told(m, 201)) <= 0
          /\ m # "ReleaseReservation" => Cardinality(Told(m, 204)) <= 0
      BY <1>2, <1>4
    <2>4. QED
      BY <2>1, <2>2, <2>3 DEF Counted
  <1>5. IInv => AnswersBacked
    BY <1>4 DEF AnswersBacked
  <1>6. QED
    BY <1>5, Inductive, PTL
=============================================================================
