----------------------------- MODULE FlightCache -----------------------------
(***************************************************************************)
(* The cache-aside reads of the flight service, GetFlight and              *)
(* SearchFlights, against its mutations (hw7/cmd/flight/main.go:138-188,   *)
(* 226-229, 261-270; hw3/cmd/flight/main.go has the same handlers), for    *)
(* one flight and the one search that returns it.                          *)
(* A mutation commits in PostgreSQL, then deletes the Redis key of the     *)
(* flight; a read that misses queries PostgreSQL, then sets its key.       *)
(* Nothing makes the two steps of either atomic, every Redis error is      *)
(* ignored, and the key of the search is never deleted.                    *)
(*                                                                         *)
(* Only freshness is modelled: the n-th committed state of the flight is   *)
(* the number n, and commits[n] is when it was committed.  A list that      *)
(* breaks off is kept apart, as not whole.                                 *)
(***************************************************************************)
EXTENDS Integers, Sequences

CONSTANTS
    Gets,         \* calls of GetFlight
    Searches,     \* calls of SearchFlights
    Mutations,    \* calls of ReserveSeats or ReleaseReservation that commit
    TTL,          \* 5*time.Minute
    Timeout,      \* in what time a GetFlight has done all it ever does: the 2s
                  \* of retryCall, and what a command it started may take
    RedisFails,   \* whether a Redis command may fail
    MaxTime       \* bound of the clock

ASSUME TimesAssumption == TTL \in Nat \ {0} /\ Timeout \in Nat /\ MaxTime \in Nat
ASSUME RedisAssumption == RedisFails \in BOOLEAN

Reads == Gets \cup Searches

\* A call is of one method.
ASSUME CallsAssumption == Reads \cap Mutations = {}

Keys == {"flight", "search"}
KeyOf(r) == IF r \in Gets THEN "flight" ELSE "search"

VARIABLES
    now,       \* the clock
    commits,   \* commit times of the mutations, in order
    cache,     \* what Redis holds: a value and when it expires
    pc,        \* how far a call is
    began,     \* when a read missed
    until,     \* when the TTL of what a read has set is over
    got        \* the state of the flight a read has seen, and if all of it

vars == <<now, commits, cache, pc, began, until, got>>

Version == Len(commits)

Seen(v, whole) == [value |-> v, whole |-> whole]

NoEntry == [seen |-> Seen(0, TRUE), expires |-> 0]

\* Redis serves an entry until its TTL is over.
Live(k) == now < cache[k].expires

Init ==
    /\ now = 0
    /\ commits = << >>
    /\ cache = [k \in Keys |-> NoEntry]
    /\ pc = [c \in Reads \cup Mutations |-> "idle"]
    /\ began = [c \in Reads |-> 0]
    /\ until = [c \in Reads |-> 0]
    /\ got = [c \in Reads |-> Seen(0, TRUE)]

\* Mutant of InTime: a GetFlight without a deadline.
AlwaysInTime(r) == TRUE

\* GetFlight is called with the deadline of retryCall, and a pgx or go-redis
\* command only starts while its context lives.  Nothing sets a deadline for a
\* search: its steps may come at any time.
InTime(r) == r \in Gets => now <= began[r] + Timeout

Goto(c, where) == pc' = [pc EXCEPT ![c] = where]

\* A read that has set nothing ends: began is of no use any more.
EndUnset(r, how) == Goto(r, how) /\ began' = [began EXCEPT ![r] = 0]

----------------------------------------------------------------------------
(* GetFlight and SearchFlights.                                            *)

Hit(r) ==
    /\ pc[r] = "idle"
    /\ Live(KeyOf(r))
    /\ got' = [got EXCEPT ![r] = cache[KeyOf(r)].seen]
    /\ Goto(r, "answered")
    /\ UNCHANGED <<now, commits, cache, began, until>>

\* redis.Get finds nothing, or fails: both are a miss.
Miss(r) ==
    /\ pc[r] = "idle"
    /\ ~ Live(KeyOf(r)) \/ RedisFails
    /\ began' = [began EXCEPT ![r] = now]
    /\ Goto(r, "missed")
    /\ UNCHANGED <<now, commits, cache, until, got>>

Query(r) ==
    /\ pc[r] = "missed"
    /\ InTime(r)
    /\ got' = [got EXCEPT ![r] = Seen(Version, TRUE)]
    /\ Goto(r, "queried")
    /\ UNCHANGED <<now, commits, cache, began, until>>

\* The connection is lost while SearchFlights reads the rows.  rows.Err() is
\* not looked at, so what was read passes for the whole list.
QueryBreaks(r) ==
    /\ pc[r] = "missed"
    /\ r \in Searches
    /\ got' = [got EXCEPT ![r] = Seen(Version, FALSE)]
    /\ Goto(r, "queried")
    /\ UNCHANGED <<now, commits, cache, began, until>>

\* The query or its scan fails, in time or too late: answered Internal.
QueryFails(r) ==
    /\ pc[r] = "missed"
    /\ EndUnset(r, "gone")
    /\ UNCHANGED <<now, commits, cache, until, got>>

\* Mutant of Fill: redis.Set without a TTL, an entry that never expires.
FillForEver(r) ==
    /\ pc[r] = "queried"
    /\ InTime(r)
    /\ cache' = [cache EXCEPT ![KeyOf(r)] = [seen |-> got[r], expires |-> MaxTime + TTL + 1]]
    /\ until' = [until EXCEPT ![r] = now + TTL]
    /\ Goto(r, "answered")
    /\ UNCHANGED <<now, commits, began, got>>

\* redis.Set with its TTL, then the answer.
Fill(r) ==
    /\ pc[r] = "queried"
    /\ InTime(r)
    /\ cache' = [cache EXCEPT ![KeyOf(r)] = [seen |-> got[r], expires |-> now + TTL]]
    /\ until' = [until EXCEPT ![r] = now + TTL]
    /\ Goto(r, "answered")
    /\ UNCHANGED <<now, commits, began, got>>

\* redis.Set fails and nobody looks: the answer is given all the same.
FillFails(r) ==
    /\ pc[r] = "queried"
    /\ InTime(r)
    /\ RedisFails
    /\ EndUnset(r, "answered")
    /\ UNCHANGED <<now, commits, cache, until, got>>

\* The deadline passes before the Set: nothing is set, nobody waits.
Expire(r) ==
    /\ pc[r] = "queried"
    /\ ~ InTime(r)
    /\ EndUnset(r, "gone")
    /\ UNCHANGED <<now, commits, cache, until, got>>

----------------------------------------------------------------------------
(* ReserveSeats and ReleaseReservation, from their commit on.              *)

Commit(m) ==
    /\ pc[m] = "idle"
    /\ commits' = Append(commits, now)
    /\ Goto(m, "committed")
    /\ UNCHANGED <<now, cache, began, until, got>>

\* invalidate deletes the flight's key, and no other.
Invalidate(m) ==
    /\ pc[m] = "committed"
    /\ cache' = [cache EXCEPT !["flight"] = NoEntry]
    /\ Goto(m, "answered")
    /\ UNCHANGED <<now, commits, began, until, got>>

\* redis.Del fails and nobody looks, or the process stopped after its commit.
InvalidateFails(m) ==
    /\ pc[m] = "committed"
    /\ RedisFails
    /\ Goto(m, "answered")
    /\ UNCHANGED <<now, commits, cache, began, until, got>>

Tick ==
    /\ now < MaxTime
    /\ now' = now + 1
    /\ UNCHANGED <<commits, cache, pc, began, until, got>>

Read(r) ==
    \/ Hit(r) \/ Miss(r) \/ Query(r) \/ QueryBreaks(r) \/ QueryFails(r)
    \/ Fill(r) \/ FillFails(r) \/ Expire(r)

Mutate(m) == Commit(m) \/ Invalidate(m) \/ InvalidateFails(m)

Next == Tick \/ (\E r \in Reads : Read(r)) \/ (\E m \in Mutations : Mutate(m))

Spec == Init /\ [][Next]_vars
----------------------------------------------------------------------------
Views == [value : 0 .. Version, whole : BOOLEAN]

TypeOK ==
    /\ now \in 0 .. MaxTime
    /\ commits \in Seq(0 .. MaxTime)
    /\ cache \in [Keys -> [seen : Views, expires : 0 .. MaxTime + TTL]]
    /\ pc \in [Reads \cup Mutations ->
                 {"idle", "missed", "queried", "committed", "answered", "gone"}]
    /\ began \in [Reads -> 0 .. MaxTime]
    /\ until \in [Reads -> 0 .. MaxTime + TTL]
    /\ got \in [Reads -> Views]

\* State v of the flight was still the committed one at time t.
CurrentAt(v, t) == v = Version \/ commits[v + 1] >= t

\* However reads and mutations interleave and whatever Redis loses, GetFlight
\* answers a state of the flight no older than the TTL of an entry and the call
\* that set it (main.go:167-188): all the freshness its cache has.
StalenessBounded ==
    [][\A r \in Gets :
         pc[r] # "answered" /\ pc'[r] = "answered" =>
             CurrentAt(got'[r].value, now - (TTL + Timeout))]_vars

\* A read, of either method, answers what it has queried itself or what a read
\* of the same method set less than a TTL ago, and that was the state of the
\* flight at some time since that read missed (main.go:138-188).  A search may
\* be on its way for any time, so its Set may bring a state of any age: this
\* bounds how long that state, or a list that broke off, is answered again.
AnswersBounded ==
    [][\A r \in Reads :
         pc[r] # "answered" /\ pc'[r] = "answered" =>
             \E s \in Reads :
                 /\ KeyOf(s) = KeyOf(r)
                 /\ got[s] = got'[r] /\ CurrentAt(got[s].value, began[s])
                 /\ (s = r /\ pc[r] = "queried") \/ now < until[s]]_vars
============================================================================
