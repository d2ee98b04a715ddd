-------------------------- MODULE FlightCacheProofs --------------------------
(***************************************************************************)
(* Theorems about FlightCache: how old an answer of GetFlight can be, and  *)
(* where the answers of both methods come from.                            *)
(***************************************************************************)
EXTENDS FlightCache, TLAPS

----------------------------------------------------------------------------
(* The inductive invariant.                                                 *)

\* A read on its way has begun, and has queried after that.
ReadFits(r) ==
    /\ pc[r] \in {"missed", "queried"} => began[r] <= now
    /\ pc[r] = "queried" => CurrentAt(got[r].value, began[r])

\* The entry k is the one s has set: what s had queried since it began, and if s
\* is a GetFlight, no more than a Timeout after it began.
Supplies(s, k) ==
    /\ KeyOf(s) = k /\ pc[s] = "answered"
    /\ got[s] = cache[k].seen /\ until[s] = cache[k].expires
    /\ began[s] <= now /\ CurrentAt(got[s].value, began[s])
    /\ s \in Gets => until[s] <= began[s] + Timeout + TTL

EntryFits(k) == cache[k].expires # 0 => \E s \in Reads : Supplies(s, k)

IInv ==
    /\ TypeOK
    /\ \A r \in Reads : ReadFits(r)
    /\ \A k \in Keys : EntryFits(k)

\* Of an earlier time it holds as well.
LEMMA CurrentEarlier ==
    ASSUME TypeOK, NEW v \in 0 .. Version, NEW t \in Int, NEW s \in Int, s <= t, CurrentAt(v, t)
    PROVE  CurrentAt(v, s)
  <1>1. commits \in Seq(0 .. MaxTime) /\ Version \in Nat
    BY DEF TypeOK, Version
  <1>2. v # Version => commits[v + 1] \in Int
    BY <1>1, TimesAssumption DEF Version
  <1>3. QED
    BY <1>1, <1>2 DEF CurrentAt

\* A mutation that commits now makes nothing older than now.
LEMMA CurrentAfterCommit ==
    ASSUME TypeOK, NEW v \in 0 .. Version, NEW t \in Int, t <= now, CurrentAt(v, t),
           commits' = Append(commits, now)
    PROVE  CurrentAt(v, t)'
  <1>1. commits \in Seq(0 .. MaxTime) /\ now \in Int /\ Version \in Nat
    BY TimesAssumption DEF TypeOK, Version
  <1>2. /\ Version' = Version + 1 /\ commits'[Version + 1] = now
        /\ \A i \in 1 .. Version : commits'[i] = commits[i]
    BY <1>1 DEF Version
  <1>3. CASE v = Version
    BY <1>1, <1>2, <1>3 DEF CurrentAt
  <1>4. CASE v # Version
    <2>1. v + 1 \in 1 .. Version
      BY <1>1, <1>4
    <2>2. QED
      BY <1>1, <1>2, <1>4, <2>1 DEF CurrentAt
  <1>5. QED
    BY <1>3, <1>4

LEMMA InitIInv == Init => IInv
  <1> SUFFICES ASSUME Init PROVE IInv
    OBVIOUS
  <1>1. Version = 0 /\ commits = << >>
    BY DEF Init, Version
  <1>2. TypeOK
    <2>1. NoEntry \in [seen : Views, expires : 0 .. MaxTime + TTL]
      BY <1>1, TimesAssumption DEF NoEntry, Seen, Views
    <2>2. cache \in [Keys -> [seen : Views, expires : 0 .. MaxTime + TTL]]
      BY <2>1 DEF Init
    <2>3. began \in [Reads -> 0 .. MaxTime] /\ until \in [Reads -> 0 .. MaxTime + TTL]
      BY TimesAssumption DEF Init
    <2>4. got \in [Reads -> Views]
      BY <1>1 DEF Init, Seen, Views
    <2>5. now \in 0 .. MaxTime /\ commits \in Seq(0 .. MaxTime)
      BY <1>1, TimesAssumption DEF Init
    <2>6. pc \in [Reads \cup Mutations ->
                    {"idle", "missed", "queried", "committed", "answered", "gone"}]
      BY DEF Init
    <2>7. QED
      BY <2>2, <2>3, <2>4, <2>5, <2>6 DEF TypeOK
  <1>3. \A r \in Reads : ReadFits(r)
    BY DEF Init, ReadFits
  <1>4. \A k \in Keys : EntryFits(k)
    BY DEF Init, EntryFits, NoEntry
  <1>5. QED
    BY <1>2, <1>3, <1>4 DEF IInv

----------------------------------------------------------------------------
(* Every step keeps it.                                                     *)

\* The time passes.
LEMMA TickKeepsIInv == ASSUME IInv, Tick PROVE IInv'
  <1>1. /\ UNCHANGED <<commits, cache, pc, began, until, got>>
        /\ now \in 0 .. MaxTime /\ now' = now + 1 /\ now < MaxTime
    BY DEF Tick, IInv, TypeOK
  <1>2. Version' = Version /\ Views' = Views
    BY <1>1 DEF Version, Views
  <1>3. TypeOK'
    BY <1>1, <1>2, TimesAssumption DEF IInv, TypeOK
  <1>4. \A r \in Reads : began[r] \in Int
    BY TimesAssumption DEF IInv, TypeOK
  <1>5. \A r \in Reads : ReadFits(r)'
    BY <1>1, <1>2, <1>4, TimesAssumption DEF IInv, ReadFits, CurrentAt
  <1>6. \A s \in Reads, k \in Keys : Supplies(s, k) => Supplies(s, k)'
    BY <1>1, <1>2, <1>4, TimesAssumption DEF Supplies, CurrentAt
  <1>7. \A k \in Keys : EntryFits(k)'
    BY <1>1, <1>6 DEF IInv, EntryFits
  <1>8. QED
    BY <1>3, <1>5, <1>7 DEF IInv

\* A read goes on, with what it has got; what it sets, it supplies.
LEMMA ReadKeepsIInv ==
    ASSUME IInv, NEW r \in Reads, pc[r] # "answered",
           NEW where \in {"missed", "queried", "answered", "gone"}, NEW seen \in Views,
           NEW b \in 0 .. MaxTime, NEW u \in 0 .. MaxTime + TTL,
           pc' = [pc EXCEPT ![r] = where], got' = [got EXCEPT ![r] = seen],
           began' = [began EXCEPT ![r] = b], until' = [until EXCEPT ![r] = u],
           UNCHANGED <<now, commits>>,
           where \in {"missed", "queried"} => b <= now,
           where = "queried" => CurrentAt(seen.value, b),
           \/ cache' = cache
           \/ /\ cache' = [cache EXCEPT ![KeyOf(r)] = [seen |-> seen, expires |-> u]]
              /\ where = "answered" /\ b <= now /\ CurrentAt(seen.value, b)
              /\ r \in Gets => u <= b + Timeout + TTL
    PROVE  IInv'
  <1>1. /\ TypeOK /\ now \in 0 .. MaxTime /\ KeyOf(r) \in Keys
        /\ got \in [Reads -> Views] /\ began \in [Reads -> 0 .. MaxTime]
        /\ until \in [Reads -> 0 .. MaxTime + TTL]
        /\ cache \in [Keys -> [seen : Views, expires : 0 .. MaxTime + TTL]]
        /\ pc \in [Reads \cup Mutations ->
                     {"idle", "missed", "queried", "committed", "answered", "gone"}]
    BY DEF IInv, TypeOK, Keys, KeyOf
  <1>2. /\ Version' = Version /\ Views' = Views
        /\ \A v, t : CurrentAt(v, t)' <=> CurrentAt(v, t)
    BY DEF Version, Views, CurrentAt
  <1>3. TypeOK'
    <2>1. cache' \in [Keys -> [seen : Views, expires : 0 .. MaxTime + TTL]]
      BY <1>1
    <2>2. /\ got' \in [Reads -> Views] /\ began' \in [Reads -> 0 .. MaxTime]
          /\ until' \in [Reads -> 0 .. MaxTime + TTL]
      BY <1>1
    <2>3. pc' \in [Reads \cup Mutations ->
                     {"idle", "missed", "queried", "committed", "answered", "gone"}]
      BY <1>1
    <2>4. QED
      BY <1>1, <1>2, <2>1, <2>2, <2>3 DEF TypeOK
  <1>4. /\ pc'[r] = where /\ got'[r] = seen /\ began'[r] = b /\ until'[r] = u
        /\ \A q \in Reads : q # r => UNCHANGED <<pc[q], got[q], began[q], until[q]>>
    BY <1>1
  <1>5. \A q \in Reads : ReadFits(q)'
    BY <1>2, <1>4 DEF IInv, ReadFits
  <1>6. ASSUME NEW k \in Keys PROVE EntryFits(k)'
    <2>1. CASE cache'[k] = cache[k]
      <3>1. ASSUME NEW s \in Reads, Supplies(s, k) PROVE Supplies(s, k)'
        BY <1>2, <1>4, <2>1, <3>1 DEF Supplies
      <3>2. QED
        BY <2>1, <3>1 DEF IInv, EntryFits
    <2>2. CASE cache'[k] # cache[k]
      <3>1. /\ k = KeyOf(r) /\ cache'[k] = [seen |-> seen, expires |-> u]
            /\ where = "answered" /\ b <= now /\ CurrentAt(seen.value, b)
            /\ r \in Gets => u <= b + Timeout + TTL
        BY <1>1, <2>2
      <3>2. Supplies(r, k)'
        BY <1>2, <1>4, <3>1 DEF Supplies
      <3>3. QED
        BY <3>2 DEF EntryFits
    <2>3. QED
      BY <2>1, <2>2
  <1>7. QED
    BY <1>3, <1>5, <1>6 DEF IInv

LEMMA ReadsKeepIInv == ASSUME IInv, NEW r \in Reads, Read(r) PROVE IInv'
  <1>1. /\ TypeOK /\ now \in 0 .. MaxTime /\ KeyOf(r) \in Keys /\ Version \in Nat
        /\ got \in [Reads -> Views] /\ began \in [Reads -> 0 .. MaxTime]
        /\ until \in [Reads -> 0 .. MaxTime + TTL]
        /\ cache \in [Keys -> [seen : Views, expires : 0 .. MaxTime + TTL]]
    BY DEF IInv, TypeOK, Keys, KeyOf, Version
  <1>2. /\ got[r] \in Views /\ began[r] \in 0 .. MaxTime /\ until[r] \in 0 .. MaxTime + TTL
        /\ got = [got EXCEPT ![r] = got[r]] /\ began = [began EXCEPT ![r] = began[r]]
        /\ until = [until EXCEPT ![r] = until[r]] /\ cache[KeyOf(r)].seen \in Views
        /\ 0 \in 0 .. MaxTime /\ now + TTL \in 0 .. MaxTime + TTL
        /\ \A whole \in BOOLEAN : Seen(Version, whole) \in Views
    BY <1>1, TimesAssumption DEF Seen, Views
  <1>3. ReadFits(r) /\ pc[r] # "answered"
    BY DEF IInv, Read, Hit, Miss, Query, QueryBreaks, QueryFails, Fill, FillFails, Expire
  <1>4. CASE Hit(r)
    BY <1>2, <1>3, <1>4, ReadKeepsIInv DEF Hit, Goto
  <1>5. CASE Miss(r)
    <2>1. now <= now
      BY <1>1, TimesAssumption
    <2>2. QED
      BY <1>1, <1>2, <1>3, <1>5, <2>1, ReadKeepsIInv DEF Miss, Goto
  <1>6. CASE Query(r) \/ QueryBreaks(r)
    <2>1. PICK seen \in Views : seen.value = Version /\ got' = [got EXCEPT ![r] = seen]
      BY <1>2, <1>6 DEF Query, QueryBreaks, Seen
    <2>2. /\ pc' = [pc EXCEPT ![r] = "queried"] /\ UNCHANGED <<now, commits, cache, began, until>>
          /\ began[r] <= now /\ CurrentAt(seen.value, began[r])
      BY <1>3, <1>6, <2>1 DEF Query, QueryBreaks, Goto, ReadFits, CurrentAt
    <2>3. QED
      BY <1>2, <1>3, <2>1, <2>2, ReadKeepsIInv
  <1>7. CASE QueryFails(r) \/ FillFails(r) \/ Expire(r)
    BY <1>2, <1>3, <1>7, ReadKeepsIInv DEF QueryFails, FillFails, Expire, EndUnset, Goto
  <1>8. CASE Fill(r)
    <2>1. /\ UNCHANGED <<now, commits, began, got>> /\ pc' = [pc EXCEPT ![r] = "answered"]
          /\ until' = [until EXCEPT ![r] = now + TTL]
          /\ cache' = [cache EXCEPT ![KeyOf(r)] = [seen |-> got[r], expires |-> now + TTL]]
          /\ began[r] <= now /\ CurrentAt(got[r].value, began[r])
      BY <1>3, <1>8 DEF Fill, Goto, ReadFits
    <2>2. r \in Gets => now + TTL <= began[r] + Timeout + TTL
      BY <1>1, <1>2, <1>8, TimesAssumption DEF Fill, InTime
    <2>3. QED
      BY <1>2, <1>3, <2>1, <2>2, ReadKeepsIInv
  <1>9. QED
    BY <1>4, <1>5, <1>6, <1>7, <1>8 DEF Read

LEMMA MutationsKeepIInv == ASSUME IInv, NEW m \in Mutations, Mutate(m) PROVE IInv'
  <1>1. /\ TypeOK /\ now \in 0 .. MaxTime
        /\ commits \in Seq(0 .. MaxTime) /\ Version \in Nat
        /\ got \in [Reads -> Views] /\ began \in [Reads -> 0 .. MaxTime]
        /\ until \in [Reads -> 0 .. MaxTime + TTL]
        /\ cache \in [Keys -> [seen : Views, expires : 0 .. MaxTime + TTL]]
    BY DEF IInv, TypeOK, Version
  <1>2. /\ UNCHANGED <<now, began, until, got>>
        /\ \A r \in Reads : pc'[r] = pc[r]
        /\ pc' \in [Reads \cup Mutations ->
                      {"idle", "missed", "queried", "committed", "answered", "gone"}]
        /\ \/ commits' = Append(commits, now) /\ cache' = cache
           \/ commits' = commits /\ cache' = cache
           \/ commits' = commits /\ cache' = [cache EXCEPT !["flight"] = NoEntry]
    BY <1>1, CallsAssumption DEF TypeOK, Mutate, Commit, Invalidate, InvalidateFails, Goto
  <1>3. ASSUME NEW v \in 0 .. Version, NEW t \in Int, t <= now, CurrentAt(v, t)
        PROVE  CurrentAt(v, t)'
    <2>1. CASE commits' = Append(commits, now)
      BY <1>1, <1>3, <2>1, CurrentAfterCommit
    <2>2. CASE commits' = commits
      BY <1>3, <2>2 DEF CurrentAt, Version
    <2>3. QED
      BY <1>2, <2>1, <2>2
  <1>4. TypeOK'
    <2>1. commits' \in Seq(0 .. MaxTime) /\ Version' \in Nat /\ Version <= Version'
      <3>1. CASE commits' = Append(commits, now)
        BY <1>1, <3>1 DEF Version
      <3>2. CASE commits' = commits
        BY <1>1, <3>2 DEF Version
      <3>3. QED
        BY <1>2, <3>1, <3>2
    <2>2. Views \subseteq Views' /\ NoEntry \in [seen : Views, expires : 0 .. MaxTime + TTL]
      BY <1>1, <2>1, TimesAssumption DEF Views, NoEntry, Seen
    <2>3. cache' \in [Keys -> [seen : Views, expires : 0 .. MaxTime + TTL]]
      BY <1>1, <1>2, <2>2
    <2>4. QED
      BY <1>1, <1>2, <2>1, <2>2, <2>3 DEF TypeOK
  <1>5. ASSUME NEW r \in Reads PROVE ReadFits(r)'
    <2>1. began[r] \in Int /\ got[r].value \in 0 .. Version
      BY <1>1, TimesAssumption DEF Views
    <2>2. QED
      BY <1>2, <1>3, <2>1 DEF IInv, ReadFits
  <1>6. ASSUME NEW k \in Keys PROVE EntryFits(k)'
    <2>1. CASE cache'[k] = cache[k]
      <3>1. ASSUME NEW s \in Reads, Supplies(s, k) PROVE Supplies(s, k)'
        <4>1. began[s] \in Int /\ got[s].value \in 0 .. Version
          BY <1>1, TimesAssumption DEF Views
        <4>2. CurrentAt(got[s].value, began[s])'
          BY <1>2, <1>3, <3>1, <4>1 DEF Supplies
        <4>3. QED
          BY <1>2, <2>1, <3>1, <4>2 DEF Supplies
      <3>2. QED
        BY <2>1, <3>1 DEF IInv, EntryFits
    <2>2. CASE cache'[k] # cache[k]
      <3>1. cache'[k] = NoEntry
        BY <1>1, <1>2, <2>2
      <3>2. QED
        BY <3>1 DEF EntryFits, NoEntry
    <2>3. QED
      BY <2>1, <2>2
  <1>7. QED
    BY <1>4, <1>5, <1>6 DEF IInv

LEMMA NextIInv == IInv /\ [Next]_vars => IInv'
  <1>1. ASSUME IInv, UNCHANGED vars PROVE IInv'
    BY <1>1 DEF vars, IInv, TypeOK, ReadFits, EntryFits, Supplies, CurrentAt, Views, Version
  <1>2. QED
    BY <1>1, TickKeepsIInv, ReadsKeepIInv, MutationsKeepIInv DEF Next

----------------------------------------------------------------------------
(* What follows from it.                                                    *)

\* However reads, mutations and the clock interleave and whatever Redis loses,
\* an entry is what one read queried since it missed, and expires with the TTL
\* of that read's Set.
THEOREM Inductive == Spec => []IInv
  BY InitIInv, NextIInv, PTL DEF Spec

\* The values keep their types.
THEOREM TypeCorrect == Spec => []TypeOK
  <1>1. IInv => TypeOK
    BY DEF IInv
  <1>2. QED
    BY <1>1, Inductive, PTL

\* What s has queried is what r answers, by itself or by an entry that lives.
ServedBy(r, s) ==
    /\ KeyOf(s) = KeyOf(r)
    /\ got[s] = got'[r] /\ CurrentAt(got[s].value, began[s])
    /\ (s = r /\ pc[r] = "queried") \/ now < until[s]

\* Every answer is served so, and if it is GetFlight's, by a call that missed a
\* TTL and a Timeout ago or later.
LEMMA AnswerServed ==
    ASSUME IInv, [Next]_vars, NEW r \in Reads, pc[r] # "answered", pc'[r] = "answered"
    PROVE  \E s \in Reads :
              /\ ServedBy(r, s)
              /\ r \in Gets => now - (TTL + Timeout) <= began[s]
  <1>1. /\ TypeOK /\ now \in Int /\ KeyOf(r) \in Keys /\ got \in [Reads -> Views]
        /\ pc \in [Reads \cup Mutations ->
                     {"idle", "missed", "queried", "committed", "answered", "gone"}]
        /\ \A s \in Reads : began[s] \in Int /\ until[s] \in Int
        /\ cache[KeyOf(r)].expires \in Nat /\ TTL \in Int /\ TTL > 0 /\ Timeout \in Int
    BY TimesAssumption DEF IInv, TypeOK, Keys, KeyOf
  <1>2. Hit(r) \/ Fill(r) \/ FillFails(r)
    <2>1. ~ Tick /\ ~ UNCHANGED vars
      BY DEF Tick, vars
    <2>2. ASSUME NEW m \in Mutations, Mutate(m) PROVE FALSE
      BY <1>1, <2>2, CallsAssumption DEF Mutate, Commit, Invalidate, InvalidateFails, Goto
    <2>3. ASSUME NEW u \in Reads, Read(u), u # r PROVE FALSE
      BY <1>1, <2>3
      DEF Read, Hit, Miss, Query, QueryBreaks, QueryFails, Fill, FillFails, Expire,
          Goto, EndUnset
    <2>4. Read(r)
      BY <2>1, <2>2, <2>3 DEF Next
    <2>5. QED
      BY <1>1, <2>4 DEF Read, Miss, Query, QueryBreaks, QueryFails, Expire, Goto, EndUnset
  <1>3. CASE Hit(r)
    <2>1. got'[r] = cache[KeyOf(r)].seen /\ now < cache[KeyOf(r)].expires
      BY <1>1, <1>3 DEF Hit, Live
    <2>2. cache[KeyOf(r)].expires # 0
      <3>1. now >= 0
        BY <1>1, TimesAssumption DEF TypeOK
      <3>2. QED
        BY <1>1, <2>1, <3>1
    <2>3. PICK s \in Reads : Supplies(s, KeyOf(r))
      BY <1>1, <2>2 DEF IInv, EntryFits
    <2>4. ServedBy(r, s)
      BY <2>1, <2>3 DEF Supplies, ServedBy
    <2>5. r \in Gets => s \in Gets
      BY <2>3 DEF Supplies, KeyOf
    <2>6. r \in Gets => now - (TTL + Timeout) <= began[s]
      BY <1>1, <2>1, <2>3, <2>5 DEF Supplies
    <2>7. QED
      BY <2>4, <2>6
  <1>4. CASE Fill(r) \/ FillFails(r)
    <2>1. got'[r] = got[r] /\ pc[r] = "queried" /\ InTime(r)
      BY <1>4 DEF Fill, FillFails
    <2>2. ServedBy(r, r)
      BY <2>1 DEF IInv, ReadFits, ServedBy
    <2>3. r \in Gets => now - (TTL + Timeout) <= began[r]
      BY <1>1, <2>1 DEF InTime
    <2>4. QED
      BY <2>2, <2>3
  <1>5. QED
    BY <1>2, <1>3, <1>4

\* No answer of GetFlight is older than the TTL of an entry and the call that
\* set it.
THEOREM AnswersAreFresh == Spec => StalenessBounded
  <1>1. ASSUME IInv, [Next]_vars, NEW r \in Gets, pc[r] # "answered", pc'[r] = "answered"
        PROVE  CurrentAt(got'[r].value, now - (TTL + Timeout))
    <2>1. r \in Reads /\ TypeOK
      BY <1>1 DEF Reads, IInv
    <2>2. PICK s \in Reads : ServedBy(r, s) /\ now - (TTL + Timeout) <= began[s]
      BY <1>1, <2>1, AnswerServed
    <2>3. /\ got[s].value \in 0 .. Version /\ began[s] \in Int /\ now - (TTL + Timeout) \in Int
      BY <2>1, TimesAssumption DEF TypeOK, Views
    <2>4. CurrentAt(got[s].value, now - (TTL + Timeout))
      BY <2>1, <2>2, <2>3, CurrentEarlier DEF ServedBy
    <2>5. QED
      BY <2>2, <2>4 DEF ServedBy
  <1>2. IInv /\ [Next]_vars =>
          [\A r \in Gets :
             pc[r] # "answered" /\ pc'[r] = "answered" =>
                 CurrentAt(got'[r].value, now - (TTL + Timeout))]_vars
    BY <1>1
  <1>3. QED
    BY <1>2, Inductive, PTL DEF Spec, StalenessBounded

\* Every answer, a search's as well, is what one read of its method queried:
\* the call itself, or one that set it less than a TTL ago.
THEOREM AnswersComeFromReads == Spec => AnswersBounded
  <1>1. IInv /\ [Next]_vars =>
          [\A r \in Reads :
             pc[r] # "answered" /\ pc'[r] = "answered" =>
                 \E s \in Reads :
                     /\ KeyOf(s) = KeyOf(r)
                     /\ got[s] = got'[r] /\ CurrentAt(got[s].value, began[s])
                     /\ (s = r /\ pc[r] = "queried") \/ now < until[s]]_vars
    BY AnswerServed DEF ServedBy
  <1>2. QED
    BY <1>1, Inductive, PTL DEF Spec, AnswersBounded
=============================================================================
