--------------------------- MODULE OrderLedgerProofs ---------------------------
(***************************************************************************)
(* What Orders guarantees about pieces of products: it implements          *)
(* OrderLedger, and no piece is lost or made by a handler.                 *)
(***************************************************************************)
EXTENDS OrdersProofs, WellFoundedInduction

----------------------------------------------------------------------------
(* Sums over finite sets, as MapThenSumSet computes them.                   *)

Pick(s) == CHOOSE x \in s : TRUE

\* g is the sum of f over every part of S.
Sums(g, f, S) ==
    g = [s \in SUBSET S |-> IF s = {} THEN 0 ELSE f[Pick(s)] + g[s \ {Pick(s)}]]

Total(f, S) == MapThenSumSet(LAMBDA x : f[x], S)

\* The smallest part of S in B has no smaller one in B.
LEMMA SmallestPart ==
    ASSUME NEW S, IsFiniteSet(S), NEW B, B \subseteq SUBSET S, B # {}
    PROVE  \E s \in B : \A t \in SUBSET s : t # s => t \notin B
  <1>1. IsWellFoundedOn(StrictSubsetOrdering(S), SUBSET S)
    BY FS_StrictSubsetOrderingWellFounded, FS_FiniteSubsetsOfFinite
  <1>2. PICK s \in B : \A t \in B : ~ (<<t, s>> \in StrictSubsetOrdering(S))
    BY <1>1, WFMin
  <1>3. ASSUME NEW t \in SUBSET s, t # s PROVE t \notin B
    BY <1>2, <1>3 DEF StrictSubsetOrdering
  <1>4. QED
    BY <1>3

LEMMA Picked == ASSUME NEW s, s # {} PROVE Pick(s) \in s
  BY DEF Pick

\* Sums over two sets agree on what these have in common.
LEMMA SumsAgree ==
    ASSUME NEW S, NEW T, IsFiniteSet(T), NEW f, NEW g, NEW h, Sums(g, f, S), Sums(h, f, T),
           NEW s \in SUBSET (S \cap T)
    PROVE  g[s] = h[s]
  <1> DEFINE Bad == {t \in SUBSET (S \cap T) : g[t] # h[t]}
  <1> SUFFICES ASSUME Bad # {} PROVE FALSE
    OBVIOUS
  <1>1. PICK t \in Bad : \A u \in SUBSET t : u # t => u \notin Bad
    <2> HIDE DEF Bad
    <2>1. Bad \subseteq SUBSET T
      BY DEF Bad
    <2>2. QED
      BY <2>1, SmallestPart
  <1>2. /\ g[t] = IF t = {} THEN 0 ELSE f[Pick(t)] + g[t \ {Pick(t)}]
        /\ h[t] = IF t = {} THEN 0 ELSE f[Pick(t)] + h[t \ {Pick(t)}]
    BY DEF Sums
  <1>3. t # {} => g[t \ {Pick(t)}] = h[t \ {Pick(t)}]
    BY <1>1, Picked
  <1>4. QED
    BY <1>2, <1>3

\* The recursion has a solution over a finite set.
LEMMA SumsExist ==
    ASSUME NEW S, IsFiniteSet(S), NEW f
    PROVE  \E g : Sums(g, f, S)
  <1> DEFINE Bad == {s \in SUBSET S : ~ \E g : Sums(g, f, s)}
  <1> SUFFICES ASSUME Bad # {} PROVE FALSE
    OBVIOUS
  <1>1. PICK s \in Bad : \A t \in SUBSET s : t # s => t \notin Bad
    <2> HIDE DEF Bad
    <2>1. Bad \subseteq SUBSET S
      BY DEF Bad
    <2>2. QED
      BY <2>1, SmallestPart
  <1> DEFINE h(t) == CHOOSE g : Sums(g, f, t)
  <1>2. ASSUME NEW t \in SUBSET s, t # s PROVE Sums(h(t), f, t) /\ IsFiniteSet(t)
    BY <1>1, <1>2, FS_Subset
  <1> HIDE DEF h
  <1> DEFINE g == [t \in SUBSET s |-> IF t = {} THEN 0
                                      ELSE f[Pick(t)] + h(t \ {Pick(t)})[t \ {Pick(t)}]]
  <1>3. ASSUME NEW t \in SUBSET s, t # s PROVE g[t] = h(t)[t]
    <2>1. h(t)[t] = IF t = {} THEN 0 ELSE f[Pick(t)] + h(t)[t \ {Pick(t)}]
      BY <1>2, <1>3 DEF Sums
    <2>2. CASE t = {}
      BY <2>1, <2>2
    <2>3. CASE t # {}
      <3> DEFINE u == t \ {Pick(t)}
      <3>1. u \in SUBSET s /\ u # s /\ u \in SUBSET t
        BY <2>3, Picked
      <3>2. Sums(h(u), f, u) /\ IsFiniteSet(u) /\ Sums(h(t), f, t)
        BY <1>2, <1>3, <3>1
      <3>3. h(u)[u] = h(t)[u]
        BY <3>1, <3>2, SumsAgree
      <3>4. QED
        BY <2>1, <2>3, <3>3
    <2>4. QED
      BY <2>2, <2>3
  <1>4. ASSUME NEW t \in SUBSET s, t # {} PROVE g[t \ {Pick(t)}] = h(t \ {Pick(t)})[t \ {Pick(t)}]
    <2>1. t \ {Pick(t)} \in SUBSET s /\ t \ {Pick(t)} # s
      BY <1>4, Picked
    <2> HIDE DEF g
    <2>2. QED
      BY <1>3, <2>1
  <1>5. Sums(g, f, s)
    BY <1>4 DEF Sums
  <1>6. QED
    BY <1>1, <1>5

\* What MapThenSumSet computes.
LEMMA TotalIs ==
    ASSUME NEW S, IsFiniteSet(S), NEW f, NEW h, Sums(h, f, S), NEW T \in SUBSET S
    PROVE  Total(f, T) = h[T]
  <1> DEFINE g == CHOOSE g : g = [s \in SUBSET T |-> IF s = {} THEN 0
                                  ELSE f[CHOOSE x \in s : TRUE] + g[s \ {CHOOSE x \in s : TRUE}]]
  <1>1. Total(f, T) = g[T]
    BY DEF Total, MapThenSumSet, MapThenFoldSet
  <1>2. IsFiniteSet(T) /\ \E u : Sums(u, f, T)
    BY FS_Subset, SumsExist
  <1>3. Sums(g, f, T)
    BY <1>2 DEF Sums, Pick
  <1> HIDE DEF g
  <1>4. g[T] = h[T]
    BY <1>2, <1>3, SumsAgree
  <1>5. QED
    BY <1>1, <1>4

\* The sum over nothing.
LEMMA TotalNone == ASSUME NEW f PROVE Total(f, {}) = 0
  <1>1. PICK g : Sums(g, f, {})
    BY SumsExist, FS_EmptySet
  <1>2. g[{}] = 0
    BY <1>1 DEF Sums
  <1>3. QED
    BY <1>1, <1>2, TotalIs, FS_EmptySet

LEMMA TotalPick ==
    ASSUME NEW S, IsFiniteSet(S), S # {}, NEW f
    PROVE  Total(f, S) = f[Pick(S)] + Total(f, S \ {Pick(S)})
  <1>1. PICK g : Sums(g, f, S)
    BY SumsExist
  <1>2. g[S] = f[Pick(S)] + g[S \ {Pick(S)}]
    BY <1>1 DEF Sums
  <1>3. S \ {Pick(S)} \in SUBSET S /\ S \in SUBSET S
    OBVIOUS
  <1>4. QED
    BY <1>1, <1>2, <1>3, TotalIs

LEMMA TotalType ==
    ASSUME NEW S, IsFiniteSet(S), NEW f, \A x \in S : f[x] \in Int
    PROVE  Total(f, S) \in Int
  <1> DEFINE Bad == {s \in SUBSET S : Total(f, s) \notin Int}
  <1> SUFFICES ASSUME Bad # {} PROVE FALSE
    OBVIOUS
  <1>1. PICK s \in Bad : \A t \in SUBSET s : t # s => t \notin Bad
    <2> HIDE DEF Bad
    <2>1. Bad \subseteq SUBSET S
      BY DEF Bad
    <2>2. QED
      BY <2>1, SmallestPart
  <1>2. CASE s = {}
    BY <1>2, TotalNone
  <1>3. CASE s # {}
    <2>1. Pick(s) \in s /\ IsFiniteSet(s)
      BY <1>3, Picked, FS_Subset
    <2>2. Total(f, s \ {Pick(s)}) \in Int /\ f[Pick(s)] \in Int
      BY <1>1, <2>1
    <2>3. Total(f, s) = f[Pick(s)] + Total(f, s \ {Pick(s)})
      BY <1>3, <2>1, TotalPick
    <2>4. QED
      BY <2>2, <2>3
  <1>4. QED
    BY <1>2, <1>3

LEMMA TotalSame ==
    ASSUME NEW S, IsFiniteSet(S), NEW f, NEW h, \A x \in S : f[x] = h[x]
    PROVE  Total(f, S) = Total(h, S)
  <1> DEFINE Bad == {s \in SUBSET S : Total(f, s) # Total(h, s)}
  <1> SUFFICES ASSUME Bad # {} PROVE FALSE
    OBVIOUS
  <1>1. PICK s \in Bad : \A t \in SUBSET s : t # s => t \notin Bad
    <2> HIDE DEF Bad
    <2>1. Bad \subseteq SUBSET S
      BY DEF Bad
    <2>2. QED
      BY <2>1, SmallestPart
  <1>2. CASE s = {}
    BY <1>2, TotalNone
  <1>3. CASE s # {}
    <2>1. Pick(s) \in s /\ IsFiniteSet(s)
      BY <1>3, Picked, FS_Subset
    <2>2. Total(f, s \ {Pick(s)}) = Total(h, s \ {Pick(s)}) /\ f[Pick(s)] = h[Pick(s)]
      BY <1>1, <2>1
    <2>3. QED
      BY <1>3, <2>1, <2>2, TotalPick
  <1>4. QED
    BY <1>2, <1>3

\* Any element may be added last.
LEMMA TotalOne ==
    ASSUME NEW S, IsFiniteSet(S), NEW f, \A x \in S : f[x] \in Int, NEW y \in S
    PROVE  Total(f, S) = f[y] + Total(f, S \ {y})
  <1> DEFINE Bad == {s \in SUBSET S : \E x \in s : Total(f, s) # f[x] + Total(f, s \ {x})}
  <1> SUFFICES ASSUME Bad # {} PROVE FALSE
    OBVIOUS
  <1>1. PICK s \in Bad : \A t \in SUBSET s : t # s => t \notin Bad
    <2> HIDE DEF Bad
    <2>1. Bad \subseteq SUBSET S
      BY DEF Bad
    <2>2. QED
      BY <2>1, SmallestPart
  <1>2. PICK x \in s : Total(f, s) # f[x] + Total(f, s \ {x})
    OBVIOUS
  <1> DEFINE z == Pick(s)
             u == (s \ {z}) \ {x}
  <1>3. z \in s /\ IsFiniteSet(s) /\ IsFiniteSet(s \ {x}) /\ IsFiniteSet(u)
    BY <1>2, Picked, FS_Subset
  <1>4. Total(f, s) = f[z] + Total(f, s \ {z})
    BY <1>3, TotalPick
  <1>5. x # z
    BY <1>2, <1>4
  <1>6. Total(f, s \ {z}) = f[x] + Total(f, u)
    BY <1>1, <1>3, <1>5
  <1>7. Total(f, s \ {x}) = f[z] + Total(f, u)
    <2>1. (s \ {x}) \ {z} = u /\ z \in s \ {x} /\ s \ {x} \notin Bad /\ s \ {x} \in SUBSET S
      BY <1>1, <1>2, <1>3, <1>5
    <2>2. QED
      BY <2>1
  <1>8. f[x] \in Int /\ f[z] \in Int /\ Total(f, u) \in Int
    BY <1>3, TotalType
  <1>9. QED
    BY <1>2, <1>4, <1>6, <1>7, <1>8

----------------------------------------------------------------------------
(* The inductive invariant.                                                 *)

\* The items a handler gives back, and those it takes.
OldItems(t) == IF t \in Creates THEN << >> ELSE order[OrderOf[t]].items
NewItems(t) == IF t \in Cancels THEN << >> ELSE ItemsOf[t]

\* The pieces of product p in the first n items.
Part(items, p, n) == Total([i \in DOMAIN items |-> items[i][2]], {i \in 1 .. n : items[i][1] = p})

\* Handler t has given a items back and has taken b: its statements for the
\* others are still to be made.  The pieces add up unless an item was short, and
\* there were enough of every item that was taken.
Reached(t, a, b) ==
    /\ a \in 0 .. Len(OldItems(t)) /\ b \in 0 .. Len(NewItems(t))
    /\ b # 0 => a = Len(OldItems(t))
    /\ Len(todo[t]) = (Len(OldItems(t)) - a) + (Len(NewItems(t)) - b)
    /\ \A j \in 1 .. Len(OldItems(t)) - a :
         todo[t][j] = Steps("give", OldItems(t))[a + j]
    /\ \A j \in 1 .. Len(NewItems(t)) - b :
         todo[t][Len(OldItems(t)) - a + j] = Steps("take", NewItems(t))[b + j]
    /\ \A i \in 1 .. b : NewItems(t)[i][1] \in locked[t]
    /\ ~ short[t] =>
         /\ \A p \in Products :
              delta[t][p] = Part(OldItems(t), p, a) - Part(NewItems(t), p, b)
         /\ \A i \in 1 .. b : stock[NewItems(t)[i][1]] + delta[t][NewItems(t)[i][1]] >= 0

WorkFits(t) ==
    Working(t) =>
        /\ \E a, b \in Nat : Reached(t, a, b)
        /\ t \in Changes => Allowed(t)

\* The orders that are not canceled.
Active == {o \in Creates : Placed(o)}

\* The number of pieces of product p that active orders ask for, of any sign.
Booked(p) == MapThenSumSet(LAMBDA o : Ledger!Pieces(order[o].items, p), Active)

\* What the stock lacks is what orders ask for, whatever they ask for.
Balanced == \A p \in Products : stock[p] + Booked(p) = InitialStock[p]

LedgerInv ==
    /\ IInv
    /\ \A t \in Requests : WorkFits(t)
    /\ DOMAIN reply = Requests
    /\ IsFiniteSet(Active)
    /\ Balanced

----------------------------------------------------------------------------
(* Pieces in a list of items.                                               *)

\* Nothing is in no items.
LEMMA PartStart ==
    ASSUME NEW items, NEW p
    PROVE  Part(items, p, 0) = 0
  <1>1. {i \in 1 .. 0 : items[i][1] = p} = {}
    OBVIOUS
  <1>2. QED
    BY <1>1, TotalNone DEF Part

\* A list of items, as the provers see it.
LEMMA Listed ==
    ASSUME NEW items \in Lists
    PROVE  /\ DOMAIN items = 1 .. Len(items) /\ Len(items) \in Nat
           /\ \A i \in 1 .. Len(items) : items[i][2] \in Int
           /\ \A p : \A n \in Int : IsFiniteSet({i \in 1 .. n : items[i][1] = p})
  <1>1. \A i \in 1 .. Len(items) : items[i][2] \in Quantities
    BY StepsOfItems
  <1>2. ASSUME NEW p, NEW n \in Int PROVE IsFiniteSet({i \in 1 .. n : items[i][1] = p})
    <2>1. IsFiniteSet(1 .. n)
      BY FS_Interval
    <2>2. QED
      BY <2>1, FS_Subset
  <1>3. DOMAIN items = 1 .. Len(items) /\ Len(items) \in Nat
    BY DEF Lists
  <1>4. QED
    BY <1>1, <1>2, <1>3, Constants

LEMMA PartType ==
    ASSUME NEW items \in Lists, NEW p, NEW n \in 0 .. Len(items)
    PROVE  Part(items, p, n) \in Int
  <1> DEFINE S == {i \in 1 .. n : items[i][1] = p}
             f == [i \in DOMAIN items |-> items[i][2]]
  <1>1. IsFiniteSet(S)
    <2>1. n \in Int
      BY Listed
    <2>2. QED
      BY <2>1, Listed
  <1>2. \A i \in S : f[i] \in Int
    BY Listed
  <1> HIDE DEF S, f
  <1>3. Total(f, S) \in Int
    BY <1>1, <1>2, TotalType
  <1>4. QED
    BY <1>3 DEF Part, S, f

\* One more item.
LEMMA PartNext ==
    ASSUME NEW items \in Lists, NEW p, NEW n \in 0 .. Len(items) - 1
    PROVE  Part(items, p, n + 1)
             = Part(items, p, n) + IF items[n + 1][1] = p THEN items[n + 1][2] ELSE 0
  <1> DEFINE S(m) == {i \in 1 .. m : items[i][1] = p}
             f == [i \in DOMAIN items |-> items[i][2]]
  <1>1. IsFiniteSet(S(n + 1))
    <2>1. n + 1 \in Int
      BY Listed
    <2>2. QED
      BY <2>1, Listed
  <1>2. /\ \A i \in S(n + 1) : f[i] \in Int
        /\ f[n + 1] = items[n + 1][2] /\ Total(f, S(n)) \in Int
    <2>1. \A i \in 1 .. n + 1 : i \in DOMAIN items /\ items[i][2] \in Int
      BY Listed
    <2>2. n \in 0 .. Len(items)
      OBVIOUS
    <2>3. Part(items, p, n) \in Int
      BY <2>2, PartType
    <2>4. QED
      BY <2>1, <2>3 DEF Part
  <1>3. CASE items[n + 1][1] = p
    <2>1. n + 1 \in S(n + 1) /\ S(n + 1) \ {n + 1} = S(n)
      BY <1>3
    <2> HIDE DEF f, S
    <2>2. Total(f, S(n + 1)) = f[n + 1] + Total(f, S(n))
      BY <1>1, <1>2, <2>1, TotalOne
    <2>3. Total(f, S(n + 1)) = Total(f, S(n)) + items[n + 1][2]
      <3>1. f[n + 1] \in Int
        BY <1>2, <2>1
      <3>2. QED
        BY <1>2, <2>2, <3>1
    <2>4. QED
      BY <1>3, <2>3 DEF Part, f, S
  <1>4. CASE items[n + 1][1] # p
    <2>1. S(n + 1) = S(n)
      BY <1>4
    <2> HIDE DEF f, S
    <2>2. Total(f, S(n + 1)) = Total(f, S(n)) + 0
      BY <1>2, <2>1
    <2>3. QED
      BY <1>4, <2>2 DEF Part, f, S
  <1>5. QED
    BY <1>3, <1>4

\* All the items: what the ledger counts.
LEMMA PartAll ==
    ASSUME NEW items \in Lists, NEW p
    PROVE  Part(items, p, Len(items)) = Ledger!Pieces(items, p)
  <1> DEFINE S == {i \in DOMAIN items : items[i][1] = p}
             f == [i \in DOMAIN items |-> items[i][2]]
             g == CHOOSE g : g = [s \in SUBSET S |-> IF s = {} THEN 0
                                  ELSE items[CHOOSE x \in s : TRUE][2]
                                         + g[s \ {CHOOSE x \in s : TRUE}]]
  <1>1. Ledger!Pieces(items, p) = g[S]
    BY DEF Ledger!Pieces, Ledger!MapThenSumSet, Ledger!MapThenFoldSet
  <1>2. DOMAIN items = 1 .. Len(items) /\ Len(items) \in Nat
    BY DEF Lists
  <1>3. IsFiniteSet(S)
    <2>1. S = {i \in 1 .. Len(items) : items[i][1] = p} /\ Len(items) \in Int
      BY <1>2
    <2> HIDE DEF S
    <2>2. QED
      BY <2>1, Listed
  <1>4. PICK h : Sums(h, f, S)
    <2> HIDE DEF S, f
    <2>1. QED
      BY <1>3, SumsExist
  <1>5. \A s \in SUBSET S : s # {} => f[Pick(s)] = items[CHOOSE x \in s : TRUE][2]
    BY Picked DEF Pick
  <1>6. h = [s \in SUBSET S |-> IF s = {} THEN 0
                                ELSE items[CHOOSE x \in s : TRUE][2]
                                       + h[s \ {CHOOSE x \in s : TRUE}]]
    <2> HIDE DEF S, f
    <2>1. QED
      BY <1>4, <1>5 DEF Sums, Pick
  <1>7. g = [s \in SUBSET S |-> IF s = {} THEN 0
                                ELSE items[CHOOSE x \in s : TRUE][2]
                                       + g[s \ {CHOOSE x \in s : TRUE}]]
    <2> HIDE DEF S, f
    <2>1. QED
      BY <1>6
  <1> HIDE DEF g
  <1>8. Sums(g, f, S)
    <2> HIDE DEF S, f
    <2>1. QED
      BY <1>5, <1>7 DEF Sums, Pick
  <1>9. Total(f, S) = g[S]
    <2> HIDE DEF S, f
    <2>1. S \in SUBSET S
      OBVIOUS
    <2>2. QED
      BY <1>3, <1>8, <2>1, TotalIs
  <1>10. QED
    BY <1>1, <1>2, <1>9 DEF Part

----------------------------------------------------------------------------
(* The handlers keep to their plan.                                         *)

\* Both plans are lists of items.
LEMMA Plans ==
    ASSUME IInv, NEW t \in Requests
    PROVE  OldItems(t) \in Lists /\ NewItems(t) \in Lists
  <1>1. << >> \in Lists
    BY DEF Lists
  <1>2. t \notin Creates => OldItems(t) \in Lists
    BY Constants DEF IInv, Types, Rows, OldItems
  <1>3. QED
    BY <1>1, <1>2, Constants DEF OldItems, NewItems

\* Nothing t goes by has changed.
LEMMA Untouched ==
    ASSUME NEW t \in Requests, WorkFits(t),
           Working(t)' => /\ Working(t)
                          /\ UNCHANGED <<todo[t], locked[t], delta[t], short[t], OldItems(t)>>
                          /\ \A p \in locked[t] : stock'[p] = stock[p]
    PROVE  WorkFits(t)'
  <1> SUFFICES ASSUME Working(t)'
               PROVE  (\E a, b \in Nat : Reached(t, a, b)') /\ (t \in Changes => Allowed(t))
    BY DEF WorkFits, Allowed
  <1>1. /\ Working(t) /\ todo'[t] = todo[t] /\ locked'[t] = locked[t] /\ delta'[t] = delta[t]
        /\ short'[t] = short[t] /\ OldItems(t)' = OldItems(t) /\ NewItems(t)' = NewItems(t)
        /\ \A p \in locked[t] : stock'[p] = stock[p]
    BY DEF NewItems
  <1>2. PICK a \in Nat, b \in Nat : Reached(t, a, b)
    BY <1>1 DEF WorkFits
  <1>3. Reached(t, a, b)'
    BY <1>1, <1>2 DEF Reached
  <1>4. QED
    BY <1>1, <1>3 DEF WorkFits

\* Handler t has the statements S before it.
LEMMA StartFits ==
    ASSUME IInv, NEW t \in Requests, ~ Working(t), NEW S,
           Len(S) = Len(OldItems(t)) + Len(NewItems(t)),
           \A j \in 1 .. Len(OldItems(t)) : S[j] = Steps("give", OldItems(t))[j],
           \A j \in 1 .. Len(NewItems(t)) :
              S[Len(OldItems(t)) + j] = Steps("take", NewItems(t))[j],
           t \in Changes => Allowed(t),
           todo'[t] = S, UNCHANGED <<order, locked[t], delta[t], short[t]>>
    PROVE  WorkFits(t)'
  <1>1. /\ OldItems(t)' = OldItems(t) /\ NewItems(t)' = NewItems(t) /\ Allowed(t)' = Allowed(t)
        /\ Len(OldItems(t)) \in Nat /\ Len(NewItems(t)) \in Nat
    BY Plans DEF OldItems, NewItems, Allowed, Lists
  <1>2. delta'[t] = Zero
    BY DEF IInv, HandlerFits
  <1>3. \A p \in Products : Part(OldItems(t), p, 0) = 0 /\ Part(NewItems(t), p, 0) = 0
    BY PartStart
  <1>4. Reached(t, 0, 0)'
    BY <1>1, <1>2, <1>3 DEF Reached, Zero
  <1>5. QED
    BY <1>1, <1>4 DEF WorkFits

\* What a handler at work has before it.
LEMMA NextItem ==
    ASSUME IInv, NEW t \in Requests, NEW a \in Nat, NEW b \in Nat, Reached(t, a, b),
           todo[t] # << >>
    PROVE  /\ Len(Tail(todo[t])) = Len(todo[t]) - 1 /\ Len(todo[t]) \in Nat
           /\ \A j \in 1 .. Len(todo[t]) - 1 : Tail(todo[t])[j] = todo[t][j + 1]
           /\ Head(todo[t]).method = "give" =>
                /\ a < Len(OldItems(t)) /\ b = 0
                /\ Head(todo[t]).product = OldItems(t)[a + 1][1]
                /\ Head(todo[t]).quantity = OldItems(t)[a + 1][2]
           /\ Head(todo[t]).method = "take" =>
                /\ a = Len(OldItems(t)) /\ b < Len(NewItems(t))
                /\ Head(todo[t]).product = NewItems(t)[b + 1][1]
                /\ Head(todo[t]).quantity = NewItems(t)[b + 1][2]
  <1>1. /\ OldItems(t) \in Lists /\ NewItems(t) \in Lists
        /\ Len(OldItems(t)) \in Nat /\ Len(NewItems(t)) \in Nat
    BY Plans DEF Lists
  <1>2. todo[t] \in Seq(StepsToDo) /\ Head(todo[t]) = todo[t][1]
    BY DEF IInv, Types
  <1>3. /\ Len(Tail(todo[t])) = Len(todo[t]) - 1 /\ Len(todo[t]) \in Nat /\ Len(todo[t]) > 0
        /\ \A j \in 1 .. Len(todo[t]) - 1 : Tail(todo[t])[j] = todo[t][j + 1]
    BY <1>2
  <1>4. CASE a < Len(OldItems(t))
    <2>1. b = 0 /\ todo[t][1] = Steps("give", OldItems(t))[a + 1]
      BY <1>1, <1>4 DEF Reached
    <2>2. /\ Steps("give", OldItems(t))[a + 1].method = "give"
          /\ Steps("give", OldItems(t))[a + 1].product = OldItems(t)[a + 1][1]
          /\ Steps("give", OldItems(t))[a + 1].quantity = OldItems(t)[a + 1][2]
      BY <1>1, <1>4, StepsOfItems
    <2>3. QED
      BY <1>2, <1>3, <1>4, <2>1, <2>2
  <1>5. CASE ~ a < Len(OldItems(t))
    <2>1. a = Len(OldItems(t)) /\ b < Len(NewItems(t))
      BY <1>1, <1>3, <1>5 DEF Reached
    <2>2. todo[t][1] = Steps("take", NewItems(t))[b + 1]
      BY <1>1, <2>1 DEF Reached
    <2>3. /\ Steps("take", NewItems(t))[b + 1].method = "take"
          /\ Steps("take", NewItems(t))[b + 1].product = NewItems(t)[b + 1][1]
          /\ Steps("take", NewItems(t))[b + 1].quantity = NewItems(t)[b + 1][2]
      BY <1>1, <2>1, StepsOfItems
    <2>4. QED
      BY <1>2, <1>3, <2>1, <2>2, <2>3
  <1>6. QED
    BY <1>4, <1>5

\* An old item is given back.
LEMMA GiveFits ==
    ASSUME IInv, NEW t \in Requests, WorkFits(t), GiveBack(t)
    PROVE  WorkFits(t)'
  <1> DEFINE p == Head(todo[t]).product
             n == Head(todo[t]).quantity
  <1>1. /\ Working(t) /\ todo[t] # << >> /\ Head(todo[t]).method = "give" /\ pc' = pc
        /\ order' = order /\ stock' = stock /\ short' = short
        /\ todo' = [todo EXCEPT ![t] = Tail(@)]
        /\ locked' = [locked EXCEPT ![t] = @ \cup {p}]
        /\ delta' = [delta EXCEPT ![t][p] = @ + n]
    BY DEF GiveBack, At, Book, data, Working
  <1>2. PICK a \in Nat, b \in Nat : Reached(t, a, b)
    BY <1>1 DEF WorkFits
  <1>3. /\ Len(Tail(todo[t])) = Len(todo[t]) - 1 /\ Len(todo[t]) \in Nat
        /\ \A j \in 1 .. Len(todo[t]) - 1 : Tail(todo[t])[j] = todo[t][j + 1]
        /\ a < Len(OldItems(t)) /\ b = 0 /\ p = OldItems(t)[a + 1][1] /\ n = OldItems(t)[a + 1][2]
    BY <1>1, <1>2, NextItem
  <1> HIDE DEF p, n
  <1>4. /\ OldItems(t)' = OldItems(t) /\ NewItems(t)' = NewItems(t) /\ Allowed(t)' = Allowed(t)
        /\ OldItems(t) \in Lists /\ NewItems(t) \in Lists
        /\ Len(OldItems(t)) \in Nat /\ Len(NewItems(t)) \in Nat
    BY <1>1, Plans DEF OldItems, NewItems, Allowed, Lists
  <1>5. /\ delta \in [Requests -> [Products -> Int]] /\ locked \in [Requests -> SUBSET Products]
        /\ todo \in [Requests -> Seq(StepsToDo)]
    BY DEF IInv, Types, TypeOK
  <1>6. n \in Int
    BY <1>3, <1>4, Listed
  <1>7. ASSUME NEW q \in Products
        PROVE  /\ delta'[t][q] = delta[t][q] + IF p = q THEN n ELSE 0
               /\ Part(OldItems(t), q, a + 1) = Part(OldItems(t), q, a) + IF p = q THEN n ELSE 0
               /\ Part(OldItems(t), q, a) \in Int /\ Part(NewItems(t), q, b) \in Int
               /\ delta[t][q] \in Int
    <2>1. a \in 0 .. Len(OldItems(t)) - 1 /\ a \in 0 .. Len(OldItems(t)) /\ b \in 0 .. Len(NewItems(t))
      BY <1>3, <1>4
    <2>2. delta[t][q] \in Int /\ delta'[t][q] = delta[t][q] + IF p = q THEN n ELSE 0
      BY <1>1, <1>5, <1>6
    <2>3. Part(OldItems(t), q, a) \in Int /\ Part(NewItems(t), q, b) \in Int
      BY <1>4, <2>1, PartType
    <2>4. Part(OldItems(t), q, a + 1) = Part(OldItems(t), q, a) + IF p = q THEN n ELSE 0
      BY <1>3, <1>4, <2>1, PartNext
    <2>5. QED
      BY <2>2, <2>3, <2>4
  <1>8. Reached(t, a + 1, b)'
    <2>1. /\ a + 1 \in 0 .. Len(OldItems(t)) /\ b \in 0 .. Len(NewItems(t)) /\ b = 0
          /\ Len(todo'[t]) = (Len(OldItems(t)) - (a + 1)) + (Len(NewItems(t)) - b)
      BY <1>1, <1>2, <1>3, <1>4, <1>5 DEF Reached
    <2>2. \A j \in 1 .. Len(OldItems(t)) - (a + 1) :
             todo'[t][j] = Steps("give", OldItems(t))[a + 1 + j]
      <3> SUFFICES ASSUME NEW j \in 1 .. Len(OldItems(t)) - (a + 1)
                   PROVE  todo'[t][j] = Steps("give", OldItems(t))[a + 1 + j]
        OBVIOUS
      <3>1. j + 1 \in 1 .. Len(OldItems(t)) - a /\ j \in 1 .. Len(todo[t]) - 1
        BY <1>2, <1>3, <1>4 DEF Reached
      <3>2. todo'[t][j] = todo[t][j + 1] /\ a + (j + 1) = a + 1 + j
        BY <1>1, <1>3, <1>5, <3>1
      <3>3. QED
        BY <1>2, <3>1, <3>2 DEF Reached
    <2>3. \A j \in 1 .. Len(NewItems(t)) - b :
             todo'[t][Len(OldItems(t)) - (a + 1) + j] = Steps("take", NewItems(t))[b + j]
      <3> SUFFICES ASSUME NEW j \in 1 .. Len(NewItems(t)) - b
                   PROVE  todo'[t][Len(OldItems(t)) - (a + 1) + j] = Steps("take", NewItems(t))[b + j]
        OBVIOUS
      <3> DEFINE i == Len(OldItems(t)) - (a + 1) + j
      <3>1. i \in 1 .. Len(todo[t]) - 1 /\ i + 1 = Len(OldItems(t)) - a + j
        <4>1. Len(todo[t]) = (Len(OldItems(t)) - a) + (Len(NewItems(t)) - b)
          BY <1>2 DEF Reached
        <4>2. \A m, l, k, d, e \in Int :
                 0 <= k /\ k < m /\ 1 <= e /\ e <= l - d =>
                    /\ m - (k + 1) + e \in 1 .. ((m - k) + (l - d)) - 1
                    /\ (m - (k + 1) + e) + 1 = m - k + e
          OBVIOUS
        <4>3. /\ Len(OldItems(t)) \in Int /\ Len(NewItems(t)) \in Int /\ a \in Int /\ b \in Int
              /\ 0 <= a /\ a < Len(OldItems(t)) /\ j \in Int /\ 1 <= j /\ j <= Len(NewItems(t)) - b
          BY <1>3, <1>4
        <4>4. QED
          BY <4>1, <4>2, <4>3
      <3>2. todo'[t][i] = todo[t][i + 1]
        BY <1>1, <1>3, <1>5, <3>1
      <3>3. QED
        BY <1>2, <3>1, <3>2 DEF Reached
    <2>4. ~ short[t] => \A q \in Products :
             delta'[t][q] = Part(OldItems(t), q, a + 1) - Part(NewItems(t), q, b)
      <3> SUFFICES ASSUME ~ short[t], NEW q \in Products
                   PROVE  delta'[t][q] = Part(OldItems(t), q, a + 1) - Part(NewItems(t), q, b)
        OBVIOUS
      <3>1. delta[t][q] = Part(OldItems(t), q, a) - Part(NewItems(t), q, b)
        BY <1>2 DEF Reached
      <3>2. n \in Int
        BY <1>6
      <3>3. QED
        BY <1>7, <3>1, <3>2
    <2>5. QED
      BY <1>1, <1>4, <2>1, <2>2, <2>3, <2>4 DEF Reached
  <1>9. Working(t) /\ (t \in Changes => Allowed(t)') /\ a + 1 \in Nat
    BY <1>1, <1>4 DEF WorkFits
  <1>10. QED
    BY <1>8, <1>9 DEF WorkFits

\* A new item is taken, or is short.
LEMMA TakeFits ==
    ASSUME IInv, NEW t \in Requests, WorkFits(t), TakeItem(t)
    PROVE  WorkFits(t)'
  <1> DEFINE p == Head(todo[t]).product
             n == Head(todo[t]).quantity
  <1>1. /\ Working(t) /\ todo[t] # << >> /\ Head(todo[t]).method = "take" /\ pc' = pc
        /\ order' = order /\ stock' = stock /\ p \in active
        /\ todo' = [todo EXCEPT ![t] = Tail(@)]
        /\ locked' = [locked EXCEPT ![t] = @ \cup {p}]
    BY DEF TakeItem, At, Book, data, Working
  <1>2. \/ /\ stock[p] + delta[t][p] >= n /\ short' = short
           /\ delta' = [delta EXCEPT ![t][p] = @ + (0 - n)]
        \/ short' = [short EXCEPT ![t] = TRUE]
    BY DEF TakeItem, Book
  <1>3. PICK a \in Nat, b \in Nat : Reached(t, a, b)
    BY <1>1 DEF WorkFits
  <1>4. /\ Len(Tail(todo[t])) = Len(todo[t]) - 1 /\ Len(todo[t]) \in Nat
        /\ \A j \in 1 .. Len(todo[t]) - 1 : Tail(todo[t])[j] = todo[t][j + 1]
        /\ a = Len(OldItems(t)) /\ b < Len(NewItems(t))
        /\ p = NewItems(t)[b + 1][1] /\ n = NewItems(t)[b + 1][2]
    BY <1>1, <1>3, NextItem
  <1> HIDE DEF p, n
  <1>5. /\ OldItems(t)' = OldItems(t) /\ NewItems(t)' = NewItems(t) /\ Allowed(t)' = Allowed(t)
        /\ OldItems(t) \in Lists /\ NewItems(t) \in Lists
        /\ Len(OldItems(t)) \in Nat /\ Len(NewItems(t)) \in Nat
    BY <1>1, Plans DEF OldItems, NewItems, Allowed, Lists
  <1>6. /\ delta \in [Requests -> [Products -> Int]] /\ locked \in [Requests -> SUBSET Products]
        /\ todo \in [Requests -> Seq(StepsToDo)] /\ short \in [Requests -> BOOLEAN]
        /\ p \in Products /\ \A q \in Products : stock[q] \in Int
    BY <1>1 DEF IInv, Types, TypeOK
  <1>7. n \in Int
    BY <1>4, <1>5, Listed
  <1>8. ASSUME NEW q \in Products, ~ short'[t]
        PROVE  /\ delta'[t][q] = delta[t][q] - IF p = q THEN n ELSE 0
               /\ Part(NewItems(t), q, b + 1) = Part(NewItems(t), q, b) + IF p = q THEN n ELSE 0
               /\ Part(OldItems(t), q, a) \in Int /\ Part(NewItems(t), q, b) \in Int
               /\ delta[t][q] \in Int
    <2>1. b \in 0 .. Len(NewItems(t)) - 1 /\ b \in 0 .. Len(NewItems(t)) /\ a \in 0 .. Len(OldItems(t))
      BY <1>4, <1>5
    <2>2. delta[t][q] \in Int /\ delta'[t][q] = delta[t][q] - IF p = q THEN n ELSE 0
      BY <1>2, <1>6, <1>7, <1>8
    <2>3. Part(OldItems(t), q, a) \in Int /\ Part(NewItems(t), q, b) \in Int
      BY <1>5, <2>1, PartType
    <2>4. Part(NewItems(t), q, b + 1) = Part(NewItems(t), q, b) + IF p = q THEN n ELSE 0
      BY <1>4, <1>5, <2>1, PartNext
    <2>5. QED
      BY <2>2, <2>3, <2>4
  <1>9. Reached(t, a, b + 1)'
    <2>1. /\ a \in 0 .. Len(OldItems(t)) /\ b + 1 \in 0 .. Len(NewItems(t)) /\ a = Len(OldItems(t))
          /\ Len(todo'[t]) = (Len(OldItems(t)) - a) + (Len(NewItems(t)) - (b + 1))
      BY <1>1, <1>3, <1>4, <1>5, <1>6 DEF Reached
    <2>2. \A j \in 1 .. Len(NewItems(t)) - (b + 1) :
             todo'[t][Len(OldItems(t)) - a + j] = Steps("take", NewItems(t))[b + 1 + j]
      <3> SUFFICES ASSUME NEW j \in 1 .. Len(NewItems(t)) - (b + 1)
                   PROVE  todo'[t][Len(OldItems(t)) - a + j] = Steps("take", NewItems(t))[b + 1 + j]
        OBVIOUS
      <3>1. Len(todo[t]) = (Len(OldItems(t)) - a) + (Len(NewItems(t)) - b)
        BY <1>3 DEF Reached
      <3>2. /\ j \in 1 .. Len(todo[t]) - 1 /\ Len(OldItems(t)) - a + j = j
            /\ Len(OldItems(t)) - a + (j + 1) = j + 1 /\ b + (j + 1) = b + 1 + j
            /\ j + 1 \in 1 .. Len(NewItems(t)) - b
        BY <1>4, <1>5, <3>1
      <3>3. todo'[t][j] = todo[t][j + 1]
        BY <1>1, <1>4, <1>6, <3>2
      <3>4. todo[t][j + 1] = Steps("take", NewItems(t))[b + (j + 1)]
        BY <1>3, <3>2 DEF Reached
      <3>5. QED
        BY <3>2, <3>3, <3>4
    <2>3. \A i \in 1 .. b + 1 : NewItems(t)[i][1] \in locked'[t]
      <3> SUFFICES ASSUME NEW i \in 1 .. b + 1 PROVE NewItems(t)[i][1] \in locked'[t]
        OBVIOUS
      <3>1. CASE i = b + 1
        BY <1>1, <1>4, <1>6, <3>1
      <3>2. CASE i # b + 1
        <4>1. i \in 1 .. b
          BY <3>2
        <4>2. QED
          BY <1>1, <1>3, <1>6, <4>1 DEF Reached
      <3>3. QED
        BY <3>1, <3>2
    <2>4. ASSUME ~ short'[t], NEW q \in Products
          PROVE  delta'[t][q] = Part(OldItems(t), q, a) - Part(NewItems(t), q, b + 1)
      <3>1. ~ short[t]
        BY <1>2, <1>6, <2>4
      <3>2. delta[t][q] = Part(OldItems(t), q, a) - Part(NewItems(t), q, b)
        BY <1>3, <3>1 DEF Reached
      <3>3. QED
        BY <1>7, <1>8, <2>4, <3>2
    <2>5. ASSUME ~ short'[t], NEW i \in 1 .. b + 1
          PROVE  stock[NewItems(t)[i][1]] + delta'[t][NewItems(t)[i][1]] >= 0
      <3> DEFINE q == NewItems(t)[i][1]
      <3>1. ~ short[t] /\ stock[p] + delta[t][p] >= n
        BY <1>2, <1>6, <2>5
      <3>2. CASE q = p
        <4>1. /\ delta'[t][p] = delta[t][p] - n
              /\ delta[t][p] \in Int /\ stock[p] \in Int
          BY <1>6, <1>8, <2>5
        <4>2. QED
          BY <1>7, <3>1, <3>2, <4>1
      <3>3. CASE q # p
        <4>1. i \in 1 .. b
          BY <1>4, <3>3
        <4>2. stock[q] + delta[t][q] >= 0 /\ q \in Products
          BY <1>3, <1>6, <3>1, <4>1 DEF Reached
        <4>3. delta'[t][q] = delta[t][q] /\ stock[q] \in Int
          <5>1. /\ delta'[t][q] = delta[t][q] - (IF p = q THEN n ELSE 0)
                /\ delta[t][q] \in Int /\ stock[q] \in Int
            BY <1>6, <1>8, <2>5, <4>2
          <5>2. QED
            BY <3>3, <5>1
        <4>4. QED
          BY <4>2, <4>3
      <3>4. QED
        BY <3>2, <3>3
    <2>6. \A j \in 1 .. Len(OldItems(t)) - a : FALSE
      BY <1>4, <1>5
    <2>7. QED
      BY <1>1, <1>5, <2>1, <2>2, <2>3, <2>4, <2>5, <2>6 DEF Reached
  <1>10. Working(t) /\ (t \in Changes => Allowed(t)') /\ b + 1 \in Nat
    BY <1>1, <1>5 DEF WorkFits
  <1>11. QED
    BY <1>1, <1>9, <1>10 DEF WorkFits, Working

\* What every step but a commit leaves alone.
LEMMA OthersFit ==
    ASSUME NEW t, UNCHANGED <<stock, order>>,
           \A u \in Requests : u # t =>
              UNCHANGED <<pc[u], todo[u], locked[u], delta[u], short[u]>>,
           \A u \in Requests : WorkFits(u), NEW u \in Requests, u # t
    PROVE  WorkFits(u)'
  BY Untouched DEF Working, OldItems

\* A refusal drops the plan.
LEMMA RefusedFits ==
    ASSUME IInv, \A u \in Requests : WorkFits(u), NEW t \in Requests, NEW r, Refuse(t, r)
    PROVE  \A u \in Requests : WorkFits(u)'
  <1>1. UNCHANGED <<stock, order>> /\ ~ Working(t)'
    BY DEF Refuse, Answer, data, IInv, Types, TypeOK, Working
  <1>2. \A u \in Requests : u # t => UNCHANGED <<pc[u], todo[u], locked[u], delta[u], short[u]>>
    BY DEF Refuse, Answer
  <1>3. QED
    BY <1>1, <1>2, OthersFit DEF WorkFits

\* The checks refuse, or make the plan.
LEMMA ChecksFit ==
    ASSUME IInv, \A u \in Requests : WorkFits(u), NEW t \in Requests, Check(t)
    PROVE  \A u \in Requests : WorkFits(u)'
  <1>1. /\ pc \in [Requests -> {"idle", "rated", "items", "ready", "done"}]
        /\ todo \in [Requests -> Seq(StepsToDo)]
    BY DEF IInv, Types, TypeOK
  <1>2. CASE CheckRate(t)
    <2>1. CASE Goto(t, "rated") /\ UNCHANGED <<data, local>>
      <3>1. /\ UNCHANGED <<stock, order>> /\ ~ Working(t)'
            /\ \A u \in Requests : u # t => UNCHANGED <<pc[u], todo[u], locked[u], delta[u], short[u]>>
        BY <1>1, <2>1 DEF Goto, data, local, Working
      <3>2. QED
        BY <3>1, OthersFit DEF WorkFits
    <2>2. QED
      BY <1>2, <2>1, RefusedFits DEF CheckRate
  <1>3. CASE RefuseChange(t)
    BY <1>3, RefusedFits DEF RefuseChange
  <1>4. CASE CheckActive(t)
    <2>1. CASE Goto(t, "items")
      <3> DEFINE S == Steps("take", ItemsOf[t])
      <3>1. /\ UNCHANGED <<stock, order, locked, delta, short>> /\ ~ Working(t)
            /\ t \in Creates /\ todo' = [todo EXCEPT ![t] = S]
        BY <1>1, <1>4, <2>1 DEF CheckActive, Goto, Refuse, Answer, data, Working, IInv, HandlerFits
      <3>2. \A u \in Requests : u # t => UNCHANGED <<pc[u], todo[u], locked[u], delta[u], short[u]>>
        BY <1>1, <2>1, <3>1 DEF Goto
      <3>3. OldItems(t) = << >> /\ NewItems(t) = ItemsOf[t] /\ ItemsOf[t] \in Lists /\ t \notin Changes
        BY <3>1, Constants DEF OldItems, NewItems
      <3>4. Len(S) = Len(ItemsOf[t]) /\ Len(ItemsOf[t]) \in Nat
        BY <3>3, StepsOfItems DEF Lists
      <3>5. WorkFits(t)'
        <4> HIDE DEF S
        <4>1. /\ Len(S) = Len(OldItems(t)) + Len(NewItems(t))
              /\ \A j \in 1 .. Len(OldItems(t)) : S[j] = Steps("give", OldItems(t))[j]
              /\ \A j \in 1 .. Len(NewItems(t)) :
                    S[Len(OldItems(t)) + j] = Steps("take", NewItems(t))[j]
          BY <3>3, <3>4 DEF S
        <4>2. todo'[t] = S /\ UNCHANGED <<order, locked[t], delta[t], short[t]>>
          BY <1>1, <3>1
        <4>3. QED
          BY <3>1, <3>3, <4>1, <4>2, StartFits
      <3>6. QED
        BY <3>1, <3>2, <3>5, OthersFit
    <2>2. QED
      BY <1>4, <2>1, RefusedFits DEF CheckActive
  <1>5. CASE LockOrder(t)
    <2> DEFINE old == Steps("give", order[OrderOf[t]].items)
               new == IF t \in Updates THEN Steps("take", ItemsOf[t]) ELSE << >>
    <2>1. /\ UNCHANGED <<stock, order, locked, delta, short>> /\ ~ Working(t) /\ t \in Changes
          /\ Allowed(t) /\ todo' = [todo EXCEPT ![t] = old \o new] /\ Goto(t, "items")
      BY <1>1, <1>5 DEF LockOrder, Goto, data, Working
    <2>2. \A u \in Requests : u # t => UNCHANGED <<pc[u], todo[u], locked[u], delta[u], short[u]>>
      BY <1>1, <2>1 DEF Goto
    <2>3. /\ OldItems(t) = order[OrderOf[t]].items /\ OldItems(t) \in Lists /\ NewItems(t) \in Lists
          /\ t \notin Creates
      BY <2>1, Constants, Plans DEF OldItems
    <2>4. new = Steps("take", NewItems(t))
      <3>1. CASE t \in Updates
        BY <3>1, Constants DEF NewItems
      <3>2. CASE t \in Cancels
        BY <3>2, Constants DEF NewItems, Steps
      <3>3. QED
        BY <2>1, <3>1, <3>2, Constants
    <2> HIDE DEF old, new
    <2>5. /\ old \in Seq(StepsToDo) /\ Len(old) = Len(OldItems(t))
          /\ new \in Seq(StepsToDo) /\ Len(new) = Len(NewItems(t))
          /\ Len(old) \in Nat /\ Len(new) \in Nat
      BY <2>3, <2>4, StepsOfItems DEF old, Lists
    <2>6. /\ Len(old \o new) = Len(OldItems(t)) + Len(NewItems(t))
          /\ \A j \in 1 .. Len(OldItems(t)) : (old \o new)[j] = Steps("give", OldItems(t))[j]
          /\ \A j \in 1 .. Len(NewItems(t)) :
                (old \o new)[Len(OldItems(t)) + j] = Steps("take", NewItems(t))[j]
      <3>1. old = Steps("give", OldItems(t))
        BY <2>3 DEF old
      <3>2. QED
        BY <2>4, <2>5, <3>1
    <2>7. WorkFits(t)'
      <3>1. todo'[t] = old \o new /\ UNCHANGED <<order, locked[t], delta[t], short[t]>>
        BY <1>1, <2>1
      <3>2. QED
        BY <2>1, <2>6, <3>1, StartFits
    <2>8. QED
      BY <2>1, <2>2, <2>7, OthersFit
  <1>6. QED
    BY <1>2, <1>3, <1>4, <1>5 DEF Check

\* The items follow the plan, and the promo code leaves it alone.
LEMMA ItemsKeepFit ==
    ASSUME IInv, \A u \in Requests : WorkFits(u), NEW t \in Requests, Item(t) \/ Promo(t)
    PROVE  \A u \in Requests : WorkFits(u)'
  <1>1. pc \in [Requests -> {"idle", "rated", "items", "ready", "done"}]
    BY DEF IInv, Types, TypeOK
  <1>2. CASE GiveBack(t) \/ TakeItem(t)
    <2>1. /\ UNCHANGED <<stock, order>>
          /\ \A u \in Requests : u # t => UNCHANGED <<pc[u], todo[u], locked[u], delta[u], short[u]>>
      <3>1. UNCHANGED <<stock, order, pc>>
        BY <1>2 DEF GiveBack, TakeItem, data
      <3>2. /\ \E s : todo' = [todo EXCEPT ![t] = s]
            /\ \E s : locked' = [locked EXCEPT ![t] = s]
            /\ \E s : delta' = [delta EXCEPT ![t] = s]
            /\ short' = short \/ short' = [short EXCEPT ![t] = TRUE]
        BY <1>2 DEF GiveBack, TakeItem, Book
      <3>3. \A u \in Requests : u # t => todo'[u] = todo[u]
        BY <3>2 DEF IInv, Types
      <3>4. \A u \in Requests : u # t => locked'[u] = locked[u] /\ delta'[u] = delta[u]
        BY <3>2 DEF IInv, Types, TypeOK
      <3>5. \A u \in Requests : u # t => short'[u] = short[u]
        BY <3>2 DEF IInv, Types, TypeOK
      <3>6. QED
        BY <3>1, <3>3, <3>4, <3>5
    <2>2. WorkFits(t)'
      BY <1>2, GiveFits, TakeFits
    <2>3. QED
      BY <2>1, <2>2, OthersFit
  <1>3. ASSUME NEW q, Ready(t, q), AllTaken(t)
        PROVE  \A u \in Requests : WorkFits(u)'
    <2>1. /\ UNCHANGED <<stock, order, todo, locked, delta, short>>
          /\ \A u \in Requests : Working(u)' => Working(u)
      BY <1>1, <1>3 DEF Ready, AllTaken, ItemsDone, Goto, data, Working
    <2>2. QED
      BY <2>1, Untouched DEF OldItems
  <1>4. QED
    BY <1>2, <1>3, RefusedFits
    DEF Item, RefuseItem, Promo, Insufficient, WithoutPromo, RefusePromo, UsePromo, SettlePromo

----------------------------------------------------------------------------
(* The commit moves the pieces.                                             *)

LEMMA NoPieces ==
    ASSUME NEW p
    PROVE  Ledger!Pieces(<< >>, p) = 0
  <1>1. << >> \in Lists /\ Len(<< >>) = 0
    BY DEF Lists
  <1>2. QED
    BY <1>1, PartAll, PartStart

LEMMA PiecesType ==
    ASSUME NEW items \in Lists, NEW p
    PROVE  Ledger!Pieces(items, p) \in Int
  <1>1. Len(items) \in 0 .. Len(items)
    BY Listed
  <1>2. QED
    BY <1>1, PartAll, PartType

\* A list that has pieces of p has an item of p.
LEMMA SomePieces ==
    ASSUME NEW items \in Lists, NEW p, Ledger!Pieces(items, p) # 0
    PROVE  \E i \in 1 .. Len(items) : items[i][1] = p
  <1> SUFFICES ASSUME \A i \in 1 .. Len(items) : items[i][1] # p PROVE FALSE
    OBVIOUS
  <1>1. {i \in 1 .. Len(items) : items[i][1] = p} = {}
    OBVIOUS
  <1>2. Part(items, p, Len(items)) = 0
    BY <1>1, TotalNone DEF Part
  <1>3. QED
    BY <1>2, PartAll

\* The stocks change by what the handler gives back and takes, as the ledger
\* says, and there was enough of what was taken.
LEMMA CommitMoves ==
    ASSUME NEW t, NEW r, Commits(t, r), WorkFits(t)
    PROVE  /\ stock' = [p \in Products |->
                          stock[p] + Ledger!Pieces(OldItems(t), p) - Ledger!Pieces(NewItems(t), p)]
           /\ \A p \in Products : Ledger!Pieces(NewItems(t), p) > 0 => stock'[p] >= 0
           /\ \A i \in DOMAIN NewItems(t) : NewItems(t)[i][1] \in Products
  <1>1. /\ t \in Requests /\ IInv /\ pc[t] = "ready" /\ Working(t)
        /\ stock' = [p \in Products |-> stock[p] + delta[t][p]]
    BY DEF Commits, Apply, Working
  <1>2. /\ todo[t] = << >> /\ ~ short[t]
        /\ delta \in [Requests -> [Products -> Int]] /\ locked \in [Requests -> SUBSET Products]
        /\ \A p \in Products : stock[p] \in Int
    BY <1>1 DEF IInv, HandlerFits, Types, TypeOK
  <1>3. PICK a \in Nat, b \in Nat : Reached(t, a, b)
    BY <1>1 DEF WorkFits
  <1>4. /\ OldItems(t) \in Lists /\ NewItems(t) \in Lists
        /\ Len(OldItems(t)) \in Nat /\ Len(NewItems(t)) \in Nat
        /\ DOMAIN NewItems(t) = 1 .. Len(NewItems(t))
    BY <1>1, Plans, Listed
  <1>5. a = Len(OldItems(t)) /\ b = Len(NewItems(t))
    <2>1. /\ a <= Len(OldItems(t)) /\ b <= Len(NewItems(t))
          /\ 0 = (Len(OldItems(t)) - a) + (Len(NewItems(t)) - b)
      BY <1>2, <1>3, <1>4 DEF Reached
    <2>2. \A m, n \in Nat : a <= m /\ b <= n /\ 0 = (m - a) + (n - b) => a = m /\ b = n
      OBVIOUS
    <2>3. QED
      BY <1>4, <2>1, <2>2
  <1>6. ASSUME NEW p \in Products
        PROVE  /\ delta[t][p] = Ledger!Pieces(OldItems(t), p) - Ledger!Pieces(NewItems(t), p)
               /\ stock[p] \in Int /\ Ledger!Pieces(OldItems(t), p) \in Int
               /\ Ledger!Pieces(NewItems(t), p) \in Int
    <2>1. delta[t][p] = Part(OldItems(t), p, a) - Part(NewItems(t), p, b)
      BY <1>2, <1>3 DEF Reached
    <2>2. QED
      BY <1>2, <1>4, <1>5, <2>1, PartAll, PiecesType
  <1>7. stock' = [p \in Products |->
                    stock[p] + Ledger!Pieces(OldItems(t), p) - Ledger!Pieces(NewItems(t), p)]
    <2>1. \A p \in Products :
            stock[p] + delta[t][p]
              = stock[p] + Ledger!Pieces(OldItems(t), p) - Ledger!Pieces(NewItems(t), p)
      BY <1>6
    <2>2. QED
      BY <1>1, <2>1
  <1>8. ASSUME NEW p \in Products, Ledger!Pieces(NewItems(t), p) > 0
        PROVE  stock'[p] >= 0
    <2>1. PICK i \in 1 .. Len(NewItems(t)) : NewItems(t)[i][1] = p
      BY <1>4, <1>8, SomePieces
    <2>2. stock[p] + delta[t][p] >= 0
      BY <1>2, <1>3, <1>5, <2>1 DEF Reached
    <2>3. QED
      BY <1>1, <2>2
  <1>9. ASSUME NEW i \in DOMAIN NewItems(t) PROVE NewItems(t)[i][1] \in Products
    BY <1>1, <1>2, <1>3, <1>4, <1>5 DEF Reached
  <1>10. QED
    BY <1>7, <1>8, <1>9

\* A commit changes nothing that another handler goes by.
LEMMA CommitFits ==
    ASSUME NEW t, NEW r, Commits(t, r), \A u \in Requests : WorkFits(u)
    PROVE  \A u \in Requests : WorkFits(u)'
  <1> SUFFICES ASSUME NEW u \in Requests, Working(u)' PROVE WorkFits(u)'
    BY DEF WorkFits
  <1>1. Leaves(t, r) /\ Writes(t) /\ t \in Requests /\ IInv
    BY CommitLocals, CommitOrder DEF Commits
  <1>2. u # t /\ Working(u) /\ UNCHANGED <<todo[u], locked[u], delta[u], short[u]>>
    BY <1>1 DEF Leaves
  <1>3. OldItems(u)' = OldItems(u)
    BY <1>1, <1>2, Constants DEF OldItems, Writes
  <1>4. ASSUME NEW p \in locked[u] PROVE stock'[p] = stock[p]
    <2>1. p \in Products /\ stock[p] \in Int
      BY <1>1 DEF IInv, Types, TypeOK
    <2>2. p \notin locked[t]
      BY <1>1, <1>2 DEF IInv, Exclusive
    <2>3. delta[t][p] = 0
      BY <1>1, <2>1, <2>2 DEF IInv, HandlerFits
    <2>4. QED
      BY <2>1, <2>3 DEF Commits, Apply
  <1>5. QED
    BY <1>2, <1>3, <1>4, Untouched

----------------------------------------------------------------------------
(* No piece is lost or made.                                                *)

PiecesOf(orders, p) == [o \in Creates |-> Ledger!Pieces(orders[o].items, p)]

\* What Balanced sums up.
LEMMA PiecesSum ==
    ASSUME NEW orders, NEW S, S \subseteq Creates, IsFiniteSet(S), NEW p
    PROVE  MapThenSumSet(LAMBDA o : Ledger!Pieces(orders[o].items, p), S)
             = Total(PiecesOf(orders, p), S)
  <1> DEFINE f == PiecesOf(orders, p)
             g == CHOOSE g : g = [s \in SUBSET S |-> IF s = {} THEN 0
                                  ELSE Ledger!Pieces(orders[CHOOSE x \in s : TRUE].items, p)
                                         + g[s \ {CHOOSE x \in s : TRUE}]]
  <1>1. MapThenSumSet(LAMBDA o : Ledger!Pieces(orders[o].items, p), S) = g[S]
    BY DEF MapThenSumSet, MapThenFoldSet
  <1>2. PICK h : Sums(h, f, S)
    BY SumsExist
  <1>3. \A s \in SUBSET S : s # {} =>
           f[Pick(s)] = Ledger!Pieces(orders[CHOOSE x \in s : TRUE].items, p)
    BY Picked DEF Pick, PiecesOf
  <1> HIDE DEF f
  <1>4. h = [s \in SUBSET S |-> IF s = {} THEN 0
                                ELSE Ledger!Pieces(orders[CHOOSE x \in s : TRUE].items, p)
                                       + h[s \ {CHOOSE x \in s : TRUE}]]
    BY <1>2, <1>3 DEF Sums, Pick
  <1>5. g = [s \in SUBSET S |-> IF s = {} THEN 0
                                ELSE Ledger!Pieces(orders[CHOOSE x \in s : TRUE].items, p)
                                       + g[s \ {CHOOSE x \in s : TRUE}]]
    BY <1>4
  <1> HIDE DEF g
  <1>6. Sums(g, f, S)
    BY <1>3, <1>5 DEF Sums, Pick
  <1>7. Total(f, S) = g[S]
    <2>1. S \in SUBSET S
      OBVIOUS
    <2>2. QED
      BY <1>6, <2>1, TotalIs
  <1>8. QED
    BY <1>1, <1>7 DEF f

\* The order that t commits gives back the old items and has the new ones.
LEMMA CommitBooks ==
    ASSUME NEW t, NEW r, Commits(t, r), IsFiniteSet(Active), NEW p \in Products
    PROVE  /\ IsFiniteSet(Active')
           /\ Booked(p)' = Booked(p) - Ledger!Pieces(OldItems(t), p) + Ledger!Pieces(NewItems(t), p)
           /\ Booked(p) \in Int
  <1> DEFINE o == Target(t)
             f == PiecesOf(order, p)
             g == PiecesOf(order', p)
             rest == Active \ {o}
  <1>1. /\ Writes(t) /\ t \in Requests /\ IInv /\ o \in Creates
        /\ order \in [Creates -> Rows] /\ order' \in [Creates -> Rows]
    BY CommitOrder DEF Commits, Writes, IInv, Types
  <1>2. /\ \A x \in Creates : f[x] \in Int /\ g[x] \in Int
        /\ Ledger!Pieces(OldItems(t), p) \in Int /\ Ledger!Pieces(NewItems(t), p) \in Int
    BY <1>1, Plans, PiecesType DEF PiecesOf, Rows
  <1>3. \A x \in Creates : x # o => /\ g[x] = f[x]
                                    /\ x \in Active' <=> x \in Active
    BY <1>1 DEF PiecesOf, Writes, Active, Placed
  <1>4. IsFiniteSet(rest) /\ IsFiniteSet(Active')
    <2>1. IsFiniteSet(rest) /\ IsFiniteSet(rest \cup {o})
      BY FS_RemoveElement, FS_AddElement
    <2>2. Active' \subseteq rest \cup {o}
      BY <1>3 DEF Active
    <2>3. QED
      BY <2>1, <2>2, FS_Subset
  <1>5. /\ t \in Creates => o \notin Active /\ o \in Active'
        /\ t \in Updates => o \in Active /\ o \in Active'
        /\ t \in Cancels => o \in Active /\ o \notin Active'
    BY <1>1, Constants DEF Writes, Active, Placed, NoOrder
  <1>6. /\ o \in Active => f[o] = Ledger!Pieces(OldItems(t), p)
        /\ o \notin Active => Ledger!Pieces(OldItems(t), p) = 0
        /\ o \in Active' => g[o] = Ledger!Pieces(NewItems(t), p)
        /\ o \notin Active' => Ledger!Pieces(NewItems(t), p) = 0
    <2>1. CASE t \in Creates
      BY <1>1, <1>5, <2>1, Constants, NoPieces DEF PiecesOf, OldItems, NewItems, Writes
    <2>2. CASE t \in Updates
      BY <1>1, <1>5, <2>2, Constants DEF PiecesOf, OldItems, NewItems, Writes, Target
    <2>3. CASE t \in Cancels
      BY <1>1, <1>5, <2>3, Constants, NoPieces DEF PiecesOf, OldItems, NewItems, Target
    <2>4. QED
      BY <1>1, <2>1, <2>2, <2>3, Constants
  <1>7. Active \subseteq Creates /\ Active' \subseteq Creates
    BY DEF Active
  <1>8. Booked(p) = Total(f, Active) /\ Booked(p)' = Total(g, Active')
    <2>1. Booked(p) = MapThenSumSet(LAMBDA x : Ledger!Pieces(order[x].items, p), Active)
      BY DEF Booked
    <2>2. Booked(p)' = MapThenSumSet(LAMBDA x : Ledger!Pieces(order'[x].items, p), Active')
      BY DEF Booked, Active, Placed, MapThenSumSet, MapThenFoldSet,
             Ledger!Pieces, Ledger!MapThenSumSet, Ledger!MapThenFoldSet
    <2>3. QED
      BY <1>4, <1>7, <2>1, <2>2, PiecesSum
  <1>9. Active' \ {o} = rest
    BY <1>3, <1>7
  <1> HIDE DEF f, g, o
  <1>10. Total(g, rest) = Total(f, rest) /\ Total(f, rest) \in Int
    <2>1. \A x \in rest : g[x] = f[x] /\ f[x] \in Int
      BY <1>2, <1>3, <1>7
    <2>2. QED
      BY <1>4, <2>1, TotalSame, TotalType
  <1>11. Total(f, Active) = Ledger!Pieces(OldItems(t), p) + Total(f, rest)
    <2>1. CASE o \in Active
      BY <1>2, <1>6, <1>7, <2>1, TotalOne
    <2>2. CASE o \notin Active
      <3>1. Total(f, rest) = Total(f, Active)
        <4>1. rest = Active
          BY <2>2
        <4> HIDE DEF rest
        <4>2. QED
          BY <4>1
      <3>2. Ledger!Pieces(OldItems(t), p) = 0
        BY <1>6, <2>2
      <3>3. QED
        BY <1>10, <3>1, <3>2
    <2>3. QED
      BY <2>1, <2>2
  <1>12. Total(g, Active') = Ledger!Pieces(NewItems(t), p) + Total(f, rest)
    <2>1. CASE o \in Active'
      <3>1. Total(g, Active') = g[o] + Total(g, Active' \ {o})
        BY <1>2, <1>4, <1>7, <2>1, TotalOne
      <3>2. QED
        BY <1>6, <1>9, <1>10, <2>1, <3>1
    <2>2. CASE o \notin Active'
      <3>1. Total(g, Active') = Total(g, rest)
        <4>1. rest = Active'
          BY <1>9, <2>2
        <4> HIDE DEF rest
        <4>2. QED
          BY <4>1
      <3>2. Ledger!Pieces(NewItems(t), p) = 0
        BY <1>6, <2>2
      <3>3. QED
        BY <1>10, <3>1, <3>2
    <2>3. QED
      BY <2>1, <2>2
  <1>13. QED
    BY <1>2, <1>4, <1>8, <1>10, <1>11, <1>12

LEMMA InitLedgerInv == Init => LedgerInv
  <1> SUFFICES ASSUME Init PROVE LedgerInv
    OBVIOUS
  <1>1. Active = {} /\ \A t \in Requests : WorkFits(t)
    BY DEF Init, Active, Placed, NoOrder, WorkFits, Working
  <1>2. ASSUME NEW p \in Products PROVE stock[p] + Booked(p) = InitialStock[p]
    <2>1. Booked(p) = MapThenSumSet(LAMBDA o : Ledger!Pieces(order[o].items, p), Active)
      BY DEF Booked
    <2>2. Active \subseteq Creates
      BY DEF Active
    <2>3. Booked(p) = Total(PiecesOf(order, p), {})
      BY <1>1, <2>1, <2>2, FS_EmptySet, PiecesSum
    <2>4. QED
      BY <2>3, TotalNone, Constants DEF Init
  <1>3. QED
    BY <1>1, <1>2, InitIInv, FS_EmptySet DEF LedgerInv, Balanced, Init

\* What the ledger sees does not change.
Prepares == UNCHANGED <<stock, uses, order, reply>>

\* A request that is refused is open, and a refusal that says why says so truly.
Declines(t, r) ==
    /\ pc[t] # "done" /\ Refuse(t, r)
    /\ r = "ORDER_OWNERSHIP_VIOLATION" => t \in Changes /\ ~ Allowed(t)
    /\ r = "INVALID_STATE_TRANSITION" => order[OrderOf[t]].status = "CANCELED"

\* Every step commits, or answers without a change, or only prepares.
LEMMA StepOutcomes ==
    ASSUME IInv, [Next]_vars
    PROVE  \/ Prepares
           \/ \E t \in Requests : \E r : Commits(t, r) /\ r \in GetOrder(t) \cup {"DB_ERROR"}
           \/ \E u \in Requests, r \in Ledger!Refusals : Declines(u, r)
  <1>1. CASE UNCHANGED vars
    BY <1>1 DEF vars, Prepares
  <1>2. CASE \/ \E p \in Products : DeleteProduct(p)
             \/ \E q \in Promos : PromoEnds(q)
             \/ \E op \in recent : Minute(op)
    BY <1>2 DEF DeleteProduct, PromoEnds, Minute, Prepares
  <1>3. ASSUME NEW t \in Requests, Fail(t) \/ DeadlockAbort(t)
        PROVE  \E u \in Requests, r \in Ledger!Refusals : Declines(u, r)
    <2>1. Fail(t)
      BY <1>3 DEF DeadlockAbort
    <2>2. /\ FailureReply(t) \in Ledger!Refusals
          /\ FailureReply(t) # "ORDER_OWNERSHIP_VIOLATION"
          /\ FailureReply(t) # "INVALID_STATE_TRANSITION"
      BY DEF FailureReply, Ledger!Refusals
    <2>3. QED
      BY <2>1, <2>2 DEF Fail, Declines
  <1>4. ASSUME NEW t \in Requests, Handle(t)
        PROVE  \/ Prepares
               \/ \E r : Commits(t, r) /\ r \in GetOrder(t) \cup {"DB_ERROR"}
               \/ \E u \in Requests, r \in Ledger!Refusals : Declines(u, r)
    <2>1. CASE CheckRate(t)
      BY <2>1 DEF CheckRate, Goto, data, Prepares, Declines, Ledger!Refusals
    <2>2. CASE CheckActive(t)
      BY <2>2 DEF CheckActive, Goto, data, Prepares, Declines, Ledger!Refusals
    <2>3. CASE RefuseChange(t)
      BY <2>3 DEF RefuseChange, Declines, Ledger!Refusals
    <2>4. CASE LockOrder(t)
      BY <2>4 DEF LockOrder, Goto, data, Prepares
    <2>5. CASE Item(t)
      BY <2>5 DEF Item, At, GiveBack, RefuseItem, TakeItem, data, Prepares, Declines, Ledger!Refusals
    <2>6. CASE Promo(t)
      BY <2>6 DEF Promo, Insufficient, WithoutPromo, RefusePromo, UsePromo, SettlePromo, Ready,
          AllTaken, ItemsDone, Goto, data, Prepares, Declines, Ledger!Refusals
    <2>7. CASE Commit(t)
      BY <2>7 DEF Commit, Commits
    <2>8. QED
      BY <1>4, <2>1, <2>2, <2>3, <2>4, <2>5, <2>6, <2>7 DEF Handle, Check
  <1>5. QED
    BY <1>1, <1>2, <1>3, <1>4 DEF Next

\* One order more is active at most.
LEMMA CommitActive ==
    ASSUME NEW t, NEW r, Commits(t, r), IsFiniteSet(Active)
    PROVE  IsFiniteSet(Active')
  <1>1. IsFiniteSet(Active \cup {Target(t)})
    BY FS_AddElement
  <1>2. Active' \subseteq Active \cup {Target(t)}
    BY CommitOrder DEF Writes, Active, Placed
  <1>3. QED
    BY <1>1, <1>2, FS_Subset

LEMMA NextLedgerInv ==
    ASSUME LedgerInv, [Next]_vars
    PROVE  LedgerInv'
  <1>1. IInv /\ IInv' /\ \A u \in Requests : WorkFits(u)
    BY NextIInv DEF LedgerInv
  <1>2. \A u \in Requests : WorkFits(u)'
    <2>1. CASE UNCHANGED vars
      <3>1. UNCHANGED <<stock, order, pc, todo, locked, delta, short>>
        BY <2>1 DEF vars
      <3>2. QED
        BY <1>1, <3>1, Untouched DEF Working, OldItems
    <2>2. CASE \/ \E p \in Products : DeleteProduct(p)
               \/ \E q \in Promos : PromoEnds(q)
               \/ \E op \in recent : Minute(op)
      <3>1. UNCHANGED <<stock, order, pc, todo, locked, delta, short>>
        BY <2>2 DEF DeleteProduct, PromoEnds, Minute, local
      <3>2. QED
        BY <1>1, <3>1, Untouched DEF Working, OldItems
    <2>3. ASSUME NEW t \in Requests, Fail(t) \/ DeadlockAbort(t)
          PROVE  \A u \in Requests : WorkFits(u)'
      BY <1>1, <2>3, RefusedFits DEF DeadlockAbort, Fail
    <2>4. ASSUME NEW t \in Requests, Handle(t)
          PROVE  \A u \in Requests : WorkFits(u)'
      <3>1. CASE Commit(t)
        <4>1. PICK r : Commits(t, r)
          BY <1>1, <3>1 DEF Commit, Commits
        <4>2. QED
          BY <1>1, <4>1, CommitFits
      <3>2. QED
        BY <1>1, <2>4, <3>1, ChecksFit, ItemsKeepFit DEF Handle
    <2>5. QED
      BY <2>1, <2>2, <2>3, <2>4 DEF Next
  <1>3. DOMAIN reply' = Requests
    <2>1. reply' = reply \/ \E t, r : reply' = [reply EXCEPT ![t] = r]
      BY <1>1, StepOutcomes DEF Prepares, Declines, Commits, Refuse, Answer
    <2>2. QED
      BY <2>1 DEF LedgerInv
  <1>4. IsFiniteSet(Active') /\ Balanced'
    <2>1. CASE \E t \in Requests : \E r : Commits(t, r)
      <3>1. PICK t \in Requests : \E r : Commits(t, r)
        BY <2>1
      <3>2. PICK r : Commits(t, r)
        BY <3>1
      <3>3. IsFiniteSet(Active')
        BY <3>2, CommitActive DEF LedgerInv
      <3>4. ASSUME NEW p \in Products PROVE stock'[p] + Booked(p)' = InitialStock[p]
        <4>1. /\ Booked(p)' = Booked(p) - Ledger!Pieces(OldItems(t), p) + Ledger!Pieces(NewItems(t), p)
              /\ Booked(p) \in Int
          BY <3>2, CommitBooks DEF LedgerInv
        <4>2. stock'[p] = stock[p] + Ledger!Pieces(OldItems(t), p) - Ledger!Pieces(NewItems(t), p)
          BY <1>1, <3>2, CommitMoves
        <4>3. /\ Ledger!Pieces(OldItems(t), p) \in Int /\ Ledger!Pieces(NewItems(t), p) \in Int
              /\ stock[p] \in Int
          BY <1>1, Plans, PiecesType DEF IInv, Types, TypeOK
        <4>4. stock[p] + Booked(p) = InitialStock[p]
          BY DEF LedgerInv, Balanced
        <4>5. QED
          BY <4>1, <4>2, <4>3, <4>4
      <3>5. QED
        BY <3>3, <3>4 DEF Balanced
    <2>2. CASE UNCHANGED <<stock, order>>
      <3>1. IsFiniteSet(Active')
        BY <2>2 DEF LedgerInv, Active, Placed
      <3>2. Active \subseteq Creates /\ Active' = Active
        BY <2>2 DEF Active, Placed
      <3>3. ASSUME NEW p \in Products PROVE Booked(p)' = Booked(p)
        BY <2>2 DEF Booked, Active, Placed, MapThenSumSet, MapThenFoldSet,
             Ledger!Pieces, Ledger!MapThenSumSet, Ledger!MapThenFoldSet
      <3>4. QED
        BY <2>2, <3>1, <3>3 DEF LedgerInv, Balanced
    <2>3. QED
      BY <1>1, <2>1, <2>2, StepOutcomes DEF Prepares, Declines, Refuse, data
  <1>5. QED
    BY <1>1, <1>2, <1>3, <1>4 DEF LedgerInv

----------------------------------------------------------------------------
(* Every step is a step of the ledger, or none.                             *)

\* A refusal is a refusal of the ledger.
LEMMA RefuseMaps ==
    ASSUME LedgerInv, NEW t \in Requests, NEW r \in Ledger!Refusals, Declines(t, r)
    PROVE  Ledger!Refuse(t)
  <1>1. /\ reply[t] = "none" /\ reply' = [reply EXCEPT ![t] = r] /\ reply'[t] = r
        /\ UNCHANGED <<stock, uses, order>>
    BY DEF LedgerInv, IInv, HandlerFits, Declines, Refuse, Answer, data
  <1>2. /\ r = "ORDER_OWNERSHIP_VIOLATION" =>
             t \in Changes /\ UserOf[t] \notin Admins \cup {UserOf[OrderOf[t]]}
        /\ r = "INVALID_STATE_TRANSITION" => order[OrderOf[t]].status = "CANCELED"
    BY DEF Declines, Allowed
  <1>3. QED
    BY <1>1, <1>2, Constants DEF Ledger!Refuse, Ledger!Answered, Ledger!Changes

\* A commit is a change of the ledger.
LEMMA CommitMaps ==
    ASSUME LedgerInv, NEW t \in Requests, NEW r \in GetOrder(t) \cup {"DB_ERROR"}, Commits(t, r)
    PROVE  \/ t \in Creates /\ Ledger!Create(t)
           \/ t \in Updates /\ Ledger!Update(t, OrderOf[t])
           \/ t \in Cancels /\ Ledger!Cancel(t, OrderOf[t])
  <1>1. /\ reply[t] = "none" /\ reply' = [reply EXCEPT ![t] = r]
        /\ pc[t] = "ready" /\ Working(t) /\ PromoFits(t)
        /\ keep[t] \in Promos \cup {NoPromo} /\ PromoUsed(t) \in Promos \cup {NoPromo}
        /\ uses \in [Promos -> Nat] /\ order \in [Creates -> Rows]
        /\ uses' = [q \in Promos |-> uses[q] + IF q = PromoUsed(t) THEN UsesChange(t) ELSE 0]
    BY DEF LedgerInv, IInv, HandlerFits, Types, TypeOK, PromoFits, Commits, Apply, Answer, Working
  <1>2. Ledger!Done(t)
    BY <1>1, Constants DEF Ledger!Done, Ledger!Answered, Ledger!Unsure, GetOrder
  <1>3. Ledger!Move(OldItems(t), NewItems(t))
    <2>1. WorkFits(t)
      BY DEF LedgerInv
    <2>2. QED
      BY <2>1, CommitMoves DEF Ledger!Move
  <1>4. Writes(t)
    BY CommitOrder
  <1>5. t \in Changes =>
          /\ OrderOf[t] = Target(t) /\ order[OrderOf[t]].status = "CREATED"
          /\ [x \in Changes |-> UserOf[x] \in Admins \cup {UserOf[OrderOf[x]]}][t]
    BY <1>1, <1>4, Constants DEF LedgerInv, WorkFits, Writes, Target, Placed, Allowed
  <1>6. CASE t \in Creates
    <2>1. /\ OldItems(t) = << >> /\ NewItems(t) = ItemsOf[t]
          /\ PromoUsed(t) = PromoOf[t] /\ keep[t] = PromoOf[t]
      BY <1>1, <1>6, Constants DEF OldItems, NewItems, PromoUsed, PromoFits
    <2>2. Ledger!Use(PromoOf[t], 1)
      BY <1>1, <1>6, <2>1, Constants DEF Ledger!Use, UsesChange
    <2>3. PromoOf[t] \in Promos => uses'[PromoOf[t]] <= MaxUses[PromoOf[t]]
      <3> SUFFICES ASSUME PromoOf[t] \in Promos PROVE uses'[PromoOf[t]] <= MaxUses[PromoOf[t]]
        OBVIOUS
      <3>1. uses[PromoOf[t]] < MaxUses[PromoOf[t]]
        BY <1>1, <1>6, <2>1 DEF PromoFits
      <3>2. uses'[PromoOf[t]] = uses[PromoOf[t]] + 1
        BY <2>2 DEF Ledger!Use
      <3>3. QED
        BY <1>1, <3>1, <3>2, Constants
    <2>4. order' = [order EXCEPT ![t] =
                      [status |-> "CREATED", items |-> ItemsOf[t], promo |-> PromoOf[t]]]
      BY <1>6, <2>1, Constants DEF Commits, Apply
    <2>5. QED
      BY <1>1, <1>2, <1>3, <1>6, <2>1, <2>2, <2>3, <2>4 DEF Ledger!Create
  <1>7. CASE t \in Updates
    <2> DEFINE o == OrderOf[t]
    <2>1. /\ OldItems(t) = order[o].items /\ NewItems(t) = ItemsOf[t] /\ o \in Creates
          /\ PromoUsed(t) = order[o].promo /\ keep[t] \in {order[o].promo, NoPromo}
      BY <1>1, <1>7, Constants DEF OldItems, NewItems, PromoUsed, PromoFits
    <2>2. order' = [order EXCEPT ![o].items = ItemsOf[t], ![o].promo = keep[t]]
      BY <1>7, Constants DEF Commits, Apply
    <2>3. CASE keep[t] = order[o].promo
      <3>1. uses' = uses
        BY <1>1, <1>7, <2>1, <2>3, Constants DEF UsesChange
      <3>2. order' = [order EXCEPT ![o].items = ItemsOf[t]]
        <4> DEFINE row == order[o]
                   new == [row EXCEPT !.items = ItemsOf[t]]
        <4>1. row \in Rows /\ new \in Rows /\ new.promo = row.promo
          BY <1>1, <1>7, <2>1, Constants DEF Rows
        <4>2. [new EXCEPT !.promo = row.promo] = new
          <5> HIDE DEF new
          <5>1. QED
            BY <4>1 DEF Rows
        <4>3. order' = [order EXCEPT ![o] = [new EXCEPT !.promo = keep[t]]]
          BY <1>1, <2>1, <2>2
        <4>4. QED
          BY <2>3, <4>2, <4>3
      <3>3. QED
        BY <1>2, <1>3, <1>5, <1>7, <2>1, <3>1, <3>2, Constants DEF Ledger!Update
    <2>4. CASE keep[t] = NoPromo /\ order[o].promo # NoPromo
      <3>1. Ledger!Use(order[o].promo, -1)
        BY <1>1, <1>7, <2>1, <2>4, Constants DEF Ledger!Use, UsesChange
      <3>2. order' = [order EXCEPT ![o].items = ItemsOf[t], ![o].promo = NoPromo]
        BY <2>2, <2>4
      <3>3. QED
        BY <1>2, <1>3, <1>5, <1>7, <2>1, <3>1, <3>2, Constants DEF Ledger!Update
    <2>5. QED
      BY <2>1, <2>3, <2>4
  <1>8. CASE t \in Cancels
    <2> DEFINE o == OrderOf[t]
    <2>1. /\ OldItems(t) = order[o].items /\ NewItems(t) = << >>
          /\ PromoUsed(t) = order[o].promo
      BY <1>8, Constants DEF OldItems, NewItems, PromoUsed
    <2>2. Ledger!Use(order[o].promo, -1)
      BY <1>1, <1>8, <2>1, Constants DEF Ledger!Use, UsesChange
    <2>3. order' = [order EXCEPT ![o].status = "CANCELED"]
      BY <1>8, Constants DEF Commits, Apply
    <2>4. QED
      BY <1>2, <1>3, <1>5, <1>8, <2>1, <2>2, <2>3, Constants DEF Ledger!Cancel
  <1>9. QED
    BY <1>6, <1>7, <1>8, Constants

LEMMA StepMaps ==
    ASSUME LedgerInv, [Next]_vars
    PROVE  [Ledger!Next]_(Ledger!vars)
  <1>1. IInv
    BY DEF LedgerInv
  <1>2. CASE Prepares
    BY <1>2 DEF Prepares, Ledger!vars
  <1>3. CASE \E t \in Requests : \E r : Commits(t, r) /\ r \in GetOrder(t) \cup {"DB_ERROR"}
    BY <1>3, CommitMaps DEF Ledger!Next
  <1>4. CASE \E t \in Requests, r \in Ledger!Refusals : Declines(t, r)
    BY <1>4, RefuseMaps, Constants DEF Ledger!Next, Ledger!Changes
  <1>5. QED
    BY <1>1, <1>2, <1>3, <1>4, StepOutcomes

----------------------------------------------------------------------------
(* What follows from it.                                                    *)

\* A handler's plan, the pieces it has moved and what the others sold stay in
\* step through every interleaving of the statements of orders.go:24-433.
THEOREM LedgerInductive == Init /\ [][Next]_vars => []LedgerInv
  BY InitLedgerInv, NextLedgerInv, PTL

\* Whatever the quantities are, the stock lacks exactly what orders ask for: an
\* item of minus one, which no handler refuses, adds a piece to the stock
\* (orders.go:82, 307), and a cancellation takes it away again (line 418).
THEOREM QuantitiesBalance == Spec \/ SpecApart => []Balanced
  <1>1. LedgerInv => Balanced
    BY DEF LedgerInv
  <1>2. QED
    BY <1>1, LedgerInductive, Handlers, PTL

\* When every item asks for at least one piece, an order takes what it asks for.
LEMMA OrdersTake ==
    ASSUME IInv, Positive, NEW o \in Creates, NEW p
    PROVE  Taken(o, p) = Ledger!Pieces(order[o].items, p)
  <1> DEFINE items == order[o].items
  <1>1. items \in Seq(Ids \X (Nat \ {0}))
    BY DEF IInv, Types, Rows, Lists, Quantities
  <1>2. \A i \in DOMAIN items : items[i][2] > 0
    BY <1>1
  <1>3. {i \in DOMAIN items : items[i][1] = p /\ items[i][2] > 0}
          = {i \in DOMAIN items : items[i][1] = p}
    BY <1>2
  <1>4. QED
    BY <1>3 DEF Taken, MapThenSumSet, MapThenFoldSet,
           Ledger!Pieces, Ledger!MapThenSumSet, Ledger!MapThenFoldSet

\* Then StockConserved sums up what Balanced does.
LEMMA TakenIsBooked ==
    ASSUME IInv, Positive, IsFiniteSet(Active), NEW p
    PROVE  MapThenSumSet(LAMBDA o : Taken(o, p), Active) = Booked(p)
  <1> DEFINE f == PiecesOf(order, p)
             g == CHOOSE g : g = [s \in SUBSET Active |-> IF s = {} THEN 0
                                  ELSE Taken(CHOOSE x \in s : TRUE, p)
                                         + g[s \ {CHOOSE x \in s : TRUE}]]
  <1>1. MapThenSumSet(LAMBDA o : Taken(o, p), Active) = g[Active]
    BY DEF MapThenSumSet, MapThenFoldSet
  <1>2. PICK h : Sums(h, f, Active)
    BY SumsExist
  <1>3. \A s \in SUBSET Active : s # {} => f[Pick(s)] = Taken(CHOOSE x \in s : TRUE, p)
    <2> SUFFICES ASSUME NEW s \in SUBSET Active, s # {}
                 PROVE  f[Pick(s)] = Taken(Pick(s), p)
      BY DEF Pick
    <2>1. Pick(s) \in Creates
      BY Picked DEF Active
    <2>2. QED
      BY <2>1, OrdersTake DEF PiecesOf
  <1> HIDE DEF f
  <1>4. h = [s \in SUBSET Active |-> IF s = {} THEN 0
                                     ELSE Taken(CHOOSE x \in s : TRUE, p)
                                            + h[s \ {CHOOSE x \in s : TRUE}]]
    BY <1>2, <1>3 DEF Sums, Pick
  <1>5. g = [s \in SUBSET Active |-> IF s = {} THEN 0
                                     ELSE Taken(CHOOSE x \in s : TRUE, p)
                                            + g[s \ {CHOOSE x \in s : TRUE}]]
    BY <1>4
  <1> HIDE DEF g
  <1>6. Sums(g, f, Active)
    BY <1>3, <1>5 DEF Sums, Pick
  <1>7. Total(f, Active) = g[Active]
    <2>1. Active \in SUBSET Active
      OBVIOUS
    <2>2. QED
      BY <1>6, <2>1, TotalIs
  <1>8. Active \subseteq Creates
    BY DEF Active
  <1>9. Booked(p) = Total(f, Active)
    BY <1>8, PiecesSum DEF Booked, f
  <1>10. QED
    BY <1>1, <1>7, <1>9

\* When every item asks for at least one piece, no handler loses a piece or
\* makes one, whatever overlaps, fails or aborts (orders.go:69-93, 286-314,
\* 417-425): here also when creates overlap.
THEOREM NoPieceLost == Positive => (Spec \/ SpecApart => []StockConserved)
  <1> SUFFICES ASSUME Positive PROVE Spec \/ SpecApart => []StockConserved
    OBVIOUS
  <1>1. LedgerInv => StockConserved
    <2> SUFFICES ASSUME LedgerInv, NEW p \in Products
                 PROVE  stock[p] + MapThenSumSet(LAMBDA o : Taken(o, p), {o \in Creates : Placed(o)})
                          = InitialStock[p]
      BY DEF StockConserved
    <2>1. MapThenSumSet(LAMBDA o : Taken(o, p), {o \in Creates : Placed(o)}) = Booked(p)
      BY TakenIsBooked DEF LedgerInv, Active
    <2>2. QED
      BY <2>1 DEF LedgerInv, Balanced
  <1>2. QED
    BY <1>1, LedgerInductive, Handlers, PTL

\* Every request is one atomic change, made when it is answered, or none
\* (orders.go:24-433): each step maps to a step of OrderLedger or a stutter.
THEOREM ImplementsLedger == Spec \/ SpecApart => RefinesLedger
  <1>1. Init => Ledger!Init
    BY Constants DEF Init, Ledger!Init, Ledger!Changes, Requests
  <1>2. QED
    BY <1>1, StepMaps, LedgerInductive, Handlers, PTL DEF RefinesLedger, Ledger!Spec
================================================================================
