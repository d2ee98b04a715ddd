---------------------------- MODULE OrdersProofs ----------------------------
(***************************************************************************)
(* Theorems about Orders: what the row locks of a handler protect.         *)
(***************************************************************************)
EXTENDS Orders, FiniteSetTheorems, SequenceTheorems, TLAPS

----------------------------------------------------------------------------
(* The inductive invariant.                                                 *)

Quantities == IF Positive THEN Nat \ {0} ELSE Int
Lists == Seq(Ids \X Quantities)
StepsToDo == [method : {"give", "take"}, product : Ids, quantity : Quantities]
Rows == [status : {"NONE", "CREATED", "CANCELED"}, items : Lists, promo : Promos \cup {NoPromo}]
Zero == [p \in Products |-> 0]

\* All of these are rows of table products.
Known(items) == \A i \in DOMAIN items : items[i][1] \in Products

Types ==
    /\ TypeOK
    /\ order \in [Creates -> Rows]
    /\ todo \in [Requests -> Seq(StepsToDo)]

\* Working(t): the transaction of t is past the checks and may hold row locks.
Working(t) == pc[t] \in {"items", "ready"}

\* A handler has locks and unfinished work only while it works on items, and
\* changes only stocks whose rows it has locked.
HandlerFits(t) ==
    /\ pc[t] = "rated" => t \in Creates
    /\ ~ Working(t) => /\ todo[t] = << >> /\ locked[t] = {} /\ delta[t] = Zero
                       /\ ~ short[t] /\ keep[t] = NoPromo
    /\ pc[t] = "ready" => todo[t] = << >> /\ ~ short[t]
    /\ \A p \in Products : delta[t][p] # 0 => p \in locked[t]
    /\ pc[t] # "done" => reply[t] = "none"

\* What is to be given back is a known product, and so is what was taken.
ItemsFit(t) ==
    /\ \A j \in DOMAIN todo[t] : todo[t][j].method = "give" => todo[t][j].product \in Products
    /\ Working(t) /\ t \notin Cancels =>
         \A i \in DOMAIN ItemsOf[t] :
            \/ ItemsOf[t][i][1] \in Products
            \/ \E j \in DOMAIN todo[t] :
                  todo[t][j].method = "take" /\ todo[t][j].product = ItemsOf[t][i][1]

\* Row locks are exclusive.
Exclusive ==
    /\ \A t, u \in Requests : t # u => locked[t] \cap locked[u] = {}
    /\ \A t, u \in Changes :
         t # u /\ OrderOf[t] = OrderOf[u] => ~ Working(t) \/ ~ Working(u)
    /\ \A t, u \in Requests :
         /\ t # u /\ pc[t] = "ready" /\ pc[u] = "ready"
         /\ PromoUsed(t) = PromoUsed(u)
         => PromoUsed(t) = NoPromo

\* An order is there when its create has been answered at the latest, and stays
\* CREATED while somebody works on it.
OrdersFit ==
    /\ \A o \in Creates :
         /\ order[o].status = "NONE" => order[o] = NoOrder
         /\ pc[o] # "done" => order[o] = NoOrder
         /\ Known(order[o].items)
    /\ \A t \in Changes : Working(t) => Placed(OrderOf[t])

\* What a handler that is ready to commit has found under the promo's lock.
PromoFits(t) ==
    pc[t] = "ready" =>
        /\ PromoUsed(t) \in Promos \cup {NoPromo}
        /\ t \in Creates => keep[t] = PromoUsed(t)
        /\ t \in Creates /\ PromoUsed(t) \in Promos => uses[PromoUsed(t)] < MaxUses[PromoUsed(t)]
        /\ t \in Updates => keep[t] \in {PromoUsed(t), NoPromo}

UsersOf(q) == {o \in Creates : Placed(o) /\ order[o].promo = q}

UsesFit ==
    \A q \in Promos :
        /\ IsFiniteSet(UsersOf(q))
        /\ uses[q] = Cardinality(UsersOf(q))
        /\ uses[q] <= MaxUses[q]

\* Nobody takes more than there is.
StockFits == Positive => \A t \in Requests, p \in Products : stock[p] + delta[t][p] >= 0

\* The updates of the user of t name one order.
OneOrder(t) == \A s \in Updates : UserOf[s] = UserOf[t] => OrderOf[s] = OrderOf[t]

UpdatesFit ==
    \A t \in Updates : Working(t) /\ OneOrder(t) => Operation(t) \notin recent

IInv ==
    /\ Types
    /\ \A t \in Requests : HandlerFits(t) /\ ItemsFit(t) /\ PromoFits(t)
    /\ Exclusive
    /\ OrdersFit
    /\ UsesFit
    /\ StockFits
    /\ UpdatesFit

----------------------------------------------------------------------------
\* Constants, for the leaves.
LEMMA Constants ==
    /\ Requests = Creates \cup Updates \cup Cancels /\ Changes = Updates \cup Cancels
    /\ Creates \cap Changes = {} /\ Updates \cap Cancels = {}
    /\ \A t \in Changes : OrderOf[t] \in Creates
    /\ \A t \in Creates \cup Updates : ItemsOf[t] \in Lists
    /\ NoPromo \notin Promos
    /\ MaxUses \in [Promos -> Nat] /\ InitialStock \in [Products -> Nat]
    /\ Quantities \subseteq Int
  <1>1. \A t \in Creates \cup Updates : ItemsOf[t] \in Lists
    <2> SUFFICES ASSUME NEW t \in Creates \cup Updates PROVE ItemsOf[t] \in Lists
      OBVIOUS
    <2>1. ItemsOf[t] \in Seq(Ids \X Int) /\ t \in DOMAIN ItemsOf
      BY ItemsAssumption
    <2>2. \A i \in DOMAIN ItemsOf[t] : ItemsOf[t][i] \in Ids \X Quantities
      BY <2>1 DEF Quantities, Positive
    <2>3. QED
      BY <2>1, <2>2 DEF Lists
  <1>2. QED
    BY <1>1, RequestsAssumption, PromosAssumption, StockAssumption
    DEF Requests, Changes, Quantities

LEMMA InitIInv == Init => IInv
  <1> SUFFICES ASSUME Init PROVE IInv
    OBVIOUS
  <1>1. Types
    BY Constants DEF Init, Types, TypeOK, NoOrder, Rows, Lists
  <1>2. \A t \in Requests : HandlerFits(t) /\ ItemsFit(t) /\ PromoFits(t)
    BY DEF Init, HandlerFits, ItemsFit, PromoFits, Working, Zero
  <1>3. Exclusive
    BY Constants DEF Init, Exclusive, Working
  <1>4. OrdersFit
    BY Constants DEF Init, OrdersFit, NoOrder, Known, Working, Requests
  <1>5. UsesFit
    <2>1. \A q \in Promos : UsersOf(q) = {}
      BY DEF Init, UsersOf, Placed, NoOrder
    <2>2. IsFiniteSet({}) /\ Cardinality({}) = 0
      BY FS_EmptySet
    <2>3. \A q \in Promos : uses[q] = 0 /\ MaxUses[q] \in Nat
      BY Constants DEF Init
    <2>4. QED
      BY <2>1, <2>2, <2>3 DEF UsesFit
  <1>6. StockFits /\ UpdatesFit
    BY Constants DEF Init, StockFits, UpdatesFit, Working, Requests
  <1>7. QED
    BY <1>1, <1>2, <1>3, <1>4, <1>5, <1>6 DEF IInv

----------------------------------------------------------------------------
(* Every step keeps it.                                                     *)

\* A refusal drops the locks of t and changes no data.
LEMMA RefuseKeepsIInv ==
    ASSUME IInv, NEW t \in Requests, NEW r, Refuse(t, r)
    PROVE  IInv'
  <1> USE DEF IInv
  <1>1. /\ UNCHANGED <<stock, active, uses, open, order, recent>>
        /\ pc' = [pc EXCEPT ![t] = "done"] /\ reply' = [reply EXCEPT ![t] = r]
        /\ todo' = [todo EXCEPT ![t] = << >>] /\ locked' = [locked EXCEPT ![t] = {}]
        /\ delta' = [delta EXCEPT ![t] = Zero] /\ short' = [short EXCEPT ![t] = FALSE]
        /\ keep' = [keep EXCEPT ![t] = NoPromo]
    BY DEF Refuse, Answer, data, Zero
  <1>2. Types /\ TypeOK
    BY DEF Types
  <1>3. \A u \in Requests : ~ Working(u) => ~ Working(u)'
    BY <1>1, <1>2 DEF TypeOK, Working
  <1>4. Types'
    <2>1. TypeOK'
      BY <1>1, <1>2, Constants DEF TypeOK, Zero, Operation
    <2>2. QED
      BY <1>1, <1>2, <2>1 DEF Types, Rows
  <1>5. ASSUME NEW u \in Requests PROVE (HandlerFits(u) /\ ItemsFit(u) /\ PromoFits(u))'
    <2>1. CASE u = t
      BY <1>1, <1>2, <2>1 DEF Types, TypeOK, HandlerFits, ItemsFit, PromoFits, Working, Zero
    <2>2. CASE u # t
      <3>1. UNCHANGED <<pc[u], todo[u], locked[u], delta[u], short[u], keep[u], reply[u]>>
        BY <1>1, <2>2
      <3>2. QED
        BY <1>1, <3>1 DEF HandlerFits, ItemsFit, PromoFits, Working, PromoUsed
    <2>3. QED
      BY <2>1, <2>2
  <1>6. Exclusive'
    BY <1>1, <1>2, <1>3, Constants DEF TypeOK, Exclusive, Working, PromoUsed
  <1>7. OrdersFit'
    BY <1>1, <1>2, <1>3, Constants DEF TypeOK, OrdersFit, Placed, Known
  <1>8. UsesFit'
    BY <1>1 DEF UsesFit, UsersOf, Placed
  <1>9. StockFits'
    BY <1>1, <1>2 DEF TypeOK, StockFits, Zero
  <1>10. UpdatesFit'
    BY <1>1, <1>3, Constants DEF UpdatesFit, OneOrder, Operation
  <1>11. QED
    BY <1>4, <1>5, <1>6, <1>7, <1>8, <1>9, <1>10

\* The first unlocked read of a create.
LEMMA RatedKeepsIInv ==
    ASSUME IInv, NEW t \in Creates, pc[t] = "idle", Goto(t, "rated"), UNCHANGED <<data, local>>
    PROVE  IInv'
  <1> USE DEF IInv
  <1>1. /\ UNCHANGED <<stock, active, uses, open, order, recent, todo, locked, delta, short,
                       keep, reply>>
        /\ pc' = [pc EXCEPT ![t] = "rated"]
    BY DEF Goto, data, local
  <1>2. Types /\ TypeOK /\ t \in Requests
    BY Constants DEF Types
  <1>3. \A u \in Requests : Working(u)' <=> Working(u)
    BY <1>1, <1>2 DEF TypeOK, Working
  <1>4. Types'
    BY <1>1, <1>2 DEF Types, TypeOK, Rows, Operation
  <1>5. ASSUME NEW u \in Requests PROVE (HandlerFits(u) /\ ItemsFit(u) /\ PromoFits(u))'
    BY <1>1, <1>2, <1>3 DEF TypeOK, HandlerFits, ItemsFit, PromoFits, PromoUsed
  <1>6. Exclusive'
    BY <1>1, <1>2, <1>3, Constants DEF TypeOK, Exclusive, PromoUsed
  <1>7. OrdersFit'
    BY <1>1, <1>2, <1>3, Constants DEF TypeOK, OrdersFit, Placed, Known
  <1>8. UsesFit'
    BY <1>1 DEF UsesFit, UsersOf, Placed
  <1>9. StockFits' /\ UpdatesFit'
    BY <1>1, <1>3, Constants DEF StockFits, UpdatesFit, OneOrder, Operation
  <1>10. QED
    BY <1>4, <1>5, <1>6, <1>7, <1>8, <1>9

\* The checks are passed, and the statements S on products are to be made.
LEMMA StartKeepsIInv ==
    ASSUME IInv, NEW t \in Requests, NEW S \in Seq(StepsToDo),
           pc[t] \in {"idle", "rated"}, Goto(t, "items"), todo' = [todo EXCEPT ![t] = S],
           UNCHANGED <<data, locked, delta, short, keep>>,
           \A j \in DOMAIN S : S[j].method = "give" => S[j].product \in Products,
           t \notin Cancels =>
             \A i \in DOMAIN ItemsOf[t] :
                \E j \in DOMAIN S : S[j].method = "take" /\ S[j].product = ItemsOf[t][i][1],
           t \in Changes => Placed(OrderOf[t]) /\ OrderFree(OrderOf[t]),
           t \in Updates => Operation(t) \notin recent
    PROVE  IInv'
  <1> USE DEF IInv
  <1>1. /\ UNCHANGED <<stock, active, uses, open, order, recent, locked, delta, short, keep, reply>>
        /\ pc' = [pc EXCEPT ![t] = "items"] /\ todo' = [todo EXCEPT ![t] = S]
    BY DEF Goto, data
  <1>2. Types /\ TypeOK
    BY DEF Types
  <1>3. Types'
    BY <1>1, <1>2 DEF Types, TypeOK, Rows, Operation
  <1>4. ASSUME NEW u \in Requests PROVE (HandlerFits(u) /\ ItemsFit(u) /\ PromoFits(u))'
    <2>1. CASE u = t
      BY <1>1, <1>2, <2>1 DEF Types, TypeOK, HandlerFits, ItemsFit, PromoFits, Working, Zero
    <2>2. CASE u # t
      <3>1. UNCHANGED <<pc[u], todo[u], locked[u], delta[u], short[u], keep[u], reply[u]>>
        BY <1>1, <2>2
      <3>2. QED
        BY <1>1, <3>1 DEF HandlerFits, ItemsFit, PromoFits, Working, PromoUsed
    <2>3. QED
      BY <2>1, <2>2
  <1>5. Exclusive'
    <2>1. \A u, v \in Changes :
             u # v /\ OrderOf[u] = OrderOf[v] => ~ Working(u)' \/ ~ Working(v)'
      BY <1>1, <1>2, Constants DEF TypeOK, Exclusive, Working, OrderFree, Names
    <2>2. QED
      BY <1>1, <1>2, <2>1 DEF TypeOK, Exclusive, PromoUsed
  <1>6. OrdersFit'
    BY <1>1, <1>2, Constants DEF TypeOK, OrdersFit, Placed, Known, Working
  <1>7. UsesFit'
    BY <1>1 DEF UsesFit, UsersOf, Placed
  <1>8. StockFits'
    BY <1>1 DEF StockFits
  <1>9. UpdatesFit'
    <2> SUFFICES ASSUME NEW u \in Updates, Working(u)', OneOrder(u) PROVE Operation(u) \notin recent
      BY <1>1 DEF UpdatesFit, OneOrder, Operation
    <2>1. CASE u = t
      BY <2>1
    <2>2. CASE u # t
      <3>1. pc'[u] = pc[u]
        BY <1>1, <2>2
      <3>2. QED
        BY <3>1 DEF UpdatesFit, Working
    <2>3. QED
      BY <2>1, <2>2
  <1>10. QED
    BY <1>3, <1>4, <1>5, <1>6, <1>7, <1>8, <1>9

\* The statements a list of items stands for.
LEMMA StepsOfItems ==
    ASSUME NEW items \in Lists, NEW method \in {"give", "take"}
    PROVE  /\ Steps(method, items) \in Seq(StepsToDo)
           /\ Len(Steps(method, items)) = Len(items)
           /\ DOMAIN items = 1 .. Len(items)
           /\ \A i \in 1 .. Len(items) :
                 /\ Steps(method, items)[i].method = method
                 /\ Steps(method, items)[i].product = items[i][1]
                 /\ Steps(method, items)[i].quantity = items[i][2]
                 /\ items[i][2] \in Quantities
  <1>1. DOMAIN items = 1 .. Len(items) /\ Len(items) \in Nat
    BY DEF Lists
  <1>2. ASSUME NEW i \in 1 .. Len(items)
        PROVE  items[i][1] \in Ids /\ items[i][2] \in Quantities
    BY DEF Lists
  <1> DEFINE S == Steps(method, items)
  <1>3. S = [i \in 1 .. Len(items) |->
               [method |-> method, product |-> items[i][1], quantity |-> items[i][2]]]
    BY <1>1 DEF Steps
  <1>4. S \in [1 .. Len(items) -> StepsToDo]
    BY <1>2, <1>3 DEF StepsToDo
  <1>5. S \in Seq(StepsToDo) /\ Len(S) = Len(items)
    BY <1>1, <1>4, LenProperties, SeqDef
  <1>6. QED
    BY <1>1, <1>2, <1>3, <1>5

LEMMA ChecksKeepIInv ==
    ASSUME IInv, NEW t \in Requests, Check(t)
    PROVE  IInv'
  <1>1. CASE CheckRate(t)
    BY <1>1, RefuseKeepsIInv, RatedKeepsIInv DEF CheckRate
  <1>2. CASE RefuseChange(t)
    BY <1>2, RefuseKeepsIInv DEF RefuseChange
  <1>3. CASE CheckActive(t)
    <2>1. CASE HasActive(UserOf[t])
      BY <1>3, <2>1, RefuseKeepsIInv DEF CheckActive
    <2>2. CASE ~ HasActive(UserOf[t])
      <3> DEFINE S == Steps("take", ItemsOf[t])
      <3>1. t \in Creates
        BY <1>3 DEF CheckActive, IInv, HandlerFits
      <3>2. /\ S \in Seq(StepsToDo) /\ DOMAIN S = DOMAIN ItemsOf[t]
            /\ \A i \in DOMAIN S : S[i].method = "take" /\ S[i].product = ItemsOf[t][i][1]
        BY <3>1, Constants, StepsOfItems
      <3>3. /\ pc[t] = "rated" /\ Goto(t, "items") /\ todo' = [todo EXCEPT ![t] = S]
            /\ UNCHANGED <<data, locked, delta, short, keep>>
        BY <1>3, <2>2 DEF CheckActive
      <3>4. t \notin Changes /\ t \notin Updates
        BY <3>1, Constants
      <3> HIDE DEF S
      <3>5. QED
        BY <3>2, <3>3, <3>4, StartKeepsIInv
    <2>3. QED
      BY <2>1, <2>2
  <1>4. CASE LockOrder(t)
    <2> DEFINE o == OrderOf[t]
               G == Steps("give", order[o].items)
               T == IF t \in Updates THEN Steps("take", ItemsOf[t]) ELSE << >>
    <2>1. /\ t \in Changes /\ pc[t] = "idle" /\ Placed(o) /\ OrderFree(o)
          /\ t \in Updates => Operation(t) \notin recent
          /\ Goto(t, "items") /\ todo' = [todo EXCEPT ![t] = G \o T]
          /\ UNCHANGED <<data, locked, delta, short, keep>>
      BY <1>4 DEF LockOrder, Placed
    <2>2. order[o].items \in Lists /\ Known(order[o].items)
      BY <2>1, Constants DEF IInv, Types, Rows, OrdersFit
    <2>3. /\ G \in Seq(StepsToDo)
          /\ \A j \in 1 .. Len(G) : G[j].method = "give" /\ G[j].product \in Products
      BY <2>2, StepsOfItems DEF Known
    <2>4. /\ T \in Seq(StepsToDo)
          /\ \A j \in 1 .. Len(T) : T[j].method = "take"
          /\ t \in Updates => DOMAIN ItemsOf[t] = 1 .. Len(T)
          /\ t \in Updates => \A j \in 1 .. Len(T) : T[j].product = ItemsOf[t][j][1]
      <3>1. CASE t \in Updates
        BY <3>1, Constants, StepsOfItems
      <3>2. CASE t \notin Updates
        BY <3>2
      <3>3. QED
        BY <3>1, <3>2
    <2> HIDE DEF G, T
    <2>5. /\ G \o T \in Seq(StepsToDo)
          /\ Len(G) \in Nat /\ Len(T) \in Nat
          /\ DOMAIN (G \o T) = 1 .. Len(G) + Len(T)
          /\ \A j \in 1 .. Len(G) : (G \o T)[j] = G[j]
          /\ \A j \in 1 .. Len(T) : (G \o T)[Len(G) + j] = T[j]
      BY <2>3, <2>4
    <2>6. \A j \in DOMAIN (G \o T) :
             (G \o T)[j].method = "give" => (G \o T)[j].product \in Products
      <3> SUFFICES ASSUME NEW j \in 1 .. Len(G) + Len(T)
                   PROVE  (G \o T)[j].method = "give" => (G \o T)[j].product \in Products
        BY <2>5
      <3>1. CASE j <= Len(G)
        BY <3>1, <2>3, <2>5
      <3>2. CASE j > Len(G)
        <4>1. j - Len(G) \in 1 .. Len(T) /\ j = Len(G) + (j - Len(G))
          BY <3>2, <2>5
        <4>2. (G \o T)[j] = T[j - Len(G)]
          BY <4>1, <2>5
        <4>3. QED
          BY <4>1, <4>2, <2>4
      <3>3. QED
        BY <3>1, <3>2, <2>5
    <2>7. t \notin Cancels =>
             \A i \in DOMAIN ItemsOf[t] :
                \E j \in DOMAIN (G \o T) : (G \o T)[j].method = "take"
                                           /\ (G \o T)[j].product = ItemsOf[t][i][1]
      <3> SUFFICES ASSUME t \in Updates, NEW i \in 1 .. Len(T)
                   PROVE  \E j \in DOMAIN (G \o T) : (G \o T)[j].method = "take"
                                           /\ (G \o T)[j].product = ItemsOf[t][i][1]
        BY <2>1, <2>4, Constants
      <3>1. Len(G) + i \in DOMAIN (G \o T)
        BY <2>5
      <3>2. QED
        BY <2>4, <2>5, <3>1
    <2>8. QED
      BY <2>1, <2>5, <2>6, <2>7, StartKeepsIInv
  <1>5. QED
    BY <1>1, <1>2, <1>3, <1>4 DEF Check

\* The next statement is made: the product is locked, the stock changes by n.
LEMMA BookKeepsIInv ==
    ASSUME IInv, NEW t \in Requests, NEW n \in Int, pc[t] = "items", todo[t] # << >>,
           Head(todo[t]).product \in Products,
           ProductFree(t, Head(todo[t]).product), Book(t, n),
           short' = short \/ short' = [short EXCEPT ![t] = TRUE],
           Positive => stock[Head(todo[t]).product] + delta[t][Head(todo[t]).product] + n >= 0,
           UNCHANGED <<data, pc, keep, reply>>
    PROVE  IInv'
  <1> USE DEF IInv
  <1> DEFINE p == Head(todo[t]).product
  <1>1. /\ UNCHANGED <<stock, active, uses, open, order, recent, pc, keep, reply>>
        /\ todo' = [todo EXCEPT ![t] = Tail(@)] /\ locked' = [locked EXCEPT ![t] = @ \cup {p}]
        /\ delta' = [delta EXCEPT ![t][p] = @ + n]
    BY DEF Book, data
  <1>2. Types /\ TypeOK /\ p \in Products /\ todo[t] \in Seq(StepsToDo)
    BY DEF Types
  <1>3. /\ todo[t][1] = Head(todo[t]) /\ Tail(todo[t]) \in Seq(StepsToDo)
        /\ \A j \in DOMAIN Tail(todo[t]) : j + 1 \in DOMAIN todo[t] /\ Tail(todo[t])[j] = todo[t][j + 1]
        /\ \A j \in DOMAIN todo[t] : j # 1 => j - 1 \in DOMAIN Tail(todo[t])
                                              /\ Tail(todo[t])[j - 1] = todo[t][j]
    BY <1>2
  <1>4. \A u \in Requests \ {t} :
           UNCHANGED <<pc[u], todo[u], locked[u], delta[u], short[u], keep[u], reply[u]>>
    BY <1>1, <1>2 DEF TypeOK
  <1>5. /\ todo'[t] = Tail(todo[t]) /\ locked'[t] = locked[t] \cup {p}
        /\ delta'[t] = [delta[t] EXCEPT ![p] = @ + n]
    BY <1>1, <1>2 DEF Types, TypeOK
  <1> HIDE DEF p
  <1>6. Types'
    <2>1. delta' \in [Requests -> [Products -> Int]]
      <3>1. delta' = [delta EXCEPT ![t] = [delta[t] EXCEPT ![p] = @ + n]]
        BY <1>1
      <3>2. [delta[t] EXCEPT ![p] = @ + n] \in [Products -> Int]
        BY <1>2 DEF TypeOK
      <3>3. QED
        BY <1>2, <3>1, <3>2 DEF TypeOK
    <2>2. locked' \in [Requests -> SUBSET Products] /\ short' \in [Requests -> BOOLEAN]
      BY <1>1, <1>2 DEF TypeOK
    <2>3. TypeOK'
      BY <1>1, <1>2, <2>1, <2>2 DEF TypeOK, Operation
    <2>4. QED
      BY <1>1, <1>2, <1>3, <2>3 DEF Types, Rows
  <1>7. ASSUME NEW u \in Requests PROVE (HandlerFits(u) /\ ItemsFit(u) /\ PromoFits(u))'
    <2>1. CASE u = t
      <3>1. HandlerFits(t)'
        BY <1>1, <1>2, <1>5 DEF TypeOK, HandlerFits, Working
      <3>2. PromoFits(t)'
        BY <1>1 DEF PromoFits
      <3>3. \A j \in DOMAIN todo'[t] :
               todo'[t][j].method = "give" => todo'[t][j].product \in Products
        BY <1>3, <1>5 DEF ItemsFit
      <3>4. ASSUME t \notin Cancels, NEW i \in DOMAIN ItemsOf[t], ItemsOf[t][i][1] \notin Products
            PROVE  \E j \in DOMAIN todo'[t] :
                      todo'[t][j].method = "take" /\ todo'[t][j].product = ItemsOf[t][i][1]
        <4>1. PICK j \in DOMAIN todo[t] :
                 todo[t][j].method = "take" /\ todo[t][j].product = ItemsOf[t][i][1]
          BY <3>4 DEF ItemsFit, Working
        <4>2. j # 1
          BY <1>2, <1>3, <3>4, <4>1 DEF p
        <4>3. j - 1 \in DOMAIN todo'[t] /\ todo'[t][j - 1] = todo[t][j]
          BY <1>3, <1>5, <4>1, <4>2
        <4>4. QED
          BY <4>1, <4>3
      <3>5. ItemsFit(t)'
        BY <3>3, <3>4 DEF ItemsFit
      <3>6. QED
        BY <2>1, <3>1, <3>2, <3>5
    <2>2. CASE u # t
      BY <1>1, <1>4, <2>2 DEF HandlerFits, ItemsFit, PromoFits, Working, PromoUsed
    <2>3. QED
      BY <2>1, <2>2
  <1>8. Exclusive'
    <2>1. \A u, v \in Requests : u # v => locked'[u] \cap locked'[v] = {}
      BY <1>2, <1>4, <1>5 DEF Exclusive, ProductFree, p
    <2>2. QED
      BY <1>1, <2>1 DEF Exclusive, Working, PromoUsed
  <1>9. OrdersFit' /\ UsesFit' /\ UpdatesFit'
    BY <1>1 DEF OrdersFit, UsesFit, UsersOf, Placed, Known, UpdatesFit, OneOrder, Operation, Working
  <1>10. StockFits'
    <2> SUFFICES ASSUME Positive, NEW u \in Requests, NEW x \in Products
                 PROVE  stock[x] + delta'[u][x] >= 0
      BY <1>1 DEF StockFits
    <2>1. stock[x] + delta[u][x] >= 0
      BY DEF StockFits
    <2>2. CASE u # t
      BY <1>4, <2>1, <2>2
    <2>3. CASE u = t /\ x # p
      BY <1>2, <1>5, <2>1, <2>3 DEF TypeOK
    <2>4. CASE u = t /\ x = p
      <3>1. stock[p] \in Int /\ delta[t][p] \in Int /\ delta'[t][p] = delta[t][p] + n
        BY <1>2, <1>5 DEF TypeOK
      <3>2. stock[p] + delta[t][p] + n >= 0
        BY DEF p
      <3>3. QED
        BY <2>4, <3>1, <3>2
    <2>5. QED
      BY <2>2, <2>3, <2>4
  <1>11. QED
    BY <1>6, <1>7, <1>8, <1>9, <1>10

LEMMA ItemsKeepIInv ==
    ASSUME IInv, NEW t \in Requests, Item(t)
    PROVE  IInv'
  <1>1. ASSUME todo[t] # << >>
        PROVE  /\ Head(todo[t]).product \in Ids /\ Head(todo[t]).quantity \in Quantities
               /\ Head(todo[t]) = todo[t][1] /\ 1 \in DOMAIN todo[t]
    <2>1. todo[t] \in Seq(StepsToDo)
      BY DEF IInv, Types
    <2>2. Head(todo[t]) \in StepsToDo /\ Head(todo[t]) = todo[t][1] /\ 1 \in DOMAIN todo[t]
      BY <1>1, <2>1
    <2>3. QED
      BY <2>2 DEF StepsToDo
  <1>2. stock \in [Products -> Int] /\ delta[t] \in [Products -> Int] /\ active \subseteq Products
    BY DEF IInv, Types, TypeOK
  <1>3. \A x \in Quantities : x \in Int /\ (Positive => x > 0) /\ 0 - x \in Int
    BY DEF Quantities
  <1>4. Positive => \A p \in Products : stock[p] + delta[t][p] >= 0
    BY DEF IInv, StockFits
  <1>5. CASE RefuseItem(t)
    BY <1>5, RefuseKeepsIInv DEF RefuseItem
  <1>6. CASE GiveBack(t)
    <2>1. /\ pc[t] = "items" /\ todo[t] # << >> /\ Head(todo[t]).method = "give"
          /\ ProductFree(t, Head(todo[t]).product) /\ Book(t, Head(todo[t]).quantity)
          /\ UNCHANGED <<data, pc, keep, reply>> /\ short' = short
      BY <1>6 DEF GiveBack, At
    <2>2. Head(todo[t]).product \in Products
      BY <1>1, <2>1 DEF IInv, ItemsFit
    <2>3. Positive => stock[Head(todo[t]).product] + delta[t][Head(todo[t]).product]
                        + Head(todo[t]).quantity >= 0
      BY <1>1, <1>2, <1>3, <1>4, <2>1, <2>2
    <2>4. QED
      BY <1>1, <1>3, <2>1, <2>2, <2>3, BookKeepsIInv
  <1>7. CASE TakeItem(t)
    <2> DEFINE p == Head(todo[t]).product
               q == Head(todo[t]).quantity
    <2>1. /\ pc[t] = "items" /\ todo[t] # << >> /\ p \in Products /\ ProductFree(t, p)
          /\ UNCHANGED <<data, pc, keep, reply>>
      BY <1>2, <1>7 DEF TakeItem, At
    <2>2. stock[p] \in Int /\ delta[t][p] \in Int /\ q \in Int /\ 0 - q \in Int /\ 0 \in Int
      BY <1>1, <1>2, <1>3, <2>1
    <2>3. \/ stock[p] + delta[t][p] >= q /\ Book(t, 0 - q) /\ short' = short
          \/ Book(t, 0) /\ short' = [short EXCEPT ![t] = TRUE]
      BY <1>7 DEF TakeItem
    <2>4. CASE stock[p] + delta[t][p] >= q /\ Book(t, 0 - q) /\ short' = short
      <3>1. stock[p] + delta[t][p] + (0 - q) >= 0
        BY <2>2, <2>4
      <3>2. QED
        BY <2>1, <2>2, <2>4, <3>1, BookKeepsIInv
    <2>5. CASE Book(t, 0) /\ short' = [short EXCEPT ![t] = TRUE]
      <3>1. Positive => stock[p] + delta[t][p] + 0 >= 0
        BY <1>4, <2>1, <2>2
      <3>2. QED
        BY <2>1, <2>2, <2>5, <3>1, BookKeepsIInv
    <2>6. QED
      BY <2>3, <2>4, <2>5
  <1>8. QED
    BY <1>5, <1>6, <1>7 DEF Item

\* The promo code, if any, is locked, and q is the one the order will have.
LEMMA ReadyKeepsIInv ==
    ASSUME IInv, NEW t \in Requests, NEW q \in Promos \cup {NoPromo}, AllTaken(t), Ready(t, q),
           PromoUsed(t) \in Promos \cup {NoPromo},
           PromoUsed(t) # NoPromo => PromoFree(PromoUsed(t)),
           t \in Creates => q = PromoUsed(t),
           t \in Creates /\ PromoUsed(t) \in Promos => uses[PromoUsed(t)] < MaxUses[PromoUsed(t)],
           t \in Updates => q \in {PromoUsed(t), NoPromo}
    PROVE  IInv'
  <1> USE DEF IInv
  <1>1. /\ UNCHANGED <<stock, active, uses, open, order, recent, todo, locked, delta, short, reply>>
        /\ pc' = [pc EXCEPT ![t] = "ready"] /\ keep' = [keep EXCEPT ![t] = q]
        /\ pc[t] = "items" /\ todo[t] = << >> /\ ~ short[t]
    BY DEF Ready, Goto, data, AllTaken, ItemsDone
  <1>2. Types /\ TypeOK
    BY DEF Types
  <1>3. \A u \in Requests : Working(u)' <=> Working(u)
    BY <1>1, <1>2 DEF TypeOK, Working
  <1>4. \A u \in Requests : PromoUsed(u)' = PromoUsed(u)
    BY <1>1 DEF PromoUsed
  <1>5. Types'
    BY <1>1, <1>2 DEF Types, TypeOK, Rows, Operation
  <1>6. ASSUME NEW u \in Requests PROVE (HandlerFits(u) /\ ItemsFit(u) /\ PromoFits(u))'
    <2>1. CASE u = t
      <3>1. HandlerFits(t)' /\ ItemsFit(t)'
        BY <1>1, <1>2 DEF TypeOK, HandlerFits, ItemsFit, Working
      <3>2. PromoFits(t)'
        BY <1>1, <1>2, <1>4 DEF TypeOK, PromoFits
      <3>3. QED
        BY <2>1, <3>1, <3>2
    <2>2. CASE u # t
      <3>1. UNCHANGED <<pc[u], todo[u], locked[u], delta[u], short[u], keep[u], reply[u]>>
        BY <1>1, <2>2
      <3>2. QED
        BY <1>1, <3>1 DEF HandlerFits, ItemsFit, PromoFits, Working, PromoUsed
    <2>3. QED
      BY <2>1, <2>2
  <1>7. Exclusive'
    <2>1. ASSUME NEW u \in Requests, NEW v \in Requests, u # v,
                 pc'[u] = "ready", pc'[v] = "ready", PromoUsed(u)' = PromoUsed(v)'
          PROVE  PromoUsed(u)' = NoPromo
      BY <1>1, <1>2, <1>4, <2>1 DEF TypeOK, Exclusive, PromoFree
    <2>2. QED
      BY <1>1, <1>3, <2>1, Constants DEF Exclusive
  <1>8. OrdersFit'
    BY <1>1, <1>2, <1>3, Constants DEF TypeOK, OrdersFit, Placed, Known
  <1>9. UsesFit' /\ StockFits' /\ UpdatesFit'
    BY <1>1, <1>3, Constants DEF UsesFit, UsersOf, Placed, StockFits, UpdatesFit, OneOrder, Operation
  <1>10. QED
    BY <1>5, <1>6, <1>7, <1>8, <1>9

LEMMA PromosKeepIInv ==
    ASSUME IInv, NEW t \in Requests, Promo(t)
    PROVE  IInv'
  <1>1. open \subseteq Promos
    BY DEF IInv, Types, TypeOK
  <1>2. CASE Insufficient(t)
    BY <1>2, RefuseKeepsIInv DEF Insufficient
  <1>3. CASE RefusePromo(t)
    BY <1>3, RefuseKeepsIInv DEF RefusePromo
  <1>4. CASE WithoutPromo(t)
    BY <1>4, ReadyKeepsIInv, Constants DEF WithoutPromo
  <1>5. CASE UsePromo(t)
    <2>1. PromoUsed(t) = PromoOf[t] /\ PromoOf[t] \in Promos /\ t \notin Updates
      BY <1>1, <1>5, Constants DEF UsePromo, PromoUsed
    <2>2. QED
      BY <1>5, <2>1, ReadyKeepsIInv DEF UsePromo
  <1>6. CASE SettlePromo(t)
    <2> DEFINE q == IF t \in Cancels \/ PromoUsed(t) \in open \cap ReachesMin[t]
                    THEN PromoUsed(t) ELSE NoPromo
    <2>1. /\ t \notin Creates /\ PromoUsed(t) \in Promos /\ PromoFree(PromoUsed(t))
          /\ AllTaken(t) /\ Ready(t, q) /\ q \in Promos \cup {NoPromo}
          /\ q \in {PromoUsed(t), NoPromo}
      BY <1>6, Constants DEF SettlePromo
    <2> HIDE DEF q
    <2>2. QED
      BY <2>1, ReadyKeepsIInv
  <1>7. QED
    BY <1>2, <1>3, <1>4, <1>5, <1>6 DEF Promo

----------------------------------------------------------------------------
(* The commit.                                                              *)

\* What the commit of t does, of which the next lemmas speak.
Commits(t, r) == IInv /\ t \in Requests /\ pc[t] = "ready" /\ Apply(t) /\ Answer(t, r)

\* The order that t writes.
Target(t) == IF t \in Creates THEN t ELSE OrderOf[t]

\* Its fields are as before it began, and those of others are untouched.
Leaves(t, r) ==
    /\ pc' = [pc EXCEPT ![t] = "done"] /\ reply' = [reply EXCEPT ![t] = r]
    /\ todo' = [todo EXCEPT ![t] = << >>] /\ locked' = [locked EXCEPT ![t] = {}]
    /\ delta' = [delta EXCEPT ![t] = Zero] /\ short' = [short EXCEPT ![t] = FALSE]
    /\ keep' = [keep EXCEPT ![t] = NoPromo]
    /\ pc'[t] = "done"
    /\ \A u \in Requests : Working(u)' => u # t /\ Working(u)
    /\ \A u \in Requests : u # t =>
         UNCHANGED <<pc[u], todo[u], locked[u], delta[u], short[u], keep[u], reply[u]>>

LEMMA CommitLocals ==
    ASSUME NEW t, NEW r, Commits(t, r)
    PROVE  Leaves(t, r)
  BY DEF Leaves, Commits, Answer, Zero, IInv, Types, TypeOK, Working

\* The only order that changes is one nobody else works on.
Writes(t) ==
    /\ order' \in [Creates -> Rows]
    /\ Target(t) \in Creates
    /\ \A o \in Creates : o # Target(t) => order'[o] = order[o]
    /\ t \in Creates => Target(t) = t /\ order[t] = NoOrder
    /\ t \in Changes => Placed(Target(t)) /\ PromoUsed(t) = order[Target(t)].promo
    /\ t \in Creates \cup Updates =>
         order'[Target(t)] = [status |-> "CREATED", items |-> ItemsOf[t], promo |-> keep[t]]
    /\ t \in Cancels =>
         order'[Target(t)] = [status |-> "CANCELED", items |-> order[Target(t)].items,
                              promo |-> order[Target(t)].promo]
    /\ \A u \in Requests \ {t} : Working(u) => PromoUsed(u)' = PromoUsed(u)
    /\ \A u \in Changes \ {t} : Working(u) => OrderOf[u] # Target(t)

LEMMA CommitOrder ==
    ASSUME NEW t, NEW r, Commits(t, r)
    PROVE  Writes(t)
  <1>1. /\ Types /\ TypeOK /\ t \in Requests /\ Working(t) /\ pc[t] # "done"
        /\ Exclusive /\ OrdersFit
    BY DEF Commits, IInv, Types, Working
  <1>2. keep[t] \in Promos \cup {NoPromo} /\ order \in [Creates -> Rows]
    BY <1>1 DEF Types, TypeOK
  <1>3. \A u \in Changes \ {t} : Working(u) => OrderOf[u] # Target(t)
    BY <1>1, Constants DEF Exclusive, OrdersFit, Target, NoOrder, Placed
  <1>4. \A o \in Creates : order[o] = [status |-> order[o].status, items |-> order[o].items,
                                       promo |-> order[o].promo]
    BY <1>2 DEF Rows
  <1>5. CASE t \in Creates
    <2>1. order' = [order EXCEPT ![t] = [status |-> "CREATED", items |-> ItemsOf[t], promo |-> keep[t]]]
      BY <1>5, Constants DEF Commits, Apply
    <2>2. order' \in [Creates -> Rows]
      BY <1>2, <1>5, <2>1, Constants DEF Rows
    <2>3. order[t] = NoOrder
      BY <1>1, <1>5 DEF OrdersFit
    <2>4. \A u \in Requests \ {t} : Working(u) => PromoUsed(u)' = PromoUsed(u)
      BY <1>2, <1>3, <1>5, <2>1, Constants DEF PromoUsed, Target
    <2>5. QED
      BY <1>2, <1>3, <1>5, <2>1, <2>2, <2>3, <2>4, Constants DEF Target, Writes
  <1>6. CASE t \in Updates
    <2>1. order' = [order EXCEPT ![OrderOf[t]].items = ItemsOf[t], ![OrderOf[t]].promo = keep[t]]
      BY <1>6, Constants DEF Commits, Apply
    <2>2. t \notin Creates /\ Target(t) = OrderOf[t] /\ OrderOf[t] \in Creates
      BY <1>6, Constants DEF Target
    <2>3. Placed(Target(t)) /\ PromoUsed(t) = order[Target(t)].promo
      BY <1>1, <1>6, <2>2, Constants DEF OrdersFit, PromoUsed
    <2>4. order'[Target(t)] = [status |-> "CREATED", items |-> ItemsOf[t], promo |-> keep[t]]
      <3> DEFINE row == order[Target(t)]
      <3>1. order'[Target(t)] = [[row EXCEPT !.items = ItemsOf[t]] EXCEPT !.promo = keep[t]]
        BY <1>2, <2>1, <2>2
      <3>2. row = [status |-> "CREATED", items |-> row.items, promo |-> row.promo]
        BY <1>4, <2>2, <2>3 DEF Placed
      <3>3. row \in Rows
        BY <1>2, <2>2
      <3>4. [row EXCEPT !.items = ItemsOf[t]]
              = [status |-> "CREATED", items |-> ItemsOf[t], promo |-> row.promo]
        BY <3>2, <3>3 DEF Rows
      <3> HIDE DEF row
      <3>5. QED
        BY <3>1, <3>4
    <2>5. \A o \in Creates : o # Target(t) => order'[o] = order[o]
      BY <1>2, <2>1, <2>2
    <2>6. order' \in [Creates -> Rows]
      <3>1. order' = [o \in Creates |-> order'[o]]
        BY <1>2, <2>1
      <3>2. order'[Target(t)] \in Rows
        BY <1>2, <1>6, <2>4, Constants DEF Rows
      <3>3. QED
        BY <1>2, <2>5, <3>1, <3>2
    <2>7. \A u \in Requests \ {t} : Working(u) => PromoUsed(u)' = PromoUsed(u)
      BY <1>3, <2>5, Constants DEF PromoUsed
    <2>8. QED
      BY <1>3, <1>6, <2>2, <2>3, <2>4, <2>5, <2>6, <2>7, Constants DEF Writes
  <1>7. CASE t \in Cancels
    <2>1. order' = [order EXCEPT ![OrderOf[t]].status = "CANCELED"]
      BY <1>7, Constants DEF Commits, Apply
    <2>2. t \notin Creates /\ Target(t) = OrderOf[t] /\ OrderOf[t] \in Creates
      BY <1>7, Constants DEF Target
    <2>3. Placed(Target(t)) /\ PromoUsed(t) = order[Target(t)].promo
      BY <1>1, <1>7, <2>2, Constants DEF OrdersFit, PromoUsed
    <2>4. order'[Target(t)] = [status |-> "CANCELED", items |-> order[Target(t)].items,
                               promo |-> order[Target(t)].promo]
      BY <1>2, <1>4, <2>1, <2>2
    <2>5. \A o \in Creates : o # Target(t) => order'[o] = order[o]
      BY <1>2, <2>1, <2>2
    <2>6. order' \in [Creates -> Rows]
      BY <1>2, <2>1, <2>2 DEF Rows
    <2>7. \A u \in Requests \ {t} : Working(u) => PromoUsed(u)' = PromoUsed(u)
      BY <1>3, <2>5, Constants DEF PromoUsed
    <2>8. QED
      BY <1>3, <1>7, <2>2, <2>3, <2>4, <2>5, <2>6, <2>7, Constants DEF Writes
  <1>8. QED
    BY <1>1, <1>5, <1>6, <1>7, Constants

\* The uses of the promo code that t works on follow the orders that have it.
LEMMA CommitUses ==
    ASSUME NEW t, NEW r, Commits(t, r)
    PROVE  UsesFit'
  <1> SUFFICES ASSUME NEW q \in Promos
               PROVE  /\ IsFiniteSet(UsersOf(q)')
                      /\ uses'[q] = Cardinality(UsersOf(q)')
                      /\ uses'[q] <= MaxUses[q]
    BY DEF UsesFit
  <1>1. /\ IsFiniteSet(UsersOf(q)) /\ uses[q] = Cardinality(UsersOf(q)) /\ uses[q] <= MaxUses[q]
        /\ uses \in [Promos -> Nat] /\ t \in Requests /\ PromoFits(t) /\ pc[t] = "ready"
    BY DEF Commits, IInv, UsesFit, Types, TypeOK
  <1>2. /\ MaxUses[q] \in Nat /\ uses[q] \in Nat /\ q # NoPromo
        /\ uses'[q] = uses[q] + IF q = PromoUsed(t) THEN UsesChange(t) ELSE 0
    BY <1>1, Constants DEF Commits, Apply
  <1> DEFINE o == Target(t)
  <1>3. /\ Writes(t)
        /\ o \in Creates /\ \A x \in Creates : x # o => order'[x] = order[x]
    BY CommitOrder DEF Writes
  <1>4. \A x \in Creates : x # o => (x \in UsersOf(q)' <=> x \in UsersOf(q))
    BY <1>3 DEF UsersOf, Placed
  <1>5. o \in UsersOf(q)' <=> order'[o].status = "CREATED" /\ order'[o].promo = q
    BY <1>3 DEF UsersOf, Placed
  <1>6. o \in UsersOf(q) <=> order[o].status = "CREATED" /\ order[o].promo = q
    BY <1>3 DEF UsersOf, Placed
  <1>7. UsersOf(q) \subseteq Creates /\ UsersOf(q)' \subseteq Creates
    BY DEF UsersOf
  <1>8. ASSUME UsersOf(q)' = UsersOf(q), uses'[q] = uses[q]
        PROVE  /\ IsFiniteSet(UsersOf(q)')
               /\ uses'[q] = Cardinality(UsersOf(q)')
               /\ uses'[q] <= MaxUses[q]
    BY <1>1, <1>8
  <1>9. ASSUME UsersOf(q)' = UsersOf(q) \ {o}, o \in UsersOf(q), uses'[q] = uses[q] - 1
        PROVE  /\ IsFiniteSet(UsersOf(q)')
               /\ uses'[q] = Cardinality(UsersOf(q)')
               /\ uses'[q] <= MaxUses[q]
    BY <1>1, <1>2, <1>9, FS_RemoveElement
  <1>10. CASE t \in Creates
    <2>1. /\ o = t /\ order[o] = NoOrder /\ keep[t] = PromoUsed(t)
          /\ order'[o].status = "CREATED" /\ order'[o].promo = keep[t]
      BY <1>1, <1>3, <1>10 DEF Writes, PromoFits
    <2>2. o \notin UsersOf(q)
      BY <1>6, <2>1 DEF NoOrder
    <2>3. UsesChange(t) = IF keep[t] = NoPromo THEN 0 ELSE 1
      BY <1>10, Constants DEF UsesChange
    <2>4. CASE q = PromoUsed(t)
      <3>1. uses'[q] = uses[q] + 1 /\ uses[q] < MaxUses[q]
        BY <1>1, <1>2, <1>10, <2>1, <2>3, <2>4 DEF PromoFits
      <3>2. UsersOf(q)' = UsersOf(q) \cup {o}
        BY <1>3, <1>4, <1>5, <1>7, <2>1, <2>4
      <3>3. QED
        BY <1>1, <1>2, <2>2, <3>1, <3>2, FS_AddElement
    <2>5. CASE q # PromoUsed(t)
      <3>1. UsersOf(q)' = UsersOf(q)
        BY <1>4, <1>5, <1>7, <2>1, <2>2, <2>5
      <3>2. QED
        BY <1>2, <1>8, <2>5, <3>1
    <2>6. QED
      BY <2>4, <2>5
  <1>11. CASE t \in Updates
    <2>1. /\ order[o].status = "CREATED" /\ order[o].promo = PromoUsed(t)
          /\ order'[o].status = "CREATED" /\ order'[o].promo = keep[t]
          /\ keep[t] \in {PromoUsed(t), NoPromo}
      BY <1>1, <1>3, <1>11, Constants DEF Writes, PromoFits, Placed
    <2>2. UsesChange(t) = IF PromoUsed(t) # NoPromo /\ keep[t] = NoPromo THEN -1 ELSE 0
      BY <1>11, Constants DEF UsesChange
    <2>3. CASE q = PromoUsed(t) /\ keep[t] = NoPromo
      <3>1. UsersOf(q)' = UsersOf(q) \ {o} /\ o \in UsersOf(q)
        BY <1>2, <1>4, <1>5, <1>6, <1>7, <2>1, <2>3
      <3>2. QED
        BY <1>2, <1>9, <2>2, <2>3, <3>1
    <2>4. CASE q # PromoUsed(t) \/ keep[t] # NoPromo
      <3>1. o \in UsersOf(q)' <=> o \in UsersOf(q)
        BY <1>2, <1>5, <1>6, <2>1, <2>4
      <3>2. UsersOf(q)' = UsersOf(q)
        BY <1>4, <1>7, <3>1
      <3>3. uses'[q] = uses[q]
        BY <1>2, <2>2, <2>4
      <3>4. QED
        BY <1>8, <3>2, <3>3
    <2>5. QED
      BY <2>3, <2>4
  <1>12. CASE t \in Cancels
    <2>1. /\ order[o].status = "CREATED" /\ order[o].promo = PromoUsed(t)
          /\ order'[o].status = "CANCELED"
      BY <1>3, <1>12, Constants DEF Writes, Placed
    <2>2. UsesChange(t) = IF PromoUsed(t) # NoPromo THEN -1 ELSE 0
      BY <1>12, Constants DEF UsesChange
    <2>3. CASE q = PromoUsed(t)
      <3>1. UsersOf(q)' = UsersOf(q) \ {o} /\ o \in UsersOf(q)
        BY <1>4, <1>5, <1>6, <1>7, <2>1, <2>3
      <3>2. QED
        BY <1>2, <1>9, <2>2, <2>3, <3>1
    <2>4. CASE q # PromoUsed(t)
      <3>1. UsersOf(q)' = UsersOf(q)
        BY <1>4, <1>5, <1>6, <1>7, <2>1, <2>4
      <3>2. QED
        BY <1>2, <1>8, <2>4, <3>1
    <2>5. QED
      BY <2>3, <2>4
  <1>13. QED
    BY <1>1, <1>10, <1>11, <1>12, Constants

LEMMA CommitKeepsIInv ==
    ASSUME NEW t, NEW r, Commits(t, r)
    PROVE  IInv'
  <1>1. /\ t \in Requests /\ Types /\ TypeOK /\ pc[t] = "ready" /\ Working(t)
        /\ UNCHANGED <<active, open>>
        /\ stock' = [p \in Products |-> stock[p] + delta[t][p]]
        /\ uses' = [q \in Promos |-> uses[q] + IF q = PromoUsed(t) THEN UsesChange(t) ELSE 0]
        /\ recent' = IF t \in Cancels THEN recent ELSE recent \cup {Operation(t)}
    BY DEF Commits, IInv, Types, Apply, Working
  <1>2. /\ \A u \in Requests : HandlerFits(u) /\ ItemsFit(u) /\ PromoFits(u)
        /\ Exclusive /\ OrdersFit /\ StockFits /\ UpdatesFit
    BY DEF Commits, IInv
  <1>3. UsesFit' /\ Leaves(t, r) /\ Writes(t)
    BY CommitUses, CommitLocals, CommitOrder
  <1>4. Types'
    <2>1. stock' \in [Products -> IF Positive THEN Nat ELSE Int]
      <3>1. CASE Positive
        <4>1. \A p \in Products : stock[p] + delta[t][p] \in Int /\ stock[p] + delta[t][p] >= 0
          BY <1>1, <1>2, <3>1 DEF TypeOK, StockFits
        <4>2. QED
          BY <1>1, <3>1, <4>1
      <3>2. CASE ~ Positive
        BY <1>1, <3>2 DEF TypeOK
      <3>3. QED
        BY <3>1, <3>2
    <2>2. uses' \in [Promos -> Nat]
      <3>1. \A q \in Promos : uses'[q] \in Nat
        BY <1>3, FS_CardinalityType DEF UsesFit
      <3>2. QED
        BY <1>1, <3>1
    <2>3. order' \in [Creates -> Rows]
      BY <1>3 DEF Writes
    <2>4. recent' \subseteq {Operation(u) : u \in Creates \cup Updates}
      BY <1>1, Constants DEF TypeOK
    <2>5. /\ pc' \in [Requests -> {"idle", "rated", "items", "ready", "done"}]
          /\ locked' \in [Requests -> SUBSET Products]
          /\ delta' \in [Requests -> [Products -> Int]]
          /\ short' \in [Requests -> BOOLEAN]
          /\ keep' \in [Requests -> Promos \cup {NoPromo}]
          /\ todo' \in [Requests -> Seq(StepsToDo)]
      BY <1>1, <1>3 DEF Types, TypeOK, Zero, Leaves
    <2>6. /\ DOMAIN order' = Creates
          /\ \A o \in Creates : /\ order'[o].status \in {"NONE", "CREATED", "CANCELED"}
                                /\ order'[o].promo \in Promos \cup {NoPromo}
      BY <2>3 DEF Rows
    <2>7. {Operation(u) : u \in Creates \cup Updates}' = {Operation(u) : u \in Creates \cup Updates}
      BY DEF Operation
    <2>8. TypeOK'
      BY <1>1, <2>1, <2>2, <2>4, <2>5, <2>6, <2>7 DEF TypeOK
    <2>9. QED
      BY <2>3, <2>5, <2>8 DEF Types
  <1>5. ASSUME NEW u \in Requests PROVE (HandlerFits(u) /\ ItemsFit(u) /\ PromoFits(u))'
    <2>1. CASE u = t
      <3>1. /\ pc'[t] = "done" /\ todo'[t] = << >> /\ locked'[t] = {} /\ delta'[t] = Zero
            /\ ~ short'[t] /\ keep'[t] = NoPromo
        BY <1>1, <1>3 DEF Types, TypeOK, Leaves
      <3>2. QED
        BY <2>1, <3>1 DEF HandlerFits, ItemsFit, PromoFits, Working, Zero
    <2>2. CASE u # t
      <3>1. UNCHANGED <<pc[u], todo[u], locked[u], delta[u], short[u], keep[u], reply[u]>>
        BY <1>3, <2>2 DEF Leaves
      <3>2. HandlerFits(u)' /\ ItemsFit(u)'
        BY <1>2, <3>1 DEF HandlerFits, ItemsFit, Working
      <3>3. PromoFits(u)'
        <4> SUFFICES ASSUME pc[u] = "ready" PROVE PromoFits(u)'
          BY <3>1 DEF PromoFits
        <4>1. PromoUsed(u)' = PromoUsed(u) /\ PromoFits(u)
          BY <1>2, <1>3, <2>2 DEF Working, Writes
        <4>2. PromoUsed(u) \in Promos => PromoUsed(u) # PromoUsed(t)
          BY <1>1, <1>2, <2>2, Constants DEF Exclusive
        <4>3. PromoUsed(u) \in Promos => uses'[PromoUsed(u)] = uses[PromoUsed(u)]
          BY <1>1, <4>2 DEF TypeOK
        <4>4. QED
          BY <3>1, <4>1, <4>3 DEF PromoFits
      <3>4. QED
        BY <3>2, <3>3
    <2>3. QED
      BY <2>1, <2>2
  <1>6. Exclusive'
    <2>1. \A u, v \in Requests : u # v => locked'[u] \cap locked'[v] = {}
      <3>1. \A u \in Requests : locked'[u] \subseteq locked[u]
        BY <1>1, <1>3 DEF TypeOK, Leaves
      <3>2. QED
        BY <1>2, <3>1 DEF Exclusive
    <2>2. \A u, v \in Changes :
             u # v /\ OrderOf[u] = OrderOf[v] => ~ Working(u)' \/ ~ Working(v)'
      BY <1>2, <1>3, Constants DEF Exclusive, Leaves
    <2>3. ASSUME NEW u \in Requests, NEW v \in Requests, u # v,
                 pc'[u] = "ready", pc'[v] = "ready", PromoUsed(u)' = PromoUsed(v)'
          PROVE  PromoUsed(u)' = NoPromo
      <3>1. Working(u)' /\ Working(v)'
        BY <2>3 DEF Working
      <3>2. u # t /\ v # t /\ Working(u) /\ Working(v)
        BY <1>3, <3>1 DEF Leaves
      <3>3. pc[u] = "ready" /\ pc[v] = "ready"
        BY <1>3, <2>3, <3>2 DEF Leaves
      <3>4. PromoUsed(u)' = PromoUsed(u) /\ PromoUsed(v)' = PromoUsed(v)
        BY <1>3, <3>2 DEF Writes
      <3>5. QED
        BY <1>2, <2>3, <3>3, <3>4 DEF Exclusive
    <2>4. QED
      BY <2>1, <2>2, <2>3 DEF Exclusive
  <1>7. OrdersFit'
    <2>1. \A i \in DOMAIN ItemsOf[t] : t \notin Cancels => ItemsOf[t][i][1] \in Products
      BY <1>1, <1>2 DEF ItemsFit, HandlerFits
    <2>2. /\ pc'[Target(t)] = "done" /\ order'[Target(t)].status # "NONE"
          /\ Known(order'[Target(t)].items)
      <3>1. CASE t \in Creates
        BY <1>1, <1>3, <2>1, <3>1, Constants DEF Target, Known, TypeOK, Writes, Leaves
      <3>2. CASE t \in Changes
        <4>1. Placed(Target(t)) /\ Target(t) \in Creates /\ Target(t) # t
          BY <1>3, <3>2, Constants DEF Writes
        <4>2. pc[Target(t)] = "done" /\ Known(order[Target(t)].items)
          BY <1>2, <4>1 DEF OrdersFit, NoOrder, Placed
        <4>3. pc'[Target(t)] = "done"
          BY <1>3, <4>1, <4>2, Constants DEF Leaves
        <4>4. CASE t \in Updates
          BY <1>3, <2>1, <4>3, <4>4, Constants DEF Known, Writes
        <4>5. CASE t \in Cancels
          BY <1>3, <4>2, <4>3, <4>5 DEF Writes
        <4>6. QED
          BY <3>2, <4>4, <4>5, Constants
      <3>3. QED
        BY <1>1, <3>1, <3>2, Constants
    <2>3. ASSUME NEW o \in Creates
          PROVE  /\ order'[o].status = "NONE" => order'[o] = NoOrder
                 /\ pc'[o] # "done" => order'[o] = NoOrder
                 /\ Known(order'[o].items)
      <3>1. CASE o = Target(t)
        BY <2>2, <3>1
      <3>2. CASE o # Target(t)
        <4>1. order'[o] = order[o] /\ (pc'[o] # "done" => pc[o] # "done")
          BY <1>1, <1>3, <3>2, Constants DEF TypeOK, Writes, Leaves
        <4>2. QED
          BY <1>2, <4>1 DEF OrdersFit
      <3>3. QED
        BY <3>1, <3>2
    <2>4. ASSUME NEW u \in Changes, Working(u)' PROVE order'[OrderOf[u]].status = "CREATED"
      <3>1. u # t /\ Working(u)
        BY <1>3, <2>4, Constants DEF Leaves
      <3>2. order'[OrderOf[u]] = order[OrderOf[u]]
        BY <1>3, <3>1, Constants DEF Writes
      <3>3. QED
        BY <1>2, <3>1, <3>2 DEF OrdersFit, Placed
    <2>5. QED
      BY <2>3, <2>4 DEF OrdersFit, Known, Placed
  <1>8. StockFits'
    <2> SUFFICES ASSUME Positive, NEW u \in Requests, NEW p \in Products
                 PROVE  stock'[p] + delta'[u][p] >= 0
      BY DEF StockFits
    <2>1. /\ stock[p] \in Int /\ delta[t][p] \in Int /\ delta[u][p] \in Int
          /\ stock'[p] = stock[p] + delta[t][p] /\ stock[p] >= 0
      BY <1>1 DEF TypeOK
    <2>2. stock[p] + delta[t][p] >= 0 /\ stock[p] + delta[u][p] >= 0
      BY <1>1, <1>2 DEF StockFits
    <2>3. CASE u = t
      <3>1. delta'[t] = Zero
        BY <1>1, <1>3 DEF TypeOK, Leaves
      <3>2. QED
        BY <2>1, <2>2, <2>3, <3>1 DEF Zero
    <2>4. CASE u # t /\ delta[u][p] = 0
      BY <1>3, <2>1, <2>2, <2>4 DEF Leaves
    <2>5. CASE u # t /\ delta[u][p] # 0
      <3>1. delta[t][p] = 0
        BY <1>1, <1>2, <2>5 DEF HandlerFits, Exclusive
      <3>2. delta'[u][p] = delta[u][p]
        BY <1>3, <2>5 DEF Leaves
      <3>3. QED
        BY <2>1, <2>2, <3>1, <3>2
    <2>6. QED
      BY <2>3, <2>4, <2>5
  <1>9. UpdatesFit'
    <2> SUFFICES ASSUME NEW u \in Updates, Working(u)', OneOrder(u)
                 PROVE  Operation(u) \notin recent'
      BY DEF UpdatesFit, OneOrder, Operation
    <2>1. u \in Requests /\ u # t /\ Working(u) /\ Operation(u) \notin recent
      BY <1>2, <1>3, Constants DEF UpdatesFit, Leaves
    <2>2. CASE Operation(u) = Operation(t) /\ t \notin Cancels
      <3>1. u \notin Creates
        BY Constants
      <3>2. t \in Updates /\ UserOf[t] = UserOf[u]
        BY <1>1, <2>2, <3>1, Constants DEF Operation
      <3>3. OrderOf[t] = OrderOf[u]
        BY <3>2 DEF OneOrder
      <3>4. QED
        BY <1>1, <1>2, <2>1, <3>2, <3>3, Constants DEF Exclusive
    <2>3. CASE Operation(u) # Operation(t) \/ t \in Cancels
      BY <1>1, <2>1, <2>3
    <2>4. QED
      BY <2>2, <2>3
  <1>10. QED
    BY <1>3, <1>4, <1>5, <1>6, <1>7, <1>8, <1>9 DEF IInv

\* Deletions, promo codes that end and minutes that pass.
LEMMA OthersKeepIInv ==
    ASSUME IInv,
           \/ \E p \in Products : DeleteProduct(p)
           \/ \E q \in Promos : PromoEnds(q)
           \/ \E op \in recent : Minute(op)
    PROVE  IInv'
  <1>1. /\ UNCHANGED <<stock, uses, order, pc, todo, locked, delta, short, keep, reply>>
        /\ active' \subseteq active /\ open' \subseteq open /\ recent' \subseteq recent
    BY DEF DeleteProduct, PromoEnds, Minute, local
  <1>2. Types'
    BY <1>1 DEF IInv, Types, TypeOK, Rows, Operation
  <1>3. \A t \in Requests : (HandlerFits(t) /\ ItemsFit(t) /\ PromoFits(t))'
    BY <1>1 DEF IInv, HandlerFits, ItemsFit, PromoFits, Working, PromoUsed
  <1>4. Exclusive' /\ OrdersFit' /\ UsesFit' /\ StockFits'
    BY <1>1 DEF IInv, Exclusive, OrdersFit, UsesFit, UsersOf, StockFits, Working, PromoUsed, Placed
  <1>5. UpdatesFit'
    BY <1>1 DEF IInv, UpdatesFit, OneOrder, Operation, Working
  <1>6. QED
    BY <1>2, <1>3, <1>4, <1>5 DEF IInv

LEMMA NextIInv == IInv /\ [Next]_vars => IInv'
  <1> SUFFICES ASSUME IInv, [Next]_vars PROVE IInv'
    OBVIOUS
  <1>1. CASE UNCHANGED vars
    <2>1. UNCHANGED <<stock, active, uses, open, order, recent, pc, todo, locked, delta, short,
                      keep, reply>>
      BY <1>1 DEF vars
    <2>2. Types'
      BY <2>1 DEF IInv, Types, TypeOK, Rows, Operation
    <2>3. \A t \in Requests : (HandlerFits(t) /\ ItemsFit(t) /\ PromoFits(t))'
      BY <2>1 DEF IInv, HandlerFits, ItemsFit, PromoFits, Working, PromoUsed
    <2>4. Exclusive' /\ OrdersFit' /\ UsesFit' /\ StockFits'
      BY <2>1 DEF IInv, Exclusive, OrdersFit, UsesFit, UsersOf, StockFits, Working, PromoUsed, Placed
    <2>5. UpdatesFit'
      BY <2>1 DEF IInv, UpdatesFit, OneOrder, Operation, Working
    <2>6. QED
      BY <2>2, <2>3, <2>4, <2>5 DEF IInv
  <1>2. ASSUME NEW t \in Requests, Handle(t) PROVE IInv'
    <2>1. CASE Commit(t)
      <3>1. PICK r : Commits(t, r)
        BY <2>1 DEF Commit, Commits
      <3>2. QED
        BY <3>1, CommitKeepsIInv
    <2>2. QED
      BY <1>2, <2>1, ChecksKeepIInv, ItemsKeepIInv, PromosKeepIInv DEF Handle
  <1>3. ASSUME NEW t \in Requests, DeadlockAbort(t) \/ Fail(t) PROVE IInv'
    <2>1. Fail(t)
      BY <1>3 DEF DeadlockAbort
    <2>2. QED
      BY <2>1, RefuseKeepsIInv DEF Fail
  <1>4. QED
    BY <1>1, <1>2, <1>3, OthersKeepIInv DEF Next

----------------------------------------------------------------------------
(* What follows from it.                                                    *)

\* The row locks keep every handler's view of what it has locked true: its
\* items, its order and the uses of its promo code, whatever the others do.
THEOREM Inductive == Init /\ [][Next]_vars => []IInv
  BY InitIInv, NextIInv, PTL

\* The handlers, whether the creates of a user overlap or not.
LEMMA Handlers == Spec \/ SpecApart => Init /\ [][Next]_vars
  <1>1. [Next /\ CreatesApart']_vars => [Next]_vars
    OBVIOUS
  <1>2. QED
    BY <1>1, PTL DEF Spec, SpecApart

\* The columns keep their types; the stock of no product is ever negative, if
\* each item asks for at least one piece.
THEOREM TypeCorrect == Spec \/ SpecApart => []TypeOK
  <1>1. IInv => TypeOK
    BY DEF IInv, Types
  <1>2. QED
    BY <1>1, Inductive, Handlers, PTL

\* current_uses is the number of the orders that use the code.
THEOREM UsesAreCounted == Spec \/ SpecApart => []PromoCounted
  <1>1. IInv => PromoCounted
    BY DEF IInv, UsesFit, UsersOf, PromoCounted
  <1>2. QED
    BY <1>1, Inductive, Handlers, PTL

\* Concurrent creates do not use a code more than max_uses times.
THEOREM UsesAreLimited == Spec \/ SpecApart => []PromoWithinLimit
  <1>1. IInv => PromoWithinLimit
    BY DEF IInv, UsesFit, UsersOf, PromoWithinLimit
  <1>2. QED
    BY <1>1, Inductive, Handlers, PTL

\* The unlocked read of the last operation is not stale in an update, because
\* the updates of the user wait for the lock of one order.
THEOREM UpdatesWait == Spec \/ SpecApart => UpdatesRateLimited
  <1>1. IInv => \A t \in Updates : pc[t] = "ready" /\ OneOrder(t) => Operation(t) \notin recent
    BY DEF IInv, UpdatesFit, Working
  <1>2. IInv => [\A t \in Updates :
                   /\ \A s \in Updates : UserOf[s] = UserOf[t] => OrderOf[s] = OrderOf[t]
                   /\ pc[t] = "ready" /\ pc'[t] = "done" /\ reply'[t] = "OK"
                   => Operation(t) \notin recent]_vars
    BY <1>1 DEF OneOrder
  <1>3. QED
    BY <1>2, Inductive, Handlers, PTL DEF UpdatesRateLimited

----------------------------------------------------------------------------
(* Creates that do not overlap.                                             *)

\* A step that commits nothing changes no order, and a create that moves on
\* has just read what it goes by.
Moves(t) ==
    \/ pc'[t] = pc[t]
    \/ pc'[t] = "done"
    \/ pc[t] = "idle" /\ pc'[t] = "rated" /\ Operation(t) \notin recent
    \/ pc[t] = "rated" /\ pc'[t] = "items" /\ ~ HasActive(UserOf[t])
    \/ pc[t] = "items" /\ pc'[t] = "ready"

LEMMA StepKinds ==
    ASSUME IInv, [Next]_vars, \A t \in Requests : \A r : ~ Commits(t, r)
    PROVE  order' = order /\ recent' \subseteq recent /\ \A t \in Creates : Moves(t)
  <1>1. pc \in [Requests -> {"idle", "rated", "items", "ready", "done"}] /\ Creates \subseteq Requests
    BY DEF IInv, Types, TypeOK, Requests
  <1>2. CASE UNCHANGED vars
    BY <1>2 DEF vars, Moves
  <1>3. CASE \/ \E p \in Products : DeleteProduct(p)
             \/ \E q \in Promos : PromoEnds(q)
             \/ \E op \in recent : Minute(op)
    BY <1>3 DEF DeleteProduct, PromoEnds, Minute, Moves
  <1>4. ASSUME NEW t \in Requests, NEW r, Refuse(t, r)
        PROVE  order' = order /\ recent' \subseteq recent /\ \A u \in Creates : Moves(u)
    BY <1>1, <1>4 DEF Refuse, Answer, data, Moves
  <1>5. ASSUME NEW t \in Requests, DeadlockAbort(t) \/ Fail(t)
        PROVE  order' = order /\ recent' \subseteq recent /\ \A u \in Creates : Moves(u)
    BY <1>4, <1>5 DEF DeadlockAbort, Fail
  <1>6. ASSUME NEW t \in Requests, Handle(t)
        PROVE  order' = order /\ recent' \subseteq recent /\ \A u \in Creates : Moves(u)
    <2>1. CASE CheckRate(t)
      BY <1>1, <1>4, <2>1 DEF CheckRate, Goto, data, Moves
    <2>2. CASE CheckActive(t)
      BY <1>1, <1>4, <2>2 DEF CheckActive, Goto, data, Moves
    <2>3. CASE RefuseChange(t)
      BY <1>4, <2>3 DEF RefuseChange
    <2>4. CASE LockOrder(t)
      BY <1>1, <2>4, Constants DEF LockOrder, Goto, data, Moves
    <2>5. CASE Item(t)
      BY <1>1, <1>4, <2>5 DEF Item, GiveBack, RefuseItem, TakeItem, data, Moves
    <2>6. CASE Promo(t)
      BY <1>1, <1>4, <2>6
      DEF Promo, Insufficient, WithoutPromo, RefusePromo, UsePromo, SettlePromo, Ready, AllTaken,
          ItemsDone, Goto, data, Moves
    <2>7. CASE Commit(t)
      <3>1. PICK r : Answer(t, r) /\ Apply(t) /\ pc[t] = "ready"
        BY <2>7 DEF Commit
      <3>2. QED
        BY <3>1 DEF Commits
    <2>8. QED
      BY <1>6, <2>1, <2>2, <2>3, <2>4, <2>5, <2>6, <2>7 DEF Handle, Check
  <1>7. QED
    BY <1>2, <1>3, <1>5, <1>6 DEF Next

\* What a create has read without a lock stays true until it commits.
CreatesFit ==
    /\ CreatesApart
    /\ OneActiveOrder
    /\ \A t \in Creates :
         /\ pc[t] \in {"rated", "items", "ready"} => Operation(t) \notin recent
         /\ Working(t) => ~ HasActive(UserOf[t])

LEMMA InitCreatesFit == Init => CreatesFit
  BY Constants
  DEF Init, CreatesFit, CreatesApart, OneActiveOrder, Placed, NoOrder, Working, Requests

LEMMA NextCreatesFit ==
    ASSUME IInv, CreatesFit, [Next /\ CreatesApart']_vars
    PROVE  CreatesFit'
  <1>1. pc \in [Requests -> {"idle", "rated", "items", "ready", "done"}] /\ Creates \subseteq Requests
    BY DEF IInv, Types, TypeOK, Requests
  <1>2. [Next]_vars /\ CreatesApart'
    <2>1. CASE UNCHANGED vars
      BY <2>1 DEF vars, CreatesFit, CreatesApart
    <2>2. QED
      BY <2>1
  <1>3. CASE \A t \in Requests : \A r : ~ Commits(t, r)
    <2>1. order' = order /\ recent' \subseteq recent /\ \A t \in Creates : Moves(t)
      BY <1>2, <1>3, StepKinds
    <2>2. OneActiveOrder'
      BY <2>1 DEF CreatesFit, OneActiveOrder, Placed
    <2>3. ASSUME NEW t \in Creates
          PROVE  /\ pc'[t] \in {"rated", "items", "ready"} => Operation(t) \notin recent'
                 /\ Working(t)' => ~ HasActive(UserOf[t])'
      BY <1>1, <2>1 DEF CreatesFit, Moves, Working, HasActive
    <2>4. QED
      BY <1>2, <2>2, <2>3 DEF CreatesFit, Operation
  <1>4. ASSUME NEW t \in Requests, NEW r, Commits(t, r)
        PROVE  CreatesFit'
    <2>1. /\ Writes(t) /\ Leaves(t, r) /\ pc[t] = "ready"
          /\ recent' = IF t \in Cancels THEN recent ELSE recent \cup {Operation(t)}
      BY <1>4, CommitOrder, CommitLocals DEF Commits, Apply
    <2>2. \A u \in Creates : u # t => pc'[u] = pc[u]
      BY <1>1, <2>1 DEF Leaves
    <2>3. \A o \in Creates : Placed(o)' => Placed(o) \/ o = t
      BY <2>1, Constants DEF Writes, Placed
    <2>4. t \in Creates => Working(t) /\ ~ HasActive(UserOf[t])
      BY <2>1 DEF CreatesFit, Working
    <2>5. OneActiveOrder'
      BY <2>3, <2>4 DEF CreatesFit, OneActiveOrder, HasActive, Placed
    <2>6. ASSUME NEW u \in Creates, pc'[u] \in {"rated", "items", "ready"}
          PROVE  Operation(u) \notin recent' /\ (Working(u)' => ~ HasActive(UserOf[u])')
      <3>1. u # t /\ pc[u] = pc'[u]
        BY <2>1, <2>2, <2>6 DEF Leaves
      <3>2. Operation(u) \notin recent /\ (Working(u) => ~ HasActive(UserOf[u]))
        BY <2>6, <3>1 DEF CreatesFit
      <3>3. t \in Creates => UserOf[t] # UserOf[u]
        BY <2>1, <2>6, <3>1 DEF CreatesFit, CreatesApart
      <3>4. Operation(t) # Operation(u)
        BY <3>3 DEF Operation
      <3>5. Working(u)' => ~ HasActive(UserOf[u])'
        BY <2>3, <3>1, <3>2, <3>3 DEF HasActive, Placed, Working
      <3>6. QED
        BY <2>1, <3>2, <3>4, <3>5
    <2>7. QED
      BY <1>2, <2>5, <2>6 DEF CreatesFit, Operation, Working
  <1>5. QED
    BY <1>3, <1>4

\* A user who waits for the answers has at most one active order.
THEOREM OneActive == SpecApart => []OneActiveOrder
  <1>1. CreatesFit => OneActiveOrder
    BY DEF CreatesFit
  <1>2. QED
    BY <1>1, InitCreatesFit, NextCreatesFit, Inductive, Handlers, PTL DEF SpecApart

\* A user who waits for the answers makes at most one order within a minute.
THEOREM CreatesWait == SpecApart => CreatesRateLimited
  <1>1. ASSUME IInv, CreatesFit, [Next /\ CreatesApart']_vars
        PROVE  [\A t \in Creates : Placed(t)' /\ ~ Placed(t) => Operation(t) \notin recent]_vars
    <2> SUFFICES ASSUME NEW t \in Creates, Placed(t)', ~ Placed(t)
                 PROVE  Operation(t) \notin recent
      OBVIOUS
    <2>1. [Next]_vars
      BY <1>1
    <2>2. order' # order
      BY DEF Placed
    <2>3. PICK u \in Requests : \E r : Commits(u, r)
      BY <1>1, <2>1, <2>2, StepKinds
    <2>4. Writes(u) /\ pc[u] = "ready"
      BY <2>3, CommitOrder DEF Commits
    <2>5. t = u
      BY <2>4, Constants DEF Writes, Placed
    <2>6. QED
      BY <1>1, <2>4, <2>5 DEF CreatesFit
  <1>2. QED
    BY <1>1, InitCreatesFit, NextCreatesFit, Inductive, Handlers, PTL
    DEF SpecApart, CreatesRateLimited
=============================================================================
