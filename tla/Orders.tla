-------------------------------- MODULE Orders --------------------------------
(***************************************************************************)
(* CreateOrder, UpdateOrder and CancelOrder of the marketplace             *)
(* (hw2/internal/api/orders.go) and DeleteProduct (server.go:112), run by  *)
(* any number of concurrent HTTP handlers against one PostgreSQL database  *)
(* at READ COMMITTED.                                                      *)
(*                                                                         *)
(* A handler is one transaction that locks the order it names, then the    *)
(* products of the order's old and new items one by one, then a promo      *)
(* code, and commits.  A step of a handler is what it does between two     *)
(* points where it may have to wait.  What it has written is visible to    *)
(* others at its commit; until then delta is what it adds to the stocks.   *)
(*                                                                         *)
(* Money is left out: no statement changes a price, so whether the items   *)
(* of a request reach the minimum of a promo code is a constant.           *)
(***************************************************************************)
EXTENDS Integers, FiniteSets, FiniteSetsExt, Sequences

CONSTANTS
    Products,       \* ids of the rows of table products
    InitialStock,   \* [Products -> Nat], column stock
    Deletable,      \* products a seller may delete
    Promos,         \* codes of the rows of table promo_codes
    MaxUses,        \* [Promos -> Nat], column max_uses
    NoPromo,        \* the absence of a promo code
    Creates, Updates, Cancels,   \* the requests
    Admins,         \* users whose role is ADMIN
    UserOf,         \* the user of a request
    ItemsOf,        \* the items of a create or an update: <<product, quantity>>
    PromoOf,        \* the code a create carries; may be NoPromo or unknown
    ReachesMin,     \* the codes whose minimum the items of a request reach
    OrderOf         \* the order an update or cancel names: who created it

Requests == Creates \cup Updates \cup Cancels
Changes == Updates \cup Cancels

ASSUME StockAssumption ==
    InitialStock \in [Products -> Nat] /\ MaxUses \in [Promos -> Nat]
ASSUME RequestsAssumption ==
    /\ Creates \cap Changes = {} /\ Updates \cap Cancels = {}
    /\ DOMAIN UserOf = Requests
    /\ OrderOf \in [Changes -> Creates]
\* What the items of requests name, rows of table products or not.
Ids == UNION {{ItemsOf[t][i][1] : i \in DOMAIN ItemsOf[t]} : t \in DOMAIN ItemsOf}
\* No handler checks that an item asks for at least one piece.
ASSUME ItemsAssumption ==
    /\ DOMAIN ItemsOf = Creates \cup Updates
    /\ \A t \in DOMAIN ItemsOf : ItemsOf[t] \in Seq(Ids \X Int)
ASSUME PromosAssumption ==
    NoPromo \notin Promos /\ DOMAIN PromoOf = Creates

VARIABLES
    stock,     \* products.stock, committed
    active,    \* products whose status is ACTIVE
    uses,      \* promo_codes.current_uses, committed
    open,      \* promo codes that are active and in their time of validity
    order,     \* the row and items of the order a create has made
    recent,    \* the user_operations less than a minute old: <<user, type>>
    pc,        \* how far a handler is
    todo,      \* the statements on products a handler still has to make
    locked,    \* the products whose rows a handler has locked
    delta,     \* what a handler adds to the stocks when it commits
    short,     \* hasErrors: some item was not in stock
    keep,      \* the promo code of the order when a handler commits
    reply      \* what a finished handler answered

data == <<stock, active, uses, open, order, recent>>
local == <<todo, locked, delta, short, keep>>
vars == <<stock, active, uses, open, order, recent, pc, todo, locked, delta, short, keep, reply>>

NoOrder == [status |-> "NONE", items |-> << >>, promo |-> NoPromo]

Init ==
    /\ stock = InitialStock
    /\ active = Products
    /\ uses = [q \in Promos |-> 0]
    /\ open = Promos
    /\ order = [o \in Creates |-> NoOrder]
    /\ recent = {}
    /\ pc = [t \in Requests |-> "idle"]
    /\ todo = [t \in Requests |-> << >>]
    /\ locked = [t \in Requests |-> {}]
    /\ delta = [t \in Requests |-> [p \in Products |-> 0]]
    /\ short = [t \in Requests |-> FALSE]
    /\ keep = [t \in Requests |-> NoPromo]
    /\ reply = [t \in Requests |-> "none"]

----------------------------------------------------------------------------
(* Row locks.                                                              *)

\* The order, and the promo code, that a request works on.
Names(t, o) == t \in Changes /\ OrderOf[t] = o
PromoUsed(t) == IF t \in Creates THEN PromoOf[t] ELSE order[OrderOf[t]].promo

\* Mutant of OrderFree: the order is read without FOR UPDATE.
OrderNotLocked(o) == TRUE

OrderFree(o) == \A t \in Changes : Names(t, o) => pc[t] \in {"idle", "done"}

\* Mutant of ProductFree: the product is read without FOR UPDATE.
ProductNotLocked(t, p) == TRUE

ProductFree(t, p) == \A u \in Requests \ {t} : p \notin locked[u]

\* Mutant of PromoFree: the promo code is read without FOR UPDATE.
PromoNotLocked(q) == TRUE

PromoFree(q) == \A t \in Requests : pc[t] = "ready" => PromoUsed(t) # q

\* t waits for the row of a product that u has locked.
WaitsFor(t, u) ==
    /\ pc[t] = "items"
    /\ todo[t] # << >>
    /\ Head(todo[t]).product \in locked[u] \ locked[t]

\* The transaction is over: its locks are dropped.
Answer(t, r) ==
    /\ pc' = [pc EXCEPT ![t] = "done"]
    /\ reply' = [reply EXCEPT ![t] = r]
    /\ todo' = [todo EXCEPT ![t] = << >>]
    /\ locked' = [locked EXCEPT ![t] = {}]
    /\ delta' = [delta EXCEPT ![t] = [p \in Products |-> 0]]
    /\ short' = [short EXCEPT ![t] = FALSE]
    /\ keep' = [keep EXCEPT ![t] = NoPromo]

Refuse(t, r) == Answer(t, r) /\ UNCHANGED data

Goto(t, where) == pc' = [pc EXCEPT ![t] = where] /\ UNCHANGED reply

----------------------------------------------------------------------------
(* The checks before the items.                                            *)

Steps(method, items) ==
    [i \in DOMAIN items |->
        [method |-> method, product |-> items[i][1], quantity |-> items[i][2]]]

Operation(t) ==
    <<UserOf[t], IF t \in Creates THEN "CREATE_ORDER" ELSE "UPDATE_ORDER">>

\* Mutant of HasActive: only orders that wait for a payment count.
HasPending(u) == \E o \in Creates : UserOf[o] = u /\ order[o].status = "PAYMENT_PENDING"

HasActive(u) == \E o \in Creates : UserOf[o] = u /\ order[o].status = "CREATED"

\* Mutant of CheckRate: the operation looked for is the other one.
CheckOtherRate(t) ==
    /\ t \in Creates
    /\ pc[t] = "idle"
    /\ <<UserOf[t], "UPDATE_ORDER">> \notin recent
    /\ Goto(t, "rated") /\ UNCHANGED <<data, local>>

\* The last operation of the user is read, without a lock.
CheckRate(t) ==
    /\ t \in Creates
    /\ pc[t] = "idle"
    /\ \/ Operation(t) \in recent /\ Refuse(t, "ORDER_LIMIT_EXCEEDED")
       \/ Operation(t) \notin recent /\ Goto(t, "rated") /\ UNCHANGED <<data, local>>

\* The active orders of the user are counted, without a lock.
CheckActive(t) ==
    /\ pc[t] = "rated"
    /\ \/ HasActive(UserOf[t]) /\ Refuse(t, "ORDER_HAS_ACTIVE")
       \/ /\ ~ HasActive(UserOf[t])
          /\ Goto(t, "items")
          /\ todo' = [todo EXCEPT ![t] = Steps("take", ItemsOf[t])]
          /\ UNCHANGED <<data, locked, delta, short, keep>>

\* An order id is known once the request that made it is answered.
IdKnown(t) == pc[OrderOf[t]] = "done"

\* Mutant of Allowed: nobody looks who the owner is.
AnyoneAllowed(t) == TRUE

Allowed(t) == UserOf[t] \in Admins \/ UserOf[t] = UserOf[OrderOf[t]]

\* SELECT ... FROM orders FOR UPDATE, and the checks of an update or a cancel.
RefuseChange(t) ==
    LET o == OrderOf[t]
    IN  /\ t \in Changes
        /\ pc[t] = "idle"
        /\ IdKnown(t)
        /\ \/ order[o] = NoOrder /\ Refuse(t, "ORDER_NOT_FOUND")
           \/ /\ order[o] # NoOrder /\ OrderFree(o)
              /\ ~ Allowed(t)
              /\ Refuse(t, "ORDER_OWNERSHIP_VIOLATION")
           \/ /\ order[o].status = "CANCELED" /\ OrderFree(o)
              /\ Allowed(t)
              /\ Refuse(t, "INVALID_STATE_TRANSITION")
           \/ /\ order[o].status = "CREATED" /\ OrderFree(o)
              /\ Allowed(t)
              /\ t \in Updates /\ Operation(t) \in recent
              /\ Refuse(t, "ORDER_LIMIT_EXCEEDED")

\* The order is locked and may be changed: its old items are to be given back,
\* and those of an update to be taken.
LockOrder(t) ==
    LET o == OrderOf[t]
    IN  /\ t \in Changes
        /\ pc[t] = "idle"
        /\ IdKnown(t)
        /\ order[o].status = "CREATED"
        /\ OrderFree(o)
        /\ Allowed(t)
        /\ t \in Updates => Operation(t) \notin recent
        /\ Goto(t, "items")
        /\ todo' = [todo EXCEPT ![t] =
                      Steps("give", order[o].items)
                        \o (IF t \in Updates THEN Steps("take", ItemsOf[t]) ELSE << >>)]
        /\ UNCHANGED <<data, locked, delta, short, keep>>

----------------------------------------------------------------------------
(* The items.                                                              *)

At(t, method) ==
    pc[t] = "items" /\ todo[t] # << >> /\ Head(todo[t]).method = method

\* Done with a row, which stays locked; the stock changes by n.
Book(t, n) ==
    LET p == Head(todo[t]).product
    IN  /\ todo' = [todo EXCEPT ![t] = Tail(@)]
        /\ locked' = [locked EXCEPT ![t] = @ \cup {p}]
        /\ delta' = [delta EXCEPT ![t][p] = @ + n]

\* UPDATE products SET stock = stock + quantity
GiveBack(t) ==
    /\ At(t, "give")
    /\ ProductFree(t, Head(todo[t]).product)
    /\ Book(t, Head(todo[t]).quantity)
    /\ UNCHANGED <<data, pc, short, keep, reply>>

\* SELECT ... FOR UPDATE finds no product, or one that is not ACTIVE.
RefuseItem(t) ==
    LET p == Head(todo[t]).product
    IN  /\ At(t, "take")
        /\ \/ /\ p \notin Products
              /\ Refuse(t, IF t \in Creates THEN "PRODUCT_NOT_FOUND" ELSE "PRODUCT_INACTIVE")
           \/ /\ p \in Products \ active
              /\ ProductFree(t, p)
              /\ Refuse(t, "PRODUCT_INACTIVE")

\* The row is locked; the quantity is taken if it is there.
TakeItem(t) ==
    LET p == Head(todo[t]).product
        n == Head(todo[t]).quantity
    IN  /\ At(t, "take")
        /\ p \in active
        /\ ProductFree(t, p)
        /\ \/ stock[p] + delta[t][p] >= n /\ Book(t, 0 - n) /\ UNCHANGED short
           \/ stock[p] + delta[t][p] < n /\ Book(t, 0) /\ short' = [short EXCEPT ![t] = TRUE]
        /\ UNCHANGED <<data, pc, keep, reply>>

\* DeleteProduct, one statement, which waits for the row's lock.
DeleteProduct(p) ==
    /\ p \in active \cap Deletable
    /\ \A t \in Requests : p \notin locked[t]
    /\ active' = active \ {p}
    /\ UNCHANGED <<stock, uses, open, order, recent, pc, local, reply>>

----------------------------------------------------------------------------
(* The promo code.                                                         *)

ItemsDone(t) == pc[t] = "items" /\ todo[t] = << >>

Insufficient(t) ==
    /\ ItemsDone(t)
    /\ short[t]
    /\ Refuse(t, "INSUFFICIENT_STOCK")

\* Mutant of AllTaken: hasErrors is not looked at.
ShortageIgnored(t) == ItemsDone(t)

AllTaken(t) == ItemsDone(t) /\ ~ short[t]

\* The order, when t commits, has promo code q.
Ready(t, q) ==
    /\ Goto(t, "ready")
    /\ keep' = [keep EXCEPT ![t] = q]
    /\ UNCHANGED <<data, todo, locked, delta, short>>

WithoutPromo(t) == AllTaken(t) /\ PromoUsed(t) = NoPromo /\ Ready(t, NoPromo)

\* SELECT ... FROM promo_codes FOR UPDATE in CreateOrder.
RefusePromo(t) ==
    LET q == PromoOf[t]
    IN  /\ t \in Creates
        /\ AllTaken(t)
        /\ q # NoPromo
        /\ \/ /\ PromoFree(q)
              /\ q \notin open \/ uses[q] >= MaxUses[q]
              /\ Refuse(t, "PROMO_CODE_INVALID")
           \/ /\ q \in open /\ PromoFree(q)
              /\ uses[q] < MaxUses[q]
              /\ q \notin ReachesMin[t]
              /\ Refuse(t, "PROMO_CODE_MIN_AMOUNT")

UsePromo(t) ==
    LET q == PromoOf[t]
    IN  /\ t \in Creates
        /\ AllTaken(t)
        /\ q \in open /\ PromoFree(q)
        /\ uses[q] < MaxUses[q]
        /\ q \in ReachesMin[t]
        /\ Ready(t, q)

\* The promo code already in the row.  UpdateOrder keeps it when it still
\* applies, or drops it, and never compares the number of its uses again.
\* CancelOrder takes back one use, and leaves promo_code_id in the row.
SettlePromo(t) ==
    LET q == PromoUsed(t)
    IN  /\ t \in Changes
        /\ AllTaken(t)
        /\ q \in Promos /\ PromoFree(q)
        /\ Ready(t, IF t \in Cancels \/ q \in open \cap ReachesMin[t] THEN q ELSE NoPromo)

\* valid_until passes.
PromoEnds(q) ==
    /\ q \in open
    /\ open' = open \ {q}
    /\ UNCHANGED <<stock, active, uses, order, recent, pc, local, reply>>

----------------------------------------------------------------------------
(* The commit.                                                             *)

\* Mutant of UsesChange: CancelOrder forgets the promo code.
CancelKeepsUse(t) ==
    CASE t \in Creates -> IF keep[t] = NoPromo THEN 0 ELSE 1
      [] t \in Updates -> IF PromoUsed(t) # NoPromo /\ keep[t] = NoPromo THEN -1 ELSE 0
      [] OTHER -> 0

\* What the handler adds to current_uses of the promo code it works on.
UsesChange(t) ==
    CASE t \in Creates -> IF keep[t] = NoPromo THEN 0 ELSE 1
      [] t \in Updates -> IF PromoUsed(t) # NoPromo /\ keep[t] = NoPromo THEN -1 ELSE 0
      [] t \in Cancels -> IF PromoUsed(t) # NoPromo THEN -1 ELSE 0

\* The writes of t become visible.
Apply(t) ==
    /\ stock' = [p \in Products |-> stock[p] + delta[t][p]]
    /\ uses' = [q \in Promos |-> uses[q] + IF q = PromoUsed(t) THEN UsesChange(t) ELSE 0]
    /\ \/ /\ t \in Creates
          /\ order' = [order EXCEPT ![t] =
                         [status |-> "CREATED", items |-> ItemsOf[t], promo |-> keep[t]]]
       \/ /\ t \in Updates
          /\ order' = [order EXCEPT ![OrderOf[t]].items = ItemsOf[t],
                                    ![OrderOf[t]].promo = keep[t]]
       \/ /\ t \in Cancels
          /\ order' = [order EXCEPT ![OrderOf[t]].status = "CANCELED"]
    /\ recent' = IF t \in Cancels THEN recent ELSE recent \cup {Operation(t)}
    /\ UNCHANGED <<active, open>>

\* An update or cancel is answered by GetOrder, in a transaction of its own:
\* any error of its SELECT reads as an order that is not there.
GetOrder(t) == IF t \in Creates THEN {"OK"} ELSE {"OK", "ORDER_NOT_FOUND"}

\* COMMIT takes effect; the handler learns it, or gets an error.
Commit(t) ==
    /\ pc[t] = "ready"
    /\ Apply(t)
    /\ \E r \in GetOrder(t) \cup {"DB_ERROR"} : Answer(t, r)

\* An operation becomes a minute old.
Minute(op) ==
    /\ op \in recent
    /\ recent' = recent \ {op}
    /\ UNCHANGED <<stock, active, uses, open, order, pc, local, reply>>

----------------------------------------------------------------------------
(* Failures: any statement may fail, and the transaction then rolls back.  *)
(* Some errors are ignored, so the handler finds out at a later statement; *)
(* an error of SELECT ... FROM products leaves the status empty, which     *)
(* reads as not ACTIVE.                                                    *)

FailureReply(t) ==
    CASE pc[t] = "rated" \/ At(t, "take") -> "PRODUCT_INACTIVE"
      [] t \in Creates /\ ItemsDone(t) -> "PROMO_CODE_INVALID"
      [] t \in Changes /\ pc[t] = "idle" -> "ORDER_NOT_FOUND"
      [] OTHER -> "DB_ERROR"

Fail(t) ==
    /\ pc[t] # "done"
    /\ t \in Changes => IdKnown(t)
    /\ Refuse(t, FailureReply(t))

\* Mutant of DeadlockAbort: a deadlock is not detected.
DeadlockUnseen(t) == WaitsFor(t, t) /\ Fail(t)

\* PostgreSQL fails a statement of a cycle of waits.  Only waits for products
\* can form one: an order is locked first, a promo code last.
DeadlockAbort(t) ==
    /\ \E u \in Requests : WaitsFor(t, u)
    /\ \E S \in SUBSET Requests :
         /\ t \in S
         /\ \A u \in S : \E v \in S : WaitsFor(v, u)
         /\ \A u \in S : \E v \in S : WaitsFor(u, v)
    /\ Fail(t)

----------------------------------------------------------------------------
Check(t) == CheckRate(t) \/ CheckActive(t) \/ RefuseChange(t) \/ LockOrder(t)

Item(t) == GiveBack(t) \/ RefuseItem(t) \/ TakeItem(t)

Promo(t) ==
    \/ Insufficient(t) \/ WithoutPromo(t) \/ RefusePromo(t)
    \/ UsePromo(t) \/ SettlePromo(t)

Handle(t) == Check(t) \/ Item(t) \/ Promo(t) \/ Commit(t)

Next ==
    \/ \E t \in Requests : Handle(t) \/ DeadlockAbort(t) \/ Fail(t)
    \/ \E p \in Products : DeleteProduct(p)
    \/ \E q \in Promos : PromoEnds(q)
    \/ \E op \in recent : Minute(op)

\* A running handler issues its next statement; PostgreSQL grants a free row
\* lock and resolves cycles of waits.
Fairness ==
    \A t \in Requests : WF_vars(pc[t] # "idle" /\ (Handle(t) \/ DeadlockAbort(t)))

Spec == Init /\ [][Next]_vars /\ Fairness

\* A user waits for the answer to a create before sending another.
CreatesApart ==
    \A s, t \in Creates :
        s # t /\ UserOf[s] = UserOf[t] => pc[s] \in {"idle", "done"} \/ pc[t] \in {"idle", "done"}

SpecApart == Init /\ [][Next /\ CreatesApart']_vars
----------------------------------------------------------------------------
\* No item asks for less than one piece.
Positive == \A t \in DOMAIN ItemsOf : \A i \in DOMAIN ItemsOf[t] : ItemsOf[t][i][2] > 0

TypeOK ==
    /\ stock \in [Products -> IF Positive THEN Nat ELSE Int]
    /\ active \subseteq Products
    /\ uses \in [Promos -> Nat]
    /\ open \subseteq Promos
    /\ DOMAIN order = Creates
    /\ \A o \in Creates :
         /\ order[o].status \in {"NONE", "CREATED", "CANCELED"}
         /\ order[o].promo \in Promos \cup {NoPromo}
    /\ recent \subseteq {Operation(t) : t \in Creates \cup Updates}
    /\ pc \in [Requests -> {"idle", "rated", "items", "ready", "done"}]
    /\ locked \in [Requests -> SUBSET Products]
    /\ delta \in [Requests -> [Products -> Int]]
    /\ short \in [Requests -> BOOLEAN]
    /\ keep \in [Requests -> Promos \cup {NoPromo}]

\* The promise of OrderLedger: each request is one atomic change, made when it
\* is answered, and a refusal, true or not, leaves nothing behind.  Hence only
\* the owner or an admin changes an order, and a canceled one never changes: an
\* update that waited for the lock of a cancellation sees it (orders.go:24-433).
Ledger == INSTANCE OrderLedger WITH
              stock <- stock, uses <- uses, order <- order, reply <- reply,
              MayChange <- [t \in Changes |-> UserOf[t] \in Admins \cup {UserOf[OrderOf[t]]}]
RefinesLedger == Ledger!Spec

Placed(o) == order[o].status = "CREATED"

\* The pieces of product p that an order takes from the shelves: an item that
\* asks for none, or for a negative number, takes none.
Taken(o, p) ==
    LET items == order[o].items
    IN  MapThenSumSet(LAMBDA i : items[i][2],
                      {i \in DOMAIN items : items[i][1] = p /\ items[i][2] > 0})

\* Every piece is in stock or in an order that is not canceled: an update that
\* races a cancellation, a rollback or a failure neither loses a piece nor
\* gives one back twice (orders.go:69-93, 286-314, 417-425).  This holds when
\* every item asks for a piece; one of minus one adds a piece to the stock.
StockConserved ==
    \A p \in Products :
        stock[p] + MapThenSumSet(LAMBDA o : Taken(o, p), {o \in Creates : Placed(o)})
            = InitialStock[p]

\* current_uses of a promo code is the number of orders that use it, through
\* every create, update that drops it and cancellation (orders.go:151, 361, 422).
PromoCounted ==
    \A q \in Promos : uses[q] = Cardinality({o \in Creates : Placed(o) /\ order[o].promo = q})

\* No more orders use a promo code than max_uses, although they are created
\* concurrently and updates do not compare it again (orders.go:116-151, 341-345).
PromoWithinLimit ==
    \A q \in Promos : Cardinality({o \in Creates : Placed(o) /\ order[o].promo = q}) <= MaxUses[q]

\* When the updates of a user name one order, no two of them commit within a
\* minute, although the last operation is read without a lock: the order's
\* lock makes them wait for each other (orders.go:250-271).
UpdatesRateLimited ==
    [][\A t \in Updates :
         /\ \A s \in Updates : UserOf[s] = UserOf[t] => OrderOf[s] = OrderOf[t]
         /\ pc[t] = "ready" /\ pc'[t] = "done" /\ reply'[t] = "OK"
         => Operation(t) \notin recent]_vars

\* Every request that has begun is answered, although items are locked in the
\* order of the request (orders.go:69-80, 286-306).
EveryRequestAnswered == \A t \in Requests : pc[t] # "idle" ~> pc[t] = "done"

\* A user has at most one active order, and makes at most one within a minute.
\* CreateOrder reads both without a lock (orders.go:51-63), so this holds when
\* the creates of a user do not overlap.
OneActiveOrder ==
    \A o, x \in Creates :
        Placed(o) /\ Placed(x) /\ UserOf[o] = UserOf[x] => o = x

CreatesRateLimited ==
    [][\A t \in Creates : Placed(t)' /\ ~ Placed(t) => Operation(t) \notin recent]_vars
============================================================================
