------------------------------ MODULE OrderLedger ------------------------------
(***************************************************************************)
(* What the marketplace promises about orders: a request to create, update *)
(* or cancel one is a single change of the stocks, the uses of promo codes *)
(* and the orders, made when it is answered, or no change at all.  Only an *)
(* answer in Unsure leaves open which of the two happened.  Orders         *)
(* implements it, although a handler makes a dozen statements between      *)
(* which other handlers run.                                               *)
(***************************************************************************)
EXTENDS Integers, FiniteSetsExt

CONSTANTS Products, InitialStock, Promos, MaxUses, NoPromo, NoOrder,
          Creates, Updates, Cancels, MayChange, ItemsOf, PromoOf, OrderOf

VARIABLES
    stock,   \* pieces of a product in stock
    uses,    \* how often a promo code was used
    order,   \* the order a create has made
    reply    \* how a request was answered, or "none"

vars == <<stock, uses, order, reply>>

Changes == Updates \cup Cancels

Init ==
    /\ stock = InitialStock
    /\ uses = [q \in Promos |-> 0]
    /\ order = [o \in Creates |-> NoOrder]
    /\ reply = [t \in Creates \cup Changes |-> "none"]

\* The pieces of product p in a list of items.
Pieces(items, p) ==
    MapThenSumSet(LAMBDA i : items[i][2], {i \in DOMAIN items : items[i][1] = p})

Unsure(t) == IF t \in Creates THEN {"DB_ERROR"} ELSE {"DB_ERROR", "ORDER_NOT_FOUND"}

Answered(t, replies) ==
    /\ reply[t] = "none"
    /\ \E r \in replies : reply' = [reply EXCEPT ![t] = r]

Done(t) == Answered(t, {"OK"} \cup Unsure(t))

\* The items old go back to the shelves and the items new leave them, where
\* there must be enough of what is asked for.
Move(old, new) ==
    /\ stock' = [p \in Products |-> stock[p] + Pieces(old, p) - Pieces(new, p)]
    /\ \A p \in Products : Pieces(new, p) > 0 => stock'[p] >= 0
    /\ \A i \in DOMAIN new : new[i][1] \in Products

\* Promo code q, if any, is used n times more.
Use(q, n) == uses' = [c \in Promos |-> IF c = q THEN uses[c] + n ELSE uses[c]]

\* A promo code that is asked for is used, and only while uses are left.
Create(t) ==
    /\ Move(<< >>, ItemsOf[t])
    /\ Use(PromoOf[t], 1)
    /\ PromoOf[t] \in Promos \cup {NoPromo}
    /\ PromoOf[t] \in Promos => uses'[PromoOf[t]] <= MaxUses[PromoOf[t]]
    /\ order' = [order EXCEPT ![t] = [status |-> "CREATED", items |-> ItemsOf[t], promo |-> PromoOf[t]]]
    /\ Done(t)

\* The order keeps its promo code, or gives the use back.
Update(t, o) ==
    /\ order[o].status = "CREATED" /\ MayChange[t]
    /\ Move(order[o].items, ItemsOf[t])
    /\ \/ order' = [order EXCEPT ![o].items = ItemsOf[t]] /\ UNCHANGED uses
       \/ /\ order' = [order EXCEPT ![o].items = ItemsOf[t], ![o].promo = NoPromo]
          /\ Use(order[o].promo, -1)
    /\ Done(t)

Cancel(t, o) ==
    /\ order[o].status = "CREATED" /\ MayChange[t]
    /\ Move(order[o].items, << >>)
    /\ Use(order[o].promo, -1)
    /\ order' = [order EXCEPT ![o].status = "CANCELED"]
    /\ Done(t)

Refusals ==
    {"ORDER_LIMIT_EXCEEDED", "ORDER_HAS_ACTIVE", "ORDER_NOT_FOUND", "ORDER_OWNERSHIP_VIOLATION",
     "INVALID_STATE_TRANSITION", "PRODUCT_NOT_FOUND", "PRODUCT_INACTIVE", "INSUFFICIENT_STOCK",
     "PROMO_CODE_INVALID", "PROMO_CODE_MIN_AMOUNT", "DB_ERROR"}

\* Nothing is changed; some refusals say why.
Refuse(t) ==
    /\ Answered(t, Refusals)
    /\ reply'[t] = "ORDER_OWNERSHIP_VIOLATION" => t \in Changes /\ ~ MayChange[t]
    /\ reply'[t] = "INVALID_STATE_TRANSITION" => order[OrderOf[t]].status = "CANCELED"
    /\ UNCHANGED <<stock, uses, order>>

Next ==
    \/ \E t \in Creates : Create(t)
    \/ \E t \in Updates : Update(t, OrderOf[t])
    \/ \E t \in Cancels : Cancel(t, OrderOf[t])
    \/ \E t \in Creates \cup Changes : Refuse(t)

Spec == Init /\ [][Next]_vars
=============================================================================
