------------------------------- MODULE MCOrders -------------------------------
(* Small instances of Orders.  One piece each of two products.  Two users   *)
(* each order one of them with a promo code of one use; both orders are then *)
(* changed to the other's product, one with an unknown product as well, and  *)
(* the first is changed back.  In the Apart instance one user creates again  *)
(* and again, also what is refused, adds the other product to the order, and *)
(* an admin and a stranger try to cancel it.                                 *)
EXTENDS Orders

MCProducts == {"p1", "p2"}
MCStock == [p \in MCProducts |-> 1]
MCPromos == {"q"}
MCMaxUses == [q \in MCPromos |-> 1]

MCUserOf ==
    [t \in Requests |->
        CASE t \in {"create2", "change2", "cancelStranger"} -> "u2" [] t = "cancelAdmin" -> "admin"
          [] OTHER -> "u1"]
MCItemsOf ==
    [t \in Creates \cup Updates |->
        CASE t \in {"create2", "createPlain", "update1"} -> <<<<"p2", 1>>>>
          [] t = "updateBack" -> <<<<"p1", 1>>, <<"p2", 1>>>>
          [] t = "change2" -> <<<<"p1", 1>>, <<"none", 1>>>>
          [] OTHER -> <<<<"p1", 1>>>>]
MCPromoOf ==
    [t \in Creates |-> IF t = "createPlain" THEN NoPromo ELSE "q"]
MCReachesMin ==
    [t \in Creates \cup Updates |-> IF t \in {"update2", "createSmall"} THEN {} ELSE {"q"}]
MCOrderOf == [t \in Changes |-> IF t = "change2" THEN "create2" ELSE "create1"]
============================================================================
