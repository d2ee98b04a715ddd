------------------------------- MODULE Catalog -------------------------------
(***************************************************************************)
(* The products and promo codes of the marketplace                         *)
(* (hw2/internal/api/server.go:33-175) behind the middleware of Accounts.  *)
(* A handler makes one statement, which is its transaction.  The routes of *)
(* orders are answered SERVED: Orders models their handlers.               *)
(***************************************************************************)
EXTENDS Accounts

CONSTANTS Codes   \* the codes of promo codes

VARIABLES
    products,   \* the rows of table products, by the call that made them
    promos,     \* the rows of table promo_codes: <<code, call that made it>>
    shown       \* what a finished read showed: <<product, status>>

catalogVars == <<products, promos, shown>>
vars == <<now, users, tokens, pc, claims, reply, products, promos, shown>>

NoProduct == [seller |-> Blank, status |-> "NONE"]

Stored == {p \in Calls : products[p] # NoProduct}

Init ==
    /\ AccountsInit
    /\ products = [p \in Calls |-> NoProduct]
    /\ promos = {}
    /\ shown = [c \in Calls |-> {}]

Handles(c, route) == pc[c] = "handle" /\ claims[c].route = route

\* A body that does not decode, or a parameter that does not parse.
RefuseContent(c) ==
    /\ pc[c] = "handle"
    /\ Refuse(c, "VALIDATION_ERROR")
    /\ UNCHANGED catalogVars

\* INSERT INTO products; an error may be that of a commit that took effect.
CreateProduct(c) ==
    /\ Handles(c, "CreateProduct")
    /\ \/ /\ \E status \in {"ACTIVE", "ARCHIVED"} :
               products' = [products EXCEPT ![c] = [seller |-> claims[c].name, status |-> status]]
          /\ \E a \in {"OK", "DB_ERROR"} : Answer(c, a)
       \/ Answer(c, "DB_ERROR") /\ UNCHANGED products
    /\ UNCHANGED <<now, users, tokens, promos, shown>>

\* Mutant of Archived: the row is deleted.
RowDeleted(row) == NoProduct

\* DELETE keeps the row.
Archived(row) == IF row = NoProduct THEN row ELSE [row EXCEPT !.status = "ARCHIVED"]

\* The products whose id a client may know, or one nobody created.
Known == {p \in Calls : pc[p] = "done"}

DeleteProduct(c) ==
    /\ Handles(c, "DeleteProduct")
    /\ \/ /\ \E p \in Known : products' = [products EXCEPT ![p] = Archived(@)]
          /\ \E a \in {"OK", "DB_ERROR"} : Answer(c, a)
       \/ Answer(c, "DB_ERROR") /\ UNCHANGED products
    /\ UNCHANGED <<now, users, tokens, promos, shown>>

\* Every error of the SELECT is answered PRODUCT_NOT_FOUND.
GetProduct(c) ==
    /\ Handles(c, "GetProduct")
    /\ \/ /\ \E p \in Stored \cap Known :
               shown' = [shown EXCEPT ![c] = {<<p, products[p].status>>}]
          /\ Answer(c, "OK")
       \/ Answer(c, "PRODUCT_NOT_FOUND") /\ UNCHANGED shown
    /\ UNCHANGED <<now, users, tokens, products, promos>>

\* rows.Err() is not looked at: a list that breaks off is answered as it is.
ListProducts(c) ==
    /\ Handles(c, "ListProducts")
    /\ \/ \E S \in SUBSET Stored :
            /\ shown' = [shown EXCEPT ![c] = {<<p, products[p].status>> : p \in S}]
            /\ Answer(c, "OK")
       \/ Answer(c, "DB_ERROR") /\ UNCHANGED shown
    /\ UNCHANGED <<now, users, tokens, products, promos>>

UpdateProduct(c) ==
    /\ Handles(c, "UpdateProduct")
    /\ Refuse(c, "NOT_IMPLEMENTED")
    /\ UNCHANGED catalogVars

\* code is UNIQUE.
CodeFree(code) == \A row \in promos : row[1] # code

\* INSERT INTO promo_codes; every error is answered 409.
CreatePromoCode(c) ==
    /\ Handles(c, "CreatePromoCode")
    /\ \/ /\ \E code \in {d \in Codes : CodeFree(d)} : promos' = promos \cup {<<code, c>>}
          /\ \E a \in {"OK", "DB_ERROR"} : Answer(c, a)
       \/ Answer(c, "DB_ERROR") /\ UNCHANGED promos
    /\ UNCHANGED <<now, users, tokens, products, shown>>

\* The routes of orders.
OrderRoute(c) ==
    /\ pc[c] = "handle"
    /\ claims[c].route \in BuyerRoutes \cup {"GetOrder"}
    /\ Refuse(c, "SERVED")
    /\ UNCHANGED catalogVars

HandleCall(c) ==
    \/ RefuseContent(c) \/ CreateProduct(c) \/ UpdateProduct(c) \/ DeleteProduct(c)
    \/ GetProduct(c) \/ ListProducts(c) \/ CreatePromoCode(c) \/ OrderRoute(c)

Next ==
    \/ \E r \in Requests : AccountStep(r) /\ UNCHANGED catalogVars
    \/ \E c \in Calls : HandleCall(c)
    \/ Tick /\ UNCHANGED catalogVars

Spec == Init /\ [][Next]_vars
----------------------------------------------------------------------------
TypeOK ==
    /\ AccountsTypeOK
    /\ DOMAIN products = Calls
    /\ \A p \in Calls : products[p].status \in {"NONE", "ACTIVE", "ARCHIVED"}
    /\ promos \subseteq Codes \X Calls
    /\ \A c \in Calls : shown[c] \subseteq Calls \X {"ACTIVE", "ARCHIVED"}

RegisteredAs(n) == RoleOf[users[n]]

\* What is in the catalog was put there by users registered as sellers or
\* admins, and orders are served to users registered as buyers or admins:
\* from registration over login, refreshes and the middleware to the row
\* (main.go:52-77, server.go:64-110, 142-175).
RowsByRole ==
    /\ \A p \in Stored : RegisteredAs(products[p].seller) \in Sellers
    /\ \A row \in promos : RegisteredAs(claims[row[2]].name) \in Sellers
    /\ \A c \in Calls :
         reply[c] = "SERVED" /\ claims[c].route \in BuyerRoutes =>
             RegisteredAs(claims[c].name) \in Buyers

\* A product that a read has shown stays in the table, and one that a read has
\* shown ARCHIVED is never orderable again: archiving is final and keeps the
\* row (server.go:112-118).
ShownStays ==
    \A c \in Calls : \A s \in shown[c] :
        /\ s[1] \in Stored
        /\ s[2] = "ARCHIVED" => products[s[1]].status = "ARCHIVED"

\* The inductive invariant.  A user in a token, in the claims of a handler or
\* in a row is registered, and a role that was copied is the registered one; a
\* handler is where its kind of request can be, and answers once.
Registered(name) == name \in Names /\ users[name] # Blank

\* Whoever has a token, or is about to be given one, has logged in, or does now.
SessionsFit ==
    /\ \A token \in tokens : LoggedIn(token.name)
    /\ \A r \in Refreshes : pc[r] = "issue" => LoggedIn(claims[r].name)
    /\ \A r \in Logins : pc[r] = "issue" => claims[r].name = NameOf[r]

ClaimsTrue ==
    \A r \in Requests :
        /\ pc[r] \in {"issue", "handle"} =>
             Registered(claims[r].name) /\ claims[r].role = RegisteredAs(claims[r].name)
        /\ pc[r] = "handle" => RoleAllowed(claims[r].route, claims[r].role)

PlacesOK ==
    \A r \in Requests :
        /\ pc[r] = "issue" => r \in Logins \cup Refreshes
        /\ pc[r] = "handle" => r \in Calls
        /\ pc[r] # "done" => reply[r] = "none"

RowsOwned ==
    /\ \A p \in Stored :
         pc[p] = "done" /\ Registered(products[p].seller) /\ products[p].status # "NONE"
    /\ \A row \in promos : pc[row[2]] = "done" /\ Registered(claims[row[2]].name)
    /\ \A c \in Calls : reply[c] = "SERVED" => Registered(claims[c].name)

IInv ==
    /\ TypeOK
    /\ OneAccount
    /\ TokensTellRole
    /\ SessionsFit
    /\ ClaimsTrue
    /\ PlacesOK
    /\ RowsOwned
    /\ RowsByRole
    /\ ShownStays
=============================================================================
