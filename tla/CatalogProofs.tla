---------------------------- MODULE CatalogProofs ----------------------------
(***************************************************************************)
(* Theorems about Accounts and Catalog for every number of users, requests *)
(* and tokens: IInv of Catalog is inductive, one lemma per kind of step,   *)
(* and what the runs check follows from it.                                *)
(***************************************************************************)
EXTENDS Catalog, FiniteSetTheorems, TLAPS

\* The parts of IInv that look at requests only through pc, claims and reply.
Told == OneAccount /\ TokensTellRole /\ SessionsFit /\ ClaimsTrue /\ PlacesOK

Rows == RowsOwned /\ RowsByRole /\ ShownStays

\* Who was told that the registration worked is the one in the row.
WinnersInRows == \A r \in Registers : reply[r] = "OK" => users[NameOf[r]] = r

\* At most one registration of a name was answered with success if whoever was
\* is in the row of that name.
LEMMA WinnerInRow ==
    ASSUME NEW n \in Names,
           \A r \in Registers : NameOf[r] = n /\ reply[r] = "OK" => users[n] = r
    PROVE  LET won == {r \in Registers : NameOf[r] = n /\ reply[r] = "OK"}
           IN  Cardinality(won) <= 1 /\ \A r \in won : users[n] = r
  <1> DEFINE won == {r \in Registers : NameOf[r] = n /\ reply[r] = "OK"}
  <1>1. won \in SUBSET {users[n]}
    OBVIOUS
  <1>2. IsFiniteSet({users[n]}) /\ Cardinality({users[n]}) = 1
    BY FS_Singleton
  <1>3. Cardinality(won) <= 1
    BY <1>1, <1>2, FS_Subset
  <1>4. QED
    BY <1>3

LEMMA OneAccountMeans == OneAccount <=> WinnersInRows
  <1>1. \A r \in Registers : NameOf[r] \in Names
    BY DEF Names
  <1>2. ASSUME OneAccount PROVE WinnersInRows
    BY <1>1, <1>2 DEF OneAccount, WinnersInRows
  <1>3. ASSUME WinnersInRows PROVE OneAccount
    BY <1>3, WinnerInRow DEF OneAccount, WinnersInRows
  <1>4. QED
    BY <1>2, <1>3

LEMMA OneAccountMeansNext == OneAccount' <=> WinnersInRows'
  BY OneAccountMeans, PTL

LEMMA InitIInv == Init => IInv
  <1> SUFFICES ASSUME Init PROVE IInv
    OBVIOUS
  <1> USE DEF Init, AccountsInit
  <1>1. TypeOK
    BY LifeAssumption DEF TypeOK, AccountsTypeOK, NoProduct
  <1>2. OneAccount
    BY OneAccountMeans DEF WinnersInRows, Requests
  <1>3. TokensTellRole /\ SessionsFit /\ ClaimsTrue /\ PlacesOK
    BY DEF TokensTellRole, SessionsFit, ClaimsTrue, PlacesOK, Requests
  <1>4. Stored = {}
    BY DEF Stored
  <1>5. Rows
    BY <1>4 DEF Rows, RowsOwned, RowsByRole, ShownStays, Requests
  <1>6. QED
    BY <1>1, <1>2, <1>3, <1>5 DEF IInv, Rows

\* A refusal tells no success and serves nothing.
LEMMA RefuseKeepsIInv ==
    ASSUME IInv, NEW r \in Requests, pc[r] # "done", NEW a, a \notin {"OK", "SERVED"},
           Refuse(r, a), UNCHANGED catalogVars
    PROVE  IInv'
  <1> USE DEF Refuse, Answer, catalogVars
  <1>1. TypeOK'
    BY DEF IInv, TypeOK, AccountsTypeOK
  <1>2. OneAccount'
    BY OneAccountMeans, OneAccountMeansNext DEF WinnersInRows, IInv, TypeOK, AccountsTypeOK
  <1>3. (TokensTellRole /\ ClaimsTrue /\ PlacesOK)'
    BY DEF IInv, TypeOK, AccountsTypeOK, TokensTellRole, ClaimsTrue, PlacesOK, Registered, RegisteredAs
  <1>4. SessionsFit'
    BY DEF IInv, TypeOK, AccountsTypeOK, SessionsFit, LoggedIn, PlacesOK, Requests
  <1>5. Rows'
    BY DEF IInv, TypeOK, AccountsTypeOK, Rows, RowsOwned, RowsByRole, ShownStays,
       Stored, Registered, RegisteredAs, Requests
  <1>6. QED
    BY <1>1, <1>2, <1>3, <1>4, <1>5 DEF IInv, Rows

\* A handler goes on for a user that is registered in that role.
LEMMA ProceedKeepsIInv ==
    ASSUME IInv, NEW r \in Requests, NEW where \in {"issue", "handle"},
           NEW name, NEW role, NEW route, Proceed(r, where, name, role, route),
           pc[r] = "idle", Registered(name), role = RegisteredAs(name),
           where = "issue" => r \in Logins \cup Refreshes,
           where = "issue" /\ r \in Logins => name = NameOf[r],
           where = "issue" /\ r \in Refreshes => LoggedIn(name),
           where = "handle" => r \in Calls /\ RoleAllowed(route, role),
           UNCHANGED catalogVars
    PROVE  IInv'
  <1> USE DEF Proceed, catalogVars
  <1>1. TypeOK'
    BY DEF IInv, TypeOK, AccountsTypeOK
  <1>2. OneAccount'
    BY OneAccountMeans, OneAccountMeansNext DEF WinnersInRows, IInv
  <1>3. TokensTellRole'
    BY DEF IInv, TokensTellRole
  <1>4. ClaimsTrue'
    BY DEF IInv, TypeOK, AccountsTypeOK, ClaimsTrue, Registered, RegisteredAs
  <1>5. PlacesOK'
    BY DEF IInv, TypeOK, AccountsTypeOK, PlacesOK
  <1>6. (RowsOwned /\ RowsByRole)'
    BY DEF IInv, TypeOK, AccountsTypeOK, RowsOwned, RowsByRole, PlacesOK, Stored, Registered,
       RegisteredAs, Requests
  <1>7. ShownStays'
    BY DEF IInv, ShownStays, Stored
  <1>8. SessionsFit'
    BY DEF IInv, TypeOK, AccountsTypeOK, SessionsFit, LoggedIn
  <1>9. QED
    BY <1>1, <1>2, <1>3, <1>4, <1>5, <1>6, <1>7, <1>8 DEF IInv

\* A row of table users is inserted once; nobody registered is disturbed.
LEMMA InsertKeepsIInv ==
    ASSUME IInv, NEW r \in Requests, InsertUser(r), UNCHANGED catalogVars
    PROVE  IInv'
  <1>1. r \in Registers /\ NameOf[r] \in Names /\ pc[r] = "idle"
    BY DEF InsertUser, Names
  <1>2. CASE Refuse(r, "USER_EXISTS")
    BY <1>1, <1>2, RefuseKeepsIInv
  <1>3. CASE /\ MayInsert(r)
             /\ users' = [users EXCEPT ![NameOf[r]] = r]
             /\ \E a \in {"OK", "USER_EXISTS"} : Answer(r, a)
             /\ UNCHANGED <<now, tokens>>
    <2> USE <1>1, <1>3, RequestsAssumption DEF Answer, catalogVars, MayInsert
    <2>1. r \notin Calls /\ pc[r] = "idle"
      BY DEF InsertUser
    <2>2. TypeOK'
      BY DEF IInv, TypeOK, AccountsTypeOK
    <2>3. \A n \in Names : users[n] # Blank => users'[n] = users[n]
      BY DEF IInv, TypeOK, AccountsTypeOK
    <2>4. OneAccount'
      <3>1. \A q \in Registers : reply[q] = "OK" => users[NameOf[q]] = q /\ NameOf[q] \in Names
        BY OneAccountMeans DEF IInv, WinnersInRows, Names
      <3>2. \A q \in Registers : reply'[q] = "OK" => users'[NameOf[q]] = q
        BY <2>3, <3>1 DEF IInv, TypeOK, AccountsTypeOK, Requests
      <3>3. QED
        BY <3>2, OneAccountMeansNext DEF WinnersInRows
    <2>5. TokensTellRole'
      BY <2>3 DEF IInv, TypeOK, AccountsTypeOK, TokensTellRole
    <2>6. \A n : Registered(n) => Registered(n)' /\ RegisteredAs(n)' = RegisteredAs(n)
      BY <2>3 DEF Registered, RegisteredAs
    <2>7. ClaimsTrue'
      BY <2>6 DEF IInv, TypeOK, AccountsTypeOK, ClaimsTrue
    <2>8. PlacesOK'
      BY DEF IInv, TypeOK, AccountsTypeOK, PlacesOK
    <2>9. (RowsOwned /\ RowsByRole)'
      BY <2>1, <2>6 DEF IInv, TypeOK, AccountsTypeOK, RowsOwned, RowsByRole, Stored, Requests
    <2>10. ShownStays'
      BY DEF IInv, ShownStays, Stored
    <2>11. SessionsFit'
      BY DEF IInv, TypeOK, AccountsTypeOK, SessionsFit, LoggedIn, PlacesOK, Requests
    <2>12. QED
      BY <2>2, <2>4, <2>5, <2>7, <2>8, <2>9, <2>10, <2>11 DEF IInv
  <1>4. QED
    BY <1>2, <1>3 DEF InsertUser, Refuse

\* The tokens that are signed carry the claims of their handler.
LEMMA IssueKeepsIInv ==
    ASSUME IInv, NEW r \in Requests, Issue(r), UNCHANGED catalogVars
    PROVE  IInv'
  <1> USE DEF Issue, Answer, catalogVars
  <1>1. /\ r \notin Calls /\ r \notin Registers
        /\ Registered(claims[r].name) /\ claims[r].role = RegisteredAs(claims[r].name)
    BY RequestsAssumption DEF IInv, PlacesOK, ClaimsTrue
  <1>2. \A token \in tokens' :
          \/ token \in tokens
          \/ /\ token.name = claims[r].name /\ token.role = claims[r].role
             /\ token.subject \in {"access", "refresh"} /\ token.issued = now
    BY DEF Token
  <1>3. TypeOK'
    BY <1>1, <1>2, LifeAssumption DEF IInv, TypeOK, AccountsTypeOK, Registered
  <1>4. OneAccount'
    BY <1>1, OneAccountMeans, OneAccountMeansNext DEF WinnersInRows, IInv, TypeOK, AccountsTypeOK
  <1>5. TokensTellRole'
    BY <1>1, <1>2 DEF IInv, TokensTellRole, Registered, RegisteredAs
  <1>6. ClaimsTrue' /\ PlacesOK'
    BY DEF IInv, TypeOK, AccountsTypeOK, ClaimsTrue, PlacesOK, Registered, RegisteredAs
  <1>7. (RowsOwned /\ RowsByRole)'
    BY <1>1 DEF IInv, TypeOK, AccountsTypeOK, RowsOwned, RowsByRole, Stored, Registered,
       RegisteredAs, Requests
  <1>8. ShownStays'
    BY DEF IInv, ShownStays, Stored
  <1>9. SessionsFit'
    <2>1. reply'[r] = "OK" /\ \A q \in Logins : reply[q] = "OK" => reply'[q] = "OK"
      BY DEF IInv, TypeOK, AccountsTypeOK, Requests
    <2>2. \A n : LoggedIn(n) => LoggedIn(n)'
      BY <2>1 DEF LoggedIn
    <2>3. LoggedIn(claims[r].name)'
      <3>1. r \in Logins => claims[r].name = NameOf[r]
        BY DEF IInv, SessionsFit
      <3>2. r \in Refreshes => LoggedIn(claims[r].name)
        BY DEF IInv, SessionsFit
      <3>3. r \in Logins \cup Refreshes
        BY DEF IInv, PlacesOK
      <3>4. QED
        BY <2>1, <2>2, <3>1, <3>2, <3>3 DEF LoggedIn
    <2>4. \A token \in tokens' : LoggedIn(token.name)'
      BY <1>2, <2>2, <2>3 DEF IInv, SessionsFit
    <2>5. \A q \in Requests : pc'[q] = "issue" => pc[q] = "issue"
      BY DEF IInv, TypeOK, AccountsTypeOK
    <2>6. QED
      BY <2>2, <2>4, <2>5 DEF IInv, SessionsFit, Requests
  <1>10. QED
    BY <1>3, <1>4, <1>5, <1>6, <1>7, <1>8, <1>9 DEF IInv

\* Time passes: no token becomes younger.
LEMMA TickKeepsIInv ==
    ASSUME IInv, Tick, UNCHANGED catalogVars
    PROVE  IInv'
  <1> USE DEF Tick, catalogVars
  <1>1. TypeOK'
    BY LifeAssumption DEF IInv, TypeOK, AccountsTypeOK
  <1>2. OneAccount'
    BY OneAccountMeans, OneAccountMeansNext DEF WinnersInRows, IInv
  <1>3. (TokensTellRole /\ SessionsFit /\ ClaimsTrue /\ PlacesOK)'
    BY DEF IInv, TokensTellRole, SessionsFit, LoggedIn,
       ClaimsTrue, PlacesOK, Registered, RegisteredAs
  <1>4. Rows'
    BY DEF IInv, Rows, RowsOwned, RowsByRole, ShownStays, Stored, Registered,
       RegisteredAs
  <1>5. QED
    BY <1>1, <1>2, <1>3, <1>4 DEF IInv, Rows

LEMMA AccountStepKeepsIInv ==
    ASSUME IInv, NEW r \in Requests, AccountStep(r), UNCHANGED catalogVars
    PROVE  IInv'
  <1>1. CASE RefuseBody(r) \/ RefusePassword(r) \/ RefuseToken(r) \/ IssueFails(r)
    <2>1. pc[r] # "done" /\ \E a : a \notin {"OK", "SERVED"} /\ Refuse(r, a)
      BY <1>1 DEF RefuseBody, RefusePassword, RefuseToken, IssueFails
    <2>2. QED
      BY <2>1, RefuseKeepsIInv
  <1>2. CASE InsertUser(r)
    BY <1>2, InsertKeepsIInv
  <1>3. CASE Issue(r)
    BY <1>3, IssueKeepsIInv
  <1>4. CASE LoginRead(r)
    <2>1. NameOf[r] \in Names /\ r \in Logins /\ r \notin Refreshes /\ pc[r] = "idle"
      BY <1>4, RequestsAssumption DEF LoginRead, Names
    <2>2. CASE Refuse(r, "UNAUTHORIZED") \/ Refuse(r, "DB_ERROR")
      BY <2>1, <2>2, RefuseKeepsIInv
    <2>3. CASE /\ users[NameOf[r]] # Blank
               /\ Proceed(r, "issue", NameOf[r], RoleOf[users[NameOf[r]]], Blank)
      BY <2>1, <2>3, ProceedKeepsIInv DEF Registered, RegisteredAs
    <2>4. QED
      BY <1>4, <2>2, <2>3 DEF LoginRead
  <1>5. CASE RefreshCheck(r)
    <2>1. r \in Refreshes /\ r \notin Logins /\ pc[r] = "idle"
      BY <1>5, RequestsAssumption DEF RefreshCheck
    <2>2. CASE Refuse(r, "REFRESH_TOKEN_INVALID")
      BY <2>1, <2>2, RefuseKeepsIInv
    <2>3. ASSUME NEW token \in tokens, Proceed(r, "issue", token.name, token.role, Blank)
          PROVE  IInv'
      <3>1. /\ Registered(token.name) /\ token.role = RegisteredAs(token.name)
            /\ LoggedIn(token.name)
        BY DEF IInv, TypeOK, AccountsTypeOK, TokensTellRole, SessionsFit, Registered, RegisteredAs
      <3>2. QED
        BY <2>1, <2>3, <3>1, ProceedKeepsIInv
    <2>4. QED
      BY <1>5, <2>2, <2>3 DEF RefreshCheck
  <1>6. CASE Admit(r)
    <2>1. r \in Calls /\ pc[r] = "idle"
      BY <1>6 DEF Admit
    <2>2. PICK token \in tokens, route \in Routes :
            \/ /\ RoleAllowed(route, token.role)
               /\ Proceed(r, "handle", token.name, token.role, route)
            \/ Refuse(r, "ACCESS_DENIED")
      BY <1>6 DEF Admit
    <2>3. Registered(token.name) /\ token.role = RegisteredAs(token.name)
      BY DEF IInv, TypeOK, AccountsTypeOK, TokensTellRole, Registered, RegisteredAs
    <2>4. QED
      BY <2>1, <2>2, <2>3, ProceedKeepsIInv, RefuseKeepsIInv
  <1>7. QED
    BY <1>1, <1>2, <1>3, <1>4, <1>5, <1>6 DEF AccountStep

----------------------------------------------------------------------------
(* The handlers of Catalog.                                                *)

\* A handler that runs belongs to a call, and its user has the role its route
\* asks for.
LEMMA HandlerKnown ==
    ASSUME IInv, NEW c \in Requests, pc[c] = "handle"
    PROVE  /\ c \in Calls /\ c \notin Registers /\ reply[c] = "none"
           /\ c \notin Stored /\ (\A row \in promos : row[2] # c)
           /\ Registered(claims[c].name)
           /\ RoleAllowed(claims[c].route, RegisteredAs(claims[c].name))
  BY RequestsAssumption DEF IInv, PlacesOK, ClaimsTrue, RowsOwned

\* An answer of a call leaves accounts as they are.
LEMMA CallAnswersKeepAccounts ==
    ASSUME IInv, NEW c \in Calls, c \notin Registers, NEW a, Answer(c, a),
           UNCHANGED <<now, users, tokens>>
    PROVE  /\ AccountsTypeOK' /\ Told'
           /\ \A n : Registered(n) => Registered(n)' /\ RegisteredAs(n)' = RegisteredAs(n)
  <1> USE DEF Answer, Requests
  <1>1. AccountsTypeOK'
    BY DEF IInv, TypeOK, AccountsTypeOK
  <1>2. OneAccount'
    BY OneAccountMeans, OneAccountMeansNext DEF WinnersInRows, IInv, TypeOK, AccountsTypeOK
  <1>3. (TokensTellRole /\ ClaimsTrue /\ PlacesOK)'
    BY DEF IInv, TypeOK, AccountsTypeOK, TokensTellRole, ClaimsTrue, PlacesOK, Registered, RegisteredAs
  <1>4. SessionsFit'
    BY RequestsAssumption DEF IInv, TypeOK, AccountsTypeOK, SessionsFit, LoggedIn
  <1>5. QED
    BY <1>1, <1>2, <1>3, <1>4 DEF Told, Registered, RegisteredAs

LEMMA CreateProductKeepsIInv ==
    ASSUME IInv, NEW c \in Calls, CreateProduct(c)
    PROVE  IInv'
  <1>1. pc[c] = "handle" /\ claims[c].route = "CreateProduct" /\ c \in Requests
    BY DEF CreateProduct, Handles, Requests
  <1>2. PICK a \in {"OK", "DB_ERROR"} : Answer(c, a)
    BY DEF CreateProduct
  <1>3. UNCHANGED <<now, users, tokens, promos, shown>>
    BY DEF CreateProduct
  <1>4. CASE UNCHANGED products /\ Answer(c, "DB_ERROR")
    BY <1>1, <1>3, <1>4, RefuseKeepsIInv DEF Refuse, catalogVars
  <1>5. ASSUME NEW status \in {"ACTIVE", "ARCHIVED"},
               products' = [products EXCEPT ![c] = [seller |-> claims[c].name, status |-> status]]
        PROVE  IInv'
    <2>0. /\ c \notin Stored /\ c \notin Registers /\ (\A row \in promos : row[2] # c)
          /\ Registered(claims[c].name) /\ RegisteredAs(claims[c].name) \in Sellers
      BY <1>1, HandlerKnown DEF RoleAllowed, SellerRoutes
    <2>1. /\ AccountsTypeOK' /\ Told'
          /\ \A n : Registered(n) => Registered(n)' /\ RegisteredAs(n)' = RegisteredAs(n)
      BY <1>2, <1>3, <2>0, CallAnswersKeepAccounts
    <2>2. TypeOK'
      BY <1>3, <1>5, <2>1 DEF IInv, TypeOK
    <2>3. Stored' = Stored \cup {c}
      BY <1>5 DEF IInv, TypeOK, Stored, NoProduct
    <2>4. (RowsOwned /\ RowsByRole)'
      BY <1>2, <1>3, <1>5, <2>0, <2>1, <2>3
      DEF IInv, TypeOK, AccountsTypeOK, RowsOwned, RowsByRole, Answer, Requests
    <2>5. ShownStays'
      BY <1>3, <1>5, <2>0, <2>3 DEF IInv, TypeOK, ShownStays
    <2>6. QED
      BY <2>1, <2>2, <2>4, <2>5 DEF IInv, Told
  <1>6. QED
    BY <1>4, <1>5 DEF CreateProduct

\* Archiving keeps the row, its seller and what reads have shown of it.
LEMMA DeleteProductKeepsIInv ==
    ASSUME IInv, NEW c \in Calls, DeleteProduct(c)
    PROVE  IInv'
  <1>1. pc[c] = "handle" /\ claims[c].route = "DeleteProduct" /\ c \in Requests
    BY DEF DeleteProduct, Handles, Requests
  <1>2. UNCHANGED <<now, users, tokens, promos, shown>>
    BY DEF DeleteProduct
  <1>3. CASE UNCHANGED products /\ Answer(c, "DB_ERROR")
    BY <1>1, <1>2, <1>3, RefuseKeepsIInv DEF Refuse, catalogVars
  <1>4. ASSUME NEW p \in Known, products' = [products EXCEPT ![p] = Archived(@)],
               NEW a \in {"OK", "DB_ERROR"}, Answer(c, a)
        PROVE  IInv'
    <2>1. /\ AccountsTypeOK' /\ Told'
          /\ \A n : Registered(n) => Registered(n)' /\ RegisteredAs(n)' = RegisteredAs(n)
      BY <1>1, <1>2, <1>4, HandlerKnown, CallAnswersKeepAccounts
    <2>2. /\ DOMAIN products' = Calls
          /\ \A q \in Calls :
               /\ products[q] = NoProduct => products'[q] = NoProduct
               /\ products[q] # NoProduct =>
                    /\ products'[q].seller = products[q].seller
                    /\ products'[q].status \in {products[q].status, "ARCHIVED"}
                    /\ products'[q] # NoProduct
      <3>1. products[p] # NoProduct =>
              /\ Archived(products[p]).seller = products[p].seller
              /\ Archived(products[p]).status = "ARCHIVED"
              /\ Archived(products[p]) # NoProduct
        <4>1. products[p] # NoProduct => products[p].status # "NONE"
          BY <1>4 DEF Known, Stored, IInv, RowsOwned
        <4>2. QED
          BY <4>1 DEF Archived, NoProduct
      <3>2. QED
        BY <1>4, <3>1 DEF IInv, TypeOK, Known, Archived, NoProduct
    <2>3. Stored' = Stored
      BY <2>2 DEF Stored
    <2>4. TypeOK'
      BY <1>2, <2>1, <2>2 DEF IInv, TypeOK
    <2>5. (RowsOwned /\ RowsByRole)'
      BY <1>1, <1>2, <1>4, <2>1, <2>2, <2>3
      DEF IInv, TypeOK, AccountsTypeOK, RowsOwned, RowsByRole, Answer, Requests, Stored
    <2>6. ShownStays'
      BY <1>2, <2>2, <2>3 DEF IInv, TypeOK, ShownStays
    <2>7. QED
      BY <2>1, <2>4, <2>5, <2>6 DEF IInv, Told
  <1>5. QED
    BY <1>3, <1>4 DEF DeleteProduct

\* A read shows rows as they are.
LEMMA ReadKeepsIInv ==
    ASSUME IInv, NEW c \in Calls, GetProduct(c) \/ ListProducts(c)
    PROVE  IInv'
  <1>1. pc[c] = "handle" /\ claims[c].route # "CreatePromoCode" /\ c \in Requests
    BY DEF GetProduct, ListProducts, Handles, Requests
  <1>2. UNCHANGED <<now, users, tokens, products, promos>>
    BY DEF GetProduct, ListProducts
  <1>3. ASSUME NEW a \in {"PRODUCT_NOT_FOUND", "DB_ERROR"}, Answer(c, a), UNCHANGED shown
        PROVE  IInv'
    BY <1>1, <1>2, <1>3, RefuseKeepsIInv DEF Refuse, catalogVars
  <1>4. ASSUME NEW S \in SUBSET Stored, Answer(c, "OK"),
               shown' = [shown EXCEPT ![c] = {<<p, products[p].status>> : p \in S}]
        PROVE  IInv'
    <2>1. /\ AccountsTypeOK' /\ Told'
          /\ \A n : Registered(n) => Registered(n)' /\ RegisteredAs(n)' = RegisteredAs(n)
      BY <1>1, <1>2, <1>4, HandlerKnown, CallAnswersKeepAccounts
    <2>2. \A p \in Stored : p \in Calls /\ products[p].status \in {"ACTIVE", "ARCHIVED"}
      BY DEF IInv, TypeOK, RowsOwned, Stored
    <2>3. TypeOK'
      BY <1>2, <1>4, <2>1, <2>2 DEF IInv, TypeOK
    <2>4. (RowsOwned /\ RowsByRole)'
      BY <1>1, <1>2, <1>4, <2>1
      DEF IInv, TypeOK, AccountsTypeOK, RowsOwned, RowsByRole, Answer, Requests, Stored
    <2>5. ShownStays'
      BY <1>2, <1>4 DEF IInv, ShownStays, Stored
    <2>6. QED
      BY <2>1, <2>3, <2>4, <2>5 DEF IInv, Told
  <1>5. CASE GetProduct(c)
    <2>1. ASSUME NEW p \in Stored, Answer(c, "OK"),
                 shown' = [shown EXCEPT ![c] = {<<p, products[p].status>>}]
          PROVE  IInv'
      <3>1. {<<p, products[p].status>>} = {<<q, products[q].status>> : q \in {p}}
        OBVIOUS
      <3>2. shown' = [shown EXCEPT ![c] = {<<q, products[q].status>> : q \in {p}}]
        BY <2>1, <3>1
      <3>3. {p} \in SUBSET Stored
        OBVIOUS
      <3>4. QED
        BY <1>4, <2>1, <3>2, <3>3
    <2>2. QED
      BY <1>3, <1>5, <2>1 DEF GetProduct
  <1>6. QED
    BY <1>3, <1>4, <1>5 DEF ListProducts

\* A code is new when it is inserted, by a call that has told nothing yet.
LEMMA CreatePromoCodeKeepsIInv ==
    ASSUME IInv, NEW c \in Calls, CreatePromoCode(c)
    PROVE  IInv'
  <1>1. pc[c] = "handle" /\ claims[c].route = "CreatePromoCode" /\ c \in Requests
    BY DEF CreatePromoCode, Handles, Requests
  <1>2. UNCHANGED <<now, users, tokens, products, shown>>
    BY DEF CreatePromoCode
  <1>3. CASE UNCHANGED promos /\ Answer(c, "DB_ERROR")
    BY <1>1, <1>2, <1>3, RefuseKeepsIInv DEF Refuse, catalogVars
  <1>4. ASSUME NEW code \in Codes, CodeFree(code), promos' = promos \cup {<<code, c>>},
               NEW a \in {"OK", "DB_ERROR"}, Answer(c, a)
        PROVE  IInv'
    <2>0. /\ \A row \in promos : row[2] # c
          /\ Registered(claims[c].name) /\ RegisteredAs(claims[c].name) \in Sellers
      BY <1>1, HandlerKnown DEF RoleAllowed, SellerRoutes
    <2>1. /\ AccountsTypeOK' /\ Told'
          /\ \A n : Registered(n) => Registered(n)' /\ RegisteredAs(n)' = RegisteredAs(n)
      BY <1>1, <1>2, <1>4, HandlerKnown, CallAnswersKeepAccounts
    <2>2. TypeOK'
      BY <1>2, <1>4, <2>1 DEF IInv, TypeOK
    <2>3. (RowsOwned /\ RowsByRole)'
      BY <1>1, <1>2, <1>4, <2>0, <2>1
      DEF IInv, TypeOK, AccountsTypeOK, RowsOwned, RowsByRole, Answer, Requests, Stored
    <2>4. ShownStays'
      BY <1>2 DEF IInv, ShownStays, Stored
    <2>5. QED
      BY <2>1, <2>2, <2>3, <2>4 DEF IInv, Told
  <1>5. QED
    BY <1>3, <1>4 DEF CreatePromoCode

\* Orders are served to a user whose role the middleware has compared.
LEMMA OrderRouteKeepsIInv ==
    ASSUME IInv, NEW c \in Calls, OrderRoute(c)
    PROVE  IInv'
  <1>1. /\ pc[c] = "handle" /\ c \in Requests
        /\ claims[c].route \in BuyerRoutes \cup {"GetOrder"}
        /\ Answer(c, "SERVED")
        /\ UNCHANGED <<now, users, tokens, products, promos, shown>>
    BY DEF OrderRoute, Refuse, catalogVars, Requests
  <1>2. /\ Registered(claims[c].name)
        /\ claims[c].route \in BuyerRoutes => RegisteredAs(claims[c].name) \in Buyers
    BY <1>1, HandlerKnown DEF RoleAllowed
  <1>3. /\ AccountsTypeOK' /\ Told'
        /\ \A n : Registered(n) => Registered(n)' /\ RegisteredAs(n)' = RegisteredAs(n)
    BY <1>1, HandlerKnown, CallAnswersKeepAccounts
  <1>4. TypeOK'
    BY <1>1, <1>3 DEF IInv, TypeOK
  <1>5. (RowsOwned /\ RowsByRole)'
    BY <1>1, <1>2, <1>3
    DEF IInv, TypeOK, AccountsTypeOK, RowsOwned, RowsByRole, Answer, Requests, Stored
  <1>6. ShownStays'
    BY <1>1 DEF IInv, ShownStays, Stored
  <1>7. QED
    BY <1>3, <1>4, <1>5, <1>6 DEF IInv, Told

LEMMA NextIInv == IInv /\ [Next]_vars => IInv'
  <1> SUFFICES ASSUME IInv, [Next]_vars PROVE IInv'
    OBVIOUS
  <1>1. CASE UNCHANGED vars
    <2> USE <1>1 DEF vars
    <2>1. (TypeOK /\ OneAccount)'
      BY OneAccountMeans, OneAccountMeansNext DEF WinnersInRows, IInv, TypeOK, AccountsTypeOK
    <2>2. (TokensTellRole /\ SessionsFit /\ ClaimsTrue /\ PlacesOK)'
      BY DEF IInv, TokensTellRole, SessionsFit, LoggedIn,
       ClaimsTrue, PlacesOK, Registered, RegisteredAs
    <2>3. Rows'
      BY DEF IInv, Rows, RowsOwned, RowsByRole, ShownStays, Stored, Registered,
         RegisteredAs
    <2>4. QED
      BY <2>1, <2>2, <2>3 DEF IInv, Rows
  <1>2. ASSUME NEW r \in Requests, AccountStep(r), UNCHANGED catalogVars PROVE IInv'
    BY <1>2, AccountStepKeepsIInv
  <1>3. ASSUME NEW c \in Calls, HandleCall(c) PROVE IInv'
    <2>1. CASE RefuseContent(c) \/ UpdateProduct(c)
      <3>1. /\ UNCHANGED catalogVars /\ c \in Requests /\ pc[c] # "done"
            /\ \E a : a \notin {"OK", "SERVED"} /\ Refuse(c, a)
        BY <2>1 DEF RefuseContent, UpdateProduct, Handles, Requests
      <3>2. QED
        BY <3>1, RefuseKeepsIInv
    <2>2. QED
      BY <1>3, <2>1, CreateProductKeepsIInv, DeleteProductKeepsIInv, ReadKeepsIInv,
         CreatePromoCodeKeepsIInv, OrderRouteKeepsIInv DEF HandleCall
  <1>4. CASE Tick /\ UNCHANGED catalogVars
    BY <1>4, TickKeepsIInv
  <1>5. QED
    BY <1>1, <1>2, <1>3, <1>4 DEF Next

----------------------------------------------------------------------------
(* The theorems.                                                           *)

\* IInv holds for every number of users, requests and tokens, and however long
\* tokens live (auth.go, middleware.go, server.go).
THEOREM Inductive == Spec => []IInv
  BY InitIInv, NextIInv, PTL DEF Spec

\* Of all registrations of a username at most one is answered with success,
\* and its row stays (auth.go:33-40).
THEOREM OneRegistrationWins == Spec => []OneAccount
  <1>1. IInv => OneAccount
    BY DEF IInv
  <1>2. QED
    BY <1>1, Inductive, PTL

\* A role that is copied from token to token stays the registered one
\* (auth.go:70, 96).
THEOREM RolesAreRegistered == Spec => []TokensTellRole
  <1>1. IInv => TokensTellRole
    BY DEF IInv
  <1>2. QED
    BY <1>1, Inductive, PTL

\* Only sellers put rows into the catalog, and only buyers order
\* (main.go:52-77, server.go:64-110, 142-175).
THEOREM OnlyByRole == Spec => []RowsByRole
  <1>1. IInv => RowsByRole
    BY DEF IInv
  <1>2. QED
    BY <1>1, Inductive, PTL

\* A product that a read has shown stays, and archiving is final
\* (server.go:112-118).
THEOREM ShownProductsStay == Spec => []ShownStays
  <1>1. IInv => ShownStays
    BY DEF IInv
  <1>2. QED
    BY <1>1, Inductive, PTL

\* The handler of a route that asks for a token is only reached by who once
\* logged in, with an access token signed less than its life ago
\* (auth.go:54-107, jwt.go:19-76, middleware.go:66-85).
THEOREM FreshLoginAdmits == Spec => AdmittedSoonAfterLogin
  <1> DEFINE Admitted(c) ==
               /\ LoggedIn(claims'[c].name)
               /\ \E token \in tokens :
                    /\ token.name = claims'[c].name /\ token.subject = "access"
                    /\ now < token.issued + AccessLife
  <1>1. ASSUME IInv, [Next]_vars, NEW c \in Calls, pc[c] = "idle", pc'[c] = "handle"
        PROVE  Admitted(c)
    <2>1. /\ pc \in [Requests -> {"idle", "issue", "handle", "done"}]
          /\ DOMAIN claims = Requests /\ c \in Requests
      BY <1>1 DEF IInv, TypeOK, AccountsTypeOK, Requests
    <2>2. Admit(c)
      <3>1. PICK r \in Requests : AccountStep(r) \/ HandleCall(r)
        BY <1>1, <2>1 DEF Next, vars, Tick, Requests
      <3>2. pc' = [pc EXCEPT ![r] = "done"] \/ pc' = [pc EXCEPT ![r] = "issue"] \/ Admit(r)
        BY <3>1 DEF AccountStep, RefuseBody, RefusePassword, InsertUser, LoginRead, RefreshCheck,
           Issue, IssueFails, RefuseToken, HandleCall, RefuseContent, CreateProduct, UpdateProduct,
           DeleteProduct, GetProduct, ListProducts, CreatePromoCode, OrderRoute,
           Refuse, Answer, Proceed
      <3>3. Admit(r) => pc' = [pc EXCEPT ![r] = "handle"] \/ pc' = [pc EXCEPT ![r] = "done"]
        BY DEF Admit, Refuse, Answer, Proceed
      <3>4. QED
        BY <1>1, <2>1, <3>2, <3>3
    <2>3. PICK token \in tokens, route \in Routes :
            /\ Accepted(token, "access")
            /\ Proceed(c, "handle", token.name, token.role, route) \/ Refuse(c, "ACCESS_DENIED")
      BY <2>2 DEF Admit
    <2>4. claims'[c].name = token.name
      BY <1>1, <2>1, <2>3 DEF Proceed, Refuse, Answer
    <2>5. token.subject = "access" /\ now < token.issued + AccessLife
      BY <2>3 DEF Accepted, Unexpired, Life
    <2>6. LoggedIn(token.name)
      BY <1>1 DEF IInv, SessionsFit
    <2>7. QED
      BY <2>4, <2>5, <2>6
  <1>2. IInv /\ [Next]_vars =>
          [\A c \in Calls :
             /\ pc[c] = "idle" /\ pc'[c] = "handle"
             /\ claims'[c].route \in SecuredRoutes
             => Admitted(c)]_accountVars
    BY <1>1
  <1>3. QED
    BY <1>2, Inductive, PTL DEF Spec, AdmittedSoonAfterLogin
=============================================================================
