------------------------------ MODULE Accounts ------------------------------
(***************************************************************************)
(* Who may ask the marketplace for what (hw2/internal/api): AuthRegister,  *)
(* AuthLogin and AuthRefresh (auth.go), GenerateTokens and ValidateToken   *)
(* (jwt.go), AuthMiddleware and RoleMiddleware (middleware.go), and the    *)
(* groups of routes (cmd/app/main.go:46-77).                               *)
(*                                                                         *)
(* Every request has its own handler; the handlers share the table users   *)
(* and the clock.  Tokens are not stored: tokens is the set of all that    *)
(* were ever signed, since a client may keep any of them and nothing       *)
(* revokes one.  A token counts as sent by the user it names.              *)
(***************************************************************************)
EXTENDS Integers, FiniteSets

CONSTANTS
    Registers, Logins, Refreshes,   \* requests POST /auth/...
    Calls,          \* requests behind AuthMiddleware
    Routes,         \* the routes a call may take
    NameOf,         \* the username in the body of a registration or login
    RoleOf,         \* the role a registration asks for
    Blank,          \* no value
    AccessLife, RefreshLife,   \* 15 minutes and 7 days
    MaxTime         \* bound of the clock

Requests == Registers \cup Logins \cup Refreshes \cup Calls
Names == {NameOf[r] : r \in Registers \cup Logins}

ASSUME RequestsAssumption ==
    /\ Registers \cap Logins = {} /\ Refreshes \cap Calls = {}
    /\ (Registers \cup Logins) \cap (Refreshes \cup Calls) = {}
    /\ DOMAIN NameOf = Registers \cup Logins /\ DOMAIN RoleOf = Registers
    /\ Blank \notin Registers
ASSUME LifeAssumption ==
    AccessLife \in Nat \ {0} /\ RefreshLife \in Nat \ {0} /\ MaxTime \in Nat

VARIABLES
    now,      \* the clock
    users,    \* the row of a username in table users: the registration it is of
    tokens,   \* the tokens signed so far
    pc,       \* how far the handler of a request is
    claims,   \* the user and role it works with, and the route taken
    reply     \* what a finished handler answered

accountVars == <<now, users, tokens, pc, claims, reply>>

NoClaims == [name |-> Blank, role |-> Blank, route |-> Blank]

AccountsInit ==
    /\ now = 0
    /\ users = [n \in Names |-> Blank]
    /\ tokens = {}
    /\ pc = [r \in Requests |-> "idle"]
    /\ claims = [r \in Requests |-> NoClaims]
    /\ reply = [r \in Requests |-> "none"]

Answer(r, a) ==
    /\ pc' = [pc EXCEPT ![r] = "done"]
    /\ reply' = [reply EXCEPT ![r] = a]
    /\ UNCHANGED claims

\* RespondErr before anything was changed.
Refuse(r, a) == Answer(r, a) /\ UNCHANGED <<now, users, tokens>>

\* A body that does not decode or lacks a field.
RefuseBody(r) ==
    /\ r \notin Calls
    /\ pc[r] = "idle"
    /\ Refuse(r, "VALIDATION_ERROR")

\* The handler goes on for a user and a role.
Proceed(r, where, name, role, route) ==
    /\ pc' = [pc EXCEPT ![r] = where]
    /\ claims' = [claims EXCEPT ![r] = [name |-> name, role |-> role, route |-> route]]
    /\ UNCHANGED <<now, users, tokens, reply>>

----------------------------------------------------------------------------
(* Registration.                                                           *)

\* bcrypt refuses a password of more than 72 bytes.
RefusePassword(r) ==
    /\ r \in Registers
    /\ pc[r] = "idle"
    /\ Refuse(r, "INTERNAL_ERROR")

\* Mutant of MayInsert: username is not UNIQUE, the last row counts.
MayReplace(r) == TRUE

\* username is UNIQUE.
MayInsert(r) == users[NameOf[r]] = Blank

\* INSERT INTO users.  Whatever goes wrong, also after the row was committed,
\* is answered USER_EXISTS.
InsertUser(r) ==
    /\ r \in Registers
    /\ pc[r] = "idle"
    /\ \/ /\ MayInsert(r)
          /\ users' = [users EXCEPT ![NameOf[r]] = r]
          /\ \E a \in {"OK", "USER_EXISTS"} : Answer(r, a)
       \/ Answer(r, "USER_EXISTS") /\ UNCHANGED users
    /\ UNCHANGED <<now, tokens>>

----------------------------------------------------------------------------
(* Tokens.                                                                 *)

Life(subject) == IF subject = "access" THEN AccessLife ELSE RefreshLife

Token(name, role, subject) ==
    [name |-> name, role |-> role, subject |-> subject, issued |-> now]

Unexpired(token) == now < token.issued + Life(token.subject)

\* Mutant of Accepted: one kind of token is as good as the other.
AnySubject(token, subject) == Unexpired(token)

\* ValidateToken.
Accepted(token, subject) == Unexpired(token) /\ token.subject = subject

\* SELECT ... FROM users, and the comparison of the hash with the password
\* that is sent, which may be another one.
LoginRead(r) ==
    LET row == users[NameOf[r]]
    IN  /\ r \in Logins
        /\ pc[r] = "idle"
        /\ \/ Refuse(r, "UNAUTHORIZED")
           \/ row # Blank /\ Proceed(r, "issue", NameOf[r], RoleOf[row], Blank)
           \/ Refuse(r, "DB_ERROR")

RefreshCheck(r) ==
    /\ r \in Refreshes
    /\ pc[r] = "idle"
    /\ \/ \E token \in tokens :
            \/ ~ Accepted(token, "refresh") /\ Refuse(r, "REFRESH_TOKEN_INVALID")
            \/ /\ Accepted(token, "refresh")
               /\ Proceed(r, "issue", token.name, token.role, Blank)
       \/ Refuse(r, "REFRESH_TOKEN_INVALID")

\* GenerateTokens, and the answer that carries both.
Issue(r) ==
    /\ pc[r] = "issue"
    /\ tokens' = tokens \cup
         {Token(claims[r].name, claims[r].role, subject) : subject \in {"access", "refresh"}}
    /\ Answer(r, "OK")
    /\ UNCHANGED <<now, users>>

\* GenerateTokens returns an error.
IssueFails(r) ==
    /\ pc[r] = "issue"
    /\ Refuse(r, "INTERNAL_ERROR")

----------------------------------------------------------------------------
(* The middleware before the handler of a call.                            *)

Sellers == {"SELLER", "ADMIN"}
Buyers == {"USER", "ADMIN"}
SellerRoutes == {"CreateProduct", "UpdateProduct", "DeleteProduct", "CreatePromoCode"}
BuyerRoutes == {"CreateOrder", "UpdateOrder", "CancelOrder"}

\* The routes for which api/openapi.yaml asks for a token.  It asks for none
\* where products are read; AuthMiddleware does.
SecuredRoutes == SellerRoutes \cup BuyerRoutes \cup {"GetOrder"}

\* Mutant of RoleAllowed: the group of a route names no roles.
AnyRole(route, role) == TRUE

\* RoleMiddleware of the group a route is in.
RoleAllowed(route, role) ==
    /\ route \in SellerRoutes => role \in Sellers
    /\ route \in BuyerRoutes => role \in Buyers

\* AuthMiddleware without a token, or with one that is not valid.
RefuseToken(c) ==
    /\ c \in Calls
    /\ pc[c] = "idle"
    /\ \/ \E token \in tokens :
            \/ ~ Unexpired(token) /\ Refuse(c, "TOKEN_EXPIRED")
            \/ Unexpired(token) /\ ~ Accepted(token, "access") /\ Refuse(c, "TOKEN_INVALID")
       \/ Refuse(c, "TOKEN_INVALID")

\* AuthMiddleware with a valid token, then RoleMiddleware.
Admit(c) ==
    /\ c \in Calls
    /\ pc[c] = "idle"
    /\ \E token \in tokens, route \in Routes :
         /\ Accepted(token, "access")
         /\ \/ /\ RoleAllowed(route, token.role)
               /\ Proceed(c, "handle", token.name, token.role, route)
            \/ ~ RoleAllowed(route, token.role) /\ Refuse(c, "ACCESS_DENIED")

Tick ==
    /\ now < MaxTime
    /\ now' = now + 1
    /\ UNCHANGED <<users, tokens, pc, claims, reply>>

AccountStep(r) ==
    \/ RefuseBody(r) \/ RefusePassword(r) \/ InsertUser(r)
    \/ LoginRead(r) \/ RefreshCheck(r) \/ Issue(r) \/ IssueFails(r)
    \/ RefuseToken(r) \/ Admit(r)

----------------------------------------------------------------------------
AccountsTypeOK ==
    /\ now \in 0 .. MaxTime
    /\ users \in [Names -> Registers \cup {Blank}]
    /\ \A token \in tokens :
         token.name \in Names /\ token.subject \in {"access", "refresh"} /\ token.issued \in 0 .. now
    /\ pc \in [Requests -> {"idle", "issue", "handle", "done"}]
    /\ DOMAIN claims = Requests /\ DOMAIN reply = Requests

\* Of all registrations of a username at most one is answered with success,
\* and the row is then what that one asked for, for ever (auth.go:33-40,
\* UNIQUE in V1__init.sql:3).
OneAccount ==
    \A n \in Names :
        LET won == {r \in Registers : NameOf[r] = n /\ reply[r] = "OK"}
        IN  Cardinality(won) <= 1 /\ \A r \in won : users[n] = r

\* The role in a token, which is copied from token to token by refreshes and
\* never looked up again, is the one its user was registered with
\* (auth.go:70, 96).
TokensTellRole ==
    \A token \in tokens : users[token.name] # Blank /\ token.role = RoleOf[users[token.name]]

\* The user of this name was answered a login with tokens.
LoggedIn(name) == \E r \in Logins : NameOf[r] = name /\ reply[r] = "OK"

\* A handler on a route that asks for a token is only reached by a user who once
\* logged in with a password, and with an access token that is still good:
\* refreshes only prolong what a login began, and a refresh token, which lives
\* on and is signed with the same key, opens nothing (auth.go:54-107,
\* jwt.go:19-76, middleware.go:66-85).
AdmittedSoonAfterLogin ==
    [][\A c \in Calls :
         /\ pc[c] = "idle" /\ pc'[c] = "handle"
         /\ claims'[c].route \in SecuredRoutes
         => /\ LoggedIn(claims'[c].name)
            /\ \E token \in tokens :
                 /\ token.name = claims'[c].name /\ token.subject = "access"
                 /\ now < token.issued + AccessLife]_accountVars
=============================================================================
