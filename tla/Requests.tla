------------------------------- MODULE Requests -------------------------------
(***************************************************************************)
(* One HTTP request on its way through the backend: TenantContextMiddleware*)
(* picks a company, JwtAuthGuard and PermissionsGuard let the request pass *)
(* or not, the handler runs with the tables of the company, and its result *)
(* becomes the answer.                                                     *)
(*                                                                         *)
(* A request is [route, header, host, body, token]: the company named by   *)
(* x-company-code, by the subdomain and by a refresh token in the body,    *)
(* and the access token [company, role]; each of them may be None.         *)
(***************************************************************************)
EXTENDS Routes, Services

CONSTANTS
  Company, Active,   \* company codes, and those with an active tenant
  Grants,            \* the permissions of each role when the token was issued
  HttpRequest,
  None

RequestsAssumption ==
  /\ Active \subseteq Company /\ None \notin Company
  /\ {q.route : q \in HttpRequest} \subseteq AllRoutes
  /\ \A q \in HttpRequest :
       /\ {q.header, q.host, q.body} \subseteq Company \union {None}
       \* A token was issued for a company that was active.
       /\ q.body \in Active \union {None}
       /\ q.token # None => q.token.company \in Active /\ q.token.role \in DOMAIN Grants

VARIABLES request, at, schema, reply, result
vars == <<request, at, schema, reply, result>>

Begin(q) ==
  /\ request = q
  /\ at = "middleware"
  /\ schema = None
  /\ reply = 0 /\ result = "none yet"

Init == \E q \in HttpRequest : Begin(q)

To(step, company)  == at' = step /\ schema' = company /\ UNCHANGED <<request, reply, result>>
Reply(status, res) == at' = "answered" /\ reply' = status /\ result' = res /\ UNCHANGED <<request, schema>>

\* The company a request names: a header decides alone, a host or token that fails does not.
Named ==
  IF request.header # None THEN request.header
  ELSE IF request.host \in Active THEN request.host ELSE request.body

Use ==
  /\ at = "middleware"
  /\ IF request.header \notin Active \union {None} THEN Reply(404, "no company")
                                                   ELSE To("authenticate", Named)

\* Variant: the token says who, but not where.
Authenticate_KeepsCompany ==
  /\ at = "authenticate"
  /\ IF Authenticated(request.route, request.token # None) THEN To("authorize", schema)
                                                            ELSE Reply(401, "no token")

\* A token that is not needed is not looked at.
Authenticate ==
  /\ at = "authenticate"
  /\ IF request.route.public THEN To("authorize", schema)
     ELSE IF ~Authenticated(request.route, request.token # None) THEN Reply(401, "no token")
     ELSE To("authorize", request.token.company)

Claims == IF request.token = None THEN {} ELSE Grants[request.token.role]

Authorize ==
  /\ at = "authorize"
  /\ IF Permitted(request.route, Claims) THEN To("handler", schema) ELSE Reply(403, "no permission")

\* requireTenantContext.
NeedsContext == request.route.controller = "auth" /\ request.route.op \in {"login", "forgotPassword", "resetPassword"}

Issues ==
  {<<"stock_transfers", "approve">>, <<"stock_adjustments", "approve">>, <<"damaged_stock", "approve">>,
   <<"physical_verifications", "complete">>, <<"purchase_returns", "approve">>,
   <<"delivery_challans", "deliver">>}

Posting == {"approve", "complete", "deliver", "cancel", "send", "accept", "reject", "convertToSalesOrder"}

\* No row: users and roles have an error of their own for that.
MayMiss(c, op) ==
  /\ c \notin {"users", "roles"}
  /\ op \in {"getById", "update", "remove", "delete", "release", "setPrimary", "findByBarcode", "getOne", "post",
             "getProfile", "updateProfile", "login", "refresh", "changePassword", "resetPassword",
             "tenantInfo", "tlsCheck"}

\* The row is named in the path, and no route has a ParseUUIDPipe.
NamesRow(c, op) ==
  \/ op \in {"getById", "update", "remove", "delete", "release", "getOne", "post", "setRoles",
             "getPermissions", "setPermissions"} \union Posting
  \/ <<c, op>> = <<"users", "resetPassword">>
  \/ c \in {"product_barcodes", "product_batches", "product_images", "product_units", "product_price_history"}

\* Texts, amounts (@Min without @Max) and their sums, days (@IsDateString) or a page reach a statement.
TakesValues(c, op) ==
  \/ op \in {"create", "update", "updateProfile", "setPermissions", "search", "findByBarcode", "tenantInfo",
             "tlsCheck", "signup", "post"} \union Posting
  \/ c = "reports" \/ <<c, op>> \in {<<"products", "list">>, <<"audit", "list">>}

\* These tables have no updated_at, which the other repositories always set.
MayBeEmpty(c, op) ==
  op = "update" /\ c \in {"taxes", "gst_rates", "hsn_codes", "product_units", "product_batches"}

Changes == {"create", "update", "updateProfile", "upload", "setPrimary", "setRoles", "setPermissions", "release",
            "post", "signup"} \union Posting

\* What the handler of a route can end with, except for failures the client has no part in.
Raises(c, op) ==
  {"ok"}
    \union (IF MayMiss(c, op) THEN {"none"} ELSE {})
    \union (IF NamesRow(c, op) THEN {"22P02", "22021"} ELSE {})
    \union (IF TakesValues(c, op) THEN DataErrors \ {"22P02", "42601"} ELSE {})
    \union (IF MayBeEmpty(c, op) THEN {"42601"} ELSE {})
    \union (IF op \in Changes THEN ConstraintErrors \ {"23001"} ELSE {})
    \union (IF op \in {"remove", "delete"} THEN {"23503", "23001"} ELSE {})
    \union (IF op \in Posting THEN DocumentErrors ELSE {})
    \union (IF <<c, op>> \in Issues THEN {"InsufficientStock"} ELSE {})
    \union (IF op = "post" THEN {"NotPositive", "OpeningStockAlreadyPosted"} ELSE {})
    \union (IF op = "upload" THEN {"NoFile"} ELSE {})
    \union (IF op = "signup" THEN {"CodeTaken"} ELSE {})
    \union (IF c \in {"supplier_payments", "customer_payments"} /\ op = "create" THEN {"InvalidAllocation"} ELSE {})
    \union (IF c = "users" /\ op # "list" THEN {"AccessNotFound", "DuplicateEmail", "LastAdmin", "SelfModification"} ELSE {})
    \union (IF c = "roles" /\ op \notin {"list", "create"}
            THEN {"AccessNotFound", "SystemRole", "AdminRoleLocked"} ELSE {})

Handle ==
  /\ at = "handler"
  /\ IF NeedsContext /\ schema = None THEN Reply(400, "no company")
     ELSE \E res \in Raises(request.route.controller, request.route.op) \union {"crash"} :
            Reply(Answer(request.route.controller, request.route.op, res), res)

Next == Use \/ Authenticate \/ Authorize \/ Handle

Spec == Init /\ [][Next]_vars

-----------------------------------------------------------------------------
TypeOK ==
  /\ at \in {"middleware", "authenticate", "authorize", "handler", "answered"}
  /\ schema \in Company \union {None}
  /\ reply \in {0, 200, 400, 401, 403, 404, 409, 500}

(***************************************************************************)
(* A handler works in the company of the access token, whatever company    *)
(* the header or the host of the request names ("overwrites whatever       *)
(* TenantContextMiddleware set from a header"), and without a token in the *)
(* one that comes first: header, host, refresh token; only in a company    *)
(* that is or was active.  jwt-auth.guard.ts, tenant-context.middleware.ts.*)
(***************************************************************************)
ServedByItsCompany ==
  (at = "answered" /\ result \notin {"no token", "no company", "no permission"}) =>
    /\ schema \in Active \union {None}
    /\ ~request.route.public => schema = request.token.company
    /\ request.route.public /\ request.header # None => schema = request.header

\* These two services do not know InsufficientStockError (see the findings).
Untold == {<<"stock_adjustments", "approve">>, <<"physical_verifications", "complete">>}

(***************************************************************************)
(* Success is told of nothing but success: what found no row, broke a rule *)
(* or failed is answered as an error.  And what a client may cause is told *)
(* as its error, never as 500, with two exceptions: values that only the   *)
(* database refuses (PG_ERROR_STATUS_MAP has none of DataErrors), and the  *)
(* operations of Untold without stock.  The catch clauses of all services, *)
(* and all-exceptions.filter.ts for what they let through.                 *)
(***************************************************************************)
ResultsAreTold ==
  at = "answered" =>
    /\ reply = 200 => result = "ok"
    /\ reply = 500 =>
         \/ result = "crash"
         \/ result \in DataErrors
         \/ result = "InsufficientStock" /\ <<request.route.controller, request.route.op>> \in Untold
=============================================================================
