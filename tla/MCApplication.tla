---------------------------- MODULE MCApplication ----------------------------
(***************************************************************************)
(* Small values for the parts of Application.                              *)
(***************************************************************************)
EXTENDS Application, FiniteSetsExt, TLC

CONSTANTS c1, c2

\* One request alone, or any two of a group at the same time.
Pairs(group) == {{r, q} : r, q \in group}

-----------------------------------------------------------------------------
(* Three sign-ups for company a, two of them sent to the host of a tenant, *)
(* one for company b, a migration run and a request of another company.    *)
(* Sign-ups for two companies never meet but in the pool, which two from   *)
(* tenants' hosts exhaust.                                                 *)

SignupCode == [s1 |-> "a", s2 |-> "a", s3 |-> "b", s4 |-> "a"]
Signups    == DOMAIN SignupCode

MCTenantWorkloads == {{"s1", "s2", "api"}, {"s1", "s4"}, {"s1", "cli"}, {"s1", "s3"}}

-----------------------------------------------------------------------------
(* Every route with the token of every role and without; and some routes   *)
(* with every combination of header, host and refresh token of companies   *)
(* a and b and of p, which is still provisioning.                          *)

P == INSTANCE Permissions
R == INSTANCE Routes

RoleGrants == P!AccessAfter(<<"seed">> \o P!Migration).grants
Tokens     == [company : {"a"}, role : {"Admin", "SalesPerson", "Viewer"}]
Sending(routes, headers, hosts, bodies, owners) ==
  [route : routes, header : headers, host : hosts, body : bodies, token : owners]

ContextRoutes == {r \in R!AllRoutes : r.controller \in {"auth", "brands", "signup", "tenant_info"}}

HttpRequests ==
  Sending(R!AllRoutes, {None}, {None}, {None}, Tokens \union {None})
    \union Sending(ContextRoutes, {None, "a", "b", "p"}, {None, "b", "p"}, {None, "a"},
                {None, [company |-> "a", role |-> "Admin"]})

-----------------------------------------------------------------------------
(* Admins a1 and a2, user u with a device, and a user n who is not there.  *)
(* A request is [op, by, on, roles, password, credential].                 *)

Req(op, by, on, rs, pw, cred) ==
  [op |-> op, by |-> by, on |-> on, roles |-> rs, permissions |-> {}, password |-> pw, credential |-> cred]
Do(op, by, on)         == Req(op, by, on, {}, "initial", NoToken)
Give(op, by, on, rs)   == Req(op, by, on, rs, "initial", NoToken)
Present(op, on, cred)  == Req(op, on, on, {}, "initial", cred)
OnRole(op, role)       == Give(op, "a1", "a1", {role})
Permit(role, ps)       == [OnRole("setPermissions", role) EXCEPT !.permissions = ps]

UserCalls ==
  [login |-> Do("login", "u", "u"), loginNew |-> Req("login", "u", "u", {}, "change", NoToken),
   refresh |-> Present("refresh", "u", FirstToken), refreshAgain |-> Present("refresh", "u", FirstToken),
   refreshChild |-> Present("refresh", "u", "refresh"),
   device1 |-> Do("deviceRefresh", "u", "u"), device2 |-> Do("deviceRefresh", "u", "u"),
   device3 |-> Do("deviceRefresh", "u", "u"),
   logout |-> Present("logout", "u", FirstToken),
   forgot |-> Do("forgotPassword", "u", "u"), forgot2 |-> Do("forgotPassword", "u", "u"),
   reset |-> Present("resetPassword", "u", "forgot"), resetAgain |-> Present("resetPassword", "u", "forgot"),
   change |-> Do("changePassword", "u", "u"),
   deactivate |-> Do("update", "a1", "u"), reactivate |-> Do("reactivate", "a1", "u"),
   deactivateA2 |-> Do("update", "a1", "a2"), deactivateA1 |-> Do("update", "a2", "a1"),
   deactivateSelf |-> Do("update", "a1", "a1"),
   demoteA2 |-> Give("setRoles", "a1", "a2", {"Viewer"}), demoteA1 |-> Give("setRoles", "a2", "a1", {}),
   promote |-> Give("setRoles", "a1", "u", {"Admin"}), clerk |-> Give("setRoles", "a2", "u", {"Clerk"}),
   promoteNew |-> Give("setRoles", "a1", "n", {"Admin", "Clerk"}),
   create |-> Give("create", "a1", "n", {"Clerk"}), createAgain |-> Give("create", "a2", "n", {}),
   setPassword |-> Do("resetUserPassword", "a1", "u"), setNobody |-> Do("resetUserPassword", "a1", "n"),
   newRole |-> OnRole("createRole", "Auditor"), newClerk |-> OnRole("createRole", "Clerk"), auditor |-> Give("setRoles", "a1", "u", {"Auditor"}),
   rename |-> OnRole("updateRole", "Clerk"), renameViewer |-> OnRole("updateRole", "Viewer"),
   permit |-> Permit("Clerk", {"edit"}), permitBoth |-> Permit("Clerk", {"view", "edit"}),
   forbid |-> Permit("Clerk", {}), permitAdmin |-> Permit("Admin", {"view"}),
   deleteClerk |-> OnRole("deleteRole", "Clerk"), deleteAdmin |-> OnRole("deleteRole", "Admin")]

UserRequests == DOMAIN UserCalls
Field(f)     == [r \in UserRequests |-> UserCalls[r][f]]
MCOp == Field("op")  MCBy == Field("by")  MCOn == Field("on")  MCNewRoles == Field("roles")
MCPassword == Field("password")  MCCredential == Field("credential")
MCNewPermissions == Field("permissions")
FirstGrants  == [Admin |-> {"view", "edit"}, Viewer |-> {"view"}, Clerk |-> {"view"}]
FirstRoles   == [a1 |-> {"Admin"}, a2 |-> {"Admin"}, u |-> {"Viewer"}]

\* What a user does with a session, and what the staff does with users.  Repeated requests of a user
\* are in the larger workloads.
Repeated      == {"device2", "device3", "refreshAgain", "resetAgain", "forgot2"}
OwnRequests   == {r \in UserRequests \ Repeated : UserCalls[r].by = "u"}
StaffRequests == UserRequests \ (OwnRequests \union Repeated \union {"promoteNew", "newClerk"})

MCUserWorkloads ==
  {{"forgot", "reset", "resetAgain"}, {"forgot", "forgot2", "reset", "login"},
   {"refresh", "refreshAgain", "refreshChild"}, {"device1", "device2", "change"},
   {"device1", "device2", "device3"},
   {"login", "refresh", "change"}, {"login", "change", "loginNew"},
   {"deactivate", "refresh", "reactivate"}, {"deactivate", "login", "reactivate"},
   {"deactivateA1", "deactivateA2", "promote"}, {"demoteA1", "deactivateA2", "promote"},
   {"create", "promoteNew", "deactivateA1", "deactivateA2"},
   {"promote", "clerk", "deleteClerk"}, {"create", "createAgain", "deleteClerk"}}
  \union {{"permit", "permitBoth", "forbid"}, {"permit", "deleteClerk", "newClerk"}, {"newRole", "auditor", "clerk"}}
  \union Pairs(OwnRequests) \union Pairs(StaffRequests)

-----------------------------------------------------------------------------
(* One or two rows of every table.  p1 has barcode x and two images, p2 a  *)
(* unit with barcode y and a further barcode z.                            *)

TableOfRow ==
  [p1 |-> "products", p2 |-> "products", p3 |-> "products", u1 |-> "product_units",
   u2 |-> "product_units", b1 |-> "product_barcodes", b2 |-> "product_barcodes",
   ba |-> "product_batches", i1 |-> "product_images", i2 |-> "product_images",
   i3 |-> "product_images", i4 |-> "product_images", i5 |-> "product_images",
   wh |-> "warehouses", br |-> "branches", em |-> "employees", r1 |-> "racks", r2 |-> "racks",
   lo |-> "locations", hs |-> "hsn_codes", gs |-> "gst_rates", ca |-> "categories",
   sc |-> "sub_categories", sd |-> "sub_categories", un |-> "units", bd |-> "brands",
   su |-> "suppliers", cu |-> "customers", tr |-> "transporters", ta |-> "taxes"]

FirstRows ==
  [ca |-> [code |-> "x"], sc |-> [category |-> "ca", code |-> "x"], un |-> [code |-> "x"],
   gs |-> [code |-> "x"], hs |-> [code |-> "x", gst |-> "gs"], br |-> [code |-> "x"],
   em |-> [code |-> "x"], wh |-> [code |-> "x", branch |-> "br", manager |-> "em"],
   r1 |-> [warehouse |-> "wh", code |-> "x"], lo |-> [rack |-> "r1", code |-> "x"],
   bd |-> [code |-> "x"], ta |-> [code |-> "x"],
   p1 |-> [sku |-> "x", barcode |-> "x", category |-> "ca", unit |-> "un"],
   p2 |-> [sku |-> "y", category |-> "ca", unit |-> "un"],
   u1 |-> [product |-> "p2", unit |-> "un", barcode |-> "y", base |-> "yes"],
   b1 |-> [product |-> "p2", of_unit |-> "u1", barcode |-> "z"],
   i1 |-> [product |-> "p1", primary |-> "yes"], i2 |-> [product |-> "p1"], i3 |-> [product |-> "p2"]]

Nothing == [c \in {} |-> Null]
Ask(op, row, product, set) == [op |-> op, row |-> row, product |-> product, set |-> set, barcode |-> Null]
Remove(row, product)  == Ask("remove", row, product, Nothing)
Primary(row, product) == Ask("setPrimary", row, product, Nothing)
Scan(barcode) == [op |-> "findByBarcode", row |-> "p1", product |-> Null, set |-> Nothing, barcode |-> barcode]

Scanning ==
  [scanX |-> Scan("x"), scanY |-> Scan("y"), scanZ |-> Scan("z"), scanW |-> Scan("w"),
   createUnit |-> Ask("create", "u2", "p1", [product |-> "p1", unit |-> "un", barcode |-> "w", base |-> "yes"]),
   createBarcode |-> Ask("create", "b2", "p1", [product |-> "p1", barcode |-> "z"]),
   createProduct |-> Ask("create", "p3", Null, [sku |-> "x", category |-> "ca", unit |-> "un"]),
   moveBarcode |-> Ask("update", "p1", Null, [barcode |-> "y"]),
   dropBarcode |-> Ask("update", "p1", Null, [barcode |-> Null]),
   unitBarcode |-> Ask("update", "u1", "p2", [barcode |-> "x"]), emptyUnit |-> Ask("update", "u1", "p2", Nothing),
   noProduct |-> Remove("p2", Null), noUnit |-> Remove("u1", "p2"), noBarcode |-> Remove("b1", "p2")]

Imaging ==
  [upload |-> Ask("upload", "i4", "p1", [product |-> "p1", primary |-> "yes"]),
   uploadPlain |-> Ask("upload", "i5", "p2", [product |-> "p2"]),
   primary1 |-> Primary("i1", "p1"), primary2 |-> Primary("i2", "p1"), primary3 |-> Primary("i3", "p1"),
   noImage1 |-> Remove("i1", "p1"), noImage2 |-> Remove("i2", "p1"), noImage4 |-> Remove("i4", "p1"),
   removeProduct |-> Remove("p1", Null)]

Arranging ==
  [createRack |-> Ask("create", "r2", Null, [warehouse |-> "wh", code |-> "x"]),
   createSub |-> Ask("create", "sd", Null, [category |-> "ca", code |-> "y"]),
   createSupplier |-> Ask("create", "su", Null, [code |-> "x"]),
   createCustomer |-> Ask("create", "cu", Null, [code |-> "x"]),
   createTransporter |-> Ask("create", "tr", Null, [code |-> "x"]),
   createBatch |-> Ask("create", "ba", "p2", [product |-> "p2", code |-> "x"]),
   emptyTax |-> Ask("update", "ta", Null, Nothing), emptyBrand |-> Ask("update", "bd", Null, Nothing),
   hire |-> Ask("update", "wh", Null, [manager |-> "em"]), relocate |-> Ask("update", "lo", Null, [rack |-> "r2"]),
   fire |-> Remove("em", Null), noGst |-> Remove("gs", Null), noRack |-> Remove("r1", Null),
   noCategory |-> Remove("ca", Null), noHsn |-> Remove("hs", Null), noBranch |-> Remove("br", Null),
   noLocation |-> Remove("lo", Null)]

RowCalls   == Scanning @@ Imaging @@ Arranging
RowRequests  == DOMAIN RowCalls
TableRows    == DOMAIN TableOfRow
RowColumns   == {"code", "sku", "barcode", "category", "unit", "product", "of_unit", "primary", "base", "rack",
                 "warehouse", "branch", "manager", "gst"}
MCRowWorkloads ==
  {{"upload", "primary2", "noImage1"}, {"primary1", "primary2", "upload"},
   {"scanZ", "noBarcode", "createBarcode"}, {"scanY", "noProduct", "moveBarcode"}}
  \union Pairs(DOMAIN Scanning) \union Pairs(DOMAIN Imaging) \union Pairs(DOMAIN Arranging)

-----------------------------------------------------------------------------
(* One quotation, since quotations do not meet, and every operation on it, *)
(* the conversion twice.                                                   *)

MCQuotationOp ==
  [create |-> "create", send |-> "send", accept |-> "accept", reject |-> "reject",
   convert |-> "convertToSalesOrder", convertAgain |-> "convertToSalesOrder", delete |-> "delete"]
QuotationRequests == DOMAIN MCQuotationOp
MCOnQuotation == [r \in QuotationRequests |-> "q"]
MCQuotationWorkloads == {QuotationRequests}

-----------------------------------------------------------------------------
(* Two receipts at different prices, in a unit whose factor does not       *)
(* divide the rate, a free one, the opening stock, a transfer forth and    *)
(* one back, an issue, the returns and two counts; three at a time, or     *)
(* four of which two are the receipts.                                     *)

Doc(kind, from, to, qty, factor, rate) ==
  [kind |-> kind, at |-> from, to |-> to, qty |-> qty, factor |-> factor, rate |-> rate]
InW1(kind, qty) == Doc(kind, "w1", "w1", qty, 1, 0)

StockDocument ==
  [dozen |-> Doc("goodsReceived", "w1", "w1", 1, 3, 20), dear |-> Doc("goodsReceived", "w1", "w1", 2, 1, 30),
   free |-> Doc("goodsReceived", "w1", "w1", 1, 1, 0), opening |-> InW1("openingStock", 2),
   forth |-> Doc("transfer", "w1", "w2", 2, 1, 0), back |-> Doc("transfer", "w2", "w1", 1, 1, 0),
   issue |-> InW1("issue", 1), stockReturn |-> InW1("stockReturn", 1), salesReturn |-> InW1("salesReturn", 1),
   countUp |-> InW1("count", 5), countDown |-> InW1("count", 1)]

CostDrafts ==
  {drafts \in SUBSET DOMAIN StockDocument :
     Cardinality(drafts) = IF {"dozen", "dear"} \subseteq drafts THEN 4 ELSE 3}
=============================================================================
