------------------------------ MODULE Permissions ------------------------------
(***************************************************************************)
(* The permissions and roles of one tenant: what the seed script and the   *)
(* permission migrations put into the tables permissions, roles and        *)
(* role_permissions of its schema.                                         *)
(*                                                                         *)
(* A permission is a pair of a module and an action (the code column joins *)
(* the two with a dot).  Every script inserts with ON CONFLICT DO NOTHING  *)
(* and grants by selecting from what the tables hold when it runs, so what *)
(* a role may do depends on the order in which the scripts ran.            *)
(***************************************************************************)
EXTENDS SequencesExt

\* The roles of the seed, their names without spaces.
Role == {"Admin", "Manager", "WarehouseManager", "SalesPerson", "Viewer"}

Perm(modules, actions) == [module : modules, action : actions]

Crud     == {"view", "create", "edit", "delete", "export", "print"}
ReadOnly == {"view", "export", "print"}

SharedModules ==
  {"dashboard", "branches", "warehouses", "racks", "locations", "categories", "sub_categories",
   "brands", "units", "hsn_codes", "gst_rates", "taxes", "products", "suppliers", "transporters",
   "stock_transfers", "stock_adjustments", "physical_verifications", "damaged_stock",
   "stock_returns", "purchase_orders", "goods_received_notes", "purchase_invoices",
   "supplier_payments", "purchase_returns", "reports"}

SalesModules ==
  {"customers", "quotations", "sales_orders", "delivery_challans", "sales_invoices",
   "customer_payments", "sales_returns"}

SeedModules == SharedModules \union SalesModules \union {"employees", "users", "roles"}

Approvable ==
  {"purchase_orders", "sales_orders", "stock_adjustments", "stock_transfers", "purchase_returns",
   "sales_returns", "physical_verifications", "damaged_stock", "stock_returns",
   "goods_received_notes", "purchase_invoices", "delivery_challans", "sales_invoices"}

\* The three tables of a schema; grants is role_permissions.
NoAccess == [perms |-> {}, roles |-> {}, grants |-> [r \in Role |-> {}]]

Insert(access, perms) == [access EXCEPT !.perms = @ \union perms]

\* INSERT INTO role_permissions SELECT ... FROM roles CROSS JOIN permissions.
Grant(access, roles, perms) ==
  [access EXCEPT !.grants = [r \in Role |->
     IF r \in roles \intersect access.roles THEN @[r] \union (perms \intersect access.perms) ELSE @[r]]]

Without(perms, action) == {p \in perms : p.action # action}
Reading(perms)         == {p \in perms : p.action \in ReadOnly}
OfModules(perms, ms)   == {p \in perms : p.module \in ms}

AuditView == Perm({"audit_logs"}, {"view"})

GrantAudit(access) == Grant(Insert(access, AuditView), {"Admin"}, AuditView)

SeedPerms == Perm(SeedModules, Crud) \union Perm(Approvable, {"approve"})

SeedRolesPermissions(access) ==
  LET a == [Insert(access, SeedPerms) EXCEPT !.roles = Role]
      b == Grant(Grant(a, {"Admin"}, a.perms), {"Manager"}, Without(a.perms, "delete"))
      c == Grant(b, {"WarehouseManager"},
             OfModules(b.perms, SharedModules)
               \union Reading(OfModules(b.perms, SalesModules \union {"users", "roles"})))
      d == Grant(c, {"SalesPerson"}, OfModules(c.perms, SalesModules) \union Reading(c.perms))
  IN  GrantAudit(Grant(d, {"Viewer"}, Reading(d.perms)))

AddCompanyProfile(access) ==
  LET both == Perm({"company_profile"}, {"view", "edit"})
      a == Grant(Insert(access, both), {"Admin", "Manager"}, both)
  IN  Grant(a, {"WarehouseManager", "SalesPerson", "Viewer"}, Reading(both))

\* CREATE OR REPLACE VIEW v_dead_stock: no permission changes.
FixDeadStockView(access) == access

\* Variant: nobody thinks of Admin, who had everything so far.
AddInventory_ForgetsAdmin(access) ==
  LET new == Perm({"blocked_stock", "reserved_stock"}, Crud)
               \union Perm({"inventory"}, {"view", "create", "export", "print"})
      a == Grant(Insert(access, new), {"WarehouseManager"}, new)
  IN  Grant(Grant(a, {"Manager"}, Without(new, "delete")), {"SalesPerson", "Viewer"}, Reading(new))

AddInventory(access) ==
  LET new == Perm({"blocked_stock", "reserved_stock"}, Crud)
               \union Perm({"inventory"}, {"view", "create", "export", "print"})
      a == Grant(Insert(access, new), {"Admin", "WarehouseManager"}, new)
  IN  Grant(Grant(a, {"Manager"}, Without(new, "delete")), {"SalesPerson", "Viewer"}, Reading(new))

AddPurchaseApprove(access) ==
  LET new == Perm({"goods_received_notes", "purchase_invoices"}, {"approve"})
  IN  Grant(Insert(access, new), {"Admin", "Manager", "WarehouseManager"}, new)

AddSalesApprove(access) ==
  LET new == Perm({"delivery_challans", "sales_invoices"}, {"approve"})
  IN  Grant(Insert(access, new), {"Admin", "Manager", "SalesPerson"}, new)

\* The files of migrations/tenant_changes, in the order of their names.
Migration == <<"001_company_profile", "002_dead_stock_view", "003_inventory",
               "004_purchase_approve", "005_sales_approve", "006_audit_log">>

Run(access, script) ==
  CASE script = "seed"                 -> SeedRolesPermissions(access)
    [] script = "001_company_profile"  -> AddCompanyProfile(access)
    [] script = "002_dead_stock_view"  -> FixDeadStockView(access)
    [] script = "003_inventory"        -> AddInventory(access)
    [] script = "004_purchase_approve" -> AddPurchaseApprove(access)
    [] script = "005_sales_approve"    -> AddSalesApprove(access)
    [] script = "006_audit_log"        -> GrantAudit(access)

\* What the tables hold after a sequence of scripts.
AccessAfter(scripts) == FoldLeft(Run, NoAccess, scripts)
=============================================================================
