-------------------------------- MODULE Routes --------------------------------
(***************************************************************************)
(* The HTTP interface: the routes of every controller with the permissions *)
(* they declare, and the two guards every request passes.                  *)
(*                                                                         *)
(* One definition per controller class.  A route is the controller, the    *)
(* operation, whether it changes state, whether it is @Public and the      *)
(* permissions that @RequirePermissions names, on the method or the class. *)
(***************************************************************************)
EXTENDS Permissions

Route(controller, op, writes, needs) ==
  [controller |-> controller, op |-> op, writes |-> writes, public |-> FALSE, needs |-> needs]

Public(controller, ops) ==
  {[controller |-> controller, op |-> op, writes |-> TRUE, public |-> TRUE, needs |-> {}] : op \in ops}

Reads(controller, ops, m) ==
  {Route(controller, op, FALSE, Perm({m}, {"view"})) : op \in ops}

Writes(controller, op, m, action) == {Route(controller, op, TRUE, Perm({m}, {action}))}

ListAndGet(c, m) == Reads(c, {"list", "getById"}, m)

MasterDataRoutes(c) ==
  ListAndGet(c, c) \union Writes(c, "create", c, "create") \union Writes(c, "update", c, "edit")
    \union Writes(c, "remove", c, "delete")

BranchesController      == MasterDataRoutes("branches")
BrandsController        == MasterDataRoutes("brands")
CategoriesController    == MasterDataRoutes("categories")
CustomersController     == MasterDataRoutes("customers")
EmployeesController     == MasterDataRoutes("employees")
GstRatesController      == MasterDataRoutes("gst_rates")
HsnCodesController      == MasterDataRoutes("hsn_codes")
LocationsController     == MasterDataRoutes("locations")
RacksController         == MasterDataRoutes("racks")
SubCategoriesController == MasterDataRoutes("sub_categories")
SuppliersController     == MasterDataRoutes("suppliers")
TaxesController         == MasterDataRoutes("taxes")
TransportersController  == MasterDataRoutes("transporters")
UnitsController         == MasterDataRoutes("units")
WarehousesController    == MasterDataRoutes("warehouses")

ProductsController ==
  MasterDataRoutes("products") \union Reads("products", {"search", "findByBarcode"}, "products")

\* The parts of a product are edited with the permission of the product.
ProductPart(c, ops) ==
  Reads(c, {"list"}, "products") \union UNION {Writes(c, op, "products", "edit") : op \in ops}

ProductBarcodesController     == ProductPart("product_barcodes", {"create", "remove"})
ProductBatchesController      == ProductPart("product_batches", {"create", "update", "remove"})
ProductImagesController       == ProductPart("product_images", {"upload", "setPrimary", "remove"})
ProductUnitsController        == ProductPart("product_units", {"create", "update", "remove"})
ProductPriceHistoryController == ProductPart("product_price_history", {})

\* A document is created, then posted (approve, complete or deliver) or deleted.
DocumentRoutes(c, post, delete) ==
  ListAndGet(c, c) \union Writes(c, "create", c, "create") \union Writes(c, post, c, "approve")
    \union Writes(c, delete, c, "delete")

StockTransfersController        == DocumentRoutes("stock_transfers", "approve", "remove")
StockAdjustmentsController      == DocumentRoutes("stock_adjustments", "approve", "remove")
PhysicalVerificationsController == DocumentRoutes("physical_verifications", "complete", "remove")
DamagedStockController          == DocumentRoutes("damaged_stock", "approve", "remove")
StockReturnsController          == DocumentRoutes("stock_returns", "approve", "remove")
GoodsReceivedNotesController    == DocumentRoutes("goods_received_notes", "complete", "delete")
PurchaseInvoicesController      == DocumentRoutes("purchase_invoices", "approve", "delete")
PurchaseReturnsController       == DocumentRoutes("purchase_returns", "approve", "delete")
DeliveryChallansController      == DocumentRoutes("delivery_challans", "deliver", "delete")
SalesInvoicesController         == DocumentRoutes("sales_invoices", "approve", "delete")
SalesReturnsController          == DocumentRoutes("sales_returns", "approve", "delete")

PurchaseOrdersController ==
  DocumentRoutes("purchase_orders", "approve", "delete")
    \union Writes("purchase_orders", "cancel", "purchase_orders", "edit")

SalesOrdersController ==
  DocumentRoutes("sales_orders", "approve", "delete")
    \union Writes("sales_orders", "cancel", "sales_orders", "edit")

QuotationsController ==
  ListAndGet("quotations", "quotations") \union Writes("quotations", "create", "quotations", "create")
    \union Writes("quotations", "convertToSalesOrder", "sales_orders", "create")
    \union Writes("quotations", "delete", "quotations", "delete")
    \union UNION {Writes("quotations", op, "quotations", "edit") : op \in {"send", "accept", "reject"}}

\* Stock that is set aside is released with the permission to edit.
HoldRoutes(c) ==
  ListAndGet(c, c) \union Writes(c, "create", c, "create") \union Writes(c, "release", c, "edit")

BlockedStockController  == HoldRoutes("blocked_stock")
ReservedStockController == HoldRoutes("reserved_stock")

OpeningStockController == Writes("opening_stock", "post", "inventory", "create")
StockViewsController   == Reads("stock_views", {"getStockBalances", "getStockLedger"}, "inventory")

PaymentRoutes(c) == ListAndGet(c, c) \union Writes(c, "create", c, "create")

SupplierPaymentsController == PaymentRoutes("supplier_payments")
CustomerPaymentsController == PaymentRoutes("customer_payments")

OutstandingPayablesController    == Reads("outstanding_payables", {"list"}, "purchase_invoices")
OutstandingReceivablesController == Reads("outstanding_receivables", {"list"}, "sales_invoices")

\* Here the class declares the permission, for all of its routes.
DashboardController ==
  Reads("dashboard", {"getSummary", "getLowStockItems", "getDeadStock", "getTopSellingItems",
                      "getSalesGraph", "getPurchaseGraph", "getWarehouseStock", "getCategorySales"},
        "dashboard")

ReportsController ==
  Reads("reports", {"salesRegister", "purchaseRegister", "salesByProduct", "purchaseByProduct",
                    "salesByCustomer", "purchaseBySupplier", "gstOutputSummary", "gstInputSummary"},
        "reports")

UsersController ==
  Reads("users", {"list"}, "users") \union Writes("users", "create", "users", "create")
    \union UNION {Writes("users", op, "users", "edit") : op \in {"update", "setRoles", "resetPassword"}}

RolesController ==
  Reads("roles", {"list", "getPermissions"}, "roles") \union Writes("roles", "create", "roles", "create")
    \union Writes("roles", "remove", "roles", "delete")
    \union UNION {Writes("roles", op, "roles", "edit") : op \in {"update", "setPermissions"}}

PermissionsController == Reads("permissions", {"list"}, "roles")
AuditController       == Reads("audit", {"list", "tables", "getOne"}, "audit_logs")

CompanyController ==
  Reads("company", {"getProfile"}, "company_profile")
    \union Writes("company", "updateProfile", "company_profile", "edit")

\* Any user with a token may change its own password and profile.
AuthController ==
  Public("auth", {"login", "refresh", "logout", "forgotPassword", "resetPassword"})
    \union {Route("auth", op, op # "getProfile", {}) : op \in {"changePassword", "getProfile", "updateProfile"}}

SignupController     == Public("signup", {"signup"})
TenantInfoController == Public("tenant_info", {"tenantInfo", "tlsCheck"})
HealthController     == Public("health", {"check"})

AllRoutes ==
  UNION {BranchesController, BrandsController, CategoriesController, CustomersController,
         EmployeesController, GstRatesController, HsnCodesController, LocationsController,
         RacksController, SubCategoriesController, SuppliersController, TaxesController,
         TransportersController, UnitsController, WarehousesController, ProductsController,
         ProductBarcodesController, ProductBatchesController, ProductImagesController,
         ProductUnitsController, ProductPriceHistoryController, StockTransfersController,
         StockAdjustmentsController, PhysicalVerificationsController, DamagedStockController,
         StockReturnsController, GoodsReceivedNotesController, PurchaseInvoicesController,
         PurchaseReturnsController, DeliveryChallansController, SalesInvoicesController,
         SalesReturnsController, PurchaseOrdersController, SalesOrdersController,
         QuotationsController, BlockedStockController, ReservedStockController,
         OpeningStockController, StockViewsController, SupplierPaymentsController,
         CustomerPaymentsController, OutstandingPayablesController,
         OutstandingReceivablesController, DashboardController, ReportsController,
         UsersController, RolesController, PermissionsController, AuditController,
         CompanyController, AuthController, SignupController, TenantInfoController,
         HealthController}

\* JwtAuthGuard: @Public routes pass, any other needs a valid access token.
Authenticated(route, hasToken) == route.public \/ hasToken

\* PermissionsGuard: no declared permission is missing from the claims.
Permitted(route, claims) == route.needs \subseteq claims
=============================================================================
