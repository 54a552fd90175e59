------------------------------- MODULE Services -------------------------------
(***************************************************************************)
(* What a client is told: for every service class the results of its       *)
(* repository that it catches and the HTTP exception it throws instead,    *)
(* and AllExceptionsFilter for everything that nobody catches.             *)
(*                                                                         *)
(* A result is "ok", "none" (a lookup or a write that found no row), the   *)
(* name of a domain error or of a check the handler makes, an SQLSTATE, or *)
(* "crash" for any failure the client has no part in.                      *)
(* A service is a set of rules [op, result, status].                       *)
(***************************************************************************)

DocumentErrors   == {"DocumentNotFound", "DocumentNotDraft"}
ConstraintErrors == {"23505", "23503", "23001", "23514", "23502"}
\* SQLSTATEs of values that no DTO refuses: not a uuid, a text too long or with a zero byte, a
\* number out of range, no such day; and of an UPDATE that sets nothing.
DataErrors       == {"22P02", "22001", "22021", "22003", "22007", "22008", "42601"}
AccessErrors     == {"AccessNotFound", "DuplicateEmail", "LastAdmin", "SelfModification",
                     "SystemRole", "AdminRoleLocked"}

Rules(ops, result, status) == [op : ops, result : {result}, status : {status}]

\* List, getById, create, update and remove of one table.
LookupRules(ops) == Rules(ops, "none", 404)
MasterDataService == LookupRules({"getById", "update", "remove"})

BranchesService      == MasterDataService
BrandsService        == MasterDataService
CategoriesService    == MasterDataService
CustomersService     == MasterDataService
EmployeesService     == MasterDataService
GstRatesService      == MasterDataService
HsnCodesService      == MasterDataService
LocationsService     == MasterDataService
RacksService         == MasterDataService
SubCategoriesService == MasterDataService
SuppliersService     == MasterDataService
TaxesService         == MasterDataService
TransportersService  == MasterDataService
UnitsService         == MasterDataService
WarehousesService    == MasterDataService

ProductsService        == MasterDataService \union LookupRules({"findByBarcode"})
ProductBarcodesService == LookupRules({"remove"})
ProductBatchesService  == LookupRules({"update", "remove"})
ProductImagesService   == LookupRules({"setPrimary", "remove"}) \union Rules({"upload"}, "NoFile", 400)
ProductUnitsService    == LookupRules({"update", "remove"})

\* A document service translates the two document errors of its posting operations; that a
\* delete found no draft is a conflict.
DocumentRules(ops, delete) ==
  LookupRules({"getById"}) \union Rules({delete}, "none", 409)
    \union Rules(ops, "DocumentNotFound", 404) \union Rules(ops, "DocumentNotDraft", 409)

InsufficientRule(op) == Rules({op}, "InsufficientStock", 409)

\* Variant: an issue that fails for want of stock is not told apart from a crash.
DeliveryChallansService_NoStockRule == DocumentRules({"deliver"}, "delete")

StockTransfersService        == DocumentRules({"approve"}, "remove") \union InsufficientRule("approve")
DamagedStockService          == DocumentRules({"approve"}, "remove") \union InsufficientRule("approve")
PurchaseReturnsService       == DocumentRules({"approve"}, "delete") \union InsufficientRule("approve")
DeliveryChallansService      == DocumentRules({"deliver"}, "delete") \union InsufficientRule("deliver")
StockAdjustmentsService      == DocumentRules({"approve"}, "remove")
PhysicalVerificationsService == DocumentRules({"complete"}, "remove")
StockReturnsService          == DocumentRules({"approve"}, "remove")
GoodsReceivedNotesService    == DocumentRules({"complete"}, "delete")
PurchaseInvoicesService      == DocumentRules({"approve"}, "delete")
SalesInvoicesService         == DocumentRules({"approve"}, "delete")
SalesReturnsService          == DocumentRules({"approve"}, "delete")
PurchaseOrdersService        == DocumentRules({"approve", "cancel"}, "delete")
SalesOrdersService           == DocumentRules({"approve", "cancel"}, "delete")
QuotationsService            == DocumentRules({"send", "accept", "reject", "convertToSalesOrder"}, "delete")

HoldRules            == LookupRules({"getById"}) \union Rules({"release"}, "none", 409)
BlockedStockService  == HoldRules
ReservedStockService == HoldRules

OpeningStockService ==
  LookupRules({"post"}) \union Rules({"post"}, "NotPositive", 400)
    \union Rules({"post"}, "OpeningStockAlreadyPosted", 409)

PaymentRules            == LookupRules({"getById"}) \union Rules({"create"}, "InvalidAllocation", 400)
SupplierPaymentsService == PaymentRules
CustomerPaymentsService == PaymentRules

\* Users and roles: the controller translates what AccessService throws.
MapAccessError(ops) ==
  Rules(ops, "AccessNotFound", 404)
    \union UNION {Rules(ops, e, 409) : e \in AccessErrors \ {"AccessNotFound"}}

UsersRules == MapAccessError({"create", "update", "setRoles", "resetPassword"})
RolesRules == MapAccessError({"update", "remove", "getPermissions", "setPermissions"})

AuditService   == LookupRules({"getOne"})
ProfileService == LookupRules({"getProfile", "updateProfile"})

\* No user, token or code that fits, or the wrong password.
AuthService ==
  Rules({"login", "refresh", "changePassword"}, "none", 401) \union Rules({"resetPassword"}, "none", 400)

TenantProvisioningService == Rules({"signup"}, "CodeTaken", 409)
TenantInfo == LookupRules({"tenantInfo"}) \union Rules({"tlsCheck"}, "none", 403)

\* Services that catch nothing: what they do either succeeds or goes to the filter.
Uncaught == {}

Service ==
  [branches |-> BranchesService, brands |-> BrandsService, categories |-> CategoriesService,
   customers |-> CustomersService, employees |-> EmployeesService, gst_rates |-> GstRatesService,
   hsn_codes |-> HsnCodesService, locations |-> LocationsService, racks |-> RacksService,
   sub_categories |-> SubCategoriesService, suppliers |-> SuppliersService, taxes |-> TaxesService,
   transporters |-> TransportersService, units |-> UnitsService, warehouses |-> WarehousesService,
   products |-> ProductsService, product_barcodes |-> ProductBarcodesService,
   product_batches |-> ProductBatchesService, product_images |-> ProductImagesService,
   product_units |-> ProductUnitsService, product_price_history |-> Uncaught,
   stock_transfers |-> StockTransfersService, stock_adjustments |-> StockAdjustmentsService,
   physical_verifications |-> PhysicalVerificationsService, damaged_stock |-> DamagedStockService,
   stock_returns |-> StockReturnsService, goods_received_notes |-> GoodsReceivedNotesService,
   purchase_invoices |-> PurchaseInvoicesService, purchase_returns |-> PurchaseReturnsService,
   delivery_challans |-> DeliveryChallansService, sales_invoices |-> SalesInvoicesService,
   sales_returns |-> SalesReturnsService, purchase_orders |-> PurchaseOrdersService,
   sales_orders |-> SalesOrdersService, quotations |-> QuotationsService,
   blocked_stock |-> BlockedStockService, reserved_stock |-> ReservedStockService,
   opening_stock |-> OpeningStockService, stock_views |-> Uncaught,
   supplier_payments |-> SupplierPaymentsService, customer_payments |-> CustomerPaymentsService,
   outstanding_payables |-> Uncaught, outstanding_receivables |-> Uncaught,
   dashboard |-> Uncaught, reports |-> Uncaught, users |-> UsersRules, roles |-> RolesRules,
   permissions |-> Uncaught, audit |-> AuditService, company |-> ProfileService,
   auth |-> AuthService \union ProfileService, signup |-> TenantProvisioningService, tenant_info |-> TenantInfo,
   health |-> Uncaught]

\* AllExceptionsFilter.resolve, for what is not an HttpException.
\* Variant: a broken check constraint is told as "unprocessable".
Filter_Unprocessable(result) ==
  CASE result \in {"ok", "none"} -> 200
    [] result \in {"23505", "23503", "23001"} -> 409
    [] result \in {"23514", "23502"} -> 422
    [] OTHER -> 500

Filter(result) ==
  CASE result \in {"ok", "none"} -> 200
    [] result \in {"23505", "23503", "23001"} -> 409
    [] result \in {"23514", "23502"} -> 400
    [] OTHER -> 500

\* What the client of one operation is told.
Answer(controller, op, result) ==
  LET rules == {r \in Service[controller] : r.op = op /\ r.result = result}
  IN  IF rules = {} THEN Filter(result) ELSE (CHOOSE r \in rules : TRUE).status
=============================================================================
