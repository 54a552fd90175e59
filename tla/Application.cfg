SPECIFICATION FairSpec
CONSTANTS
  Part = {"tenants", "requests", "users", "catalogue", "quotations", "costs"}
  Signup <- Signups  Runner = {"cli"}  ApiRequest = {"api"}  TenantWorkloads <- MCTenantWorkloads
  Code = {"a", "b"}  CodeOf <- SignupCode  FromTenantHost = {"s1", "s4"}  Connection = {c1, c2}
  Template = Template  Nobody = Nobody  NoConn = NoConn  c1 = c1  c2 = c2
  Company = {"a", "b", "p"}  Active = {"a", "b"}  Grants <- RoleGrants  HttpRequest <- HttpRequests
  None = None
  User = {"a1", "a2", "u", "n"}  Staff = {"a1", "a2", "u"}  Owner = "u"
  UserRole = {"Admin", "Viewer", "Clerk", "Auditor"}  SystemRole = {"Admin", "Viewer"}
  Permission = {"view", "edit"}  InitialPermissions <- FirstGrants  InitialRoles <- FirstRoles
  UserRequest <- UserRequests  UserWorkloads <- MCUserWorkloads  UserOp <- MCOp  UserBy <- MCBy
  UserOn <- MCOn  NewRoles <- MCNewRoles  NewPermissions <- MCNewPermissions
  Password <- MCPassword  Credential <- MCCredential  FirstToken = FirstToken  NoToken = NoToken
  Row <- TableRows  TableOf <- TableOfRow  Column <- RowColumns  InitialRows <- FirstRows
  RowRequest <- RowRequests  RowWorkloads <- MCRowWorkloads  RowCall <- RowCalls  Null = Null
  Quotation = {"q"}  QuotationRequest <- QuotationRequests  QuotationOp <- MCQuotationOp
  OnQuotation <- MCOnQuotation  QuotationWorkloads <- MCQuotationWorkloads
  Warehouse = {"w1", "w2"}  Document <- StockDocument  PurchasePrice = 10  Drafts <- CostDrafts
INVARIANTS
  TypeOK ActiveTenantIsComplete RecordedIsWhatRan RolesKeepTheirLimits ServedByItsCompany
  AnAdminRemains NothingIsUsedTwice OldSessionsEnd
  UsersAreAsTold ClientStaysLoggedIn ImagesHaveFiles PrimaryImageIsKept ErrorsAreTold
  OneOrderPerQuotation StockIsWorthWhatWasPaid
PROPERTIES ScanFindsProduct ProcessesEnd
CHECK_DEADLOCK FALSE
