----------------------------- MODULE Application -----------------------------
(***************************************************************************)
(* The parts of the backend around the documents: how tenants come to be,  *)
(* the way of one HTTP request, users and sessions, master data and        *)
(* products, quotations, and what stock is worth.  They write no table in  *)
(* common, so each behaviour lets one of them work and leaves the others   *)
(* where they begin.  The constants are those of the parts; what several   *)
(* of them have, like requests, is named for the part here.                *)
(***************************************************************************)
EXTENDS Naturals, Sequences, FiniteSets

CONSTANTS
  Part,                        \* the parts that may work
  \* tenants
  Signup, Runner, ApiRequest, TenantWorkloads, Code, CodeOf, FromTenantHost, Connection,
  Template, Nobody, NoConn,
  \* requests
  Company, Active, Grants, HttpRequest, None,
  \* users
  User, Staff, UserRole, SystemRole, Permission, InitialRoles, InitialPermissions, FirstToken, Owner,
  UserRequest, UserWorkloads, UserOp, UserBy, UserOn, NewRoles, NewPermissions, Password, Credential,
  NoToken,
  \* catalogue
  Row, TableOf, Column, InitialRows, RowRequest, RowWorkloads, RowCall, Null,
  \* quotations
  Quotation, QuotationRequest, QuotationOp, OnQuotation, QuotationWorkloads,
  \* costs
  Warehouse, Document, PurchasePrice, Drafts

VARIABLES
  part,
  tenants, stage, hasTable, recorded, ran, admin, stamp, conn, host, tenantPc, todo, migration, dumped,
  tenantReply,
  request, at, schema, reply, result,
  users, active, password, roles, userRoles, rolePermissions, tokens, revoked, codes, consumed, device, userPc, userReply,
  sent, counted, snapshot, before,
  rows, files, rowPc, rowReply, found, overlapping,
  status, orders, quotationPc, quotationReply, overlapped,
  balance, ledger, documentPc, live, stale, rounded

tenantVars    == <<tenants, stage, hasTable, recorded, ran, admin, stamp, conn, host, tenantPc, todo,
                   migration, dumped, tenantReply>>
requestVars   == <<request, at, schema, reply, result>>
userVars      == <<users, active, password, roles, userRoles, rolePermissions, tokens, revoked, codes, consumed, device,
                   userPc, userReply, sent, counted, snapshot, before>>
catalogueVars == <<rows, files, rowPc, rowReply, found, overlapping>>
quotationVars == <<status, orders, quotationPc, quotationReply, overlapped>>
costVars      == <<balance, ledger, documentPc, live, stale, rounded>>

-----------------------------------------------------------------------------
Tenants == INSTANCE TenantLifecycle WITH
  Workloads <- TenantWorkloads, pc <- tenantPc, at <- migration, reply <- tenantReply

Requests == INSTANCE Requests

Users == INSTANCE Identity WITH
  Role <- UserRole, Request <- UserRequest, Workloads <- UserWorkloads, Op <- UserOp, By <- UserBy,
  On <- UserOn, pc <- userPc, reply <- userReply

Catalogue == INSTANCE Catalogue WITH
  Request <- RowRequest, Workloads <- RowWorkloads, Call <- RowCall, pc <- rowPc, reply <- rowReply

Quotations == INSTANCE Quotations WITH
  Request <- QuotationRequest, Workloads <- QuotationWorkloads, Op <- QuotationOp, On <- OnQuotation,
  pc <- quotationPc, reply <- quotationReply

Costs == INSTANCE StockCosts WITH pc <- documentPc

ASSUME ApplicationAssumption ==
  /\ Tenants!LifecycleAssumption /\ Requests!RequestsAssumption /\ Users!IdentityAssumption
  /\ Catalogue!CatalogueAssumption /\ Quotations!QuotationAssumption /\ Costs!CostsAssumption

Init ==
  /\ part \in Part
  /\ IF part = "tenants"    THEN Tenants!Init    ELSE Tenants!Begin({}) /\ hasTable = {}
  /\ IF part = "requests"   THEN Requests!Init   ELSE Requests!Begin(None)
  /\ IF part = "users"      THEN Users!Init      ELSE Users!Begin({})
  /\ IF part = "catalogue"  THEN Catalogue!Init  ELSE Catalogue!Begin({})
  /\ IF part = "quotations" THEN Quotations!Init ELSE Quotations!Begin({})
  /\ IF part = "costs"      THEN Costs!Init      ELSE Costs!Begin({})

Next ==
  /\ UNCHANGED part
  /\ \/ part = "tenants" /\ Tenants!Next
        /\ UNCHANGED <<requestVars, userVars, catalogueVars, quotationVars, costVars>>
     \/ part = "requests" /\ Requests!Next
        /\ UNCHANGED <<tenantVars, userVars, catalogueVars, quotationVars, costVars>>
     \/ part = "users" /\ Users!Next
        /\ UNCHANGED <<tenantVars, requestVars, catalogueVars, quotationVars, costVars>>
     \/ part = "catalogue" /\ Catalogue!Next
        /\ UNCHANGED <<tenantVars, requestVars, userVars, quotationVars, costVars>>
     \/ part = "quotations" /\ Quotations!Next
        /\ UNCHANGED <<tenantVars, requestVars, userVars, catalogueVars, costVars>>
     \/ part = "costs" /\ Costs!Next
        /\ UNCHANGED <<tenantVars, requestVars, userVars, catalogueVars, quotationVars>>

vars == <<part, tenantVars, requestVars, userVars, catalogueVars, quotationVars, costVars>>

Spec == Init /\ [][Next]_vars

FairSpec == Spec /\ Tenants!Fairness

-----------------------------------------------------------------------------
(* The properties of the parts, under the names the configurations use.    *)

\* Every variable of every part has its type.
TypeOK == Tenants!TypeOK /\ Requests!TypeOK /\ Users!TypeOK /\ Catalogue!TypeOK /\ Quotations!TypeOK
          /\ Costs!TypeOK

\* A tenant that requests can reach has schema, seed, migrations and an Admin, whatever failed on the way.
ActiveTenantIsComplete == Tenants!ActiveTenantIsComplete

\* schema_migrations lists what has run, and everything ran once, although sign-up and runner overlap.
RecordedIsWhatRan == Tenants!RecordedIsWhatRan

\* Admin reaches every route, a Viewer writes nothing, the audit log is for Admin: after any order of scripts.
RolesKeepTheirLimits == Tenants!RolesKeepTheirLimits

\* Every sign-up, migration run and request ends, unless sign-ups on tenants' hosts hold the whole pool.
ProcessesEnd == Tenants!ProcessesEnd

\* A sign-up never works on a connection that carries a previous user (refuted).
NeverCarriesPreviousUser == Tenants!NeverCarriesPreviousUser

\* A request that needs a user is served with the data of the company in its token, and only if that is active.
ServedByItsCompany == Requests!ServedByItsCompany

\* Whatever the staff do to each other at the same time, an active Admin remains (unless two requests overlap).
AnAdminRemains == Users!AnAdminRemains

\* A refresh token or one-time code works for no request that begins after it was used.
NothingIsUsedTwice == Users!NothingIsUsedTwice

\* No session from before a new password or a deactivation goes on after it.
OldSessionsEnd == Users!SessionsEndWithPassword /\ Users!DeactivatedGetsNoSession

\* A user has the roles that were set last, and is not there after a refusal (unless requests overlap).
UsersAreAsTold == Users!UsersAreAsTold

\* A device keeps a token that can be refreshed, however its refreshes overlap, until somebody ends the
\* session; it keeps none only if a refresh got no answer, or was refused for that or for another one.
ClientStaysLoggedIn == Users!ClientStaysLoggedIn

\* The file of every image row is there, through uploads and removals that overlap or fail.
ImagesHaveFiles == Catalogue!ImagesHaveFiles

\* A product that had a primary image and whose images stay has one, and one only, once requests end.
PrimaryImageIsKept == Catalogue!PrimaryImageIsKept

\* A scan that nothing overlaps finds the product of the barcode, and nothing if there is none.
ScanFindsProduct == Catalogue!ScanFindsProduct

\* What a client may cause is answered as its error, never as success, and as 500 only where nothing but
\* PostgreSQL refuses the value.
ErrorsAreTold == Requests!ResultsAreTold /\ Catalogue!ConstraintsAreTold

\* A quotation becomes a sales order at most once (unless requests overlap), and only after it was accepted.
OneOrderPerQuotation == Quotations!OneOrderPerQuotation

\* Average costs stay within the prices paid, and the stock is worth what the ledger says.
StockIsWorthWhatWasPaid == Costs!StockIsWorthWhatWasPaid
=============================================================================
